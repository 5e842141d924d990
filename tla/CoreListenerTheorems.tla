------------------------ MODULE CoreListenerTheorems ------------------------
(***************************************************************************)
(* Proofs about the way of push notifications from a Xaya Core node to the *)
(* PendingManager, for every tree of blocks, every set of transactions and *)
(* every number of messages under way.                                     *)
(***************************************************************************)
EXTENDS CoreListener, BlocksTheorems

(* A message is dealt with by what it tells. *)
LEMMA MessageType ==
    ASSUME NEW m \in Message
    PROVE  /\ m.topic \in Topic
           /\ m.topic = "hashblock" => m.payload \in Block
           /\ m.topic = "rawtx" => m.payload \in Tx
  BY DEF Message, Topic

(* The tip known after some of the messages does not depend on later ones. *)
LEMMA KnowsAppend ==
    ASSUME NEW first, NEW m \in Seq(Message), NEW e \in Message,
           NEW k \in 0 .. Len(m), NEW b \in Block
    PROVE  Knows(first, Append(m, e), k, b) <=> Knows(first, m, k, b)
  <1>1. \A i \in 1 .. k : Append(m, e)[i] = m[i]
    OBVIOUS
  <1> QED BY <1>1 DEF Knows

(* A new tip, announced last, is what a reader of all messages knows. *)
LEMMA KnowsNewTip ==
    ASSUME NEW first, NEW m \in Seq(Message), NEW e \in Message, e.topic = "hashblock",
           NEW b \in Block, Knows(first, Append(m, e), Len(m) + 1, b)
    PROVE  b = e.payload
  <1>1. Append(m, e)[Len(m) + 1] = e /\ Len(m) \in Nat
    OBVIOUS
  <1>2. Len(m) + 1 \in 1 .. Len(m) + 1
    BY <1>1
  <1>3. PICK j \in 1 .. Len(m) + 1 :
           /\ Append(m, e)[j].payload = b
           /\ \A i \in j + 1 .. Len(m) + 1 : Append(m, e)[i].topic # "hashblock"
    BY <1>1, <1>2 DEF Knows
  <1>4. j = Len(m) + 1
    BY <1>1, <1>3
  <1> QED BY <1>1, <1>3, <1>4

(* Other messages do not change it. *)
LEMMA KnowsOther ==
    ASSUME NEW first, NEW m \in Seq(Message), NEW e \in Message, e.topic # "hashblock",
           NEW b \in Block, Knows(first, Append(m, e), Len(m) + 1, b)
    PROVE  Knows(first, m, Len(m), b)
  <1>1. Append(m, e)[Len(m) + 1] = e /\ Len(m) \in Nat
    OBVIOUS
  <1>2. \A i \in 1 .. Len(m) : Append(m, e)[i] = m[i]
    OBVIOUS
  <1> QED BY <1>1, <1>2 DEF Knows

(* The reader takes the first message, and the tip it knows after it. *)
LEMMA KnowsTail ==
    ASSUME NEW first, NEW second, NEW m \in Seq(Message), m # <<>>,
           \/ m[1].topic # "hashblock" /\ second = first
           \/ m[1].topic = "hashblock" /\ second = m[1].payload
           \/ second = NoBlock,
           NEW k \in 0 .. Len(m) - 1, NEW b \in Block, Knows(second, Tail(m), k, b)
    PROVE  Knows(first, m, k + 1, b)
  <1>1. /\ Len(m) \in Nat /\ Len(m) > 0
        /\ \A i \in 1 .. k : Tail(m)[i] = m[i + 1]
    OBVIOUS
  <1>2. CASE \A i \in 1 .. k : Tail(m)[i].topic # "hashblock"
    <2>1. second = b
      BY <1>2 DEF Knows
    <2>2. \A i \in 2 .. k + 1 : m[i].topic # "hashblock"
      <3> SUFFICES ASSUME NEW i \in 2 .. k + 1
                   PROVE  m[i].topic # "hashblock"
        OBVIOUS
      <3>1. i - 1 \in 1 .. k /\ m[i] = Tail(m)[i - 1]
        BY <1>1
      <3> QED BY <1>2, <3>1
    <2>3. second # NoBlock
      BY <2>1, BlocksAssumption
    <2> QED BY <2>1, <2>2, <2>3 DEF Knows
  <1>3. CASE \E i \in 1 .. k : Tail(m)[i].topic = "hashblock"
    <2>1. PICK j \in 1 .. k :
             /\ Tail(m)[j].topic = "hashblock" /\ Tail(m)[j].payload = b
             /\ \A i \in j + 1 .. k : Tail(m)[i].topic # "hashblock"
      BY <1>3 DEF Knows
    <2>2. j + 1 \in 1 .. k + 1 /\ m[j + 1].topic = "hashblock" /\ m[j + 1].payload = b
      BY <1>1, <2>1
    <2>3. \A i \in (j + 1) + 1 .. k + 1 : m[i].topic # "hashblock"
      <3> SUFFICES ASSUME NEW i \in (j + 1) + 1 .. k + 1
                   PROVE  m[i].topic # "hashblock"
        OBVIOUS
      <3>1. i - 1 \in j + 1 .. k /\ i - 1 \in 1 .. k /\ m[i] = Tail(m)[i - 1]
        BY <1>1
      <3> QED BY <2>1, <3>1
    <2> QED BY <2>2, <2>3 DEF Knows
  <1> QED BY <1>2, <1>3

LEMMA FunctionIsSeq ==
    ASSUME NEW S, NEW n \in Nat, NEW f \in [1 .. n -> S]
    PROVE  f \in Seq(S) /\ Len(f) = n
  OBVIOUS

(* A new tip is announced. *)
LEMMA InOrderNewTip ==
    ASSUME NEW first, NEW m \in Seq(Message), NEW last, InOrder(first, m, last),
           NEW e \in Message, e.topic = "hashblock"
    PROVE  InOrder(first, Append(m, e), e.payload)
  <1>1. /\ Len(m) \in Nat /\ Len(Append(m, e)) = Len(m) + 1
        /\ \A i \in 1 .. Len(m) : Append(m, e)[i] = m[i]
        /\ Append(m, e)[Len(m) + 1] = e
    OBVIOUS
  <1>2. \A b \in Block : Knows(first, Append(m, e), Len(m) + 1, b) => b = e.payload
    BY KnowsNewTip
  <1>3. ASSUME NEW i \in 1 .. Len(m) + 1, NEW b \in Block,
               Append(m, e)[i].topic = "rawtx", Knows(first, Append(m, e), i - 1, b)
        PROVE  Append(m, e)[i].payload \notin Confirmed(b)
    <2>1. i \in 1 .. Len(m) /\ i - 1 \in 0 .. Len(m)
      BY <1>1, <1>3
    <2>2. Knows(first, m, i - 1, b)
      BY <1>3, <2>1, KnowsAppend
    <2> QED BY <1>1, <1>3, <2>1, <2>2 DEF InOrder
  <1> QED BY <1>1, <1>2, <1>3 DEF InOrder

(* A transaction is announced that the node's tip has not confirmed. *)
LEMMA InOrderNewTx ==
    ASSUME NEW first, NEW m \in Seq(Message), NEW last \in Block, InOrder(first, m, last),
           NEW e \in Message, e.topic = "rawtx", e.payload \notin Confirmed(last)
    PROVE  InOrder(first, Append(m, e), last)
  <1>1. /\ Len(m) \in Nat /\ Len(Append(m, e)) = Len(m) + 1
        /\ \A i \in 1 .. Len(m) : Append(m, e)[i] = m[i]
        /\ Append(m, e)[Len(m) + 1] = e
    OBVIOUS
  <1>2. \A b \in Block : Knows(first, Append(m, e), Len(m) + 1, b) => b = last
    BY KnowsOther DEF InOrder
  <1>3. ASSUME NEW i \in 1 .. Len(m) + 1, NEW b \in Block,
               Append(m, e)[i].topic = "rawtx", Knows(first, Append(m, e), i - 1, b)
        PROVE  Append(m, e)[i].payload \notin Confirmed(b)
    <2>1. i - 1 \in 0 .. Len(m)
      BY <1>1
    <2>2. Knows(first, m, i - 1, b)
      BY <1>3, <2>1, KnowsAppend
    <2>3. CASE i \in 1 .. Len(m)
      BY <1>1, <1>3, <2>2, <2>3 DEF InOrder
    <2>4. CASE i = Len(m) + 1
      <3>1. b = last
        BY <1>1, <2>2, <2>4 DEF InOrder
      <3> QED BY <1>1, <2>4, <3>1
    <2> QED BY <1>1, <2>3, <2>4
  <1> QED BY <1>1, <1>2, <1>3 DEF InOrder

(* The first message is handled. *)
LEMMA InOrderTail ==
    ASSUME NEW first, NEW second, NEW m \in Seq(Message), NEW last, m # <<>>,
           InOrder(first, m, last),
           \/ m[1].topic # "hashblock" /\ second = first
           \/ m[1].topic = "hashblock" /\ second = m[1].payload
           \/ second = NoBlock
    PROVE  InOrder(second, Tail(m), last)
  <1>1. /\ Len(m) \in Nat /\ Len(m) > 0 /\ Len(Tail(m)) = Len(m) - 1
        /\ \A i \in 1 .. Len(m) - 1 : Tail(m)[i] = m[i + 1]
    OBVIOUS
  <1>2. \A k \in 0 .. Len(m) - 1, b \in Block :
           Knows(second, Tail(m), k, b) => Knows(first, m, k + 1, b)
    BY KnowsTail
  <1>3. \A b \in Block : Knows(second, Tail(m), Len(m) - 1, b) => b = last
    BY <1>1, <1>2 DEF InOrder
  <1>4. ASSUME NEW i \in 1 .. Len(m) - 1, NEW b \in Block,
               Tail(m)[i].topic = "rawtx", Knows(second, Tail(m), i - 1, b)
        PROVE  Tail(m)[i].payload \notin Confirmed(b)
    <2>1. i - 1 \in 0 .. Len(m) - 1 /\ (i - 1) + 1 = i /\ (i + 1) - 1 = i
          /\ i + 1 \in 1 .. Len(m)
      BY <1>1
    <2>2. Knows(first, m, i, b)
      BY <1>2, <1>4, <2>1
    <2> QED BY <1>1, <1>4, <2>1, <2>2 DEF InOrder
  <1> QED BY <1>1, <1>3, <1>4 DEF InOrder

-----------------------------------------------------------------------------
LEMMA InitInv ==
    ASSUME Init
    PROVE  Inv
  <1>1. nodeBlocks \subseteq Block
    BY AncType DEF Init
  <1>2. TypeOK
    <2>1. listeners \in Seq(Listener) /\ pendingsQueue \in Seq(Tx)
      BY DEF Init, ManagerInit
    <2>2. callbacks \in BOOLEAN /\ lost \in BOOLEAN /\ threw \in BOOLEAN
      BY DEF Init, ManagerInit
    <2>3. sent \subseteq Tx \X Block
      BY DEF Init, ManagerInit
    <2> QED BY <1>1, <2>1, <2>2, <2>3 DEF Init, ManagerInit, TypeOK
  <1>3. OneSocket
    BY DEF Init, OneSocket
  <1>4. NoneConfirmed
    BY DEF Init, ManagerInit, NoneConfirmed, Transactions
  <1>5. QueueKeptOnlyByThrow
    BY DEF Init, ManagerInit, QueueKeptOnlyByThrow, QueueEmptyWhenSynced
  <1>6. \A i \in 1 .. Len(listeners) : InOrder(notificationTip, listeners[i].messages, nodeTip)
    BY DEF Init
  <1>7. notificationTip = NoBlock
    BY DEF Init, ManagerInit
  <1> QED BY <1>2, <1>3, <1>4, <1>5, <1>6, <1>7 DEF Inv

(* A message is published: it gets to those who listen to its topic. *)
LEMMA PublishListeners ==
    ASSUME TypeOK, NEW topic \in Topic, NEW payload,
           [topic |-> topic, payload |-> payload] \in Message,
           Publish(topic, payload), UNCHANGED notifier
    PROVE  /\ listeners' \in Seq(Listener) /\ Len(listeners') = Len(listeners)
           /\ lost' \in BOOLEAN /\ (lost => lost')
           /\ \A i \in 1 .. Len(listeners) :
                 /\ listeners'[i].addr = listeners[i].addr
                 /\ listeners'[i].topics = listeners[i].topics
                 /\ ~ lost' /\ Listens(listeners[i], topic)
                       => listeners'[i].messages =
                             Append(listeners[i].messages,
                                    [topic |-> topic, payload |-> payload])
                 /\ ~ Listens(listeners[i], topic) => listeners'[i] = listeners[i]
  <1> DEFINE e == [topic |-> topic, payload |-> payload]
  <1>1. CASE /\ UNCHANGED lost
             /\ listeners' = [i \in DOMAIN listeners |->
                    IF Listens(listeners[i], topic)
                    THEN [listeners[i] EXCEPT !.messages = Append(@, e)]
                    ELSE listeners[i]]
    <2>1. Len(listeners) \in Nat /\ DOMAIN listeners = 1 .. Len(listeners)
      BY DEF TypeOK
    <2>2. \A i \in 1 .. Len(listeners) : listeners[i] \in Listener
      BY <2>1 DEF TypeOK
    <2>3. \A l \in Listener :
             /\ [l EXCEPT !.messages = Append(@, e)] \in Listener
             /\ [l EXCEPT !.messages = Append(@, e)].addr = l.addr
             /\ [l EXCEPT !.messages = Append(@, e)].topics = l.topics
             /\ [l EXCEPT !.messages = Append(@, e)].messages = Append(l.messages, e)
      <3> SUFFICES ASSUME NEW l \in Listener
                   PROVE  /\ [l EXCEPT !.messages = Append(@, e)] \in Listener
                          /\ [l EXCEPT !.messages = Append(@, e)].addr = l.addr
                          /\ [l EXCEPT !.messages = Append(@, e)].topics = l.topics
                          /\ [l EXCEPT !.messages = Append(@, e)].messages
                                = Append(l.messages, e)
        OBVIOUS
      <3>1. e \in Message
        OBVIOUS
      <3> HIDE DEF e
      <3>2. l.messages \in Seq(Message)
        BY DEF Listener
      <3>3. Append(l.messages, e) \in Seq(Message)
        BY <3>1, <3>2
      <3> QED BY <3>3 DEF Listener
    <2>4. listeners' \in [1 .. Len(listeners) -> Listener]
      BY <1>1, <2>1, <2>2, <2>3
    <2>5. listeners' \in Seq(Listener) /\ Len(listeners') = Len(listeners)
      BY <2>1, <2>4, FunctionIsSeq
    <2>6. \A i \in 1 .. Len(listeners) :
             listeners'[i] = IF Listens(listeners[i], topic)
                             THEN [listeners[i] EXCEPT !.messages = Append(@, e)]
                             ELSE listeners[i]
      BY <1>1, <2>1
    <2> QED BY <1>1, <2>2, <2>3, <2>5, <2>6 DEF TypeOK
  <1>2. CASE lost' = TRUE /\ UNCHANGED listeners
    BY <1>2 DEF TypeOK
  <1> QED BY <1>1, <1>2 DEF Publish

(* The node switches to another tip. *)
LEMMA NodeNewTipInv ==
    ASSUME Inv, NEW b \in Block, NodeNewTip(b)
    PROVE  Inv'
  <1> DEFINE e == [topic |-> "hashblock", payload |-> b]
  <1>1. /\ nodeTip' = b /\ nodeBlocks' = nodeBlocks \cup Anc[b]
        /\ UNCHANGED <<notifier, mainPc, callbacks, manager>>
        /\ Publish("hashblock", b) /\ e \in Message /\ TypeOK
    BY DEF NodeNewTip, Message, Inv
  <1>2. /\ listeners' \in Seq(Listener) /\ Len(listeners') = Len(listeners)
        /\ lost' \in BOOLEAN /\ (lost => lost')
        /\ \A i \in 1 .. Len(listeners) :
              /\ listeners'[i].addr = listeners[i].addr
              /\ listeners'[i].topics = listeners[i].topics
              /\ ~ lost' /\ Listens(listeners[i], "hashblock")
                    => listeners'[i].messages = Append(listeners[i].messages, e)
    BY <1>1, PublishListeners DEF Topic
  <1>3. /\ UNCHANGED <<chainstateTip, notificationTip, pendingsQueue, sent, threw>>
        /\ listeners' = <<>> <=> listeners = <<>>
    BY <1>1, <1>2 DEF manager, TypeOK
  <1>4. TypeOK'
    BY <1>1, <1>2, <1>3, AncType DEF TypeOK
  <1>5. OneAddress' => OneAddress /\ OneSocket /\ OneSocket'
    BY <1>1, <1>2, <1>3 DEF Inv, OneAddress, OneSocket
  <1>6. ASSUME OneAddress', ~ lost'
        PROVE  /\ \A i \in 1 .. Len(listeners') :
                     InOrder(notificationTip', listeners'[i].messages, nodeTip')
               /\ NoneConfirmed'
    <2>1. OneSocket /\ OneAddress /\ ~ lost /\ NoneConfirmed
      BY <1>2, <1>5, <1>6 DEF Inv
    <2>2. ASSUME NEW i \in 1 .. Len(listeners')
          PROVE  InOrder(notificationTip', listeners'[i].messages, nodeTip')
      <3>1. i \in 1 .. Len(listeners) /\ listeners[i] \in Listener
        BY <1>1, <1>2, <2>2 DEF TypeOK
      <3>2. Listens(listeners[i], "hashblock")
        BY <2>1, <3>1 DEF OneSocket, Listens
      <3>3. listeners'[i].messages = Append(listeners[i].messages, e)
        BY <1>2, <1>6, <3>1, <3>2
      <3>4. InOrder(notificationTip, listeners[i].messages, nodeTip)
        BY <2>1, <3>1 DEF Inv
      <3>5. listeners[i].messages \in Seq(Message)
        BY <3>1 DEF Listener
      <3>6. InOrder(notificationTip, Append(listeners[i].messages, e), e.payload)
        BY <1>1, <3>4, <3>5, InOrderNewTip
      <3> QED BY <1>1, <1>3, <3>3, <3>6
    <2>3. NoneConfirmed'
      BY <1>3, <2>1 DEF NoneConfirmed
    <2> QED BY <2>2, <2>3
  <1>7. QueueKeptOnlyByThrow'
    BY <1>3 DEF Inv, QueueKeptOnlyByThrow, QueueEmptyWhenSynced
  <1>8. (listeners = <<>> \/ ~ callbacks => notificationTip = NoBlock)'
    BY <1>1, <1>3 DEF Inv
  <1> QED BY <1>4, <1>5, <1>6, <1>7, <1>8 DEF Inv

(* The node announces a transaction that its tip has not confirmed. *)
LEMMA NodeNewTxInv ==
    ASSUME Inv, NEW x \in Tx, NodeNewTx(x)
    PROVE  Inv'
  <1> DEFINE e == [topic |-> "rawtx", payload |-> x]
  <1>1. /\ x \notin Confirmed(nodeTip)
        /\ UNCHANGED <<node, mainPc, callbacks, manager>>
        /\ Publish("rawtx", x) /\ e \in Message /\ TypeOK
    BY DEF NodeNewTx, Message, Inv
  <1>2. /\ listeners' \in Seq(Listener) /\ Len(listeners') = Len(listeners)
        /\ lost' \in BOOLEAN /\ (lost => lost')
        /\ \A i \in 1 .. Len(listeners) :
              /\ listeners'[i].addr = listeners[i].addr
              /\ listeners'[i].topics = listeners[i].topics
              /\ ~ lost' /\ Listens(listeners[i], "rawtx")
                    => listeners'[i].messages = Append(listeners[i].messages, e)
              /\ ~ Listens(listeners[i], "rawtx") => listeners'[i] = listeners[i]
    BY <1>1, PublishListeners DEF Topic, node
  <1>3. /\ UNCHANGED <<chainstateTip, notificationTip, pendingsQueue, sent, threw>>
        /\ UNCHANGED <<nodeTip, nodeBlocks, notifier>>
        /\ listeners' = <<>> <=> listeners = <<>>
    BY <1>1, <1>2 DEF manager, node, TypeOK
  <1>4. TypeOK'
    BY <1>1, <1>2, <1>3 DEF TypeOK
  <1>5. OneAddress' => OneAddress /\ OneSocket'
    BY <1>1, <1>2, <1>3 DEF Inv, OneAddress, OneSocket
  <1>6. ASSUME OneAddress', ~ lost'
        PROVE  /\ \A i \in 1 .. Len(listeners') :
                     InOrder(notificationTip', listeners'[i].messages, nodeTip')
               /\ NoneConfirmed'
    <2>1. OneAddress /\ ~ lost /\ NoneConfirmed
      BY <1>2, <1>5, <1>6 DEF Inv
    <2>2. ASSUME NEW i \in 1 .. Len(listeners')
          PROVE  InOrder(notificationTip', listeners'[i].messages, nodeTip')
      <3>1. i \in 1 .. Len(listeners) /\ listeners[i] \in Listener
        BY <1>1, <1>2, <2>2 DEF TypeOK
      <3>2. InOrder(notificationTip, listeners[i].messages, nodeTip)
        BY <2>1, <3>1 DEF Inv
      <3>3. listeners[i].messages \in Seq(Message) /\ nodeTip \in Block
        BY <1>1, <3>1 DEF Listener, TypeOK
      <3>4. InOrder(notificationTip, Append(listeners[i].messages, e), nodeTip)
        BY <1>1, <3>2, <3>3, InOrderNewTx
      <3> QED BY <1>2, <1>3, <1>6, <3>1, <3>2, <3>4
    <2>3. NoneConfirmed'
      BY <1>3, <2>1 DEF NoneConfirmed
    <2> QED BY <2>2, <2>3
  <1>7. QueueKeptOnlyByThrow'
    BY <1>3 DEF Inv, QueueKeptOnlyByThrow, QueueEmptyWhenSynced
  <1>8. (listeners = <<>> \/ ~ callbacks => notificationTip = NoBlock)'
    BY <1>1, <1>3 DEF Inv
  <1> QED BY <1>4, <1>5, <1>6, <1>7, <1>8 DEF Inv

(* The address of a notifier. *)
LEMMA NotifierAddress ==
    ASSUME TypeOK, NEW topic \in Topic
    PROVE  notifier[topic] \in Address
  BY DEF TypeOK, Address

(* The last one of some places in a sequence. *)
LEMMA LastPlace ==
    ASSUME NEW k \in Nat, NEW I \in SUBSET (1 .. k), I # {}
    PROVE  Max(I) \in I
  <1> DEFINE D == {d \in Nat : k - d \in I}
  <1>1. PICK i \in I : TRUE
    OBVIOUS
  <1>2. k - i \in D
    OBVIOUS
  <1>3. PICK d \in D : \A e \in D : d =< e
    BY <1>2, NatMin
  <1>4. k - d \in I /\ d \in Nat
    BY <1>3
  <1>5. \A y \in I : k - d >= y
    <2> SUFFICES ASSUME NEW y \in I
                 PROVE  k - d >= y
      OBVIOUS
    <2>1. k - y \in D /\ k - y \in Nat /\ y \in Nat
      OBVIOUS
    <2>2. d =< k - y
      BY <1>3, <2>1
    <2> QED BY <1>4, <2>1, <2>2
  <1> QED BY <1>4, <1>5 DEF Max

(* One element of a sequence is replaced. *)
LEMMA ReplaceInSeq ==
    ASSUME NEW S, NEW s \in Seq(S), NEW n \in 1 .. Len(s), NEW e \in S
    PROVE  /\ [s EXCEPT ![n] = e] \in Seq(S) /\ Len([s EXCEPT ![n] = e]) = Len(s)
           /\ \A i \in 1 .. Len(s) : [s EXCEPT ![n] = e][i] = IF i = n THEN e ELSE s[i]
  OBVIOUS

(* One of the listeners gets another topic. *)
LEMMA AddTopic ==
    ASSUME NEW all \in Seq(Listener), NEW n \in 1 .. Len(all), NEW topic \in Topic
    PROVE  LET new == [all EXCEPT ![n].topics = @ \cup {topic}] IN
           /\ new \in Seq(Listener) /\ Len(new) = Len(all)
           /\ topic \in new[n].topics
           /\ \A i \in 1 .. Len(all) : /\ new[i].addr = all[i].addr
                                       /\ all[i].topics \subseteq new[i].topics
                                       /\ new[i].messages = all[i].messages
  <1> DEFINE l == [all[n] EXCEPT !.topics = @ \cup {topic}]
             new == [all EXCEPT ![n].topics = @ \cup {topic}]
  <1>1. all[n] \in Listener
    OBVIOUS
  <1>2. /\ l \in Listener /\ l.addr = all[n].addr /\ l.messages = all[n].messages
        /\ l.topics = all[n].topics \cup {topic}
    BY <1>1 DEF Listener
  <1>3. new = [all EXCEPT ![n] = l]
    OBVIOUS
  <1> HIDE DEF l, new
  <1>4. /\ new \in Seq(Listener) /\ Len(new) = Len(all)
        /\ \A i \in 1 .. Len(all) : new[i] = IF i = n THEN l ELSE all[i]
    BY <1>2, <1>3, ReplaceInSeq
  <1>5. /\ topic \in new[n].topics
        /\ \A i \in 1 .. Len(all) : /\ new[i].addr = all[i].addr
                                    /\ all[i].topics \subseteq new[i].topics
                                    /\ new[i].messages = all[i].messages
    BY <1>2, <1>4
  <1> QED BY <1>4, <1>5 DEF new

(* Subscribing makes a listener unless one has the address already. *)
LEMMA SubscribeListeners ==
    ASSUME TypeOK, NEW topic \in Topic, Subscribe(topic),
           NEW all, all = GetListenerForAddress(notifier[topic])
    PROVE  /\ all \in Seq(Listener) /\ all # <<>>
           /\ listeners' \in Seq(Listener) /\ Len(listeners') = Len(all)
           /\ \A i \in 1 .. Len(all) : /\ listeners'[i].addr = all[i].addr
                                       /\ all[i].topics \subseteq listeners'[i].topics
                                       /\ listeners'[i].messages = all[i].messages
           /\ \E i \in 1 .. Len(all) : all[i].addr = notifier[topic]
                                       /\ topic \in listeners'[i].topics
  <1> DEFINE addr == notifier[topic]
             new == [addr |-> addr, topics |-> {}, messages |-> <<>>]
             I == {i \in 1 .. Len(all) : all[i].addr = addr}
             n == SelectLastInSeq(all, LAMBDA l : l.addr = addr)
  <1>1. new \in Listener /\ new.addr = addr
    BY NotifierAddress DEF Listener
  <1>2. listeners \in Seq(Listener) /\ Len(listeners) \in Nat
        /\ DOMAIN listeners = 1 .. Len(listeners)
    BY DEF TypeOK
  <1>3. listeners' = [all EXCEPT ![n].topics = @ \cup {topic}]
    BY DEF Subscribe
  <1>4. \/ all = listeners /\ \E i \in DOMAIN listeners : listeners[i].addr = addr
        \/ all = Append(listeners, new)
    BY DEF GetListenerForAddress
  <1>5. n = IF I # {} THEN Max(I) ELSE 0
    BY DEF SelectLastInSeq
  <1> HIDE DEF addr, new, n
  <1>6. all \in Seq(Listener) /\ Len(all) \in Nat /\ I # {}
    <2>1. CASE all = listeners /\ \E i \in DOMAIN listeners : listeners[i].addr = addr
      BY <1>2, <2>1
    <2>2. CASE all = Append(listeners, new)
      <3>1. all \in Seq(Listener) /\ Len(all) = Len(listeners) + 1
            /\ all[Len(listeners) + 1] = new
        BY <1>1, <1>2, <2>2
      <3>2. Len(listeners) + 1 \in I
        BY <1>1, <1>2, <3>1
      <3> QED BY <1>2, <3>1, <3>2
    <2> QED BY <1>4, <2>1, <2>2
  <1>7. n \in I
    <2>1. I \in SUBSET (1 .. Len(all))
      OBVIOUS
    <2> HIDE DEF I
    <2> QED BY <1>5, <1>6, <2>1, LastPlace
  <1>8. n \in 1 .. Len(all) /\ all[n].addr = addr
    BY <1>7
  <1> HIDE DEF I
  <1>9. /\ listeners' \in Seq(Listener) /\ Len(listeners') = Len(all)
        /\ topic \in listeners'[n].topics
        /\ \A i \in 1 .. Len(all) : /\ listeners'[i].addr = all[i].addr
                                    /\ all[i].topics \subseteq listeners'[i].topics
                                    /\ listeners'[i].messages = all[i].messages
    BY <1>3, <1>6, <1>8, AddTopic
  <1>10. all # <<>>
    BY <1>6, <1>8
  <1> QED BY <1>6, <1>8, <1>9, <1>10 DEF addr

(* Nothing is announced yet. *)
LEMMA InOrderEmpty ==
    ASSUME NEW last
    PROVE  InOrder(NoBlock, <<>>, last)
  BY BlocksAssumption DEF InOrder, Knows

(* What a step of the main program leaves alone. *)
LEMMA MainStepInv ==
    ASSUME Inv, UNCHANGED <<node, lost, manager>>,
           mainPc' \in {"pending", "run", "running"},
           callbacks' \in BOOLEAN, callbacks => callbacks',
           listeners' \in Seq(Listener),
           listeners' = <<>> => listeners = <<>>,
           OneAddress => OneSocket',
           OneAddress => \A i \in 1 .. Len(listeners') :
               \/ i \in 1 .. Len(listeners) /\ listeners'[i].messages = listeners[i].messages
               \/ listeners = <<>> /\ listeners'[i].messages = <<>>
    PROVE  Inv'
  <1>1. /\ UNCHANGED <<nodeTip, nodeBlocks, notifier, lost>>
        /\ UNCHANGED <<chainstateTip, notificationTip, pendingsQueue, sent, threw>>
    BY DEF node, manager
  <1>2. TypeOK'
    BY <1>1 DEF TypeOK, Inv
  <1>3. (listeners = <<>> \/ ~ callbacks => notificationTip = NoBlock)'
    BY <1>1 DEF Inv
  <1>4. OneAddress' = OneAddress
    BY <1>1 DEF OneAddress
  <1>5. ASSUME OneAddress, ~ lost
        PROVE  /\ \A i \in 1 .. Len(listeners') :
                     InOrder(notificationTip', listeners'[i].messages, nodeTip')
               /\ NoneConfirmed'
    <2>1. ASSUME NEW i \in 1 .. Len(listeners')
          PROVE  InOrder(notificationTip', listeners'[i].messages, nodeTip')
      <3>1. CASE i \in 1 .. Len(listeners) /\ listeners'[i].messages = listeners[i].messages
        BY <1>1, <1>5, <3>1 DEF Inv
      <3>2. CASE listeners = <<>> /\ listeners'[i].messages = <<>>
        <4>1. notificationTip = NoBlock
          BY <3>2 DEF Inv
        <4> QED BY <1>1, <3>2, <4>1, InOrderEmpty
      <3> QED BY <1>5, <2>1, <3>1, <3>2
    <2>2. NoneConfirmed'
      BY <1>1, <1>5 DEF Inv, NoneConfirmed
    <2> QED BY <2>1, <2>2
  <1>6. QueueKeptOnlyByThrow'
    BY <1>1 DEF Inv, QueueKeptOnlyByThrow, QueueEmptyWhenSynced
  <1> QED BY <1>1, <1>2, <1>3, <1>4, <1>5, <1>6 DEF Inv

(* The connector subscribes to new tips. *)
LEMMA StartChainInv ==
    ASSUME Inv, StartChain
    PROVE  Inv'
  <1>1. TypeOK /\ UNCHANGED <<node, lost, manager, callbacks>> /\ UNCHANGED notifier
        /\ mainPc = "start" /\ mainPc' = "pending"
    BY DEF Inv, StartChain, node
  <1>2. CASE notifier["hashblock"] = NoAddress /\ UNCHANGED listeners
    <2>1. OneAddress => OneSocket'
      BY <1>1, <1>2 DEF Inv, OneSocket
    <2> QED BY <1>1, <1>2, <2>1, MainStepInv DEF TypeOK
  <1>3. CASE Subscribe("hashblock")
    <2> DEFINE all == GetListenerForAddress(notifier["hashblock"])
               new == [addr |-> notifier["hashblock"], topics |-> {}, messages |-> <<>>]
    <2>1. /\ all \in Seq(Listener) /\ all # <<>>
          /\ listeners' \in Seq(Listener) /\ Len(listeners') = Len(all)
          /\ \A i \in 1 .. Len(all) : /\ listeners'[i].addr = all[i].addr
                                      /\ all[i].topics \subseteq listeners'[i].topics
                                      /\ listeners'[i].messages = all[i].messages
          /\ \E i \in 1 .. Len(all) : "hashblock" \in listeners'[i].topics
      BY <1>1, <1>3, SubscribeListeners DEF Topic
    <2>2. all = IF \E i \in DOMAIN listeners : listeners[i].addr = notifier["hashblock"]
                THEN listeners ELSE Append(listeners, new)
      BY DEF GetListenerForAddress
    <2>3. new.addr = notifier["hashblock"] /\ new.messages = <<>>
      OBVIOUS
    <2> HIDE DEF all, new
    <2>4. listeners' # <<>>
      BY <2>1
    <2>5. ASSUME OneAddress
          PROVE  /\ listeners = <<>> /\ Len(listeners') = 1
                 /\ listeners'[1].addr = notifier["hashblock"]
                 /\ "hashblock" \in listeners'[1].topics
                 /\ listeners'[1].messages = <<>>
      <3>1. listeners = <<>>
        BY <1>1, <2>5 DEF Inv, OneSocket
      <3>2. Len(all) = 1 /\ all[1] = new
        BY <2>2, <3>1
      <3> QED BY <2>1, <2>3, <3>1, <3>2
    <2>6. ASSUME OneAddress
          PROVE  OneSocket'
      <3>1. Len(listeners') = 1
        BY <2>5, <2>6
      <3>2. \A i \in 1 .. Len(listeners') : i = 1
        BY <3>1
      <3> QED BY <1>1, <2>4, <2>5, <2>6, <3>1, <3>2 DEF OneSocket
    <2> QED BY <1>1, <2>1, <2>4, <2>5, <2>6, MainStepInv, SMTT(30) DEF TypeOK
  <1> QED BY <1>2, <1>3 DEF StartChain

(* It subscribes to transactions: with the same listener, if it can. *)
LEMMA EnablePendingInv ==
    ASSUME Inv, EnablePending
    PROVE  Inv'
  <1>1. TypeOK /\ UNCHANGED <<node, lost, manager, callbacks>> /\ UNCHANGED notifier
        /\ mainPc = "pending" /\ mainPc' = "run"
    BY DEF Inv, EnablePending, node
  <1>2. CASE UNCHANGED listeners
    <2>1. OneAddress => OneSocket'
      BY <1>1, <1>2 DEF Inv, OneSocket
    <2> QED BY <1>1, <1>2, <2>1, MainStepInv DEF TypeOK
  <1>3. CASE notifier["rawtx"] # NoAddress /\ Subscribe("rawtx")
    <2> DEFINE all == GetListenerForAddress(notifier["rawtx"])
    <2>1. /\ all \in Seq(Listener) /\ all # <<>>
          /\ listeners' \in Seq(Listener) /\ Len(listeners') = Len(all)
          /\ \A i \in 1 .. Len(all) : /\ listeners'[i].addr = all[i].addr
                                      /\ all[i].topics \subseteq listeners'[i].topics
                                      /\ listeners'[i].messages = all[i].messages
      BY <1>1, <1>3, SubscribeListeners DEF Topic
    <2>2. (\E i \in DOMAIN listeners : listeners[i].addr = notifier["rawtx"])
             => all = listeners
      BY DEF GetListenerForAddress
    <2> HIDE DEF all
    <2>3. listeners' # <<>>
      BY <2>1
    <2>4. ASSUME OneAddress
          PROVE  all = listeners /\ OneSocket
      <3>1. OneSocket /\ listeners # <<>> /\ listeners \in Seq(Listener)
        BY <1>1, <1>3, <2>4 DEF Inv, OneSocket, OneAddress, TypeOK
      <3>2. 1 \in DOMAIN listeners /\ 1 \in 1 .. Len(listeners)
        BY <3>1
      <3>3. listeners[1].addr = notifier["rawtx"]
        BY <2>4, <3>1, <3>2 DEF OneSocket, OneAddress
      <3> QED BY <2>2, <3>1, <3>2, <3>3
    <2>5. OneAddress => OneSocket'
      BY <1>1, <2>1, <2>3, <2>4 DEF OneSocket
    <2> QED BY <1>1, <2>1, <2>3, <2>4, <2>5, MainStepInv DEF TypeOK
  <1> QED BY <1>2, <1>3 DEF EnablePending

(* The callbacks are set. *)
LEMMA SetCallbacksInv ==
    ASSUME Inv, SetCallbacks
    PROVE  Inv'
  <1>1. TypeOK /\ UNCHANGED <<node, lost, manager, listeners>> /\ UNCHANGED notifier
        /\ mainPc = "run" /\ mainPc' = "running" /\ callbacks' = TRUE
    BY DEF Inv, SetCallbacks, node
  <1>2. OneAddress => OneSocket'
    BY <1>1 DEF Inv, OneSocket
  <1> QED BY <1>1, <1>2, MainStepInv DEF TypeOK

(* A listener takes its first message. *)
LEMMA TakeMessage ==
    ASSUME NEW all \in Seq(Listener), NEW n \in 1 .. Len(all), all[n].messages # <<>>
    PROVE  LET new == [all EXCEPT ![n].messages = Tail(@)] IN
           /\ new \in Seq(Listener) /\ Len(new) = Len(all)
           /\ new[n].messages = Tail(all[n].messages)
           /\ \A i \in 1 .. Len(all) : /\ new[i].addr = all[i].addr
                                       /\ new[i].topics = all[i].topics
  <1> DEFINE l == [all[n] EXCEPT !.messages = Tail(@)]
             new == [all EXCEPT ![n].messages = Tail(@)]
  <1>1. all[n] \in Listener /\ all[n].messages \in Seq(Message)
    <2>1. all[n] \in Listener
      OBVIOUS
    <2> QED BY <2>1 DEF Listener
  <1>2. Tail(all[n].messages) \in Seq(Message)
    BY <1>1
  <1>3. /\ l \in Listener /\ l.addr = all[n].addr /\ l.topics = all[n].topics
        /\ l.messages = Tail(all[n].messages)
    BY <1>1, <1>2 DEF Listener
  <1>4. new = [all EXCEPT ![n] = l]
    OBVIOUS
  <1> HIDE DEF l, new
  <1>5. /\ new \in Seq(Listener) /\ Len(new) = Len(all)
        /\ \A i \in 1 .. Len(all) : new[i] = IF i = n THEN l ELSE all[i]
    BY <1>3, <1>4, ReplaceInSeq
  <1>6. /\ new[n].messages = Tail(all[n].messages)
        /\ \A i \in 1 .. Len(all) : /\ new[i].addr = all[i].addr
                                    /\ new[i].topics = all[i].topics
    BY <1>3, <1>5
  <1> QED BY <1>5, <1>6 DEF new

(* What a listener's thread does, apart from what the manager does. *)
LEMMA ReceiveMessageInv ==
    ASSUME Inv, NEW i \in DOMAIN listeners, NEW topic \in Topic, ReceiveMessage(i, topic),
           notificationTip' \in Block \cup {NoBlock},
           \/ topic # "hashblock" /\ notificationTip' = notificationTip
           \/ topic = "hashblock" /\ notificationTip' = Payload(i)
           \/ notificationTip' = NoBlock
    PROVE  /\ UNCHANGED <<nodeTip, nodeBlocks, notifier, mainPc, callbacks, lost>>
           /\ listeners' \in Seq(Listener) /\ listeners' # <<>> /\ listeners # <<>>
           /\ Payload(i) = listeners[i].messages[1].payload
           /\ topic = listeners[i].messages[1].topic
           /\ listeners[i].messages \in Seq(Message) /\ listeners[i].messages # <<>>
           /\ listeners[i].messages[1] \in Message
           /\ i \in 1 .. Len(listeners)
           /\ OneAddress' => OneAddress /\ OneSocket'
           /\ OneAddress /\ ~ lost => \A j \in 1 .. Len(listeners') :
                  InOrder(notificationTip', listeners'[j].messages, nodeTip')
  <1> DEFINE m == listeners[i].messages
             new == [listeners EXCEPT ![i].messages = Tail(@)]
  <1>1. TypeOK /\ UNCHANGED <<nodeTip, nodeBlocks, notifier, mainPc, callbacks, lost>>
    BY DEF Inv, ReceiveMessage, node
  <1>2. listeners \in Seq(Listener) /\ i \in 1 .. Len(listeners) /\ listeners[i] \in Listener
        /\ listeners # <<>> /\ Len(listeners) \in Nat
    BY <1>1 DEF TypeOK
  <1>3. m \in Seq(Message) /\ m # <<>> /\ Head(m).topic = topic
    BY <1>2 DEF ReceiveMessage, Listener
  <1>4. Head(m) = m[1] /\ m[1] \in Message /\ Payload(i) = m[1].payload
    <2>1. Payload(i) = Head(m).payload
      BY DEF Payload
    <2> HIDE DEF m
    <2>2. Head(m) = m[1] /\ m[1] \in Message
      BY <1>3
    <2> QED BY <2>1, <2>2
  <1>5. /\ new \in Seq(Listener) /\ Len(new) = Len(listeners)
        /\ new[i].messages = Tail(m)
        /\ \A j \in 1 .. Len(listeners) : /\ new[j].addr = listeners[j].addr
                                          /\ new[j].topics = listeners[j].topics
    BY <1>2, <1>3, TakeMessage
  <1>6. listeners' = new
    BY DEF ReceiveMessage
  <1> HIDE DEF m, new
  <1>7. listeners' # <<>>
    BY <1>2, <1>5, <1>6
  <1>8. OneAddress' => OneAddress /\ OneSocket'
    BY <1>1, <1>2, <1>5, <1>6, <1>7 DEF Inv, OneAddress, OneSocket
  <1>9. ASSUME OneAddress, ~ lost, NEW j \in 1 .. Len(listeners')
        PROVE  InOrder(notificationTip', listeners'[j].messages, nodeTip')
    <2>1. j = i
      BY <1>2, <1>5, <1>6, <1>9 DEF Inv, OneSocket
    <2>2. InOrder(notificationTip, m, nodeTip)
      BY <1>2, <1>9 DEF Inv, m
    <2>3. InOrder(notificationTip', Tail(m), nodeTip)
      BY <1>3, <1>4, <2>2, InOrderTail
    <2> QED BY <1>1, <1>5, <1>6, <2>1, <2>3
  <1> QED BY <1>1, <1>2, <1>3, <1>4, <1>5, <1>6, <1>7, <1>8, <1>9 DEF m

(* A new tip is notified. *)
LEMMA HandleHashBlockInv ==
    ASSUME Inv, NEW i \in DOMAIN listeners, HandleHashBlock(i)
    PROVE  Inv'
  <1>1. ReceiveMessage(i, "hashblock") /\ TypeOK
    BY DEF HandleHashBlock, Inv
  <1>2. Payload(i) \in Block
    <2>1. listeners[i] \in Listener /\ listeners[i].messages # <<>>
          /\ Head(listeners[i].messages).topic = "hashblock"
      BY <1>1 DEF TypeOK, ReceiveMessage
    <2>2. listeners[i].messages \in Seq(Message)
      BY <2>1 DEF Listener
    <2>3. Head(listeners[i].messages) \in Message
      BY <2>1, <2>2
    <2> QED BY <2>1, <2>3, MessageType DEF Payload
  <1>3. CASE callbacks /\ TipChanged(Payload(i))
    <2>1. /\ pendingsQueue' = <<>> /\ threw' = FALSE /\ notificationTip' = Payload(i)
          /\ UNCHANGED <<chainstateTip, sent>>
      BY <1>3 DEF TipChanged
    <2>2. /\ UNCHANGED <<nodeTip, nodeBlocks, notifier, mainPc, callbacks, lost>>
          /\ listeners' \in Seq(Listener) /\ listeners' # <<>>
          /\ OneAddress' => OneAddress /\ OneSocket'
          /\ OneAddress /\ ~ lost => \A j \in 1 .. Len(listeners') :
                 InOrder(notificationTip', listeners'[j].messages, nodeTip')
      BY <1>1, <1>2, <2>1, ReceiveMessageInv DEF Topic
    <2>3. TypeOK'
      <3>1. pendingsQueue' \in Seq(Tx)
        BY <2>1
      <3> QED BY <1>1, <1>2, <2>1, <2>2, <3>1 DEF TypeOK
    <2>4. NoneConfirmed \/ ~ OneAddress \/ lost
      BY DEF Inv
    <2>5. NoneConfirmed => NoneConfirmed'
      BY <2>1 DEF NoneConfirmed, Transactions
    <2>6. QueueKeptOnlyByThrow'
      BY <2>1 DEF QueueKeptOnlyByThrow, QueueEmptyWhenSynced
    <2>7. (listeners = <<>> \/ ~ callbacks => notificationTip = NoBlock)'
      BY <1>3, <2>2
    <2> QED BY <2>2, <2>3, <2>4, <2>5, <2>6, <2>7 DEF Inv
  <1>4. CASE ~ callbacks /\ UNCHANGED manager
    <2>1. UNCHANGED <<chainstateTip, notificationTip, pendingsQueue, sent, threw>>
          /\ notificationTip = NoBlock
      BY <1>4 DEF manager, Inv
    <2>2. /\ UNCHANGED <<nodeTip, nodeBlocks, notifier, mainPc, callbacks, lost>>
          /\ listeners' \in Seq(Listener) /\ listeners' # <<>>
          /\ OneAddress' => OneAddress /\ OneSocket'
          /\ OneAddress /\ ~ lost => \A j \in 1 .. Len(listeners') :
                 InOrder(notificationTip', listeners'[j].messages, nodeTip')
      BY <1>1, <2>1, ReceiveMessageInv DEF Topic
    <2>3. TypeOK'
      BY <1>1, <2>1, <2>2 DEF TypeOK
    <2>4. NoneConfirmed \/ ~ OneAddress \/ lost
      BY DEF Inv
    <2>5. NoneConfirmed => NoneConfirmed'
      BY <2>1 DEF NoneConfirmed
    <2>6. QueueKeptOnlyByThrow'
      BY <2>1 DEF Inv, QueueKeptOnlyByThrow, QueueEmptyWhenSynced
    <2> QED BY <2>1, <2>2, <2>3, <2>4, <2>5, <2>6 DEF Inv
  <1> QED BY <1>3, <1>4 DEF HandleHashBlock

(* A transaction is notified. *)
LEMMA HandleRawTxInv ==
    ASSUME Inv, NEW i \in DOMAIN listeners, HandleRawTx(i)
    PROVE  Inv'
  <1> DEFINE x == Payload(i)
  <1>1. ReceiveMessage(i, "rawtx") /\ TypeOK
    BY DEF HandleRawTx, Inv
  <1>2. UNCHANGED notificationTip
    BY DEF HandleRawTx, PendingMoves, PendingMovesIgnored, PendingMovesSent,
           PendingMovesQueued, manager
  <1>3. /\ UNCHANGED <<nodeTip, nodeBlocks, notifier, mainPc, callbacks, lost>>
        /\ listeners' \in Seq(Listener) /\ listeners' # <<>> /\ listeners # <<>>
        /\ x = listeners[i].messages[1].payload
        /\ listeners[i].messages[1].topic = "rawtx"
        /\ listeners[i].messages \in Seq(Message) /\ listeners[i].messages # <<>>
        /\ listeners[i].messages[1] \in Message
        /\ i \in 1 .. Len(listeners)
        /\ OneAddress' => OneAddress /\ OneSocket'
        /\ OneAddress /\ ~ lost => \A j \in 1 .. Len(listeners') :
               InOrder(notificationTip', listeners'[j].messages, nodeTip')
    <2>1. "rawtx" \in Topic /\ notificationTip' \in Block \cup {NoBlock}
      BY <1>1, <1>2 DEF Topic, TypeOK
    <2> QED BY <1>1, <1>2, <2>1, ReceiveMessageInv
  <1>4. x \in Tx
    BY <1>3, MessageType
  <1>5. ASSUME OneAddress, ~ lost, notificationTip # NoBlock
        PROVE  x \notin Confirmed(notificationTip)
    <2> DEFINE m == listeners[i].messages
    <2>1. InOrder(notificationTip, m, nodeTip) /\ notificationTip \in Block
      BY <1>1, <1>3, <1>5 DEF Inv, TypeOK
    <2>2. Knows(notificationTip, m, 0, notificationTip)
      BY DEF Knows
    <2>3. 1 \in 1 .. Len(m) /\ 1 - 1 = 0
      BY <1>3
    <2> QED BY <1>3, <2>1, <2>2, <2>3 DEF InOrder
  <1> HIDE DEF x
  <1>6. \/ UNCHANGED manager
        \/ PendingMovesSent(x)
        \/ PendingMovesQueued(x)
    BY DEF HandleRawTx, PendingMoves, PendingMovesIgnored, x
  <1>7. /\ chainstateTip' = chainstateTip /\ pendingsQueue' \in Seq(Tx)
        /\ sent' \subseteq Tx \X Block /\ threw' \in BOOLEAN
        /\ QueueKeptOnlyByThrow'
        /\ OneAddress /\ ~ lost => NoneConfirmed'
    <2>1. CASE UNCHANGED manager
      <3>1. UNCHANGED <<chainstateTip, pendingsQueue, sent, threw>>
        BY <2>1 DEF manager
      <3>2. QueueKeptOnlyByThrow'
        BY <1>2, <3>1 DEF Inv, QueueKeptOnlyByThrow, QueueEmptyWhenSynced
      <3>3. OneAddress /\ ~ lost => NoneConfirmed'
        BY <1>2, <3>1 DEF Inv, NoneConfirmed
      <3> QED BY <1>1, <3>1, <3>2, <3>3 DEF TypeOK
    <2>2. CASE PendingMovesSent(x)
      <3>1. /\ UNCHANGED <<chainstateTip, pendingsQueue, threw>>
            /\ chainstateTip # NoBlock /\ chainstateTip = notificationTip
            /\ sent' = sent \/ sent' = sent \cup {<<x, chainstateTip>>}
        <4>1. {x} \X {chainstateTip} = {<<x, chainstateTip>>}
          OBVIOUS
        <4> QED BY <2>2, <4>1 DEF PendingMovesSent, SentWith
      <3>2. QueueKeptOnlyByThrow'
        BY <1>2, <3>1 DEF Inv, QueueKeptOnlyByThrow, QueueEmptyWhenSynced
      <3>3. OneAddress /\ ~ lost => NoneConfirmed'
        BY <1>2, <1>5, <3>1 DEF Inv, NoneConfirmed
      <3>4. <<x, chainstateTip>> \in Tx \X Block
        BY <1>1, <1>4, <3>1 DEF TypeOK
      <3> QED BY <1>1, <3>1, <3>2, <3>3, <3>4 DEF TypeOK
    <2>3. CASE PendingMovesQueued(x)
      <3>1. /\ UNCHANGED <<chainstateTip, sent, threw>> /\ chainstateTip # notificationTip
            /\ pendingsQueue' = Append(pendingsQueue, x) /\ pendingsQueue \in Seq(Tx)
        BY <1>1, <2>3 DEF PendingMovesQueued, TypeOK
      <3>2. QueueKeptOnlyByThrow'
        BY <1>2, <3>1 DEF QueueKeptOnlyByThrow, QueueEmptyWhenSynced
      <3>3. /\ pendingsQueue' \in Seq(Tx)
            /\ Transactions(pendingsQueue)' \subseteq Transactions(pendingsQueue) \cup {x}
        BY <1>4, <3>1 DEF Transactions
      <3>4. OneAddress /\ ~ lost => NoneConfirmed'
        BY <1>2, <1>5, <3>1, <3>3 DEF Inv, NoneConfirmed
      <3> QED BY <1>1, <3>1, <3>2, <3>3, <3>4 DEF TypeOK
    <2> QED BY <1>6, <2>1, <2>2, <2>3
  <1>8. TypeOK'
    BY <1>1, <1>2, <1>3, <1>7 DEF TypeOK
  <1>9. (listeners = <<>> \/ ~ callbacks => notificationTip = NoBlock)'
    BY <1>2, <1>3 DEF Inv
  <1> QED BY <1>3, <1>7, <1>8, <1>9 DEF Inv

(* The chainstate gets to another tip. *)
LEMMA SyncTipInv ==
    ASSUME Inv, NEW b \in Block, SyncTip(b)
    PROVE  Inv'
  <1>1. /\ TypeOK /\ UNCHANGED <<nodeTip, nodeBlocks, notifier>>
        /\ UNCHANGED <<mainPc, listeners, callbacks, lost, notificationTip>>
        /\ chainstateTip' = b
    BY DEF Inv, SyncTip, ChainstateTipChanged, node
  <1>2. pendingsQueue \in Seq(Tx) /\ sent \subseteq Tx \X Block
    BY <1>1 DEF TypeOK
  <1>3. Transactions(pendingsQueue) \subseteq Tx
    BY <1>2 DEF Transactions
  <1>4. \A n \in 1 .. Len(pendingsQueue) :
           Transactions(SubSeq(pendingsQueue, 1, n - 1)) \subseteq Transactions(pendingsQueue)
    <2> SUFFICES ASSUME NEW n \in 1 .. Len(pendingsQueue)
                 PROVE  Transactions(SubSeq(pendingsQueue, 1, n - 1))
                           \subseteq Transactions(pendingsQueue)
      OBVIOUS
    <2>1. /\ Len(SubSeq(pendingsQueue, 1, n - 1)) = n - 1
          /\ \A i \in 1 .. n - 1 :
                SubSeq(pendingsQueue, 1, n - 1)[i] = pendingsQueue[i]
      BY <1>2
    <2> QED BY <1>2, <2>1 DEF Transactions
  <1>5. /\ pendingsQueue' \in {pendingsQueue, <<>>}
        /\ b = notificationTip => pendingsQueue' = <<>> \/ threw'
        /\ threw' \in BOOLEAN
        /\ \/ sent' = sent
           \/ /\ b = notificationTip
              /\ \E S \in SUBSET Transactions(pendingsQueue) : sent' = sent \cup (S \X {b})
    BY <1>1, <1>4 DEF SyncTip, ChainstateTipChanged, SentWith, TypeOK
  <1>6. sent' \subseteq Tx \X Block
    BY <1>2, <1>3, <1>5
  <1>7. TypeOK'
    <2>1. pendingsQueue' \in Seq(Tx)
      <3>1. pendingsQueue' = pendingsQueue \/ pendingsQueue' = <<>>
        BY <1>5
      <3>2. pendingsQueue \in Seq(Tx) /\ <<>> \in Seq(Tx)
        BY <1>2
      <3> QED BY <3>1, <3>2, Zenon
    <2>2. threw' \in BOOLEAN
      BY <1>5
    <2> QED BY <1>1, <1>6, <2>1, <2>2 DEF TypeOK
  <1>8. QueueKeptOnlyByThrow'
    BY <1>1, <1>5 DEF QueueKeptOnlyByThrow, QueueEmptyWhenSynced
  <1>9. NoneConfirmed => NoneConfirmed'
    <2> SUFFICES ASSUME NoneConfirmed
                 PROVE  NoneConfirmed'
      OBVIOUS
    <2>1. Transactions(pendingsQueue)' \subseteq Transactions(pendingsQueue)
      BY <1>5 DEF Transactions
    <2>2. \A s \in sent' : s[1] \notin Confirmed(s[2])
      <3>1. CASE sent' = sent
        BY <3>1 DEF NoneConfirmed
      <3>2. CASE b = notificationTip
                 /\ \E S \in SUBSET Transactions(pendingsQueue) : sent' = sent \cup (S \X {b})
        <4>1. b # NoBlock
          BY BlocksAssumption
        <4>2. PICK S \in SUBSET Transactions(pendingsQueue) : sent' = sent \cup (S \X {b})
          BY <3>2
        <4>3. \A s \in S \X {b} : s[1] \in S /\ s[2] = b
          OBVIOUS
        <4> QED BY <3>2, <4>1, <4>2, <4>3 DEF NoneConfirmed
      <3> QED BY <1>5, <3>1, <3>2
    <2> QED BY <1>1, <2>1, <2>2 DEF NoneConfirmed
  <1>10. OneAddress' = OneAddress /\ OneSocket' = OneSocket
    BY <1>1 DEF OneAddress, OneSocket
  <1> QED BY <1>1, <1>7, <1>8, <1>9, <1>10 DEF Inv

LEMMA StutterInv ==
    ASSUME Inv, UNCHANGED vars
    PROVE  Inv'
  <1>1. /\ UNCHANGED <<nodeTip, nodeBlocks, notifier, mainPc, listeners, callbacks, lost>>
        /\ UNCHANGED <<chainstateTip, notificationTip, pendingsQueue, sent, threw>>
    BY DEF vars, node, manager
  <1>2. TypeOK'
    BY <1>1 DEF Inv, TypeOK
  <1>3. OneAddress' = OneAddress /\ OneSocket' = OneSocket
    BY <1>1 DEF OneAddress, OneSocket
  <1>4. NoneConfirmed' = NoneConfirmed
    BY <1>1 DEF NoneConfirmed
  <1>5. QueueKeptOnlyByThrow' = QueueKeptOnlyByThrow
    BY <1>1 DEF QueueKeptOnlyByThrow, QueueEmptyWhenSynced
  <1> QED BY <1>1, <1>2, <1>3, <1>4, <1>5 DEF Inv

-----------------------------------------------------------------------------
(***************************************************************************)
(* The inductive invariant holds whatever the node, ZMQ, the listeners'    *)
(* threads, the main program and Sync do, and in whatever order.           *)
(***************************************************************************)
THEOREM Invariance == Spec => []Inv
  <1>1. Init => Inv
    BY InitInv
  <1>2. Inv /\ [Next]_vars => Inv'
    <2> SUFFICES ASSUME Inv, [Next]_vars
                 PROVE  Inv'
      OBVIOUS
    <2>1. ASSUME NEW b \in Block, NodeNewTip(b)
          PROVE  Inv'
      BY <2>1, NodeNewTipInv
    <2>2. ASSUME NEW x \in Tx, NodeNewTx(x)
          PROVE  Inv'
      BY <2>2, NodeNewTxInv
    <2>3. CASE MainStep
      BY <2>3, StartChainInv, EnablePendingInv, SetCallbacksInv DEF MainStep
    <2>4. ASSUME NEW i \in DOMAIN listeners, HandleHashBlock(i)
          PROVE  Inv'
      BY <2>4, HandleHashBlockInv
    <2>5. ASSUME NEW i \in DOMAIN listeners, HandleRawTx(i)
          PROVE  Inv'
      BY <2>5, HandleRawTxInv
    <2>6. ASSUME NEW b \in Block, SyncTip(b)
          PROVE  Inv'
      BY <2>6, SyncTipInv
    <2>7. CASE UNCHANGED vars
      BY <2>7, StutterInv
    <2> QED BY <2>1, <2>2, <2>3, <2>4, <2>5, <2>6, <2>7 DEF Next
  <1> QED BY <1>1, <1>2, PTL DEF Spec

(***************************************************************************)
(* PendingManager sends no move that its tip has confirmed, provided that  *)
(* the node publishes both topics at one address and ZMQ drops no message: *)
(* for every tree of blocks and however many messages are under way.       *)
(***************************************************************************)
THEOREM SentUnconfirmed == Spec => []NoConfirmedMoveSent
  <1>1. Inv => NoConfirmedMoveSent
    BY DEF Inv, NoneConfirmed, OneAddress, NoConfirmedMoveSent
  <1> QED BY <1>1, Invariance, PTL

(***************************************************************************)
(* The CHECK of PendingManager::PendingMoves for an empty queue can only   *)
(* fail after sending queued moves threw: whatever order the messages come *)
(* in, whichever are lost, and however many sockets there are.             *)
(***************************************************************************)
THEOREM QueueKept == Spec => []QueueKeptOnlyByThrow
  <1>1. Inv => QueueKeptOnlyByThrow
    BY DEF Inv
  <1> QED BY <1>1, Invariance, PTL
=============================================================================
