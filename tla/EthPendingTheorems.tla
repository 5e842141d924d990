------------------------- MODULE EthPendingTheorems -------------------------
(***************************************************************************)
(* Proofs about pending moves on an EVM chain, for every finite set of     *)
(* transactions, every number of threads that query the local mempool, and *)
(* however many messages are under way.                                    *)
(***************************************************************************)
EXTENDS EthPending, FiniteSetTheorems, TLAPS

(***************************************************************************)
(* Whatever std::sort makes of the transactions, it is each of them once,  *)
(* in the order of their nonces for each sender.                           *)
(***************************************************************************)
LEMMA SortedOrder ==
    ASSUME NEW S \in SUBSET Tx, NEW s \in Sorted(S)
    PROVE  /\ s \in Seq(Tx) /\ Len(s) = Cardinality(S)
           /\ {s[i] : i \in DOMAIN s} = S
           /\ \A i, j \in DOMAIN s :
                 i < j /\ Sender[s[i]] = Sender[s[j]] => Nonce[s[i]] =< Nonce[s[j]]
  <1> DEFINE n == Cardinality(S)
  <1>1. IsFiniteSet(S) /\ n \in Nat
    BY EthPendingAssumption, FS_Subset, FS_CardinalityType
  <1>2. /\ s \in [1 .. n -> S]
        /\ \A i, j \in 1 .. n : i < j => s[i] # s[j] /\ ~ IsEarlierForMempool(s[j], s[i])
    BY DEF Sorted
  <1>3. s \in Seq(Tx) /\ Len(s) = n /\ DOMAIN s = 1 .. n
    BY <1>1, <1>2
  <1>4. {s[i] : i \in DOMAIN s} = S
    <2>1. s \in Injection(1 .. n, S)
      <3> SUFFICES ASSUME NEW i \in 1 .. n, NEW j \in 1 .. n, s[i] = s[j], i # j
                   PROVE  FALSE
        BY <1>2 DEF Injection, IsInjective
      <3>1. i < j \/ j < i
        BY <1>1
      <3> QED BY <1>2, <3>1
    <2>2. IsFiniteSet(1 .. n) /\ Cardinality(1 .. n) = n
      BY <1>1, FS_Interval
    <2>3. s \in Surjection(1 .. n, S)
      BY <1>1, <2>1, <2>2, FS_Injection
    <2>4. \A x \in S : \E i \in 1 .. n : s[i] = x
      BY <2>3 DEF Surjection
    <2> QED BY <1>2, <1>3, <2>4
  <1>5. ASSUME NEW i \in 1 .. n, NEW j \in 1 .. n, i < j, Sender[s[i]] = Sender[s[j]]
        PROVE  Nonce[s[i]] =< Nonce[s[j]]
    <2>1. s[i] \in Tx /\ s[j] \in Tx /\ ~ (Nonce[s[j]] < Nonce[s[i]])
      BY <1>2, <1>5 DEF IsEarlierForMempool
    <2>2. Nonce[s[i]] \in Nat /\ Nonce[s[j]] \in Nat
      BY <2>1, EthPendingAssumption
    <2> QED BY <2>1, <2>2
  <1> QED BY <1>3, <1>4, <1>5

-----------------------------------------------------------------------------
(* A message is sent, or the first one taken. *)
LEMMA AppendMessage ==
    ASSUME NEW m \in Seq(Message), NEW e \in Message
    PROVE  /\ Append(m, e) \in Seq(Message)
           /\ e.type # "pendingTx" /\ (\A i \in 1 .. Len(m) : m[i].type # "pendingTx")
                 => \A i \in 1 .. Len(Append(m, e)) : Append(m, e)[i].type # "pendingTx"
  <1>1. /\ Append(m, e) \in Seq(Message) /\ Len(m) \in Nat
        /\ Len(Append(m, e)) = Len(m) + 1
        /\ \A i \in 1 .. Len(m) + 1 : Append(m, e)[i] = IF i = Len(m) + 1 THEN e ELSE m[i]
    OBVIOUS
  <1> QED BY <1>1

LEMMA TailMessages ==
    ASSUME NEW m \in Seq(Message), m # <<>>
    PROVE  /\ Tail(m) \in Seq(Message) /\ Head(m) = m[1] /\ m[1] \in Message
           /\ 1 \in 1 .. Len(m)
           /\ (\A i \in 1 .. Len(m) : m[i].type # "pendingTx")
                 => \A i \in 1 .. Len(Tail(m)) : Tail(m)[i].type # "pendingTx"
  <1>1. /\ Tail(m) \in Seq(Message) /\ Len(m) \in Nat /\ Len(m) > 0
        /\ Head(m) = m[1] /\ m[1] \in Message
        /\ Len(Tail(m)) = Len(m) - 1
        /\ \A i \in 1 .. Len(m) - 1 : Tail(m)[i] = m[i + 1]
    OBVIOUS
  <1>2. \A i \in 1 .. Len(m) - 1 : i + 1 \in 1 .. Len(m)
    BY <1>1
  <1> QED BY <1>1, <1>2

(* What a message may carry. *)
LEMMA MessageType ==
    /\ \A x \in Tx : [type |-> "pendingTx", payload |-> x] \in Message
    /\ [type |-> "newHeads", payload |-> NoTx] \in Message
    /\ \A s \in {"newHeads", "pendingTx"} : [type |-> "result", payload |-> s] \in Message
    /\ \A m \in Message : /\ m.type = "pendingTx" => m.payload \in Tx
                          /\ m.type = "result" => m.payload \in {"newHeads", "pendingTx"}
  BY DEF Message

(* The node announces something to those who have subscribed to it. *)
LEMMA AnnounceMessages ==
    ASSUME TypeOK, ExtractorFirst, NEW s \in {"newHeads", "pendingTx"}, NEW p,
           [type |-> s, payload |-> p] \in Message,
           Announce(s, p) \/ UNCHANGED messages
    PROVE  /\ messages' \in Seq(Message)
           /\ ~ pending => \A i \in 1 .. Len(messages') : messages'[i].type # "pendingTx"
  <1> DEFINE e == [type |-> s, payload |-> p]
  <1>1. messages \in Seq(Message)
    BY DEF TypeOK
  <1>2. CASE UNCHANGED messages
    BY <1>1, <1>2 DEF ExtractorFirst
  <1>3. CASE s \in subscribed /\ messages' = Append(messages, e)
    <2>1. ~ pending => e.type # "pendingTx"
      BY <1>3 DEF ExtractorFirst
    <2> HIDE DEF e
    <2> QED BY <1>1, <1>3, <2>1, AppendMessage DEF ExtractorFirst, e
  <1> QED BY <1>2, <1>3 DEF Announce, Send

(* The websocket sends a request, and the node answers. *)
LEMMA SubscribeMessages ==
    ASSUME TypeOK, NEW s \in {"newHeads", "pendingTx"}, SendSubscribe(s)
    PROVE  /\ messages' \in Seq(Message)
           /\ subscribed' = subscribed \cup {s}
           /\ (\A i \in 1 .. Len(messages) : messages[i].type # "pendingTx")
                 => \A i \in 1 .. Len(messages') : messages'[i].type # "pendingTx"
  <1> DEFINE e == [type |-> "result", payload |-> s]
  <1>1. messages \in Seq(Message) /\ e \in Message /\ e.type # "pendingTx"
    BY MessageType DEF TypeOK
  <1>2. messages' = Append(messages, e) /\ subscribed' = subscribed \cup {s}
    BY DEF SendSubscribe, Send
  <1> HIDE DEF e
  <1> QED BY <1>1, <1>2, AppendMessage

(***************************************************************************)
(* A step of the node: it changes the status of one transaction, which has *)
(* left its mempool unless it is pending now.                              *)
(***************************************************************************)
LEMMA NodeStep ==
    ASSUME Inv, NEW x \in Tx,
           NodeAccepts(x) \/ NodeConfirms(x) \/ NodeDrops(x) \/ NodeReorgs(x)
    PROVE  /\ status' \in [Tx -> Status] /\ left \subseteq left' /\ left' \subseteq Tx
           /\ \A y \in Tx : NeverLeft(y) => NeverLeft(y)'
           /\ messages' \in Seq(Message)
           /\ ~ pending => \A i \in 1 .. Len(messages') : messages'[i].type # "pendingTx"
           /\ nodeEvents' \in Nat
           /\ UNCHANGED <<subscribed, ethVars, pool, contentVars>>
  <1>1. TypeOK /\ ExtractorFirst
    BY DEF Inv
  <1>2. /\ status \in [Tx -> Status] /\ left \subseteq Tx /\ nodeEvents \in Nat
        /\ messages \in Seq(Message)
    BY <1>1 DEF TypeOK
  <1>3. /\ nodeEvents' = nodeEvents + 1
        /\ UNCHANGED <<subscribed, ethVars, pool, contentVars>>
        /\ \/ status' = [status EXCEPT ![x] = "pending"] /\ left' = left
           \/ /\ left' = left \cup {x}
              /\ \E v \in Status : status' = [status EXCEPT ![x] = v]
    BY DEF NodeAccepts, NodeConfirms, NodeDrops, NodeReorgs, Event, Status
  <1>4. /\ messages' \in Seq(Message)
        /\ ~ pending => \A i \in 1 .. Len(messages') : messages'[i].type # "pendingTx"
    <2>1. \/ Announce("pendingTx", x)
          \/ Announce("newHeads", NoTx)
          \/ UNCHANGED messages
      BY DEF NodeAccepts, NodeConfirms, NodeDrops, NodeReorgs
    <2>2. /\ [type |-> "pendingTx", payload |-> x] \in Message
          /\ [type |-> "newHeads", payload |-> NoTx] \in Message
      BY MessageType
    <2> QED BY <1>1, <2>1, <2>2, AnnounceMessages
  <1>5. status' \in [Tx -> Status] /\ \A y \in Tx : NeverLeft(y) => NeverLeft(y)'
    BY <1>2, <1>3 DEF NeverLeft, Status
  <1> QED BY <1>2, <1>3, <1>4, <1>5

(* Nothing needs to be returned. *)
LEMMA EmptyContent == IsContent(<<>>, {})
  <1>1. DOMAIN <<>> = {} /\ Len(<<>>) = 0 /\ {<<>>[i] : i \in DOMAIN <<>>} = {}
    OBVIOUS
  <1> QED BY <1>1, FS_EmptySet DEF IsContent

(* Transactions leave the node's mempool, but what is queried is the same. *)
LEMMA ContentStays ==
    ASSUME ContentComplete, left \subseteq left', UNCHANGED <<contentPc, content, due>>
    PROVE  ContentComplete'
  <1>1. \A s, S, T : IsContent(s, S) /\ T \subseteq S => IsContent(s, T)
    BY DEF IsContent
  <1>2. \A c \in Caller : due[c] \ left' \subseteq due[c] \ left
    OBVIOUS
  <1> QED BY <1>1, <1>2 DEF ContentComplete

LEMMA InitInv ==
    ASSUME Init
    PROVE  Inv
  <1>1. TypeOK
    <2>1. messages \in Seq(Message) /\ content \in [Caller -> Seq(Tx)]
      BY DEF Init
    <2>2. pending \in BOOLEAN /\ added \in BOOLEAN
      BY DEF Init
    <2>3. status \in [Tx -> Status]
      BY DEF Init, Status
    <2>4. reply \in [Caller -> SUBSET [tx : Tx, status : Status]]
      BY DEF Init
    <2> QED BY <2>1, <2>2, <2>3, <2>4 DEF Init, TypeOK
  <1>2. ExtractorFirst
    BY DEF Init, ExtractorFirst
  <1>3. PoolPending
    BY DEF Init, PoolPending
  <1>4. AddedFirst
    BY DEF Init, AddedFirst, PendingKept, StillPending
  <1>5. AskedForDue
    BY DEF Init, AskedForDue
  <1>6. ContentComplete
    <2>1. \A c \in Caller : content[c] = <<>> /\ due[c] \ left = {}
      BY DEF Init
    <2> QED BY <2>1, EmptyContent DEF ContentComplete
  <1> QED BY <1>1, <1>2, <1>3, <1>4, <1>5, <1>6 DEF Inv

(* Transactions enter and leave the node's mempool. *)
LEMMA NodeInv ==
    ASSUME Inv, NEW x \in Tx,
           NodeAccepts(x) \/ NodeConfirms(x) \/ NodeDrops(x) \/ NodeReorgs(x)
    PROVE  Inv'
  <1>1. /\ status' \in [Tx -> Status] /\ left \subseteq left' /\ left' \subseteq Tx
        /\ \A y \in Tx : NeverLeft(y) => NeverLeft(y)'
        /\ messages' \in Seq(Message)
        /\ ~ pending => \A i \in 1 .. Len(messages') : messages'[i].type # "pendingTx"
        /\ nodeEvents' \in Nat
        /\ UNCHANGED <<subscribed, ethVars, pool, contentVars>>
    BY NodeStep
  <1>2. /\ UNCHANGED <<mainPc, pending, connection, ids, handling, added, forwarded>>
        /\ UNCHANGED <<contentPc, asked, reply, content, due>>
    BY <1>1 DEF ethVars, mainVars, webSocket, handler, contentVars
  <1>3. TypeOK
    BY DEF Inv
  <1>4. TypeOK'
    BY <1>1, <1>2, <1>3 DEF TypeOK
  <1>5. ExtractorFirst'
    BY <1>1, <1>2 DEF Inv, ExtractorFirst
  <1>6. PoolPending'
    <2>1. /\ \A y \in pool : y \in Tx
          /\ handling # NoTx => handling \in Tx
          /\ \A c \in Caller : \A y \in asked[c] : y \in Tx
      BY <1>3 DEF TypeOK
    <2> QED BY <1>1, <1>2, <2>1 DEF Inv, PoolPending
  <1>7. AddedFirst'
    BY <1>1, <1>2 DEF Inv, AddedFirst, PendingKept, StillPending
  <1>8. AskedForDue'
    BY <1>1, <1>2 DEF Inv, AskedForDue
  <1>9. ContentComplete'
    BY <1>1, <1>2, ContentStays DEF Inv
  <1> QED BY <1>4, <1>5, <1>6, <1>7, <1>8, <1>9 DEF Inv

(* A step that has to do with the connection only. *)
LEMMA ConnectionInv ==
    ASSUME Inv, UNCHANGED <<status, left, handler, pool, contentVars>>,
           subscribed' \subseteq {"newHeads", "pendingTx"},
           messages' \in Seq(Message),
           nodeEvents' \in Nat,
           mainPc' \in {"start", "pending", "subscribe", "watch", "run", "running", "exited"},
           connection' \in {"none", "connecting", "open", "lost"},
           ids' \subseteq {"newHeads", "pendingTx"},
           pending' \in BOOLEAN,
           ExtractorFirst'
    PROVE  Inv'
  <1>1. /\ UNCHANGED <<status, left, handling, added, forwarded, pool>>
        /\ UNCHANGED <<contentPc, asked, reply, content, due>>
    BY DEF handler, contentVars
  <1>2. TypeOK'
    BY <1>1 DEF Inv, TypeOK
  <1>3. PoolPending'
    BY <1>1 DEF Inv, PoolPending, NeverLeft
  <1>4. AddedFirst'
    BY <1>1 DEF Inv, AddedFirst, PendingKept, StillPending
  <1>5. AskedForDue'
    BY <1>1 DEF Inv, AskedForDue
  <1>6. ContentComplete'
    BY <1>1, ContentStays DEF Inv
  <1> QED BY <1>2, <1>3, <1>4, <1>5, <1>6 DEF Inv

(* The main program. *)
LEMMA MainInv ==
    ASSUME Inv, MainStep
    PROVE  Inv'
  <1>1. TypeOK /\ ExtractorFirst
    BY DEF Inv
  <1>2. CASE StartChain
    <2>1. /\ UNCHANGED <<status, left, handler, pool, contentVars>>
          /\ UNCHANGED <<subscribed, messages, nodeEvents, ids, pending>>
          /\ mainPc' = "pending" /\ connection' \in {"none", "connecting"}
      BY <1>2 DEF StartChain, nodeVars
    <2>2. ExtractorFirst'
      BY <1>1, <2>1 DEF ExtractorFirst
    <2> QED BY <1>1, <2>1, <2>2, ConnectionInv DEF TypeOK
  <1>3. CASE MakeExtractor
    <2>1. /\ UNCHANGED <<status, left, handler, pool, contentVars>>
          /\ UNCHANGED <<subscribed, messages, nodeEvents, ids, connection>>
          /\ \/ pending' = TRUE /\ mainPc' = "subscribe"
             \/ UNCHANGED pending /\ mainPc' = "run"
      BY <1>3 DEF MakeExtractor, nodeVars, webSocket
    <2>2. ExtractorFirst'
      BY <1>1, <2>1 DEF ExtractorFirst
    <2>3. pending' \in BOOLEAN
      BY <1>1, <2>1 DEF TypeOK
    <2> QED BY <1>1, <2>1, <2>2, <2>3, ConnectionInv DEF TypeOK
  <1>4. CASE EnablePending
    <2>1. /\ UNCHANGED <<status, left, handler, pool, contentVars>>
          /\ UNCHANGED <<nodeEvents, ids, connection, pending>>
          /\ mainPc = "subscribe" /\ mainPc' \in {"watch", "exited"}
          /\ UNCHANGED <<subscribed, messages>> \/ SendSubscribe("pendingTx")
      BY <1>4 DEF EnablePending, webSocket
    <2>2. pending /\ ExtractorFirst'
      BY <1>1, <2>1 DEF ExtractorFirst
    <2>3. messages' \in Seq(Message) /\ subscribed' \subseteq {"newHeads", "pendingTx"}
      BY <1>1, <2>1, SubscribeMessages DEF TypeOK
    <2> QED BY <1>1, <2>1, <2>2, <2>3, ConnectionInv DEF TypeOK
  <1>5. CASE AddWatchedContracts \/ Run
    <2>1. /\ UNCHANGED <<status, left, handler, pool, contentVars>>
          /\ UNCHANGED <<subscribed, messages, nodeEvents, ids, connection, pending>>
          /\ mainPc' \in {"run", "running"}
      BY <1>5 DEF AddWatchedContracts, Run, nodeVars, webSocket
    <2>2. ExtractorFirst'
      BY <1>1, <2>1 DEF ExtractorFirst
    <2> QED BY <1>1, <2>1, <2>2, ConnectionInv DEF TypeOK
  <1> QED BY <1>2, <1>3, <1>4, <1>5 DEF MainStep

(* The connection is opened and lost, and tells of subscriptions and heads. *)
LEMMA WebSocketInv ==
    ASSUME Inv, OpenConnection \/ LoseConnection \/ HandleResult \/ HandleNewHead
    PROVE  Inv'
  <1>1. TypeOK /\ ExtractorFirst /\ messages \in Seq(Message)
    BY DEF Inv, TypeOK
  <1>2. CASE OpenConnection
    <2>1. /\ UNCHANGED <<status, left, handler, pool, contentVars>>
          /\ UNCHANGED <<nodeEvents, ids, mainPc, pending>>
          /\ connection' = "open" /\ SendSubscribe("newHeads")
      BY <1>2 DEF OpenConnection, mainVars
    <2>2. /\ messages' \in Seq(Message) /\ subscribed' = subscribed \cup {"newHeads"}
          /\ (\A i \in 1 .. Len(messages) : messages[i].type # "pendingTx")
                => \A i \in 1 .. Len(messages') : messages'[i].type # "pendingTx"
      BY <1>1, <2>1, SubscribeMessages
    <2>3. ExtractorFirst'
      BY <1>1, <2>1, <2>2 DEF ExtractorFirst
    <2> QED BY <1>1, <2>1, <2>2, <2>3, ConnectionInv DEF TypeOK
  <1>3. CASE LoseConnection
    <2>1. /\ UNCHANGED <<status, left, handler, pool, contentVars>>
          /\ UNCHANGED <<ids, mainPc, pending>> /\ nodeEvents' = nodeEvents + 1
          /\ connection' = "lost" /\ subscribed' = {} /\ messages' = <<>>
      BY <1>3 DEF LoseConnection, mainVars, Event
    <2>2. messages' \in Seq(Message) /\ Len(messages') = 0
      BY <2>1
    <2>3. ExtractorFirst'
      BY <1>1, <2>1, <2>2 DEF ExtractorFirst
    <2> QED BY <1>1, <2>1, <2>2, <2>3, ConnectionInv DEF TypeOK
  <1>4. CASE HandleResult \/ HandleNewHead
    <2>1. /\ UNCHANGED <<status, left, handler, pool, contentVars>>
          /\ UNCHANGED <<subscribed, nodeEvents, connection, mainPc, pending>>
          /\ messages # <<>> /\ messages' = Tail(messages)
          /\ \/ UNCHANGED ids
             \/ /\ Head(messages).type = "result"
                /\ ids' = ids \cup {Head(messages).payload}
      BY <1>4 DEF HandleResult, HandleNewHead, HandleMessage, mainVars, webSocket, ethVars
    <2>2. /\ messages' \in Seq(Message) /\ Head(messages) \in Message
          /\ (\A i \in 1 .. Len(messages) : messages[i].type # "pendingTx")
                => \A i \in 1 .. Len(messages') : messages'[i].type # "pendingTx"
      BY <1>1, <2>1, TailMessages
    <2>3. ids' \subseteq {"newHeads", "pendingTx"}
      BY <1>1, <2>1, <2>2, MessageType DEF TypeOK
    <2>4. ExtractorFirst'
      BY <1>1, <2>1, <2>2 DEF ExtractorFirst
    <2> QED BY <1>1, <2>1, <2>2, <2>3, <2>4, ConnectionInv DEF TypeOK
  <1> QED BY <1>2, <1>3, <1>4

(* NewPendingTx is told of a transaction. *)
LEMMA HandlePendingTxInv ==
    ASSUME Inv, HandlePendingTx
    PROVE  Inv'
  <1>1. TypeOK /\ ExtractorFirst /\ messages \in Seq(Message)
    BY DEF Inv, TypeOK
  <1>2. /\ UNCHANGED <<status, subscribed, nodeEvents, left, mainPc, pending>>
        /\ UNCHANGED <<connection, ids, added, forwarded, pool>>
        /\ UNCHANGED <<contentPc, asked, reply, content, due>>
        /\ messages # <<>> /\ messages' = Tail(messages) /\ handling = NoTx
        /\ Head(messages).type = "pendingTx"
        /\ \/ UNCHANGED handling
           \/ handling' = Head(messages).payload /\ status[Head(messages).payload] = "pending"
    BY DEF HandlePendingTx, HandleMessage, GetMoves, mainVars, webSocket, contentVars
  <1>3. /\ messages' \in Seq(Message) /\ Head(messages) \in Message
        /\ (\A i \in 1 .. Len(messages) : messages[i].type # "pendingTx")
              => \A i \in 1 .. Len(messages') : messages'[i].type # "pendingTx"
    BY <1>1, <1>2, TailMessages
  <1>4. Head(messages).payload \in Tx
    BY <1>2, <1>3, MessageType
  <1>5. TypeOK'
    BY <1>1, <1>2, <1>3, <1>4 DEF TypeOK
  <1>6. ExtractorFirst'
    BY <1>1, <1>2, <1>3 DEF ExtractorFirst
  <1>7. PoolPending'
    BY <1>2 DEF Inv, PoolPending, NeverLeft
  <1>8. AddedFirst'
    BY <1>2 DEF Inv, AddedFirst, PendingKept, StillPending
  <1>9. AskedForDue'
    BY <1>2 DEF Inv, AskedForDue
  <1>10. ContentComplete'
    BY <1>2, ContentStays DEF Inv
  <1> QED BY <1>5, <1>6, <1>7, <1>8, <1>9, <1>10 DEF Inv

(* It adds the transaction to the mempool, and then calls PendingMoves. *)
LEMMA NewPendingTxInv ==
    ASSUME Inv, AddToMempool \/ PendingMoves
    PROVE  Inv'
  <1>1. TypeOK
    BY DEF Inv
  <1>2. /\ UNCHANGED <<status, subscribed, messages, nodeEvents, left, mainPc, pending>>
        /\ UNCHANGED <<connection, ids>>
        /\ UNCHANGED <<contentPc, asked, reply, content, due>>
        /\ handling # NoTx
        /\ \/ /\ pool' = pool \cup {handling} /\ added' = TRUE
              /\ UNCHANGED <<handling, forwarded>>
           \/ /\ added /\ forwarded' \subseteq forwarded \cup {handling}
              /\ handling' = NoTx /\ added' = FALSE
              /\ UNCHANGED pool
    BY DEF AddToMempool, PendingMoves, nodeVars, mainVars, webSocket, contentVars
  <1>3. handling \in Tx
    BY <1>1, <1>2 DEF TypeOK
  <1>4. TypeOK'
    <2>1. added' \in BOOLEAN
      BY <1>2
    <2>2. pool' \subseteq Tx /\ forwarded' \subseteq Tx /\ handling' \in Tx \cup {NoTx}
      BY <1>1, <1>2, <1>3 DEF TypeOK
    <2> QED BY <1>1, <1>2, <2>1, <2>2 DEF TypeOK
  <1>5. ExtractorFirst'
    BY <1>2 DEF Inv, ExtractorFirst
  <1>6. PoolPending'
    BY <1>2 DEF Inv, PoolPending, NeverLeft
  <1>7. AddedFirst'
    BY <1>2 DEF Inv, AddedFirst, PendingKept, StillPending
  <1>8. AskedForDue'
    BY <1>2 DEF Inv, AskedForDue
  <1>9. ContentComplete'
    BY <1>2, ContentStays DEF Inv
  <1> QED BY <1>4, <1>5, <1>6, <1>7, <1>8, <1>9 DEF Inv

(* Other calls are not concerned. *)
LEMMA OneContent ==
    ASSUME ContentComplete, NEW c \in Caller, UNCHANGED left,
           \A d \in Caller \ {c} : /\ contentPc'[d] = contentPc[d]
                                   /\ content'[d] = content[d] /\ due'[d] = due[d],
           contentPc'[c] = "idle" => IsContent(content'[c], due'[c] \ left)
    PROVE  ContentComplete'
  BY DEF ContentComplete

(* GetContent starts. *)
LEMMA GetContentInv ==
    ASSUME Inv, NEW c \in Caller, GetContent(c)
    PROVE  Inv'
  <1>1. TypeOK
    BY DEF Inv
  <1>2. /\ UNCHANGED <<status, subscribed, messages, nodeEvents, left, mainPc, pending>>
        /\ UNCHANGED <<connection, ids, handling, added, forwarded, pool, reply>>
        /\ asked' = [asked EXCEPT ![c] = pool]
        /\ content' = [content EXCEPT ![c] = <<>>]
        /\ due' = [due EXCEPT ![c] = forwarded \ left]
        /\ \/ pool = {} /\ UNCHANGED contentPc
           \/ contentPc' = [contentPc EXCEPT ![c] = "asking"]
    BY DEF GetContent, StillPending, nodeVars, ethVars, mainVars, webSocket, handler
  <1>3. forwarded \ left \subseteq pool
    BY DEF Inv, AddedFirst, PendingKept, StillPending
  <1>4. TypeOK'
    <2>1. /\ asked' \in [Caller -> SUBSET Tx] /\ due' \in [Caller -> SUBSET Tx]
          /\ contentPc' \in [Caller -> {"idle", "asking"}]
      BY <1>1, <1>2 DEF TypeOK
    <2>2. content' \in [Caller -> Seq(Tx)]
      <3>1. <<>> \in Seq(Tx)
        OBVIOUS
      <3> QED BY <1>1, <1>2, <3>1 DEF TypeOK
    <2> QED BY <1>1, <1>2, <2>1, <2>2 DEF TypeOK
  <1>5. ExtractorFirst'
    BY <1>2 DEF Inv, ExtractorFirst
  <1>6. PoolPending'
    <2>1. \A d \in Caller : asked'[d] = asked[d] \/ asked'[d] = pool
      BY <1>1, <1>2 DEF TypeOK
    <2> QED BY <1>2, <2>1 DEF Inv, PoolPending, NeverLeft
  <1>7. AddedFirst'
    BY <1>2 DEF Inv, AddedFirst, PendingKept, StillPending
  <1>8. AskedForDue'
    <2>1. ASSUME NEW d \in Caller, contentPc'[d] = "asking"
          PROVE  due'[d] \ left' \subseteq asked'[d] /\ content'[d] = <<>>
      <3>1. CASE d = c
        BY <1>1, <1>2, <1>3, <3>1 DEF TypeOK
      <3>2. CASE d # c
        BY <1>1, <1>2, <2>1, <3>2 DEF TypeOK, Inv, AskedForDue
      <3> QED BY <3>1, <3>2
    <2> QED BY <2>1 DEF AskedForDue
  <1>9. ContentComplete'
    <2>1. contentPc'[c] = "idle" => content'[c] = <<>> /\ due'[c] \ left = {}
      BY <1>1, <1>2, <1>3 DEF TypeOK
    <2>2. \A d \in Caller \ {c} : /\ contentPc'[d] = contentPc[d]
                                  /\ content'[d] = content[d] /\ due'[d] = due[d]
      BY <1>1, <1>2 DEF TypeOK
    <2> QED BY <1>2, <2>1, <2>2, EmptyContent, OneContent DEF Inv
  <1> QED BY <1>4, <1>5, <1>6, <1>7, <1>8, <1>9 DEF Inv

(* The node answers one of the requests: as it is at that time. *)
LEMMA NodeAnswersInv ==
    ASSUME Inv, NEW c \in Caller, NodeAnswers(c)
    PROVE  Inv'
  <1>1. TypeOK
    BY DEF Inv
  <1>2. /\ UNCHANGED <<status, subscribed, messages, nodeEvents, left, mainPc, pending>>
        /\ UNCHANGED <<connection, ids, handling, added, forwarded, pool>>
        /\ UNCHANGED <<contentPc, asked, content, due>>
    BY DEF NodeAnswers, nodeVars, ethVars, mainVars, webSocket, handler
  <1>3. PICK x \in asked[c] :
           reply' = [reply EXCEPT ![c] = @ \cup {[tx |-> x, status |-> status[x]]}]
    BY DEF NodeAnswers
  <1>4. x \in Tx /\ status[x] \in Status
    BY <1>1 DEF TypeOK
  <1>5. reply' \in [Caller -> SUBSET [tx : Tx, status : Status]]
    <2>1. [tx |-> x, status |-> status[x]] \in [tx : Tx, status : Status]
      BY <1>4
    <2>2. reply \in [Caller -> SUBSET [tx : Tx, status : Status]]
      BY <1>1 DEF TypeOK
    <2> QED BY <1>3, <2>1, <2>2
  <1>6. TypeOK'
    BY <1>1, <1>2, <1>5 DEF TypeOK
  <1>7. ExtractorFirst'
    BY <1>2 DEF Inv, ExtractorFirst
  <1>8. PoolPending'
    <2>1. \A d \in Caller : \A r \in reply'[d] :
             r \in reply[d] \/ r = [tx |-> x, status |-> status[x]]
      BY <1>1, <1>3 DEF TypeOK
    <2>2. x \notin left => status[x] = "pending"
      BY <1>3 DEF Inv, PoolPending, NeverLeft
    <2>3. \A d \in Caller : \A r \in reply'[d] : r.tx \notin left => r.status = "pending"
      BY <2>1, <2>2 DEF Inv, PoolPending
    <2> QED BY <1>2, <2>3 DEF Inv, PoolPending, NeverLeft
  <1>9. AddedFirst'
    BY <1>2 DEF Inv, AddedFirst, PendingKept, StillPending
  <1>10. AskedForDue'
    BY <1>2 DEF Inv, AskedForDue
  <1>11. ContentComplete'
    BY <1>2, ContentStays DEF Inv
  <1> QED BY <1>6, <1>7, <1>8, <1>9, <1>10, <1>11 DEF Inv

(* GetContent has all answers, removes what is gone and returns the rest. *)
LEMMA ReturnContentInv ==
    ASSUME Inv, NEW c \in Caller, ReturnContent(c)
    PROVE  Inv'
  <1>1. TypeOK
    BY DEF Inv
  <1>2. /\ UNCHANGED <<status, subscribed, messages, nodeEvents, left, mainPc, pending>>
        /\ UNCHANGED <<connection, ids, handling, added, forwarded, due>>
        /\ contentPc[c] = "asking" /\ asked[c] = Answered(c)
        /\ pool' = pool \ (asked[c] \ Pending(c))
        /\ contentPc' = [contentPc EXCEPT ![c] = "idle"]
        /\ asked' = [asked EXCEPT ![c] = {}]
        /\ reply' = [reply EXCEPT ![c] = {}]
    BY DEF ReturnContent, Remaining, Gone, nodeVars, ethVars, mainVars, webSocket, handler
  <1>3. \A x \in asked[c] : x \in left \/ x \in Pending(c)
    BY <1>2 DEF Answered, Pending, Inv, PoolPending
  <1>4. Pending(c) \in SUBSET Tx
    BY <1>1 DEF TypeOK, Pending
  <1> PICK s \in Sorted(Pending(c)) : content' = [content EXCEPT ![c] = s]
    BY DEF ReturnContent
  <1>5. s \in Seq(Tx) /\ IsContent(s, due[c] \ left)
    <2>1. due[c] \ left \subseteq Pending(c)
      BY <1>2, <1>3 DEF Inv, AskedForDue
    <2> QED BY <1>4, <2>1, SortedOrder DEF IsContent
  <1>6. TypeOK'
    <2>1. content' \in [Caller -> Seq(Tx)]
      BY <1>1, <1>2, <1>5 DEF TypeOK
    <2>2. /\ contentPc' \in [Caller -> {"idle", "asking"}]
          /\ reply' \in [Caller -> SUBSET [tx : Tx, status : Status]]
          /\ pool' \subseteq Tx
      BY <1>1, <1>2 DEF TypeOK
    <2> QED BY <1>1, <1>2, <2>1, <2>2 DEF TypeOK
  <1>7. ExtractorFirst'
    BY <1>2 DEF Inv, ExtractorFirst
  <1>8. PoolPending'
    <2>1. \A d \in Caller : \A r \in reply'[d] : r \in reply[d]
      BY <1>1, <1>2 DEF TypeOK
    <2> QED BY <1>2, <2>1 DEF Inv, PoolPending, NeverLeft
  <1>9. AddedFirst'
    <2>1. \A x \in pool : x \in left \/ x \in pool'
      BY <1>2, <1>3
    <2> QED BY <1>2, <2>1 DEF Inv, AddedFirst, PendingKept, StillPending
  <1>10. AskedForDue'
    <2>1. \A d \in Caller : contentPc'[d] = "asking"
                               => /\ contentPc[d] = "asking" /\ content'[d] = content[d]
                                  /\ asked'[d] = asked[d]
      BY <1>1, <1>2 DEF TypeOK
    <2> QED BY <1>2, <2>1 DEF Inv, AskedForDue
  <1>11. ContentComplete'
    <2>1. content'[c] = s /\ due'[c] = due[c]
      BY <1>1, <1>2 DEF TypeOK
    <2>2. \A d \in Caller \ {c} : /\ contentPc'[d] = contentPc[d]
                                  /\ content'[d] = content[d] /\ due'[d] = due[d]
      BY <1>1, <1>2 DEF TypeOK
    <2>3. ContentComplete /\ UNCHANGED left /\ IsContent(content'[c], due'[c] \ left)
      BY <1>2, <1>5, <2>1 DEF Inv
    <2> QED BY <2>2, <2>3, OneContent
  <1> QED BY <1>6, <1>7, <1>8, <1>9, <1>10, <1>11 DEF Inv

(* The batch of requests fails. *)
LEMMA ContentFailsInv ==
    ASSUME Inv, NEW c \in Caller, ContentFails(c)
    PROVE  Inv'
  <1>1. TypeOK
    BY DEF Inv
  <1>2. /\ UNCHANGED <<status, subscribed, messages, nodeEvents, left, mainPc, pending>>
        /\ UNCHANGED <<connection, ids, handling, added, forwarded, pool, content>>
        /\ contentPc[c] = "asking"
        /\ contentPc' = [contentPc EXCEPT ![c] = "idle"]
        /\ asked' = [asked EXCEPT ![c] = {}]
        /\ reply' = [reply EXCEPT ![c] = {}]
        /\ due' = [due EXCEPT ![c] = {}]
    BY DEF ContentFails, nodeVars, ethVars, mainVars, webSocket, handler
  <1>3. TypeOK'
    <2>1. /\ contentPc' \in [Caller -> {"idle", "asking"}]
          /\ reply' \in [Caller -> SUBSET [tx : Tx, status : Status]]
          /\ due' \in [Caller -> SUBSET Tx]
      BY <1>1, <1>2 DEF TypeOK
    <2> QED BY <1>1, <1>2, <2>1 DEF TypeOK
  <1>4. ExtractorFirst'
    BY <1>2 DEF Inv, ExtractorFirst
  <1>5. PoolPending'
    <2>1. \A d \in Caller : \A r \in reply'[d] : r \in reply[d]
      BY <1>1, <1>2 DEF TypeOK
    <2> QED BY <1>2, <2>1 DEF Inv, PoolPending, NeverLeft
  <1>6. AddedFirst'
    BY <1>2 DEF Inv, AddedFirst, PendingKept, StillPending
  <1>7. AskedForDue'
    <2>1. \A d \in Caller :
             /\ contentPc'[d] = "asking"
                   => contentPc[d] = "asking" /\ asked'[d] = asked[d]
             /\ due'[d] \subseteq due[d]
      BY <1>1, <1>2 DEF TypeOK
    <2> QED BY <1>2, <2>1 DEF Inv, AskedForDue
  <1>8. ContentComplete'
    <2>1. content'[c] = <<>> /\ due'[c] \ left = {}
      BY <1>1, <1>2 DEF TypeOK, Inv, AskedForDue
    <2>2. \A d \in Caller \ {c} : /\ contentPc'[d] = contentPc[d]
                                  /\ content'[d] = content[d] /\ due'[d] = due[d]
      BY <1>1, <1>2 DEF TypeOK
    <2> QED BY <1>2, <2>1, <2>2, EmptyContent, OneContent DEF Inv
  <1> QED BY <1>3, <1>4, <1>5, <1>6, <1>7, <1>8 DEF Inv

LEMMA StutterInv ==
    ASSUME Inv, UNCHANGED vars
    PROVE  Inv'
  <1>1. /\ UNCHANGED <<status, subscribed, messages, nodeEvents, left, mainPc, pending>>
        /\ UNCHANGED <<connection, ids, handler, pool, contentVars>>
    BY DEF vars, nodeVars, ethVars, mainVars, webSocket
  <1>2. ExtractorFirst'
    BY <1>1 DEF Inv, ExtractorFirst
  <1> QED BY <1>1, <1>2, ConnectionInv DEF Inv, TypeOK

-----------------------------------------------------------------------------
(***************************************************************************)
(* The inductive invariant holds whatever the node, the main program, the  *)
(* thread of the websocket and the RPC threads do, and in whatever order.  *)
(***************************************************************************)
THEOREM Invariance == Spec => []Inv
  <1>1. Init => Inv
    BY InitInv
  <1>2. Inv /\ [Next]_vars => Inv'
    <2> SUFFICES ASSUME Inv, [Next]_vars
                 PROVE  Inv'
      OBVIOUS
    <2>1. ASSUME NEW x \in Tx,
                 NodeAccepts(x) \/ NodeConfirms(x) \/ NodeDrops(x) \/ NodeReorgs(x)
          PROVE  Inv'
      BY <2>1, NodeInv
    <2>2. CASE MainStep
      BY <2>2, MainInv
    <2>3. CASE OpenConnection \/ LoseConnection \/ HandleResult \/ HandleNewHead
      BY <2>3, WebSocketInv
    <2>4. CASE HandlePendingTx
      BY <2>4, HandlePendingTxInv
    <2>5. CASE AddToMempool \/ PendingMoves
      BY <2>5, NewPendingTxInv
    <2>6. ASSUME NEW c \in Caller, GetContent(c)
          PROVE  Inv'
      BY <2>6, GetContentInv
    <2>7. ASSUME NEW c \in Caller, NodeAnswers(c)
          PROVE  Inv'
      BY <2>7, NodeAnswersInv
    <2>8. ASSUME NEW c \in Caller, ReturnContent(c)
          PROVE  Inv'
      BY <2>8, ReturnContentInv
    <2>9. ASSUME NEW c \in Caller, ContentFails(c)
          PROVE  Inv'
      BY <2>9, ContentFailsInv
    <2>10. CASE Exited \/ UNCHANGED vars
      BY <2>10, StutterInv DEF Exited
    <2> QED BY <2>1, <2>2, <2>3, <2>4, <2>5, <2>6, <2>7, <2>8, <2>9, <2>10 DEF Next
  <1> QED BY <1>1, <1>2, PTL DEF Spec

(***************************************************************************)
(* The CHECK of EthChain::NewPendingTx for the extractor does not fail:    *)
(* however early the websocket tells of a pending transaction.             *)
(***************************************************************************)
THEOREM ExtractorTracked == Spec => []PendingTracked
  <1>1. Inv => PendingTracked
    <2> SUFFICES ASSUME Inv, messages # <<>>, Head(messages).type = "pendingTx"
                 PROVE  pending
      BY DEF PendingTracked
    <2>1. messages \in Seq(Message)
      BY DEF Inv, TypeOK
    <2>2. Head(messages) = messages[1] /\ 1 \in 1 .. Len(messages)
      BY <2>1, TailMessages
    <2> QED BY <2>2 DEF Inv, ExtractorFirst
  <1> QED BY <1>1, Invariance, PTL

(***************************************************************************)
(* No call of PendingMempool::GetContent, however many run in parallel and *)
(* however late each of them takes the lock again, removes a transaction   *)
(* that was forwarded and has never left the node's mempool.               *)
(***************************************************************************)
THEOREM ForwardedKept == Spec => []PendingKept
  <1>1. Inv => PendingKept
    BY DEF Inv, AddedFirst
  <1> QED BY <1>1, Invariance, PTL

(***************************************************************************)
(* GetContent returns each transaction that was forwarded before the call  *)
(* and has not left the node's mempool, once, and by nonce for each sender *)
(* for any finite set of transactions.                                     *)
(***************************************************************************)
THEOREM ContentReturned == Spec => []ContentComplete
  <1>1. Inv => ContentComplete
    BY DEF Inv
  <1> QED BY <1>1, Invariance, PTL
=============================================================================
