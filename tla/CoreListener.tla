---------------------------- MODULE CoreListener ----------------------------
(***************************************************************************)
(* The way of push notifications from a Xaya Core node to PendingManager:  *)
(* the ZMQ publishers of the node, the ZmqListeners of CoreChain with a    *)
(* thread each, the callbacks of Controller, and Sync on the other side,   *)
(* which asks the node for blocks itself.                                  *)
(*                                                                         *)
(* A message that a listener has taken off its socket, and that is decoded *)
(* with a request to the node or waits for a mutex, is in the model still  *)
(* the first one of its listener: nobody can tell the difference.          *)
(***************************************************************************)
EXTENDS PendingManager, SequencesExt

CONSTANTS
    NoAddress,      \* the empty string
    Notifiers,      \* the configurations of the node: its publishers' addresses
    MaxQueue        \* a bound on the messages under way and queued

Topic == {"hashblock", "rawtx"}

ASSUME ListenerAssumption ==
    /\ \A n \in Notifiers : DOMAIN n = Topic
    /\ MaxQueue \in Nat

VARIABLES
    \* the node
    nodeTip,
    nodeBlocks,     \* the blocks that were on its main chain at any time
    notifier,       \* getzmqnotifications: the address for each topic
    \* CoreChain and the main program
    mainPc,
    listeners,      \* address, topics and messages of each ZmqListener
    callbacks,      \* BaseChain::cb is set
    \* (history)
    lost            \* ZMQ has dropped a message

node == <<nodeTip, nodeBlocks, notifier>>
vars == <<node, mainPc, listeners, callbacks, lost, manager>>

Init ==
    /\ nodeTip \in Block
    /\ nodeBlocks = Anc[nodeTip]
    /\ notifier \in Notifiers
    /\ mainPc = "start"
    /\ listeners = <<>>
    /\ callbacks = FALSE
    /\ lost = FALSE
    /\ ManagerInit

-----------------------------------------------------------------------------
(***************************************************************************)
(* The node.  It may switch to any tip, and tells of every switch before   *)
(* it tells of the transactions that enter its mempool with the new tip.   *)
(* A publisher drops messages for a subscriber that is too slow, or whose  *)
(* subscription has not arrived yet.                                       *)
(***************************************************************************)

UnderWay == FoldSeq(LAMBDA l, n : n + Len(l.messages), 0, listeners)

Listens(l, topic) == l.addr = notifier[topic] /\ topic \in l.topics

Publish(topic, payload) ==
    \/ /\ listeners' = [i \in DOMAIN listeners |->
              IF Listens(listeners[i], topic)
              THEN [listeners[i] EXCEPT !.messages =
                        Append(@, [topic |-> topic, payload |-> payload])]
              ELSE listeners[i]]
       /\ UNCHANGED lost
    \/ /\ \E i \in DOMAIN listeners : Listens(listeners[i], topic)
       /\ lost' = TRUE
       /\ UNCHANGED listeners

NodeNewTip(b) ==
    /\ UnderWay < MaxQueue
    /\ b # nodeTip
    /\ nodeTip' = b
    /\ nodeBlocks' = nodeBlocks \cup Anc[b]
    /\ Publish("hashblock", b)
    /\ UNCHANGED <<notifier, mainPc, callbacks, manager>>

NodeNewTx(x) ==
    /\ UnderWay + Len(pendingsQueue) < MaxQueue
    /\ x \notin Confirmed(nodeTip)
    /\ Publish("rawtx", x)
    /\ UNCHANGED <<node, mainPc, callbacks, manager>>

-----------------------------------------------------------------------------
(* The main program, before the callbacks are set. *)

(* Mutant: always another connection. *)
ConnectListener(addr) ==
    Append(listeners, [addr |-> addr, topics |-> {}, messages |-> <<>>])

GetListenerForAddress(addr) ==
    IF \E i \in DOMAIN listeners : listeners[i].addr = addr THEN listeners
    ELSE Append(listeners, [addr |-> addr, topics |-> {}, messages |-> <<>>])

(* The listener for the address is the one that was found or made last. *)
Subscribe(topic) ==
    LET addr == notifier[topic]
        all == GetListenerForAddress(addr)
        n == SelectLastInSeq(all, LAMBDA l : l.addr = addr)
    IN  listeners' = [all EXCEPT ![n].topics = @ \cup {topic}]

(* Without a notifier, Sync polls. *)
StartChain ==
    /\ mainPc = "start"
    /\ IF notifier["hashblock"] # NoAddress THEN Subscribe("hashblock")
       ELSE UNCHANGED listeners
    /\ mainPc' = "pending"
    /\ UNCHANGED <<node, callbacks, lost, manager>>

(* With --pending_moves, and if there is a notifier. *)
EnablePending ==
    /\ mainPc = "pending"
    /\ \/ /\ notifier["rawtx"] # NoAddress
          /\ Subscribe("rawtx")
       \/ UNCHANGED listeners
    /\ mainPc' = "run"
    /\ UNCHANGED <<node, callbacks, lost, manager>>

(* Controller::Run sets the callbacks and starts Sync. *)
SetCallbacks ==
    /\ mainPc = "run"
    /\ callbacks' = TRUE
    /\ mainPc' = "running"
    /\ UNCHANGED <<node, listeners, lost, manager>>

MainStep == StartChain \/ EnablePending \/ SetCallbacks

-----------------------------------------------------------------------------
(* ReceiveLoop on the thread of a listener. *)

ReceiveMessage(i, topic) ==
    /\ i \in DOMAIN listeners
    /\ listeners[i].messages # <<>>
    /\ Head(listeners[i].messages).topic = topic
    /\ listeners' = [listeners EXCEPT ![i].messages = Tail(@)]
    /\ UNCHANGED <<node, mainPc, callbacks, lost>>

Payload(i) == Head(listeners[i].messages).payload

(* BaseChain::TipChanged and the callback of the Controller. *)
HandleHashBlock(i) ==
    /\ ReceiveMessage(i, "hashblock")
    /\ IF callbacks THEN TipChanged(Payload(i)) ELSE UNCHANGED manager

(* The request to decode the transaction may fail: the move is dropped. *)
HandleRawTx(i) ==
    /\ ReceiveMessage(i, "rawtx")
    /\ \/ callbacks /\ PendingMoves(Payload(i))
       \/ UNCHANGED manager

ReceiveLoop(i) == HandleHashBlock(i) \/ HandleRawTx(i)

(***************************************************************************)
(* Sync has a new tip: the node's, or another one while it catches up.  It *)
(* has asked the node before, and the node may have moved on meanwhile.    *)
(***************************************************************************)
SyncTip(b) ==
    /\ callbacks
    /\ b \in nodeBlocks
    /\ b # chainstateTip
    /\ ChainstateTipChanged(b)
    /\ UNCHANGED <<node, mainPc, listeners, callbacks, lost>>

Next ==
    \/ \E b \in Block : NodeNewTip(b)
    \/ \E x \in Tx : NodeNewTx(x)
    \/ MainStep
    \/ \E i \in DOMAIN listeners : HandleHashBlock(i)
    \/ \E i \in DOMAIN listeners : HandleRawTx(i)
    \/ \E b \in Block : SyncTip(b)

(***************************************************************************)
(* The main program goes on; the thread of each listener handles one       *)
(* message after the other; and Sync, which also polls the node, gets to   *)
(* the node's tip once that no longer moves.                               *)
(***************************************************************************)
Fairness ==
    /\ WF_vars(MainStep)
    /\ \A i \in 1 .. Cardinality(Topic) : WF_vars(ReceiveLoop(i))
    /\ WF_vars(SyncTip(nodeTip))

Spec == Init /\ [][Next]_vars /\ Fairness

-----------------------------------------------------------------------------
(***************************************************************************)
(* The purpose of PendingManager: "we don't want to push pendings to the   *)
(* GSP that are actually already confirmed in the later chain tip".  It    *)
(* rests on the order of the notifications, which CoreChain keeps by using *)
(* one socket if the node publishes both topics at one address, and which  *)
(* nothing keeps if it does not, or if ZMQ drops a message.                *)
(***************************************************************************)
NoConfirmedMoveSent ==
    notifier["hashblock"] = notifier["rawtx"] /\ ~ lost
        => \A s \in sent : s[1] \notin Confirmed(s[2])

(***************************************************************************)
(* The CHECK of PendingMoves: once the chainstate has caught up with the   *)
(* notifications, nothing is left in the queue.                            *)
(***************************************************************************)
QueueEmptyWhenSynced ==
    chainstateTip # NoBlock /\ chainstateTip = notificationTip
        => pendingsQueue = <<>>

(***************************************************************************)
(* The only way to fail that CHECK is that sending queued moves threw,     *)
(* whatever order the messages come in and whichever of them are lost.     *)
(***************************************************************************)
QueueKeptOnlyByThrow == ~ threw => QueueEmptyWhenSynced

(***************************************************************************)
(* Once the notifications have told of a tip, no queued move waits for     *)
(* ever: it is sent when the chainstate catches up, or fails to be, or it  *)
(* is dropped when the notifications tell of another tip.  After a lost    *)
(* message it may wait for the next tip of the node.                       *)
(***************************************************************************)
QueueDrained ==
    pendingsQueue # <<>> /\ notificationTip # NoBlock
        ~> pendingsQueue = <<>> \/ threw \/ lost

-----------------------------------------------------------------------------
(***************************************************************************)
(* The inductive invariant.  Knows(first, m, k, b): after k of the messages*)
(* m, b is the last tip that a reader was told of who knew the first one.  *)
(* On one socket and with no message lost, this is the node's tip after    *)
(* all of them, no transaction is announced that the tip known then has    *)
(* confirmed, and none is queued that the notification tip has.            *)
(***************************************************************************)
Address == UNION {{n[t] : t \in Topic} : n \in Notifiers}

Message == [topic : {"hashblock"}, payload : Block] \cup [topic : {"rawtx"}, payload : Tx]

Listener == [addr : Address, topics : SUBSET Topic, messages : Seq(Message)]

(* The type of the variables. *)
TypeOK ==
    /\ nodeTip \in Block /\ nodeBlocks \subseteq Block
    /\ notifier \in Notifiers
    /\ mainPc \in {"start", "pending", "run", "running"}
    /\ listeners \in Seq(Listener)
    /\ callbacks \in BOOLEAN /\ lost \in BOOLEAN
    /\ chainstateTip \in Block \cup {NoBlock}
    /\ notificationTip \in Block \cup {NoBlock}
    /\ pendingsQueue \in Seq(Tx)
    /\ sent \subseteq Tx \X Block
    /\ threw \in BOOLEAN

OneAddress == notifier["hashblock"] = notifier["rawtx"]

Knows(first, m, k, b) ==
    \/ /\ \A i \in 1 .. k : m[i].topic # "hashblock"
       /\ first = b
    \/ \E j \in 1 .. k :
          /\ m[j].topic = "hashblock" /\ m[j].payload = b
          /\ \A i \in j + 1 .. k : m[i].topic # "hashblock"

InOrder(first, m, last) ==
    /\ \A b \in Block : Knows(first, m, Len(m), b) => b = last
    /\ \A i \in 1 .. Len(m), b \in Block :
          m[i].topic = "rawtx" /\ Knows(first, m, i - 1, b)
              => m[i].payload \notin Confirmed(b)

(* There is one listener at most, which was made for new tips. *)
OneSocket ==
    /\ Len(listeners) =< 1
    /\ mainPc = "start" => listeners = <<>>
    /\ mainPc # "start" /\ notifier["hashblock"] # NoAddress => listeners # <<>>
    /\ \A i \in 1 .. Len(listeners) :
          /\ listeners[i].addr = notifier["hashblock"]
          /\ "hashblock" \in listeners[i].topics

NoneConfirmed ==
    /\ \A x \in Transactions(pendingsQueue) :
          notificationTip # NoBlock => x \notin Confirmed(notificationTip)
    /\ \A s \in sent : s[1] \notin Confirmed(s[2])

Inv ==
    /\ TypeOK
    /\ listeners = <<>> \/ ~ callbacks => notificationTip = NoBlock
    /\ OneAddress => OneSocket
    /\ OneAddress /\ ~ lost =>
          /\ \A i \in 1 .. Len(listeners) :
                InOrder(notificationTip, listeners[i].messages, nodeTip)
          /\ NoneConfirmed
    /\ QueueKeptOnlyByThrow
=============================================================================
