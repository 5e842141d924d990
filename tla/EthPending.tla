----------------------------- MODULE EthPending -----------------------------
(***************************************************************************)
(* Pending moves on an EVM chain: the websocket that tells EthChain of new *)
(* heads and pending transactions (WebSocketSubscriber), the extraction of *)
(* moves from them (EthChain::NewPendingTx, PendingDataExtractor), and the *)
(* local mempool (PendingMempool), which the threads of the RPC server     *)
(* query in parallel.                                                      *)
(*                                                                         *)
(* The node goes on: between an announcement and the requests made because *)
(* of it, and during the batch of requests with which GetContent brings    *)
(* the local mempool up to date without holding its lock, transactions are *)
(* confirmed, dropped, or become pending again after a reorg.              *)
(***************************************************************************)
EXTENDS Naturals, Sequences, FiniteSets

CONSTANTS
    Tx,             \* transactions
    WithMoves,      \* those to watched contracts that produce moves
    Sender,         \* the address a transaction is from
    Nonce,
    Before,         \* Before[s]: the addresses that are smaller than s
    Caller,         \* the RPC threads that call GetContent
    NoTx,
    MaxMessages,    \* a bound on the websocket messages under way
    MaxEvents       \* a bound on what happens at the node

ASSUME EthPendingAssumption ==
    /\ IsFiniteSet(Tx) /\ NoTx \notin Tx
    /\ WithMoves \subseteq Tx
    /\ Nonce \in [Tx -> Nat]
    /\ \A x, y \in Tx : \/ Sender[x] = Sender[y]
                        \/ Sender[x] \in Before[Sender[y]]
                        \/ Sender[y] \in Before[Sender[x]]
    /\ \A x \in Tx : Sender[x] \notin Before[Sender[x]]
    /\ \A x, y, z \in Tx : Sender[x] \in Before[Sender[y]] /\ Sender[y] \in Before[Sender[z]]
                             => Sender[x] \in Before[Sender[z]]
    /\ MaxMessages \in Nat /\ MaxEvents \in Nat

VARIABLES
    \* the node
    status,         \* of each transaction, as eth_getTransactionByHash says
    subscribed,     \* what it announces to this connection
    messages,       \* its messages on the websocket that are under way
    nodeEvents,
    \* the main program, EthChain and its websocket
    mainPc,
    connection,
    ids,            \* the subscriptions whose ID is known: subNewHeads, subPendingTx
    pending,        \* whether there is a PendingDataExtractor
    handling,       \* the transaction whose moves NewPendingTx has got
    added,          \* whether NewPendingTx has added it to the mempool
    forwarded,      \* the transactions whose moves were given to PendingMoves
    pool,           \* PendingMempool::pool
    \* GetContent, for each thread
    contentPc,
    asked,          \* idsWithTxid
    reply,          \* the results received so far
    content,        \* what it has returned last
    \* (history)
    left,           \* the transactions that were pending and then not, once
    due             \* what each call of GetContent must return

nodeVars == <<status, subscribed, messages, nodeEvents, left>>
webSocket == <<connection, ids>>
mainVars == <<mainPc, pending>>
handler == <<handling, added, forwarded>>
ethVars == <<mainVars, webSocket, handler>>
contentVars == <<contentPc, asked, reply, content, due>>
vars == <<nodeVars, ethVars, pool, contentVars>>

Init ==
    /\ status = [x \in Tx |-> "unknown"]
    /\ subscribed = {}
    /\ messages = <<>>
    /\ nodeEvents = 0
    /\ left = {}
    /\ mainPc = "start"
    /\ connection = "none"
    /\ ids = {}
    /\ pending = FALSE
    /\ handling = NoTx
    /\ added = FALSE
    /\ forwarded = {}
    /\ pool = {}
    /\ contentPc = [c \in Caller |-> "idle"]
    /\ asked = [c \in Caller |-> {}]
    /\ reply = [c \in Caller |-> {}]
    /\ content = [c \in Caller |-> <<>>]
    /\ due = [c \in Caller |-> {}]

-----------------------------------------------------------------------------
(* The node.  A transaction that it accepts is announced; one that becomes *)
(* pending again in a reorg may be.                                        *)

Event == nodeEvents < MaxEvents /\ nodeEvents' = nodeEvents + 1

Send(m) == Len(messages) < MaxMessages /\ messages' = Append(messages, m)

Announce(subscription, payload) ==
    IF subscription \in subscribed
    THEN Send([type |-> subscription, payload |-> payload])
    ELSE UNCHANGED messages

NodeAccepts(x) ==
    /\ status[x] = "unknown"
    /\ Event
    /\ status' = [status EXCEPT ![x] = "pending"]
    /\ Announce("pendingTx", x)
    /\ UNCHANGED <<subscribed, left, ethVars, pool, contentVars>>

NodeConfirms(x) ==
    /\ status[x] = "pending"
    /\ Event
    /\ status' = [status EXCEPT ![x] = "confirmed"]
    /\ left' = left \cup {x}
    /\ Announce("newHeads", NoTx)
    /\ UNCHANGED <<subscribed, ethVars, pool, contentVars>>

NodeDrops(x) ==
    /\ status[x] = "pending"
    /\ Event
    /\ status' = [status EXCEPT ![x] = "unknown"]
    /\ left' = left \cup {x}
    /\ UNCHANGED <<subscribed, messages, ethVars, pool, contentVars>>

NodeReorgs(x) ==
    /\ status[x] = "confirmed"
    /\ Event
    /\ status' = [status EXCEPT ![x] = "pending"]
    /\ Announce("pendingTx", x) \/ UNCHANGED messages
    /\ UNCHANGED <<subscribed, left, ethVars, pool, contentVars>>

-----------------------------------------------------------------------------
(* The main program: Start, EnablePending, AddWatchedContract and Run, and *)
(* the connection it makes, which nothing opens again once it is lost.     *)

(* --eth_ws_url may be empty. *)
StartChain ==
    /\ mainPc = "start"
    /\ mainPc' = "pending"
    /\ connection' \in {"none", "connecting"}
    /\ UNCHANGED <<nodeVars, ids, pending, handler, pool, contentVars>>

(* The node answers with the ID before it announces anything. *)
SendSubscribe(subscription) ==
    /\ subscribed' = subscribed \cup {subscription}
    /\ Send([type |-> "result", payload |-> subscription])

(* The open handler subscribes to new heads. *)
OpenConnection ==
    /\ connection = "connecting"
    /\ connection' = "open"
    /\ SendSubscribe("newHeads")
    /\ UNCHANGED <<status, nodeEvents, left, ids, mainVars, handler, pool, contentVars>>

(* The worker thread ends; the subscriptions are gone with the connection. *)
LoseConnection ==
    /\ connection \in {"connecting", "open"}
    /\ handling = NoTx
    /\ Event
    /\ connection' = "lost"
    /\ subscribed' = {}
    /\ messages' = <<>>
    /\ UNCHANGED <<status, left, ids, mainVars, handler, pool, contentVars>>

(* Mutant: the subscription comes before the extractor. *)
MakeExtractorLater ==
    /\ mainPc = "pending"
    /\ mainPc' \in {"subscribe", "run"}
    /\ UNCHANGED <<nodeVars, webSocket, pending, handler, pool, contentVars>>

(* With --watch_for_pending_moves. *)
MakeExtractor ==
    /\ mainPc = "pending"
    /\ \/ pending' = TRUE /\ mainPc' = "subscribe"
       \/ UNCHANGED pending /\ mainPc' = "run"
    /\ UNCHANGED <<nodeVars, webSocket, handler, pool, contentVars>>

(***************************************************************************)
(* WebSocketSubscriber::EnablePending.  A connection that is not open yet  *)
(* refuses to send, with an error code that nobody looks at.  Of one that  *)
(* is lost there may be nothing left to send with: the program exits.      *)
(***************************************************************************)
EnablePending ==
    /\ mainPc = "subscribe"
    /\ \/ connection = "open" /\ SendSubscribe("pendingTx") /\ mainPc' = "watch"
       \/ connection # "open" /\ UNCHANGED <<subscribed, messages>> /\ mainPc' = "watch"
       \/ connection = "lost" /\ UNCHANGED <<subscribed, messages>> /\ mainPc' = "exited"
    /\ UNCHANGED <<status, nodeEvents, left, webSocket, pending, handler, pool,
                   contentVars>>

(***************************************************************************)
(* The watched contracts are added while the thread of the websocket may   *)
(* already look for them, without a lock.                                  *)
(***************************************************************************)
AddWatchedContracts ==
    /\ mainPc = "watch"
    /\ mainPc' = "run"
    /\ UNCHANGED <<nodeVars, webSocket, pending, handler, pool, contentVars>>

(* The callbacks are set, and the RPC server is started. *)
Run ==
    /\ mainPc = "run"
    /\ mainPc' = "running"
    /\ UNCHANGED <<nodeVars, webSocket, pending, handler, pool, contentVars>>

Exited == mainPc = "exited" /\ UNCHANGED vars

MainStep == StartChain \/ MakeExtractor \/ EnablePending \/ AddWatchedContracts \/ Run

-----------------------------------------------------------------------------
(* The websocket *)

(* The thread of the websocket is not busy with a transaction. *)
HandleMessage(type) ==
    /\ handling = NoTx
    /\ messages # <<>>
    /\ Head(messages).type = type
    /\ messages' = Tail(messages)

HandleResult ==
    /\ HandleMessage("result")
    /\ ids' = ids \cup {Head(messages).payload}
    /\ UNCHANGED <<status, subscribed, nodeEvents, left, mainVars, connection, handler,
                   pool, contentVars>>

(* NewTip passes the hash of the new head on. *)
HandleNewHead ==
    /\ HandleMessage("newHeads")
    /\ UNCHANGED <<status, subscribed, nodeEvents, left, ethVars, pool, contentVars>>

(***************************************************************************)
(* Whether GetMoves returns any: not for a transaction that is confirmed,  *)
(* nor for one the node does not know, whose null the RPC stub refuses.    *)
(***************************************************************************)
GetMoves(x) == status[x] = "pending" /\ x \in WithMoves

(***************************************************************************)
(* NewPendingTx: a transaction without moves is ignored, as is any if a    *)
(* request fails.                                                          *)
(***************************************************************************)
HandlePendingTx ==
    /\ HandleMessage("pendingTx")
    /\ \/ /\ "pendingTx" \in ids
          /\ GetMoves(Head(messages).payload)
          /\ handling' = Head(messages).payload
       \/ UNCHANGED handling
    /\ UNCHANGED <<status, subscribed, nodeEvents, left, mainVars, webSocket, added,
                   forwarded, pool, contentVars>>

(* PendingMempool::Add *)
AddToMempool ==
    /\ handling # NoTx /\ ~ added
    /\ pool' = pool \cup {handling}
    /\ added' = TRUE
    /\ UNCHANGED <<nodeVars, mainVars, webSocket, handling, forwarded, contentVars>>

(* The callback PendingMoves, if it is set. *)
PendingMoves ==
    /\ handling # NoTx /\ added
    /\ forwarded' = IF mainPc = "running" THEN forwarded \cup {handling} ELSE forwarded
    /\ handling' = NoTx
    /\ added' = FALSE
    /\ UNCHANGED <<nodeVars, mainVars, webSocket, pool, contentVars>>

-----------------------------------------------------------------------------
(* PendingMempool::GetContent *)

(* The transactions forwarded that never left the node's mempool. *)
StillPending == forwarded \ left

(* With the lock: which transactions to ask for.  None needs no request. *)
GetContent(c) ==
    /\ mainPc = "running"
    /\ contentPc[c] = "idle"
    /\ IF pool = {} THEN UNCHANGED contentPc
       ELSE contentPc' = [contentPc EXCEPT ![c] = "asking"]
    /\ asked' = [asked EXCEPT ![c] = pool]
    /\ content' = [content EXCEPT ![c] = <<>>]
    /\ due' = [due EXCEPT ![c] = StillPending]
    /\ UNCHANGED <<nodeVars, ethVars, pool, reply>>

Answered(c) == {r.tx : r \in reply[c]}

(* Without the lock: the next call of the batch. *)
NodeAnswers(c) ==
    /\ contentPc[c] = "asking"
    /\ \E x \in asked[c] \ Answered(c) :
          reply' = [reply EXCEPT ![c] = @ \cup {[tx |-> x, status |-> status[x]]}]
    /\ UNCHANGED <<nodeVars, ethVars, pool, contentPc, asked, content, due>>

(* Mutant: the nonces are compared as hexadecimal text. *)
IsEarlierAsText(x, y) ==
    LET first(n) == IF n < 16 THEN n ELSE n \div 16
    IN  Sender[x] = Sender[y] /\ first(Nonce[x]) < first(Nonce[y])

IsEarlierForMempool(x, y) ==
    \/ Sender[x] \in Before[Sender[y]]
    \/ Sender[x] = Sender[y] /\ Nonce[x] < Nonce[y]

(***************************************************************************)
(* The sequences that std::sort may produce: transactions with the same    *)
(* nonce, of which one replaces the other, come in any order.              *)
(***************************************************************************)
Sorted(S) ==
    {s \in [1 .. Cardinality(S) -> S] :
        \A i, j \in 1 .. Cardinality(S) : i < j =>
            s[i] # s[j] /\ ~ IsEarlierForMempool(s[j], s[i])}

Pending(c) == {r.tx : r \in {q \in reply[c] : q.status = "pending"}}

(* Mutant: only transactions that the node does not know are removed. *)
GoneUnknown(c) == {r.tx : r \in {q \in reply[c] : q.status = "unknown"}}

Gone(c) == asked[c] \ Pending(c)

(* Mutant: the pool becomes what is returned. *)
RemainingReturned(c) == Pending(c)

(* What is left in the pool. *)
Remaining(c) == pool \ Gone(c)

(***************************************************************************)
(* With the lock again: transactions that are unknown or confirmed are     *)
(* removed from the pool, the others sorted and returned.                  *)
(***************************************************************************)
ReturnContent(c) ==
    /\ contentPc[c] = "asking"
    /\ asked[c] = Answered(c)
    /\ pool' = Remaining(c)
    /\ \E s \in Sorted(Pending(c)) : content' = [content EXCEPT ![c] = s]
    /\ contentPc' = [contentPc EXCEPT ![c] = "idle"]
    /\ asked' = [asked EXCEPT ![c] = {}]
    /\ reply' = [reply EXCEPT ![c] = {}]
    /\ UNCHANGED <<nodeVars, ethVars, due>>

(* The batch request fails: GetContent throws, and the pool stays. *)
ContentFails(c) ==
    /\ contentPc[c] = "asking"
    /\ contentPc' = [contentPc EXCEPT ![c] = "idle"]
    /\ asked' = [asked EXCEPT ![c] = {}]
    /\ reply' = [reply EXCEPT ![c] = {}]
    /\ due' = [due EXCEPT ![c] = {}]
    /\ UNCHANGED <<nodeVars, ethVars, pool, content>>

-----------------------------------------------------------------------------
Handle ==
    HandleResult \/ HandleNewHead \/ HandlePendingTx \/ AddToMempool \/ PendingMoves

Query(c) == GetContent(c) \/ NodeAnswers(c) \/ ReturnContent(c)

Next ==
    \/ \E x \in Tx : NodeAccepts(x)
    \/ \E x \in Tx : NodeConfirms(x)
    \/ \E x \in Tx : NodeDrops(x)
    \/ \E x \in Tx : NodeReorgs(x)
    \/ MainStep
    \/ Exited
    \/ OpenConnection
    \/ LoseConnection
    \/ HandleResult
    \/ HandleNewHead
    \/ HandlePendingTx
    \/ AddToMempool
    \/ PendingMoves
    \/ \E c \in Caller : GetContent(c)
    \/ \E c \in Caller : NodeAnswers(c)
    \/ \E c \in Caller : ReturnContent(c)
    \/ \E c \in Caller : ContentFails(c)

(***************************************************************************)
(* The main program goes on, the thread of the websocket handles what has  *)
(* arrived, and a request to the node is answered.  Whether anyone calls   *)
(* GetContent is up to them, and whether the connection is made, to the    *)
(* network.                                                                *)
(***************************************************************************)
Fairness ==
    /\ WF_vars(MainStep)
    /\ WF_vars(Handle)
    /\ \A c \in Caller : WF_vars(NodeAnswers(c) \/ ReturnContent(c))

Spec == Init /\ [][Next]_vars /\ Fairness

-----------------------------------------------------------------------------
(***************************************************************************)
(* The CHECK of NewPendingTx, that pending moves are tracked: the thread   *)
(* of the websocket finds the extractor however early it is told of a      *)
(* transaction.                                                            *)
(***************************************************************************)
PendingTracked ==
    messages # <<>> /\ Head(messages).type = "pendingTx" => pending

(***************************************************************************)
(* "In theory a new transaction could be added now or some removed by a    *)
(* parallel call, but that's fine": no call of GetContent removes a        *)
(* transaction that the GSPs were told of, unless it was confirmed or      *)
(* dropped at some time.  (One that comes back in a reorg during a call    *)
(* may be removed.)                                                        *)
(***************************************************************************)
PendingKept == StillPending \subseteq pool

(* The sequence contains all of S, and is ordered by nonce for each sender. *)
IsContent(s, S) ==
    LET returned == {s[i] : i \in DOMAIN s}
    IN  /\ S \subseteq returned
        /\ Cardinality(returned) = Len(s)
        /\ \A i, j \in DOMAIN s :
              i < j /\ Sender[s[i]] = Sender[s[j]] => Nonce[s[i]] =< Nonce[s[j]]

(***************************************************************************)
(* What GetContent returns contains everything that the GSPs had been told *)
(* of when it was called and that did not leave the node's mempool, and is *)
(* ordered by nonce for each sender.                                       *)
(***************************************************************************)
ContentComplete ==
    \A c \in Caller : contentPc[c] = "idle" => IsContent(content[c], due[c] \ left)

(***************************************************************************)
(* The pool does not grow for ever: as long as someone calls GetContent, a *)
(* transaction that stays out of the node's mempool leaves the local one.  *)
(***************************************************************************)
GoneRemoved ==
    \A x \in Tx :
        (\E c \in Caller : []<><<ReturnContent(c)>>_vars) /\ <>[](status[x] # "pending")
            => <>[](x \notin pool)

-----------------------------------------------------------------------------
(***************************************************************************)
(* The inductive invariant: the local mempool is right about whatever has  *)
(* never left the node's.  Such a transaction is pending if it is anywhere *)
(* on its way into the pool, in it or asked for, so that no answer of the  *)
(* node, however late it is looked at, lets GetContent remove it.          *)
(***************************************************************************)
Status == {"unknown", "pending", "confirmed"}

Message == [type : {"result"}, payload : {"newHeads", "pendingTx"}]
           \cup [type : {"newHeads"}, payload : {NoTx}]
           \cup [type : {"pendingTx"}, payload : Tx]

(* The type of the variables. *)
TypeOK ==
    /\ status \in [Tx -> Status]
    /\ subscribed \subseteq {"newHeads", "pendingTx"}
    /\ messages \in Seq(Message)
    /\ nodeEvents \in Nat
    /\ left \subseteq Tx
    /\ mainPc \in {"start", "pending", "subscribe", "watch", "run", "running", "exited"}
    /\ connection \in {"none", "connecting", "open", "lost"}
    /\ ids \subseteq {"newHeads", "pendingTx"}
    /\ pending \in BOOLEAN
    /\ handling \in Tx \cup {NoTx}
    /\ added \in BOOLEAN
    /\ forwarded \subseteq Tx
    /\ pool \subseteq Tx
    /\ contentPc \in [Caller -> {"idle", "asking"}]
    /\ asked \in [Caller -> SUBSET Tx]
    /\ reply \in [Caller -> SUBSET [tx : Tx, status : Status]]
    /\ content \in [Caller -> Seq(Tx)]
    /\ due \in [Caller -> SUBSET Tx]

(* Who may tell of a pending transaction does so after the extractor is made. *)
ExtractorFirst ==
    \/ pending
    \/ /\ mainPc # "subscribe"
       /\ "pendingTx" \notin subscribed
       /\ \A i \in 1 .. Len(messages) : messages[i].type # "pendingTx"

(* A transaction that has never left the node's mempool is in it. *)
NeverLeft(x) == x \notin left => status[x] = "pending"

PoolPending ==
    /\ \A x \in pool : NeverLeft(x)
    /\ handling # NoTx => NeverLeft(handling)
    /\ \A c \in Caller : \A x \in asked[c] : NeverLeft(x)
    /\ \A c \in Caller : \A r \in reply[c] : r.tx \notin left => r.status = "pending"

(* What was forwarded, or is about to be, is in the pool. *)
AddedFirst ==
    /\ added => handling # NoTx /\ (handling \notin left => handling \in pool)
    /\ PendingKept

(* A call asks for all that it must return, and has returned nothing yet. *)
AskedForDue ==
    \A c \in Caller : contentPc[c] = "asking" =>
        due[c] \ left \subseteq asked[c] /\ content[c] = <<>>

Inv ==
    /\ TypeOK
    /\ ExtractorFirst
    /\ PoolPending
    /\ AddedFirst
    /\ AskedForDue
    /\ ContentComplete
=============================================================================
