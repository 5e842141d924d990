--------------------------- MODULE PendingManager ---------------------------
(***************************************************************************)
(* The PendingManager, which decides when pending moves are forwarded to   *)
(* the GSPs.  It is told of new tips and pending moves by the push         *)
(* notifications of the base chain, and of new tips of the chainstate by   *)
(* Sync, which asks the base chain for blocks itself and so may be ahead   *)
(* of the notifications or behind them.  Each handler holds the manager's  *)
(* mutex for its whole run and is one action.  Who calls the handlers is   *)
(* in CoreListener.                                                        *)
(***************************************************************************)
EXTENDS Blocks, Sequences

CONSTANTS
    Tx,             \* transactions that carry moves
    TxIn            \* the transactions in each block

ASSUME PendingAssumption == TxIn \in [Block -> SUBSET Tx]

(* The transactions that are confirmed when b is the tip. *)
Confirmed(b) == UNION {TxIn[c] : c \in Anc[b]}

VARIABLES
    \* NoBlock is the empty string
    chainstateTip,
    notificationTip,
    pendingsQueue,
    \* (history)
    sent,           \* what was sent to the GSPs, with the chainstate tip
    threw           \* sending queued moves failed, and left them in the queue

manager == <<chainstateTip, notificationTip, pendingsQueue, sent, threw>>

ManagerInit ==
    /\ chainstateTip = NoBlock
    /\ notificationTip = NoBlock
    /\ pendingsQueue = <<>>
    /\ sent = {}
    /\ threw = FALSE

-----------------------------------------------------------------------------
(* SendPendingMoves for one transaction after the other.  Sending throws   *)
(* at the first failure, after some of them have gone out.                 *)

SentWith(tip, S) == sent' = sent \cup (S \X {tip})

Transactions(q) == {q[i] : i \in 1 .. Len(q)}

(* Mutant: moves queued for an earlier tip are kept. *)
TipChangedKeepsQueue(tip) ==
    /\ notificationTip' = tip
    /\ UNCHANGED <<chainstateTip, pendingsQueue, sent, threw>>

TipChanged(tip) ==
    /\ pendingsQueue' = <<>>
    /\ threw' = FALSE
    /\ notificationTip' = tip
    /\ UNCHANGED <<chainstateTip, sent>>

(* Before the first tip of the chainstate, the moves are dropped. *)
PendingMovesIgnored ==
    /\ chainstateTip = NoBlock
    /\ UNCHANGED manager

(***************************************************************************)
(* The CHECK here aborts the process unless the queue is empty.  Nothing   *)
(* goes out for a move of a game that is not tracked.  If sending throws,  *)
(* no handler of the listener's thread catches it and the process ends;    *)
(* that is the same as nothing going out, and no further step.             *)
(***************************************************************************)
PendingMovesSent(x) ==
    /\ chainstateTip # NoBlock /\ chainstateTip = notificationTip
    /\ pendingsQueue = <<>>
    /\ \/ SentWith(chainstateTip, {x})
       \/ UNCHANGED sent
    /\ UNCHANGED <<chainstateTip, notificationTip, pendingsQueue, threw>>

PendingMovesQueued(x) ==
    /\ chainstateTip # NoBlock /\ chainstateTip # notificationTip
    /\ pendingsQueue' = Append(pendingsQueue, x)
    /\ UNCHANGED <<chainstateTip, notificationTip, sent, threw>>

PendingMoves(x) == PendingMovesIgnored \/ PendingMovesSent(x) \/ PendingMovesQueued(x)

(* Mutant: the queue is not looked at. *)
ChainstateTipChangedOnly(b) ==
    /\ chainstateTip' = b
    /\ UNCHANGED <<notificationTip, pendingsQueue, sent, threw>>

ChainstateTipChanged(b) ==
    /\ chainstateTip' = b
    /\ \/ /\ b = notificationTip
          /\ SentWith(b, Transactions(pendingsQueue))
          /\ pendingsQueue' = <<>>
          /\ threw' = FALSE
       \/ /\ b = notificationTip
          /\ \E n \in 1 .. Len(pendingsQueue) :
                SentWith(b, Transactions(SubSeq(pendingsQueue, 1, n - 1)))
          /\ threw' = TRUE
          /\ UNCHANGED pendingsQueue
       \/ /\ b # notificationTip
          /\ UNCHANGED <<pendingsQueue, sent, threw>>
    /\ UNCHANGED notificationTip
=============================================================================
