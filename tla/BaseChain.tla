----------------------------- MODULE BaseChain -----------------------------
(***************************************************************************)
(* What a BaseChain promises its callers: abstract specification of the    *)
(* interface that EthChain and CoreChain implement.                        *)
(*                                                                         *)
(* A node has a main chain that goes on moving while a call is being       *)
(* answered.  An answer must be justified by main chains that the node has *)
(* had during the call.  One call at a time is enough, because connectors  *)
(* keep no state between calls of these methods.                           *)
(***************************************************************************)
EXTENDS Blocks, Sequences

CONSTANTS
    Moves,          \* BlockData::moves, for each block
    MaxReorgDepth,  \* --max_reorg_depth: blocks this deep are final
    Calls,          \* the calls that may be made
    MaxFaults,      \* a bound on the requests that fail
    NoCall,         \* that no call is being answered
    NoAnswer        \* that a call has not returned yet, or threw an exception

(* GetBlockRange (start, count) and GetMainchainHeight (hash) *)
RangeCall == [start : Nat, count : Nat]
HeightCall == [hash : Block]

ASSUME BaseChainAssumption ==
    /\ Block = DOMAIN Moves
    /\ MaxReorgDepth \in Nat
    /\ Calls \subseteq RangeCall \cup HeightCall
    /\ MaxFaults \in Nat
    /\ NoCall \notin Calls

VARIABLES
    tip,        \* the tip of the node's main chain
    highest,    \* the largest height it ever had
    call,       \* the call being answered, or NoCall
    during,     \* the tips the node has had since the call was made
    answer,     \* the last answer
    faults

vars == <<tip, highest, call, during, answer, faults>>

IsRange(c) == c # NoCall /\ "count" \in DOMAIN c

Smaller(m, n) == IF m < n THEN m ELSE n
Larger(m, n) == IF m < n THEN n ELSE m

(***************************************************************************)
(* The node, which may switch to any tip that keeps the final blocks.      *)
(***************************************************************************)
MainAt(t, h) == CHOOSE b \in Anc[t] : Height[b] = h

FinalHeight == Larger(0, highest - MaxReorgDepth)

FinalBlock == MainAt(tip, FinalHeight)

NodeMoves(b) ==
    /\ b # tip
    /\ FinalBlock \in Anc[b]
    /\ tip' = b
    /\ highest' = Larger(highest, Height[b])
    /\ during' = IF call = NoCall THEN {} ELSE during \cup {b}
    /\ UNCHANGED <<call, answer, faults>>

(***************************************************************************)
(* The blocks of a range on the main chain that ends in t.                 *)
(***************************************************************************)
BlockOf(b) == [hash |-> b, moves |-> Moves[b]]

RangeEnd(c) == c.start + c.count - 1

Slice(t, c) ==
    [i \in 1 .. Smaller(Height[t], RangeEnd(c)) + 1 - c.start |->
        BlockOf(MainAt(t, c.start + i - 1))]

(***************************************************************************)
(* A range is a piece of one main chain, with all the moves.  It is as     *)
(* long as that chain, or another one that the node has had during the     *)
(* call, allows.                                                           *)
(***************************************************************************)
RangeAnswers(c) ==
    {SubSeq(Slice(p[1], c), 1, Len(Slice(p[2], c))) :
        p \in {q \in during \X during : Len(Slice(q[2], c)) =< Len(Slice(q[1], c))}}

(* The height of a block that was on the main chain, -1 if it was not. *)
HeightAnswers(c) ==
    {IF c.hash \in Anc[t] THEN Height[c.hash] ELSE -1 : t \in during}

Answers(c) == IF IsRange(c) THEN RangeAnswers(c) ELSE HeightAnswers(c)

-----------------------------------------------------------------------------
Init ==
    /\ tip \in {b \in Block : Height[b] = 0}
    /\ highest = 0
    /\ call = NoCall
    /\ during = {}
    /\ answer = NoAnswer
    /\ faults = 0

MakeCall(c) ==
    /\ call = NoCall
    /\ call' = c
    /\ during' = {tip}
    /\ answer' = NoAnswer
    /\ UNCHANGED <<tip, highest, faults>>

Return(a) ==
    /\ call # NoCall
    /\ call' = NoCall
    /\ during' = {}
    /\ answer' = a
    /\ UNCHANGED <<tip, highest, faults>>

(***************************************************************************)
(* A request to the node fails: GetBlockRange throws.  GetMainchainHeight  *)
(* throws, or takes the block for one that the node does not know.         *)
(***************************************************************************)
Fail(a) ==
    /\ call # NoCall
    /\ faults < MaxFaults
    /\ a \in {NoAnswer} \cup (IF IsRange(call) THEN {} ELSE {-1})
    /\ call' = NoCall
    /\ during' = {}
    /\ answer' = a
    /\ faults' = faults + 1
    /\ UNCHANGED <<tip, highest>>

(* The node fails one call of a batch, and the connector does not return. *)
CallOfBatchFails ==
    /\ call # NoCall
    /\ faults < MaxFaults
    /\ faults' = faults + 1
    /\ UNCHANGED <<tip, highest, call, during, answer>>

Next ==
    \/ \E b \in Block : NodeMoves(b)
    \/ \E c \in Calls : MakeCall(c)
    \/ \E a \in Answers(call) : Return(a)
    \/ \E a \in {NoAnswer, -1} : Fail(a)
    \/ CallOfBatchFails

Spec == Init /\ [][Next]_vars

=============================================================================
