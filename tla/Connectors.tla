----------------------------- MODULE Connectors -----------------------------
(***************************************************************************)
(* A caller whose calls are answered by EthChain or by CoreChain, while    *)
(* the node moves at any time.  Both implement BaseChain.                  *)
(***************************************************************************)
EXTENDS EthChain, CoreChain

allVars == <<vars, ethVars, coreVars>>

ConnectorsInit == Init /\ EthInit /\ CoreInit

ByEth == corePc = "idle" /\ EthStep /\ UNCHANGED coreVars
ByCore == ethPc = "idle" /\ CoreStep /\ UNCHANGED ethVars

ConnectorsNext ==
    \/ \E b \in Block : NodeMoves(b) /\ UNCHANGED <<ethVars, coreVars>>
    \/ \E c \in Calls : MakeCall(c) /\ UNCHANGED <<ethVars, coreVars>>
    \/ ByEth
    \/ ByCore
    \/ corePc = "idle" /\ EthFails /\ UNCHANGED coreVars
    \/ ethPc = "idle" /\ CoreFails /\ UNCHANGED ethVars

(* The thread that makes the call goes on with it. *)
ConnectorsSpec ==
    ConnectorsInit /\ [][ConnectorsNext]_allVars /\ WF_allVars(ByEth \/ ByCore)

-----------------------------------------------------------------------------
(***************************************************************************)
(* The connectors keep the promises of the interface, however the node     *)
(* reorganises its main chain between the requests of a call: a range is a *)
(* consecutive piece of one main chain with exactly the moves of its       *)
(* blocks, and a height is that of a block that was on the main chain.     *)
(***************************************************************************)
ImplementsBaseChain == Spec

(***************************************************************************)
(* CoreChain gets its range "in an atomic fashion", as a comment in its    *)
(* GetBlockRange says: the blocks are those of the whole range on one main *)
(* chain.  EthChain may stop short of it, at the height that the main      *)
(* chain had before a reorg.                                               *)
(***************************************************************************)
CoreRangeIsAtomic ==
    [][corePc = "walk" /\ call' = NoCall /\ faults' = faults =>
          \E t \in during : answer' = Slice(t, call)]_allVars

(***************************************************************************)
(* No CHECK fails, as long as the node answers all calls of a batch:       *)
(* AddMovesFromHeightRange gets no logs for other blocks, and CoreChain    *)
(* does not go below the start of the range.                               *)
(***************************************************************************)
NeverAborts == ethPc # "abort" /\ corePc # "abort"

(***************************************************************************)
(* The loops in which both connectors try again end once the node stops    *)
(* moving, and fails no more: the call returns, unless an error of the     *)
(* node has ended the process.                                             *)
(***************************************************************************)
CallsReturn ==
    (\E b \in Block : <>[](tip = b)) => []<>(call = NoCall \/ ethPc = "nodeError")
-----------------------------------------------------------------------------
(***************************************************************************)
(* The inductive invariant.                                                *)
(***************************************************************************)
BlockDatas == [hash : Block, moves : {Moves[b] : b \in Block} \cup {<<>>}]

(* The type of the variables. *)
TypeOK ==
    /\ tip \in Block
    /\ highest \in Nat
    /\ call \in Calls \cup {NoCall}
    /\ during \subseteq Block
    /\ faults \in Nat
    /\ ethPc \in {"idle", "tip", "blocks", "logs", "range", "number", "nodeError"}
    /\ ethTipHeight \in Nat
    /\ ethBlocks \in Seq(BlockDatas)
    /\ ethLogs \in Nat
    /\ corePc \in {"idle", "info", "hash", "walk"}
    /\ endHash \in Block \cup {NoBlock}
    /\ coreBlocks \in Seq(BlockDatas)

(* The node's chain has its final block, and is one of those of the call. *)
NodeInv ==
    /\ FinalHeight =< Height[tip] /\ Height[tip] =< highest
    /\ call # NoCall => tip \in during

(* Whose turn it is: one call is answered, by one connector. *)
CallInv ==
    /\ ethPc # "idle" => corePc = "idle"
    /\ ethPc # "idle" \/ corePc # "idle" => call # NoCall
    /\ ethPc \in {"tip", "blocks", "logs", "range"} => IsRange(call) /\ call.count > 0
    /\ ethPc = "number" => ~ IsRange(call)
    /\ corePc # "idle" => IsRange(call) /\ call.count > 0

(***************************************************************************)
(* Blocks that were received are a piece of the chain that the node had    *)
(* when the last one was: each fits to the one before.  The end of the     *)
(* range is that of the chain whose tip height was asked for.              *)
(***************************************************************************)
EthBlocksOf(t) ==
    \A i \in 1 .. Len(ethBlocks) :
        /\ ethBlocks[i].hash \in Anc[t]
        /\ Height[ethBlocks[i].hash] = call.start + i - 1
        /\ ethBlocks[i].moves = IF i =< ethLogs THEN Moves[ethBlocks[i].hash] ELSE <<>>

EthBlocksInv ==
    /\ ethPc = "tip" => ethBlocks = <<>>
    /\ ethPc \in {"tip", "blocks", "range"} => ethLogs = 0
    /\ ethPc \in {"blocks", "logs", "range"} =>
          /\ \E u \in during : Height[u] = ethTipHeight
          /\ \E t \in during : EthBlocksOf(t)
          /\ call.start =< EthEnd
          /\ NextHeight =< EthEnd + 1
          /\ ethPc # "blocks" => NextHeight = EthEnd + 1
          /\ ethLogs =< Len(ethBlocks)

(* What is got on the fast way is final, however old it is. *)
EthBuriedInv ==
    /\ ethPc \in {"blocks", "range"} => ethTipHeight =< highest
    /\ ethPc \in {"blocks", "range"} /\ Buried =>
          \A i \in 1 .. Len(ethBlocks) : ethBlocks[i].hash \in Anc[FinalBlock]
    /\ ethPc = "range" => Buried

(* CoreChain walks down one of the chains, from the end of the range on it. *)
CoreWalkOf(t) ==
    /\ endHash \in Anc[t]
    /\ Height[endHash] + Len(coreBlocks) = Smaller(Height[t], RangeEnd(call))
    /\ \A i \in 1 .. Len(coreBlocks) :
          /\ coreBlocks[i].hash \in Anc[t]
          /\ Height[coreBlocks[i].hash] = Height[endHash] + i
          /\ coreBlocks[i].moves = Moves[coreBlocks[i].hash]

CoreWalkInv ==
    /\ corePc # "walk" => coreBlocks = <<>>
    /\ corePc = "walk" => call.start =< Height[endHash] /\ \E t \in during : CoreWalkOf(t)

Inv ==
    /\ TypeOK
    /\ NodeInv
    /\ CallInv
    /\ EthBlocksInv
    /\ EthBuriedInv
    /\ CoreWalkInv
=============================================================================
