------------------------------ MODULE EthChain ------------------------------
(***************************************************************************)
(* EthChain, the connector to an EVM node: how GetBlockRange and           *)
(* GetMainchainHeight put their answers together from several requests,    *)
(* between which the node may reorganise its main chain.                   *)
(***************************************************************************)
EXTENDS BaseChain

CONSTANT FastLogsDepth      \* --ethchain_fast_logs_depth

(* "blocks buried this far in the blockchain [...] never get reorged" *)
ASSUME FastLogsAssumption == FastLogsDepth \in Nat /\ FastLogsDepth >= MaxReorgDepth

VARIABLES
    ethPc,
    ethTipHeight,   \* tipHeight of TryBlockRange
    ethBlocks,      \* res of TryBlockRange
    ethLogs         \* the number of blocks whose moves were added

ethVars == <<ethPc, ethTipHeight, ethBlocks, ethLogs>>

EthInit ==
    /\ ethPc = "idle"
    /\ ethTipHeight = 0
    /\ ethBlocks = <<>>
    /\ ethLogs = 0

EthIdle == ethPc' = "idle" /\ ethTipHeight' = 0 /\ ethBlocks' = <<>> /\ ethLogs' = 0

EthReturn(a) == Return(a) /\ EthIdle

EthFail(a) == Fail(a) /\ EthIdle

(* Mutant: the range is not reduced to the new tip in another attempt. *)
TryBlockRangeSameEnd ==
    /\ ethPc' = IF ethPc = "idle" THEN "tip" ELSE "blocks"
    /\ ethBlocks' = <<>>
    /\ ethLogs' = 0
    /\ UNCHANGED <<vars, ethTipHeight>>

FromTheStart == ethPc' = "tip" /\ ethTipHeight' = 0 /\ ethBlocks' = <<>> /\ ethLogs' = 0

(* TryBlockRange from the start: at first, and when it returned false. *)
TryBlockRange == FromTheStart /\ UNCHANGED vars

-----------------------------------------------------------------------------
(* GetBlockRange *)

EthGetBlockRange ==
    /\ ethPc = "idle"
    /\ IsRange(call)
    /\ IF call.count = 0 THEN EthReturn(<<>>) ELSE TryBlockRange

(* The end of the range, reduced to the tip. *)
EthEnd == Smaller(RangeEnd(call), ethTipHeight)

(* eth_blockNumber *)
EthBlockNumber ==
    /\ ethPc = "tip"
    /\ IF Smaller(RangeEnd(call), Height[tip]) < call.start
       THEN EthReturn(<<>>)
       ELSE /\ ethTipHeight' = Height[tip]
            /\ ethPc' = "blocks"
            /\ UNCHANGED <<vars, ethBlocks, ethLogs>>

(* The data of a block without its moves. *)
ExtractBaseData(b) == [hash |-> b, moves |-> <<>>]

(***************************************************************************)
(* BlockMoveExtractor for all the logs of a block: their moves, in order.  *)
(***************************************************************************)
ProcessLogEntries(blk) == [blk EXCEPT !.moves = Moves[blk.hash]]

NextHeight == call.start + Len(ethBlocks)

(* Mutant: the parent of a block is not compared with the block before. *)
FitsAlways(b) == TRUE

(* Whether a block fits to those received so far. *)
Fits(b) == ethBlocks # <<>> => Parent[b] = ethBlocks[Len(ethBlocks)].hash

(***************************************************************************)
(* The next call of the batch, eth_getBlockByNumber.  A block that is not  *)
(* there, or does not fit, means that the main chain has changed, and      *)
(* everything is tried again.                                              *)
(***************************************************************************)
EthGetBlockByNumber ==
    /\ ethPc = "blocks"
    /\ NextHeight =< EthEnd
    /\ IF Height[tip] >= NextHeight /\ Fits(MainAt(tip, NextHeight))
       THEN /\ ethBlocks' = Append(ethBlocks, ExtractBaseData(MainAt(tip, NextHeight)))
            /\ UNCHANGED <<vars, ethPc, ethTipHeight, ethLogs>>
       ELSE TryBlockRange

(* Mutant: the fast way is taken for all blocks below the tip. *)
BuriedBelowTip == EthEnd < ethTipHeight

(* The blocks are so deep that the fast way to get the logs is safe. *)
Buried == EthEnd + FastLogsDepth < ethTipHeight

EthLogsNext ==
    /\ ethPc = "blocks"
    /\ NextHeight > EthEnd
    /\ ethPc' = IF Buried THEN "range" ELSE "logs"
    /\ UNCHANGED <<vars, ethTipHeight, ethBlocks, ethLogs>>

(***************************************************************************)
(* AddMovesOneByOne: eth_getLogs for the hash of each block.  For a block  *)
(* that has left the main chain the node may say that it does not know it. *)
(***************************************************************************)
AddMovesOneByOne ==
    /\ ethPc = "logs"
    /\ ethLogs < Len(ethBlocks)
    /\ \/ /\ ethBlocks' = [ethBlocks EXCEPT ![ethLogs + 1] = ProcessLogEntries(@)]
          /\ ethLogs' = ethLogs + 1
          /\ UNCHANGED <<vars, ethPc, ethTipHeight>>
       \/ /\ ethBlocks[ethLogs + 1].hash \notin Anc[tip]
          /\ TryBlockRange

EthRangeDone ==
    /\ ethPc = "logs"
    /\ ethLogs = Len(ethBlocks)
    /\ EthReturn(ethBlocks)

(***************************************************************************)
(* AddMovesFromHeightRange: one eth_getLogs for the heights of the range.  *)
(* Each log goes to the block with its hash; one for another block fails a *)
(* CHECK.  A block that is no longer on the main chain gets no moves.      *)
(***************************************************************************)
Logged ==
    {b \in Anc[tip] : Height[b] \in call.start .. EthEnd /\ Moves[b] # <<>>}

AddMovesFromHeightRange ==
    /\ ethPc = "range"
    /\ IF Logged \subseteq {ethBlocks[i].hash : i \in DOMAIN ethBlocks}
       THEN EthReturn([i \in DOMAIN ethBlocks |->
                          IF ethBlocks[i].hash \in Logged
                          THEN ProcessLogEntries(ethBlocks[i]) ELSE ethBlocks[i]])
       ELSE ethPc' = "abort" /\ UNCHANGED <<vars, ethTipHeight, ethBlocks, ethLogs>>

-----------------------------------------------------------------------------
(* GetMainchainHeight *)

(* eth_getBlockByHash.  The node may not know blocks off its main chain. *)
EthGetBlockByHash ==
    /\ ethPc = "idle"
    /\ call # NoCall /\ ~ IsRange(call)
    /\ \/ /\ call.hash \notin Anc[tip]
          /\ EthReturn(-1)
       \/ /\ ethPc' = "number"
          /\ UNCHANGED <<vars, ethTipHeight, ethBlocks, ethLogs>>

(* The block is the one of its height on the main chain. *)
IsMainBlock(b) == Height[b] =< Height[tip] /\ MainAt(tip, Height[b]) = b

(* eth_getBlockByNumber for the height of the block. *)
EthCompareBlock ==
    /\ ethPc = "number"
    /\ EthReturn(IF IsMainBlock(call.hash) THEN Height[call.hash] ELSE -1)

-----------------------------------------------------------------------------
(* A request fails.  Only the first one of GetMainchainHeight is caught. *)
EthThrows ==
    /\ ethPc \notin {"idle", "abort", "nodeError"}
    /\ EthFail(NoAnswer)

EthUnknown ==
    /\ ethPc = "idle"
    /\ call # NoCall /\ ~ IsRange(call)
    /\ EthFail(-1)

(* A CHECK of TryBlockRange ends the process if the node fails to answer   *)
(* for one of the blocks.                                                  *)
EthBlockFails ==
    /\ ethPc = "blocks"
    /\ NextHeight =< EthEnd
    /\ CallOfBatchFails
    /\ ethPc' = "nodeError"
    /\ UNCHANGED <<ethTipHeight, ethBlocks, ethLogs>>

(* AddMovesOneByOne returns false whatever the reason for which the node   *)
(* fails to answer for one of the blocks.                                  *)
EthLogsFail ==
    /\ ethPc = "logs"
    /\ ethLogs < Len(ethBlocks)
    /\ CallOfBatchFails
    /\ FromTheStart

EthStep ==
    \/ EthGetBlockRange
    \/ EthBlockNumber
    \/ EthGetBlockByNumber
    \/ EthLogsNext
    \/ AddMovesOneByOne
    \/ EthRangeDone
    \/ AddMovesFromHeightRange
    \/ EthGetBlockByHash
    \/ EthCompareBlock

EthFails == EthThrows \/ EthUnknown \/ EthBlockFails \/ EthLogsFail

=============================================================================
