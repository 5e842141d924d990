----------------------------- MODULE CoreChain -----------------------------
(***************************************************************************)
(* CoreChain, the connector to Xaya Core: GetBlockRange determines the     *)
(* last block of the range and goes back from there by parent hashes;      *)
(* GetMainchainHeight is one request.                                      *)
(***************************************************************************)
EXTENDS BaseChain

VARIABLES
    corePc,
    endHash,        \* the block to be fetched next
    coreBlocks      \* the blocks fetched so far, the last one first in the code

coreVars == <<corePc, endHash, coreBlocks>>

CoreInit == corePc = "idle" /\ endHash = NoBlock /\ coreBlocks = <<>>

CoreIdle == corePc' = "idle" /\ endHash' = NoBlock /\ coreBlocks' = <<>>

CoreReturn(a) == Return(a) /\ CoreIdle

CoreGetBlockRange ==
    /\ corePc = "idle"
    /\ IsRange(call)
    /\ IF call.count = 0 THEN CoreReturn(<<>>)
       ELSE corePc' = "info" /\ UNCHANGED <<vars, endHash, coreBlocks>>

(* getblockchaininfo: height and hash of the tip. *)
GetBlockchainInfo ==
    /\ corePc = "info"
    /\ \/ /\ Height[tip] < call.start
          /\ CoreReturn(<<>>)
       \/ /\ Height[tip] \in call.start .. RangeEnd(call)
          /\ endHash' = tip
          /\ corePc' = "walk"
          /\ UNCHANGED <<vars, coreBlocks>>
       \/ /\ Height[tip] > RangeEnd(call)
          /\ corePc' = "hash"
          /\ UNCHANGED <<vars, endHash, coreBlocks>>

(***************************************************************************)
(* getblockhash for the end of the range.  If the main chain has become    *)
(* shorter (error -8), everything is tried again.                          *)
(***************************************************************************)
GetBlockHash ==
    /\ corePc = "hash"
    /\ IF Height[tip] < RangeEnd(call)
       THEN corePc' = "info" /\ UNCHANGED endHash
       ELSE corePc' = "walk" /\ endHash' = MainAt(tip, RangeEnd(call))
    /\ UNCHANGED <<vars, coreBlocks>>

(* The transactions of a block come with it, and its moves with them. *)
ConstructBlockData(b) == [hash |-> b, moves |-> Moves[b]]

(* Mutant: the blocks are asked for by their heights. *)
GetBlockByHeight ==
    /\ corePc = "walk"
    /\ LET res == <<ConstructBlockData(endHash)>> \o coreBlocks
           below == Smaller(Height[tip], Height[endHash] - 1)
       IN  IF Height[endHash] =< call.start THEN CoreReturn(res)
           ELSE /\ coreBlocks' = res
                /\ endHash' = MainAt(tip, below)
                /\ UNCHANGED <<vars, corePc>>

(***************************************************************************)
(* getblock, which works for blocks off the main chain as well, until the  *)
(* start of the range is reached.  A CHECK fails for a block below it.     *)
(***************************************************************************)
GetBlock ==
    /\ corePc = "walk"
    /\ LET res == <<ConstructBlockData(endHash)>> \o coreBlocks
       IN  IF Height[endHash] < call.start
           THEN corePc' = "abort" /\ UNCHANGED <<vars, endHash, coreBlocks>>
           ELSE IF Height[endHash] = call.start THEN CoreReturn(res)
           ELSE /\ coreBlocks' = res
                /\ endHash' = Parent[endHash]
                /\ UNCHANGED <<vars, corePc>>

(* getblockheader, with -1 confirmations for blocks off the main chain. *)
GetBlockHeader ==
    /\ corePc = "idle"
    /\ call # NoCall /\ ~ IsRange(call)
    /\ CoreReturn(IF call.hash \in Anc[tip] THEN Height[call.hash] ELSE -1)

(* A request fails, which GetMainchainHeight catches. *)
CoreThrows ==
    /\ corePc \notin {"idle", "abort"}
    /\ Fail(NoAnswer)
    /\ CoreIdle

CoreUnknown ==
    /\ corePc = "idle"
    /\ call # NoCall /\ ~ IsRange(call)
    /\ Fail(-1)
    /\ CoreIdle

CoreStep ==
    \/ CoreGetBlockRange
    \/ GetBlockchainInfo
    \/ GetBlockHash
    \/ GetBlock
    \/ GetBlockHeader

CoreFails == CoreThrows \/ CoreUnknown

=============================================================================
