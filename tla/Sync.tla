-------------------------------- MODULE Sync --------------------------------
(***************************************************************************)
(* The Sync class with what it drives: the thread that asks the base chain *)
(* for blocks and brings the chainstate to the base chain's tip, and the   *)
(* controller's TipUpdatedFrom callback, which runs inside its steps.      *)
(*                                                                         *)
(* The base chain goes on moving between any two calls that one update     *)
(* step makes; the calls may fail and throw; the process may crash between *)
(* any two changes of the database.                                        *)
(***************************************************************************)
EXTENDS BranchTable, Sequences

CONSTANTS
    BlockRange,     \* --xayax_block_range
    MaxReorgDepth,  \* --max_reorg_depth, the pruning depth
    MaxFaults       \* a bound on the failed or short answers and crashes

ASSUME SyncAssumption ==
    /\ BlockRange \in Nat \ {0}
    /\ MaxReorgDepth \in Nat
    /\ MaxFaults \in Nat

VARIABLES
    \* the base chain
    baseTip,        \* the tip of its main chain
    baseHighest,    \* the largest height its main chain ever had
    \* the chainstate, as in module Chainstate
    table,
    saves,
    seen,
    \* members of Sync
    numBlocks,
    nextStartHeight,
    \* the local state of UpdateStep
    pc,
    genesisHeight,
    blocks,         \* what GetBlockRange returned
    attached,       \* how many of them are attached
    oldTip,
    attaches,       \* what TipUpdatedFrom will be given
    \* the failed or short answers and the crashes so far
    faults

base == <<baseTip, baseHighest>>
chain == <<table, saves, seen>>
members == <<numBlocks, nextStartHeight>>
locals == <<blocks, attached, oldTip, attaches>>
vars == <<base, chain, members, pc, genesisHeight, locals, faults>>

Larger(m, n) == IF m < n THEN n ELSE m
Smaller(m, n) == IF m < n THEN m ELSE n

-----------------------------------------------------------------------------
(* The base chain, as its interface promises. *)

AncestorAt(b, h) == CHOOSE c \in Anc[b] : Height[c] = h

GetBlockRange(start, count) ==
    LET last == Smaller(Height[baseTip], start + count - 1)
    IN  [i \in 1 .. (last - start + 1) |-> AncestorAt(baseTip, start + i - 1)]

(***************************************************************************)
(* A reorg never replaces a block once MaxReorgDepth blocks were built on  *)
(* it; the operator chooses --max_reorg_depth so.                          *)
(***************************************************************************)
FinalBlock == AncestorAt(baseTip, Larger(0, baseHighest - MaxReorgDepth))

(***************************************************************************)
(* The base chain may move at any time.  Only the steps at these points    *)
(* read it: a move at another one is the same as one at the next of them.  *)
(***************************************************************************)
BaseIsRead == pc \in {"idle", "query", "import"}

BaseMove(b) ==
    /\ BaseIsRead
    /\ b # baseTip
    /\ FinalBlock \in Anc[b]
    /\ baseTip' = b
    /\ baseHighest' = Larger(baseHighest, Height[b])
    /\ UNCHANGED <<chain, members, pc, genesisHeight, locals, faults>>

-----------------------------------------------------------------------------
Init ==
    /\ baseTip \in {b \in Block : Height[b] = 0}
    /\ baseHighest = 0
    /\ table = EmptyTable
    /\ saves = <<>>
    /\ seen = {}
    /\ numBlocks = 1
    /\ nextStartHeight = -1
    /\ pc = "idle"
    /\ genesisHeight = 0
    /\ blocks = <<>>
    /\ attached = 0
    /\ oldTip = NoBlock
    /\ attaches = <<>>
    /\ faults = 0

(* The database after this step; `seen` follows what is committed. *)
Write(t, s) ==
    /\ table' = t
    /\ saves' = s
    /\ seen' = seen \cup Known(IF s = <<>> THEN t ELSE s[1])

(* UpdateStep is over, or the process starts: nothing local is left. *)
ResetLocals ==
    /\ genesisHeight' = 0
    /\ blocks' = <<>>
    /\ attached' = 0
    /\ oldTip' = NoBlock
    /\ attaches' = <<>>

EndStep == pc' = "idle" /\ ResetLocals

Increased == Smaller(BlockRange, 2 * numBlocks)

(* How many blocks UpdateStep asks for. *)
Requested == Larger(numBlocks, 3)

(* Mutant: the search for a fork point is forgotten between steps. *)
AlwaysFromTip == GetTipHeight(table)

StartHeight ==
    IF nextStartHeight = -1 THEN GetTipHeight(table) ELSE nextStartHeight

-----------------------------------------------------------------------------
(* UpdateStep, from one call to the base chain or commit to the next.  *)

(* GetTipHeight of the base chain *)
BeginStep ==
    /\ pc = "idle"
    /\ genesisHeight' = Larger(0, Height[baseTip] - MaxReorgDepth)
    /\ pc' = IF StartHeight = -1 THEN "import" ELSE "query"
    /\ UNCHANGED <<base, chain, members, locals, faults>>

(***************************************************************************)
(* ImportNewTip, called with an empty chainstate or at the end of a step   *)
(* that found it far behind.  Without a block it gives up, and in the      *)
(* latter case the step ends as usual.  The callback for the new block     *)
(* sends its attach message and finds nothing to prune.                    *)
(***************************************************************************)
ImportNewTip ==
    /\ pc = "import"
    /\ LET found == GetBlockRange(genesisHeight, 1)
       IN  \/ /\ found = <<>>
              /\ numBlocks' = IF blocks = <<>> THEN numBlocks ELSE Increased
              /\ UNCHANGED chain
              /\ EndStep
           \/ /\ found # <<>> /\ CanImportTip(table, found[1])
              /\ Write(ImportTip(table, found[1]), saves)
              /\ UNCHANGED numBlocks
              /\ EndStep
           \/ /\ found # <<>> /\ ~ CanImportTip(table, found[1])
              /\ pc' = "abort"
              /\ UNCHANGED <<chain, numBlocks, genesisHeight, locals>>
    /\ UNCHANGED <<base, nextStartHeight, faults>>

SortByHeight(S) ==
    [i \in 1 .. Cardinality(S) |->
        CHOOSE b \in S : Cardinality({c \in S : Height[c] < Height[b]}) = i - 1]

FirstAttaches(found) == found # <<>> /\ CanSetTip(table, found[1])

(* Mutant: the branch that is reactivated is not looked up. *)
NoForkBranch(found) == {}

(* The stored blocks below the first one that leave the main chain. *)
OldForkBranch(found) ==
    IF Parent[found[1]] = NoBlock THEN {}
    ELSE GetForkBranch(table, Parent[found[1]])

(* GetBlockRange returned a first block that attaches to the chainstate. *)
AttachBlocks(found) ==
    /\ pc = "query"
    /\ FirstAttaches(found)
    /\ Write(SetTip(table, found[1]), saves)
    /\ blocks' = found
    /\ attaches' = SortByHeight(OldForkBranch(found)) \o found
    /\ attached' = 1
    /\ oldTip' = Tip(table)
    /\ nextStartHeight' = -1
    /\ pc' = "begin"
    /\ UNCHANGED <<base, numBlocks, genesisHeight>>

AttachFirst ==
    /\ AttachBlocks(GetBlockRange(StartHeight, Requested))
    /\ UNCHANGED faults

(***************************************************************************)
(* If the base chain moves during the call, EthChain may return fewer      *)
(* blocks than the main chain has (see module Connectors).                 *)
(***************************************************************************)
ShortAnswers(found) == {SubSeq(found, 1, n) : n \in 1 .. Len(found) - 1}

AttachShort ==
    /\ pc = "query"
    /\ faults < MaxFaults
    /\ faults' = faults + 1
    /\ \E found \in ShortAnswers(GetBlockRange(StartHeight, Requested)) :
          AttachBlocks(found)

(***************************************************************************)
(* It returned none, or one that does not attach: look for the fork point  *)
(* further down, the next time.  If this is as far down as the chainstate  *)
(* goes, the CHECK_LT on the start height aborts the process.              *)
(***************************************************************************)
LookFurtherDown ==
    /\ pc = "query"
    /\ LET found == GetBlockRange(StartHeight, Requested)
           next == Larger(GetLowestUnprunedHeight(table), StartHeight - Requested)
       IN  /\ ~ FirstAttaches(found)
           /\ numBlocks' = Increased
           /\ nextStartHeight' = next
           /\ IF next < StartHeight THEN EndStep
              ELSE pc' = "abort" /\ UNCHANGED <<genesisHeight, locals>>
    /\ UNCHANGED <<base, chain, faults>>

(* The update batch for the other blocks. *)
BeginBatch ==
    /\ pc = "begin"
    /\ Write(table, Append(saves, table))
    /\ pc' = "attach"
    /\ UNCHANGED <<base, members, genesisHeight, locals, faults>>

AttachNext ==
    /\ pc = "attach"
    /\ attached < Len(blocks)
    /\ LET b == blocks[attached + 1]
       IN  IF CanSetTip(table, b) /\ Tip(table) = Parent[b]
           THEN /\ Write(SetTip(table, b), saves)
                /\ attached' = attached + 1
                /\ UNCHANGED pc
           ELSE /\ pc' = "abort"
                /\ UNCHANGED <<chain, attached>>
    /\ UNCHANGED <<base, members, genesisHeight, blocks, oldTip, attaches, faults>>

CommitBatch ==
    /\ pc = "attach"
    /\ attached = Len(blocks)
    /\ Write(table, <<>>)
    /\ pc' = IF oldTip = blocks[attached] THEN "finish" ELSE "notify"
    /\ UNCHANGED <<base, members, genesisHeight, locals, faults>>

(***************************************************************************)
(* TipUpdatedFrom: PushZmqBlocks for the old tip and the attaches, and     *)
(* pruning.  Detached is what GetForkBranch gives for the old tip,         *)
(* ForkHeight the height up to which the chains agree.  PushZmqBlocks      *)
(* sends the attaches above it, after the CHECKs that they start right on  *)
(* the fork point.                                                         *)
(***************************************************************************)
Detached == GetForkBranch(table, oldTip)

LastDetached == CHOOSE b \in Detached : \A c \in Detached : Height[b] =< Height[c]

ForkPoint == IF Detached = {} THEN oldTip ELSE Parent[LastDetached]

ForkHeight == IF Detached = {} THEN Height[oldTip] ELSE Height[LastDetached] - 1

OnlyDetaches == Detached # {} /\ attaches[Len(attaches)] = ForkPoint

AttachChecks ==
    /\ \E i \in 1 .. Len(attaches) : Height[attaches[i]] = ForkHeight + 1
    /\ \A i \in 1 .. Len(attaches) :
          Height[attaches[i]] = ForkHeight + 1 => Parent[attaches[i]] = ForkPoint

(* Mutant: the whole main chain is pruned. *)
PruneDepthTip(t) == GetTipHeight(t)

(* Mutant: the depth of reorgs is forgotten. *)
PruneDepthBelowTip(t) == GetTipHeight(t) - 1

PruneDepth(t) == GetTipHeight(t) - MaxReorgDepth - 1

TipUpdatedFrom ==
    /\ pc = "notify"
    /\ IF OnlyDetaches \/ AttachChecks
       THEN /\ Write(IF PruneDepth(table) > 0 THEN Prune(table, PruneDepth(table))
                     ELSE table, saves)
            /\ pc' = "finish"
       ELSE pc' = "abort" /\ UNCHANGED chain
    /\ UNCHANGED <<base, members, genesisHeight, locals, faults>>

FinishStep ==
    /\ pc = "finish"
    /\ \/ /\ Len(blocks) < Requested
          /\ numBlocks' = 1
          /\ EndStep
       \/ /\ Len(blocks) >= Requested
          /\ Height[blocks[Len(blocks)]] < genesisHeight
          /\ pc' = "import"
          /\ UNCHANGED <<numBlocks, genesisHeight, locals>>
       \/ /\ Len(blocks) >= Requested
          /\ Height[blocks[Len(blocks)]] >= genesisHeight
          /\ numBlocks' = Increased
          /\ EndStep
    /\ UNCHANGED <<base, chain, nextStartHeight, faults>>

UpdateStep ==
    \/ BeginStep \/ ImportNewTip \/ AttachFirst \/ LookFurtherDown
    \/ BeginBatch \/ AttachNext \/ CommitBatch \/ TipUpdatedFrom \/ FinishStep

-----------------------------------------------------------------------------
(***************************************************************************)
(* A call to the base chain throws, or the callback does when it sends     *)
(* queued pending moves, before it prunes; the thread catches it.          *)
(***************************************************************************)
CallFails ==
    /\ faults < MaxFaults
    /\ BaseIsRead \/ (pc = "notify" /\ (OnlyDetaches \/ AttachChecks))
    /\ faults' = faults + 1
    /\ EndStep
    /\ UNCHANGED <<base, chain, members>>

(* The process dies and is started again: only what was committed is left. *)
Crash ==
    /\ faults < MaxFaults
    /\ pc # "abort"
    /\ faults' = faults + 1
    /\ Write(IF saves = <<>> THEN table ELSE saves[1], <<>>)
    /\ numBlocks' = 1
    /\ nextStartHeight' = -1
    /\ EndStep
    /\ UNCHANGED base

Next ==
    \/ \E b \in Block : BaseMove(b)
    \/ BeginStep
    \/ ImportNewTip
    \/ AttachFirst
    \/ AttachShort
    \/ LookFurtherDown
    \/ BeginBatch
    \/ AttachNext
    \/ CommitBatch
    \/ TipUpdatedFrom
    \/ FinishStep
    \/ CallFails
    \/ Crash

(***************************************************************************)
(* The thread goes on: after a step that is to be followed by another it   *)
(* sleeps, after another one or a failure it waits with a timeout, and     *)
(* then it steps again.  It can always take a step unless it has aborted,  *)
(* so that weak fairness of UpdateStep amounts to this.                    *)
(***************************************************************************)
Fairness == []<><<UpdateStep>>_vars \/ <>(pc = "abort")

Spec == Init /\ [][Next]_vars /\ Fairness

-----------------------------------------------------------------------------

(***************************************************************************)
(* As long as the base chain keeps to the reorg depth, no CHECK of         *)
(* UpdateStep, ImportTip or PushZmqBlocks aborts the process: not "Reorg   *)
(* beyond pruning depth", not the ones on the blocks of the batch, on the  *)
(* height of an imported block, or on the fork point of the notifications. *)
(***************************************************************************)
NeverAborts == pc # "abort"

(***************************************************************************)
(* What the GSPs are told about a new tip is the way there from the old    *)
(* one: the fork point is the last block that both chains share, and the   *)
(* blocks attached are all those above it, in order.  It is put together   *)
(* from the branch as it was before the update, the blocks received, and   *)
(* the branch of the old tip after the update.                             *)
(***************************************************************************)
NotificationsLeadToTip ==
    pc = "notify" =>
        LET above(b) == {c \in Anc[b] : Height[c] > ForkHeight}
            sent(i) == ~ OnlyDetaches /\ Height[attaches[i]] > ForkHeight
        IN  /\ ForkPoint \in Anc[oldTip] \cap Anc[Tip(table)]
            /\ above(oldTip) \cap above(Tip(table)) = {}
            /\ above(oldTip) = Detached
            /\ \E k \in 1 .. Len(attaches) + 1 :
                  /\ \A i \in 1 .. Len(attaches) : sent(i) <=> k =< i
                  /\ SubSeq(attaches, k, Len(attaches)) = SortByHeight(above(Tip(table)))

(***************************************************************************)
(* Sync keeps the promises that Chainstate relies on, and opens, commits   *)
(* and loses its batches as Chainstate describes: it never reorganises to  *)
(* a block that leaves a pruned one, and imports only descendants of the   *)
(* current tip, although what it knows of the base chain may be outdated.  *)
(* (UNCHANGED makes no difference, but saves TLC from trying all of Next   *)
(* for the steps that leave the chainstate alone.)                         *)
(***************************************************************************)
State == INSTANCE Chainstate WITH MaxBatches <- 1

UsesChainstateRightly ==
    State!Init /\ [][UNCHANGED chain \/ State!Next]_chain

(***************************************************************************)
(* Once the base chain stays at a tip, the chainstate gets there, and it   *)
(* stays.                                                                  *)
(***************************************************************************)
CatchesUp ==
    <>[][FALSE]_baseTip => <>[](Main(table) # {} /\ Tip(table) = baseTip)

-----------------------------------------------------------------------------
(***************************************************************************)
(* The inductive invariant.                                                *)
(***************************************************************************)
TypeOK ==
    /\ baseTip \in Block
    /\ baseHighest \in Nat
    /\ IsTable(table)
    /\ saves \in Seq([Block -> Nat \cup {NotStored}])
    /\ numBlocks \in Nat
    /\ nextStartHeight \in Nat \cup {-1}
    /\ pc \in {"idle", "query", "import", "begin", "attach", "notify", "finish"}
    /\ genesisHeight \in Nat
    /\ blocks \in Seq(Block)
    /\ attached \in Nat
    /\ oldTip \in Block \cup {NoBlock}
    /\ attaches \in Seq(Block)
    /\ faults \in Nat

FinalHeight == Larger(0, baseHighest - MaxReorgDepth)

(* The base chain is as high as its final block, so that it has one. *)
BaseInv == FinalHeight =< Height[baseTip] /\ Height[baseTip] =< baseHighest

(* The lowest block of the main chain is final. *)
Rooted(t) == Main(t) # {} => Lowest(t) \in Anc[FinalBlock]

(* The database: a batch is open only while the other blocks are attached. *)
ChainInv ==
    /\ TableInv(table) /\ Rooted(table)
    /\ IF pc = "attach"
       THEN Len(saves) = 1 /\ TableInv(saves[1]) /\ Rooted(saves[1])
       ELSE saves = <<>>
    /\ Known(IF saves = <<>> THEN table ELSE saves[1]) \subseteq seen

(* The search for a fork point stays on the main chain. *)
SearchInv ==
    /\ pc = "query" => Main(table) # {}
    /\ nextStartHeight # -1 =>
          /\ pc \in {"idle", "query"}
          /\ Main(table) # {}
          /\ Height[Lowest(table)] =< nextStartHeight

(* A block that may be imported is final, and so is the tip below it. *)
ImportInv ==
    /\ genesisHeight =< FinalHeight
    /\ pc = "import" /\ Main(table) # {} =>
          /\ Tip(table) \in Anc[FinalBlock]
          /\ Height[Tip(table)] < genesisHeight

(* The blocks received are a part of the base chain, attached one by one. *)
BlocksInv ==
    pc \in {"begin", "attach", "notify", "finish"} =>
        /\ attached \in 1 .. Len(blocks)
        /\ pc = "begin" => attached = 1
        /\ pc \in {"notify", "finish"} => attached = Len(blocks)
        /\ \A i \in 1 .. Len(blocks) :
              blocks[i] \in Anc[baseTip] /\ Height[blocks[i]] = Height[blocks[1]] + i - 1
        /\ Main(table) # {}
        /\ Tip(table) = blocks[attached]

(***************************************************************************)
(* The attaches are an unbroken chain up to the last block received, and   *)
(* reach down to the chain of the old tip.  They may go on below the main  *)
(* chain: after an import, its lowest block may have a stored parent.      *)
(***************************************************************************)
AttachesInv ==
    pc \in {"begin", "attach", "notify"} =>
        LET n == Len(attaches)
            last == blocks[Len(blocks)]
        IN  /\ oldTip \in Known(table)
            /\ Lowest(table) \in Anc[oldTip]
            /\ n > 0
            /\ \A i \in 1 .. n :
                  attaches[i] \in Anc[last] /\ Height[attaches[i]] = Height[last] + i - n
            /\ \E i \in 1 .. n : \E c \in {attaches[i], Parent[attaches[i]]} :
                  c \in Anc[oldTip] /\ Height[Lowest(table)] =< Height[c]
            /\ pc = "notify" => oldTip # last

Inv ==
    /\ TypeOK
    /\ BaseInv
    /\ ChainInv
    /\ SearchInv
    /\ ImportInv
    /\ BlocksInv
    /\ AttachesInv
=============================================================================
