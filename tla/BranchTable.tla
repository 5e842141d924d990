---------------------------- MODULE BranchTable ----------------------------
(***************************************************************************)
(* The `blocks` table of the chainstate database, and what the functions   *)
(* of src/src/chainstate.cpp compute from it and do to it.  A table is a   *)
(* function t from blocks to branch numbers: t[b] is the `branch` column   *)
(* of the row with hash b, or NotStored if there is no such row.  Hash,    *)
(* parent and height of a row are those of the block.                      *)
(***************************************************************************)
EXTENDS Blocks, FiniteSetsExt

NotStored == -1

(* The branch number of the current main chain. *)
MainBranch == 0

EmptyTable == [b \in Block |-> NotStored]

Known(t) == {b \in Block : t[b] # NotStored}

OnBranch(t, n) == {b \in Block : t[b] = n}

Main(t) == OnBranch(t, MainBranch)

OffMain(t) == Known(t) \ Main(t)

-----------------------------------------------------------------------------
(* GetMainchainHeight with "DESC" and "ASC"; -1 if there is no main chain. *)

GetTipHeight(t) ==
    IF Main(t) = {} THEN -1 ELSE Max({Height[b] : b \in Main(t)})

GetLowestUnprunedHeight(t) ==
    IF Main(t) = {} THEN -1 ELSE Min({Height[b] : b \in Main(t)})

(* The highest and the lowest block of the main chain. *)
Tip(t) == CHOOSE b \in Main(t) : \A c \in Main(t) : Height[c] =< Height[b]
Lowest(t) == CHOOSE b \in Main(t) : \A c \in Main(t) : Height[b] =< Height[c]

InsertBlock(t, b, n) == [t EXCEPT ![b] = n]

(* Mutant: branches are numbered downwards, below the mark of no branch. *)
BranchNumberBelow(t) ==
    IF Known(t) = {} THEN -2 ELSE Min({t[b] : b \in Known(t)}) - 2

GetFreeBranchNumber(t) ==
    IF Known(t) = {} THEN 1 ELSE Max({t[b] : b \in Known(t)}) + 1

-----------------------------------------------------------------------------
(***************************************************************************)
(* GetForkBranch walks from b towards the main chain.  Standing on a block *)
(* that is stored off the main chain, it collects that block with all the  *)
(* lower ones of the same branch, and continues from the parent of the     *)
(* lowest.  It stops at a block that is on the main chain or not stored.   *)
(* It never goes up, and the result is the least set that is closed under  *)
(* these steps; the code returns it in the order of decreasing height.     *)
(***************************************************************************)
BranchUpTo(t, b) == {c \in OnBranch(t, t[b]) : Height[c] =< Height[b]}

IsBranchEnd(t, b) == \A c \in OnBranch(t, t[b]) : Height[b] =< Height[c]

ForkClosed(t, S) ==
    \A c \in S : IsBranchEnd(t, c) /\ Parent[c] \in OffMain(t)
                    => BranchUpTo(t, Parent[c]) \subseteq S

(* Mutant: only the branch of b itself, without those it leads to. *)
OneBranch(t, b) == IF b \notin OffMain(t) THEN {} ELSE BranchUpTo(t, b)

GetForkBranch(t, b) ==
    LET Candidates == {c \in OffMain(t) : Height[c] =< Height[b]}
    IN  IF b \notin OffMain(t) THEN {}
        ELSE {c \in Candidates :
                \A S \in SUBSET Candidates :
                   BranchUpTo(t, b) \subseteq S /\ ForkClosed(t, S) => c \in S}

(* The return value of GetForkBranch. *)
ForkBranchFound(t, b) == b \in Known(t)

-----------------------------------------------------------------------------
(***************************************************************************)
(* MarkAsTip: the new tip b is stored.  If it is on the main chain, the    *)
(* blocks above it become a branch of their own.  If not, the blocks of    *)
(* the main chain from the height on where the branch of b leaves it do,   *)
(* and the branch of b becomes main.                                       *)
(***************************************************************************)
DetachFrom(t, h) ==
    LET n == GetFreeBranchNumber(t)
    IN  [c \in Block |-> IF t[c] = MainBranch /\ Height[c] >= h THEN n ELSE t[c]]

MakeMain(t, S) == [c \in Block |-> IF c \in S THEN MainBranch ELSE t[c]]

(* Mutant: the blocks that the new main chain replaces stay on it. *)
MarkAsTipOnTop(t, b) ==
    IF b \in Main(t) THEN DetachFrom(t, Height[b] + 1)
    ELSE MakeMain(t, GetForkBranch(t, b))

MarkAsTip(t, b) ==
    IF b \in Main(t)
      THEN DetachFrom(t, Height[b] + 1)
      ELSE LET F == GetForkBranch(t, b)
           IN  MakeMain(DetachFrom(t, Min({Height[c] : c \in F})), F)

(* SetTip returns false, and changes nothing, unless CanSetTip. *)
CanSetTip(t, b) ==
    /\ Main(t) # {}
    /\ b \in Known(t) \/ Parent[b] \in Known(t)

SetTip(t, b) ==
    IF b \in Known(t) THEN MarkAsTip(t, b)
    ELSE MarkAsTip(InsertBlock(t, b, GetFreeBranchNumber(t)), b)

(* Mutant: blocks of the other branches are removed as well. *)
PruneAll(t, untilHeight) ==
    [b \in Block |-> IF Height[b] =< untilHeight THEN NotStored ELSE t[b]]

Prune(t, untilHeight) ==
    [b \in Block |-> IF t[b] = MainBranch /\ Height[b] =< untilHeight
                       THEN NotStored ELSE t[b]]

(* The CHECK_LT at the start of ImportTip: it aborts unless this holds. *)
CanImportTip(t, b) == GetTipHeight(t) < Height[b]

(* ImportTip skips Prune for a block at height 0, when it removes nothing. *)
ImportTip(t, b) ==
    Prune(IF b \in Known(t) THEN MarkAsTip(t, b)
          ELSE InsertBlock(t, b, MainBranch),
          Height[b] - 1)

-----------------------------------------------------------------------------
(***************************************************************************)
(* SanityCheck aborts unless this holds.  Ordered by height, the blocks of *)
(* each branch but the main one form a chain.  Its end chains to a block   *)
(* of another branch, or to one that is not stored and below the main      *)
(* chain; and there is a main chain.                                       *)
(***************************************************************************)
IsChain(S) ==
    \A b, c \in S :
        /\ Height[b] = Height[c] => b = c
        /\ Height[b] < Height[c] => Parent[c] \in S

SanityCheck(t) ==
    Known(t) # {} =>
        /\ \A b \in OffMain(t) :
              /\ IsChain(OnBranch(t, t[b]))
              /\ IsBranchEnd(t, b) =>
                    IF Parent[b] \in Known(t)
                      THEN t[Parent[b]] # t[b]
                      ELSE Height[b] =< GetLowestUnprunedHeight(t)
        /\ Main(t) # {}
-----------------------------------------------------------------------------
(***************************************************************************)
(* What the callers promise.  Pruning "in essence asserts that those       *)
(* blocks will certainly not end up on a reorg in the future": a new tip   *)
(* descends from the parent of the lowest block that is still stored on    *)
(* the main chain.  And ImportTip is called when "the current tip" is "an  *)
(* ancestor of the imported block, although that cannot be verified".      *)
(***************************************************************************)
ReorgAllowed(t, b) ==
    Main(t) # {} /\ Parent[Lowest(t)] # NoBlock => Parent[Lowest(t)] \in Anc[b]

ImportAllowed(t, b) == Main(t) # {} => Tip(t) \in Anc[b]

-----------------------------------------------------------------------------
(***************************************************************************)
(* What the properties and the proofs say about a table.                   *)
(***************************************************************************)
IsTable(t) == t \in [Block -> Nat \cup {NotStored}]

(* UNIQUE (`branch`, `height`). *)
UniqueHeights(t) ==
    \A b, c \in Known(t) : t[b] = t[c] /\ Height[b] = Height[c] => b = c

(* The main chain is the ancestry of its tip, down to its lowest block. *)
MainIsAncestry(t) ==
    Main(t) # {} =>
        Main(t) = {c \in Anc[Tip(t)] : Height[c] >= Height[Lowest(t)]}

(***************************************************************************)
(* b and its ancestors down to the first one that is on the main chain or  *)
(* not stored.                                                             *)
(***************************************************************************)
PathToMain(t, b) ==
    {c \in Anc[b] : \A d \in Anc[b] : Height[d] >= Height[c] => d \in OffMain(t)}

(***************************************************************************)
(* The blocks that are stored, or ancestors of the whole main chain, so    *)
(* that the base chain can be asked for them.                              *)
(***************************************************************************)
Accounted(t) ==
    Known(t) \cup {b \in Block : Main(t) # {} /\ \A c \in Main(t) : b \in Anc[c]}

(***************************************************************************)
(* The invariant of a table.  Of each branch, the blocks are linked; the   *)
(* parent of an accounted block is accounted, so that a branch leads to a  *)
(* stored block or to a pruned one of the main chain; and there is a main  *)
(* chain.                                                                  *)
(***************************************************************************)
BranchesLinked(t) ==
    \A b, c \in Known(t) :
        t[b] = t[c] /\ Height[b] < Height[c] => t[Parent[c]] = t[c]

TableInv(t) ==
    /\ IsTable(t)
    /\ UniqueHeights(t)
    /\ BranchesLinked(t)
    /\ AncestorClosed(Accounted(t))
    /\ Known(t) # {} => Main(t) # {}
=============================================================================
