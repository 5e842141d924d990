----------------------------- MODULE Chainstate -----------------------------
(***************************************************************************)
(* The Chainstate class: a database of the blocks X knows, as driven by    *)
(* Sync and the controller, with its nested update batches (SQLite         *)
(* savepoints) and crashes of the process.  Every operation is atomic: it  *)
(* runs its statements inside a batch of its own, so that a crash between  *)
(* two of them leaves the database as it was before the operation.         *)
(***************************************************************************)
EXTENDS BranchTable, Sequences

CONSTANT MaxBatches     \* a bound on how deep the callers nest batches

ASSUME MaxBatchesAssumption == MaxBatches \in Nat

VARIABLES
    table,      \* the `blocks` table as the running process sees it
    saves,      \* one table per open UpdateBatch: what it would revert to
    seen        \* (history) every block that was ever committed

vars == <<table, saves, seen>>

(* What a process that crashes now finds in the database when it restarts. *)
Durable == IF saves = <<>> THEN table ELSE saves[1]

Init ==
    /\ table = EmptyTable
    /\ saves = <<>>
    /\ seen = {}

(* The history follows what becomes durable. *)
Record == seen' = seen \cup Known(Durable')

-----------------------------------------------------------------------------
DoImportTip(b) ==
    /\ CanImportTip(table, b)
    /\ ImportAllowed(table, b)
    /\ table' = ImportTip(table, b)
    /\ UNCHANGED saves
    /\ Record

DoSetTip(b) ==
    /\ CanSetTip(table, b)
    /\ ReorgAllowed(table, b)
    /\ table' = SetTip(table, b)
    /\ UNCHANGED saves
    /\ Record

(* The controller never prunes the tip itself. *)
DoPrune(untilHeight) ==
    /\ untilHeight < GetTipHeight(table)
    /\ table' = Prune(table, untilHeight)
    /\ UNCHANGED saves
    /\ Record

BeginBatch ==
    /\ Len(saves) < MaxBatches
    /\ saves' = Append(saves, table)
    /\ UNCHANGED table
    /\ Record

CommitBatch ==
    /\ saves # <<>>
    /\ saves' = SubSeq(saves, 1, Len(saves) - 1)
    /\ UNCHANGED table
    /\ Record

(* The destructor of a batch that was not committed. *)
RevertBatch ==
    /\ saves # <<>>
    /\ table' = saves[Len(saves)]
    /\ saves' = SubSeq(saves, 1, Len(saves) - 1)
    /\ Record

Crash ==
    /\ saves # <<>>
    /\ table' = saves[1]
    /\ saves' = <<>>
    /\ Record

Next ==
    \/ BeginBatch
    \/ CommitBatch
    \/ RevertBatch
    \/ Crash
    \/ \E b \in Block : DoImportTip(b)
    \/ \E b \in Block : DoSetTip(b)
    \/ \E h \in {Height[b] : b \in Block} : DoPrune(h)

Spec == Init /\ [][Next]_vars

-----------------------------------------------------------------------------
(* The type of the variables. *)
TypeOK ==
    /\ IsTable(table)
    /\ saves \in Seq([Block -> Nat \cup {NotStored}])
    /\ seen \subseteq Block

(* The tables that are, or may again become, the contents of the database. *)
Tables == {table} \cup {saves[i] : i \in 1 .. Len(saves)}

(***************************************************************************)
(* SanityCheck never aborts, whatever was imported, reorganised, pruned,   *)
(* reverted or lost in a crash before.                                     *)
(***************************************************************************)
SanityChecked == \A t \in Tables : SanityCheck(t)

(***************************************************************************)
(* No operation violates UNIQUE (`branch`, `height`), which the database   *)
(* would answer with a fatal error.                                        *)
(***************************************************************************)
UniqueConstraint == \A t \in Tables : UniqueHeights(t)

(***************************************************************************)
(* The main chain has no gaps: it is the chain of ancestors of its tip,    *)
(* down to the lowest unpruned height.                                     *)
(***************************************************************************)
MainHasNoGaps == \A t \in Tables : MainIsAncestry(t)

(***************************************************************************)
(* What GetForkBranch promises: "the blocks that need to be detached to go *)
(* from the requested block to a block whose parent hash is on the main    *)
(* chain".  It finds them by branch numbers and heights; here they are, by *)
(* ancestry: b and its ancestors down to the first one that is on the main *)
(* chain or no longer stored.                                              *)
(***************************************************************************)
ForkBranchIsPath ==
    \A t \in Tables : \A b \in Known(t) : GetForkBranch(t, b) = PathToMain(t, b)

(***************************************************************************)
(* "The database contains data for recent blocks as well as all blocks not *)
(* on the main chain": a block that was ever committed is accounted for.   *)
(* It is still stored, or it is an ancestor of the whole main chain and    *)
(* the base chain can be asked for it.  This is what lets X lead a GSP     *)
(* back from any block it was on.                                          *)
(***************************************************************************)
NoBlockLost == \A t \in Tables : seen \subseteq Accounted(t)

-----------------------------------------------------------------------------
(***************************************************************************)
(* The inductive invariant: the invariant of tables holds of every table   *)
(* that may become current again.                                          *)
(***************************************************************************)
Inv ==
    /\ TypeOK
    /\ \A t \in Tables : TableInv(t) /\ seen \subseteq Accounted(t)
    /\ Known(Durable) \subseteq seen

-----------------------------------------------------------------------------
(***************************************************************************)
(* The branch numbers implement the tree of TreeStore: the tree of a table *)
(* is made of its blocks and the ends of its main chain.                   *)
(***************************************************************************)
TreeOf(t) ==
    [stored |-> Known(t),
     root |-> IF Main(t) = {} THEN NoBlock ELSE Lowest(t),
     tip |-> IF Main(t) = {} THEN NoBlock ELSE Tip(t)]

Store == INSTANCE TreeStore WITH
            tree <- TreeOf(table),
            undo <- [i \in 1 .. Len(saves) |-> TreeOf(saves[i])]

(* Chainstate implements TreeStore. *)
ImplementsTreeStore == Store!Spec
=============================================================================
