----------------------------- MODULE TreeStore -----------------------------
(***************************************************************************)
(* What Chainstate promises to the classes that use it, without branch     *)
(* numbers: a set of stored blocks, and in it a main chain, which is the   *)
(* path from a root block up to the tip.                                   *)
(*                                                                         *)
(* A block is dropped only when the main chain passes through it or above  *)
(* it.  An update batch is a transaction: it takes effect as a whole or    *)
(* not at all, and so does everything that happens in it.                  *)
(***************************************************************************)
EXTENDS Blocks, Sequences

VARIABLES
    tree,       \* the stored blocks, the root and the tip of the main chain
    undo        \* the trees to which the open batches would revert

NoTree == [stored |-> {}, root |-> NoBlock, tip |-> NoBlock]

MainPath(r) == IF r.tip = NoBlock THEN {}
               ELSE {b \in Anc[r.tip] : Height[b] >= Height[r.root]}

Init == tree = NoTree /\ undo = <<>>

(* The root changes only if the path from the new tip misses it. *)
SetTip(b) ==
    /\ tree.tip # NoBlock
    /\ \E r \in Anc[b] :
          /\ tree.root \in Anc[b] => r = tree.root
          /\ tree' = [stored |-> tree.stored \cup {b}, root |-> r, tip |-> b]
          /\ MainPath(tree') \subseteq tree'.stored
    /\ UNCHANGED undo

Import(b) ==
    /\ tree.tip # NoBlock => tree.tip \in Anc[b] \ {b}
    /\ \E S \in SUBSET (tree.stored \cup {b}) :
          /\ tree.stored \ (Anc[b] \ {b}) \subseteq S
          /\ MainPath(tree) \cap S = {}
          /\ tree' = [stored |-> S \cup {b}, root |-> b, tip |-> b]
    /\ UNCHANGED undo

Prune(r) ==
    /\ r \in MainPath(tree)
    /\ tree' = [stored |-> tree.stored \ (MainPath(tree) \cap (Anc[r] \ {r})),
                root |-> r, tip |-> tree.tip]
    /\ UNCHANGED undo

Begin ==
    /\ undo' = Append(undo, tree)
    /\ UNCHANGED tree

Commit ==
    /\ undo # <<>>
    /\ undo' = SubSeq(undo, 1, Len(undo) - 1)
    /\ UNCHANGED tree

Revert(n) ==
    /\ tree' = undo[n]
    /\ undo' = SubSeq(undo, 1, n - 1)

Next ==
    \/ \E b \in Block : SetTip(b) \/ Import(b) \/ Prune(b)
    \/ Begin
    \/ Commit
    \/ \E n \in 1 .. Len(undo) : Revert(n)

Spec == Init /\ [][Next]_<<tree, undo>>
=============================================================================
