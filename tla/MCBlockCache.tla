---------------------------- MODULE MCBlockCache ----------------------------
(***************************************************************************)
(* BlockCache on a chain g, a1..a5 and the branch b3, b4 that leaves it    *)
(* above a2, with a reorg depth and a cache depth of 2.  The processes are *)
(* symmetric, which is sound for invariants.                               *)
(***************************************************************************)
EXTENDS BlockCache, TLC

CONSTANTS g, a1, a2, a3, a4, a5, b3, b4, p, q

MCBlock == {g, a1, a2, a3, a4, a5, b3, b4}
MCHeight ==
    (g :> 0) @@ (a1 :> 1) @@ (a2 :> 2) @@ (a3 :> 3) @@ (a4 :> 4) @@ (a5 :> 5)
    @@ (b3 :> 3) @@ (b4 :> 4)
MCParent ==
    (g :> NoBlock) @@ (a1 :> g) @@ (a2 :> a1) @@ (a3 :> a2) @@ (a4 :> a3)
    @@ (a5 :> a4) @@ (b3 :> a2) @@ (b4 :> b3)

MCSymmetry == Permutations({p, q})
=============================================================================
