------------------------------- MODULE MCSync -------------------------------
(***************************************************************************)
(* Instances of Sync for TLC.  The blocks are named by their branch and    *)
(* height: g is the genesis and a1..a5 the chain on it.                    *)
(*                                                                         *)
(* In the forked tree, b2 and b3 leave that chain above a1.  The chain is  *)
(* long enough for the reorg depth of 2 to be exceeded, so that blocks are *)
(* pruned and Sync quick-syncs forward.                                    *)
(*                                                                         *)
(* In the split tree, b1..b3 leave it right above the genesis.  The reorg  *)
(* depth is 5, and the search for the fork point takes several steps.      *)
(***************************************************************************)
EXTENDS Sync, TLC

CONSTANTS g, a1, a2, a3, a4, a5, b1, b2, b3

Heights ==
    (g :> 0) @@ (a1 :> 1) @@ (a2 :> 2) @@ (a3 :> 3) @@ (a4 :> 4) @@ (a5 :> 5)
    @@ (b1 :> 1) @@ (b2 :> 2) @@ (b3 :> 3)

ChainA == (g :> NoBlock) @@ (a1 :> g) @@ (a2 :> a1) @@ (a3 :> a2) @@ (a4 :> a3)
          @@ (a5 :> a4)

ForkedBlock == {g, a1, a2, a3, a4, a5, b2, b3}
ForkedHeight == [b \in ForkedBlock |-> Heights[b]]
ForkedParent == ChainA @@ (b2 :> a1) @@ (b3 :> b2)

SplitBlock == {g, a1, a2, a3, a4, a5, b1, b2, b3}
SplitHeight == [b \in SplitBlock |-> Heights[b]]
SplitParent == ChainA @@ (b1 :> g) @@ (b2 :> b1) @@ (b3 :> b2)

(* As in MCChainstate, the numbers of the branches do not matter. *)
Unnumbered(t) ==
    [b \in Block |-> IF t[b] \in {NotStored, MainBranch} THEN {t[b]}
                     ELSE OnBranch(t, t[b])]

View ==
    <<base, Unnumbered(table), [i \in DOMAIN saves |-> Unnumbered(saves[i])],
      seen, members, pc, genesisHeight, locals, faults>>
=============================================================================
