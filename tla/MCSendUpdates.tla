--------------------------- MODULE MCSendUpdates ---------------------------
(***************************************************************************)
(* Instances of SendUpdates for TLC: the chain g, a1..a4 and the block b2  *)
(* that leaves it above a1, with a reorg depth of 1 or 2.  Sync prunes g   *)
(* at the height 4 or quick-syncs over it.                                 *)
(***************************************************************************)
EXTENDS SendUpdates, TLC

CONSTANTS g, a1, a2, a3, a4, b2

MCBlock == {g, a1, a2, a3, a4, b2}

MCHeight ==
    (g :> 0) @@ (a1 :> 1) @@ (a2 :> 2) @@ (a3 :> 3) @@ (a4 :> 4) @@ (b2 :> 2)

MCParent ==
    (g :> NoBlock) @@ (a1 :> g) @@ (a2 :> a1) @@ (a3 :> a2) @@ (a4 :> a3) @@ (b2 :> a1)

MCTargets == {NoBlock, a1, a3}

(* As in MCChainstate, the numbers of the branches do not matter. *)
Unnumbered(t) ==
    [b \in Block |-> IF t[b] \in {NotStored, MainBranch} THEN {t[b]}
                     ELSE OnBranch(t, t[b])]

View ==
    <<base, Unnumbered(table), [i \in DOMAIN saves |-> Unnumbered(saves[i])],
      seen, members, pc, genesisHeight, locals, faults, gsp, rpc>>
=============================================================================
