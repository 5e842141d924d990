---------------------------- MODULE MCChainstate ----------------------------
(***************************************************************************)
(* Chainstate for TLC.  The blocks are named by their branch and height: g *)
(* is the genesis, a1 and a2 a chain on it, b1 and b2 a second chain, and  *)
(* c2 a fork of the latter.                                                *)
(***************************************************************************)
EXTENDS Chainstate, TLC

CONSTANTS g, a1, a2, b1, b2, c2

MCBlock == {g, a1, a2, b1, b2, c2}

MCHeight ==
    (g :> 0) @@ (a1 :> 1) @@ (a2 :> 2) @@ (b1 :> 1) @@ (b2 :> 2) @@ (c2 :> 2)

MCParent ==
    (g :> NoBlock) @@ (a1 :> g) @@ (a2 :> a1) @@ (b1 :> g) @@ (b2 :> b1) @@ (c2 :> b1)

(***************************************************************************)
(* Branch numbers other than the main one only tell branches apart, and a  *)
(* new one is larger than all that are in use.  Two states that differ in  *)
(* the numbers of their branches are the same for every property here, so  *)
(* TLC need visit only one of them: each block is shown with the set of    *)
(* blocks on its branch.                                                   *)
(***************************************************************************)
Unnumbered(t) ==
    [b \in Block |-> IF t[b] \in {NotStored, MainBranch} THEN {t[b]}
                     ELSE OnBranch(t, t[b])]

View == <<Unnumbered(table), [i \in DOMAIN saves |-> Unnumbered(saves[i])], seen>>
=============================================================================
