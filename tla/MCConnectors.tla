---------------------------- MODULE MCConnectors ----------------------------
(***************************************************************************)
(* An instance of Connectors for TLC: g is the genesis, a1..a4 the chain   *)
(* on it, and b2, b3 leave it above a1.  Up to height 3 the branches may   *)
(* replace each other, at height 4 a2 becomes final.  b2 has no moves, so  *)
(* that their absence is not noticed by itself.                            *)
(***************************************************************************)
EXTENDS Connectors, TLC

CONSTANTS g, a1, a2, a3, a4, b2, b3

MCBlock == {g, a1, a2, a3, a4, b2, b3}
MCHeight ==
    (g :> 0) @@ (a1 :> 1) @@ (a2 :> 2) @@ (a3 :> 3) @@ (a4 :> 4)
    @@ (b2 :> 2) @@ (b3 :> 3)
MCParent ==
    (g :> NoBlock) @@ (a1 :> g) @@ (a2 :> a1) @@ (a3 :> a2) @@ (a4 :> a3)
    @@ (b2 :> a1) @@ (b3 :> b2)
MCMoves ==
    (g :> <<>>) @@ (a1 :> <<"move">>) @@ (a2 :> <<"attack", "retreat">>)
    @@ (a3 :> <<"move">>) @@ (a4 :> <<>>) @@ (b2 :> <<>>) @@ (b3 :> <<"attack">>)

(* One block, ranges around the fork, one beyond it, an empty one. *)
MCCalls ==
    {[start |-> 1, count |-> 1], [start |-> 1, count |-> 2],
     [start |-> 2, count |-> 3], [start |-> 3, count |-> 0]}
    \cup {[hash |-> b] : b \in {a1, a2, b3}}
=============================================================================
