--------------------------- MODULE MCCoreListener ---------------------------
(***************************************************************************)
(* CoreListener on a genesis g with two competing blocks a1 and b1; the    *)
(* transaction x is confirmed in one of them, and y in the other.  The     *)
(* node publishes both topics at one address, at two, or only one topic.   *)
(***************************************************************************)
EXTENDS CoreListener, TLC

CONSTANTS g, a1, b1, x, y

MCBlock == {g, a1, b1}
MCHeight == (g :> 0) @@ (a1 :> 1) @@ (b1 :> 1)
MCParent == (g :> NoBlock) @@ (a1 :> g) @@ (b1 :> g)
MCTxIn == (g :> {}) @@ (a1 :> {y}) @@ (b1 :> {x})
MCNotifiers ==
    {[hashblock |-> "p", rawtx |-> "p"], [hashblock |-> "p", rawtx |-> "q"],
     [hashblock |-> "p", rawtx |-> ""], [hashblock |-> "", rawtx |-> "q"]}
=============================================================================
