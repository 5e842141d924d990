---------------------------- MODULE MCEthPending ----------------------------
(***************************************************************************)
(* An instance of EthPending for TLC: two transactions of one sender with  *)
(* moves, one of another sender without, and two threads that query the    *)
(* mempool.                                                                *)
(***************************************************************************)
EXTENDS EthPending, TLC

CONSTANTS x1, x2, x3, alice, bob, c1, c2

MCTx == {x1, x2, x3}
MCWithMoves == {x1, x2}
MCSender == (x1 :> alice) @@ (x2 :> alice) @@ (x3 :> bob)
MCNonce == (x1 :> 16) @@ (x2 :> 15) @@ (x3 :> 1)
MCBefore == (alice :> {}) @@ (bob :> {alice})
MCCaller == {c1, c2}
=============================================================================
