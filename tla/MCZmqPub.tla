------------------------------ MODULE MCZmqPub ------------------------------
(***************************************************************************)
(* ZmqPub with two GSPs for the game g and one for the game h.  The block  *)
(* a has a transaction x with two moves, one of them for both games, and a *)
(* transaction y with an admin command and an invalid move.                *)
(***************************************************************************)
EXTENDS ZmqPub, TLC

CONSTANTS g, h, p, q, r, a, x, y, player

MCGameOf == (p :> g) @@ (q :> g) @@ (r :> h)

Move(tx, ns, name, valid, cmd, keys) ==
    [txid |-> tx, ns |-> ns, name |-> name, valid |-> valid, cmd |-> cmd, g |-> keys]

MCMovesOf ==
    a :> << Move(x, "p", player, TRUE, FALSE, {g, h}),
            Move(y, "g", g, TRUE, TRUE, {}),
            Move(x, "p", player, TRUE, FALSE, {g}),
            Move(y, "p", player, FALSE, FALSE, {h}) >>
=============================================================================
