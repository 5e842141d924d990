---------------------------- MODULE MCLifecycle ----------------------------
(***************************************************************************)
(* Lifecycle with one call of "stop" and another call.                     *)
(***************************************************************************)
EXTENDS Lifecycle, TLC

CONSTANTS stop, info, call1
=============================================================================
