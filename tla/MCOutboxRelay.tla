---------------------------- MODULE MCOutboxRelay ----------------------------
(***************************************************************************)
(* A small instance of OutboxRelay for TLC.                                *)
(***************************************************************************)
EXTENDS OutboxRelay

CONSTANTS w1, w2
=============================================================================
