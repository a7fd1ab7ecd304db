-------------------------- MODULE MCCustomerSessions --------------------------
(***************************************************************************)
(* A small instance of CustomerSessions for TLC.                           *)
(***************************************************************************)
EXTENDS CustomerSessions, TLC

CONSTANTS u1, u2, r1, r2, r3, r4

Symmetry == Permutations(Request) \cup Permutations(User)
=============================================================================
