-------------------------- MODULE MCOrderLifecycle --------------------------
(***************************************************************************)
(* Small instances of OrderLifecycle for TLC: the orders of the runs.      *)
(***************************************************************************)
EXTENDS OrderLifecycle, TLC

CONSTANTS o1, o2, o3, a1, a2, w1, w2, p1, p2

Buys(n, m) == p1 :> n @@ p2 :> m

\* Stock for two of the orders, which all want p1 twice.
Stock == p1 :> 5 @@ p2 :> 1

TransferOnly == [o \in Order |-> "BANK_TRANSFER"]
OneEach == o1 :> "BANK_TRANSFER" @@ o2 :> "GATEWAY" @@ o3 :> "COD"

Items == [o \in Order |-> IF o = o1 THEN Buys(2, 1) ELSE Buys(2, 0)]

Admins == Permutations(Admin)
Workers == Permutations(Worker)
=============================================================================
