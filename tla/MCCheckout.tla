------------------------------ MODULE MCCheckout ------------------------------
(***************************************************************************)
(* Small instances of Checkout for TLC: the forms that the runs submit.    *)
(***************************************************************************)
EXTENDS Checkout, TLC

CONSTANTS r1, r2, r3, r4, k1, u1, u2, p1, p2, v1, v2

\* Two of everything but the first voucher, which can be used once.
MCStock == [p \in Product |-> 2]
MCLimit == [v \in Voucher |-> IF v = v1 THEN 1 ELSE 2]

Submit(k, u, q, v, m) ==
    [key |-> k, user |-> u, qty |-> [p \in Product |-> IF p = p1 THEN q ELSE 0], voucher |-> v, method |-> m]

\* One form submitted twice under one key.
DoubleSubmission == [r \in Request |-> Submit(k1, u1, 1, None, "QRIS")]

\* Another user's form without a key, for n of p1 and m of p2.
Keyless(n, m, v) ==
    [key |-> None, user |-> u2, qty |-> [p \in Product |-> IF p = p1 THEN n ELSE m],
     voucher |-> v, method |-> "COD"]

\* A form submitted twice under one key; another user's first form competes with it for
\* the last use of v1, and with that user's second form for the stock of p2. Without a
\* key a repeated submission of the second form tries to use v2 again.
Competitors == r1 :> Submit(k1, u1, 1, v1, "QRIS") @@ r2 :> Submit(k1, u1, 1, v1, "QRIS")
               @@ r3 :> Keyless(1, 2, v1) @@ r4 :> Keyless(0, 1, v2)

\* One form submitted twice under one key, and a third with other items that reuses
\* the key.
ReusedKey == r1 :> Submit(k1, u1, 1, None, "QRIS") @@ r2 :> Submit(k1, u1, 1, None, "QRIS")
             @@ r3 :> Submit(k1, u1, 2, None, "QRIS")

SameForms == Permutations({r1, r2})
=============================================================================
