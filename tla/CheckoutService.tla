--------------------------- MODULE CheckoutService ---------------------------
(***************************************************************************)
(* What checkout promises its clients, without reservations, fences or     *)
(* transactions: a key remembers at most one order; while it remembers one,*)
(* no other order is placed under it, and it is the order that every       *)
(* submission of the same request is answered with.                        *)
(***************************************************************************)
EXTENDS Integers, Sequences

CONSTANTS Request, Key, Product, Form, InitStock

VARIABLES
    placed,      \* the forms of the orders placed, in order
    remembered,  \* [Key -> the order the key stands for, 0 if none]
    shelf,       \* [Product -> Nat]
    answered     \* [Request -> the order the client was shown, 0 if none yet]

vars == <<placed, remembered, shelf, answered>>

Init ==
    /\ placed = <<>>
    /\ remembered = [k \in Key |-> 0]
    /\ shelf = InitStock
    /\ answered = [r \in Request |-> 0]

\* An order is placed for the form of r; its client may or may not learn of it.
Place(r) ==
    LET form == Form[r]
        id == Len(placed) + 1
    IN
    /\ form.key \in Key => remembered[form.key] = 0
    /\ \A p \in Product : form.qty[p] <= shelf[p]
    /\ placed' = Append(placed, form)
    /\ remembered' = [k \in Key |-> IF k = form.key THEN id ELSE remembered[k]]
    /\ shelf' = [p \in Product |-> shelf[p] - form.qty[p]]
    /\ answered' \in {answered, [answered EXCEPT ![r] = id]}

\* A client is shown the order its key stands for: its own request's order.
Show(r) ==
    LET form == Form[r] IN
    /\ form.key \in Key
    /\ remembered[form.key] # 0
    /\ LET order == placed[remembered[form.key]] IN
         order.user = form.user /\ order.qty = form.qty /\ order.voucher = form.voucher
    /\ answered' = [answered EXCEPT ![r] = remembered[form.key]]
    /\ UNCHANGED <<placed, remembered, shelf>>

\* The key's retention is over.
Forget(k) ==
    /\ remembered' = [remembered EXCEPT ![k] = 0]
    /\ UNCHANGED <<placed, shelf, answered>>

Next ==
    \/ \E r \in Request : Place(r) \/ Show(r)
    \/ \E k \in Key : Forget(k)

Spec == Init /\ [][Next]_vars

=============================================================================
