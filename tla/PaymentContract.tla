--------------------------- MODULE PaymentContract ---------------------------
(***************************************************************************)
(* What the rest of the system may rely on about a payment, whoever works  *)
(* on it: it opens once, has one outcome, and what is announced of it (the *)
(* events the notifications are made from) is consistent: receipts and     *)
(* reminders only while it is open, one reminder per stage in order, its   *)
(* outcome once and nothing after it.                                      *)
(***************************************************************************)
EXTENDS Integers

CONSTANT Order

Results == {"PAID", "FAILED", "EXPIRED"}

Announcement == [PAID |-> "payment.paid", FAILED |-> "payment.failed",
                 EXPIRED |-> "payment.expired"]

News == {"payment.receipt_uploaded", "payment.reminder.first", "payment.reminder.second",
         "payment.paid", "payment.failed", "payment.expired"}

VARIABLES
    outcome,   \* [Order -> "none", "open" or one of Results]
    told       \* [Order -> [News -> how often it was announced]]

vars == <<outcome, told>>

Init ==
    /\ outcome = [o \in Order |-> "none"]
    /\ told = [o \in Order |-> [n \in News |-> 0]]

Announce(o, n) == told' = [told EXCEPT ![o][n] = @ + 1]

Open(o) ==
    /\ outcome[o] = "none"
    /\ outcome' = [outcome EXCEPT ![o] = "open"]
    /\ UNCHANGED told

Receive(o) ==
    /\ outcome[o] = "open"
    /\ Announce(o, "payment.receipt_uploaded")
    /\ UNCHANGED outcome

RemindFirst(o) ==
    /\ outcome[o] = "open"
    /\ told[o]["payment.reminder.first"] = 0
    /\ Announce(o, "payment.reminder.first")
    /\ UNCHANGED outcome

RemindSecond(o) ==
    /\ outcome[o] = "open"
    /\ told[o]["payment.reminder.first"] = 1
    /\ told[o]["payment.reminder.second"] = 0
    /\ Announce(o, "payment.reminder.second")
    /\ UNCHANGED outcome

Settle(o, result) ==
    /\ outcome[o] = "open"
    /\ outcome' = [outcome EXCEPT ![o] = result]
    /\ Announce(o, Announcement[result])

Next ==
    \E o \in Order :
        \/ Open(o) \/ Receive(o) \/ RemindFirst(o) \/ RemindSecond(o)
        \/ \E result \in Results : Settle(o, result)

Spec == Init /\ [][Next]_vars

=============================================================================
