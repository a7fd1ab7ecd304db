---------------------------- MODULE OutboxContract ----------------------------
(***************************************************************************)
(* What an outbox, OutboxEvent or NotificationOutbox, promises those who   *)
(* write to it and those it delivers to: nothing is delivered of an event  *)
(* that was not committed, an event is only taken off the list once it was *)
(* delivered or given up, what was given up can be revived, and what was   *)
(* removed does not come back. Delivery is at least once.                  *)
(***************************************************************************)
EXTENDS Integers

CONSTANT Event

VARIABLES
    stage,      \* [Event -> a Stage]
    delivered   \* [Event -> how often the event was delivered]

vars == <<stage, delivered>>

Stage == {"ABSENT", "PENDING", "PUBLISHED", "FAILED", "DELETED"}

Init ==
    /\ stage = [e \in Event |-> "ABSENT"]
    /\ delivered = [e \in Event |-> 0]

Move(e, to) == stage' = [stage EXCEPT ![e] = to]

Commit(e) ==
    /\ stage[e] = "ABSENT"
    /\ Move(e, "PENDING")
    /\ UNCHANGED delivered

Deliver(e) ==
    /\ stage[e] # "ABSENT"
    /\ delivered' = [delivered EXCEPT ![e] = @ + 1]
    /\ UNCHANGED stage

\* A delivery is recorded, perhaps after the event was given up.
Settle(e) ==
    /\ stage[e] \in {"PENDING", "FAILED"}
    /\ delivered[e] >= 1
    /\ Move(e, "PUBLISHED")
    /\ UNCHANGED delivered

\* Perhaps after another process recorded the delivery.
GiveUp(e) ==
    /\ stage[e] \in {"PENDING", "PUBLISHED"}
    /\ Move(e, "FAILED")
    /\ UNCHANGED delivered

Revive(picked) ==
    /\ \A e \in picked : stage[e] = "FAILED"
    /\ stage' = [e \in Event |-> IF e \in picked THEN "PENDING" ELSE stage[e]]
    /\ UNCHANGED delivered

Forget(e) ==
    /\ stage[e] \in {"PUBLISHED", "FAILED"}
    /\ Move(e, "DELETED")
    /\ UNCHANGED delivered

Next ==
    \/ \E e \in Event : Commit(e) \/ Deliver(e) \/ Settle(e) \/ GiveUp(e) \/ Forget(e)
    \/ \E picked \in SUBSET Event : Revive(picked)

Spec == Init /\ [][Next]_vars

=============================================================================
