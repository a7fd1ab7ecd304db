----------------------------- MODULE OutboxRelay -----------------------------
(***************************************************************************)
(* The outbox relay (outbox-relay.worker.ts): processes that claim batches *)
(* of PENDING OutboxEvent rows by stamping a lease on them, publish each   *)
(* row to the broker with a publisher confirm, and mark it by its id. No   *)
(* transaction spans claim, publish and mark, so a crash, a lost answer,   *)
(* a lease that runs out under a slow holder, an operator's redrive and    *)
(* the retention sweep come between any two of these steps.                *)
(*                                                                         *)
(* A row's lockedBy is the token of a claim, and every claim draws a new   *)
(* one. A process has one claim at a time, so its name stands for the      *)
(* token of that claim; the token of a claim that is over is Abandoned: it *)
(* stays on the row, but nobody looks for it any more.                     *)
(***************************************************************************)
EXTENDS Integers, FiniteSets

CONSTANTS
    Event,        \* OutboxEvent rows, numbered in createdAt order
    Relay,        \* processes with an enabled relay
    None,         \* a null column, no row at hand
    Abandoned,    \* the token of a claim that is over
    BatchSize,    \* config.batchSize
    MaxAttempts,  \* OutboxEvent.maxAttempts, the schema's default for every row
    MaxFaults,    \* bound: refused or unconfirmed publishes, failed or unanswered
                  \* database calls, crashes, leases that run out under their holder
    MaxRedrives   \* bound: redrive statements

ASSUME EventAssumption == Event \subseteq Nat /\ IsFiniteSet(Event)
ASSUME RelayAssumption == IsFiniteSet(Relay)
ASSUME LimitAssumption == BatchSize \in Nat \ {0} /\ MaxAttempts \in Nat \ {0}
ASSUME RelayBoundAssumption == MaxFaults \in Nat /\ MaxRedrives \in Nat
ASSUME TokenAssumption == /\ None \notin Relay \cup Event
                          /\ Abandoned \notin Relay \cup {None}

VARIABLES
    rows,      \* [Event -> OutboxEvent row]
    pc,        \* [Relay -> the call the tick awaits, "idle" between ticks]
    batch,     \* [Relay -> claimed rows the tick has not finished with]
    snap,      \* [Relay -> [Event -> attempts of the row when the batch was read]]
    cur,       \* [Relay -> the row being published, marked or retried]
    copies,    \* [Event -> messages of the event the broker took]
    failures,  \* [Event -> publishRow calls of the event that ended in its catch]
    upset,     \* events whose lease ran out under its holder, or whose mark
               \* was written but not answered
    faults, redrives

worker == <<pc, batch, snap, cur>>
history == <<copies, failures, upset>>
vars == <<rows, worker, history, faults, redrives>>

RowStatus == {"ABSENT", "PENDING", "PUBLISHED", "FAILED", "DELETED"}

Row == [status : RowStatus, attempts : Nat,
        lockedBy : Relay \cup {None, Abandoned},
        lease : {"none", "held", "over"},   \* lockedUntil: null, ahead, past
        due : {"now", "later"}]             \* nextAttemptAt against the clock

NoRow == [status |-> "ABSENT", attempts |-> 0, lockedBy |-> None, lease |-> "none", due |-> "now"]

PcLabels == {"idle", "read", "publish", "mark", "retry"}

TypeOK ==
    /\ rows \in [Event -> Row]
    /\ pc \in [Relay -> PcLabels]
    /\ batch \in [Relay -> SUBSET Event]
    /\ snap \in [Relay -> [Event -> Nat]]
    /\ cur \in [Relay -> Event \cup {None}]
    /\ \A w \in Relay : pc[w] \in {"mark", "retry"} => cur[w] \in batch[w]
    /\ copies \in [Event -> Nat]
    /\ failures \in [Event -> Nat]
    /\ upset \subseteq Event
    /\ faults \in Nat
    /\ redrives \in Nat

Init ==
    /\ rows = [e \in Event |-> NoRow]
    /\ pc = [w \in Relay |-> "idle"]
    /\ batch = [w \in Relay |-> {}]
    /\ snap = [w \in Relay |-> [e \in Event |-> 0]]
    /\ cur = [w \in Relay |-> None]
    /\ copies = [e \in Event |-> 0]
    /\ failures = [e \in Event |-> 0]
    /\ upset = {}
    /\ faults = 0
    /\ redrives = 0

Fault == faults < MaxFaults /\ faults' = faults + 1

-----------------------------------------------------------------------------
(* The rows.                                                               *)

\* The row's lease is given up.
Unlocked(row) == [row EXCEPT !.lockedBy = None, !.lease = "none"]

\* A transaction of the checkout, of an admin or of a worker commits the event.
Insert(e) ==
    /\ rows[e].status = "ABSENT"
    /\ rows' = [rows EXCEPT ![e] = [NoRow EXCEPT !.status = "PENDING"]]
    /\ UNCHANGED <<worker, history, faults, redrives>>

\* Mutant: a lease is only free when it was given up.
ClaimableIfUnlocked(row) == row.status = "PENDING" /\ row.due = "now" /\ row.lease = "none"

\* Mutant: the lease is not looked at.
ClaimableAnyLease(row) == row.status = "PENDING" /\ row.due = "now"

\* The WHERE clause of the claim: `lockedUntil` is null or past.
Claimable(row) == row.status = "PENDING" /\ row.due = "now" /\ row.lease # "held"

\* ORDER BY createdAt LIMIT batchSize.
ToClaim ==
    LET found == {e \in Event : Claimable(rows[e])}
    IN  {e \in found : Cardinality({f \in found : f < e}) < BatchSize}

Stamped(token) ==
    [e \in Event |-> IF e \in ToClaim
                     THEN [rows[e] EXCEPT !.lockedBy = token, !.lease = "held"]
                     ELSE rows[e]]

\* Nobody looks for w's token any more; the rows that bear it stay leased.
Abandon(w, table) ==
    [e \in Event |-> IF table[e].lockedBy = w
                     THEN [table[e] EXCEPT !.lockedBy = Abandoned]
                     ELSE table[e]]

-----------------------------------------------------------------------------
(* A tick: claim, publish row by row, mark.                                *)

\* The tick is over, early or not; the next one is scheduled.
EndTick(w, table) ==
    /\ rows' = Abandon(w, table)
    /\ pc' = [pc EXCEPT ![w] = "idle"]
    /\ batch' = [batch EXCEPT ![w] = {}]
    /\ snap' = [snap EXCEPT ![w] = [e \in Event |-> 0]]
    /\ cur' = [cur EXCEPT ![w] = None]

\* claimBatch, the update. A claim that finds no row changes nothing.
ClaimStamp(w) ==
    /\ pc[w] = "idle"
    /\ ToClaim # {}
    /\ rows' = Stamped(w)
    /\ pc' = [pc EXCEPT ![w] = "read"]
    /\ UNCHANGED <<batch, snap, cur, history, faults, redrives>>

\* The update commits but its answer is lost: the tick fails, the rows stay leased.
ClaimUnanswered(w) ==
    /\ pc[w] = "idle"
    /\ ToClaim # {}
    /\ Fault
    /\ rows' = Stamped(Abandoned)
    /\ UNCHANGED <<worker, history, redrives>>

\* Mutant: the batch is every row under a lease, whoever took it.
ReadAnyLease(w) == {e \in Event : rows[e].lease = "held" /\ rows[e].status = "PENDING"}

\* claimBatch, the read: the rows that still bear the token of this claim.
ClaimRead(w) == {e \in Event : rows[e].lockedBy = w /\ rows[e].status = "PENDING"}

StartBatch(w) ==
    /\ pc[w] = "read"
    /\ IF ClaimRead(w) = {}
       THEN EndTick(w, rows)
       ELSE /\ batch' = [batch EXCEPT ![w] = ClaimRead(w)]
            /\ snap' = [snap EXCEPT ![w] =
                          [e \in Event |-> IF e \in ClaimRead(w) THEN rows[e].attempts ELSE 0]]
            /\ pc' = [pc EXCEPT ![w] = "publish"]
            /\ UNCHANGED <<rows, cur>>
    /\ UNCHANGED <<history, faults, redrives>>

\* The batch is published in createdAt order.
NextInBatch(w, e) == e \in batch[w] /\ \A f \in batch[w] : e <= f

\* publishWithConfirm resolves: the broker has the message.
PublishConfirmed(w, e) ==
    /\ pc[w] = "publish"
    /\ NextInBatch(w, e)
    /\ cur' = [cur EXCEPT ![w] = e]
    /\ copies' = [copies EXCEPT ![e] = @ + 1]
    /\ pc' = [pc EXCEPT ![w] = "mark"]
    /\ UNCHANGED <<rows, batch, snap, failures, upset, faults, redrives>>

\* Mutant: a refused publish is taken for a confirmed one.
RefusedTakenForConfirmed(w, e) ==
    /\ pc[w] = "publish"
    /\ NextInBatch(w, e)
    /\ Fault
    /\ cur' = [cur EXCEPT ![w] = e]
    /\ pc' = [pc EXCEPT ![w] = "mark"]
    /\ UNCHANGED <<rows, batch, snap, history, redrives>>

\* publishWithConfirm rejects, with the message at the broker (the confirm was
\* lost) or not (no connection, or the broker refused it).
PublishRejected(w, e) ==
    /\ pc[w] = "publish"
    /\ NextInBatch(w, e)
    /\ Fault
    /\ cur' = [cur EXCEPT ![w] = e]
    /\ \E taken \in {0, 1} : copies' = [copies EXCEPT ![e] = @ + taken]
    /\ failures' = [failures EXCEPT ![e] = @ + 1]
    /\ pc' = [pc EXCEPT ![w] = "retry"]
    /\ UNCHANGED <<rows, batch, snap, upset, redrives>>

\* publishRow returned with this table: on to the next row, or the tick is over.
RowDone(w, table) ==
    IF batch[w] = {cur[w]}
    THEN EndTick(w, table)
    ELSE /\ rows' = table
         /\ batch' = [batch EXCEPT ![w] = @ \ {cur[w]}]
         /\ pc' = [pc EXCEPT ![w] = "publish"]
         /\ snap' = [snap EXCEPT ![w][cur[w]] = 0]
         /\ cur' = [cur EXCEPT ![w] = None]

Published(row) == [Unlocked(row) EXCEPT !.status = "PUBLISHED"]

\* markPublished: by id, whoever holds the row by now and whatever its status.
MarkPublished(w) ==
    /\ pc[w] = "mark"
    /\ rows[cur[w]].status # "DELETED"
    /\ RowDone(w, [rows EXCEPT ![cur[w]] = Published(@)])
    /\ UNCHANGED <<history, faults, redrives>>

\* markPublished throws inside the try, so the row is retried: the row is gone, the
\* call failed, or it was written and not answered.
MarkFailed(w) ==
    /\ pc[w] = "mark"
    /\ \/ rows[cur[w]].status = "DELETED" /\ UNCHANGED <<rows, upset, faults>>
       \/ Fault /\ UNCHANGED <<rows, upset>>
       \/ /\ Fault
          /\ rows[cur[w]].status # "DELETED"
          /\ rows' = [rows EXCEPT ![cur[w]] = Published(@)]
          /\ upset' = upset \cup {cur[w]}
    /\ failures' = [failures EXCEPT ![cur[w]] = @ + 1]
    /\ pc' = [pc EXCEPT ![w] = "retry"]
    /\ UNCHANGED <<batch, snap, cur, copies, redrives>>

\* Mutant: one attempt fewer than maxAttempts.
RetriedOneShort(row, n) ==
    IF n + 1 >= MaxAttempts
    THEN [Unlocked(row) EXCEPT !.status = "FAILED", !.attempts = n]
    ELSE [Unlocked(row) EXCEPT !.attempts = n, !.due = "later"]

\* What scheduleRetry writes after the n-th attempt. Below the limit the status is
\* not written: the row keeps the one it has.
Retried(row, n) ==
    IF n >= MaxAttempts
    THEN [Unlocked(row) EXCEPT !.status = "FAILED", !.attempts = n]
    ELSE [Unlocked(row) EXCEPT !.attempts = n, !.due = "later"]

\* scheduleRetry counts from the row as the batch was read.
ScheduleRetry(w) ==
    /\ pc[w] = "retry"
    /\ rows[cur[w]].status # "DELETED"
    /\ RowDone(w, [rows EXCEPT ![cur[w]] = Retried(@, snap[w][cur[w]] + 1)])
    /\ UNCHANGED <<history, faults, redrives>>

\* A call outside the try throws and ends the tick: scheduleRetry's update (also on a
\* row that is gone) or the claim's read; the rest of the batch stays leased. A crash
\* and restart of the process leaves the same.
TickFails(w) ==
    /\ pc[w] # "idle"
    /\ \/ pc[w] = "retry" /\ rows[cur[w]].status = "DELETED" /\ UNCHANGED faults
       \/ Fault
    /\ EndTick(w, rows)
    /\ UNCHANGED <<history, redrives>>

-----------------------------------------------------------------------------
(* Time, the operator and the retention sweep.                             *)

\* leaseMs pass. Under a claim that is still going on, that is a slow process.
LeaseRunsOut(e) ==
    /\ rows[e].lease = "held"
    /\ rows' = [rows EXCEPT ![e].lease = "over"]
    /\ IF rows[e].lockedBy \in Relay
       THEN Fault /\ upset' = upset \cup {e}
       ELSE UNCHANGED <<upset, faults>>
    /\ UNCHANGED <<worker, copies, failures, redrives>>

BackoffOver(e) ==
    /\ rows[e].status = "PENDING" /\ rows[e].due = "later"
    /\ rows' = [rows EXCEPT ![e].due = "now"]
    /\ UNCHANGED <<worker, history, faults, redrives>>

\* Mutant: the redrive resets rows whatever their status.
AnyStatus == {e \in Event : rows[e].status \in {"PENDING", "PUBLISHED", "FAILED"}}

FailedRows == {e \in Event : rows[e].status = "FAILED"}

Redriven(row) == [Unlocked(row) EXCEPT !.status = "PENDING", !.attempts = 0, !.due = "now"]

\* One UPDATE of redriveFailedRows: the FAILED rows the filter picks.
RedriveFailedOutboxEvents ==
    /\ redrives < MaxRedrives
    /\ \E picked \in SUBSET FailedRows \ {{}} :
          rows' = [e \in Event |-> IF e \in picked THEN Redriven(rows[e]) ELSE rows[e]]
    /\ redrives' = redrives + 1
    /\ UNCHANGED <<worker, history, faults>>

\* The policies OutboxEvent.PUBLISHED and OutboxEvent.FAILED.
Sweep(e) ==
    /\ rows[e].status \in {"PUBLISHED", "FAILED"} /\ rows[e].lease = "none"
    /\ rows' = [rows EXCEPT ![e] = [NoRow EXCEPT !.status = "DELETED"]]
    /\ UNCHANGED <<worker, history, faults, redrives>>

-----------------------------------------------------------------------------

Publish(w) == \E e \in Event : PublishConfirmed(w, e) \/ PublishRejected(w, e)

\* What a relay does by itself, when nothing fails.
RelayStep(w) ==
    \/ ClaimStamp(w)
    \/ StartBatch(w)
    \/ \E e \in Event : PublishConfirmed(w, e)
    \/ MarkPublished(w)
    \/ ScheduleRetry(w)

RelayFails(w) ==
    \/ ClaimUnanswered(w)
    \/ \E e \in Event : PublishRejected(w, e)
    \/ MarkFailed(w)
    \/ TickFails(w)

Outside(e) == Insert(e) \/ LeaseRunsOut(e) \/ BackoffOver(e) \/ Sweep(e)

Next ==
    \/ \E w \in Relay : RelayStep(w) \/ RelayFails(w)
    \/ \E e \in Event : Outside(e)
    \/ RedriveFailedOutboxEvents

Spec == Init /\ [][Next]_vars

\* The relay's timers keep firing and every call it awaits ends, in an answer or an
\* error; leases and back-offs are times, which pass. Events, faults, redrives and
\* sweeps need not happen.
FairSpec ==
    /\ Spec
    /\ \A w \in Relay : WF_vars(RelayStep(w) \/ MarkFailed(w) \/ TickFails(w))
    /\ \A e \in Event : WF_vars(LeaseRunsOut(e)) /\ WF_vars(BackoffOver(e))

-----------------------------------------------------------------------------
(* Properties.                                                             *)

\* outbox-relay.worker.ts:13: a row is PUBLISHED only after the broker acked it, so
\* a crash causes a second publish but never a loss: whoever marked the row, and
\* however late, the broker has the event.
NeverLost ==
    \A e \in Event : rows[e].status = "PUBLISHED" => copies[e] >= 1

\* scheduleRetry counts from a snapshot and writes by id, while other processes and
\* redrives write the same columns; still no event is given up before its publish
\* has failed maxAttempts times, and the attempts a row shows were made.
AttemptsWereMade ==
    \A e \in Event :
        /\ rows[e].attempts <= failures[e]
        /\ rows[e].status = "FAILED" => failures[e] >= MaxAttempts

\* w's claim covers the event: it is in its batch, or stamped and about to be read.
Holds(w, e) == e \in batch[w] \/ (pc[w] = "read" /\ rows[e].lockedBy = w)

\* outbox-relay.worker.ts:16-18: relays never touch the same row, as far as the
\* lease carries: two processes hold one event only if its lease ran out under one
\* of them, or a mark that was written was taken for failed.
OneHolder ==
    \A w, v \in Relay, e \in Event : Holds(w, e) /\ Holds(v, e) => w = v \/ e \in upset

\* At-least-once costs a duplicate only for a fault: refusals, lost confirms, lost
\* marks, crashes and outrun leases each let at most one more copy through.
CopiesArePaidFor ==
    \A e \in Event : copies[e] <= 1 + faults

\* A PUBLISHED row is not written again (a late failure would make it FAILED, and a
\* redrive then publishes it once more) unless two processes held it or its mark
\* was lost; retention alone removes it.
PublishedIsFinal ==
    [][\A e \in Event :
          rows[e].status = "PUBLISHED" =>
              \/ rows'[e].status \in {"PUBLISHED", "DELETED"}
              \/ e \in upset]_vars

\* Every committed event is published or given up: the rows of a crashed or failed
\* tick are taken up when their lease runs out, retries come round.
EveryEventSettles ==
    \A e \in Event : rows[e].status = "PENDING" ~> rows[e].status # "PENDING"

-----------------------------------------------------------------------------
(* Why they hold: the inductive invariant.                                 *)

\* A process about to mark a row has had its publish confirmed.
MarksWereConfirmed == \A w \in Relay : pc[w] = "mark" => copies[cur[w]] >= 1

\* What a process read of a row's attempts was true, and stays a lower bound.
SnapsWereMade ==
    \A w \in Relay :
        /\ \A e \in Event : snap[w][e] <= failures[e]
        /\ pc[w] = "retry" => snap[w][cur[w]] + 1 <= failures[cur[w]]

\* A claimed row has been written, and its token is one that is looked for.
ClaimsExist ==
    \A w \in Relay, e \in Event :
        /\ e \in batch[w] => rows[e].status # "ABSENT"
        /\ rows[e].lockedBy = w => pc[w] # "idle"

\* A row that a process holds bears its token and an unexpired lease, and waits to
\* be published.
HolderIsLeased ==
    \A w \in Relay, e \in Event :
        Holds(w, e) /\ e \notin upset =>
            rows[e].lockedBy = w /\ rows[e].lease = "held" /\ rows[e].status = "PENDING"

\* The process will publish the event, or put it back to be published again.
Owes(w, e) ==
    \/ pc[w] = "read" /\ rows[e].lockedBy = w
    \/ e \in batch[w] /\ ~(pc[w] \in {"mark", "retry"} /\ cur[w] = e)
    \/ pc[w] = "retry" /\ cur[w] = e /\ rows[e].status # "DELETED"

\* The row can reach a new claim with no fault: nobody's lease is on it, and it is not
\* published; a given-up row can be redriven.
Open(e) ==
    /\ rows[e].status \in {"ABSENT", "PENDING", "FAILED"}
    /\ ~(rows[e].lockedBy \in Relay /\ rows[e].lease = "held")

\* Where the copies still to come of an event come from: the processes that owe one, and
\* the row itself.
Sources(e) == {w \in Relay : Owes(w, e)} \cup {x \in {None} : Open(e)}

\* A copy more than the first was paid for with a fault, and so is any that is to come.
CopiesAreBudgeted == \A e \in Event : copies[e] + Cardinality(Sources(e)) <= 1 + faults

\* A token is on a row only while it waits to be published, and of a process only while
\* it has the row in hand.
TokensAreLive ==
    \A e \in Event :
        /\ rows[e].lockedBy # None => rows[e].status = "PENDING"
        /\ \A w \in Relay : rows[e].lockedBy = w => pc[w] = "read" \/ e \in batch[w]

\* The inductive invariant, with everything the proofs of the properties use.
IInv ==
    /\ TypeOK
    /\ NeverLost
    /\ AttemptsWereMade
    /\ MarksWereConfirmed
    /\ SnapsWereMade
    /\ ClaimsExist
    /\ HolderIsLeased

-----------------------------------------------------------------------------
(* The relay implements the contract.                                      *)

Contract == INSTANCE OutboxContract WITH
    stage     <- [e \in Event |-> rows[e].status],
    delivered <- copies

\* Through crashes, lost answers, outrun leases, redrives and sweeps, every step of
\* the rows is one the contract allows: no event is delivered before it is
\* committed, recorded as published before the broker has it, or revived after it
\* was removed, and only a given-up event is revived.
ContractKept == Contract!Spec
=============================================================================
