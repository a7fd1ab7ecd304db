-------------------------- MODULE NotificationSender --------------------------
(***************************************************************************)
(* The notification sender (notification-sender.worker.ts): processes that *)
(* lease PENDING NotificationOutbox rows, send each to the e-mail provider *)
(* under the row's id as idempotency key, and mark it by its id; a circuit *)
(* breaker per process pauses claiming after consecutive transient         *)
(* failures. As in OutboxRelay the name of a process stands for the token  *)
(* of its present claim, and Abandoned for the token of one that is over.  *)
(***************************************************************************)
EXTENDS Integers, FiniteSets

CONSTANTS
    Note,         \* NotificationOutbox rows
    Unsendable,   \* those with an unknown template, a channel without provider or
                  \* a recipient the provider refuses
    Sender,       \* processes with an enabled sender
    None, Abandoned,
    BatchSize, MaxAttempts,
    BreakerThreshold,
    MaxFaults,    \* bound: transient provider errors, lost answers, failed database
                  \* calls, crashes, leases that run out under their holder
    MaxRedrives   \* bound: redrive statements

ASSUME NoteAssumption == IsFiniteSet(Note) /\ Unsendable \subseteq Note
ASSUME SenderAssumption == IsFiniteSet(Sender)
ASSUME SenderLimitAssumption == /\ BatchSize \in Nat \ {0}
                                /\ MaxAttempts \in Nat \ {0}
                                /\ BreakerThreshold \in Nat \ {0}
ASSUME SenderBoundAssumption == MaxFaults \in Nat /\ MaxRedrives \in Nat
ASSUME SenderTokenAssumption == None \notin Sender \cup Note /\ Abandoned \notin Sender \cup {None}

VARIABLES
    rows,      \* [Note -> NotificationOutbox row]
    pc,        \* [Sender -> the call the tick awaits]
    batch,     \* [Sender -> claimed rows the tick has not finished with]
    snap,      \* [Sender -> [Note -> attempts of the row when it was claimed]]
    cur,       \* [Sender -> the row being sent and marked]
    streak,    \* [Sender -> consecutiveTransient, counted up to the threshold]
    breaker,   \* [Sender -> "closed", or "open" while now < pausedUntil]
    calls,     \* [Sender -> provider calls since the breaker opened]
    mails,     \* [Note -> mails the provider sent]
    failures,  \* [Note -> sendRow calls that ended in scheduleRetry]
    refused,   \* notes the provider or the renderer refused for good
    upset,     \* notes whose lease ran out under its holder, or whose mark was
               \* written but not answered
    faults, redrives

worker == <<pc, batch, snap, cur>>
breakers == <<streak, breaker, calls>>
history == <<failures, refused, upset>>
vars == <<rows, worker, breakers, mails, history, faults, redrives>>

RowStatus == {"ABSENT", "PENDING", "SENT", "FAILED", "DELETED"}

Row == [status : RowStatus, attempts : Nat, lockedBy : Sender \cup {None, Abandoned},
        lease : {"none", "held", "over"}, due : {"now", "later"}]

NoRow == [status |-> "ABSENT", attempts |-> 0, lockedBy |-> None, lease |-> "none", due |-> "now"]

TypeOK ==
    /\ rows \in [Note -> Row]
    /\ pc \in [Sender -> {"idle", "read", "send", "mark", "fail", "retry"}]
    /\ batch \in [Sender -> SUBSET Note]
    /\ snap \in [Sender -> [Note -> Nat]]
    /\ cur \in [Sender -> Note \cup {None}]
    /\ \A w \in Sender : pc[w] \in {"mark", "fail", "retry"} => cur[w] \in batch[w]
    /\ streak \in [Sender -> 0 .. BreakerThreshold]
    /\ breaker \in [Sender -> {"closed", "open"}]
    /\ calls \in [Sender -> Nat]
    /\ mails \in [Note -> Nat]
    /\ failures \in [Note -> Nat]
    /\ refused \subseteq Note
    /\ upset \subseteq Note
    /\ faults \in Nat
    /\ redrives \in Nat

Init ==
    /\ rows = [n \in Note |-> NoRow]
    /\ pc = [w \in Sender |-> "idle"]
    /\ batch = [w \in Sender |-> {}]
    /\ snap = [w \in Sender |-> [n \in Note |-> 0]]
    /\ cur = [w \in Sender |-> None]
    /\ streak = [w \in Sender |-> 0]
    /\ breaker = [w \in Sender |-> "closed"]
    /\ calls = [w \in Sender |-> 0]
    /\ mails = [n \in Note |-> 0]
    /\ failures = [n \in Note |-> 0]
    /\ refused = {}
    /\ upset = {}
    /\ faults = 0
    /\ redrives = 0

Fault == faults < MaxFaults /\ faults' = faults + 1

-----------------------------------------------------------------------------
(* The circuit breaker.                                                    *)

\* tripBreaker; an open breaker is not opened again, a threshold once reached trips at
\* every further failure.
TripBreaker(w) ==
    LET reached == streak[w] + 1 >= BreakerThreshold IN
    /\ streak' = [streak EXCEPT ![w] = IF reached THEN BreakerThreshold ELSE @ + 1]
    /\ breaker' = [breaker EXCEPT ![w] = IF reached THEN "open" ELSE @]
    /\ UNCHANGED calls

\* resetBreaker: one success closes it.
ResetBreaker(w) ==
    /\ streak' = [streak EXCEPT ![w] = 0]
    /\ breaker' = [breaker EXCEPT ![w] = "closed"]
    /\ calls' = [calls EXCEPT ![w] = 0]

\* The provider is called, while the breaker may be open.
Called(w) ==
    /\ calls' = [calls EXCEPT ![w] = IF breaker[w] = "open" THEN @ + 1 ELSE 0]
    /\ UNCHANGED <<streak, breaker>>

\* pauseMs pass.
PauseOver(w) ==
    /\ breaker[w] = "open"
    /\ breaker' = [breaker EXCEPT ![w] = "closed"]
    /\ calls' = [calls EXCEPT ![w] = 0]
    /\ UNCHANGED <<rows, worker, streak, mails, history, faults, redrives>>

-----------------------------------------------------------------------------
(* Claiming.                                                               *)

Unlocked(row) == [row EXCEPT !.lockedBy = None, !.lease = "none"]

\* A consumer commits the notification.
Enqueue(n) ==
    /\ rows[n].status = "ABSENT"
    /\ rows' = [rows EXCEPT ![n] = [NoRow EXCEPT !.status = "PENDING"]]
    /\ UNCHANGED <<worker, breakers, mails, history, faults, redrives>>

\* Mutant: a lease is only free when it was given up.
ClaimableIfUnlocked(row) == row.status = "PENDING" /\ row.due = "now" /\ row.lease = "none"

\* Mutant: the lease is not looked at.
ClaimableAnyLease(row) == row.status = "PENDING" /\ row.due = "now"

Claimable(row) == row.status = "PENDING" /\ row.due = "now" /\ row.lease # "held"

\* ORDER BY nextAttemptAt LIMIT batchSize; those times are not modelled, so any of the
\* claimable rows may come first.
Claims ==
    LET found == {n \in Note : Claimable(rows[n])} IN
    {S \in SUBSET found : S # {} /\ (S = found \/ Cardinality(S) = BatchSize)
                                 /\ Cardinality(S) <= BatchSize}

Stamped(S, token) ==
    [n \in Note |-> IF n \in S THEN [rows[n] EXCEPT !.lockedBy = token, !.lease = "held"]
                    ELSE rows[n]]

Abandon(w, table) ==
    [n \in Note |-> IF table[n].lockedBy = w THEN [table[n] EXCEPT !.lockedBy = Abandoned]
                    ELSE table[n]]

EndTick(w, table) ==
    /\ rows' = Abandon(w, table)
    /\ pc' = [pc EXCEPT ![w] = "idle"]
    /\ batch' = [batch EXCEPT ![w] = {}]
    /\ snap' = [snap EXCEPT ![w] = [n \in Note |-> 0]]
    /\ cur' = [cur EXCEPT ![w] = None]

\* Mutant: the breaker does not stop the tick.
NeverPaused(w) == FALSE

\* isPaused, looked at when a tick starts and at no other time.
Paused(w) == breaker[w] = "open"

ClaimStamp(w) ==
    /\ pc[w] = "idle"
    /\ ~Paused(w)
    /\ \E S \in Claims : rows' = Stamped(S, w)
    /\ pc' = [pc EXCEPT ![w] = "read"]
    /\ UNCHANGED <<batch, snap, cur, breakers, mails, history, faults, redrives>>

\* The claim fails, with its update committed or not: a failed tick trips the breaker.
ClaimFails(w) ==
    /\ pc[w] = "idle"
    /\ ~Paused(w)
    /\ Fault
    /\ rows' \in {rows} \cup {Stamped(S, Abandoned) : S \in Claims}
    /\ TripBreaker(w)
    /\ UNCHANGED <<worker, mails, history, redrives>>

\* The rows that still bear the token of this claim, with their attempts.
ClaimRead(w) == {n \in Note : rows[n].lockedBy = w /\ rows[n].status = "PENDING"}

StartBatch(w) ==
    /\ pc[w] = "read"
    /\ IF ClaimRead(w) = {}
       THEN EndTick(w, rows)
       ELSE /\ batch' = [batch EXCEPT ![w] = ClaimRead(w)]
            /\ snap' = [snap EXCEPT ![w] =
                          [n \in Note |-> IF n \in ClaimRead(w) THEN rows[n].attempts ELSE 0]]
            /\ pc' = [pc EXCEPT ![w] = "send"]
            /\ UNCHANGED <<rows, cur>>
    /\ UNCHANGED <<breakers, mails, history, faults, redrives>>

-----------------------------------------------------------------------------
(* sendRow: the provider.                                                  *)

\* The tick goes through the rows it claimed; their order is not modelled.
NextInBatch(w, n) == n \in batch[w]

\* What the provider does with a request. It mails nothing under a key it remembers, but
\* its memory is limited in time, and nothing in the sender keeps a retry within it:
\* Retry-After is taken as it comes, a process may be down for any time, and a redrive is
\* an operator's. So a note that was mailed before may or may not be mailed again.
Deliver(n) ==
    \E remembered \in BOOLEAN :
        /\ remembered => mails[n] >= 1
        /\ mails' = [mails EXCEPT ![n] = IF remembered THEN @ ELSE @ + 1]

\* The template is known and the row can be turned into a mail.
Renders(n) == n \notin Unsendable

\* Accepted and answered with a 2xx.
SendAccepted(w, n) ==
    /\ pc[w] = "send" /\ NextInBatch(w, n) /\ Renders(n)
    /\ Deliver(n)
    /\ Called(w)
    /\ cur' = [cur EXCEPT ![w] = n]
    /\ pc' = [pc EXCEPT ![w] = "mark"]
    /\ UNCHANGED <<rows, batch, snap, history, faults, redrives>>

\* A PermanentSendError: an unknown template or channel, a 400, a 422, a 403 that names
\* a permanent reason, any other 4xx. Good rows too can meet one.
SendRefused(w, n) ==
    /\ pc[w] = "send" /\ NextInBatch(w, n)
    /\ IF Renders(n) THEN Fault ELSE UNCHANGED faults
    /\ refused' = refused \cup {n}
    /\ Called(w)
    /\ cur' = [cur EXCEPT ![w] = n]
    /\ pc' = [pc EXCEPT ![w] = "fail"]
    /\ UNCHANGED <<rows, batch, snap, mails, failures, upset, redrives>>

\* Mutant: an answer that did not come is taken for success.
TimeoutTakenForSuccess(w, n) ==
    /\ pc[w] = "send" /\ NextInBatch(w, n) /\ Renders(n)
    /\ Fault
    /\ Called(w)
    /\ cur' = [cur EXCEPT ![w] = n]
    /\ pc' = [pc EXCEPT ![w] = "mark"]
    /\ UNCHANGED <<rows, batch, snap, mails, history, redrives>>

\* A TransientSendError: 429, 5xx, 401, no network; or a timeout, after which the mail
\* may be out.
SendTransient(w, n) ==
    /\ pc[w] = "send" /\ NextInBatch(w, n) /\ Renders(n)
    /\ Fault
    /\ Deliver(n) \/ UNCHANGED mails
    /\ failures' = [failures EXCEPT ![n] = @ + 1]
    /\ streak' = [streak EXCEPT ![w] = IF @ < BreakerThreshold THEN @ + 1 ELSE @]
    /\ breaker' = [breaker EXCEPT ![w] = IF streak[w] + 1 >= BreakerThreshold THEN "open" ELSE @]
    /\ calls' = [calls EXCEPT ![w] = IF breaker[w] = "open" THEN @ + 1 ELSE 0]
    /\ cur' = [cur EXCEPT ![w] = n]
    /\ pc' = [pc EXCEPT ![w] = "retry"]
    /\ UNCHANGED <<rows, batch, snap, refused, upset, redrives>>

-----------------------------------------------------------------------------
(* sendRow: the marks, all by id alone.                                    *)

RowDone(w, table) ==
    IF batch[w] = {cur[w]}
    THEN EndTick(w, table)
    ELSE /\ rows' = table
         /\ batch' = [batch EXCEPT ![w] = @ \ {cur[w]}]
         /\ pc' = [pc EXCEPT ![w] = "send"]
         /\ snap' = [snap EXCEPT ![w][cur[w]] = 0]
         /\ cur' = [cur EXCEPT ![w] = None]

Sent(row) == [Unlocked(row) EXCEPT !.status = "SENT"]

MarkSent(w) ==
    /\ pc[w] = "mark"
    /\ rows[cur[w]].status # "DELETED"
    /\ RowDone(w, [rows EXCEPT ![cur[w]] = Sent(@)])
    /\ ResetBreaker(w)
    /\ UNCHANGED <<mails, history, faults, redrives>>

\* markSent throws inside the try, written or not: an error like a transient one.
MarkSentFails(w) ==
    /\ pc[w] = "mark"
    /\ \/ rows[cur[w]].status = "DELETED" /\ UNCHANGED <<rows, upset, faults>>
       \/ Fault /\ UNCHANGED <<rows, upset>>
       \/ /\ Fault
          /\ rows[cur[w]].status # "DELETED"
          /\ rows' = [rows EXCEPT ![cur[w]] = Sent(@)]
          /\ upset' = upset \cup {cur[w]}
    /\ failures' = [failures EXCEPT ![cur[w]] = @ + 1]
    /\ TripBreaker(w)
    /\ pc' = [pc EXCEPT ![w] = "retry"]
    /\ UNCHANGED <<batch, snap, cur, mails, refused, redrives>>

\* markFailed: no retry, and the breaker is left as it is.
MarkFailed(w) ==
    /\ pc[w] = "fail"
    /\ rows[cur[w]].status # "DELETED"
    /\ RowDone(w, [rows EXCEPT ![cur[w]] =
                     [Unlocked(@) EXCEPT !.status = "FAILED", !.attempts = snap[w][cur[w]] + 1]])
    /\ UNCHANGED <<breakers, mails, history, faults, redrives>>

\* Mutant: one attempt fewer than maxAttempts.
RetriedOneShort(row, n) ==
    IF n + 1 >= MaxAttempts
    THEN [Unlocked(row) EXCEPT !.status = "FAILED", !.attempts = n]
    ELSE [Unlocked(row) EXCEPT !.attempts = n, !.due = "later"]

\* scheduleRetry after the n-th attempt; the delay is the provider's Retry-After or the
\* jittered back-off.
Retried(row, n) ==
    IF n >= MaxAttempts
    THEN [Unlocked(row) EXCEPT !.status = "FAILED", !.attempts = n]
    ELSE [Unlocked(row) EXCEPT !.attempts = n, !.due = "later"]

ScheduleRetry(w) ==
    /\ pc[w] = "retry"
    /\ rows[cur[w]].status # "DELETED"
    /\ RowDone(w, [rows EXCEPT ![cur[w]] = Retried(@, snap[w][cur[w]] + 1)])
    /\ UNCHANGED <<breakers, mails, history, faults, redrives>>

\* A call in sendRow's catch, or the claim's read, throws: the tick fails and trips the
\* breaker (once more); the rest of the batch stays leased.
TickFails(w) ==
    /\ pc[w] \in {"read", "fail", "retry"}
    /\ \/ pc[w] # "read" /\ rows[cur[w]].status = "DELETED" /\ UNCHANGED faults
       \/ Fault
    /\ EndTick(w, rows)
    /\ TripBreaker(w)
    /\ UNCHANGED <<mails, history, redrives>>

\* The process dies at any await and starts again with a closed breaker.
Crash(w) ==
    /\ pc[w] # "idle" \/ streak[w] > 0
    /\ Fault
    /\ EndTick(w, rows)
    /\ ResetBreaker(w)
    /\ UNCHANGED <<mails, history, redrives>>

-----------------------------------------------------------------------------
(* Time, the operator and the retention sweep.                             *)

LeaseRunsOut(n) ==
    /\ rows[n].lease = "held"
    /\ rows' = [rows EXCEPT ![n].lease = "over"]
    /\ IF rows[n].lockedBy \in Sender
       THEN Fault /\ upset' = upset \cup {n}
       ELSE UNCHANGED <<upset, faults>>
    /\ UNCHANGED <<worker, breakers, mails, failures, refused, redrives>>

BackoffOver(n) ==
    /\ rows[n].status = "PENDING" /\ rows[n].due = "later"
    /\ rows' = [rows EXCEPT ![n].due = "now"]
    /\ UNCHANGED <<worker, breakers, mails, history, faults, redrives>>

\* Mutant: the redrive resets rows whatever their status.
AnyStatus == {n \in Note : rows[n].status \in {"PENDING", "SENT", "FAILED"}}

FailedRows == {n \in Note : rows[n].status = "FAILED"}

Redriven(row) == [Unlocked(row) EXCEPT !.status = "PENDING", !.attempts = 0, !.due = "now"]

\* One UPDATE of an operator's redrive: the FAILED rows the filter picks.
RedriveFailedNotifications ==
    /\ redrives < MaxRedrives
    /\ \E picked \in SUBSET FailedRows \ {{}} :
          rows' = [n \in Note |-> IF n \in picked THEN Redriven(rows[n]) ELSE rows[n]]
    /\ redrives' = redrives + 1
    /\ UNCHANGED <<worker, breakers, mails, history, faults>>

\* The policies NotificationOutbox.SENT and NotificationOutbox.FAILED.
Sweep(n) ==
    /\ rows[n].status \in {"SENT", "FAILED"} /\ rows[n].lease = "none"
    /\ rows' = [rows EXCEPT ![n] = [NoRow EXCEPT !.status = "DELETED"]]
    /\ UNCHANGED <<worker, breakers, mails, history, faults, redrives>>

-----------------------------------------------------------------------------

SenderStep(w) ==
    \/ ClaimStamp(w) \/ StartBatch(w)
    \/ \E n \in Note : SendAccepted(w, n) \/ (~Renders(n) /\ SendRefused(w, n))
    \/ MarkSent(w) \/ MarkFailed(w) \/ ScheduleRetry(w)

SenderFails(w) ==
    \/ ClaimFails(w)
    \/ \E n \in Note : SendRefused(w, n) \/ SendTransient(w, n)
    \/ MarkSentFails(w) \/ TickFails(w) \/ Crash(w)

Next ==
    \/ \E w \in Sender : SenderStep(w) \/ SenderFails(w) \/ PauseOver(w)
    \/ \E n \in Note : Enqueue(n) \/ LeaseRunsOut(n) \/ BackoffOver(n) \/ Sweep(n)
    \/ RedriveFailedNotifications

Spec == Init /\ [][Next]_vars

\* Ticks go on and calls end; pauses, leases and back-offs are times, which pass.
FairSpec ==
    /\ Spec
    /\ \A w \in Sender : /\ WF_vars(SenderStep(w) \/ MarkSentFails(w) \/ TickFails(w))
                         /\ WF_vars(PauseOver(w))
    /\ \A n \in Note : WF_vars(LeaseRunsOut(n)) /\ WF_vars(BackoffOver(n))

-----------------------------------------------------------------------------
(* Properties.                                                             *)

\* A SENT row has its mail, whichever process marked it and however late.
SentWasAccepted ==
    \A n \in Note : rows[n].status = "SENT" => mails[n] >= 1

\* notification-sender.worker.ts:13-16 sends at least once and leaves it to the key that
\* nobody is mailed twice. Where the provider has forgotten it, a second mail still has to be
\* paid for: a lost answer, a lost mark, a crash or an outrun lease each let at most one
\* more through, while overlapping claims, refusals, retries, back-offs and any number
\* of redrives let none.
MailsArePaidFor ==
    \A n \in Note : mails[n] <= 1 + faults

\* Only what the provider refused for good, or failed maxAttempts times, is given up:
\* outages cost retries, never the notification.
GivenUpRightly ==
    \A n \in Note : rows[n].status = "FAILED" => n \in refused \/ failures[n] >= MaxAttempts

Holds(w, n) == n \in batch[w] \/ (pc[w] = "read" /\ rows[n].lockedBy = w)

\* Two processes hold a row only if its lease ran out under one of them.
OneHolder ==
    \A w, v \in Sender, n \in Note : Holds(w, n) /\ Holds(v, n) => w = v \/ n \in upset

\* The open breaker lets through what is left of one batch, no more.
BreakerLimitsCalls ==
    \A w \in Sender : calls[w] < BatchSize

\* A SENT row is not written again, and so not redriven, unless two processes held it
\* or its mark was lost.
SentIsFinal ==
    [][\A n \in Note :
          rows[n].status = "SENT" => rows'[n].status \in {"SENT", "DELETED"} \/ n \in upset]_vars

\* Every notification is sent or given up, through pauses, crashes and back-offs.
EveryNoteSettles ==
    \A n \in Note : rows[n].status = "PENDING" ~> rows[n].status # "PENDING"

-----------------------------------------------------------------------------
(* Why they hold: the inductive invariant.                                 *)

\* A process about to mark a row has had it accepted, or refused for good.
MarksWereAnswered ==
    \A w \in Sender : /\ pc[w] = "mark" => mails[cur[w]] >= 1
                      /\ pc[w] = "fail" => cur[w] \in refused

\* The attempts of a note were made, unless a refusal wrote them.
Counted(n, attempts) == n \in refused \/ attempts <= failures[n]

\* What the rows and the processes know of the attempts of a note.
AttemptsWereMade ==
    /\ \A n \in Note : Counted(n, rows[n].attempts)
    /\ \A w \in Sender, n \in Note : Counted(n, snap[w][n])
    /\ \A w \in Sender : pc[w] = "retry" => Counted(cur[w], snap[w][cur[w]] + 1)

\* A claimed row has been written, and its token is one that is looked for.
ClaimsExist ==
    \A w \in Sender, n \in Note :
        /\ n \in batch[w] => rows[n].status # "ABSENT"
        /\ rows[n].lockedBy = w => pc[w] # "idle"

\* A row that a process holds bears its token and an unexpired lease, and is pending.
HolderIsLeased ==
    \A w \in Sender, n \in Note :
        Holds(w, n) /\ n \notin upset =>
            rows[n].lockedBy = w /\ rows[n].lease = "held" /\ rows[n].status = "PENDING"

\* The process will have the note mailed, or put it back to be sent again.
Owes(w, n) ==
    \/ pc[w] = "read" /\ rows[n].lockedBy = w
    \/ n \in batch[w] /\ ~(pc[w] \in {"mark", "fail", "retry"} /\ cur[w] = n)
    \/ pc[w] \in {"fail", "retry"} /\ cur[w] = n /\ rows[n].status # "DELETED"

\* The row can reach a new claim with no fault: no claim going on has it leased, and it
\* is not sent; a given-up row can be redriven.
Open(n) ==
    /\ rows[n].status \in {"ABSENT", "PENDING", "FAILED"}
    /\ ~(rows[n].lockedBy \in Sender /\ rows[n].lease = "held")

\* Where the mails still to come of a note come from: the processes that owe one, and
\* the row itself.
Sources(n) == {w \in Sender : Owes(w, n)} \cup {x \in {None} : Open(n)}

\* A mail more than the first was paid for with a fault, and so is any that is to come.
MailsAreBudgeted == \A n \in Note : mails[n] + Cardinality(Sources(n)) <= 1 + faults

\* A token is on a row only while it waits to be sent, and of a process only while it
\* has the row in hand.
TokensAreLive ==
    \A n \in Note :
        /\ rows[n].lockedBy # None => rows[n].status = "PENDING"
        /\ \A w \in Sender : rows[n].lockedBy = w => pc[w] = "read" \/ n \in batch[w]

\* The rows of the present batch that the provider has yet to be called for.
ToCall(w) == batch[w] \ {n \in Note : pc[w] \in {"mark", "fail", "retry"} /\ n = cur[w]}

\* The rows that bear the token of a process.
Bearing(w) == {n \in Note : rows[n].lockedBy = w}

\* The calls behind an open breaker and those left of the batch come from one claim,
\* which was made while the breaker was closed and had at most batchSize rows; the call
\* that opened the breaker is one of them and is not counted.
BatchCovers(w) ==
    /\ pc[w] = "read" => breaker[w] = "closed" /\ Cardinality(Bearing(w)) <= BatchSize
    /\ pc[w] \in {"idle", "read"} => batch[w] = {}
    /\ Cardinality(batch[w]) <= BatchSize
    /\ breaker[w] = "closed" => calls[w] = 0
    /\ breaker[w] = "open" => calls[w] + Cardinality(ToCall(w)) < BatchSize

BatchesCover == \A w \in Sender : BatchCovers(w)

\* The inductive invariant, with everything the proofs of the properties use.
IInv ==
    /\ TypeOK
    /\ SentWasAccepted
    /\ GivenUpRightly
    /\ MarksWereAnswered
    /\ AttemptsWereMade
    /\ ClaimsExist
    /\ HolderIsLeased

-----------------------------------------------------------------------------
(* The sender implements the contract of the outboxes.                     *)

Contract == INSTANCE OutboxContract WITH
    Event     <- Note,
    stage     <- [n \in Note |-> IF rows[n].status = "SENT" THEN "PUBLISHED" ELSE rows[n].status],
    delivered <- mails

\* No step of the senders, the provider, the redrive or the sweep mails what was not
\* committed, records as sent what was not mailed, or revives what was removed.
ContractKept == Contract!Spec
=============================================================================
