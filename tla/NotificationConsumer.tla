------------------------- MODULE NotificationConsumer -------------------------
(***************************************************************************)
(* The consumers that turn events into NotificationOutbox rows             *)
(* (order-created-notification.consumer.ts, and the same code for payments *)
(* in payment-notification.consumer.ts), with their main, retry and        *)
(* dead-letter queues at the broker, the ProcessedEvent ledger, the        *)
(* dead-letter redrive (redrive.service.ts) and the ledger's retention.    *)
(*                                                                         *)
(* Deliveries of one process are handled concurrently, up to the prefetch  *)
(* limit; process() is two steps, its reads and its transaction, and the   *)
(* ack a third; a channel that closes, a crash or a database outage comes  *)
(* between any two. What the broker requeues is delivered again while the  *)
(* handler of the first delivery may still run.                            *)
(***************************************************************************)
EXTENDS Integers, FiniteSets

CONSTANTS
    Event,        \* events, by the messageId the relay gives their messages
    Kind,         \* [Event -> Kinds]
    Process,      \* server processes, each with one consumer of the queue
    Slot,         \* room for messages at the broker
    None,
    Prefetch,     \* config.prefetch
    MaxAttempts,  \* config.maxAttempts
    MaxMessages,  \* bound: messages the relay publishes (some events twice)
    MaxOutages,   \* bound: outages of the database
    MaxFaults,    \* bound: closed channels, crashes, refused handoffs, failed
                  \* statements, dead letters copied but not acknowledged
    MaxRedrives,  \* bound: dead letters put back
    MaxSweeps     \* bound: ledger rows retention deletes

\* What process() makes of an event. plain: there is an order and a recipient; skip:
\* there is none (or no template); poison: its insert always fails; malformed: no
\* messageId or no JSON.
Kinds == {"plain", "skip", "poison", "malformed"}

ASSUME KindAssumption == Kind \in [Event -> Kinds]
ASSUME ConsumerLimitAssumption == Prefetch \in Nat \ {0} /\ MaxAttempts \in Nat \ {0}
ASSUME SlotAssumption == IsFiniteSet(Slot)
ASSUME ConsumerBoundAssumption ==
    /\ MaxMessages \in Nat /\ MaxOutages \in Nat /\ MaxFaults \in Nat
    /\ MaxRedrives \in Nat /\ MaxSweeps \in Nat
ASSUME ConsumerNoneAssumption == None \notin Process \cup Event

VARIABLES
    msg,       \* [Slot -> message]
    bound,     \* whether the main queue exists and is bound to the exchange
    taken,     \* events the main queue took a message of
    channel,   \* [Process -> "closed", "open", or "consuming"]: the consumer's channel
    paused,    \* [Process -> the consumer's paused flag; "cancelling" until its
               \* subscription is cancelled]
    timer,     \* [Process -> the resume timer: none, for the current channel, or
               \* for one that is closed]
    ledger,    \* ProcessedEvent rows
    notes,     \* [Event -> NotificationOutbox rows created for it]
    finished,  \* events a consumer acknowledged as handled
    late,      \* [Event -> handlers past their check whose channel is gone]
    db,        \* "up" or "down"
    published, outages, faults, redrives, sweeps

broker == <<msg, bound, taken>>
consumer == <<channel, paused, timer>>
tables == <<ledger, notes>>
budget == <<published, outages, faults, redrives, sweeps>>
vars == <<broker, consumer, tables, finished, late, db, budget>>

Places == {"free", "main", "unacked", "retry", "dlq"}

\* The call a delivery's handler awaits. discard: the dead-letter queue has its copy,
\* the original is not acknowledged yet; left: the handoff failed and the handler is over.
Stages == {"none", "check", "store", "ack", "handoff", "discard", "left"}

Message == [event : Event \cup {None}, place : Places, holder : Process \cup {None},
            stage : Stages,
            deaths : Nat,   \* the sum of the counts in x-death
            errors : Nat]   \* history: failures isInfraError does not recognise

Free == [event |-> None, place |-> "free", holder |-> None, stage |-> "none",
         deaths |-> 0, errors |-> 0]

TypeOK ==
    /\ msg \in [Slot -> Message]
    /\ \A m \in Slot : /\ msg[m].place = "unacked" <=> msg[m].holder # None
                       /\ msg[m].place = "unacked" <=> msg[m].stage # "none"
                       /\ msg[m].holder # None => channel[msg[m].holder] # "closed"
    /\ bound \in {"yes", "no"}
    /\ taken \subseteq Event
    /\ channel \in [Process -> {"closed", "open", "consuming"}]
    /\ paused \in [Process -> {"no", "cancelling", "yes"}]
    /\ timer \in [Process -> {"none", "live", "stale"}]
    /\ ledger \subseteq Event
    /\ notes \in [Event -> Nat]
    /\ finished \subseteq Event
    /\ late \in [Event -> Nat]
    /\ db \in {"up", "down"}
    /\ published \in Nat /\ outages \in Nat /\ faults \in Nat
    /\ redrives \in Nat /\ sweeps \in Nat

Init ==
    /\ msg = [m \in Slot |-> Free]
    /\ bound \in {"yes", "no"}   \* an earlier start of the server may have declared it
    /\ taken = {}
    /\ channel = [p \in Process |-> "closed"]
    /\ paused = [p \in Process |-> "no"]
    /\ timer = [p \in Process |-> "none"]
    /\ ledger = {}
    /\ notes = [e \in Event |-> 0]
    /\ finished = {}
    /\ late = [e \in Event |-> 0]
    /\ db = "up"
    /\ published = 0 /\ outages = 0 /\ faults = 0 /\ redrives = 0 /\ sweeps = 0

Fault == /\ faults < MaxFaults
         /\ faults' = faults + 1
         /\ UNCHANGED <<published, outages, redrives, sweeps>>

-----------------------------------------------------------------------------
(* The broker.                                                             *)

InMain(m) == [m EXCEPT !.place = "main", !.holder = None, !.stage = "none"]

\* The relay publishes the event, not for the first time perhaps. An exchange confirms
\* a message no queue is bound for, and drops it.
Publish(e) ==
    /\ published < MaxMessages
    /\ published' = published + 1
    /\ \/ bound = "no" /\ UNCHANGED <<msg, taken>>
       \/ /\ bound = "yes"
          /\ taken' = taken \cup {e}
          /\ \E m \in Slot : /\ msg[m].place = "free"
                             /\ msg' = [msg EXCEPT ![m] = InMain([Free EXCEPT !.event = e])]
    /\ UNCHANGED <<bound, consumer, tables, finished, late, db, outages, faults, redrives, sweeps>>

Unacked(p) == {m \in Slot : msg[m].holder = p}

\* A subscribed channel is sent a message; handleDelivery starts. A malformed one goes
\* to the dead-letter queue before process() is called.
Deliver(p, m) ==
    /\ channel[p] = "consuming"
    /\ msg[m].place = "main"
    /\ Cardinality(Unacked(p)) < Prefetch
    /\ msg' = [msg EXCEPT ![m].place = "unacked", ![m].holder = p,
                          ![m].stage = IF Kind[msg[m].event] = "malformed" THEN "handoff" ELSE "check"]
    /\ UNCHANGED <<bound, taken, consumer, tables, finished, late, db, budget>>

\* Mutant: the retry queue is declared without a TTL.
RetryWithoutTtl(m) == FALSE

\* The retry queue's TTL runs out. Being expired there is another death.
RetryExpires(m) ==
    /\ msg[m].place = "retry"
    /\ msg' = [msg EXCEPT ![m] = InMain([msg[m] EXCEPT !.deaths = @ + 1])]
    /\ UNCHANGED <<bound, taken, consumer, tables, finished, late, db, budget>>

-----------------------------------------------------------------------------
(* handleDelivery and process.                                             *)

At(m, stage) == msg[m].place = "unacked" /\ msg[m].stage = stage

Goto(m, stage) == msg' = [msg EXCEPT ![m].stage = stage]

\* process() up to its transaction: the ledger is read, then the order.
Check(m) ==
    /\ At(m, "check") /\ db = "up"
    /\ Goto(m, IF msg[m].event \in ledger \/ Kind[msg[m].event] = "skip" THEN "ack" ELSE "store")
    /\ UNCHANGED <<bound, taken, consumer, tables, finished, late, db, budget>>

\* Mutant: the notification is created although the ledger has the message.
EnqueueUnguarded(e) ==
    /\ ledger' = ledger \cup {e}
    /\ notes' = [notes EXCEPT ![e] = @ + 1]

\* The transaction of process(): notification and ledger row, or neither when the
\* ledger's primary key is taken.
Enqueue(e) ==
    IF e \in ledger
    THEN UNCHANGED tables
    ELSE /\ ledger' = ledger \cup {e}
         /\ notes' = [notes EXCEPT ![e] = @ + 1]

Store(m) ==
    /\ At(m, "store") /\ db = "up" /\ Kind[msg[m].event] = "plain"
    /\ Enqueue(msg[m].event)
    /\ Goto(m, "ack")
    /\ UNCHANGED <<bound, taken, consumer, finished, late, db, budget>>

\* channel.ack after process().
Ack(m) ==
    /\ At(m, "ack")
    /\ msg' = [msg EXCEPT ![m] = Free]
    /\ finished' = finished \cup {msg[m].event}
    /\ UNCHANGED <<bound, taken, consumer, tables, late, db, budget>>

\* An error that isInfraError does not recognise: dead letter after maxAttempts deaths, else the retry
\* queue. Rejected by the main queue is a death.
Rejected(m) ==
    IF m.deaths >= MaxAttempts
    THEN [m EXCEPT !.stage = "handoff", !.errors = @ + 1]
    ELSE [m EXCEPT !.place = "retry", !.holder = None, !.stage = "none",
                   !.deaths = @ + 1, !.errors = @ + 1]

\* process() throws, in a read or in its transaction, an error isInfraError does not
\* list: a poisonous event's each time, otherwise a fault. In an outage too, whose errors
\* need not be on the list.
ProcessFails(m) ==
    /\ At(m, "check") \/ At(m, "store")
    /\ IF At(m, "store") /\ db = "up" /\ Kind[msg[m].event] = "poison"
       THEN UNCHANGED budget ELSE Fault
    /\ msg' = [msg EXCEPT ![m] = Rejected(@)]
    /\ UNCHANGED <<bound, taken, consumer, tables, finished, late, db>>

\* Mutant: an outage counts as a death.
OutageCounts(m) ==
    /\ msg[m].stage \in {"check", "store"} /\ db = "down"
    /\ msg' = [msg EXCEPT ![m] = [Rejected(msg[m]) EXCEPT !.errors = msg[m].errors]]
    /\ UNCHANGED <<bound, taken, consumer, tables, finished, late, db, budget>>

\* An error of an outage that isInfraError lists: the delivery is requeued as it was, and
\* the first to meet the outage pauses the consumer.
PauseForInfra(m) ==
    LET p == msg[m].holder IN
    /\ msg[m].stage \in {"check", "store"} /\ db = "down"
    /\ msg' = [msg EXCEPT ![m] = InMain(@)]
    /\ paused' = [paused EXCEPT ![p] = IF @ = "no" THEN "cancelling" ELSE @]
    /\ UNCHANGED <<bound, taken, channel, timer, tables, finished, late, db, budget>>

\* Mutant: the subscription ends and no timer is set.
CancelWithoutTimer(p) ==
    /\ paused[p] = "cancelling" /\ channel[p] # "closed"
    /\ paused' = [paused EXCEPT ![p] = "yes"]
    /\ channel' = [channel EXCEPT ![p] = "open"]
    /\ UNCHANGED <<broker, timer, tables, finished, late, db, budget>>

\* The rest of pauseForInfra: the subscription is cancelled, the resume timer is set
\* for this channel.
CancelConsume(p) ==
    /\ paused[p] = "cancelling" /\ channel[p] # "closed"
    /\ paused' = [paused EXCEPT ![p] = "yes"]
    /\ channel' = [channel EXCEPT ![p] = "open"]
    /\ timer' = [timer EXCEPT ![p] = "live"]
    /\ UNCHANGED <<broker, tables, finished, late, db, budget>>

\* Mutant: the pause is not over when the consumer resumes.
ResumeStillPaused(p) ==
    /\ timer[p] = "live"
    /\ channel' = [channel EXCEPT ![p] = "consuming"]
    /\ timer' = [timer EXCEPT ![p] = "none"]
    /\ UNCHANGED <<broker, paused, tables, finished, late, db, budget>>

\* resumeConsuming on a channel that is open. On a closed one consume throws and the
\* timer is set again, for the same channel: nothing changes.
ResumeConsuming(p) ==
    /\ timer[p] = "live"
    /\ channel' = [channel EXCEPT ![p] = "consuming"]
    /\ paused' = [paused EXCEPT ![p] = "no"]
    /\ timer' = [timer EXCEPT ![p] = "none"]
    /\ UNCHANGED <<broker, tables, finished, late, db, budget>>

-----------------------------------------------------------------------------
(* Dead letters.                                                           *)

\* deadLetter: the broker stores the copy. Its confirm lets the handler go on to ack.
Handoff(m) ==
    /\ At(m, "handoff")
    /\ Goto(m, "discard")
    /\ UNCHANGED <<bound, taken, consumer, tables, finished, late, db, budget>>

\* Mutant: the original is acknowledged although the copy was refused.
RefusedAndAcked(m) ==
    /\ At(m, "handoff")
    /\ Fault
    /\ msg' = [msg EXCEPT ![m] = Free]
    /\ UNCHANGED <<bound, taken, consumer, tables, finished, late, db>>

\* The broker refuses the copy; the error ends in the outer catch.
HandoffRefused(m) ==
    /\ At(m, "handoff")
    /\ Fault
    /\ Goto(m, "left")
    /\ UNCHANGED <<bound, taken, consumer, tables, finished, late, db>>

\* The original is acknowledged; the copy in the dead-letter queue takes its slot.
InDlq(m) == [m EXCEPT !.place = "dlq", !.holder = None, !.stage = "none"]

Discard(m) ==
    /\ At(m, "discard")
    /\ msg' = [msg EXCEPT ![m] = InDlq(@)]
    /\ UNCHANGED <<bound, taken, consumer, tables, finished, late, db, budget>>

\* redriveConsumerDlq: the dead letter is published again with its properties, x-death
\* among them, and acknowledged.
RedriveDlq(m) ==
    /\ msg[m].place = "dlq"
    /\ redrives < MaxRedrives
    /\ redrives' = redrives + 1
    /\ msg' = [msg EXCEPT ![m] = InMain(@)]
    /\ UNCHANGED <<bound, taken, consumer, tables, finished, late, db, published, outages, faults, sweeps>>

\* The redrive dies between publishing the dead letter and acknowledging it.
RedriveUnacked(m) ==
    /\ msg[m].place = "dlq"
    /\ Fault
    /\ \E n \in Slot : /\ msg[n].place = "free"
                       /\ msg' = [msg EXCEPT ![n] = InMain(msg[m])]
    /\ UNCHANGED <<bound, taken, consumer, tables, finished, late, db>>

-----------------------------------------------------------------------------
(* Channels, processes, the database.                                      *)

\* start(): the queues are declared and bound, and the channel consumes. A start that
\* fails leaves the channel closed and sets the reinit timer again.
Start(p) ==
    /\ channel[p] = "closed"
    /\ bound' = "yes"
    /\ channel' = [channel EXCEPT ![p] = "consuming"]
    /\ UNCHANGED <<msg, taken, paused, timer, tables, finished, late, db, budget>>

\* Mutant: the deliveries of a closed channel stay unacknowledged.
RequeuedNothing(p) == msg

Requeued(p) ==
    [m \in Slot |-> IF msg[m].holder = p THEN InMain(msg[m]) ELSE msg[m]]

\* A dead letter that was copied but not acknowledged is then in both queues: its copy
\* takes a slot of its own.
Copied(p) == {m \in Unacked(p) : msg[m].stage = "discard"}

\* What the broker makes of p's deliveries when the channel is gone.
LoseChannel(p) ==
    \E copy \in [Copied(p) -> {n \in Slot : msg[n].place = "free"}] :
        /\ \A m, n \in Copied(p) : copy[m] = copy[n] => m = n
        /\ msg' = [n \in Slot |-> IF \E m \in Copied(p) : copy[m] = n
                                  THEN InDlq(msg[CHOOSE m \in Copied(p) : copy[m] = n])
                                  ELSE Requeued(p)[n]]

\* handleChannelClose: the handlers go on, but can only still reach the database; the
\* reinit timer is set; a resume timer keeps the channel that closed.
ChannelCloses(p) ==
    /\ channel[p] # "closed"
    /\ Fault
    /\ LoseChannel(p)
    /\ late' = [e \in Event |-> late[e] +
                  Cardinality({m \in Unacked(p) : msg[m].event = e /\ msg[m].stage = "store"})]
    /\ channel' = [channel EXCEPT ![p] = "closed"]
    /\ timer' = [timer EXCEPT ![p] = IF paused[p] = "no" THEN "none" ELSE "stale"]
    /\ paused' = [paused EXCEPT ![p] = IF @ = "no" THEN "no" ELSE "yes"]
    /\ UNCHANGED <<bound, taken, tables, finished, db>>

\* A handler whose channel closed runs its transaction; its ack then throws.
LateStore(e) ==
    /\ late[e] > 0 /\ db = "up"
    /\ late' = [late EXCEPT ![e] = @ - 1]
    /\ IF Kind[e] = "plain" THEN Enqueue(e) ELSE UNCHANGED tables
    /\ UNCHANGED <<broker, consumer, finished, db, budget>>

\* A late handler fails: its nack throws too.
LateFails(e) ==
    /\ late[e] > 0 /\ db = "down"
    /\ late' = [late EXCEPT ![e] = @ - 1]
    /\ UNCHANGED <<broker, consumer, tables, finished, db, budget>>

\* The process dies and is started again, with no pause and no timers.
Crash(p) ==
    /\ channel[p] # "closed" \/ paused[p] # "no"
    /\ Fault
    /\ LoseChannel(p)
    /\ channel' = [channel EXCEPT ![p] = "closed"]
    /\ paused' = [paused EXCEPT ![p] = "no"]
    /\ timer' = [timer EXCEPT ![p] = "none"]
    /\ UNCHANGED <<bound, taken, tables, finished, late, db>>

DatabaseDown ==
    /\ db = "up" /\ outages < MaxOutages
    /\ db' = "down"
    /\ outages' = outages + 1
    /\ UNCHANGED <<broker, consumer, tables, finished, late, published, faults, redrives, sweeps>>

DatabaseUp ==
    /\ db = "down"
    /\ db' = "up"
    /\ UNCHANGED <<broker, consumer, tables, finished, late, budget>>

\* Retention deletes ledger rows after processedDays, when every message of the event
\* but a dead letter is long gone.
SweepLedger(e) ==
    /\ e \in ledger /\ db = "up"
    /\ sweeps < MaxSweeps
    /\ late[e] = 0
    /\ \A m \in Slot : msg[m].event = e => msg[m].place = "dlq"
    /\ sweeps' = sweeps + 1
    /\ ledger' = ledger \ {e}
    /\ UNCHANGED <<broker, consumer, notes, finished, late, db, published, outages, faults, redrives>>

-----------------------------------------------------------------------------

Handle(m) ==
    \/ RetryExpires(m)
    \/ Check(m) \/ Store(m) \/ Ack(m) \/ ProcessFails(m)
    \/ PauseForInfra(m)
    \/ Handoff(m) \/ Discard(m)

Consume(p) == CancelConsume(p) \/ ResumeConsuming(p) \/ Start(p)

Next ==
    \/ \E m \in Slot : Handle(m) \/ HandoffRefused(m) \/ RedriveDlq(m) \/ RedriveUnacked(m)
    \/ \E p \in Process, m \in Slot : Deliver(p, m)
    \/ \E p \in Process : Consume(p) \/ ChannelCloses(p) \/ Crash(p)
    \/ \E e \in Event : Publish(e) \/ LateStore(e) \/ LateFails(e) \/ SweepLedger(e)
    \/ DatabaseDown \/ DatabaseUp

Spec == Init /\ [][Next]_vars

\* The broker delivers what is queued, calls end, timers fire and an outage passes.
FairSpec ==
    /\ Spec
    /\ \A m \in Slot : /\ WF_vars(Handle(m))
                       /\ WF_vars(\E p \in Process : Deliver(p, m))
    /\ \A p \in Process : WF_vars(Consume(p))
    /\ WF_vars(DatabaseUp)

-----------------------------------------------------------------------------
(* Properties.                                                             *)

Queued(e, places) == \E m \in Slot : msg[m].event = e /\ msg[m].place \in places

DeadLettered(e) ==
    \E m \in Slot : msg[m].event = e /\ (msg[m].place = "dlq" \/ msg[m].stage = "discard")

\* payment-notification.consumer.ts:35-39: exactly-once effect. However often an event
\* is published, redelivered, handled twice at once or redriven, it gets a second
\* notification only if retention took its ledger row; and the ledger has no event
\* without its notification.
ExactlyOnceEffect ==
    \A e \in Event : /\ notes[e] <= 1 + sweeps
                     /\ e \in ledger => notes[e] >= 1

\* No message is acknowledged away: an event the bound queue took is in one of the
\* queues or with a consumer, until it is handled, with its notification if it has one.
NothingDropped ==
    \A e \in taken :
        \/ Queued(e, {"main", "unacked", "retry", "dlq"})
        \/ e \in finished /\ (Kind[e] = "plain" => notes[e] >= 1)

\* F3: errors that isInfraError recognises burn no retries, however often an outage
\* requeues a message. A well-formed one is dead-lettered only after other failures (an
\* outage's among them, when its error is not listed), and because a trip through the
\* retry queue counts twice in x-death, after half of maxAttempts of them and one more.
DeadLettersEarnedIt ==
    \A m \in Slot :
        (msg[m].place = "dlq" \/ msg[m].stage \in {"handoff", "discard"}) =>
            \/ Kind[msg[m].event] = "malformed"
            \/ 2 * (msg[m].errors - 1) >= MaxAttempts

Left(p) == {m \in Unacked(p) : msg[m].stage = "left"}

\* Every event the queue took is handled or dead-lettered in the end, unless a refused
\* handoff leaves it with a channel that stays open, or such deliveries use up the
\* prefetch limit of every consumer.
EveryMessageSettles ==
    \A e \in Event :
        e \in taken ~> \/ e \in finished \/ DeadLettered(e)
                       \/ \E p \in Process : \E m \in Left(p) : msg[m].event = e
                       \/ \A p \in Process : Cardinality(Left(p)) = Prefetch

\* However channels, pauses and restarts follow each other, every consumer ends up
\* consuming.
ConsumersReturn ==
    \A p \in Process : <>[](channel[p] = "consuming")

\* order-created-notification.consumer.ts:227: an outage stops the consumer until it
\* resumes. It consumes while paused only after its channel closed during the pause:
\* the new channel then consumes, and the resume timer, which is bound to the closed
\* one, clears the pause no more.
PausedMeansSilent ==
    \A p \in Process : paused[p] = "yes" /\ channel[p] = "consuming" => timer[p] = "stale"

-----------------------------------------------------------------------------
(* Why they hold: the inductive invariant.                                 *)

\* Every death was a failure of its own or the retry queue's expiry after one.
DeathsCounted ==
    \A m \in Slot :
        /\ msg[m].place # "free" => msg[m].event \in Event
        /\ msg[m].deaths + (IF msg[m].place = "retry" THEN 1 ELSE 0) <= 2 * msg[m].errors

\* What is about to be acknowledged has its notification.
AcksAreDue ==
    \A m \in Slot :
        msg[m].stage = "ack" /\ Kind[msg[m].event] = "plain" => notes[msg[m].event] >= 1

\* An event is in the ledger with its last notification, and earlier ones were swept.
NotesCounted ==
    \A e \in Event : /\ e \in ledger => notes[e] >= 1
                     /\ notes[e] <= sweeps + (IF e \in ledger THEN 1 ELSE 0)

\* A pause has a resume timer once the subscription is cancelled; what it resumes is the
\* channel that was paused, if that is still open.
PausesInOrder ==
    \A p \in Process :
        /\ paused[p] = "no" => timer[p] = "none"
        /\ paused[p] = "cancelling" => channel[p] # "closed" /\ timer[p] = "none"
        /\ timer[p] = "live" => paused[p] = "yes" /\ channel[p] = "open"
        /\ channel[p] = "closed" /\ paused[p] = "yes" => timer[p] = "stale"

\* The inductive invariant, with everything the proofs of the properties use.
IInv ==
    /\ TypeOK
    /\ DeathsCounted
    /\ AcksAreDue
    /\ NotesCounted
    /\ NothingDropped
    /\ DeadLettersEarnedIt
    /\ PausesInOrder
    /\ PausedMeansSilent
=============================================================================
