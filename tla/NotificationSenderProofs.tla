----------------------- MODULE NotificationSenderProofs -----------------------
(***************************************************************************)
(* Proofs about NotificationSender for every set of notifications and      *)
(* senders, any batch size, number of attempts and breaker threshold: its  *)
(* types, that a notification is given up only for cause, that a row has   *)
(* one holder while its lease carries, that a sent row is final, that an   *)
(* open breaker lets less than a batch of calls through, that a mail       *)
(* beyond the first is paid for by a fault, and that the sender implements *)
(* OutboxContract.                                                         *)
(***************************************************************************)
EXTENDS NotificationSender, FiniteSetTheorems, TLAPS

-----------------------------------------------------------------------------
(* Rows and the end of a row or a tick.                                    *)

\* What markSent and a redrive make of a row.
LEMMA WrittenRows ==
    ASSUME NEW row \in Row
    PROVE  /\ Sent(row) \in Row
           /\ Sent(row).status = "SENT" /\ Sent(row).attempts = row.attempts
           /\ Sent(row).lockedBy = None
           /\ Redriven(row) \in Row
           /\ Redriven(row).status = "PENDING" /\ Redriven(row).attempts = 0
           /\ Redriven(row).lockedBy = None
  BY DEF Sent, Redriven, Unlocked, Row, RowStatus

\* What scheduleRetry makes of a row.
LEMMA RetriedRows ==
    ASSUME NEW row \in Row, NEW k \in Nat
    PROVE  /\ Retried(row, k) \in Row
           /\ Retried(row, k).status \in {row.status, "FAILED"}
           /\ Retried(row, k).status = "FAILED" => row.status = "FAILED" \/ k >= MaxAttempts
           /\ Retried(row, k).attempts = k
           /\ Retried(row, k).lockedBy = None
<1>1. CASE k >= MaxAttempts
  BY <1>1 DEF Retried, Unlocked, Row, RowStatus
<1>2. CASE ~(k >= MaxAttempts)
  BY <1>2 DEF Retried, Unlocked, Row, RowStatus
<1> QED
  BY <1>1, <1>2

\* What markFailed makes of a row.
GivenUp(row, k) == [Unlocked(row) EXCEPT !.status = "FAILED", !.attempts = k]

LEMMA GivenUpRows ==
    ASSUME NEW row \in Row, NEW k \in Nat
    PROVE  /\ GivenUp(row, k) \in Row
           /\ GivenUp(row, k).status = "FAILED" /\ GivenUp(row, k).attempts = k
           /\ GivenUp(row, k).lockedBy = None
  BY DEF GivenUp, Unlocked, Row, RowStatus

\* A row of the table the process leaves: its token may have become Abandoned.
LeftAs(w, before, after) ==
    \/ after = before
    \/ before.lockedBy = w /\ after = [before EXCEPT !.lockedBy = Abandoned]

\* An abandoned token changes nothing else of the row.
LEMMA LeftKeeps ==
    ASSUME NEW w, NEW before \in Row, NEW after, LeftAs(w, before, after)
    PROVE  /\ after.status = before.status /\ after.attempts = before.attempts
           /\ after.lease = before.lease
           /\ (after.lockedBy = before.lockedBy \/ (before.lockedBy = w /\ after.lockedBy = Abandoned))
<1>1. CASE after = before
  BY <1>1
<1>2. CASE before.lockedBy = w /\ after = [before EXCEPT !.lockedBy = Abandoned]
  BY <1>2 DEF Row
<1> QED
  BY <1>1, <1>2 DEF LeftAs

-----------------------------------------------------------------------------
(* Types.                                                                  *)

PcLabels == {"idle", "read", "send", "mark", "fail", "retry"}

\* TypeOK in three parts: the rows and the processes, the breakers, the history.
CoreTypes ==
    /\ rows \in [Note -> Row]
    /\ pc \in [Sender -> PcLabels]
    /\ batch \in [Sender -> SUBSET Note]
    /\ snap \in [Sender -> [Note -> Nat]]
    /\ cur \in [Sender -> Note \cup {None}]
    /\ \A w \in Sender : pc[w] \in {"mark", "fail", "retry"} => cur[w] \in batch[w]

BreakerTypes ==
    /\ streak \in [Sender -> 0 .. BreakerThreshold]
    /\ breaker \in [Sender -> {"closed", "open"}]
    /\ calls \in [Sender -> Nat]

LedgerTypes ==
    /\ mails \in [Note -> Nat]
    /\ failures \in [Note -> Nat]
    /\ refused \subseteq Note
    /\ upset \subseteq Note
    /\ faults \in Nat
    /\ redrives \in Nat

LEMMA TypeParts == TypeOK <=> CoreTypes /\ BreakerTypes /\ LedgerTypes
  BY DEF TypeOK, CoreTypes, BreakerTypes, LedgerTypes, PcLabels

\* What w's finishing a row or a tick with a table does to every variable it touches.
Moves(w, table, left) ==
    /\ rows' \in [Note -> Row]
    /\ \A n \in Note : LeftAs(w, table[n], rows'[n])
    /\ \A n \in Note : pc'[w] = "idle" => rows'[n].lockedBy # w
    /\ \A n \in Note : pc'[w] # "idle" => rows'[n] = table[n]
    /\ pc' \in [Sender -> PcLabels]
    /\ pc'[w] \in {"idle", "send"}
    /\ pc'[w] = "idle" => left = {}
    /\ \A v \in Sender \ {w} : pc'[v] = pc[v] /\ batch'[v] = batch[v] /\ cur'[v] = cur[v]
    /\ batch' \in [Sender -> SUBSET Note]
    /\ batch'[w] = left
    /\ snap' \in [Sender -> [Note -> Nat]]
    /\ \A v \in Sender, n \in Note : snap'[v][n] \in {0, snap[v][n]}
    /\ \A v \in Sender \ {w}, n \in Note : snap'[v][n] = snap[v][n]
    /\ cur' \in [Sender -> Note \cup {None}]

\* The end of a tick.
LEMMA EndTickMoves ==
    ASSUME CoreTypes, NEW w \in Sender, NEW table \in [Note -> Row], EndTick(w, table)
    PROVE  Moves(w, table, {})
<1>1. /\ pc' \in [Sender -> PcLabels] /\ pc'[w] = "idle"
      /\ batch' \in [Sender -> SUBSET Note] /\ batch'[w] = {}
      /\ cur' \in [Sender -> Note \cup {None}]
      /\ \A v \in Sender \ {w} : pc'[v] = pc[v] /\ batch'[v] = batch[v] /\ cur'[v] = cur[v]
  BY DEF EndTick, CoreTypes, PcLabels
<1>2. /\ snap' \in [Sender -> [Note -> Nat]]
      /\ \A v \in Sender, n \in Note : snap'[v][n] \in {0, snap[v][n]}
      /\ \A v \in Sender \ {w}, n \in Note : snap'[v][n] = snap[v][n]
  <2>1. [n \in Note |-> 0] \in [Note -> Nat]
    OBVIOUS
  <2> QED
    BY <2>1 DEF EndTick, CoreTypes
<1>3. rows' = [n \in Note |-> IF table[n].lockedBy = w
                               THEN [table[n] EXCEPT !.lockedBy = Abandoned] ELSE table[n]]
  BY DEF EndTick, Abandon
<1>4. ASSUME NEW n \in Note
      PROVE  rows'[n] \in Row /\ LeftAs(w, table[n], rows'[n]) /\ rows'[n].lockedBy # w
  <2>1. CASE table[n].lockedBy # w
    <3>1. rows'[n] = table[n]
      BY <1>3, <2>1
    <3> QED
      BY <2>1, <3>1 DEF LeftAs
  <2>2. CASE table[n].lockedBy = w
    <3>1. rows'[n] = [table[n] EXCEPT !.lockedBy = Abandoned]
      BY <1>3, <2>2
    <3>2. rows'[n] \in Row
      BY <3>1 DEF Row
    <3>3. rows'[n].lockedBy # w
      BY <3>1, SenderTokenAssumption DEF Row
    <3> QED
      BY <2>2, <3>1, <3>2, <3>3 DEF LeftAs
  <2> QED
    BY <2>1, <2>2
<1>5. rows' \in [Note -> Row]
  BY <1>3, <1>4
<1> QED
  BY <1>1, <1>2, <1>4, <1>5 DEF Moves

\* The end of a row, which may be the last of its batch.
LEMMA RowDoneMoves ==
    ASSUME CoreTypes, NEW w \in Sender, NEW table \in [Note -> Row], RowDone(w, table),
           cur[w] \in batch[w]
    PROVE  Moves(w, table, batch[w] \ {cur[w]})
<1>1. CASE batch[w] = {cur[w]}
  <2>1. Moves(w, table, {})
    BY <1>1, EndTickMoves DEF RowDone
  <2> QED
    BY <1>1, <2>1
<1>2. CASE batch[w] # {cur[w]}
  <2>1. /\ rows' = table
        /\ batch' = [batch EXCEPT ![w] = @ \ {cur[w]}]
        /\ pc' = [pc EXCEPT ![w] = "send"]
        /\ snap' = [snap EXCEPT ![w][cur[w]] = 0]
        /\ cur' = [cur EXCEPT ![w] = None]
    BY <1>2 DEF RowDone
  <2>2. /\ pc' \in [Sender -> PcLabels] /\ pc'[w] = "send"
        /\ batch' \in [Sender -> SUBSET Note] /\ batch'[w] = batch[w] \ {cur[w]}
        /\ cur' \in [Sender -> Note \cup {None}]
        /\ \A v \in Sender \ {w} : pc'[v] = pc[v] /\ batch'[v] = batch[v] /\ cur'[v] = cur[v]
    BY <2>1 DEF CoreTypes, PcLabels
  <2>3. /\ snap' \in [Sender -> [Note -> Nat]]
        /\ \A v \in Sender, n \in Note : snap'[v][n] \in {0, snap[v][n]}
        /\ \A v \in Sender \ {w}, n \in Note : snap'[v][n] = snap[v][n]
    BY <2>1 DEF CoreTypes
  <2> QED
    BY <2>1, <2>2, <2>3 DEF Moves, LeftAs
<1> QED
  BY <1>1, <1>2

-----------------------------------------------------------------------------
(* Types of the rows and the processes.                                    *)

LEMMA CoreInit == Init => CoreTypes
<1> SUFFICES ASSUME Init PROVE CoreTypes
  OBVIOUS
<1>1. rows \in [Note -> Row]
  BY DEF Init, NoRow, Row, RowStatus
<1>2. snap \in [Sender -> [Note -> Nat]]
  BY DEF Init
<1> QED
  BY <1>1, <1>2 DEF Init, CoreTypes, PcLabels

\* A process that moves on has nothing at hand to mark.
LEMMA MovesTypes ==
    ASSUME CoreTypes, NEW w \in Sender, NEW table, NEW left, Moves(w, table, left)
    PROVE  CoreTypes'
<1>1. \A v \in Sender : pc'[v] \in {"mark", "fail", "retry"} => cur'[v] \in batch'[v]
  BY DEF Moves, CoreTypes
<1> QED
  BY <1>1 DEF Moves, CoreTypes

\* A claim stamps rows that were free.
LEMMA StampedType ==
    ASSUME CoreTypes, NEW S \in Claims, NEW token \in Sender \cup {Abandoned}
    PROVE  /\ Stamped(S, token) \in [Note -> Row]
           /\ \A n \in Note : \/ Stamped(S, token)[n] = rows[n]
                              \/ /\ rows[n].lease # "held"
                                 /\ rows[n].status = "PENDING"
                                 /\ Stamped(S, token)[n]
                                       = [rows[n] EXCEPT !.lockedBy = token, !.lease = "held"]
<1>1. ASSUME NEW n \in Note
      PROVE  /\ Stamped(S, token)[n] \in Row
             /\ \/ Stamped(S, token)[n] = rows[n]
                \/ /\ rows[n].lease # "held" /\ rows[n].status = "PENDING"
                   /\ Stamped(S, token)[n] = [rows[n] EXCEPT !.lockedBy = token, !.lease = "held"]
  <2>1. CASE n \in S
    <3>1. Claimable(rows[n])
      BY <2>1 DEF Claims
    <3>2. Stamped(S, token)[n] = [rows[n] EXCEPT !.lockedBy = token, !.lease = "held"]
      BY <2>1 DEF Stamped
    <3>3. rows[n] \in Row
      BY DEF CoreTypes
    <3>4. Stamped(S, token)[n] \in Row
      BY <3>2, <3>3 DEF Row
    <3> QED
      BY <3>1, <3>2, <3>4 DEF Claimable
  <2>2. CASE n \notin S
    BY <2>2 DEF Stamped, CoreTypes
  <2> QED
    BY <2>1, <2>2
<1>2. Stamped(S, token) \in [Note -> Row]
  BY <1>1 DEF Stamped
<1> QED
  BY <1>1, <1>2

\* A step that only rewrites rows keeps the types.
LEMMA RowsOnly ==
    ASSUME CoreTypes, rows' \in [Note -> Row], UNCHANGED worker
    PROVE  CoreTypes'
  BY DEF CoreTypes, worker

\* The row a process is about to mark, and its count.
LEMMA AtHand ==
    ASSUME CoreTypes, NEW w \in Sender, pc[w] \in {"mark", "fail", "retry"}
    PROVE  /\ cur[w] \in batch[w] /\ cur[w] \in Note /\ rows[cur[w]] \in Row
           /\ snap[w][cur[w]] \in Nat /\ snap[w][cur[w]] + 1 \in Nat
<1>1. cur[w] \in batch[w] /\ cur[w] \in Note
  BY DEF CoreTypes
<1>2. rows \in [Note -> Row] /\ snap[w] \in [Note -> Nat]
  BY DEF CoreTypes
<1> QED
  BY <1>1, <1>2

\* What a process leaves of the table when it is done with the row at hand.
Rewritten(w, row) == [rows EXCEPT ![cur[w]] = row]

\* A mark, a retry or a refusal: the row at hand is rewritten and the process moves on.
LEMMA RewriteMoves ==
    ASSUME CoreTypes, NEW w \in Sender, pc[w] \in {"mark", "fail", "retry"}, NEW row \in Row,
           RowDone(w, Rewritten(w, row))
    PROVE  /\ Rewritten(w, row) \in [Note -> Row]
           /\ Moves(w, Rewritten(w, row), batch[w] \ {cur[w]})
<1>1. cur[w] \in batch[w] /\ cur[w] \in Note
  BY AtHand
<1>2. Rewritten(w, row) \in [Note -> Row]
  BY <1>1 DEF CoreTypes, Rewritten
<1> QED
  BY <1>1, <1>2, RowDoneMoves

\* The three rewritings of sendRow.
RewriteStep(w, row) ==
    /\ RowDone(w, Rewritten(w, row))
    /\ rows[cur[w]].status # "DELETED"
    /\ UNCHANGED <<mails, history, faults, redrives>>
    /\ \/ pc[w] = "mark" /\ row = Sent(rows[cur[w]])
       \/ pc[w] = "fail" /\ row = GivenUp(rows[cur[w]], snap[w][cur[w]] + 1)
       \/ pc[w] = "retry" /\ row = Retried(rows[cur[w]], snap[w][cur[w]] + 1)

LEMMA RewriteSteps ==
    ASSUME CoreTypes, NEW w \in Sender, MarkSent(w) \/ MarkFailed(w) \/ ScheduleRetry(w)
    PROVE  \E row \in Row : RewriteStep(w, row)
<1>1. CASE MarkSent(w)
  <2>1. PICK row \in Row : row = Sent(rows[cur[w]])
    BY <1>1, AtHand, WrittenRows DEF MarkSent
  <2>2. RowDone(w, Rewritten(w, row))
    BY <1>1, <2>1 DEF MarkSent, Rewritten
  <2> QED
    BY <1>1, <2>1, <2>2 DEF MarkSent, RewriteStep
<1>2. CASE MarkFailed(w)
  <2>0. PICK k \in Nat : k = snap[w][cur[w]] + 1
    BY <1>2, AtHand DEF MarkFailed
  <2>1. PICK row \in Row : row = GivenUp(rows[cur[w]], k)
    BY <1>2, AtHand, GivenUpRows DEF MarkFailed
  <2>2. RowDone(w, Rewritten(w, row))
    BY <1>2, <2>0, <2>1 DEF MarkFailed, Rewritten, GivenUp
  <2> QED
    BY <1>2, <2>0, <2>1, <2>2 DEF MarkFailed, RewriteStep
<1>3. CASE ScheduleRetry(w)
  <2>0. PICK k \in Nat : k = snap[w][cur[w]] + 1
    BY <1>3, AtHand DEF ScheduleRetry
  <2>1. PICK row \in Row : row = Retried(rows[cur[w]], k)
    BY <1>3, AtHand, RetriedRows DEF ScheduleRetry
  <2>2. RowDone(w, Rewritten(w, row))
    BY <1>3, <2>0, <2>1 DEF ScheduleRetry, Rewritten
  <2> QED
    BY <1>3, <2>0, <2>1, <2>2 DEF ScheduleRetry, RewriteStep
<1> QED
  BY <1>1, <1>2, <1>3

\* Every step keeps them.
LEMMA CoreStep == CoreTypes /\ [Next]_vars => CoreTypes'
<1> SUFFICES ASSUME CoreTypes, [Next]_vars PROVE CoreTypes'
  OBVIOUS
<1>a. rows \in [Note -> Row]
  BY DEF CoreTypes
<1>1. ASSUME NEW w \in Sender, ClaimStamp(w) PROVE CoreTypes'
  <2>1. PICK S \in Claims : rows' = Stamped(S, w)
    BY <1>1 DEF ClaimStamp
  <2>2. rows' \in [Note -> Row]
    BY <2>1, StampedType
  <2> QED
    BY <1>1, <2>2 DEF ClaimStamp, CoreTypes, PcLabels
<1>2. ASSUME NEW w \in Sender, ClaimFails(w) PROVE CoreTypes'
  <2>1. CASE rows' = rows
    BY <1>2, <2>1 DEF ClaimFails, CoreTypes, worker
  <2>2. ASSUME NEW S \in Claims, rows' = Stamped(S, Abandoned) PROVE CoreTypes'
    <3>1. rows' \in [Note -> Row]
      BY <2>2, StampedType
    <3> QED
      BY <1>2, <3>1 DEF ClaimFails, CoreTypes, worker
  <2>3. rows' \in {rows} \cup {Stamped(S, Abandoned) : S \in Claims}
    BY <1>2 DEF ClaimFails
  <2> QED
    BY <2>1, <2>2, <2>3
<1>3. ASSUME NEW w \in Sender, StartBatch(w) PROVE CoreTypes'
  <2>1. CASE ClaimRead(w) = {}
    BY <1>3, <2>1, <1>a, EndTickMoves, MovesTypes DEF StartBatch
  <2>2. CASE ClaimRead(w) # {}
    <3>1. [n \in Note |-> IF n \in ClaimRead(w) THEN rows[n].attempts ELSE 0]
              \in [Note -> Nat]
      BY <1>a DEF Row
    <3>2. snap' \in [Sender -> [Note -> Nat]]
      BY <1>3, <2>2, <3>1 DEF StartBatch, CoreTypes
    <3>3. batch' \in [Sender -> SUBSET Note]
      BY <1>3, <2>2 DEF StartBatch, ClaimRead, CoreTypes
    <3>4. \A v \in Sender : pc'[v] \in {"mark", "fail", "retry"} => cur'[v] \in batch'[v]
      BY <1>3, <2>2 DEF StartBatch, CoreTypes
    <3> QED
      BY <1>3, <2>2, <3>2, <3>3, <3>4 DEF StartBatch, CoreTypes, PcLabels
  <2> QED
    BY <2>1, <2>2
<1>4. ASSUME NEW w \in Sender, NEW n \in Note,
             SendAccepted(w, n) \/ SendRefused(w, n) \/ SendTransient(w, n)
      PROVE  CoreTypes'
  <2>1. \E label \in {"mark", "fail", "retry"} : pc' = [pc EXCEPT ![w] = label]
    BY <1>4 DEF SendAccepted, SendRefused, SendTransient
  <2>2. /\ cur' = [cur EXCEPT ![w] = n] /\ n \in batch[w]
        /\ UNCHANGED <<rows, batch, snap>>
    BY <1>4 DEF SendAccepted, SendRefused, SendTransient, NextInBatch
  <2> QED
    BY <2>1, <2>2 DEF CoreTypes, PcLabels
<1>5. ASSUME NEW w \in Sender, MarkSent(w) \/ MarkFailed(w) \/ ScheduleRetry(w)
      PROVE  CoreTypes'
  <2>1. PICK row \in Row : RewriteStep(w, row)
    BY <1>5, RewriteSteps
  <2>2. Moves(w, Rewritten(w, row), batch[w] \ {cur[w]})
    BY <2>1, RewriteMoves DEF RewriteStep
  <2> QED
    BY <2>2, MovesTypes
<1>6. ASSUME NEW w \in Sender, MarkSentFails(w) PROVE CoreTypes'
  <2>1. cur[w] \in batch[w] /\ cur[w] \in Note /\ rows[cur[w]] \in Row
    BY <1>6, AtHand DEF MarkSentFails
  <2>2. [rows EXCEPT ![cur[w]] = Sent(@)] \in [Note -> Row]
    BY <2>1, <1>a, WrittenRows
  <2>3. rows' \in [Note -> Row]
    BY <1>6, <1>a, <2>2 DEF MarkSentFails
  <2>4. \A v \in Sender : pc'[v] \in {"mark", "fail", "retry"} => cur'[v] \in batch'[v]
    BY <1>6, <2>1 DEF MarkSentFails, CoreTypes
  <2> QED
    BY <1>6, <2>3, <2>4 DEF MarkSentFails, CoreTypes, PcLabels
<1>7. ASSUME NEW w \in Sender, TickFails(w) \/ Crash(w) PROVE CoreTypes'
  BY <1>7, <1>a, EndTickMoves, MovesTypes DEF TickFails, Crash
<1>8. ASSUME NEW n \in Note, Enqueue(n) \/ LeaseRunsOut(n) \/ BackoffOver(n) \/ Sweep(n)
      PROVE  CoreTypes'
  <2>1. rows' \in [Note -> Row]
    BY <1>8, <1>a DEF Enqueue, LeaseRunsOut, BackoffOver, Sweep, NoRow, Row, RowStatus
  <2>2. UNCHANGED worker
    BY <1>8 DEF Enqueue, LeaseRunsOut, BackoffOver, Sweep
  <2> QED
    BY <2>1, <2>2, RowsOnly
<1>9. ASSUME RedriveFailedNotifications PROVE CoreTypes'
  <2>1. PICK picked \in SUBSET FailedRows :
          rows' = [n \in Note |-> IF n \in picked THEN Redriven(rows[n]) ELSE rows[n]]
    BY <1>9 DEF RedriveFailedNotifications
  <2>2. rows' \in [Note -> Row]
    BY <2>1, <1>a, WrittenRows
  <2> QED
    BY <1>9, <2>2, RowsOnly DEF RedriveFailedNotifications
<1>10. ASSUME (\E w \in Sender : PauseOver(w)) \/ UNCHANGED vars PROVE CoreTypes'
  BY <1>10 DEF PauseOver, vars, worker, CoreTypes
<1> QED
  BY <1>1, <1>2, <1>3, <1>4, <1>5, <1>6, <1>7, <1>8, <1>9, <1>10
     DEF Next, SenderStep, SenderFails

-----------------------------------------------------------------------------
(* Types of the breakers and of the history.                               *)

\* Every step keeps the breakers' types.
LEMMA BreakerStep == BreakerTypes /\ [Next]_vars => BreakerTypes'
<1> SUFFICES ASSUME BreakerTypes, [Next]_vars PROVE BreakerTypes'
  OBVIOUS
<1>1. ASSUME NEW w \in Sender, TripBreaker(w) PROVE BreakerTypes'
  BY <1>1, SenderLimitAssumption DEF TripBreaker, BreakerTypes
<1>2. ASSUME NEW w \in Sender, ResetBreaker(w) PROVE BreakerTypes'
  BY <1>2, SenderLimitAssumption DEF ResetBreaker, BreakerTypes
<1>3. ASSUME NEW w \in Sender, Called(w) PROVE BreakerTypes'
  BY <1>3 DEF Called, BreakerTypes
<1>4. ASSUME NEW w \in Sender, NEW n \in Note, SendTransient(w, n) PROVE BreakerTypes'
  <2>1. /\ streak' = [streak EXCEPT ![w] = IF @ < BreakerThreshold THEN @ + 1 ELSE @]
        /\ breaker' = [breaker EXCEPT ![w] = IF streak[w] + 1 >= BreakerThreshold THEN "open" ELSE @]
        /\ calls' = [calls EXCEPT ![w] = IF breaker[w] = "open" THEN @ + 1 ELSE 0]
    BY <1>4 DEF SendTransient
  <2>2. streak' \in [Sender -> 0 .. BreakerThreshold]
    BY <2>1, SenderLimitAssumption DEF BreakerTypes
  <2>3. breaker' \in [Sender -> {"closed", "open"}] /\ calls' \in [Sender -> Nat]
    BY <2>1 DEF BreakerTypes
  <2> QED
    BY <2>2, <2>3 DEF BreakerTypes
<1>5. ASSUME NEW w \in Sender, PauseOver(w) PROVE BreakerTypes'
  BY <1>5 DEF PauseOver, BreakerTypes
<1>6. ASSUME UNCHANGED breakers PROVE BreakerTypes'
  BY <1>6 DEF breakers, BreakerTypes
<1>7. ASSUME NEW w \in Sender, SenderStep(w) \/ SenderFails(w) PROVE BreakerTypes'
  BY <1>7, <1>1, <1>2, <1>3, <1>4, <1>6
     DEF SenderStep, SenderFails, ClaimStamp, StartBatch, SendAccepted, SendRefused, MarkSent,
         MarkFailed, ScheduleRetry, ClaimFails, MarkSentFails, TickFails, Crash
<1>8. ASSUME NEW n \in Note, Enqueue(n) \/ LeaseRunsOut(n) \/ BackoffOver(n) \/ Sweep(n)
      PROVE  BreakerTypes'
  BY <1>8, <1>6 DEF Enqueue, LeaseRunsOut, BackoffOver, Sweep
<1>9. ASSUME RedriveFailedNotifications \/ UNCHANGED vars PROVE BreakerTypes'
  BY <1>9, <1>6 DEF RedriveFailedNotifications, vars
<1> QED
  BY <1>5, <1>7, <1>8, <1>9 DEF Next

\* What one step does to the mails and the counts.
HistoryMove ==
    /\ mails' = mails \/ \E n \in Note : Deliver(n)
    /\ redrives' = redrives \/ redrives' = redrives + 1
    /\ failures' = failures \/ \E n \in Note : failures' = [failures EXCEPT ![n] = @ + 1]
    /\ refused' = refused \/ \E n \in Note : refused' = refused \cup {n}
    /\ upset' = upset \/ \E n \in Note : upset' = upset \cup {n}
    /\ faults' = faults \/ faults' = faults + 1

LEMMA EveryHistoryMoves ==
    ASSUME CoreTypes, [Next]_vars
    PROVE  HistoryMove
<1>1. ASSUME UNCHANGED <<mails, history, redrives>>, faults' \in {faults, faults + 1}
      PROVE  HistoryMove
  BY <1>1 DEF history, HistoryMove
<1>2. ASSUME NEW w \in Sender, \/ ClaimStamp(w) \/ StartBatch(w) \/ MarkSent(w) \/ MarkFailed(w)
                               \/ ScheduleRetry(w) \/ ClaimFails(w) \/ TickFails(w) \/ Crash(w)
                               \/ PauseOver(w)
      PROVE  HistoryMove
  BY <1>2, <1>1 DEF ClaimStamp, StartBatch, MarkSent, MarkFailed, ScheduleRetry, ClaimFails,
     TickFails, Crash, PauseOver, Fault
<1>3. ASSUME NEW w \in Sender, NEW n \in Note, SendAccepted(w, n) PROVE HistoryMove
  BY <1>3 DEF SendAccepted, history, HistoryMove
<1>4. ASSUME NEW w \in Sender, NEW n \in Note, SendRefused(w, n) PROVE HistoryMove
  BY <1>4 DEF SendRefused, Fault, HistoryMove
<1>5. ASSUME NEW w \in Sender, NEW n \in Note, SendTransient(w, n) PROVE HistoryMove
  BY <1>5 DEF SendTransient, Fault, HistoryMove
<1>6. ASSUME NEW w \in Sender, MarkSentFails(w) PROVE HistoryMove
  <2>1. cur[w] \in Note
    BY <1>6, AtHand DEF MarkSentFails
  <2>2. /\ UNCHANGED <<mails, refused, redrives>>
        /\ failures' = [failures EXCEPT ![cur[w]] = @ + 1]
        /\ upset' = upset \/ upset' = upset \cup {cur[w]}
        /\ faults' = faults \/ faults' = faults + 1
    BY <1>6 DEF MarkSentFails, Fault
  <2> QED
    BY <2>1, <2>2 DEF HistoryMove
<1>7. ASSUME NEW n \in Note, Enqueue(n) \/ BackoffOver(n) \/ Sweep(n) PROVE HistoryMove
  BY <1>7, <1>1 DEF Enqueue, BackoffOver, Sweep
<1>8. ASSUME NEW n \in Note, LeaseRunsOut(n) PROVE HistoryMove
  BY <1>8 DEF LeaseRunsOut, Fault, HistoryMove
<1>9. ASSUME RedriveFailedNotifications PROVE HistoryMove
  BY <1>9 DEF RedriveFailedNotifications, history, HistoryMove
<1>10. ASSUME UNCHANGED vars PROVE HistoryMove
  BY <1>10, <1>1 DEF vars
<1> QED
  BY <1>2, <1>3, <1>4, <1>5, <1>6, <1>7, <1>8, <1>9, <1>10 DEF Next, SenderStep, SenderFails

\* A request has the note mailed once more, or had it mailed before.
LEMMA DeliverMails ==
    ASSUME mails \in [Note -> Nat], NEW n \in Note, Deliver(n)
    PROVE  /\ mails' \in {mails, [mails EXCEPT ![n] = @ + 1]}
           /\ mails' \in [Note -> Nat]
           /\ \A m \in Note : mails'[m] >= mails[m]
           /\ mails'[n] >= 1
<1>1. PICK remembered \in BOOLEAN :
        /\ remembered => mails[n] >= 1
        /\ mails' = [mails EXCEPT ![n] = IF remembered THEN @ ELSE @ + 1]
  BY DEF Deliver
<1>2. CASE remembered
  <2>1. mails' = mails
    BY <1>1, <1>2
  <2> QED
    BY <1>1, <1>2, <2>1
<1>3. CASE ~remembered
  BY <1>1, <1>3
<1> QED
  BY <1>2, <1>3

\* What the history says stays said: nothing of it is taken back.
LEMMA HistoryGrows ==
    ASSUME LedgerTypes, HistoryMove
    PROVE  /\ LedgerTypes'
           /\ \A n \in Note : mails'[n] >= mails[n] /\ failures'[n] >= failures[n]
           /\ refused \subseteq refused' /\ upset \subseteq upset'
<1>1. mails' \in [Note -> Nat] /\ \A n \in Note : mails'[n] >= mails[n]
  <2>1. CASE mails' = mails
    BY <2>1 DEF LedgerTypes
  <2>2. ASSUME NEW m \in Note, Deliver(m)
        PROVE  mails' \in [Note -> Nat] /\ \A n \in Note : mails'[n] >= mails[n]
    BY <2>2, DeliverMails DEF LedgerTypes
  <2> QED
    BY <2>1, <2>2 DEF HistoryMove
<1>2. failures' \in [Note -> Nat] /\ \A n \in Note : failures'[n] >= failures[n]
  BY DEF HistoryMove, LedgerTypes
<1>3. /\ refused' \subseteq Note /\ refused \subseteq refused'
      /\ upset' \subseteq Note /\ upset \subseteq upset'
      /\ faults' \in Nat /\ redrives' \in Nat
  BY DEF HistoryMove, LedgerTypes
<1> QED
  BY <1>1, <1>2, <1>3 DEF LedgerTypes

LEMMA TypeInit == Init => TypeOK
<1> SUFFICES ASSUME Init PROVE TypeOK
  OBVIOUS
<1>1. BreakerTypes
  BY SenderLimitAssumption DEF Init, BreakerTypes
<1>2. LedgerTypes
  BY DEF Init, LedgerTypes
<1> QED
  BY <1>1, <1>2, CoreInit, TypeParts

LEMMA TypeStep ==
    ASSUME TypeOK, [Next]_vars
    PROVE  /\ TypeOK'
           /\ \A n \in Note : mails'[n] >= mails[n] /\ failures'[n] >= failures[n]
           /\ refused \subseteq refused' /\ upset \subseteq upset'
<1>1. CoreTypes /\ BreakerTypes /\ LedgerTypes
  BY TypeParts
<1>2. CoreTypes' /\ BreakerTypes'
  BY <1>1, CoreStep, BreakerStep
<1>3. HistoryMove
  BY <1>1, EveryHistoryMoves
<1>4. /\ LedgerTypes'
      /\ \A n \in Note : mails'[n] >= mails[n] /\ failures'[n] >= failures[n]
      /\ refused \subseteq refused' /\ upset \subseteq upset'
  BY <1>1, <1>3, HistoryGrows
<1>5. TypeOK'
  BY <1>2, <1>4 DEF TypeOK, CoreTypes, BreakerTypes, LedgerTypes, PcLabels
<1> QED
  BY <1>4, <1>5

\* Every variable keeps the type the schema and the worker give it, whatever fails.
THEOREM TypeCorrect == Spec => []TypeOK
<1>1. Init => TypeOK
  BY TypeInit
<1>2. TypeOK /\ [Next]_vars => TypeOK'
  BY TypeStep
<1> QED
  BY <1>1, <1>2, PTL DEF Spec

-----------------------------------------------------------------------------
(* What one step does to a row.                                            *)

SameProgress(n) ==
    rows'[n].status = rows[n].status /\ rows'[n].attempts = rows[n].attempts

Enqueued(n) ==
    rows[n].status = "ABSENT" /\ rows'[n].status = "PENDING" /\ rows'[n].attempts = 0

\* w, about to do what its label says, has the row at hand.
AtWork(w, label, n) ==
    pc[w] = label /\ cur[w] = n /\ n \in batch[w] /\ rows[n].status # "DELETED"

MarkedBy(w, n) ==
    /\ AtWork(w, "mark", n)
    /\ rows'[n].status = "SENT" /\ rows'[n].attempts = rows[n].attempts

RefusedBy(w, n) ==
    /\ AtWork(w, "fail", n)
    /\ rows'[n].status = "FAILED" /\ rows'[n].attempts = snap[w][n] + 1

RetriedBy(w, n) ==
    /\ AtWork(w, "retry", n)
    /\ rows'[n].status \in {rows[n].status, "FAILED"}
    /\ rows'[n].status = "FAILED" =>
          rows[n].status = "FAILED" \/ snap[w][n] + 1 >= MaxAttempts
    /\ rows'[n].attempts = snap[w][n] + 1

PutBack(n) ==
    rows[n].status = "FAILED" /\ rows'[n].status = "PENDING" /\ rows'[n].attempts = 0

Swept(n) ==
    /\ rows[n].status \in {"SENT", "FAILED"}
    /\ rows'[n].status = "DELETED" /\ rows'[n].attempts = 0

RowMove(n) ==
    \/ SameProgress(n) \/ Enqueued(n) \/ PutBack(n) \/ Swept(n)
    \/ \E w \in Sender : MarkedBy(w, n) \/ RefusedBy(w, n) \/ RetriedBy(w, n)

\* The row that sendRow rewrites is marked, refused or retried; the others stay.
LEMMA RewrittenMoves ==
    ASSUME CoreTypes, NEW w \in Sender, NEW row \in Row, RewriteStep(w, row), NEW n \in Note
    PROVE  SameProgress(n) \/ MarkedBy(w, n) \/ RefusedBy(w, n) \/ RetriedBy(w, n)
<1>a. rows \in [Note -> Row] /\ rows[n] \in Row
  BY DEF CoreTypes
<1>b. pc[w] \in {"mark", "fail", "retry"}
  BY DEF RewriteStep
<1>c. cur[w] \in batch[w] /\ cur[w] \in Note /\ snap[w][cur[w]] + 1 \in Nat
  BY <1>b, AtHand
<1>d. LeftAs(w, Rewritten(w, row)[n], rows'[n])
  BY <1>b, RewriteMoves DEF RewriteStep, Moves
<1>1. CASE n # cur[w]
  <2>1. LeftAs(w, rows[n], rows'[n])
    BY <1>1, <1>a, <1>d DEF Rewritten
  <2> QED
    BY <2>1, <1>a, LeftKeeps DEF SameProgress
<1>2. CASE n = cur[w]
  <2>1. LeftAs(w, row, rows'[n])
    BY <1>2, <1>a, <1>d DEF Rewritten
  <2>2. rows'[n].status = row.status /\ rows'[n].attempts = row.attempts
    BY <2>1, LeftKeeps
  <2>3. PICK k \in Nat : k = snap[w][n] + 1
    BY <1>2, <1>c
  <2>4. n \in batch[w] /\ cur[w] = n /\ rows[n].status # "DELETED"
    BY <1>2, <1>c DEF RewriteStep
  <2>5. CASE pc[w] = "mark" /\ row = Sent(rows[n])
    BY <2>2, <2>4, <2>5, <1>a, WrittenRows DEF MarkedBy, AtWork
  <2>6. CASE pc[w] = "fail" /\ row = GivenUp(rows[n], k)
    <3>1. row.status = "FAILED" /\ row.attempts = k
      BY <2>6, <1>a, GivenUpRows
    <3> QED
      BY <2>2, <2>3, <2>4, <2>6, <3>1 DEF RefusedBy, AtWork
  <2>7. CASE pc[w] = "retry" /\ row = Retried(rows[n], k)
    <3>1. /\ row.status \in {rows[n].status, "FAILED"}
          /\ row.status = "FAILED" => rows[n].status = "FAILED" \/ k >= MaxAttempts
          /\ row.attempts = k
      BY <2>7, <1>a, RetriedRows
    <3> QED
      BY <2>2, <2>3, <2>4, <2>7, <3>1 DEF RetriedBy, AtWork
  <2> QED
    BY <1>2, <2>3, <2>5, <2>6, <2>7 DEF RewriteStep
<1> QED
  BY <1>1, <1>2

\* Every step does one of these to each row.
LEMMA EveryRowMoves ==
    ASSUME CoreTypes, [Next]_vars, NEW n \in Note
    PROVE  RowMove(n)
<1>a. rows \in [Note -> Row] /\ rows[n] \in Row
  BY DEF CoreTypes
<1>1. ASSUME rows' = rows PROVE RowMove(n)
  BY <1>1 DEF RowMove, SameProgress
<1>2. ASSUME NEW w \in Sender, EndTick(w, rows) PROVE RowMove(n)
  <2>1. LeftAs(w, rows[n], rows'[n])
    BY <1>2, <1>a, EndTickMoves DEF Moves
  <2>2. SameProgress(n)
    BY <2>1, <1>a, LeftKeeps DEF SameProgress
  <2> QED
    BY <2>2 DEF RowMove
<1>3. ASSUME NEW S \in Claims, NEW token \in Sender \cup {Abandoned}, rows' = Stamped(S, token)
      PROVE  RowMove(n)
  <2>0. \/ Stamped(S, token)[n] = rows[n]
        \/ Stamped(S, token)[n] = [rows[n] EXCEPT !.lockedBy = token, !.lease = "held"]
    BY DEF Stamped
  <2>1. \/ rows'[n] = rows[n]
        \/ rows'[n] = [rows[n] EXCEPT !.lockedBy = token, !.lease = "held"]
    BY <1>3, <2>0
  <2>2. SameProgress(n)
    BY <2>1, <1>a DEF SameProgress, Row
  <2> QED
    BY <2>2 DEF RowMove
<1>4. ASSUME NEW w \in Sender, ClaimStamp(w) PROVE RowMove(n)
  BY <1>4, <1>3 DEF ClaimStamp
<1>5. ASSUME NEW w \in Sender, ClaimFails(w) PROVE RowMove(n)
  <2>1. rows' \in {rows} \cup {Stamped(S, Abandoned) : S \in Claims}
    BY <1>5 DEF ClaimFails
  <2>2. CASE rows' = rows
    BY <2>2, <1>1
  <2>3. CASE rows' \in {Stamped(S, Abandoned) : S \in Claims}
    <3>1. PICK S \in Claims : rows' = Stamped(S, Abandoned)
      BY <2>3
    <3> QED
      BY <3>1, <1>3
  <2> QED
    BY <2>1, <2>2, <2>3
<1>6. ASSUME NEW w \in Sender, StartBatch(w) \/ TickFails(w) \/ Crash(w) PROVE RowMove(n)
  BY <1>6, <1>1, <1>2 DEF StartBatch, TickFails, Crash
<1>7. ASSUME NEW w \in Sender, NEW m \in Note,
             SendAccepted(w, m) \/ SendRefused(w, m) \/ SendTransient(w, m)
      PROVE  RowMove(n)
  BY <1>7, <1>1 DEF SendAccepted, SendRefused, SendTransient
<1>8. ASSUME NEW w \in Sender, MarkSent(w) \/ MarkFailed(w) \/ ScheduleRetry(w)
      PROVE  RowMove(n)
  <2>1. PICK row \in Row : RewriteStep(w, row)
    BY <1>8, RewriteSteps
  <2> QED
    BY <2>1, RewrittenMoves DEF RowMove
<1>9. ASSUME NEW w \in Sender, MarkSentFails(w) PROVE RowMove(n)
  <2>1. CASE rows' = rows
    BY <2>1, <1>1
  <2>2. CASE /\ rows[cur[w]].status # "DELETED"
             /\ rows' = [rows EXCEPT ![cur[w]] = Sent(@)]
    <3>1. CASE n = cur[w]
      <4>1. rows'[n] = Sent(rows[n])
        BY <2>2, <3>1, <1>a
      <4>2. pc[w] = "mark" /\ n \in batch[w]
        BY <1>9, <3>1, AtHand DEF MarkSentFails
      <4>3. MarkedBy(w, n)
        BY <2>2, <3>1, <4>1, <4>2, <1>a, WrittenRows DEF MarkedBy, AtWork
      <4> QED
        BY <4>3 DEF RowMove
    <3>2. CASE n # cur[w]
      BY <2>2, <3>2, <1>a DEF RowMove, SameProgress
    <3> QED
      BY <3>1, <3>2
  <2> QED
    BY <1>9, <2>1, <2>2 DEF MarkSentFails
<1>10. ASSUME NEW m \in Note, Enqueue(m) \/ LeaseRunsOut(m) \/ BackoffOver(m) \/ Sweep(m)
       PROVE  RowMove(n)
  <2>1. CASE n # m
    <3>1. rows'[n] = rows[n]
      BY <1>10, <2>1, <1>a DEF Enqueue, LeaseRunsOut, BackoffOver, Sweep
    <3> QED
      BY <3>1 DEF RowMove, SameProgress
  <2>2. CASE n = m
    <3>1. CASE Enqueue(n)
      BY <3>1, <1>a DEF RowMove, Enqueue, Enqueued, NoRow
    <3>2. CASE LeaseRunsOut(n) \/ BackoffOver(n)
      BY <3>2, <1>a DEF RowMove, LeaseRunsOut, BackoffOver, SameProgress, Row
    <3>3. CASE Sweep(n)
      BY <3>3, <1>a DEF RowMove, Sweep, Swept, NoRow
    <3> QED
      BY <1>10, <2>2, <3>1, <3>2, <3>3
  <2> QED
    BY <2>1, <2>2
<1>11. ASSUME RedriveFailedNotifications PROVE RowMove(n)
  <2>1. PICK picked \in SUBSET FailedRows :
          rows' = [m \in Note |-> IF m \in picked THEN Redriven(rows[m]) ELSE rows[m]]
    BY <1>11 DEF RedriveFailedNotifications
  <2>2. CASE n \in picked
    BY <2>1, <2>2, <1>a, WrittenRows DEF FailedRows, RowMove, PutBack
  <2>3. CASE n \notin picked
    BY <2>1, <2>3 DEF RowMove, SameProgress
  <2> QED
    BY <2>2, <2>3
<1>12. ASSUME (\E w \in Sender : PauseOver(w)) \/ UNCHANGED vars PROVE RowMove(n)
  BY <1>12, <1>1 DEF PauseOver, vars
<1> QED
  BY <1>4, <1>5, <1>6, <1>7, <1>8, <1>9, <1>10, <1>11, <1>12 DEF Next, SenderStep, SenderFails

-----------------------------------------------------------------------------
(* What one step does to a process.                                        *)

\* How a process comes to mark, refuse or retry a row, and where its counts come from.
WorkerMove(w) ==
    /\ pc'[w] = "mark" => (pc[w] = "mark" /\ cur'[w] = cur[w]) \/ mails'[cur'[w]] >= 1
    /\ pc'[w] = "fail" => (pc[w] = "fail" /\ cur'[w] = cur[w]) \/ cur'[w] \in refused'
    /\ pc'[w] = "retry" =>
          \/ pc[w] = "retry" /\ cur'[w] = cur[w] /\ snap'[w] = snap[w]
          \/ failures'[cur'[w]] = failures[cur'[w]] + 1 /\ snap'[w] = snap[w]
    /\ \A n \in Note : snap'[w][n] \in {0, snap[w][n], rows[n].attempts}

LEMMA EveryWorkerMoves ==
    ASSUME CoreTypes, LedgerTypes, [Next]_vars, NEW w \in Sender
    PROVE  WorkerMove(w)
<1>1. ASSUME UNCHANGED <<pc, snap, cur>> PROVE WorkerMove(w)
  BY <1>1 DEF WorkerMove
<1>2. ASSUME NEW v \in Sender, NEW table, NEW left, Moves(v, table, left) PROVE WorkerMove(w)
  <2>1. CASE w = v
    BY <1>2, <2>1 DEF Moves, WorkerMove
  <2>2. CASE w # v
    <3>1. snap'[w] = snap[w]
      <4>1. snap'[w] \in [Note -> Nat] /\ snap[w] \in [Note -> Nat]
        BY <1>2 DEF Moves, CoreTypes
      <4>2. \A n \in Note : snap'[w][n] = snap[w][n]
        BY <1>2, <2>2 DEF Moves
      <4> QED
        BY <4>1, <4>2
    <3> QED
      BY <1>2, <2>2, <3>1 DEF Moves, WorkerMove
  <2> QED
    BY <2>1, <2>2
<1>3. rows \in [Note -> Row]
  BY DEF CoreTypes
<1>4. ASSUME NEW v \in Sender, StartBatch(v) PROVE WorkerMove(w)
  <2>1. CASE ClaimRead(v) = {}
    BY <1>4, <2>1, <1>2, <1>3, EndTickMoves DEF StartBatch
  <2>2. CASE ClaimRead(v) # {}
    <3>1. /\ snap' = [snap EXCEPT ![v] =
                        [n \in Note |-> IF n \in ClaimRead(v) THEN rows[n].attempts ELSE 0]]
          /\ pc' = [pc EXCEPT ![v] = "send"] /\ cur' = cur
      BY <1>4, <2>2 DEF StartBatch
    <3> QED
      BY <3>1 DEF WorkerMove, CoreTypes
  <2> QED
    BY <2>1, <2>2
<1>5. ASSUME NEW v \in Sender, ClaimStamp(v) PROVE WorkerMove(w)
  BY <1>5 DEF ClaimStamp, WorkerMove, CoreTypes
<1>6. ASSUME NEW v \in Sender, NEW n \in Note, SendAccepted(v, n) PROVE WorkerMove(w)
  <2>1. mails'[n] >= 1
    BY <1>6, DeliverMails DEF SendAccepted, LedgerTypes
  <2> QED
    BY <1>6, <2>1 DEF SendAccepted, WorkerMove, CoreTypes
<1>7. ASSUME NEW v \in Sender, NEW n \in Note, SendRefused(v, n) PROVE WorkerMove(w)
  BY <1>7 DEF SendRefused, WorkerMove, CoreTypes
<1>8. ASSUME NEW v \in Sender, NEW n \in Note, SendTransient(v, n) PROVE WorkerMove(w)
  <2>1. /\ failures' = [failures EXCEPT ![n] = @ + 1]
        /\ pc' = [pc EXCEPT ![v] = "retry"] /\ cur' = [cur EXCEPT ![v] = n] /\ snap' = snap
    BY <1>8 DEF SendTransient
  <2> QED
    BY <2>1 DEF WorkerMove, CoreTypes, LedgerTypes
<1>9. ASSUME NEW v \in Sender, MarkSent(v) \/ MarkFailed(v) \/ ScheduleRetry(v)
      PROVE  WorkerMove(w)
  <2>1. PICK row \in Row : RewriteStep(v, row)
    BY <1>9, RewriteSteps
  <2>2. Moves(v, Rewritten(v, row), batch[v] \ {cur[v]})
    BY <2>1, RewriteMoves DEF RewriteStep
  <2> QED
    BY <2>2, <1>2
<1>10. ASSUME NEW v \in Sender, MarkSentFails(v) PROVE WorkerMove(w)
  <2>1. /\ failures' = [failures EXCEPT ![cur[v]] = @ + 1]
        /\ pc' = [pc EXCEPT ![v] = "retry"] /\ snap' = snap /\ cur' = cur
    BY <1>10 DEF MarkSentFails
  <2>2. cur[v] \in Note
    BY <1>10, AtHand DEF MarkSentFails
  <2> QED
    BY <2>1, <2>2 DEF WorkerMove, CoreTypes, LedgerTypes
<1>11. ASSUME NEW v \in Sender, TickFails(v) \/ Crash(v) PROVE WorkerMove(w)
  BY <1>11, <1>2, <1>3, EndTickMoves DEF TickFails, Crash
<1>12. ASSUME \/ \E v \in Sender : ClaimFails(v) \/ PauseOver(v)
              \/ \E n \in Note : Enqueue(n) \/ LeaseRunsOut(n) \/ BackoffOver(n) \/ Sweep(n)
              \/ RedriveFailedNotifications
              \/ UNCHANGED vars
       PROVE  WorkerMove(w)
  BY <1>12, <1>1 DEF ClaimFails, PauseOver, Enqueue, LeaseRunsOut, BackoffOver, Sweep,
     RedriveFailedNotifications, vars, worker
<1> QED
  BY <1>4, <1>5, <1>6, <1>7, <1>8, <1>9, <1>10, <1>11, <1>12 DEF Next, SenderStep, SenderFails

-----------------------------------------------------------------------------
(* Mails, refusals and attempts.                                           *)

\* What is marked was mailed, what is given up was refused or tried.
LEMMA DeliveryStep ==
    ASSUME TypeOK, [Next]_vars, SentWasAccepted, MarksWereAnswered
    PROVE  SentWasAccepted' /\ MarksWereAnswered'
<1>p. CoreTypes /\ LedgerTypes
  BY TypeParts
<1>t. TypeOK'
  BY TypeStep
<1>g. /\ \A n \in Note : mails'[n] >= mails[n]
      /\ refused \subseteq refused'
  BY TypeStep
<1>1. ASSUME NEW n \in Note, rows'[n].status = "SENT" PROVE mails'[n] >= 1
  <2>1. rows[n].status = "SENT" \/ \E w \in Sender : AtWork(w, "mark", n)
    BY <1>1, <1>p, EveryRowMoves
       DEF RowMove, SameProgress, Enqueued, PutBack, Swept, MarkedBy, RefusedBy, RetriedBy
  <2>2. mails[n] >= 1
    BY <2>1 DEF SentWasAccepted, MarksWereAnswered, AtWork
  <2> QED
    BY <2>2, <1>t, <1>g DEF TypeOK
<1>2. ASSUME NEW w \in Sender, pc'[w] = "mark" PROVE mails'[cur'[w]] >= 1
  <2>1. cur'[w] \in Note
    BY <1>2, <1>t DEF TypeOK
  <2>2. CASE pc[w] = "mark" /\ cur'[w] = cur[w]
    BY <2>1, <2>2, <1>t, <1>g DEF MarksWereAnswered, TypeOK
  <2> QED
    BY <1>2, <1>p, <2>2, EveryWorkerMoves DEF WorkerMove
<1>3. ASSUME NEW w \in Sender, pc'[w] = "fail" PROVE cur'[w] \in refused'
  BY <1>3, <1>p, <1>g, EveryWorkerMoves DEF WorkerMove, MarksWereAnswered
<1> QED
  BY <1>1, <1>2, <1>3 DEF SentWasAccepted, MarksWereAnswered

LEMMA AttemptStep ==
    ASSUME TypeOK, [Next]_vars, GivenUpRightly, MarksWereAnswered, AttemptsWereMade
    PROVE  GivenUpRightly' /\ AttemptsWereMade'
<1>p. CoreTypes /\ LedgerTypes
  BY TypeParts
<1>t. TypeOK'
  BY TypeStep
<1>n. ASSUME NEW n \in Note
      PROVE  /\ failures[n] \in Nat /\ failures'[n] \in Nat /\ failures'[n] >= failures[n]
             /\ n \in refused => n \in refused'
             /\ rows[n].attempts \in Nat /\ (n \in refused \/ rows[n].attempts <= failures[n])
             /\ rows[n].status = "FAILED" => n \in refused \/ failures[n] >= MaxAttempts
  BY <1>t, TypeStep DEF TypeOK, Row, AttemptsWereMade, Counted, GivenUpRightly
<1>s. ASSUME NEW w \in Sender, NEW n \in Note
      PROVE  snap[w][n] \in Nat /\ (n \in refused \/ snap[w][n] <= failures[n])
  BY DEF TypeOK, AttemptsWereMade, Counted
<1>1. ASSUME NEW n \in Note
      PROVE  /\ Counted(n, rows[n].attempts)'
             /\ rows'[n].status = "FAILED" => n \in refused' \/ failures'[n] >= MaxAttempts
  <2>1. CASE SameProgress(n) \/ Enqueued(n) \/ PutBack(n) \/ Swept(n)
    BY <2>1, <1>n, SenderLimitAssumption DEF SameProgress, Enqueued, PutBack, Swept, Counted
  <2>2. ASSUME NEW w \in Sender, MarkedBy(w, n)
        PROVE  /\ Counted(n, rows[n].attempts)'
               /\ rows'[n].status = "FAILED" => n \in refused' \/ failures'[n] >= MaxAttempts
    BY <2>2, <1>n DEF MarkedBy, Counted
  <2>3. ASSUME NEW w \in Sender, RefusedBy(w, n)
        PROVE  n \in refused'
    BY <2>3, <1>n DEF RefusedBy, AtWork, MarksWereAnswered
  <2>4. ASSUME NEW w \in Sender, RetriedBy(w, n)
        PROVE  /\ Counted(n, rows[n].attempts)'
               /\ rows'[n].status = "FAILED" => n \in refused' \/ failures'[n] >= MaxAttempts
    <3>1. n \in refused \/ snap[w][n] + 1 <= failures[n]
      BY <2>4 DEF RetriedBy, AtWork, AttemptsWereMade, Counted
    <3>2. CASE n \in refused
      BY <3>2, <1>n DEF Counted
    <3>3. CASE snap[w][n] + 1 <= failures[n]
      BY <2>4, <3>3, <1>n, <1>s, SenderLimitAssumption DEF RetriedBy, Counted
    <3> QED
      BY <3>1, <3>2, <3>3
  <2> QED
    BY <1>p, <2>1, <2>2, <2>3, <2>4, EveryRowMoves DEF RowMove, Counted
<1>2. ASSUME NEW w \in Sender, NEW n \in Note PROVE Counted(n, snap[w][n])'
  <2>1. snap'[w][n] \in {0, snap[w][n], rows[n].attempts}
    BY <1>p, EveryWorkerMoves DEF WorkerMove
  <2> QED
    BY <2>1, <1>n, <1>s DEF Counted
<1>3. ASSUME NEW w \in Sender, pc'[w] = "retry" PROVE Counted(cur[w], snap[w][cur[w]] + 1)'
  <2>1. PICK n \in Note : n = cur'[w]
    BY <1>3, <1>t DEF TypeOK
  <2>2. CASE pc[w] = "retry" /\ cur'[w] = cur[w] /\ snap'[w] = snap[w]
    BY <2>1, <2>2, <1>n, <1>s DEF AttemptsWereMade, Counted
  <2>3. CASE failures'[n] = failures[n] + 1 /\ snap'[w] = snap[w]
    BY <2>1, <2>3, <1>n, <1>s DEF Counted
  <2> QED
    BY <1>3, <1>p, <2>1, <2>2, <2>3, EveryWorkerMoves DEF WorkerMove
<1> QED
  BY <1>1, <1>2, <1>3 DEF GivenUpRightly, AttemptsWereMade

-----------------------------------------------------------------------------
(* Claims and leases.                                                      *)

Exists(w, n) ==
    /\ n \in batch[w] => rows[n].status # "ABSENT"
    /\ rows[n].lockedBy = w => pc[w] # "idle"

Leased(w, n) ==
    Holds(w, n) /\ n \notin upset =>
        rows[n].lockedBy = w /\ rows[n].lease = "held" /\ rows[n].status = "PENDING"

\* What the claims are about, of one process and one row.
LeaseInv(w, n) == Exists(w, n) /\ Leased(w, n)

LEMMA LeaseInvMeans ==
    ClaimsExist /\ HolderIsLeased <=> \A w \in Sender, n \in Note : LeaseInv(w, n)
  BY DEF ClaimsExist, HolderIsLeased, LeaseInv, Exists, Leased

\* Two processes hold a row only if one was overtaken.
LEMMA OneHolderHolds == HolderIsLeased => OneHolder
  BY DEF HolderIsLeased, OneHolder

\* w finishes with a row or a tick, and the table it leaves differs from the rows in
\* none but a row that it held.
LEMMA MovesLease ==
    ASSUME CoreTypes, \A v \in Sender, n \in Note : LeaseInv(v, n), upset' = upset,
           NEW w \in Sender, NEW table \in [Note -> Row], NEW left \in SUBSET batch[w],
           Moves(w, table, left),
           \A n \in Note : \/ table[n] = rows[n]
                           \/ /\ n \in batch[w] /\ n \notin left
                              /\ table[n].lockedBy = None
                              /\ table[n].status # "ABSENT"
    PROVE  \A v \in Sender, n \in Note : LeaseInv(v, n)'
<1> SUFFICES ASSUME NEW v \in Sender, NEW n \in Note PROVE LeaseInv(v, n)'
  OBVIOUS
<1>a. rows[n] \in Row /\ table[n] \in Row /\ rows'[n] \in Row
  BY DEF Moves, CoreTypes
<1>b. LeftAs(w, table[n], rows'[n])
  BY DEF Moves
<1>c. /\ rows'[n].status = table[n].status /\ rows'[n].lease = table[n].lease
      /\ (rows'[n].lockedBy = table[n].lockedBy
            \/ (table[n].lockedBy = w /\ rows'[n].lockedBy = Abandoned))
  BY <1>a, <1>b, LeftKeeps
<1>d. LeaseInv(v, n) /\ LeaseInv(w, n)
  OBVIOUS
<1>e. Abandoned \notin Sender /\ None \notin Sender
  BY SenderTokenAssumption
<1>1. Exists(v, n)'
  <2>1. ASSUME n \in batch'[v] PROVE rows'[n].status # "ABSENT"
    <3>1. n \in batch[v]
      BY <2>1 DEF Moves
    <3> QED
      BY <3>1, <1>c, <1>d DEF LeaseInv, Exists
  <2>2. ASSUME rows'[n].lockedBy = v PROVE pc'[v] # "idle"
    <3>1. CASE v = w
      BY <2>2, <3>1 DEF Moves
    <3>2. CASE v # w
      <4>1. table[n].lockedBy = v
        BY <2>2, <1>c, <1>e
      <4>2. rows[n].lockedBy = v
        BY <4>1, <1>e
      <4> QED
        BY <3>2, <4>2, <1>d DEF LeaseInv, Exists, Moves
    <3> QED
      BY <3>1, <3>2
  <2> QED
    BY <2>1, <2>2 DEF Exists
<1>2. Leased(v, n)'
  <2> SUFFICES ASSUME Holds(v, n)', n \notin upset
               PROVE  rows'[n].lockedBy = v /\ rows'[n].lease = "held"
                      /\ rows'[n].status = "PENDING"
    BY DEF Leased
  <2>1. CASE v # w
    <3>1. Holds(v, n)
      <4>1. CASE n \in batch'[v]
        BY <2>1, <4>1 DEF Moves, Holds
      <4>2. CASE pc'[v] = "read" /\ rows'[n].lockedBy = v
        <5>1. table[n].lockedBy = v
          BY <4>2, <1>c, <1>e
        <5>2. rows[n].lockedBy = v
          BY <5>1, <1>e
        <5> QED
          BY <2>1, <4>2, <5>2 DEF Moves, Holds
      <4> QED
        BY <4>1, <4>2 DEF Holds
    <3>2. rows[n].lockedBy = v /\ rows[n].lease = "held" /\ rows[n].status = "PENDING"
      BY <3>1, <1>d DEF LeaseInv, Leased
    <3>3. table[n] = rows[n]
      <4>1. CASE n \in batch[w]
        BY <4>1, <3>2, <2>1, <1>d DEF LeaseInv, Leased, Holds
      <4>2. CASE n \notin batch[w]
        BY <4>2
      <4> QED
        BY <4>1, <4>2
    <3> QED
      BY <2>1, <3>2, <3>3, <1>c
  <2>2. CASE v = w
    <3>1. n \in left /\ pc'[w] # "idle"
      <4>1. /\ pc'[w] \in {"idle", "send"} /\ batch'[w] = left
            /\ pc'[w] = "idle" => left = {}
        BY DEF Moves
      <4> QED
        BY <2>2, <4>1 DEF Holds
    <3>2. table[n] = rows[n] /\ n \in batch[w]
      BY <3>1
    <3>3. rows'[n] = table[n]
      BY <3>1 DEF Moves
    <3> QED
      BY <2>2, <3>2, <3>3, <1>d DEF LeaseInv, Leased, Holds
  <2> QED
    BY <2>1, <2>2
<1> QED
  BY <1>1, <1>2 DEF LeaseInv

\* A step that leaves the processes alone, and of each row the token, the lease and
\* whether it waits to be sent, unless nobody looks for its token or its holder is told.
LEMMA RowsLease ==
    ASSUME \A v \in Sender, n \in Note : LeaseInv(v, n), upset \subseteq upset',
           UNCHANGED <<pc, batch>>,
           \A n \in Note :
              /\ rows[n].status # "ABSENT" => rows'[n].status # "ABSENT"
              /\ rows'[n].lockedBy \in Sender => rows'[n].lockedBy = rows[n].lockedBy
              /\ \/ n \in upset'
                 \/ /\ rows'[n].lockedBy = rows[n].lockedBy /\ rows'[n].lease = rows[n].lease
                    /\ rows'[n].status = rows[n].status
                 \/ rows[n].status # "PENDING"
                 \/ rows[n].lease # "held"
                 \/ rows[n].lockedBy \notin Sender
    PROVE  \A v \in Sender, n \in Note : LeaseInv(v, n)'
<1> SUFFICES ASSUME NEW v \in Sender, NEW n \in Note PROVE LeaseInv(v, n)'
  OBVIOUS
<1>1. LeaseInv(v, n)
  OBVIOUS
<1>2. Exists(v, n)'
  BY <1>1 DEF LeaseInv, Exists
<1>3. Holds(v, n)' => Holds(v, n)
  BY DEF Holds
<1>4. Leased(v, n)'
  BY <1>1, <1>3 DEF LeaseInv, Leased
<1> QED
  BY <1>2, <1>4 DEF LeaseInv

\* Every step keeps the claims and leases in order.
LEMMA LeaseStep ==
    ASSUME TypeOK, [Next]_vars, ClaimsExist, HolderIsLeased
    PROVE  ClaimsExist' /\ HolderIsLeased'
<1>t. CoreTypes
  BY TypeParts
<1>i. \A v \in Sender, n \in Note : LeaseInv(v, n)
  BY LeaseInvMeans
<1>a. rows \in [Note -> Row]
  BY <1>t DEF CoreTypes
<1>u. upset \subseteq upset'
  BY TypeStep
<1> DEFINE Kept == \A v \in Sender, n \in Note : LeaseInv(v, n)'
<1>1. ASSUME NEW w \in Sender, NEW token \in {w, Abandoned}, NEW S \in Claims,
             rows' = Stamped(S, token),
             pc[w] = "idle", pc' = [pc EXCEPT ![w] = IF token = w THEN "read" ELSE "idle"],
             batch' = batch, upset' = upset
      PROVE  Kept
  <2> SUFFICES ASSUME NEW v \in Sender, NEW n \in Note PROVE LeaseInv(v, n)'
    OBVIOUS
  <2>1. n \in S => Claimable(rows[n])
    BY DEF Claims
  <2>2. LeaseInv(v, n)
    BY <1>i
  <2>3. CASE n \notin S
    <3>0. rows'[n] = rows[n]
      BY <1>1, <2>3 DEF Stamped
    <3>1. Exists(v, n)'
      BY <1>1, <2>2, <3>0, <1>t DEF LeaseInv, Exists, CoreTypes
    <3>2. Holds(v, n)' => Holds(v, n)
      BY <1>1, <2>2, <3>0, <1>t DEF LeaseInv, Exists, Holds, CoreTypes
    <3> QED
      BY <1>1, <2>2, <3>0, <3>1, <3>2 DEF LeaseInv, Leased
  <2>4. CASE n \in S
    <3>0. rows'[n] = [rows[n] EXCEPT !.lockedBy = token, !.lease = "held"]
      BY <1>1, <2>4 DEF Stamped
    <3>1. /\ rows'[n].lockedBy = token /\ rows'[n].lease = "held" /\ rows'[n].status = "PENDING"
          /\ rows[n].lease # "held"
      BY <2>1, <2>4, <3>0, <1>a DEF Row, Claimable
    <3>2. Exists(v, n)'
      BY <1>1, <3>1, <1>t, SenderTokenAssumption DEF Exists, CoreTypes
    <3>3. ~Holds(v, n) \/ n \in upset
      BY <2>2, <3>1 DEF LeaseInv, Leased
    <3>4. Leased(v, n)'
      <4> SUFFICES ASSUME Holds(v, n)', n \notin upset PROVE rows'[n].lockedBy = v
        BY <1>1, <3>1 DEF Leased
      <4>1. n \notin batch'[v]
        BY <1>1, <3>3 DEF Holds
      <4> QED
        BY <4>1 DEF Holds
    <3> QED
      BY <3>2, <3>4 DEF LeaseInv
  <2> QED
    BY <2>3, <2>4
<1>2. ASSUME NEW w \in Sender, ClaimStamp(w) PROVE Kept
  <2>1. PICK S \in Claims : rows' = Stamped(S, w)
    BY <1>2 DEF ClaimStamp
  <2> QED
    BY <1>2, <1>1, <2>1 DEF ClaimStamp, history
<1>3. ASSUME NEW w \in Sender, ClaimFails(w) PROVE Kept
  <2>1. CASE rows' = rows
    BY <1>3, <2>1, <1>i DEF ClaimFails, worker, history, LeaseInv, Exists, Leased, Holds
  <2>2. CASE rows' \in {Stamped(S, Abandoned) : S \in Claims}
    <3>1. PICK S \in Claims : rows' = Stamped(S, Abandoned)
      BY <2>2
    <3>2. pc[w] = "idle" /\ pc' = [pc EXCEPT ![w] = "idle"] /\ batch' = batch /\ upset' = upset
      BY <1>3, <1>t DEF ClaimFails, worker, history, CoreTypes
    <3> QED
      BY <3>1, <3>2, <1>1, SenderTokenAssumption
  <2>3. rows' \in {rows} \cup {Stamped(S, Abandoned) : S \in Claims}
    BY <1>3 DEF ClaimFails
  <2> QED
    BY <2>1, <2>2, <2>3
<1>4. ASSUME NEW w \in Sender, EndTick(w, rows), upset' = upset PROVE Kept
  BY <1>4, <1>i, <1>a, <1>t, EndTickMoves, MovesLease
<1>5. ASSUME NEW w \in Sender, StartBatch(w) PROVE Kept
  <2>1. CASE ClaimRead(w) = {}
    BY <1>5, <2>1, <1>4 DEF StartBatch, history
  <2>2. CASE ClaimRead(w) # {}
    <3> SUFFICES ASSUME NEW v \in Sender, NEW n \in Note PROVE LeaseInv(v, n)'
      OBVIOUS
    <3>1. /\ pc[w] = "read" /\ rows' = rows /\ upset' = upset
          /\ batch' = [batch EXCEPT ![w] = ClaimRead(w)]
          /\ pc' = [pc EXCEPT ![w] = "send"]
      BY <1>5, <2>2 DEF StartBatch, history
    <3>2. LeaseInv(v, n)
      BY <1>i
    <3>3. Exists(v, n)'
      BY <3>1, <3>2, <1>t DEF LeaseInv, Exists, ClaimRead, CoreTypes
    <3>4. Holds(v, n)' => Holds(v, n)
      BY <3>1, <1>t DEF Holds, ClaimRead, CoreTypes
    <3> QED
      BY <3>1, <3>2, <3>3, <3>4 DEF LeaseInv, Leased
  <2> QED
    BY <2>1, <2>2
<1>6. ASSUME NEW w \in Sender, NEW m \in Note,
             SendAccepted(w, m) \/ SendRefused(w, m) \/ SendTransient(w, m)
      PROVE  Kept
  <2> SUFFICES ASSUME NEW v \in Sender, NEW n \in Note PROVE LeaseInv(v, n)'
    OBVIOUS
  <2>1. /\ rows' = rows /\ batch' = batch /\ upset' = upset
        /\ pc[w] = "send" /\ \E label \in {"mark", "fail", "retry"} : pc' = [pc EXCEPT ![w] = label]
    BY <1>6 DEF SendAccepted, SendRefused, SendTransient, history
  <2>2. LeaseInv(v, n)
    BY <1>i
  <2>3. Exists(v, n)'
    BY <2>1, <2>2, <1>t DEF LeaseInv, Exists, CoreTypes
  <2>4. Holds(v, n)' => Holds(v, n)
    BY <2>1, <1>t DEF Holds, CoreTypes
  <2> QED
    BY <2>1, <2>2, <2>3, <2>4 DEF LeaseInv, Leased
<1>7. ASSUME NEW w \in Sender, MarkSent(w) \/ MarkFailed(w) \/ ScheduleRetry(w)
      PROVE  Kept
  <2>1. PICK row \in Row : RewriteStep(w, row)
    BY <1>7, <1>t, RewriteSteps
  <2>2. pc[w] \in {"mark", "fail", "retry"} /\ upset' = upset
    BY <2>1 DEF RewriteStep, history
  <2>3. PICK table \in [Note -> Row] : table = Rewritten(w, row)
    BY <2>1, <2>2, <1>t, RewriteMoves DEF RewriteStep
  <2>4. Moves(w, table, batch[w] \ {cur[w]})
    BY <2>1, <2>2, <2>3, <1>t, RewriteMoves DEF RewriteStep
  <2>5. /\ cur[w] \in batch[w] /\ cur[w] \in Note /\ rows[cur[w]] \in Row
        /\ snap[w][cur[w]] + 1 \in Nat
    BY <2>2, <1>t, AtHand
  <2>6. PICK k \in Nat : k = snap[w][cur[w]] + 1
    BY <2>5
  <2>7. rows[cur[w]].status # "ABSENT"
    BY <1>i, <2>5 DEF LeaseInv, Exists
  <2>8. row.lockedBy = None /\ row.status # "ABSENT"
    <3>1. CASE row = Sent(rows[cur[w]])
      BY <3>1, <2>5, WrittenRows
    <3>2. CASE row = GivenUp(rows[cur[w]], k)
      BY <3>2, <2>5, GivenUpRows
    <3>3. CASE row = Retried(rows[cur[w]], k)
      BY <3>3, <2>5, <2>7, RetriedRows
    <3> QED
      BY <2>1, <2>6, <3>1, <3>2, <3>3 DEF RewriteStep
  <2>9. \A n \in Note : \/ table[n] = rows[n]
                        \/ /\ n \in batch[w] /\ n \notin batch[w] \ {cur[w]}
                           /\ table[n].lockedBy = None
                           /\ table[n].status # "ABSENT"
    BY <2>3, <2>5, <2>8, <1>a DEF Rewritten
  <2> QED
    BY <1>t, <1>i, <2>2, <2>4, <2>9, MovesLease
<1>8. ASSUME NEW w \in Sender, MarkSentFails(w) PROVE Kept
  <2> SUFFICES ASSUME NEW v \in Sender, NEW n \in Note PROVE LeaseInv(v, n)'
    OBVIOUS
  <2>1. /\ batch' = batch /\ pc[w] = "mark" /\ pc' = [pc EXCEPT ![w] = "retry"]
        /\ cur[w] \in Note
    BY <1>8, <1>t, AtHand DEF MarkSentFails
  <2>2. LeaseInv(v, n)
    BY <1>i
  <2>3. \/ rows'[n] = rows[n]
        \/ rows'[n] = Sent(rows[n]) /\ n \in upset'
    BY <1>8, <2>1, <1>a DEF MarkSentFails
  <2>4. CASE rows'[n] = rows[n]
    <3>1. Exists(v, n)'
      BY <2>1, <2>2, <2>4, <1>t DEF LeaseInv, Exists, CoreTypes
    <3>2. Holds(v, n)' => Holds(v, n)
      BY <2>1, <2>4, <1>t DEF Holds, CoreTypes
    <3> QED
      BY <2>2, <2>4, <3>1, <3>2, <1>u DEF LeaseInv, Leased
  <2>5. CASE rows'[n] = Sent(rows[n]) /\ n \in upset'
    <3>1. rows'[n].lockedBy = None /\ rows'[n].status = "SENT"
      BY <2>5, <1>a, WrittenRows
    <3> QED
      BY <2>5, <3>1, SenderTokenAssumption DEF LeaseInv, Exists, Leased
  <2> QED
    BY <2>3, <2>4, <2>5
<1>9. ASSUME NEW w \in Sender, TickFails(w) \/ Crash(w) PROVE Kept
  BY <1>9, <1>4 DEF TickFails, Crash, history
<1>10. ASSUME NEW m \in Note, Enqueue(m) \/ LeaseRunsOut(m) \/ BackoffOver(m) \/ Sweep(m)
       PROVE  Kept
  <2>1. UNCHANGED <<pc, batch>>
    BY <1>10 DEF Enqueue, LeaseRunsOut, BackoffOver, Sweep, worker
  <2>2. ASSUME NEW n \in Note
        PROVE /\ rows[n].status # "ABSENT" => rows'[n].status # "ABSENT"
              /\ rows'[n].lockedBy \in Sender => rows'[n].lockedBy = rows[n].lockedBy
              /\ \/ n \in upset'
                 \/ /\ rows'[n].lockedBy = rows[n].lockedBy /\ rows'[n].lease = rows[n].lease
                    /\ rows'[n].status = rows[n].status
                 \/ rows[n].status # "PENDING"
                 \/ rows[n].lease # "held"
                 \/ rows[n].lockedBy \notin Sender
    <3>1. CASE n # m
      <4>1. rows'[n] = rows[n]
        BY <1>10, <3>1, <1>a DEF Enqueue, LeaseRunsOut, BackoffOver, Sweep
      <4> QED
        BY <4>1
    <3>2. CASE n = m /\ Enqueue(n)
      BY <3>2, <1>a, SenderTokenAssumption DEF Enqueue, NoRow
    <3>3. CASE n = m /\ BackoffOver(n)
      BY <3>3, <1>a DEF BackoffOver, Row
    <3>4. CASE n = m /\ Sweep(n)
      BY <3>4, <1>a, SenderTokenAssumption DEF Sweep, NoRow
    <3>5. CASE n = m /\ LeaseRunsOut(n)
      BY <3>5, <1>a DEF LeaseRunsOut, Row
    <3> QED
      BY <1>10, <3>1, <3>2, <3>3, <3>4, <3>5
  <2> QED
    BY <1>i, <1>u, <2>1, <2>2, RowsLease
<1>11. ASSUME RedriveFailedNotifications PROVE Kept
  <2>1. PICK picked \in SUBSET FailedRows :
          rows' = [m \in Note |-> IF m \in picked THEN Redriven(rows[m]) ELSE rows[m]]
    BY <1>11 DEF RedriveFailedNotifications
  <2>2. ASSUME NEW n \in Note
        PROVE /\ rows[n].status # "ABSENT" => rows'[n].status # "ABSENT"
              /\ rows'[n].lockedBy \in Sender => rows'[n].lockedBy = rows[n].lockedBy
              /\ \/ n \in upset'
                 \/ /\ rows'[n].lockedBy = rows[n].lockedBy /\ rows'[n].lease = rows[n].lease
                    /\ rows'[n].status = rows[n].status
                 \/ rows[n].status # "PENDING"
                 \/ rows[n].lease # "held"
                 \/ rows[n].lockedBy \notin Sender
    <3>1. CASE n \in picked
      BY <2>1, <3>1, <1>a, WrittenRows, SenderTokenAssumption DEF FailedRows
    <3>2. CASE n \notin picked
      BY <2>1, <3>2
    <3> QED
      BY <3>1, <3>2
  <2>3. UNCHANGED <<pc, batch>>
    BY <1>11 DEF RedriveFailedNotifications, worker
  <2> QED
    BY <1>i, <1>u, <2>2, <2>3, RowsLease
<1>12. ASSUME (\E w \in Sender : PauseOver(w)) \/ UNCHANGED vars PROVE Kept
  BY <1>12, <1>i DEF PauseOver, vars, worker, history, LeaseInv, Exists, Leased, Holds
<1>13. Kept
  BY <1>2, <1>3, <1>5, <1>6, <1>7, <1>8, <1>9, <1>10, <1>11, <1>12
     DEF Next, SenderStep, SenderFails
<1> QED
  BY <1>13 DEF ClaimsExist, HolderIsLeased, LeaseInv, Exists, Leased

-----------------------------------------------------------------------------
(* The inductive invariant and the safety properties.                      *)

LEMMA InvInit == Init => IInv
<1> SUFFICES ASSUME Init PROVE IInv
  OBVIOUS
<1>1. TypeOK
  BY TypeInit
<1>2. SentWasAccepted /\ GivenUpRightly /\ AttemptsWereMade
  BY DEF Init, SentWasAccepted, GivenUpRightly, AttemptsWereMade, Counted, NoRow
<1>3. MarksWereAnswered
  BY DEF Init, MarksWereAnswered
<1>4. ClaimsExist /\ HolderIsLeased
  BY SenderTokenAssumption DEF Init, ClaimsExist, HolderIsLeased, Holds, NoRow
<1> QED
  BY <1>1, <1>2, <1>3, <1>4 DEF IInv

LEMMA InvStep == IInv /\ [Next]_vars => IInv'
  BY TypeStep, DeliveryStep, AttemptStep, LeaseStep DEF IInv

THEOREM Invariance == Spec => []IInv
<1>1. Init => IInv
  BY InvInit
<1>2. IInv /\ [Next]_vars => IInv'
  BY InvStep
<1> QED
  BY <1>1, <1>2, PTL DEF Spec

\* A row is marked SENT only after the provider accepted its mail, whatever crashed,
\* was repeated or was redriven in between.
THEOREM SentMeansMailed == Spec => []SentWasAccepted
<1>1. IInv => SentWasAccepted
  BY DEF IInv
<1> QED
  BY <1>1, Invariance, PTL

\* A note is given up only when it was refused for good or maxAttempts sends failed,
\* even when several processes write its count.
THEOREM GivenUpForCause == Spec => []GivenUpRightly
<1>1. IInv => GivenUpRightly
  BY DEF IInv
<1> QED
  BY <1>1, Invariance, PTL

\* Two processes hold one row only if its lease ran out under one of them, or a written
\* mark was taken for failed.
THEOREM HoldersAreAlone == Spec => []OneHolder
<1>1. IInv => OneHolder
  BY OneHolderHolds DEF IInv
<1> QED
  BY <1>1, Invariance, PTL

\* A sent row is left alone until retention removes it, unless two processes held the
\* row or its mark was lost.
THEOREM SentStays == Spec => SentIsFinal
<1>1. ASSUME IInv, [Next]_vars, NEW n \in Note, rows[n].status = "SENT"
      PROVE  rows'[n].status \in {"SENT", "DELETED"} \/ n \in upset
  <2>1. ASSUME NEW w \in Sender, RetriedBy(w, n) \/ RefusedBy(w, n) PROVE n \in upset
    <3>1. Holds(w, n)
      BY <2>1 DEF RetriedBy, RefusedBy, AtWork, Holds
    <3> QED
      BY <1>1, <3>1 DEF IInv, HolderIsLeased
  <2>2. CoreTypes
    BY <1>1, TypeParts DEF IInv
  <2> QED
    BY <1>1, <2>1, <2>2, EveryRowMoves
       DEF RowMove, SameProgress, Enqueued, PutBack, Swept, MarkedBy
<1>2. IInv /\ [Next]_vars =>
        [\A n \in Note :
            rows[n].status = "SENT" => rows'[n].status \in {"SENT", "DELETED"} \/ n \in upset]_vars
  BY <1>1
<1> QED
  BY <1>2, Invariance, PTL DEF Spec, SentIsFinal

-----------------------------------------------------------------------------
(* The open breaker.                                                       *)

\* The process's token comes onto no row.
TokenKept(v) == \A n \in Note : rows'[n].lockedBy = v => rows[n].lockedBy = v

\* A table that leaves every row, or unlocks it, and then abandons w's token.
LEMMA MovesKeepTokens ==
    ASSUME CoreTypes, NEW w \in Sender, NEW v \in Sender, NEW table \in [Note -> Row],
           NEW left, Moves(w, table, left),
           \A n \in Note : table[n] = rows[n] \/ table[n].lockedBy = None
    PROVE  TokenKept(v)
<1> SUFFICES ASSUME NEW n \in Note, rows'[n].lockedBy = v PROVE rows[n].lockedBy = v
  BY DEF TokenKept
<1>1. LeftAs(w, table[n], rows'[n]) /\ table[n] \in Row
  BY DEF Moves
<1>2. table[n].lockedBy = v
  BY <1>1, LeftKeeps, SenderTokenAssumption
<1> QED
  BY <1>2, SenderTokenAssumption

\* Only a claim of its own puts it there.
LEMMA TokensKept ==
    ASSUME CoreTypes, [Next]_vars, NEW v \in Sender, ~ClaimStamp(v)
    PROVE  TokenKept(v)
<1>a. rows \in [Note -> Row]
  BY DEF CoreTypes
<1>e. None # v /\ Abandoned # v
  BY SenderTokenAssumption
<1>0. ASSUME rows' = rows PROVE TokenKept(v)
  BY <1>0 DEF TokenKept
<1>1. ASSUME NEW S \in Claims, NEW token \in Sender \cup {Abandoned}, token # v,
             rows' = Stamped(S, token)
      PROVE  TokenKept(v)
  <2>1. ASSUME NEW n \in Note, rows'[n].lockedBy = v PROVE rows[n].lockedBy = v
    <3>1. \/ rows'[n] = rows[n]
          \/ rows'[n] = [rows[n] EXCEPT !.lockedBy = token, !.lease = "held"]
      BY <1>1 DEF Stamped
    <3> QED
      BY <1>1, <2>1, <3>1, <1>a DEF Row
  <2> QED
    BY <2>1 DEF TokenKept
<1>2. ASSUME NEW w \in Sender, ClaimStamp(w) PROVE TokenKept(v)
  <2>1. w # v
    BY <1>2
  <2>2. PICK S \in Claims : rows' = Stamped(S, w)
    BY <1>2 DEF ClaimStamp
  <2> QED
    BY <1>1, <2>1, <2>2
<1>3. ASSUME NEW w \in Sender, ClaimFails(w) PROVE TokenKept(v)
  <2>1. rows' \in {rows} \cup {Stamped(S, Abandoned) : S \in Claims}
    BY <1>3 DEF ClaimFails
  <2>2. rows' = rows \/ \E S \in Claims : rows' = Stamped(S, Abandoned)
    BY <2>1
  <2> QED
    BY <1>0, <1>1, <1>e, <2>2
<1>4. ASSUME NEW w \in Sender, EndTick(w, rows) PROVE TokenKept(v)
  BY <1>4, <1>a, EndTickMoves, MovesKeepTokens
<1>5. ASSUME NEW w \in Sender, StartBatch(w) \/ TickFails(w) \/ Crash(w) PROVE TokenKept(v)
  BY <1>0, <1>4, <1>5 DEF StartBatch, TickFails, Crash
<1>6. ASSUME NEW w \in Sender, NEW n \in Note,
             SendAccepted(w, n) \/ SendRefused(w, n) \/ SendTransient(w, n)
      PROVE  TokenKept(v)
  BY <1>0, <1>6 DEF SendAccepted, SendRefused, SendTransient
<1>7. ASSUME NEW w \in Sender, MarkSent(w) \/ MarkFailed(w) \/ ScheduleRetry(w)
      PROVE  TokenKept(v)
  <2>1. PICK row \in Row : RewriteStep(w, row)
    BY <1>7, RewriteSteps
  <2>2. pc[w] \in {"mark", "fail", "retry"}
    BY <2>1 DEF RewriteStep
  <2>3. row.lockedBy = None
    <3>1. PICK old \in Row, k \in Nat : old = rows[cur[w]] /\ k = snap[w][cur[w]] + 1
      BY <2>2, AtHand
    <3>2. row = Sent(old) \/ row = GivenUp(old, k) \/ row = Retried(old, k)
      BY <2>1, <3>1 DEF RewriteStep
    <3> QED
      BY <3>2, WrittenRows, GivenUpRows, RetriedRows
  <2>4. /\ Rewritten(w, row) \in [Note -> Row]
        /\ Moves(w, Rewritten(w, row), batch[w] \ {cur[w]})
    BY <2>1, <2>2, RewriteMoves DEF RewriteStep
  <2>5. \A n \in Note : Rewritten(w, row)[n] = rows[n] \/ Rewritten(w, row)[n].lockedBy = None
    BY <2>3, <1>a DEF Rewritten
  <2> QED
    BY <2>4, <2>5, MovesKeepTokens
<1>8. ASSUME NEW w \in Sender, MarkSentFails(w) PROVE TokenKept(v)
  <2>1. rows' = rows \/ rows' = [rows EXCEPT ![cur[w]] = Sent(@)]
    BY <1>8 DEF MarkSentFails
  <2>2. cur[w] \in Note /\ Sent(rows[cur[w]]).lockedBy = None
    BY <1>8, AtHand, WrittenRows DEF MarkSentFails
  <2> QED
    BY <2>1, <2>2, <1>a, <1>e DEF TokenKept
<1>9. ASSUME NEW m \in Note, Enqueue(m) \/ LeaseRunsOut(m) \/ BackoffOver(m) \/ Sweep(m)
      PROVE  TokenKept(v)
  BY <1>9, <1>a, <1>e DEF Enqueue, LeaseRunsOut, BackoffOver, Sweep, NoRow, Row, TokenKept
<1>10. ASSUME RedriveFailedNotifications PROVE TokenKept(v)
  <2>1. PICK picked \in SUBSET FailedRows :
          rows' = [n \in Note |-> IF n \in picked THEN Redriven(rows[n]) ELSE rows[n]]
    BY <1>10 DEF RedriveFailedNotifications
  <2> QED
    BY <2>1, <1>a, <1>e, WrittenRows DEF TokenKept
<1>11. ASSUME (\E w \in Sender : PauseOver(w)) \/ UNCHANGED vars PROVE TokenKept(v)
  BY <1>0, <1>11 DEF PauseOver, vars
<1> QED
  BY <1>2, <1>3, <1>5, <1>6, <1>7, <1>8, <1>9, <1>10, <1>11 DEF Next, SenderStep, SenderFails

\* What the step leaves of a sender's breaker and of its place in the tick.
SameBreaker(v) == breaker'[v] = breaker[v] /\ calls'[v] = calls[v]
SamePlace(v) == pc'[v] = pc[v] /\ batch'[v] = batch[v] /\ cur'[v] = cur[v]

\* What a sender itself does.
OwnStep(v) ==
    \/ ClaimStamp(v) \/ StartBatch(v) \/ ClaimFails(v)
    \/ \E n \in Note : SendAccepted(v, n) \/ SendRefused(v, n) \/ SendTransient(v, n)
    \/ MarkSent(v) \/ MarkFailed(v) \/ ScheduleRetry(v)
    \/ MarkSentFails(v) \/ TickFails(v) \/ Crash(v) \/ PauseOver(v)

\* What the others do to a sender's breaker: nothing.
LEMMA OthersBreaker ==
    ASSUME BreakerTypes, NEW w \in Sender, NEW v \in Sender, w # v, OwnStep(w)
    PROVE  SameBreaker(v)
<1>1. CASE UNCHANGED breakers \/ TripBreaker(w) \/ ResetBreaker(w) \/ Called(w)
  BY <1>1 DEF breakers, TripBreaker, ResetBreaker, Called, BreakerTypes, SameBreaker
<1>2. ASSUME NEW n \in Note, SendTransient(w, n) PROVE SameBreaker(v)
  BY <1>2 DEF SendTransient, BreakerTypes, SameBreaker
<1>3. CASE PauseOver(w)
  BY <1>3 DEF PauseOver, BreakerTypes, SameBreaker
<1> QED
  BY <1>1, <1>2, <1>3
     DEF OwnStep, ClaimStamp, StartBatch, ClaimFails, SendAccepted, SendRefused, MarkSent,
         MarkFailed, ScheduleRetry, MarkSentFails, TickFails, Crash

\* And to its place: nothing.
LEMMA OthersPlace ==
    ASSUME CoreTypes, NEW w \in Sender, NEW v \in Sender, w # v, OwnStep(w)
    PROVE  SamePlace(v)
<1>a. rows \in [Note -> Row]
  BY DEF CoreTypes
<1>1. CASE UNCHANGED worker
  BY <1>1 DEF worker, SamePlace
<1>2. ASSUME NEW table, NEW left, Moves(w, table, left) PROVE SamePlace(v)
  BY <1>2 DEF Moves, SamePlace
<1>3. CASE EndTick(w, rows)
  BY <1>a, <1>2, <1>3, EndTickMoves
<1>4. CASE MarkSent(w) \/ MarkFailed(w) \/ ScheduleRetry(w)
  <2>1. PICK row \in Row : RewriteStep(w, row)
    BY <1>4, RewriteSteps
  <2> QED
    BY <2>1, <1>2, RewriteMoves DEF RewriteStep
<1>5. CASE StartBatch(w)
  BY <1>3, <1>5 DEF StartBatch, SamePlace, CoreTypes
<1>6. CASE ClaimStamp(w) \/ MarkSentFails(w)
  BY <1>6 DEF ClaimStamp, MarkSentFails, SamePlace, CoreTypes
<1>7. ASSUME NEW n \in Note, SendAccepted(w, n) \/ SendRefused(w, n) \/ SendTransient(w, n)
      PROVE  SamePlace(v)
  BY <1>7 DEF SendAccepted, SendRefused, SendTransient, SamePlace, CoreTypes
<1> QED
  BY <1>1, <1>3, <1>4, <1>5, <1>6, <1>7 DEF OwnStep, ClaimFails, TickFails, Crash, PauseOver

\* Every other step leaves both.
LEMMA OwnOrNot ==
    ASSUME CoreTypes, BreakerTypes, [Next]_vars, NEW v \in Sender, ~OwnStep(v)
    PROVE  SameBreaker(v) /\ SamePlace(v)
<1>1. CASE UNCHANGED <<worker, breakers>>
  BY <1>1 DEF worker, breakers, SameBreaker, SamePlace
<1>2. CASE \E w \in Sender : OwnStep(w)
  BY <1>2, OthersBreaker, OthersPlace
<1>3. CASE \E n \in Note : Enqueue(n) \/ LeaseRunsOut(n) \/ BackoffOver(n) \/ Sweep(n)
  BY <1>1, <1>3 DEF Enqueue, LeaseRunsOut, BackoffOver, Sweep
<1>4. CASE RedriveFailedNotifications \/ UNCHANGED vars
  BY <1>1, <1>4 DEF RedriveFailedNotifications, vars
<1> QED
  BY <1>2, <1>3, <1>4 DEF Next, SenderStep, SenderFails, OwnStep


\* How many rows there are of what a sender has in hand.
LEMMA HandSizes ==
    ASSUME NEW S \in SUBSET Note, NEW T \in SUBSET S
    PROVE  /\ Cardinality(S) \in Nat /\ Cardinality(T) \in Nat
           /\ Cardinality(T) <= Cardinality(S)
           /\ \A n \in S : n \notin T => Cardinality(T) < Cardinality(S)
<1>1. IsFiniteSet(S) /\ IsFiniteSet(T)
  BY NoteAssumption, FS_Subset
<1>2. Cardinality(S) \in Nat /\ Cardinality(T) \in Nat /\ Cardinality(T) <= Cardinality(S)
  BY <1>1, FS_CardinalityType, FS_Subset
<1>3. Cardinality(T) = Cardinality(S) => S = T
  BY <1>1, FS_Subset
<1> QED
  BY <1>2, <1>3

\* Steps of a sender that call nobody: what is left to call does not grow, and the
\* breaker, where it opens, was closed by then with a row of the batch called.
LEMMA NoCall ==
    ASSUME CoreTypes, BreakerTypes, NEW v \in Sender, BatchCovers(v), CoreTypes', BreakerTypes',
           pc'[v] # "read",
           pc'[v] = "idle" => batch'[v] = {},
           batch'[v] \subseteq batch[v],
           ToCall(v)' \subseteq ToCall(v),
           \/ breaker'[v] = "closed" /\ calls'[v] = 0
           \/ calls'[v] = calls[v] /\ breaker'[v] = breaker[v]
           \/ /\ calls'[v] = calls[v] /\ breaker'[v] \in {breaker[v], "open"}
              /\ batch'[v] = {} \/ \E n \in batch[v] : n \notin ToCall(v)'
    PROVE  BatchCovers(v)'
<1>1. batch[v] \in SUBSET Note /\ batch'[v] \in SUBSET Note /\ breaker[v] \in {"closed", "open"}
      /\ calls[v] \in Nat /\ BatchSize \in Nat \ {0}
  BY SenderLimitAssumption DEF CoreTypes, BreakerTypes
<1>2. ToCall(v) \in SUBSET batch[v] /\ ToCall(v)' \in SUBSET batch'[v]
  BY DEF ToCall
<1>3. /\ Cardinality(batch'[v]) <= Cardinality(batch[v])
      /\ Cardinality(ToCall(v)') <= Cardinality(ToCall(v))
      /\ Cardinality(batch[v]) \in Nat /\ Cardinality(batch'[v]) \in Nat
      /\ Cardinality(ToCall(v)) \in Nat /\ Cardinality(ToCall(v)') \in Nat
  BY <1>1, <1>2, HandSizes
<1>4. Cardinality(batch'[v]) <= BatchSize
  BY <1>1, <1>3 DEF BatchCovers
<1>5. breaker'[v] = "closed" => calls'[v] = 0
  BY <1>1 DEF BatchCovers
<1>6. ASSUME breaker'[v] = "open" PROVE calls'[v] + Cardinality(ToCall(v)') < BatchSize
  <2>1. CASE breaker[v] = "open"
    BY <2>1, <1>1, <1>3, <1>6 DEF BatchCovers
  <2>2. CASE breaker[v] = "closed"
    <3>1. calls'[v] = 0
      BY <2>2, <1>6 DEF BatchCovers
    <3>2. batch'[v] = {} \/ \E n \in batch[v] : n \notin ToCall(v)'
      BY <2>2, <1>6
    <3>3. CASE batch'[v] = {}
      <4>1. ToCall(v)' = {} /\ Cardinality({}) = 0
        BY <3>3, <1>2, FS_EmptySet
      <4> QED
        BY <3>1, <4>1, <1>1
    <3>4. CASE \E n \in batch[v] : n \notin ToCall(v)'
      <4>1. Cardinality(ToCall(v)') < Cardinality(batch[v])
        BY <3>4, <1>1, <1>2, HandSizes
      <4> QED
        BY <3>1, <4>1, <1>1, <1>3 DEF BatchCovers
    <3> QED
      BY <3>2, <3>3, <3>4
  <2> QED
    BY <1>1, <2>1, <2>2
<1> QED
  BY <1>4, <1>5, <1>6 DEF BatchCovers

\* Every step keeps a sender's calls covered by its batch.
LEMMA BatchStep ==
    ASSUME IInv, [Next]_vars, NEW v \in Sender, BatchCovers(v)
    PROVE  BatchCovers(v)'
<1>t. CoreTypes /\ BreakerTypes /\ CoreTypes' /\ BreakerTypes'
  BY TypeParts, CoreStep, BreakerStep DEF IInv
<1>b. /\ batch[v] \in SUBSET Note /\ pc \in [Sender -> PcLabels] /\ batch \in [Sender -> SUBSET Note]
      /\ cur \in [Sender -> Note \cup {None}] /\ breaker \in [Sender -> {"closed", "open"}]
      /\ calls \in [Sender -> Nat] /\ rows \in [Note -> Row] /\ BatchSize \in Nat \ {0}
  BY <1>t, SenderLimitAssumption DEF CoreTypes, BreakerTypes
<1>z. Cardinality({}) = 0
  BY FS_EmptySet
<1>1. CASE ClaimStamp(v)
  <2>1. PICK S \in Claims : rows' = Stamped(S, v)
    BY <1>1 DEF ClaimStamp
  <2>2. /\ pc[v] = "idle" /\ breaker'[v] = "closed" /\ pc'[v] = "read" /\ batch'[v] = batch[v]
        /\ calls'[v] = calls[v] /\ breaker[v] = "closed"
    BY <1>1, <1>b DEF ClaimStamp, Paused, breakers
  <2>3. Bearing(v)' \subseteq S
    <3>1. ASSUME NEW n \in Note, rows'[n].lockedBy = v, n \notin S PROVE FALSE
      <4>1. rows[n].lockedBy = v
        BY <2>1, <3>1 DEF Stamped
      <4> QED
        BY <2>2, <4>1 DEF IInv, ClaimsExist
    <3> QED
      BY <3>1 DEF Bearing
  <2>4. S \in SUBSET Note /\ Cardinality(S) <= BatchSize
    BY DEF Claims
  <2>5. Cardinality(Bearing(v)') <= BatchSize
    BY <2>3, <2>4, <1>b, HandSizes
  <2>6. batch[v] = {} /\ calls[v] = 0
    BY <2>2 DEF BatchCovers
  <2> QED
    BY <2>2, <2>5, <2>6, <1>b, <1>z DEF BatchCovers
<1>2. CASE StartBatch(v)
  <2>1. /\ pc[v] = "read" /\ breaker'[v] = breaker[v] /\ calls'[v] = calls[v]
        /\ breaker[v] = "closed" /\ calls[v] = 0 /\ Cardinality(Bearing(v)) <= BatchSize
    BY <1>2 DEF StartBatch, breakers, BatchCovers
  <2>2. CASE ClaimRead(v) = {}
    <3>1. pc'[v] = "idle" /\ batch'[v] = {}
      BY <1>2, <2>2, <1>b DEF StartBatch, EndTick
    <3> QED
      BY <2>1, <3>1, <1>b, <1>z DEF BatchCovers
  <2>3. CASE ClaimRead(v) # {}
    <3>1. pc'[v] = "send" /\ batch'[v] = ClaimRead(v)
      BY <1>2, <2>3, <1>b DEF StartBatch
    <3>2. ClaimRead(v) \subseteq Bearing(v) /\ Bearing(v) \subseteq Note
      BY DEF ClaimRead, Bearing
    <3>3. Cardinality(batch'[v]) <= BatchSize
      BY <2>1, <3>1, <3>2, <1>b, HandSizes
    <3> QED
      BY <2>1, <3>1, <3>3 DEF BatchCovers
  <2> QED
    BY <2>2, <2>3
<1>3. ASSUME NEW n \in Note, SendAccepted(v, n) \/ SendRefused(v, n) \/ SendTransient(v, n)
      PROVE  BatchCovers(v)'
  <2>1. /\ pc[v] = "send" /\ n \in batch[v] /\ batch' = batch /\ cur'[v] = n
        /\ pc'[v] \in {"mark", "fail", "retry"}
        /\ calls'[v] = IF breaker[v] = "open" THEN calls[v] + 1 ELSE 0
        /\ breaker[v] = "open" => breaker'[v] = "open"
    BY <1>3, <1>b DEF SendAccepted, SendRefused, SendTransient, NextInBatch, Called
  <2>2. ToCall(v) = batch[v] /\ ToCall(v)' = batch[v] \ {n}
    BY <2>1, <1>b DEF ToCall
  <2>3. /\ Cardinality(ToCall(v)') < Cardinality(batch[v])
        /\ Cardinality(ToCall(v)') \in Nat /\ Cardinality(batch[v]) \in Nat
    BY <2>1, <2>2, <1>b, HandSizes
  <2>4. Cardinality(batch[v]) <= BatchSize
    BY DEF BatchCovers
  <2>5. breaker'[v] = "closed" => calls'[v] = 0
    BY <2>1, <1>b
  <2>6. calls'[v] + Cardinality(ToCall(v)') < BatchSize
    <3>1. CASE breaker[v] = "open"
      <4>1. calls[v] + Cardinality(batch[v]) < BatchSize
        BY <2>2, <3>1 DEF BatchCovers
      <4> QED
        BY <2>1, <2>3, <3>1, <4>1, <1>b
    <3>2. CASE breaker[v] # "open"
      BY <2>1, <2>3, <2>4, <3>2, <1>b
    <3> QED
      BY <3>1, <3>2
  <2> QED
    BY <2>1, <2>4, <2>5, <2>6 DEF BatchCovers
<1>4. CASE MarkSent(v) \/ MarkFailed(v) \/ ScheduleRetry(v)
  <2>1. PICK row \in Row : RewriteStep(v, row)
    BY <1>4, <1>t, RewriteSteps
  <2>2. pc[v] \in {"mark", "fail", "retry"}
    BY <2>1 DEF RewriteStep
  <2>3. Moves(v, Rewritten(v, row), batch[v] \ {cur[v]})
    BY <2>1, <2>2, <1>t, RewriteMoves DEF RewriteStep
  <2>4. /\ pc'[v] \in {"idle", "send"} /\ batch'[v] = batch[v] \ {cur[v]}
        /\ pc'[v] = "idle" => batch'[v] = {}
    BY <2>3 DEF Moves
  <2>5. ToCall(v)' \subseteq ToCall(v)
    BY <2>4, <2>2, <1>b DEF ToCall
  <2>6. \/ breaker'[v] = "closed" /\ calls'[v] = 0
        \/ calls'[v] = calls[v] /\ breaker'[v] = breaker[v]
    BY <1>4, <1>b DEF MarkSent, MarkFailed, ScheduleRetry, ResetBreaker, breakers
  <2> QED
    BY <2>4, <2>5, <2>6, <1>t, NoCall
<1>5. CASE MarkSentFails(v)
  <2>1. /\ pc[v] = "mark" /\ pc'[v] = "retry" /\ batch' = batch /\ cur' = cur
        /\ calls'[v] = calls[v] /\ breaker'[v] \in {breaker[v], "open"}
    BY <1>5, <1>b DEF MarkSentFails, TripBreaker
  <2>2. ToCall(v)' = ToCall(v) /\ cur[v] \in batch[v] /\ cur[v] \notin ToCall(v)'
    BY <2>1, <1>t DEF ToCall, CoreTypes
  <2> QED
    BY <2>1, <2>2, <1>t, NoCall
<1>6. CASE TickFails(v) \/ Crash(v) \/ ClaimFails(v) \/ PauseOver(v)
  <2>1. \/ pc'[v] = "idle" /\ batch'[v] = {}
        \/ pc[v] = "idle" /\ pc'[v] = pc[v] /\ batch'[v] = batch[v]
        \/ PauseOver(v)
    BY <1>6, <1>b DEF TickFails, Crash, ClaimFails, EndTick, worker
  <2>2. \/ breaker'[v] = "closed" /\ calls'[v] = 0
        \/ calls'[v] = calls[v] /\ breaker'[v] \in {breaker[v], "open"}
    BY <1>6, <1>b DEF TickFails, Crash, ClaimFails, PauseOver, TripBreaker, ResetBreaker
  <2>3. CASE pc'[v] = "idle" /\ batch'[v] = {}
    BY <2>2, <2>3, <1>t, NoCall DEF ToCall
  <2>4. CASE pc[v] = "idle" /\ pc'[v] = pc[v] /\ batch'[v] = batch[v]
    BY <2>3, <2>4 DEF BatchCovers
  <2>5. CASE PauseOver(v)
    <3>1. SamePlace(v) /\ rows' = rows /\ breaker[v] = "open"
      BY <2>5 DEF PauseOver, worker, SamePlace
    <3>2. pc'[v] # "read"
      BY <3>1 DEF SamePlace, BatchCovers
    <3> QED
      BY <2>2, <2>5, <3>1, <3>2, <1>t, NoCall DEF SamePlace, ToCall, BatchCovers
  <2> QED
    BY <2>1, <2>3, <2>4, <2>5
<1>7. CASE ~OwnStep(v)
  <2>1. SameBreaker(v) /\ SamePlace(v) /\ TokenKept(v)
    BY <1>7, <1>t, OwnOrNot, TokensKept DEF OwnStep
  <2>2. CASE pc[v] = "read"
    <3>1. Bearing(v)' \subseteq Bearing(v) /\ Bearing(v) \in SUBSET Note
      BY <2>1 DEF TokenKept, Bearing
    <3>2. Cardinality(Bearing(v)') <= BatchSize
      <4>1. /\ Cardinality(Bearing(v)') <= Cardinality(Bearing(v))
            /\ Cardinality(Bearing(v)) \in Nat /\ Cardinality(Bearing(v)') \in Nat
        BY <3>1, HandSizes
      <4>2. Cardinality(Bearing(v)) <= BatchSize
        BY <2>2 DEF BatchCovers
      <4> QED
        BY <4>1, <4>2, <1>b
    <3> QED
      BY <2>1, <2>2, <3>2 DEF SameBreaker, SamePlace, BatchCovers
  <2>3. CASE pc[v] # "read"
    <3>1. ToCall(v)' = ToCall(v)
      BY <2>1 DEF SamePlace, ToCall
    <3> QED
      BY <2>1, <2>3, <3>1 DEF SameBreaker, SamePlace, BatchCovers
  <2> QED
    BY <2>2, <2>3
<1> QED
  BY <1>1, <1>2, <1>3, <1>4, <1>5, <1>6, <1>7 DEF OwnStep

\* However many notes are due and however the provider fails, an open breaker lets
\* through fewer calls than one batch has rows: the batch that opened it, no more.
THEOREM BreakerHolds == Spec => []BreakerLimitsCalls
<1>1. Init => BatchesCover
  <2>1. ASSUME Init, NEW w \in Sender PROVE BatchCovers(w)
    <3>1. pc[w] = "idle" /\ batch[w] = {} /\ breaker[w] = "closed" /\ calls[w] = 0
      BY <2>1 DEF Init
    <3> QED
      BY <3>1, FS_EmptySet, SenderLimitAssumption DEF BatchCovers
  <2> QED
    BY <2>1 DEF BatchesCover
<1>2. IInv /\ BatchesCover /\ [Next]_vars => BatchesCover'
  BY BatchStep DEF BatchesCover
<1>3. IInv /\ BatchesCover => BreakerLimitsCalls
  <2>1. ASSUME IInv, NEW w \in Sender, BatchCovers(w) PROVE calls[w] < BatchSize
    <3>1. /\ calls[w] \in Nat /\ breaker[w] \in {"closed", "open"} /\ BatchSize \in Nat \ {0}
          /\ ToCall(w) \in SUBSET Note
      BY <2>1, SenderLimitAssumption DEF IInv, TypeOK, ToCall
    <3>2. Cardinality(ToCall(w)) \in Nat
      BY <3>1, HandSizes
    <3> QED
      BY <2>1, <3>1, <3>2 DEF BatchCovers
  <2> QED
    BY <2>1 DEF BatchesCover, BreakerLimitsCalls
<1> QED
  BY <1>1, <1>2, <1>3, Invariance, PTL DEF Spec

-----------------------------------------------------------------------------
(* Tokens.                                                                 *)

\* What TokensAreLive says of one note.
TokenInv(n) ==
    /\ rows[n].lockedBy # None => rows[n].status = "PENDING"
    /\ \A w \in Sender : rows[n].lockedBy = w => pc[w] = "read" \/ n \in batch[w]

\* Where a sender moves on, the others stay, and it keeps no token but of its batch.
LEMMA MovesToken ==
    ASSUME CoreTypes, NEW w \in Sender, NEW table \in [Note -> Row], NEW left,
           Moves(w, table, left), NEW n \in Note, TokenInv(n),
           \/ table[n] = rows[n] /\ (rows[n].lockedBy = w => n \in left \/ pc'[w] = "idle")
           \/ table[n].lockedBy = None
    PROVE  TokenInv(n)'
<1>a. rows[n] \in Row /\ table[n] \in Row
  BY DEF CoreTypes
<1>e. None \notin Sender /\ Abandoned \notin Sender /\ Abandoned # None
  BY SenderTokenAssumption
<1>b. LeftAs(w, table[n], rows'[n])
  BY DEF Moves
<1>1. /\ rows'[n].status = table[n].status
      /\ \/ rows'[n].lockedBy = table[n].lockedBy
         \/ table[n].lockedBy = w /\ rows'[n].lockedBy = Abandoned
  BY <1>a, <1>b, LeftKeeps
<1>2. CASE table[n].lockedBy = None
  BY <1>1, <1>2, <1>e DEF TokenInv
<1>3. CASE table[n] = rows[n] /\ (rows[n].lockedBy = w => n \in left \/ pc'[w] = "idle")
  <2>1. rows'[n].lockedBy # None => rows'[n].status = "PENDING"
    BY <1>1, <1>3, <1>e DEF TokenInv
  <2>2. ASSUME NEW v \in Sender, rows'[n].lockedBy = v PROVE pc'[v] = "read" \/ n \in batch'[v]
    <3>1. rows[n].lockedBy = v
      BY <1>1, <1>3, <2>2, <1>e
    <3>2. CASE v = w
      <4>1. pc'[w] # "idle"
        BY <2>2, <3>2 DEF Moves
      <4> QED
        BY <1>3, <3>1, <3>2, <4>1 DEF Moves
    <3>3. CASE v # w
      BY <3>1, <3>3 DEF TokenInv, Moves
    <3> QED
      BY <3>2, <3>3
  <2> QED
    BY <2>1, <2>2 DEF TokenInv
<1> QED
  BY <1>2, <1>3

\* Where the senders stay, a row keeps its token and status, or loses the token.
LEMMA RowsToken ==
    ASSUME NEW n \in Note, TokenInv(n), UNCHANGED <<pc, batch>>,
           \/ rows'[n].lockedBy = None
           \/ /\ rows'[n].lockedBy \in {rows[n].lockedBy, Abandoned}
              /\ rows'[n].status = "PENDING"
           \/ rows'[n].lockedBy = rows[n].lockedBy /\ rows'[n].status = rows[n].status
    PROVE  TokenInv(n)'
  BY SenderTokenAssumption DEF TokenInv

\* What a claim makes of any row.
LEMMA StampedRow ==
    ASSUME CoreTypes, NEW S \in Claims, NEW token \in Sender \cup {Abandoned},
           rows' = Stamped(S, token), NEW n \in Note
    PROVE  \/ rows'[n] = rows[n]
           \/ /\ rows[n].lease # "held" /\ rows[n].status = "PENDING"
              /\ rows'[n] = [rows[n] EXCEPT !.lockedBy = token, !.lease = "held"]
<1>1. CASE n \in S
  <2>1. Claimable(rows[n])
    BY <1>1 DEF Claims
  <2> QED
    BY <1>1, <2>1 DEF Stamped, Claimable
<1>2. CASE n \notin S
  BY <1>2 DEF Stamped
<1> QED
  BY <1>1, <1>2

\* What the rewriting of the row at hand leaves of any row.
LEMMA RewrittenRow ==
    ASSUME CoreTypes, NEW w \in Sender, NEW row \in Row, RewriteStep(w, row), NEW n \in Note
    PROVE  /\ cur[w] \in batch[w] /\ pc[w] \in {"mark", "fail", "retry"}
           /\ n # cur[w] => Rewritten(w, row)[n] = rows[n]
           /\ n = cur[w] => Rewritten(w, row)[n] = row
           /\ row.lockedBy = None
           /\ pc[w] = "mark" => row.status = "SENT"
<1>1. pc[w] \in {"mark", "fail", "retry"} /\ RowDone(w, Rewritten(w, row))
  BY DEF RewriteStep
<1>3. PICK old \in Row, k \in Nat : old = rows[cur[w]] /\ k = snap[w][cur[w]] + 1
  BY <1>1, AtHand
<1>4. \/ row = Sent(old)
      \/ pc[w] # "mark" /\ row = GivenUp(old, k)
      \/ pc[w] # "mark" /\ row = Retried(old, k)
  BY <1>3 DEF RewriteStep
<1>5. row.lockedBy = None /\ (pc[w] = "mark" => row.status = "SENT")
  BY <1>4, WrittenRows, GivenUpRows, RetriedRows
<1>6. /\ n # cur[w] => Rewritten(w, row)[n] = rows[n]
      /\ n = cur[w] => Rewritten(w, row)[n] = row
  BY DEF Rewritten, CoreTypes
<1>7. cur[w] \in batch[w]
  BY <1>1, AtHand
<1> QED
  BY <1>1, <1>5, <1>6, <1>7

\* Every step keeps the tokens of a note live.
LEMMA TokenStep ==
    ASSUME CoreTypes, [Next]_vars, NEW n \in Note, TokenInv(n)
    PROVE  TokenInv(n)'
<1>a. rows \in [Note -> Row] /\ rows[n] \in Row /\ pc \in [Sender -> PcLabels]
      /\ batch \in [Sender -> SUBSET Note]
  BY DEF CoreTypes
<1>e. None \notin Sender /\ Abandoned \notin Sender /\ Abandoned # None
  BY SenderTokenAssumption
<1>0. ASSUME rows' = rows, UNCHANGED <<pc, batch>> PROVE TokenInv(n)'
  BY <1>0, RowsToken
<1>1. ASSUME NEW w \in Sender, ClaimStamp(w) PROVE TokenInv(n)'
  <2>0. PICK S \in Claims : rows' = Stamped(S, w)
    BY <1>1 DEF ClaimStamp
  <2>1. \/ rows'[n] = rows[n]
        \/ /\ rows[n].status = "PENDING"
           /\ rows'[n] = [rows[n] EXCEPT !.lockedBy = w, !.lease = "held"]
    BY <2>0, StampedRow
  <2>2. pc'[w] = "read" /\ batch' = batch /\ \A v \in Sender \ {w} : pc'[v] = pc[v]
    BY <1>1, <1>a DEF ClaimStamp
  <2>3. CASE rows'[n] = rows[n]
    BY <2>2, <2>3 DEF TokenInv
  <2>4. CASE rows[n].status = "PENDING" /\ rows'[n].lockedBy = w /\ rows'[n].status = rows[n].status
    BY <2>2, <2>4 DEF TokenInv
  <2> QED
    BY <2>1, <2>3, <2>4, <1>a DEF Row
<1>2. ASSUME NEW w \in Sender, ClaimFails(w) PROVE TokenInv(n)'
  <2>1. rows' \in {rows} \cup {Stamped(S, Abandoned) : S \in Claims}
    BY <1>2 DEF ClaimFails
  <2>2. rows' = rows \/ \E S \in Claims : rows' = Stamped(S, Abandoned)
    BY <2>1
  <2>3. \/ rows'[n] = rows[n]
        \/ /\ rows[n].status = "PENDING"
           /\ rows'[n] = [rows[n] EXCEPT !.lockedBy = Abandoned, !.lease = "held"]
    BY <2>2, StampedRow
  <2>4. \/ rows'[n] = rows[n]
        \/ rows'[n].lockedBy = Abandoned /\ rows'[n].status = "PENDING"
    BY <2>3, <1>a DEF Row
  <2> QED
    BY <1>2, <2>4, RowsToken DEF ClaimFails, worker
<1>3. ASSUME NEW w \in Sender, EndTick(w, rows) PROVE TokenInv(n)'
  <2>1. pc'[w] = "idle" /\ Moves(w, rows, {})
    BY <1>3, <1>a, EndTickMoves DEF EndTick
  <2> QED
    BY <2>1, <1>a, MovesToken
<1>4. ASSUME NEW w \in Sender, StartBatch(w) PROVE TokenInv(n)'
  <2>1. CASE ClaimRead(w) = {}
    BY <1>3, <1>4, <2>1 DEF StartBatch
  <2>2. CASE ClaimRead(w) # {}
    <3>1. /\ rows' = rows /\ batch' = [batch EXCEPT ![w] = ClaimRead(w)]
          /\ pc' = [pc EXCEPT ![w] = "send"]
      BY <1>4, <2>2 DEF StartBatch
    <3>2. rows[n].lockedBy = w => n \in batch'[w]
      BY <3>1, <1>a, <1>e DEF TokenInv, ClaimRead
    <3> QED
      BY <3>1, <3>2, <1>a DEF TokenInv
  <2> QED
    BY <2>1, <2>2
<1>5. ASSUME NEW w \in Sender, NEW m \in Note,
             SendAccepted(w, m) \/ SendRefused(w, m) \/ SendTransient(w, m)
      PROVE  TokenInv(n)'
  <2>1. /\ rows' = rows /\ batch' = batch /\ pc[w] = "send"
        /\ \A v \in Sender \ {w} : pc'[v] = pc[v]
    BY <1>5, <1>a DEF SendAccepted, SendRefused, SendTransient
  <2> QED
    BY <2>1 DEF TokenInv
<1>6. ASSUME NEW w \in Sender, MarkSent(w) \/ MarkFailed(w) \/ ScheduleRetry(w)
      PROVE  TokenInv(n)'
  <2>1. PICK row \in Row : RewriteStep(w, row)
    BY <1>6, RewriteSteps
  <2>2. /\ pc[w] \in {"mark", "fail", "retry"}
        /\ \/ Rewritten(w, row)[n] = rows[n] /\ n # cur[w]
           \/ Rewritten(w, row)[n].lockedBy = None
    BY <2>1, RewrittenRow
  <2>4. /\ Rewritten(w, row) \in [Note -> Row]
        /\ Moves(w, Rewritten(w, row), batch[w] \ {cur[w]})
    BY <2>1, <2>2, RewriteMoves DEF RewriteStep
  <2>3. n # cur[w] /\ rows[n].lockedBy = w => n \in batch[w] \ {cur[w]}
    BY <2>2 DEF TokenInv
  <2> QED
    BY <2>2, <2>3, <2>4, MovesToken
<1>7. ASSUME NEW w \in Sender, MarkSentFails(w) PROVE TokenInv(n)'
  <2>1. /\ pc[w] = "mark" /\ batch' = batch /\ cur[w] \in Note
        /\ \A v \in Sender \ {w} : pc'[v] = pc[v]
    BY <1>7, <1>a, AtHand DEF MarkSentFails
  <2>2. rows'[n] = rows[n] \/ rows'[n].lockedBy = None
    BY <1>7, <2>1, <1>a, WrittenRows DEF MarkSentFails
  <2> QED
    BY <2>1, <2>2, <1>e DEF TokenInv
<1>8. ASSUME NEW w \in Sender, TickFails(w) \/ Crash(w) PROVE TokenInv(n)'
  BY <1>3, <1>8 DEF TickFails, Crash
<1>9. ASSUME NEW m \in Note, Enqueue(m) \/ LeaseRunsOut(m) \/ BackoffOver(m) \/ Sweep(m)
      PROVE  TokenInv(n)'
  <2>1. UNCHANGED <<pc, batch>>
    BY <1>9 DEF Enqueue, LeaseRunsOut, BackoffOver, Sweep, worker
  <2>2. CASE Enqueue(m) \/ Sweep(m)
    <3>1. rows'[n] = rows[n] \/ rows'[n].lockedBy = None
      BY <2>2, <1>a DEF Enqueue, Sweep, NoRow
    <3> QED
      BY <2>1, <3>1, RowsToken
  <2>3. CASE LeaseRunsOut(m) \/ BackoffOver(m)
    <3>1. rows'[n].lockedBy = rows[n].lockedBy /\ rows'[n].status = rows[n].status
      BY <2>3, <1>a DEF LeaseRunsOut, BackoffOver, Row
    <3> QED
      BY <2>1, <3>1, RowsToken
  <2> QED
    BY <1>9, <2>2, <2>3
<1>10. ASSUME RedriveFailedNotifications PROVE TokenInv(n)'
  <2>1. PICK picked \in SUBSET FailedRows :
          rows' = [m \in Note |-> IF m \in picked THEN Redriven(rows[m]) ELSE rows[m]]
    BY <1>10 DEF RedriveFailedNotifications
  <2>2. rows'[n] = rows[n] \/ rows'[n].lockedBy = None
    BY <2>1, <1>a, WrittenRows
  <2>3. UNCHANGED <<pc, batch>>
    BY <1>10 DEF RedriveFailedNotifications, worker
  <2> QED
    BY <2>2, <2>3, RowsToken
<1>11. ASSUME (\E w \in Sender : PauseOver(w)) \/ UNCHANGED vars PROVE TokenInv(n)'
  BY <1>0, <1>11 DEF PauseOver, vars, worker
<1> QED
  BY <1>1, <1>2, <1>4, <1>5, <1>6, <1>7, <1>8, <1>9, <1>10, <1>11
     DEF Next, SenderStep, SenderFails

-----------------------------------------------------------------------------
(* The budget of mails.                                                    *)

\* What MailsAreBudgeted says of one note.
Budgeted(n) == mails[n] + Cardinality(Sources(n)) <= 1 + faults

\* There are finitely many sources.
LEMMA SourcesFinite ==
    ASSUME NEW n \in Note
    PROVE  IsFiniteSet(Sources(n)) /\ IsFiniteSet(Sources(n)')
<1>1. IsFiniteSet(Sender \cup {None})
  BY SenderAssumption, FS_AddElement
<1>2. Sources(n) \subseteq Sender \cup {None} /\ Sources(n)' \subseteq Sender \cup {None}
  BY DEF Sources
<1> QED
  BY <1>1, <1>2, FS_Subset

\* The sizes of sets that differ by an element.
LEMMA SourceSizes ==
    ASSUME NEW S, IsFiniteSet(S), NEW T, IsFiniteSet(T)
    PROVE  /\ Cardinality(S) \in Nat /\ Cardinality(T) \in Nat
           /\ T \subseteq S => Cardinality(T) <= Cardinality(S)
           /\ \A x : T \subseteq S \cup {x} => Cardinality(T) <= Cardinality(S) + 1
           /\ \A x \in S : T \subseteq S \ {x} => Cardinality(T) + 1 <= Cardinality(S)
           /\ \A x \in S : \A y : T \subseteq (S \ {x}) \cup {y} => Cardinality(T) <= Cardinality(S)
<1>1. Cardinality(S) \in Nat /\ Cardinality(T) \in Nat
  BY FS_CardinalityType
<1>2. T \subseteq S => Cardinality(T) <= Cardinality(S)
  BY FS_Subset
<1>3. ASSUME NEW x, T \subseteq S \cup {x} PROVE Cardinality(T) <= Cardinality(S) + 1
  <2>1. IsFiniteSet(S \cup {x}) /\ Cardinality(S \cup {x}) \in {Cardinality(S), Cardinality(S) + 1}
    BY FS_AddElement
  <2>2. Cardinality(T) <= Cardinality(S \cup {x})
    BY <1>3, <2>1, FS_Subset
  <2> QED
    BY <1>1, <2>1, <2>2
<1>4. ASSUME NEW x \in S
      PROVE  /\ IsFiniteSet(S \ {x}) /\ Cardinality(S \ {x}) = Cardinality(S) - 1
             /\ T \subseteq S \ {x} => Cardinality(T) + 1 <= Cardinality(S)
  <2>1. IsFiniteSet(S \ {x}) /\ Cardinality(S \ {x}) = Cardinality(S) - 1
    BY FS_RemoveElement
  <2>2. T \subseteq S \ {x} => Cardinality(T) <= Cardinality(S \ {x})
    BY <2>1, FS_Subset
  <2> QED
    BY <1>1, <2>1, <2>2
<1>5. ASSUME NEW x \in S, NEW y, T \subseteq (S \ {x}) \cup {y}
      PROVE  Cardinality(T) <= Cardinality(S)
  <2> DEFINE R == S \ {x}
  <2>1. IsFiniteSet(R) /\ Cardinality(R) = Cardinality(S) - 1
    BY <1>4
  <2>2. /\ IsFiniteSet(R \cup {y})
        /\ Cardinality(R \cup {y}) \in {Cardinality(R), Cardinality(R) + 1}
    BY <2>1, FS_AddElement
  <2>3. Cardinality(T) <= Cardinality(R \cup {y})
    BY <1>5, <2>2, FS_Subset
  <2> QED
    BY <1>1, <2>1, <2>2, <2>3
<1> QED
  BY <1>1, <1>2, <1>3, <1>4, <1>5

\* How a step may change a note's sources, mails and the faults: no source is new, or one
\* is and a fault pays; one takes the place of another; one is used up by a mail; or a
\* fault pays for a mail.
Paid(n) ==
    \/ /\ mails'[n] = mails[n] /\ faults' >= faults
       /\ \/ Sources(n)' \subseteq Sources(n)
          \/ \E x \in Sources(n), y \in Sender \cup {None} :
                Sources(n)' \subseteq (Sources(n) \ {x}) \cup {y}
    \/ /\ mails'[n] = mails[n] /\ faults' = faults + 1
       /\ \E y \in Sender \cup {None} : Sources(n)' \subseteq Sources(n) \cup {y}
    \/ /\ mails'[n] \in {mails[n], mails[n] + 1} /\ faults' = faults
       /\ \E x \in Sources(n) : Sources(n)' \subseteq Sources(n) \ {x}
    \/ /\ mails'[n] \in {mails[n], mails[n] + 1} /\ faults' = faults + 1
       /\ Sources(n)' \subseteq Sources(n)

\* Such a step keeps the budget.
LEMMA PaidKeeps ==
    ASSUME NEW n \in Note, Budgeted(n), Paid(n), mails[n] \in Nat,
           faults \in Nat, faults' \in Nat
    PROVE  Budgeted(n)'
<1> DEFINE S == Sources(n)
           T == Sources(n)'
<1>1. IsFiniteSet(S) /\ IsFiniteSet(T)
  BY SourcesFinite
<1>2. mails[n] + Cardinality(S) <= 1 + faults
  BY DEF Budgeted
<1>3. Cardinality(S) \in Nat /\ Cardinality(T) \in Nat
  BY <1>1, SourceSizes
<1>4. CASE /\ mails'[n] = mails[n] /\ faults' >= faults
           /\ \/ T \subseteq S
              \/ \E x \in S, y \in Sender \cup {None} : T \subseteq (S \ {x}) \cup {y}
  <2> HIDE DEF S, T
  <2>1. Cardinality(T) <= Cardinality(S)
    BY <1>1, <1>4, SourceSizes
  <2>2. mails'[n] + Cardinality(T) <= 1 + faults'
    BY <1>2, <1>3, <1>4, <2>1
  <2> QED
    BY <2>2 DEF Budgeted, T
<1>5. CASE /\ mails'[n] = mails[n] /\ faults' = faults + 1
           /\ \E y \in Sender \cup {None} : T \subseteq S \cup {y}
  <2> HIDE DEF S, T
  <2>1. Cardinality(T) <= Cardinality(S) + 1
    BY <1>1, <1>5, SourceSizes
  <2>2. mails'[n] + Cardinality(T) <= 1 + faults'
    BY <1>2, <1>3, <1>5, <2>1
  <2> QED
    BY <2>2 DEF Budgeted, T
<1>6. CASE /\ mails'[n] \in {mails[n], mails[n] + 1} /\ faults' = faults
           /\ \E x \in S : T \subseteq S \ {x}
  <2> HIDE DEF S, T
  <2>1. Cardinality(T) + 1 <= Cardinality(S)
    BY <1>1, <1>6, SourceSizes
  <2>2. mails'[n] + Cardinality(T) <= 1 + faults'
    BY <1>2, <1>3, <1>6, <2>1
  <2> QED
    BY <2>2 DEF Budgeted, T
<1>7. CASE /\ mails'[n] \in {mails[n], mails[n] + 1} /\ faults' = faults + 1
           /\ T \subseteq S
  <2> HIDE DEF S, T
  <2>1. Cardinality(T) <= Cardinality(S)
    BY <1>1, <1>7, SourceSizes
  <2>2. mails'[n] + Cardinality(T) <= 1 + faults'
    BY <1>2, <1>3, <1>7, <2>1
  <2> QED
    BY <2>2 DEF Budgeted, T
<1> QED
  BY <1>4, <1>5, <1>6, <1>7 DEF Paid

\* A row that is gone stays gone.
LEMMA GoneStaysGone ==
    ASSUME CoreTypes, [Next]_vars, NEW n \in Note, rows[n].status = "DELETED"
    PROVE  rows'[n].status = "DELETED"
  BY EveryRowMoves
     DEF RowMove, SameProgress, Enqueued, MarkedBy, RefusedBy, RetriedBy, AtWork, PutBack, Swept

\* A sender that a step leaves where it is owes no more than before.
LEMMA OthersOwe ==
    ASSUME CoreTypes, [Next]_vars, NEW v \in Sender, SamePlace(v), NEW n \in Note, Owes(v, n)'
    PROVE  Owes(v, n)
<1>1. ~ClaimStamp(v)
  BY DEF ClaimStamp, SamePlace, CoreTypes
<1>2. rows'[n].lockedBy = v => rows[n].lockedBy = v
  BY <1>1, TokensKept DEF TokenKept
<1> QED
  BY <1>2, GoneStaysGone DEF Owes, SamePlace

\* A row that keeps its status and token, or is no longer to be sent, is no more open.
LEMMA OpenKept ==
    ASSUME NEW n \in Note, Open(n)',
           \/ rows'[n].status \notin {"ABSENT", "PENDING", "FAILED"}
           \/ rows'[n].status = rows[n].status /\ rows'[n].lockedBy = rows[n].lockedBy
              /\ rows'[n].lease = rows[n].lease
    PROVE  Open(n)
  BY DEF Open

\* What being a source means, before and after a step.
LEMMA SourcesOf ==
    ASSUME NEW n \in Note
    PROVE  /\ \A v \in Sender : v \in Sources(n) <=> Owes(v, n)
           /\ None \in Sources(n) <=> Open(n)
           /\ Sources(n) \subseteq Sender \cup {None}
           /\ \A v \in Sender : v \in Sources(n)' <=> Owes(v, n)'
           /\ None \in Sources(n)' <=> Open(n)'
           /\ Sources(n)' \subseteq Sender \cup {None}
  BY SenderTokenAssumption DEF Sources

\* What a sender's own actions need to say: of itself and of the row.
LEMMA SenderSources ==
    ASSUME CoreTypes, [Next]_vars, NEW w \in Sender, OwnStep(w), NEW n \in Note
    PROVE  /\ Sources(n)' \subseteq Sources(n) \cup {w, None}
           /\ (Owes(w, n)' => Owes(w, n)) => Sources(n)' \subseteq Sources(n) \cup {None}
           /\ (Open(n)' => Open(n)) => Sources(n)' \subseteq Sources(n) \cup {w}
           /\ ~Owes(w, n)' => w \notin Sources(n)'
           /\ ~Open(n)' => None \notin Sources(n)'
           /\ Owes(w, n) => w \in Sources(n)
           /\ Open(n) => None \in Sources(n)
           /\ (Owes(w, n)' => Owes(w, n)) /\ (Open(n)' => Open(n)) =>
                 Sources(n)' \subseteq Sources(n)
<1>1. \A v \in Sender : v # w /\ Owes(v, n)' => Owes(v, n)
  BY OthersPlace, OthersOwe
<1> QED
  BY <1>1, SourcesOf

\* A sender ends its tick: what it owed falls to the row, unless a fault pays.
LEMMA EndTickOwes ==
    ASSUME CoreTypes, NEW w \in Sender, EndTick(w, rows), NEW n \in Note
    PROVE  /\ ~Owes(w, n)'
           /\ rows[n].lockedBy # w => rows'[n] = rows[n]
           /\ rows'[n].status = rows[n].status
<1>1. pc'[w] = "idle" /\ batch'[w] = {}
  BY DEF EndTick, CoreTypes
<1>2. LeftAs(w, rows[n], rows'[n]) /\ rows[n] \in Row
  BY EndTickMoves DEF CoreTypes, Moves
<1> QED
  BY <1>1, <1>2, LeftKeeps DEF Owes, LeftAs

\* A sender is done with the row at hand: it owes nothing of it, and the others are as
\* before.
LEMMA DoneOwes ==
    ASSUME CoreTypes, NEW w \in Sender, NEW row \in Row, RewriteStep(w, row), NEW n \in Note,
           TokenInv(n)
    PROVE  /\ n = cur[w] => ~Owes(w, n)' /\ rows'[n].status = row.status
           /\ n # cur[w] => (Owes(w, n)' => Owes(w, n)) /\ rows'[n] = rows[n]
<1>0. /\ cur[w] \in batch[w] /\ pc[w] \in {"mark", "fail", "retry"}
      /\ n # cur[w] => Rewritten(w, row)[n] = rows[n]
      /\ n = cur[w] => Rewritten(w, row)[n] = row
  BY RewrittenRow
<1>m. /\ Rewritten(w, row) \in [Note -> Row]
      /\ Moves(w, Rewritten(w, row), batch[w] \ {cur[w]})
  BY <1>0, RewriteMoves DEF RewriteStep
<1>1. /\ pc'[w] \in {"idle", "send"} /\ batch'[w] = batch[w] \ {cur[w]}
      /\ pc'[w] = "idle" => batch[w] \ {cur[w]} = {}
      /\ pc'[w] # "idle" => rows'[n] = Rewritten(w, row)[n]
      /\ LeftAs(w, Rewritten(w, row)[n], rows'[n]) /\ Rewritten(w, row)[n] \in Row
  BY <1>0, <1>m DEF Moves
<1>2. rows'[n].status = Rewritten(w, row)[n].status
  BY <1>1, LeftKeeps
<1>3. ASSUME n = cur[w] PROVE ~Owes(w, n)'
  BY <1>1, <1>3 DEF Owes
<1>4. ASSUME n # cur[w] PROVE Owes(w, n)' => Owes(w, n)
  BY <1>1, <1>4 DEF Owes
<1>5. ASSUME n # cur[w] PROVE rows'[n] = rows[n]
  <2>1. CASE pc'[w] = "idle"
    <3>1. rows[n].lockedBy # w
      BY <1>0, <1>1, <1>5, <2>1 DEF TokenInv
    <3> QED
      BY <1>0, <1>1, <1>5, <3>1 DEF LeftAs
  <2>2. CASE pc'[w] # "idle"
    BY <1>0, <1>1, <1>5, <2>2
  <2> QED
    BY <2>1, <2>2
<1> QED
  BY <1>0, <1>2, <1>3, <1>4, <1>5

\* Every step pays for what it adds.
LEMMA EveryStepPays ==
    ASSUME TypeOK, ClaimsExist, [Next]_vars, NEW n \in Note, TokenInv(n)
    PROVE  Paid(n)
<1>t. CoreTypes
  BY TypeParts
<1>a. /\ rows \in [Note -> Row] /\ rows[n] \in Row /\ pc \in [Sender -> PcLabels]
      /\ batch \in [Sender -> SUBSET Note] /\ cur \in [Sender -> Note \cup {None}]
      /\ mails \in [Note -> Nat] /\ faults \in Nat
  BY DEF TypeOK, PcLabels
<1>e. None \notin Sender /\ Abandoned \notin Sender /\ Abandoned # None
  BY SenderTokenAssumption
<1>f. ASSUME Fault \/ UNCHANGED faults PROVE faults' >= faults
  BY <1>f, <1>a DEF Fault
<1>0. ASSUME UNCHANGED mails, faults' >= faults, Sources(n)' \subseteq Sources(n) PROVE Paid(n)
  BY <1>0 DEF Paid
<1>1. ASSUME NEW w \in Sender, ClaimStamp(w) PROVE Paid(n)
  <2>0. /\ pc[w] = "idle" /\ pc'[w] = "read" /\ batch' = batch /\ cur' = cur
        /\ UNCHANGED <<mails, faults>> /\ OwnStep(w)
    BY <1>1, <1>a DEF ClaimStamp, OwnStep
  <2>s. PICK S \in Claims : rows' = Stamped(S, w)
    BY <1>1 DEF ClaimStamp
  <2>1. \/ rows'[n] = rows[n]
        \/ /\ rows[n].lease # "held" /\ rows[n].status = "PENDING"
           /\ rows'[n] = [rows[n] EXCEPT !.lockedBy = w, !.lease = "held"]
    BY <1>t, <2>s, StampedRow
  <2>2. rows[n].lockedBy # w
    BY <2>0 DEF ClaimsExist
  <2>3. CASE rows'[n] = rows[n]
    <3>1. (Owes(w, n)' => Owes(w, n)) /\ (Open(n)' => Open(n))
      BY <2>0, <2>2, <2>3 DEF Owes, Open
    <3>2. Sources(n)' \subseteq Sources(n)
      BY <1>t, <2>0, <3>1, SenderSources
    <3> QED
      BY <1>0, <1>a, <2>0, <3>2
  <2>4. CASE /\ rows[n].lease # "held" /\ rows[n].status = "PENDING"
             /\ rows'[n] = [rows[n] EXCEPT !.lockedBy = w, !.lease = "held"]
    <3>1. Open(n) /\ ~Open(n)'
      BY <2>4, <1>a DEF Open, Row
    <3>2. /\ None \in Sources(n) /\ None \notin Sources(n)'
          /\ Sources(n)' \subseteq Sources(n) \cup {w, None}
      BY <1>t, <2>0, <3>1, SenderSources
    <3>3. Sources(n)' \subseteq (Sources(n) \ {None}) \cup {w}
      BY <3>2
    <3> QED
      BY <1>a, <2>0, <3>2, <3>3 DEF Paid
  <2> QED
    BY <2>1, <2>3, <2>4
<1>2. ASSUME NEW w \in Sender, ClaimFails(w) PROVE Paid(n)
  <2>s. rows' \in {rows} \cup {Stamped(S, Abandoned) : S \in Claims}
    BY <1>2 DEF ClaimFails
  <2>0. rows' = rows \/ \E S \in Claims : rows' = Stamped(S, Abandoned)
    BY <2>s
  <2>1. \/ rows'[n] = rows[n]
        \/ /\ rows[n].lease # "held" /\ rows[n].status = "PENDING"
           /\ rows'[n] = [rows[n] EXCEPT !.lockedBy = Abandoned, !.lease = "held"]
    BY <1>t, <2>0, StampedRow
  <2>2. Open(n)' => Open(n)
    BY <2>1, <1>a DEF Open, Row
  <2>3. SamePlace(w) /\ OwnStep(w)
    BY <1>2 DEF ClaimFails, worker, SamePlace, OwnStep
  <2>4. Sources(n)' \subseteq Sources(n)
    BY <1>t, <2>2, <2>3, OthersOwe, SenderSources
  <2> QED
    BY <1>0, <1>2, <1>f, <2>4 DEF ClaimFails
<1>3. ASSUME NEW w \in Sender, StartBatch(w) PROVE Paid(n)
  <2>0. pc[w] = "read" /\ UNCHANGED <<mails, faults>> /\ OwnStep(w)
    BY <1>3 DEF StartBatch, OwnStep
  <2>1. rows'[n] = rows[n] /\ (Owes(w, n)' => Owes(w, n))
    <3>1. CASE ClaimRead(w) = {}
      <4>1. rows[n].lockedBy # w
        BY <3>1, <1>e DEF ClaimRead, TokenInv
      <4> QED
        BY <1>3, <1>t, <3>1, <4>1, EndTickOwes DEF StartBatch
    <3>2. CASE ClaimRead(w) # {}
      <4>1. rows' = rows /\ batch'[w] = ClaimRead(w) /\ pc'[w] = "send"
        BY <1>3, <3>2, <1>a DEF StartBatch
      <4> QED
        BY <2>0, <4>1 DEF Owes, ClaimRead
    <3> QED
      BY <3>1, <3>2
  <2>2. Sources(n)' \subseteq Sources(n)
    BY <1>t, <2>0, <2>1, OpenKept, SenderSources
  <2> QED
    BY <1>0, <1>a, <2>0, <2>2
<1>4. ASSUME NEW w \in Sender, NEW m \in Note,
             SendAccepted(w, m) \/ SendRefused(w, m) \/ SendTransient(w, m)
      PROVE  Paid(n)
  <2>0. /\ pc[w] = "send" /\ m \in batch[w] /\ rows' = rows /\ batch' = batch
        /\ cur'[w] = m /\ pc'[w] \in {"mark", "fail", "retry"} /\ OwnStep(w)
        /\ SendAccepted(w, m) => pc'[w] = "mark"
    BY <1>4, <1>a DEF SendAccepted, SendRefused, SendTransient, NextInBatch, OwnStep
  <2>1. Open(n)' => Open(n)
    BY <2>0 DEF Open
  <2>2. Owes(w, n)' => Owes(w, n)
    BY <2>0 DEF Owes
  <2>3. Sources(n)' \subseteq Sources(n)
    BY <1>t, <2>0, <2>1, <2>2, SenderSources
  <2>4. /\ mails'[n] \in {mails[n], mails[n] + 1}
        /\ n # m => mails'[n] = mails[n]
    <3>1. mails' \in {mails, [mails EXCEPT ![m] = @ + 1]}
      BY <1>4, <1>a, DeliverMails DEF SendAccepted, SendRefused, SendTransient
    <3> QED
      BY <3>1, <1>a
  <2>5. CASE SendRefused(w, m)
    BY <1>0, <1>f, <2>3, <2>5 DEF SendRefused
  <2>6. CASE SendTransient(w, m)
    <3>1. faults' = faults + 1
      BY <2>6 DEF SendTransient, Fault
    <3> QED
      BY <2>3, <2>4, <3>1 DEF Paid
  <2>7. CASE SendAccepted(w, m)
    <3>1. faults' = faults
      BY <2>7 DEF SendAccepted
    <3>2. CASE n # m
      BY <1>a, <2>3, <2>4, <3>1, <3>2 DEF Paid
    <3>3. CASE n = m
      <4>1. Owes(w, n) /\ ~Owes(w, n)'
        BY <2>0, <2>7, <3>3 DEF Owes
      <4>2. w \in Sources(n) /\ w \notin Sources(n)'
        BY <4>1, SourcesOf
      <4>3. Sources(n)' \subseteq Sources(n) \ {w}
        BY <2>3, <4>2
      <4> QED
        BY <2>4, <3>1, <4>2, <4>3 DEF Paid
    <3> QED
      BY <3>2, <3>3
  <2> QED
    BY <1>4, <2>5, <2>6, <2>7
<1>5. ASSUME NEW w \in Sender, MarkSent(w) \/ MarkFailed(w) \/ ScheduleRetry(w) PROVE Paid(n)
  <2>0. OwnStep(w)
    BY <1>5 DEF OwnStep
  <2>1. PICK row \in Row : RewriteStep(w, row)
    BY <1>5, <1>t, RewriteSteps
  <2>2. UNCHANGED <<mails, faults>> /\ rows[cur[w]].status # "DELETED"
    BY <2>1 DEF RewriteStep
  <2>3. /\ n = cur[w] => ~Owes(w, n)' /\ rows'[n].status = row.status
        /\ n # cur[w] => (Owes(w, n)' => Owes(w, n)) /\ rows'[n] = rows[n]
    BY <1>t, <2>1, DoneOwes
  <2>4. pc[w] \in {"mark", "fail", "retry"} /\ (pc[w] = "mark" => row.status = "SENT")
    BY <1>t, <2>1, RewrittenRow
  <2>5. CASE n # cur[w]
    <3>1. Sources(n)' \subseteq Sources(n)
      BY <1>t, <2>0, <2>3, <2>5, OpenKept, SenderSources
    <3> QED
      BY <1>0, <1>a, <2>2, <3>1
  <2>6. CASE n = cur[w] /\ pc[w] = "mark"
    <3>1. Sources(n)' \subseteq Sources(n)
      BY <1>t, <2>0, <2>3, <2>4, <2>6, OpenKept, SenderSources
    <3> QED
      BY <1>0, <1>a, <2>2, <3>1
  <2>7. CASE n = cur[w] /\ pc[w] # "mark"
    <3>1. Owes(w, n) /\ ~Owes(w, n)'
      BY <2>2, <2>3, <2>4, <2>7 DEF Owes
    <3>2. /\ w \in Sources(n) /\ w \notin Sources(n)'
          /\ Sources(n)' \subseteq Sources(n) \cup {w, None}
      BY <1>t, <2>0, <3>1, SenderSources
    <3>3. Sources(n)' \subseteq (Sources(n) \ {w}) \cup {None}
      BY <3>2
    <3> QED
      BY <1>a, <2>2, <3>2, <3>3 DEF Paid
  <2> QED
    BY <2>5, <2>6, <2>7
<1>6. ASSUME NEW w \in Sender, MarkSentFails(w) PROVE Paid(n)
  <2>0. /\ pc[w] = "mark" /\ pc'[w] = "retry" /\ batch' = batch /\ cur' = cur /\ mails' = mails
        /\ cur[w] \in Note /\ OwnStep(w)
    BY <1>6, <1>a, <1>t, AtHand DEF MarkSentFails, OwnStep
  <2>1. rows'[n] = rows[n] \/ (n = cur[w] /\ rows'[n].status = "SENT")
    BY <1>6, <2>0, <1>a, WrittenRows DEF MarkSentFails
  <2>2. Open(n)' => Open(n)
    BY <2>1, OpenKept
  <2>3. CASE Owes(w, n)' => Owes(w, n)
    <3>1. Sources(n)' \subseteq Sources(n)
      BY <1>t, <2>0, <2>2, <2>3, SenderSources
    <3>2. faults' >= faults
      BY <1>6, <1>f DEF MarkSentFails
    <3> QED
      BY <1>0, <2>0, <3>1, <3>2
  <2>4. CASE ~(Owes(w, n)' => Owes(w, n))
    <3>1. n = cur[w] /\ rows'[n].status # "DELETED"
      BY <2>0, <2>4 DEF Owes
    <3>2. faults' = faults + 1
      BY <1>6, <3>1, <1>a DEF MarkSentFails, Fault
    <3>3. Sources(n)' \subseteq Sources(n) \cup {w}
      BY <1>t, <2>0, <2>2, SenderSources
    <3> QED
      BY <2>0, <3>2, <3>3 DEF Paid
  <2> QED
    BY <2>3, <2>4
<1>7. ASSUME NEW w \in Sender, TickFails(w) \/ Crash(w) PROVE Paid(n)
  <2>0. OwnStep(w) /\ EndTick(w, rows)
    BY <1>7 DEF TickFails, Crash, OwnStep
  <2>1. /\ ~Owes(w, n)'
        /\ rows[n].lockedBy # w => rows'[n] = rows[n]
        /\ rows'[n].status = rows[n].status
    BY <1>t, <2>0, EndTickOwes
  <2>2. /\ mails' = mails /\ faults' >= faults
        /\ faults' = faults + 1 \/ (pc[w] # "mark" /\ rows[cur[w]].status = "DELETED")
    BY <1>7, <1>a DEF TickFails, Crash, Fault
  <2>3. Sources(n)' \subseteq Sources(n) \cup {None} /\ w \notin Sources(n)'
    BY <1>t, <2>0, <2>1, SenderSources
  <2>4. CASE rows[n].lockedBy # w
    <3>1. Sources(n)' \subseteq Sources(n)
      BY <1>t, <2>0, <2>1, <2>4, OpenKept, SenderSources
    <3> QED
      BY <1>0, <2>2, <3>1
  <2>5. CASE rows[n].lockedBy = w /\ Owes(w, n)
    <3>1. w \in Sources(n) /\ Sources(n)' \subseteq (Sources(n) \ {w}) \cup {None}
      BY <2>3, <2>5, SourcesOf
    <3> QED
      BY <2>2, <3>1 DEF Paid
  <2>6. CASE rows[n].lockedBy = w /\ ~Owes(w, n)
    <3>1. rows[n].status = "PENDING"
      BY <2>6, <1>e DEF TokenInv
    <3>2. pc[w] = "mark"
      BY <2>6, <3>1 DEF TokenInv, Owes
    <3>3. faults' = faults + 1
      BY <2>2, <3>2
    <3> QED
      BY <2>2, <2>3, <3>3 DEF Paid
  <2> QED
    BY <2>4, <2>5, <2>6
<1>8. ASSUME UNCHANGED worker, Open(n)' => Open(n) PROVE Sources(n)' \subseteq Sources(n)
  <2>1. \A v \in Sender : SamePlace(v)
    BY <1>8 DEF worker, SamePlace
  <2> QED
    BY <1>8, <1>t, <2>1, OthersOwe, SourcesOf
<1>9. ASSUME NEW m \in Note, Enqueue(m) \/ LeaseRunsOut(m) \/ BackoffOver(m) \/ Sweep(m)
      PROVE  Paid(n)
  <2>1. UNCHANGED worker /\ mails' = mails
    BY <1>9 DEF Enqueue, LeaseRunsOut, BackoffOver, Sweep
  <2>2. faults' >= faults
    BY <1>9, <1>f DEF Enqueue, LeaseRunsOut, BackoffOver, Sweep
  <2>3. CASE Open(n)' => Open(n)
    BY <1>0, <1>8, <2>1, <2>2, <2>3
  <2>4. CASE ~(Open(n)' => Open(n))
    <3>1. LeaseRunsOut(n)
      <4>1. rows'[n] # rows[n]
        BY <2>4 DEF Open
      <4>2. n = m
        BY <1>9, <4>1, <1>a DEF Enqueue, LeaseRunsOut, BackoffOver, Sweep
      <4>3. ~Enqueue(n)
        <5>1. rows[n].status = "ABSENT" => rows[n].lockedBy = None
          BY DEF TokenInv
        <5> QED
          BY <2>4, <5>1, <1>e DEF Enqueue, Open
      <4>4. ~BackoffOver(n)
        BY <2>4, <1>a DEF BackoffOver, Open, Row
      <4>5. ~Sweep(n)
        BY <2>4, <1>a DEF Sweep, Open, NoRow
      <4> QED
        BY <1>9, <4>2, <4>3, <4>4, <4>5
    <3>2. rows'[n].status = rows[n].status
      BY <3>1, <1>a DEF LeaseRunsOut, Row
    <3>3. rows[n].lockedBy \in Sender
      BY <2>4, <3>2 DEF Open
    <3>4. faults' = faults + 1
      BY <3>1, <3>3 DEF LeaseRunsOut, Fault
    <3>5. Sources(n)' \subseteq Sources(n) \cup {None}
      <4>1. \A v \in Sender : SamePlace(v)
        BY <2>1 DEF worker, SamePlace
      <4> QED
        BY <1>t, <4>1, OthersOwe, SourcesOf
    <3> QED
      BY <2>1, <3>4, <3>5 DEF Paid
  <2> QED
    BY <2>3, <2>4
<1>10. ASSUME RedriveFailedNotifications PROVE Paid(n)
  <2>1. PICK picked \in SUBSET FailedRows :
          rows' = [m \in Note |-> IF m \in picked THEN Redriven(rows[m]) ELSE rows[m]]
    BY <1>10 DEF RedriveFailedNotifications
  <2>2. CASE n \in picked
    <3>1. rows[n].status = "FAILED"
      BY <2>2 DEF FailedRows
    <3>2. Open(n)
      BY <3>1, <1>e DEF TokenInv, Open
    <3> QED
      BY <1>0, <1>8, <1>10, <1>a, <3>2 DEF RedriveFailedNotifications
  <2>3. CASE n \notin picked
    <3>1. rows'[n] = rows[n]
      BY <2>1, <2>3
    <3> QED
      BY <1>0, <1>8, <1>10, <1>a, <3>1, OpenKept DEF RedriveFailedNotifications
  <2> QED
    BY <2>2, <2>3
<1>11. ASSUME (\E w \in Sender : PauseOver(w)) \/ UNCHANGED vars PROVE Paid(n)
  <2>1. UNCHANGED <<rows, worker, mails, faults>>
    BY <1>11 DEF PauseOver, vars
  <2> QED
    BY <1>0, <1>8, <1>a, <2>1, OpenKept
<1> QED
  BY <1>1, <1>2, <1>3, <1>4, <1>5, <1>6, <1>7, <1>9, <1>10, <1>11
     DEF Next, SenderStep, SenderFails

\* A mail of a note beyond the first was paid for by a fault: a lost answer, a lost mark, a
\* crash, a failed tick or an outrun lease, even if the provider forgets its keys at once.
\* Redrives, back-offs, refusals and any number of senders add none.
THEOREM MailsPaidFor == Spec => []MailsArePaidFor
<1> DEFINE Inv == TokensAreLive /\ MailsAreBudgeted
<1>1. Init => Inv
  <2> SUFFICES ASSUME Init, NEW n \in Note PROVE TokenInv(n) /\ Budgeted(n)
    BY DEF TokensAreLive, TokenInv, MailsAreBudgeted, Budgeted
  <2>1. TokenInv(n)
    BY SenderTokenAssumption DEF Init, NoRow, TokenInv
  <2>2. \A w \in Sender : ~Owes(w, n)
    BY SenderTokenAssumption DEF Init, NoRow, Owes
  <2>3. Sources(n) \subseteq {None}
    BY <2>2 DEF Sources
  <2>4. IsFiniteSet({None}) /\ Cardinality({None}) = 1
    BY FS_Singleton
  <2>5. IsFiniteSet(Sources(n)) /\ Cardinality(Sources(n)) \in Nat /\ Cardinality(Sources(n)) <= 1
    BY <2>3, <2>4, FS_Subset, FS_CardinalityType
  <2> QED
    BY <2>1, <2>5 DEF Init, Budgeted
<1>2. IInv /\ Inv /\ [Next]_vars => Inv'
  <2> SUFFICES ASSUME IInv, Inv, [Next]_vars, NEW n \in Note PROVE TokenInv(n)' /\ Budgeted(n)'
    BY DEF TokensAreLive, TokenInv, MailsAreBudgeted, Budgeted
  <2>1. TokenInv(n) /\ Budgeted(n) /\ TypeOK /\ CoreTypes /\ ClaimsExist
    BY TypeParts DEF IInv, TokensAreLive, TokenInv, MailsAreBudgeted, Budgeted
  <2>2. TokenInv(n)'
    BY <2>1, TokenStep
  <2>3. mails[n] \in Nat /\ faults \in Nat /\ faults' \in Nat
    BY <2>1, TypeStep DEF TypeOK
  <2> QED
    BY <2>1, <2>2, <2>3, EveryStepPays, PaidKeeps
<1>3. IInv /\ Inv => MailsArePaidFor
  <2> SUFFICES ASSUME IInv, Inv, NEW n \in Note PROVE mails[n] <= 1 + faults
    BY DEF MailsArePaidFor
  <2>1. mails[n] + Cardinality(Sources(n)) <= 1 + faults
    BY DEF MailsAreBudgeted
  <2>2. mails[n] \in Nat /\ faults \in Nat /\ Cardinality(Sources(n)) \in Nat
    BY SourcesFinite, FS_CardinalityType DEF IInv, TypeOK
  <2> QED
    BY <2>1, <2>2
<1> QED
  BY <1>1, <1>2, <1>3, Invariance, PTL DEF Spec

-----------------------------------------------------------------------------
(* The sender implements OutboxContract.                                   *)

\* A step moves at most one row's status, or mails, or redrives.
OneMoves(m) ==
    /\ mails' = mails
    /\ \A n \in Note \ {m} : rows'[n].status = rows[n].status

Mailed(m) ==
    /\ rows' = rows
    /\ rows[m].status # "ABSENT"
    /\ mails' \in {mails, [mails EXCEPT ![m] = @ + 1]}

NothingMoves ==
    /\ mails' = mails
    /\ \A n \in Note : rows'[n].status = rows[n].status

\* The provider mails a note that is claimed, once more or not at all.
LEMMA SendsMail ==
    ASSUME IInv, NEW w \in Sender, NEW m \in Note,
           SendAccepted(w, m) \/ SendRefused(w, m) \/ SendTransient(w, m)
    PROVE  Mailed(m)
<1>1. rows' = rows /\ m \in batch[w]
  BY DEF SendAccepted, SendRefused, SendTransient, NextInBatch
<1>2. rows[m].status # "ABSENT"
  BY <1>1 DEF IInv, ClaimsExist
<1>3. mails \in [Note -> Nat]
  BY DEF IInv, TypeOK
<1>4. mails' = mails \/ Deliver(m)
  BY DEF SendAccepted, SendRefused, SendTransient
<1>5. mails' \in {mails, [mails EXCEPT ![m] = @ + 1]}
  BY <1>3, <1>4, DeliverMails
<1> QED
  BY <1>1, <1>2, <1>5 DEF Mailed

LEMMA OneRowMoves ==
    ASSUME IInv, [Next]_vars, ~RedriveFailedNotifications
    PROVE  NothingMoves \/ \E m \in Note : OneMoves(m) \/ Mailed(m)
<1>t. CoreTypes
  BY TypeParts DEF IInv
<1>a. rows \in [Note -> Row]
  BY <1>t DEF CoreTypes
<1>0. ASSUME rows' = rows, mails' = mails PROVE NothingMoves
  BY <1>0 DEF NothingMoves
<1>1. ASSUME NEW S \in Claims, NEW token, rows' = Stamped(S, token), mails' = mails
      PROVE  NothingMoves
  <2>1. ASSUME NEW n \in Note PROVE rows'[n].status = rows[n].status
    <3>1. \/ rows'[n] = rows[n]
          \/ rows'[n] = [rows[n] EXCEPT !.lockedBy = token, !.lease = "held"]
      BY <1>1 DEF Stamped
    <3> QED
      BY <3>1, <1>a DEF Row
  <2> QED
    BY <1>1, <2>1 DEF NothingMoves
<1>2. ASSUME NEW w \in Sender, EndTick(w, rows), mails' = mails PROVE NothingMoves
  <2>1. ASSUME NEW n \in Note PROVE rows'[n].status = rows[n].status
    <3>1. LeftAs(w, rows[n], rows'[n])
      BY <1>2, <1>t, <1>a, EndTickMoves DEF Moves
    <3> QED
      BY <3>1, <1>a, LeftKeeps
  <2> QED
    BY <1>2, <2>1 DEF NothingMoves
<1>3. ASSUME NEW w \in Sender, ClaimStamp(w) PROVE NothingMoves
  <2>1. PICK S \in Claims : rows' = Stamped(S, w)
    BY <1>3 DEF ClaimStamp
  <2> QED
    BY <1>3, <1>1, <2>1 DEF ClaimStamp
<1>4. ASSUME NEW w \in Sender, ClaimFails(w) PROVE NothingMoves
  <2>1. mails' = mails
    BY <1>4 DEF ClaimFails
  <2>2. CASE rows' = rows
    BY <2>1, <2>2, <1>0
  <2>3. CASE rows' \in {Stamped(S, Abandoned) : S \in Claims}
    <3>1. PICK S \in Claims : rows' = Stamped(S, Abandoned)
      BY <2>3
    <3> QED
      BY <3>1, <2>1, <1>1, <1>4
  <2>4. rows' \in {rows} \cup {Stamped(S, Abandoned) : S \in Claims}
    BY <1>4 DEF ClaimFails
  <2> QED
    BY <2>2, <2>3, <2>4
<1>5. ASSUME NEW w \in Sender, StartBatch(w) PROVE NothingMoves
  <2>1. mails' = mails /\ (EndTick(w, rows) \/ rows' = rows)
    BY <1>5 DEF StartBatch
  <2> QED
    BY <2>1, <1>0, <1>2
<1>6. ASSUME NEW w \in Sender, NEW m \in Note,
             SendAccepted(w, m) \/ SendRefused(w, m) \/ SendTransient(w, m)
      PROVE  Mailed(m)
  BY <1>6, SendsMail
<1>7. ASSUME NEW w \in Sender, MarkSent(w) \/ MarkFailed(w) \/ ScheduleRetry(w)
      PROVE  \E m \in Note : OneMoves(m)
  <2>1. PICK row \in Row : RewriteStep(w, row)
    BY <1>7, <1>t, RewriteSteps
  <2>2. pc[w] \in {"mark", "fail", "retry"} /\ mails' = mails
    BY <2>1 DEF RewriteStep
  <2>3. PICK m \in Note : m = cur[w]
    BY <2>2, <1>t, AtHand
  <2>4. ASSUME NEW n \in Note \ {m} PROVE rows'[n].status = rows[n].status
    <3>1. LeftAs(w, Rewritten(w, row)[n], rows'[n])
      BY <2>1, <2>2, <1>t, RewriteMoves DEF RewriteStep, Moves
    <3>2. LeftAs(w, rows[n], rows'[n])
      BY <3>1, <2>3, <1>a DEF Rewritten
    <3> QED
      BY <3>2, <1>a, LeftKeeps
  <2> QED
    BY <2>2, <2>4 DEF OneMoves
<1>8. ASSUME NEW w \in Sender, MarkSentFails(w) PROVE \E m \in Note : OneMoves(m)
  <2>1. PICK m \in Note : m = cur[w]
    BY <1>8, <1>t, AtHand DEF MarkSentFails
  <2>2. mails' = mails /\ \A n \in Note \ {m} : rows'[n] = rows[n]
    BY <1>8, <2>1, <1>a DEF MarkSentFails
  <2> QED
    BY <2>2 DEF OneMoves
<1>9. ASSUME NEW w \in Sender, TickFails(w) \/ Crash(w) PROVE NothingMoves
  BY <1>9, <1>2 DEF TickFails, Crash
<1>10. ASSUME NEW m \in Note, Enqueue(m) \/ LeaseRunsOut(m) \/ BackoffOver(m) \/ Sweep(m)
       PROVE  OneMoves(m)
  BY <1>10, <1>a DEF Enqueue, LeaseRunsOut, BackoffOver, Sweep, OneMoves
<1>11. ASSUME (\E w \in Sender : PauseOver(w)) \/ UNCHANGED vars PROVE NothingMoves
  BY <1>11 DEF PauseOver, vars, NothingMoves
<1> QED
  BY <1>3, <1>4, <1>5, <1>6, <1>7, <1>8, <1>9, <1>10, <1>11 DEF Next, SenderStep, SenderFails

LEMMA ContractInit == Init => Contract!Init
  BY DEF Init, NoRow, Contract!Init

\* The stage the contract knows a row by.
Staged(row) == IF row.status = "SENT" THEN "PUBLISHED" ELSE row.status

\* A stage that moves to x is a move of the contract.
LEMMA StageMoves ==
    ASSUME NEW m \in Note, OneMoves(m), NEW x, Staged(rows'[m]) = x
    PROVE  Contract!Move(m, x) /\ UNCHANGED mails
  BY DEF OneMoves, Contract!Move, Staged

LEMMA ContractStep ==
    ASSUME IInv, [Next]_vars
    PROVE  [Contract!Next]_(Contract!vars)
<1>a. rows \in [Note -> Row] /\ rows' \in [Note -> Row] /\ mails \in [Note -> Nat]
  BY TypeStep DEF IInv, TypeOK
<1>t. CoreTypes
  BY TypeParts DEF IInv
<1>1. CASE RedriveFailedNotifications
  <2>1. PICK picked \in SUBSET FailedRows :
          /\ rows' = [n \in Note |-> IF n \in picked THEN Redriven(rows[n]) ELSE rows[n]]
          /\ mails' = mails
    BY <1>1 DEF RedriveFailedNotifications
  <2>2. picked \in SUBSET Note /\ \A n \in picked : rows[n].status = "FAILED"
    BY DEF FailedRows
  <2>3. \A n \in Note :
          rows'[n].status = IF n \in picked THEN "PENDING" ELSE rows[n].status
    BY <2>1, <1>a, WrittenRows
  <2>4. Contract!Revive(picked)
    BY <2>1, <2>2, <2>3 DEF Contract!Revive
  <2> QED
    BY <2>2, <2>4 DEF Contract!Next
<1>2. CASE NothingMoves
  BY <1>2 DEF NothingMoves, Contract!vars
<1>3. ASSUME NEW m \in Note, Mailed(m) PROVE [Contract!Next]_(Contract!vars)
  <2>1. CASE mails' = mails
    BY <1>3, <2>1 DEF Mailed, Contract!vars
  <2>2. CASE mails' = [mails EXCEPT ![m] = @ + 1]
    <3>1. Contract!Deliver(m)
      BY <1>3, <2>2 DEF Mailed, Contract!Deliver
    <3> QED
      BY <3>1 DEF Contract!Next
  <2> QED
    BY <1>3, <2>1, <2>2 DEF Mailed
<1>4. ASSUME NEW m \in Note, OneMoves(m) PROVE [Contract!Next]_(Contract!vars)
  <2>1. rows[m] \in Row /\ rows'[m] \in Row
    BY <1>a
  <2>2. CASE rows'[m].status = rows[m].status
    BY <1>4, <2>2 DEF OneMoves, Contract!vars
  <2>3. CASE Enqueued(m)
    <3>1. Contract!Commit(m)
      BY <1>4, <2>3, StageMoves DEF Enqueued, Staged, Contract!Commit
    <3> QED
      BY <3>1 DEF Contract!Next
  <2>4. CASE PutBack(m)
    <3>1. Contract!Revive({m})
      BY <1>4, <2>4 DEF OneMoves, PutBack, Contract!Revive
    <3> QED
      BY <3>1 DEF Contract!Next
  <2>5. CASE Swept(m)
    <3>1. Contract!Forget(m)
      BY <1>4, <2>5, StageMoves DEF Swept, Staged, Contract!Forget
    <3> QED
      BY <3>1 DEF Contract!Next
  <2>6. ASSUME NEW w \in Sender, MarkedBy(w, m), rows'[m].status # rows[m].status
        PROVE  [Contract!Next]_(Contract!vars)
    <3>1. mails[m] >= 1 /\ rows[m].status \notin {"ABSENT", "DELETED"}
      BY <2>6 DEF MarkedBy, AtWork, IInv, MarksWereAnswered, ClaimsExist
    <3>2. rows[m].status \in {"PENDING", "FAILED"}
      BY <2>1, <2>6, <3>1 DEF MarkedBy, Row, RowStatus
    <3>3. Contract!Move(m, "PUBLISHED") /\ UNCHANGED mails
      BY <1>4, <2>6, StageMoves DEF MarkedBy, Staged
    <3>4. Contract!Settle(m)
      BY <3>1, <3>2, <3>3 DEF Contract!Settle
    <3> QED
      BY <3>4 DEF Contract!Next
  <2>7. ASSUME NEW w \in Sender, RetriedBy(w, m) \/ RefusedBy(w, m),
               rows'[m].status # rows[m].status
        PROVE  [Contract!Next]_(Contract!vars)
    <3>1. rows[m].status \notin {"ABSENT", "DELETED"}
      BY <2>7 DEF RetriedBy, RefusedBy, AtWork, IInv, ClaimsExist
    <3>2. rows[m].status \in {"PENDING", "SENT"} /\ rows'[m].status = "FAILED"
      BY <2>1, <2>7, <3>1 DEF RetriedBy, RefusedBy, Row, RowStatus
    <3>3. Contract!Move(m, "FAILED") /\ UNCHANGED mails
      BY <1>4, <3>2, StageMoves DEF Staged
    <3>4. Contract!GiveUp(m)
      BY <3>2, <3>3 DEF Contract!GiveUp
    <3> QED
      BY <3>4 DEF Contract!Next
  <2> QED
    BY <1>t, <2>2, <2>3, <2>4, <2>5, <2>6, <2>7, EveryRowMoves DEF RowMove, SameProgress
<1> QED
  BY <1>1, <1>2, <1>3, <1>4, OneRowMoves

\* Any number of senders, with their faults, breakers, redrives and sweeps, keep the
\* contract of the outboxes.
THEOREM Implementation == Spec => ContractKept
<1>1. IInv /\ [Next]_vars => [Contract!Next]_(Contract!vars)
  BY ContractStep
<1> QED
  BY <1>1, ContractInit, Invariance, PTL DEF Spec, ContractKept, Contract!Spec

=============================================================================
