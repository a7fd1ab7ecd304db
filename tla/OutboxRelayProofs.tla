-------------------------- MODULE OutboxRelayProofs --------------------------
(***************************************************************************)
(* Proofs about OutboxRelay for all finite sets of events and relays, any  *)
(* batch size and any number of attempts: its types, that no event is lost *)
(* or given up early, that a row has one holder while its lease carries,   *)
(* that a published row is final, that a fault pays for every copy beyond  *)
(* the first, and that the relay implements OutboxContract.                *)
(***************************************************************************)
EXTENDS OutboxRelay, FiniteSetTheorems, TLAPS

-----------------------------------------------------------------------------
(* Rows and the end of a row or a tick.                                    *)

\* What any change of a row's columns keeps of its type.
LEMMA RowTypes ==
    /\ NoRow \in Row
    /\ \A row \in Row, s \in RowStatus : [row EXCEPT !.status = s] \in Row
    /\ \A row \in Row, t \in Relay \cup {None, Abandoned} : [row EXCEPT !.lockedBy = t] \in Row
    /\ \A row \in Row, t \in Relay \cup {None, Abandoned} :
          [row EXCEPT !.lockedBy = t, !.lease = "held"] \in Row
    /\ \A row \in Row : [row EXCEPT !.lease = "over"] \in Row
    /\ \A row \in Row : [row EXCEPT !.due = "now"] \in Row
  BY DEF NoRow, Row, RowStatus

\* What markPublished and a redrive make of a row.
LEMMA WrittenRows ==
    ASSUME NEW row \in Row
    PROVE  /\ Published(row) \in Row
           /\ Published(row).status = "PUBLISHED" /\ Published(row).attempts = row.attempts
           /\ Published(row).lockedBy = None
           /\ Redriven(row) \in Row
           /\ Redriven(row).status = "PENDING" /\ Redriven(row).attempts = 0
           /\ Redriven(row).lockedBy = None
  BY DEF Published, Redriven, Unlocked, Row, RowStatus

\* What scheduleRetry makes of a row.
LEMMA RetriedRows ==
    ASSUME NEW row \in Row, NEW n \in Nat
    PROVE  /\ Retried(row, n) \in Row
           /\ Retried(row, n).status \in {row.status, "FAILED"}
           /\ Retried(row, n).status = "FAILED" => row.status = "FAILED" \/ n >= MaxAttempts
           /\ Retried(row, n).attempts = n
           /\ Retried(row, n).lockedBy = None
<1>1. CASE n >= MaxAttempts
  BY <1>1 DEF Retried, Unlocked, Row, RowStatus
<1>2. CASE ~(n >= MaxAttempts)
  BY <1>2 DEF Retried, Unlocked, Row, RowStatus
<1> QED
  BY <1>1, <1>2

\* A row of the table the process leaves: its token may have become Abandoned.
LeftAs(w, before, after) ==
    \/ after = before
    \/ before.lockedBy = w /\ after = [before EXCEPT !.lockedBy = Abandoned]

\* What w's finishing a row or a tick with a table does to every variable it touches.
Moves(w, table, left) ==
    /\ rows' \in [Event -> Row]
    /\ \A e \in Event : LeftAs(w, table[e], rows'[e])
    /\ \A e \in Event : pc'[w] = "idle" => rows'[e].lockedBy # w
    /\ \A e \in Event : pc'[w] # "idle" => rows'[e] = table[e]
    /\ pc' \in [Relay -> PcLabels]
    /\ pc'[w] \in {"idle", "publish"}
    /\ pc'[w] = "idle" => left = {}
    /\ \A v \in Relay \ {w} : pc'[v] = pc[v] /\ batch'[v] = batch[v] /\ cur'[v] = cur[v]
    /\ batch' \in [Relay -> SUBSET Event]
    /\ batch'[w] = left
    /\ snap' \in [Relay -> [Event -> Nat]]
    /\ \A v \in Relay, e \in Event : snap'[v][e] \in {0, snap[v][e]}
    /\ \A v \in Relay \ {w}, e \in Event : snap'[v][e] = snap[v][e]
    /\ cur' \in [Relay -> Event \cup {None}]

\* The end of a tick.
LEMMA EndTickMoves ==
    ASSUME TypeOK, NEW w \in Relay, NEW table \in [Event -> Row], EndTick(w, table)
    PROVE  Moves(w, table, {})
<1>1. /\ pc' \in [Relay -> PcLabels] /\ pc'[w] = "idle"
      /\ batch' \in [Relay -> SUBSET Event] /\ batch'[w] = {}
      /\ cur' \in [Relay -> Event \cup {None}]
      /\ \A v \in Relay \ {w} : pc'[v] = pc[v] /\ batch'[v] = batch[v] /\ cur'[v] = cur[v]
  BY DEF EndTick, TypeOK, PcLabels
<1>2. /\ snap' \in [Relay -> [Event -> Nat]]
      /\ \A v \in Relay, e \in Event : snap'[v][e] \in {0, snap[v][e]}
      /\ \A v \in Relay \ {w}, e \in Event : snap'[v][e] = snap[v][e]
  <2>1. [e \in Event |-> 0] \in [Event -> Nat]
    OBVIOUS
  <2> QED
    BY <2>1 DEF EndTick, TypeOK
<1>3. rows' = [e \in Event |-> IF table[e].lockedBy = w
                               THEN [table[e] EXCEPT !.lockedBy = Abandoned] ELSE table[e]]
  BY DEF EndTick, Abandon
<1>4. ASSUME NEW e \in Event
      PROVE  rows'[e] \in Row /\ LeftAs(w, table[e], rows'[e]) /\ rows'[e].lockedBy # w
  <2>1. CASE table[e].lockedBy # w
    <3>1. rows'[e] = table[e]
      BY <1>3, <2>1
    <3> QED
      BY <2>1, <3>1 DEF LeftAs
  <2>2. CASE table[e].lockedBy = w
    <3>1. rows'[e] = [table[e] EXCEPT !.lockedBy = Abandoned]
      BY <1>3, <2>2
    <3>2. rows'[e] \in Row
      BY <3>1 DEF Row
    <3>3. rows'[e].lockedBy # w
      BY <3>1, TokenAssumption DEF Row
    <3> QED
      BY <2>2, <3>1, <3>2, <3>3 DEF LeftAs
  <2> QED
    BY <2>1, <2>2
<1>5. rows' \in [Event -> Row]
  BY <1>3, <1>4
<1> QED
  BY <1>1, <1>2, <1>4, <1>5 DEF Moves

\* The end of a row, which may be the last of its batch.
LEMMA RowDoneMoves ==
    ASSUME TypeOK, NEW w \in Relay, NEW table \in [Event -> Row], RowDone(w, table),
           cur[w] \in batch[w]
    PROVE  Moves(w, table, batch[w] \ {cur[w]})
<1>1. CASE batch[w] = {cur[w]}
  <2>1. Moves(w, table, {})
    BY <1>1, EndTickMoves DEF RowDone
  <2> QED
    BY <1>1, <2>1
<1>2. CASE batch[w] # {cur[w]}
  <2>1. /\ rows' = table
        /\ batch' = [batch EXCEPT ![w] = @ \ {cur[w]}]
        /\ pc' = [pc EXCEPT ![w] = "publish"]
        /\ snap' = [snap EXCEPT ![w][cur[w]] = 0]
        /\ cur' = [cur EXCEPT ![w] = None]
    BY <1>2 DEF RowDone
  <2>2. /\ pc' \in [Relay -> PcLabels] /\ pc'[w] = "publish"
        /\ batch' \in [Relay -> SUBSET Event] /\ batch'[w] = batch[w] \ {cur[w]}
        /\ cur' \in [Relay -> Event \cup {None}]
        /\ \A v \in Relay \ {w} : pc'[v] = pc[v] /\ batch'[v] = batch[v] /\ cur'[v] = cur[v]
    BY <2>1 DEF TypeOK, PcLabels
  <2>3. /\ snap' \in [Relay -> [Event -> Nat]]
        /\ \A v \in Relay, e \in Event : snap'[v][e] \in {0, snap[v][e]}
        /\ \A v \in Relay \ {w}, e \in Event : snap'[v][e] = snap[v][e]
    BY <2>1 DEF TypeOK
  <2> QED
    BY <2>1, <2>2, <2>3 DEF Moves, LeftAs
<1> QED
  BY <1>1, <1>2

-----------------------------------------------------------------------------
(* Types.                                                                  *)

LEMMA TypeInit == Init => TypeOK
<1> SUFFICES ASSUME Init PROVE TypeOK
  OBVIOUS
<1>1. rows \in [Event -> Row]
  BY RowTypes DEF Init
<1>2. snap \in [Relay -> [Event -> Nat]]
  BY DEF Init
<1> QED
  BY <1>1, <1>2 DEF Init, TypeOK, PcLabels

\* A process that moves on has nothing at hand to mark.
LEMMA MovesTypes ==
    ASSUME TypeOK, NEW w \in Relay, NEW table, NEW left, Moves(w, table, left),
           UNCHANGED <<copies, failures, upset, redrives>>, faults' \in Nat
    PROVE  TypeOK'
<1>1. \A v \in Relay : pc'[v] \in {"mark", "retry"} => cur'[v] \in batch'[v]
  BY DEF Moves, TypeOK
<1> QED
  BY <1>1 DEF Moves, TypeOK

\* A claim stamps rows.
LEMMA StampedType ==
    ASSUME TypeOK, NEW token \in Relay \cup {Abandoned}
    PROVE  /\ Stamped(token) \in [Event -> Row]
           /\ \A e \in Event : \/ Stamped(token)[e] = rows[e]
                               \/ /\ rows[e].lease # "held"
                                  /\ rows[e].status = "PENDING"
                                  /\ Stamped(token)[e]
                                        = [rows[e] EXCEPT !.lockedBy = token, !.lease = "held"]
<1>1. ASSUME NEW e \in Event
      PROVE  /\ Stamped(token)[e] \in Row
             /\ \/ Stamped(token)[e] = rows[e]
                \/ /\ rows[e].lease # "held" /\ rows[e].status = "PENDING"
                   /\ Stamped(token)[e] = [rows[e] EXCEPT !.lockedBy = token, !.lease = "held"]
  <2>1. CASE e \in ToClaim
    <3>1. Claimable(rows[e])
      BY <2>1 DEF ToClaim
    <3>2. Stamped(token)[e] = [rows[e] EXCEPT !.lockedBy = token, !.lease = "held"]
      BY <2>1 DEF Stamped
    <3>3. rows[e] \in Row
      BY DEF TypeOK
    <3>4. Stamped(token)[e] \in Row
      BY <3>2, <3>3 DEF Row
    <3> QED
      BY <3>1, <3>2, <3>4 DEF Claimable
  <2>2. CASE e \notin ToClaim
    BY <2>2 DEF Stamped, TypeOK
  <2> QED
    BY <2>1, <2>2
<1>2. Stamped(token) \in [Event -> Row]
  BY <1>1 DEF Stamped
<1> QED
  BY <1>1, <1>2

\* A step that only rewrites rows keeps the types.
LEMMA RowsOnly ==
    ASSUME TypeOK, rows' \in [Event -> Row], UNCHANGED worker, UNCHANGED <<copies, failures>>,
           upset' \subseteq Event, faults' \in Nat, redrives' \in Nat
    PROVE  TypeOK'
  BY DEF TypeOK, worker

\* A mark: the row at hand becomes PUBLISHED, and the process moves on.
LEMMA MarkFacts ==
    ASSUME TypeOK, NEW w \in Relay, MarkPublished(w)
    PROVE  /\ cur[w] \in batch[w] /\ cur[w] \in Event
           /\ [rows EXCEPT ![cur[w]] = Published(@)] \in [Event -> Row]
           /\ Moves(w, [rows EXCEPT ![cur[w]] = Published(@)], batch[w] \ {cur[w]})
<1>1. cur[w] \in batch[w] /\ cur[w] \in Event
  BY DEF MarkPublished, TypeOK
<1>2. rows \in [Event -> Row]
  BY DEF TypeOK
<1>3. [rows EXCEPT ![cur[w]] = Published(@)] \in [Event -> Row]
  BY <1>1, <1>2, WrittenRows
<1> QED
  BY <1>1, <1>3, RowDoneMoves DEF MarkPublished

\* A retry: the row at hand gets its new count, and the process moves on.
LEMMA RetryFacts ==
    ASSUME TypeOK, NEW w \in Relay, ScheduleRetry(w)
    PROVE  /\ cur[w] \in batch[w] /\ cur[w] \in Event /\ snap[w][cur[w]] + 1 \in Nat
           /\ [rows EXCEPT ![cur[w]] = Retried(@, snap[w][cur[w]] + 1)] \in [Event -> Row]
           /\ Moves(w, [rows EXCEPT ![cur[w]] = Retried(@, snap[w][cur[w]] + 1)],
                    batch[w] \ {cur[w]})
<1>1. cur[w] \in batch[w] /\ cur[w] \in Event
  BY DEF ScheduleRetry, TypeOK
<1>2. rows \in [Event -> Row] /\ snap[w] \in [Event -> Nat]
  BY DEF TypeOK
<1>3. snap[w][cur[w]] + 1 \in Nat
  BY <1>1, <1>2
<1>4. Retried(rows[cur[w]], snap[w][cur[w]] + 1) \in Row
  BY <1>1, <1>2, <1>3, RetriedRows
<1>5. [rows EXCEPT ![cur[w]] = Retried(@, snap[w][cur[w]] + 1)] \in [Event -> Row]
  BY <1>2, <1>4
<1> QED
  BY <1>1, <1>3, <1>5, RowDoneMoves DEF ScheduleRetry

\* Every step keeps the types.
LEMMA TypeStep == TypeOK /\ [Next]_vars => TypeOK'
<1> SUFFICES ASSUME TypeOK, [Next]_vars PROVE TypeOK'
  OBVIOUS
<1>a. rows \in [Event -> Row]
  BY DEF TypeOK
<1>1. ASSUME NEW w \in Relay, ClaimStamp(w) PROVE TypeOK'
  BY <1>1, StampedType DEF ClaimStamp, history, TypeOK, PcLabels
<1>2. ASSUME NEW w \in Relay, ClaimUnanswered(w) PROVE TypeOK'
  <2>1. rows' \in [Event -> Row]
    BY <1>2, StampedType DEF ClaimUnanswered
  <2>2. /\ UNCHANGED worker /\ UNCHANGED <<copies, failures>>
        /\ upset' \subseteq Event /\ faults' \in Nat /\ redrives' \in Nat
    BY <1>2 DEF ClaimUnanswered, history, Fault, TypeOK
  <2> QED
    BY <2>1, <2>2, RowsOnly
<1>3. ASSUME NEW w \in Relay, StartBatch(w) PROVE TypeOK'
  <2>1. CASE ClaimRead(w) = {}
    BY <1>3, <2>1, <1>a, EndTickMoves, MovesTypes DEF StartBatch, history, TypeOK
  <2>2. CASE ClaimRead(w) # {}
    <3>1. [e \in Event |-> IF e \in ClaimRead(w) THEN rows[e].attempts ELSE 0]
              \in [Event -> Nat]
      BY <1>a DEF Row
    <3>2. snap' \in [Relay -> [Event -> Nat]]
      BY <1>3, <2>2, <3>1 DEF StartBatch, TypeOK
    <3>3. batch' \in [Relay -> SUBSET Event]
      BY <1>3, <2>2 DEF StartBatch, ClaimRead, TypeOK
    <3>4. \A v \in Relay : pc'[v] \in {"mark", "retry"} => cur'[v] \in batch'[v]
      BY <1>3, <2>2 DEF StartBatch, TypeOK
    <3> QED
      BY <1>3, <2>2, <3>2, <3>3, <3>4 DEF StartBatch, history, TypeOK, PcLabels
  <2> QED
    BY <2>1, <2>2
<1>4. ASSUME NEW w \in Relay, NEW e \in Event, PublishConfirmed(w, e) PROVE TypeOK'
  BY <1>4 DEF PublishConfirmed, NextInBatch, TypeOK, PcLabels
<1>5. ASSUME NEW w \in Relay, NEW e \in Event, PublishRejected(w, e) PROVE TypeOK'
  <2>1. copies' \in [Event -> Nat] /\ failures' \in [Event -> Nat] /\ faults' \in Nat
    BY <1>5 DEF PublishRejected, Fault, TypeOK
  <2>2. \A v \in Relay : pc'[v] \in {"mark", "retry"} => cur'[v] \in batch'[v]
    BY <1>5 DEF PublishRejected, NextInBatch, TypeOK
  <2> QED
    BY <1>5, <2>1, <2>2 DEF PublishRejected, TypeOK, PcLabels
<1>6. ASSUME NEW w \in Relay, MarkPublished(w) PROVE TypeOK'
  BY <1>6, MarkFacts, MovesTypes DEF MarkPublished, history, TypeOK
<1>7. ASSUME NEW w \in Relay, MarkFailed(w) PROVE TypeOK'
  <2>1. cur[w] \in batch[w] /\ cur[w] \in Event
    BY <1>7 DEF MarkFailed, TypeOK
  <2>2. [rows EXCEPT ![cur[w]] = Published(@)] \in [Event -> Row]
    BY <2>1, <1>a, WrittenRows
  <2>3. rows' \in [Event -> Row] /\ upset' \subseteq Event /\ faults' \in Nat
    BY <1>7, <1>a, <2>1, <2>2 DEF MarkFailed, Fault, TypeOK
  <2>4. failures' \in [Event -> Nat]
    BY <1>7, <2>1 DEF MarkFailed, TypeOK
  <2>5. \A v \in Relay : pc'[v] \in {"mark", "retry"} => cur'[v] \in batch'[v]
    BY <1>7, <2>1 DEF MarkFailed, TypeOK
  <2> QED
    BY <1>7, <2>3, <2>4, <2>5 DEF MarkFailed, TypeOK, PcLabels
<1>8. ASSUME NEW w \in Relay, ScheduleRetry(w) PROVE TypeOK'
  BY <1>8, RetryFacts, MovesTypes DEF ScheduleRetry, history, TypeOK
<1>9. ASSUME NEW w \in Relay, TickFails(w) PROVE TypeOK'
  <2>1. faults' \in Nat
    BY <1>9 DEF TickFails, Fault, TypeOK
  <2> QED
    BY <1>9, <1>a, <2>1, EndTickMoves, MovesTypes DEF TickFails, history
<1>10. ASSUME NEW e \in Event, Outside(e) PROVE TypeOK'
  <2>1. rows' \in [Event -> Row]
    BY <1>10, <1>a DEF Outside, Insert, LeaseRunsOut, BackoffOver, Sweep, NoRow, Row, RowStatus
  <2>2. upset' \subseteq Event /\ faults' \in Nat /\ UNCHANGED <<copies, failures, redrives>>
    BY <1>10 DEF Outside, Insert, LeaseRunsOut, BackoffOver, Sweep, history, Fault, TypeOK
  <2>3. UNCHANGED worker
    BY <1>10 DEF Outside, Insert, LeaseRunsOut, BackoffOver, Sweep
  <2> QED
    BY <2>1, <2>2, <2>3, RowsOnly DEF TypeOK
<1>11. ASSUME RedriveFailedOutboxEvents PROVE TypeOK'
  <2>1. PICK picked \in SUBSET FailedRows :
          rows' = [e \in Event |-> IF e \in picked THEN Redriven(rows[e]) ELSE rows[e]]
    BY <1>11 DEF RedriveFailedOutboxEvents
  <2>2. rows' \in [Event -> Row]
    BY <2>1, <1>a, WrittenRows
  <2> QED
    BY <1>11, <2>2, RowsOnly DEF RedriveFailedOutboxEvents, history, TypeOK
<1>12. ASSUME UNCHANGED vars PROVE TypeOK'
  BY <1>12 DEF vars, worker, history, TypeOK
<1> QED
  BY <1>1, <1>2, <1>3, <1>4, <1>5, <1>6, <1>7, <1>8, <1>9, <1>10, <1>11, <1>12
     DEF Next, RelayStep, RelayFails

\* Every variable keeps the type the schema and the worker give it, whatever fails.
THEOREM TypeCorrect == Spec => []TypeOK
<1>1. Init => TypeOK
  BY TypeInit
<1>2. TypeOK /\ [Next]_vars => TypeOK'
  BY TypeStep
<1> QED
  BY <1>1, <1>2, PTL DEF Spec

-----------------------------------------------------------------------------
(* What one step does to a row.                                            *)

SameProgress(e) ==
    rows'[e].status = rows[e].status /\ rows'[e].attempts = rows[e].attempts

Inserted(e) ==
    rows[e].status = "ABSENT" /\ rows'[e].status = "PENDING" /\ rows'[e].attempts = 0

MarkedBy(w, e) ==
    /\ pc[w] = "mark" /\ cur[w] = e /\ e \in batch[w]
    /\ rows'[e].status = "PUBLISHED" /\ rows'[e].attempts = rows[e].attempts
    /\ rows[e].status # "DELETED"

RetriedBy(w, e) ==
    /\ pc[w] = "retry" /\ cur[w] = e /\ e \in batch[w]
    /\ rows[e].status # "DELETED"
    /\ rows'[e].status \in {rows[e].status, "FAILED"}
    /\ rows'[e].status = "FAILED" =>
          rows[e].status = "FAILED" \/ snap[w][e] + 1 >= MaxAttempts
    /\ rows'[e].attempts = snap[w][e] + 1

PutBack(e) ==
    rows[e].status = "FAILED" /\ rows'[e].status = "PENDING" /\ rows'[e].attempts = 0

Swept(e) ==
    /\ rows[e].status \in {"PUBLISHED", "FAILED"}
    /\ rows'[e].status = "DELETED" /\ rows'[e].attempts = 0

RowMove(e) ==
    \/ SameProgress(e) \/ Inserted(e) \/ PutBack(e) \/ Swept(e)
    \/ \E w \in Relay : MarkedBy(w, e) \/ RetriedBy(w, e)

\* An abandoned token changes nothing else of the row.
LEMMA LeftKeeps ==
    ASSUME NEW w, NEW before \in Row, NEW after, LeftAs(w, before, after)
    PROVE  /\ after.status = before.status /\ after.attempts = before.attempts
           /\ after.lease = before.lease
           /\ (after.lockedBy = before.lockedBy \/ (before.lockedBy = w /\ after.lockedBy = Abandoned))
<1>1. CASE after = before
  BY <1>1
<1>2. CASE before.lockedBy = w /\ after = [before EXCEPT !.lockedBy = Abandoned]
  BY <1>2 DEF Row
<1> QED
  BY <1>1, <1>2 DEF LeftAs

\* Every step does one of these to each row.
LEMMA EveryRowMoves ==
    ASSUME TypeOK, [Next]_vars, NEW e \in Event
    PROVE  RowMove(e)
<1>a. rows \in [Event -> Row] /\ rows[e] \in Row
  BY DEF TypeOK
<1>1. ASSUME NEW w \in Relay, ClaimStamp(w) \/ ClaimUnanswered(w) PROVE RowMove(e)
  <2>1. PICK token \in Relay \cup {Abandoned} : rows' = Stamped(token)
    BY <1>1 DEF ClaimStamp, ClaimUnanswered
  <2>2. \/ rows'[e] = rows[e]
        \/ rows'[e] = [rows[e] EXCEPT !.lockedBy = token, !.lease = "held"]
    BY <2>1, StampedType
  <2>3. SameProgress(e)
    BY <2>2, <1>a DEF SameProgress, Row
  <2> QED
    BY <2>3 DEF RowMove
<1>2. ASSUME NEW w \in Relay, EndTick(w, rows) PROVE RowMove(e)
  <2>1. LeftAs(w, rows[e], rows'[e])
    BY <1>2, <1>a, EndTickMoves DEF Moves
  <2>2. SameProgress(e)
    BY <2>1, <1>a, LeftKeeps DEF SameProgress
  <2> QED
    BY <2>2 DEF RowMove
<1>3. ASSUME rows' = rows PROVE RowMove(e)
  BY <1>3 DEF RowMove, SameProgress
<1>4. ASSUME NEW w \in Relay, StartBatch(w) PROVE RowMove(e)
  BY <1>4, <1>2, <1>3 DEF StartBatch
<1>5. ASSUME NEW w \in Relay, MarkPublished(w) PROVE RowMove(e)
  <2>1. LeftAs(w, [rows EXCEPT ![cur[w]] = Published(@)][e], rows'[e])
    BY <1>5, MarkFacts DEF Moves
  <2>2. CASE e = cur[w]
    <3>1. [rows EXCEPT ![cur[w]] = Published(@)][e] = Published(rows[e])
      BY <2>2, <1>a
    <3>2. LeftAs(w, Published(rows[e]), rows'[e])
      BY <2>1, <3>1
    <3>3. rows'[e].status = "PUBLISHED" /\ rows'[e].attempts = rows[e].attempts
      BY <3>2, <1>a, WrittenRows, LeftKeeps
    <3>4. MarkedBy(w, e)
      BY <1>5, <2>2, <3>3, MarkFacts DEF MarkedBy, MarkPublished
    <3> QED
      BY <3>4 DEF RowMove
  <2>3. CASE e # cur[w]
    <3>1. LeftAs(w, rows[e], rows'[e])
      BY <2>1, <2>3, <1>a
    <3> QED
      BY <3>1, <1>a, LeftKeeps DEF RowMove, SameProgress
  <2> QED
    BY <2>2, <2>3
<1>6. ASSUME NEW w \in Relay, MarkFailed(w) PROVE RowMove(e)
  <2>1. CASE rows' = rows
    BY <2>1, <1>3
  <2>2. CASE /\ rows[cur[w]].status # "DELETED"
             /\ rows' = [rows EXCEPT ![cur[w]] = Published(@)]
    <3>1. CASE e = cur[w]
      <4>1. rows'[e] = Published(rows[e])
        BY <2>2, <3>1, <1>a
      <4>2. MarkedBy(w, e)
        BY <1>6, <2>2, <3>1, <4>1, <1>a, WrittenRows DEF MarkedBy, MarkFailed, TypeOK
      <4> QED
        BY <4>2 DEF RowMove
    <3>2. CASE e # cur[w]
      BY <2>2, <3>2, <1>a DEF RowMove, SameProgress
    <3> QED
      BY <3>1, <3>2
  <2> QED
    BY <1>6, <2>1, <2>2 DEF MarkFailed
<1>7. ASSUME NEW w \in Relay, ScheduleRetry(w) PROVE RowMove(e)
  <2>1. LeftAs(w, [rows EXCEPT ![cur[w]] = Retried(@, snap[w][cur[w]] + 1)][e], rows'[e])
    BY <1>7, RetryFacts DEF Moves
  <2>2. CASE e = cur[w]
    <3>0. snap[w][e] + 1 \in Nat
      BY <1>7, <2>2, RetryFacts
    <3>1. [rows EXCEPT ![cur[w]] = Retried(@, snap[w][cur[w]] + 1)][e]
             = Retried(rows[e], snap[w][e] + 1)
      BY <2>2, <1>a
    <3>2. LeftAs(w, Retried(rows[e], snap[w][e] + 1), rows'[e])
      BY <2>1, <3>1
    <3>3. PICK n \in Nat : n = snap[w][e] + 1
      BY <3>0
    <3>4. LeftAs(w, Retried(rows[e], n), rows'[e])
      BY <3>2, <3>3
    <3>5. /\ rows'[e].status = Retried(rows[e], n).status
          /\ rows'[e].attempts = Retried(rows[e], n).attempts
      BY <3>4, <1>a, RetriedRows, LeftKeeps
    <3>6. /\ rows'[e].status \in {rows[e].status, "FAILED"}
          /\ rows'[e].status = "FAILED" => rows[e].status = "FAILED" \/ n >= MaxAttempts
          /\ rows'[e].attempts = n
      BY <3>5, <1>a, RetriedRows
    <3>7. RetriedBy(w, e)
      BY <1>7, <2>2, <3>3, <3>6, RetryFacts DEF RetriedBy, ScheduleRetry
    <3> QED
      BY <3>7 DEF RowMove
  <2>3. CASE e # cur[w]
    <3>1. LeftAs(w, rows[e], rows'[e])
      BY <2>1, <2>3, <1>a
    <3> QED
      BY <3>1, <1>a, LeftKeeps DEF RowMove, SameProgress
  <2> QED
    BY <2>2, <2>3
<1>8. ASSUME NEW w \in Relay, TickFails(w) PROVE RowMove(e)
  BY <1>8, <1>2 DEF TickFails
<1>9. ASSUME NEW f \in Event, Outside(f) PROVE RowMove(e)
  <2>1. CASE e # f
    <3>1. rows'[e] = rows[e]
      BY <1>9, <2>1, <1>a DEF Outside, Insert, LeaseRunsOut, BackoffOver, Sweep
    <3> QED
      BY <3>1 DEF RowMove, SameProgress
  <2>2. CASE e = f
    <3>1. CASE Insert(e)
      BY <3>1, <1>a DEF RowMove, Insert, Inserted, NoRow
    <3>2. CASE LeaseRunsOut(e) \/ BackoffOver(e)
      BY <3>2, <1>a DEF RowMove, LeaseRunsOut, BackoffOver, SameProgress, Row
    <3>3. CASE Sweep(e)
      BY <3>3, <1>a DEF RowMove, Sweep, Swept, NoRow
    <3> QED
      BY <1>9, <2>2, <3>1, <3>2, <3>3 DEF Outside
  <2> QED
    BY <2>1, <2>2
<1>10. ASSUME RedriveFailedOutboxEvents PROVE RowMove(e)
  <2>1. PICK picked \in SUBSET FailedRows :
          rows' = [f \in Event |-> IF f \in picked THEN Redriven(rows[f]) ELSE rows[f]]
    BY <1>10 DEF RedriveFailedOutboxEvents
  <2>2. CASE e \in picked
    BY <2>1, <2>2, <1>a, WrittenRows DEF FailedRows, RowMove, PutBack
  <2>3. CASE e \notin picked
    BY <2>1, <2>3 DEF RowMove, SameProgress
  <2> QED
    BY <2>2, <2>3
<1>11. ASSUME NEW w \in Relay, NEW f \in Event, PublishConfirmed(w, f) \/ PublishRejected(w, f)
       PROVE  RowMove(e)
  BY <1>11, <1>3 DEF PublishConfirmed, PublishRejected
<1>12. ASSUME UNCHANGED vars PROVE RowMove(e)
  BY <1>12, <1>3 DEF vars
<1> QED
  BY <1>1, <1>4, <1>5, <1>6, <1>7, <1>8, <1>9, <1>10, <1>11, <1>12
     DEF Next, RelayStep, RelayFails

-----------------------------------------------------------------------------
(* What one step does to a process and to the history.                     *)

\* What was delivered, failed or taken from its holder stays so.
LEMMA HistoryGrows ==
    ASSUME TypeOK, [Next]_vars
    PROVE  /\ \A e \in Event : copies'[e] >= copies[e] /\ failures'[e] >= failures[e]
           /\ upset \subseteq upset'
<1> USE DEF TypeOK
<1>1. ASSUME UNCHANGED <<copies, failures>>, upset \subseteq upset'
      PROVE  /\ \A e \in Event : copies'[e] >= copies[e] /\ failures'[e] >= failures[e]
             /\ upset \subseteq upset'
  BY <1>1
<1>2. ASSUME NEW w \in Relay, RelayStep(w), ~\E e \in Event : PublishConfirmed(w, e)
      PROVE  UNCHANGED <<copies, failures>> /\ upset \subseteq upset'
  BY <1>2 DEF RelayStep, ClaimStamp, StartBatch, MarkPublished, ScheduleRetry, history
<1>3. ASSUME NEW w \in Relay, NEW e \in Event, PublishConfirmed(w, e)
      PROVE  /\ \A f \in Event : copies'[f] >= copies[f] /\ failures'[f] >= failures[f]
             /\ upset \subseteq upset'
  BY <1>3 DEF PublishConfirmed
<1>4. ASSUME NEW w \in Relay, NEW e \in Event, PublishRejected(w, e)
      PROVE  /\ \A f \in Event : copies'[f] >= copies[f] /\ failures'[f] >= failures[f]
             /\ upset \subseteq upset'
  BY <1>4 DEF PublishRejected
<1>5. ASSUME NEW w \in Relay, MarkFailed(w)
      PROVE  /\ \A f \in Event : copies'[f] >= copies[f] /\ failures'[f] >= failures[f]
             /\ upset \subseteq upset'
  BY <1>5 DEF MarkFailed
<1>6. ASSUME NEW w \in Relay, ClaimUnanswered(w) \/ TickFails(w)
      PROVE  UNCHANGED <<copies, failures>> /\ upset \subseteq upset'
  BY <1>6 DEF ClaimUnanswered, TickFails, history
<1>7. ASSUME NEW e \in Event, Outside(e)
      PROVE  UNCHANGED <<copies, failures>> /\ upset \subseteq upset'
  BY <1>7 DEF Outside, Insert, LeaseRunsOut, BackoffOver, Sweep, history
<1>8. ASSUME RedriveFailedOutboxEvents \/ UNCHANGED vars
      PROVE  UNCHANGED <<copies, failures>> /\ upset \subseteq upset'
  BY <1>8 DEF RedriveFailedOutboxEvents, vars, history
<1> QED
  BY <1>1, <1>2, <1>3, <1>4, <1>5, <1>6, <1>7, <1>8 DEF Next, RelayFails, RelayStep

\* How a process comes to mark or retry a row, and where its counts come from.
WorkerMove(w) ==
    /\ pc'[w] = "mark" =>
          \/ pc[w] = "mark" /\ cur'[w] = cur[w]
          \/ copies'[cur'[w]] = copies[cur'[w]] + 1
    /\ pc'[w] = "retry" =>
          \/ pc[w] = "retry" /\ cur'[w] = cur[w] /\ snap'[w] = snap[w]
          \/ failures'[cur'[w]] = failures[cur'[w]] + 1 /\ snap'[w] = snap[w]
    /\ \A e \in Event : snap'[w][e] \in {0, snap[w][e], rows[e].attempts}

LEMMA EveryWorkerMoves ==
    ASSUME TypeOK, [Next]_vars, NEW w \in Relay
    PROVE  WorkerMove(w)
<1>1. ASSUME UNCHANGED <<pc, snap, cur>> PROVE WorkerMove(w)
  BY <1>1 DEF WorkerMove
<1>2. ASSUME NEW v \in Relay, NEW table, NEW left, Moves(v, table, left) PROVE WorkerMove(w)
  <2>1. CASE w = v
    BY <1>2, <2>1 DEF Moves, WorkerMove
  <2>2. CASE w # v
    <3>1. snap'[w] = snap[w]
      <4>1. snap'[w] \in [Event -> Nat] /\ snap[w] \in [Event -> Nat]
        BY <1>2 DEF Moves, TypeOK
      <4>2. \A e \in Event : snap'[w][e] = snap[w][e]
        BY <1>2, <2>2 DEF Moves
      <4> QED
        BY <4>1, <4>2
    <3> QED
      BY <1>2, <2>2, <3>1 DEF Moves, WorkerMove
  <2> QED
    BY <2>1, <2>2
<1>3. rows \in [Event -> Row]
  BY DEF TypeOK
<1>4. ASSUME NEW v \in Relay, StartBatch(v) PROVE WorkerMove(w)
  <2>1. CASE ClaimRead(v) = {}
    BY <1>4, <2>1, <1>2, <1>3, EndTickMoves DEF StartBatch
  <2>2. CASE ClaimRead(v) # {}
    <3>1. /\ snap' = [snap EXCEPT ![v] =
                        [e \in Event |-> IF e \in ClaimRead(v) THEN rows[e].attempts ELSE 0]]
          /\ pc' = [pc EXCEPT ![v] = "publish"] /\ cur' = cur
      BY <1>4, <2>2 DEF StartBatch
    <3> QED
      BY <3>1 DEF WorkerMove, TypeOK
  <2> QED
    BY <2>1, <2>2
<1>5. ASSUME NEW v \in Relay, ClaimStamp(v) PROVE WorkerMove(w)
  BY <1>5 DEF ClaimStamp, WorkerMove, TypeOK
<1>6. ASSUME NEW v \in Relay, NEW e \in Event, PublishConfirmed(v, e) PROVE WorkerMove(w)
  BY <1>6 DEF PublishConfirmed, WorkerMove, TypeOK
<1>7. ASSUME NEW v \in Relay, NEW e \in Event, PublishRejected(v, e) PROVE WorkerMove(w)
  BY <1>7 DEF PublishRejected, WorkerMove, TypeOK
<1>8. ASSUME NEW v \in Relay, MarkPublished(v) PROVE WorkerMove(w)
  BY <1>8, <1>2, MarkFacts
<1>9. ASSUME NEW v \in Relay, MarkFailed(v) PROVE WorkerMove(w)
  <2>1. /\ failures' = [failures EXCEPT ![cur[v]] = @ + 1]
        /\ pc' = [pc EXCEPT ![v] = "retry"]
        /\ snap' = snap /\ cur' = cur
        /\ cur[v] \in Event
    BY <1>9 DEF MarkFailed, TypeOK
  <2> QED
    BY <2>1 DEF WorkerMove, TypeOK
<1>10. ASSUME NEW v \in Relay, ScheduleRetry(v) PROVE WorkerMove(w)
  BY <1>10, <1>2, RetryFacts
<1>11. ASSUME NEW v \in Relay, TickFails(v) PROVE WorkerMove(w)
  BY <1>11, <1>2, <1>3, EndTickMoves DEF TickFails
<1>12. ASSUME \/ \E v \in Relay : ClaimUnanswered(v)
              \/ \E e \in Event : Outside(e)
              \/ RedriveFailedOutboxEvents
              \/ UNCHANGED vars
       PROVE  WorkerMove(w)
  BY <1>12, <1>1 DEF ClaimUnanswered, Outside, Insert, LeaseRunsOut, BackoffOver, Sweep,
     RedriveFailedOutboxEvents, vars, worker
<1> QED
  BY <1>4, <1>5, <1>6, <1>7, <1>8, <1>9, <1>10, <1>11, <1>12 DEF Next, RelayStep, RelayFails

-----------------------------------------------------------------------------
(* Deliveries and attempts.                                                *)

LEMMA DeliveryStep ==
    ASSUME TypeOK, [Next]_vars, NeverLost, MarksWereConfirmed
    PROVE  NeverLost' /\ MarksWereConfirmed'
<1>t. TypeOK'
  BY TypeStep
<1>1. ASSUME NEW e \in Event, rows'[e].status = "PUBLISHED" PROVE copies'[e] >= 1
  <2>1. rows[e].status = "PUBLISHED" \/ \E w \in Relay : MarkedBy(w, e)
    BY <1>1, EveryRowMoves DEF RowMove, SameProgress, Inserted, PutBack, Swept, RetriedBy
  <2>2. copies[e] >= 1
    BY <2>1 DEF NeverLost, MarksWereConfirmed, MarkedBy
  <2> QED
    BY <2>2, <1>t, HistoryGrows DEF TypeOK
<1>2. ASSUME NEW w \in Relay, pc'[w] = "mark" PROVE copies'[cur'[w]] >= 1
  <2>1. cur'[w] \in Event
    BY <1>2, <1>t DEF TypeOK
  <2>2. CASE pc[w] = "mark" /\ cur'[w] = cur[w]
    BY <2>1, <2>2, <1>t, HistoryGrows DEF MarksWereConfirmed, TypeOK
  <2>3. CASE copies'[cur'[w]] = copies[cur'[w]] + 1
    BY <2>1, <2>3 DEF TypeOK
  <2> QED
    BY <1>2, <2>2, <2>3, EveryWorkerMoves DEF WorkerMove
<1> QED
  BY <1>1, <1>2 DEF NeverLost, MarksWereConfirmed

LEMMA AttemptStep ==
    ASSUME TypeOK, [Next]_vars, AttemptsWereMade, SnapsWereMade
    PROVE  AttemptsWereMade' /\ SnapsWereMade'
<1>t. TypeOK'
  BY TypeStep
<1>n. ASSUME NEW e \in Event
      PROVE  /\ failures[e] \in Nat /\ failures'[e] \in Nat /\ failures'[e] >= failures[e]
             /\ rows[e].attempts \in Nat /\ rows[e].attempts <= failures[e]
             /\ rows[e].status = "FAILED" => failures[e] >= MaxAttempts
  BY <1>t, HistoryGrows DEF TypeOK, Row, AttemptsWereMade
<1>1. ASSUME NEW e \in Event
      PROVE  /\ rows'[e].attempts <= failures'[e]
             /\ rows'[e].status = "FAILED" => failures'[e] >= MaxAttempts
  <2>1. CASE SameProgress(e) \/ Inserted(e) \/ PutBack(e) \/ Swept(e)
    BY <2>1, <1>n, LimitAssumption DEF SameProgress, Inserted, PutBack, Swept
  <2>2. ASSUME NEW w \in Relay, MarkedBy(w, e)
        PROVE  /\ rows'[e].attempts <= failures'[e]
               /\ rows'[e].status = "FAILED" => failures'[e] >= MaxAttempts
    BY <2>2, <1>n DEF MarkedBy
  <2>3. ASSUME NEW w \in Relay, RetriedBy(w, e)
        PROVE  /\ rows'[e].attempts <= failures'[e]
               /\ rows'[e].status = "FAILED" => failures'[e] >= MaxAttempts
    <3>1. snap[w][e] \in Nat /\ snap[w][e] + 1 <= failures[e]
      BY <2>3 DEF RetriedBy, SnapsWereMade, TypeOK
    <3> QED
      BY <2>3, <3>1, <1>n, LimitAssumption DEF RetriedBy
  <2> QED
    BY <2>1, <2>2, <2>3, EveryRowMoves DEF RowMove
<1>2. ASSUME NEW w \in Relay, NEW e \in Event PROVE snap'[w][e] <= failures'[e]
  <2>1. snap[w][e] \in Nat /\ snap[w][e] <= failures[e]
    BY DEF SnapsWereMade, TypeOK
  <2>2. snap'[w][e] \in {0, snap[w][e], rows[e].attempts}
    BY EveryWorkerMoves DEF WorkerMove
  <2> QED
    BY <2>1, <2>2, <1>n
<1>3. ASSUME NEW w \in Relay, pc'[w] = "retry"
      PROVE  snap'[w][cur'[w]] + 1 <= failures'[cur'[w]]
  <2>1. cur'[w] \in Event
    BY <1>3, <1>t DEF TypeOK
  <2>2. snap[w][cur'[w]] \in Nat /\ snap[w][cur'[w]] <= failures[cur'[w]]
    BY <2>1 DEF SnapsWereMade, TypeOK
  <2>3. CASE pc[w] = "retry" /\ cur'[w] = cur[w] /\ snap'[w] = snap[w]
    BY <2>1, <2>2, <2>3, <1>n DEF SnapsWereMade
  <2>4. CASE failures'[cur'[w]] = failures[cur'[w]] + 1 /\ snap'[w] = snap[w]
    BY <2>1, <2>2, <2>4, <1>n
  <2> QED
    BY <1>3, <2>3, <2>4, EveryWorkerMoves DEF WorkerMove
<1> QED
  BY <1>1, <1>2, <1>3 DEF AttemptsWereMade, SnapsWereMade

-----------------------------------------------------------------------------
(* Claims and leases.                                                      *)

Exists(w, e) ==
    /\ e \in batch[w] => rows[e].status # "ABSENT"
    /\ rows[e].lockedBy = w => pc[w] # "idle"

Leased(w, e) ==
    Holds(w, e) /\ e \notin upset =>
        rows[e].lockedBy = w /\ rows[e].lease = "held" /\ rows[e].status = "PENDING"

\* What the claims are about, of one process and one row.
LeaseInv(w, e) == Exists(w, e) /\ Leased(w, e)

LEMMA LeaseInvMeans ==
    ClaimsExist /\ HolderIsLeased <=> \A w \in Relay, e \in Event : LeaseInv(w, e)
  BY DEF ClaimsExist, HolderIsLeased, LeaseInv, Exists, Leased

\* Two processes hold a row only if one was overtaken.
LEMMA OneHolderHolds == HolderIsLeased => OneHolder
  BY DEF HolderIsLeased, OneHolder

\* When v finishes with a row or a tick and the table it leaves differs from the rows
\* in a row that it held or that is lost to it.
LEMMA MovesLease ==
    ASSUME TypeOK, \A v \in Relay, e \in Event : LeaseInv(v, e), upset' = upset,
           NEW w \in Relay, NEW table \in [Event -> Row], NEW left \in SUBSET batch[w],
           Moves(w, table, left),
           \A e \in Event : \/ table[e] = rows[e]
                            \/ /\ e \in batch[w] /\ e \notin left
                               /\ table[e].lockedBy = None
                               /\ table[e].status # "ABSENT"
    PROVE  \A v \in Relay, e \in Event : LeaseInv(v, e)'
<1> SUFFICES ASSUME NEW v \in Relay, NEW e \in Event PROVE LeaseInv(v, e)'
  OBVIOUS
<1>a. rows[e] \in Row /\ table[e] \in Row /\ rows'[e] \in Row
  BY DEF Moves, TypeOK
<1>b. LeftAs(w, table[e], rows'[e])
  BY DEF Moves
<1>c. /\ rows'[e].status = table[e].status /\ rows'[e].lease = table[e].lease
      /\ (rows'[e].lockedBy = table[e].lockedBy
            \/ (table[e].lockedBy = w /\ rows'[e].lockedBy = Abandoned))
  BY <1>a, <1>b, LeftKeeps
<1>d. LeaseInv(v, e) /\ LeaseInv(w, e)
  OBVIOUS
<1>e. Abandoned \notin Relay /\ None \notin Relay
  BY TokenAssumption
<1>1. Exists(v, e)'
  <2>1. ASSUME e \in batch'[v] PROVE rows'[e].status # "ABSENT"
    <3>1. e \in batch[v]
      BY <2>1 DEF Moves
    <3> QED
      BY <3>1, <1>c, <1>d DEF LeaseInv, Exists
  <2>2. ASSUME rows'[e].lockedBy = v PROVE pc'[v] # "idle"
    <3>1. CASE v = w
      BY <2>2, <3>1 DEF Moves
    <3>2. CASE v # w
      <4>1. table[e].lockedBy = v
        BY <2>2, <1>c, <1>e
      <4>2. rows[e].lockedBy = v
        BY <4>1, <1>e
      <4> QED
        BY <3>2, <4>2, <1>d DEF LeaseInv, Exists, Moves
    <3> QED
      BY <3>1, <3>2
  <2> QED
    BY <2>1, <2>2 DEF Exists
<1>2. Leased(v, e)'
  <2> SUFFICES ASSUME Holds(v, e)', e \notin upset
               PROVE  rows'[e].lockedBy = v /\ rows'[e].lease = "held"
                      /\ rows'[e].status = "PENDING"
    BY DEF Leased
  <2>1. CASE v # w
    <3>1. Holds(v, e)
      <4>1. CASE e \in batch'[v]
        BY <2>1, <4>1 DEF Moves, Holds
      <4>2. CASE pc'[v] = "read" /\ rows'[e].lockedBy = v
        <5>1. table[e].lockedBy = v
          BY <4>2, <1>c, <1>e
        <5>2. rows[e].lockedBy = v
          BY <5>1, <1>e
        <5> QED
          BY <2>1, <4>2, <5>2 DEF Moves, Holds
      <4> QED
        BY <4>1, <4>2 DEF Holds
    <3>2. rows[e].lockedBy = v /\ rows[e].lease = "held" /\ rows[e].status = "PENDING"
      BY <3>1, <1>d DEF LeaseInv, Leased
    <3>3. table[e] = rows[e]
      <4>1. CASE e \in batch[w]
        BY <4>1, <3>2, <2>1, <1>d DEF LeaseInv, Leased, Holds
      <4>2. CASE e \notin batch[w]
        BY <4>2
      <4> QED
        BY <4>1, <4>2
    <3> QED
      BY <2>1, <3>2, <3>3, <1>c
  <2>2. CASE v = w
    <3>1. e \in left /\ pc'[w] # "idle"
      <4>1. /\ pc'[w] \in {"idle", "publish"} /\ batch'[w] = left
            /\ pc'[w] = "idle" => left = {}
        BY DEF Moves
      <4> QED
        BY <2>2, <4>1 DEF Holds
    <3>2. table[e] = rows[e] /\ e \in batch[w]
      BY <3>1
    <3>3. rows'[e] = table[e]
      BY <3>1 DEF Moves
    <3> QED
      BY <2>2, <3>2, <3>3, <1>d DEF LeaseInv, Leased, Holds
  <2> QED
    BY <2>1, <2>2
<1> QED
  BY <1>1, <1>2 DEF LeaseInv

\* A step that leaves the processes alone, and of each row the token, the lease and
\* whether it waits to be published, unless nobody looks for its token or it is lost
\* to its holder.
LEMMA RowsLease ==
    ASSUME TypeOK, \A v \in Relay, e \in Event : LeaseInv(v, e), upset \subseteq upset',
           UNCHANGED <<pc, batch>>,
           \A e \in Event :
              /\ rows[e].status # "ABSENT" => rows'[e].status # "ABSENT"
              /\ rows'[e].lockedBy \in Relay => rows'[e].lockedBy = rows[e].lockedBy
              /\ \/ e \in upset'
                 \/ /\ rows'[e].lockedBy = rows[e].lockedBy /\ rows'[e].lease = rows[e].lease
                    /\ rows'[e].status = rows[e].status
                 \/ rows[e].lockedBy \notin Relay
                 \/ rows[e].status # "PENDING"
                 \/ rows[e].lease # "held"
    PROVE  \A v \in Relay, e \in Event : LeaseInv(v, e)'
<1> SUFFICES ASSUME NEW v \in Relay, NEW e \in Event PROVE LeaseInv(v, e)'
  OBVIOUS
<1>1. LeaseInv(v, e)
  OBVIOUS
<1>2. Exists(v, e)'
  BY <1>1 DEF LeaseInv, Exists
<1>3. Holds(v, e)' => Holds(v, e)
  BY DEF Holds
<1>4. Leased(v, e)'
  BY <1>1, <1>3 DEF LeaseInv, Leased
<1> QED
  BY <1>2, <1>4 DEF LeaseInv

\* Every step keeps the claims and leases in order.
LEMMA LeaseStep ==
    ASSUME TypeOK, [Next]_vars, ClaimsExist, HolderIsLeased
    PROVE  ClaimsExist' /\ HolderIsLeased'
<1>t. TypeOK'
  BY TypeStep
<1>i. \A v \in Relay, e \in Event : LeaseInv(v, e)
  BY LeaseInvMeans
<1>a. rows \in [Event -> Row]
  BY DEF TypeOK
<1>u. upset \subseteq upset'
  BY HistoryGrows
<1> DEFINE Kept == \A v \in Relay, e \in Event : LeaseInv(v, e)'
<1>1. ASSUME NEW w \in Relay, NEW token \in {w, Abandoned}, rows' = Stamped(token),
             pc[w] = "idle", pc' = [pc EXCEPT ![w] = IF token = w THEN "read" ELSE "idle"],
             batch' = batch, upset' = upset
      PROVE  Kept
  <2> SUFFICES ASSUME NEW v \in Relay, NEW e \in Event PROVE LeaseInv(v, e)'
    OBVIOUS
  <2>1. \/ rows'[e] = rows[e]
        \/ /\ rows[e].lease # "held" /\ rows[e].status = "PENDING"
           /\ rows'[e] = [rows[e] EXCEPT !.lockedBy = token, !.lease = "held"]
    BY <1>1, StampedType
  <2>2. LeaseInv(v, e)
    BY <1>i
  <2>3. CASE rows'[e] = rows[e]
    <3>1. Exists(v, e)'
      BY <1>1, <2>2, <2>3 DEF LeaseInv, Exists, TypeOK
    <3>2. Holds(v, e)' => Holds(v, e)
      BY <1>1, <2>2, <2>3 DEF LeaseInv, Exists, Holds, TypeOK
    <3> QED
      BY <1>1, <2>2, <2>3, <3>1, <3>2 DEF LeaseInv, Leased
  <2>4. CASE /\ rows[e].lease # "held" /\ rows[e].status = "PENDING"
             /\ rows'[e] = [rows[e] EXCEPT !.lockedBy = token, !.lease = "held"]
    <3>1. rows'[e].lockedBy = token /\ rows'[e].lease = "held" /\ rows'[e].status = "PENDING"
      BY <2>4, <1>a DEF Row
    <3>2. Exists(v, e)'
      BY <1>1, <3>1, TokenAssumption DEF Exists, TypeOK
    <3>3. ~Holds(v, e) \/ e \in upset
      BY <2>2, <2>4 DEF LeaseInv, Leased
    <3>4. Leased(v, e)'
      <4> SUFFICES ASSUME Holds(v, e)', e \notin upset PROVE rows'[e].lockedBy = v
        BY <1>1, <3>1 DEF Leased
      <4>1. e \notin batch'[v]
        BY <1>1, <3>3 DEF Holds
      <4> QED
        BY <4>1 DEF Holds
    <3> QED
      BY <3>2, <3>4 DEF LeaseInv
  <2> QED
    BY <2>1, <2>3, <2>4
<1>2. ASSUME NEW w \in Relay, ClaimStamp(w) PROVE Kept
  BY <1>2, <1>1 DEF ClaimStamp, history
<1>3. ASSUME NEW w \in Relay, ClaimUnanswered(w) PROVE Kept
  <2>1. pc' = [pc EXCEPT ![w] = "idle"]
    BY <1>3 DEF ClaimUnanswered, worker, TypeOK
  <2> QED
    BY <1>3, <1>1, <2>1, TokenAssumption DEF ClaimUnanswered, worker, history
<1>4. ASSUME NEW w \in Relay, EndTick(w, rows), upset' = upset PROVE Kept
  BY <1>4, <1>i, <1>a, EndTickMoves, MovesLease
<1>5. ASSUME NEW w \in Relay, StartBatch(w) PROVE Kept
  <2>1. CASE ClaimRead(w) = {}
    BY <1>5, <2>1, <1>4 DEF StartBatch, history
  <2>2. CASE ClaimRead(w) # {}
    <3> SUFFICES ASSUME NEW v \in Relay, NEW e \in Event PROVE LeaseInv(v, e)'
      OBVIOUS
    <3>1. /\ pc[w] = "read" /\ rows' = rows /\ upset' = upset
          /\ batch' = [batch EXCEPT ![w] = ClaimRead(w)]
          /\ pc' = [pc EXCEPT ![w] = "publish"]
      BY <1>5, <2>2 DEF StartBatch, history
    <3>2. LeaseInv(v, e)
      BY <1>i
    <3>3. Exists(v, e)'
      BY <3>1, <3>2 DEF LeaseInv, Exists, ClaimRead, TypeOK
    <3>4. Holds(v, e)' => Holds(v, e)
      BY <3>1 DEF Holds, ClaimRead, TypeOK
    <3> QED
      BY <3>1, <3>2, <3>3, <3>4 DEF LeaseInv, Leased
  <2> QED
    BY <2>1, <2>2
<1>6. ASSUME NEW w \in Relay, NEW f \in Event, PublishConfirmed(w, f) \/ PublishRejected(w, f)
      PROVE  Kept
  <2> SUFFICES ASSUME NEW v \in Relay, NEW e \in Event PROVE LeaseInv(v, e)'
    OBVIOUS
  <2>1. /\ rows' = rows /\ batch' = batch /\ upset' = upset
        /\ pc[w] = "publish" /\ pc' \in {[pc EXCEPT ![w] = "mark"], [pc EXCEPT ![w] = "retry"]}
    BY <1>6 DEF PublishConfirmed, PublishRejected
  <2>2. LeaseInv(v, e)
    BY <1>i
  <2>3. Exists(v, e)'
    BY <2>1, <2>2 DEF LeaseInv, Exists, TypeOK
  <2>4. Holds(v, e)' => Holds(v, e)
    BY <2>1 DEF Holds, TypeOK
  <2> QED
    BY <2>1, <2>2, <2>3, <2>4 DEF LeaseInv, Leased
<1>7. ASSUME NEW w \in Relay, MarkPublished(w) PROVE Kept
  <2>1. PICK table \in [Event -> Row] : table = [rows EXCEPT ![cur[w]] = Published(@)]
    BY <1>7, MarkFacts
  <2>2. Moves(w, table, batch[w] \ {cur[w]})
    BY <1>7, <2>1, MarkFacts
  <2>3. \A e \in Event : \/ table[e] = rows[e]
                         \/ /\ e \in batch[w] /\ e \notin batch[w] \ {cur[w]}
                            /\ table[e].lockedBy = None
                            /\ table[e].status # "ABSENT"
    BY <1>7, <2>1, <1>a, MarkFacts, WrittenRows
  <2> QED
    BY <1>7, <1>i, <2>2, <2>3, MovesLease DEF MarkPublished, history
<1>8. ASSUME NEW w \in Relay, ScheduleRetry(w) PROVE Kept
  <2>0. PICK n \in Nat : n = snap[w][cur[w]] + 1
    BY <1>8, RetryFacts
  <2>1. PICK table \in [Event -> Row] : table = [rows EXCEPT ![cur[w]] = Retried(@, n)]
    BY <1>8, <2>0, RetryFacts
  <2>2. Moves(w, table, batch[w] \ {cur[w]})
    BY <1>8, <2>0, <2>1, RetryFacts
  <2>3. cur[w] \in batch[w] /\ cur[w] \in Event /\ rows[cur[w]] \in Row
    BY <1>8, <1>a, RetryFacts
  <2>4. /\ Retried(rows[cur[w]], n).lockedBy = None
        /\ Retried(rows[cur[w]], n).status \in {rows[cur[w]].status, "FAILED"}
    BY <2>3, RetriedRows
  <2>5. rows[cur[w]].status # "ABSENT"
    BY <1>i, <2>3 DEF LeaseInv, Exists
  <2>6. \A e \in Event : \/ table[e] = rows[e]
                         \/ /\ e \in batch[w] /\ e \notin batch[w] \ {cur[w]}
                            /\ table[e].lockedBy = None
                            /\ table[e].status # "ABSENT"
    BY <2>1, <1>a, <2>3, <2>4, <2>5
  <2> QED
    BY <1>8, <1>i, <2>2, <2>6, MovesLease DEF ScheduleRetry, history
<1>9. ASSUME NEW w \in Relay, TickFails(w) PROVE Kept
  BY <1>9, <1>4 DEF TickFails, history
<1>10. ASSUME NEW w \in Relay, MarkFailed(w) PROVE Kept
  <2> SUFFICES ASSUME NEW v \in Relay, NEW e \in Event PROVE LeaseInv(v, e)'
    OBVIOUS
  <2>1. /\ batch' = batch /\ pc[w] = "mark" /\ pc' = [pc EXCEPT ![w] = "retry"]
        /\ cur[w] \in Event
    BY <1>10 DEF MarkFailed, TypeOK
  <2>2. LeaseInv(v, e)
    BY <1>i
  <2>3. \/ rows'[e] = rows[e]
        \/ rows'[e] = Published(rows[e]) /\ e \in upset'
    BY <1>10, <2>1, <1>a DEF MarkFailed
  <2>4. CASE rows'[e] = rows[e]
    <3>1. Exists(v, e)'
      BY <2>1, <2>2, <2>4 DEF LeaseInv, Exists, TypeOK
    <3>2. Holds(v, e)' => Holds(v, e)
      BY <2>1, <2>4 DEF Holds, TypeOK
    <3> QED
      BY <2>2, <2>4, <3>1, <3>2, <1>u DEF LeaseInv, Leased
  <2>5. CASE rows'[e] = Published(rows[e]) /\ e \in upset'
    <3>1. rows'[e].lockedBy = None /\ rows'[e].status = "PUBLISHED"
      BY <2>5, <1>a, WrittenRows
    <3> QED
      BY <2>5, <3>1, TokenAssumption DEF LeaseInv, Exists, Leased
  <2> QED
    BY <2>3, <2>4, <2>5
<1>11. ASSUME NEW f \in Event, Insert(f) \/ LeaseRunsOut(f) \/ BackoffOver(f) \/ Sweep(f)
       PROVE  Kept
  <2>1. UNCHANGED <<pc, batch>>
    BY <1>11 DEF Insert, LeaseRunsOut, BackoffOver, Sweep, worker
  <2>2. ASSUME NEW e \in Event
        PROVE /\ rows[e].status # "ABSENT" => rows'[e].status # "ABSENT"
              /\ rows'[e].lockedBy \in Relay => rows'[e].lockedBy = rows[e].lockedBy
              /\ \/ e \in upset'
                 \/ /\ rows'[e].lockedBy = rows[e].lockedBy /\ rows'[e].lease = rows[e].lease
                    /\ rows'[e].status = rows[e].status
                 \/ rows[e].lockedBy \notin Relay
                 \/ rows[e].status # "PENDING"
                 \/ rows[e].lease # "held"
    <3>1. CASE e # f
      <4>1. rows'[e] = rows[e]
        BY <1>11, <3>1, <1>a DEF Insert, LeaseRunsOut, BackoffOver, Sweep
      <4> QED
        BY <4>1
    <3>2. CASE e = f /\ Insert(e)
      BY <3>2, <1>a, TokenAssumption DEF Insert, NoRow
    <3>3. CASE e = f /\ BackoffOver(e)
      BY <3>3, <1>a DEF BackoffOver, Row
    <3>4. CASE e = f /\ Sweep(e)
      BY <3>4, <1>a, TokenAssumption DEF Sweep, NoRow
    <3>5. CASE e = f /\ LeaseRunsOut(e)
      BY <3>5, <1>a DEF LeaseRunsOut, Row
    <3> QED
      BY <1>11, <3>1, <3>2, <3>3, <3>4, <3>5
  <2> QED
    BY <1>i, <1>u, <2>1, <2>2, RowsLease
<1>12. ASSUME RedriveFailedOutboxEvents PROVE Kept
  <2>1. PICK picked \in SUBSET FailedRows :
          rows' = [f \in Event |-> IF f \in picked THEN Redriven(rows[f]) ELSE rows[f]]
    BY <1>12 DEF RedriveFailedOutboxEvents
  <2>2. ASSUME NEW e \in Event
        PROVE /\ rows[e].status # "ABSENT" => rows'[e].status # "ABSENT"
              /\ rows'[e].lockedBy \in Relay => rows'[e].lockedBy = rows[e].lockedBy
              /\ \/ e \in upset'
                 \/ /\ rows'[e].lockedBy = rows[e].lockedBy /\ rows'[e].lease = rows[e].lease
                    /\ rows'[e].status = rows[e].status
                 \/ rows[e].lockedBy \notin Relay
                 \/ rows[e].status # "PENDING"
                 \/ rows[e].lease # "held"
    <3>1. CASE e \in picked
      BY <2>1, <3>1, <1>a, WrittenRows, TokenAssumption DEF FailedRows
    <3>2. CASE e \notin picked
      BY <2>1, <3>2
    <3> QED
      BY <3>1, <3>2
  <2> QED
    BY <1>12, <1>i, <1>u, <2>2, RowsLease DEF RedriveFailedOutboxEvents, worker
<1>13. ASSUME UNCHANGED vars PROVE Kept
  BY <1>13, <1>i DEF vars, worker, history, LeaseInv, Exists, Leased, Holds
<1>14. Kept
  BY <1>2, <1>3, <1>5, <1>6, <1>7, <1>8, <1>9, <1>10, <1>11, <1>12, <1>13
     DEF Next, RelayStep, RelayFails, Outside
<1> QED
  BY <1>14 DEF ClaimsExist, HolderIsLeased, LeaseInv, Exists, Leased

-----------------------------------------------------------------------------
(* The inductive invariant and the safety properties.                      *)

LEMMA InvInit == Init => IInv
<1> SUFFICES ASSUME Init PROVE IInv
  OBVIOUS
<1>1. TypeOK
  BY TypeInit
<1>2. NeverLost /\ AttemptsWereMade
  BY LimitAssumption DEF Init, NeverLost, AttemptsWereMade, NoRow
<1>3. MarksWereConfirmed /\ SnapsWereMade
  BY DEF Init, MarksWereConfirmed, SnapsWereMade
<1>4. ClaimsExist /\ HolderIsLeased
  BY TokenAssumption DEF Init, ClaimsExist, HolderIsLeased, Holds, NoRow
<1> QED
  BY <1>1, <1>2, <1>3, <1>4 DEF IInv

LEMMA InvStep == IInv /\ [Next]_vars => IInv'
  BY TypeStep, DeliveryStep, AttemptStep, LeaseStep DEF IInv

THEOREM Invariance == Spec => []IInv
<1>1. Init => IInv
  BY InvInit
<1>2. IInv /\ [Next]_vars => IInv'
  BY InvStep
<1> QED
  BY <1>1, <1>2, PTL DEF Spec

\* outbox-relay.worker.ts:13: no event is marked PUBLISHED that the broker has not
\* acknowledged, for any number of relays, crashes, lost answers and redrives.
THEOREM NoEventLost == Spec => []NeverLost
<1>1. IInv => NeverLost
  BY DEF IInv
<1> QED
  BY <1>1, Invariance, PTL

\* No event is given up before its publish failed maxAttempts times.
THEOREM AttemptsAreReal == Spec => []AttemptsWereMade
<1>1. IInv => AttemptsWereMade
  BY DEF IInv
<1> QED
  BY <1>1, Invariance, PTL

\* outbox-relay.worker.ts:16-18: two relays hold one row only if its lease ran out
\* under one of them, or a written mark was taken for failed.
THEOREM HoldersAreAlone == Spec => []OneHolder
<1>1. IInv => OneHolder
  BY OneHolderHolds DEF IInv
<1> QED
  BY <1>1, Invariance, PTL

\* A published row is left alone until retention removes it, unless two processes held
\* the row or its mark was lost.
THEOREM PublishedStays == Spec => PublishedIsFinal
<1>1. ASSUME IInv, [Next]_vars, NEW e \in Event, rows[e].status = "PUBLISHED"
      PROVE  rows'[e].status \in {"PUBLISHED", "DELETED"} \/ e \in upset
  <2>1. ASSUME NEW w \in Relay, RetriedBy(w, e) PROVE e \in upset
    BY <1>1, <2>1 DEF IInv, RetriedBy, HolderIsLeased, Holds
  <2> QED
    BY <1>1, <2>1, EveryRowMoves
       DEF IInv, RowMove, SameProgress, Inserted, PutBack, Swept, MarkedBy
<1>2. IInv /\ [Next]_vars =>
        [\A e \in Event : rows[e].status = "PUBLISHED" =>
            \/ rows'[e].status \in {"PUBLISHED", "DELETED"}
            \/ e \in upset]_vars
  BY <1>1
<1> QED
  BY <1>2, Invariance, PTL DEF Spec, PublishedIsFinal

-----------------------------------------------------------------------------
(* Tokens.                                                                 *)

\* What TokensAreLive says of one event.
TokenInv(e) ==
    /\ rows[e].lockedBy # None => rows[e].status = "PENDING"
    /\ \A w \in Relay : rows[e].lockedBy = w => pc[w] = "read" \/ e \in batch[w]

\* What a step leaves of a relay's place in its tick.
SamePlace(v) == pc'[v] = pc[v] /\ batch'[v] = batch[v] /\ cur'[v] = cur[v]

\* Where a relay moves on, the others stay, and it keeps no token but of its batch.
LEMMA MovesToken ==
    ASSUME TypeOK, NEW w \in Relay, NEW table \in [Event -> Row], NEW left,
           Moves(w, table, left), NEW e \in Event, TokenInv(e),
           \/ table[e] = rows[e] /\ (rows[e].lockedBy = w => e \in left \/ pc'[w] = "idle")
           \/ table[e].lockedBy = None
    PROVE  TokenInv(e)'
<1>a. rows[e] \in Row /\ table[e] \in Row
  BY DEF TypeOK
<1>e. None \notin Relay /\ Abandoned \notin Relay /\ Abandoned # None
  BY TokenAssumption
<1>b. LeftAs(w, table[e], rows'[e])
  BY DEF Moves
<1>1. /\ rows'[e].status = table[e].status
      /\ \/ rows'[e].lockedBy = table[e].lockedBy
         \/ table[e].lockedBy = w /\ rows'[e].lockedBy = Abandoned
  BY <1>a, <1>b, LeftKeeps
<1>2. CASE table[e].lockedBy = None
  BY <1>1, <1>2, <1>e DEF TokenInv
<1>3. CASE table[e] = rows[e] /\ (rows[e].lockedBy = w => e \in left \/ pc'[w] = "idle")
  <2>1. rows'[e].lockedBy # None => rows'[e].status = "PENDING"
    BY <1>1, <1>3, <1>e DEF TokenInv
  <2>2. ASSUME NEW v \in Relay, rows'[e].lockedBy = v PROVE pc'[v] = "read" \/ e \in batch'[v]
    <3>1. rows[e].lockedBy = v
      BY <1>1, <1>3, <2>2, <1>e
    <3>2. CASE v = w
      <4>1. pc'[w] # "idle"
        BY <2>2, <3>2 DEF Moves
      <4> QED
        BY <1>3, <3>1, <3>2, <4>1 DEF Moves
    <3>3. CASE v # w
      BY <3>1, <3>3 DEF TokenInv, Moves
    <3> QED
      BY <3>2, <3>3
  <2> QED
    BY <2>1, <2>2 DEF TokenInv
<1> QED
  BY <1>2, <1>3

\* Where the relays stay, a row keeps its token and status, or loses the token.
LEMMA RowsToken ==
    ASSUME NEW e \in Event, TokenInv(e), UNCHANGED <<pc, batch>>,
           \/ rows'[e].lockedBy = None
           \/ /\ rows'[e].lockedBy \in {rows[e].lockedBy, Abandoned}
              /\ rows'[e].status = "PENDING"
           \/ rows'[e].lockedBy = rows[e].lockedBy /\ rows'[e].status = rows[e].status
    PROVE  TokenInv(e)'
  BY TokenAssumption DEF TokenInv

\* Every step keeps the tokens of an event live.
LEMMA TokenStep ==
    ASSUME TypeOK, [Next]_vars, NEW e \in Event, TokenInv(e)
    PROVE  TokenInv(e)'
<1>a. rows \in [Event -> Row] /\ rows[e] \in Row /\ pc \in [Relay -> PcLabels]
      /\ batch \in [Relay -> SUBSET Event]
  BY DEF TypeOK
<1>e. None \notin Relay /\ Abandoned \notin Relay /\ Abandoned # None
  BY TokenAssumption
<1>0. ASSUME rows' = rows, UNCHANGED <<pc, batch>> PROVE TokenInv(e)'
  BY <1>0, RowsToken
<1>1. ASSUME NEW w \in Relay, ClaimStamp(w) PROVE TokenInv(e)'
  <2>1. \/ rows'[e] = rows[e]
        \/ /\ rows[e].status = "PENDING"
           /\ rows'[e] = [rows[e] EXCEPT !.lockedBy = w, !.lease = "held"]
    BY <1>1, StampedType DEF ClaimStamp
  <2>2. pc'[w] = "read" /\ batch' = batch /\ \A v \in Relay \ {w} : pc'[v] = pc[v]
    BY <1>1, <1>a DEF ClaimStamp
  <2>3. CASE rows'[e] = rows[e]
    BY <2>2, <2>3 DEF TokenInv
  <2>4. CASE rows[e].status = "PENDING" /\ rows'[e].lockedBy = w /\ rows'[e].status = rows[e].status
    BY <2>2, <2>4 DEF TokenInv
  <2> QED
    BY <2>1, <2>3, <2>4, <1>a DEF Row
<1>2. ASSUME NEW w \in Relay, ClaimUnanswered(w) PROVE TokenInv(e)'
  <2>1. \/ rows'[e] = rows[e]
        \/ /\ rows[e].status = "PENDING"
           /\ rows'[e] = [rows[e] EXCEPT !.lockedBy = Abandoned, !.lease = "held"]
    BY <1>2, StampedType DEF ClaimUnanswered
  <2>2. \/ rows'[e] = rows[e]
        \/ rows'[e].lockedBy = Abandoned /\ rows'[e].status = "PENDING"
    BY <2>1, <1>a DEF Row
  <2> QED
    BY <1>2, <2>2, RowsToken DEF ClaimUnanswered, worker
<1>3. ASSUME NEW w \in Relay, EndTick(w, rows) PROVE TokenInv(e)'
  <2>1. pc'[w] = "idle" /\ Moves(w, rows, {})
    BY <1>3, <1>a, EndTickMoves DEF EndTick
  <2> QED
    BY <2>1, <1>a, MovesToken
<1>4. ASSUME NEW w \in Relay, StartBatch(w) PROVE TokenInv(e)'
  <2>1. CASE ClaimRead(w) = {}
    BY <1>3, <1>4, <2>1 DEF StartBatch
  <2>2. CASE ClaimRead(w) # {}
    <3>1. /\ rows' = rows /\ batch' = [batch EXCEPT ![w] = ClaimRead(w)]
          /\ pc' = [pc EXCEPT ![w] = "publish"]
      BY <1>4, <2>2 DEF StartBatch
    <3>2. rows[e].lockedBy = w => e \in batch'[w]
      BY <3>1, <1>a, <1>e DEF TokenInv, ClaimRead
    <3> QED
      BY <3>1, <3>2, <1>a DEF TokenInv
  <2> QED
    BY <2>1, <2>2
<1>5. ASSUME NEW w \in Relay, NEW f \in Event, PublishConfirmed(w, f) \/ PublishRejected(w, f)
      PROVE  TokenInv(e)'
  <2>1. /\ rows' = rows /\ batch' = batch /\ pc[w] = "publish"
        /\ \A v \in Relay \ {w} : pc'[v] = pc[v]
    BY <1>5, <1>a DEF PublishConfirmed, PublishRejected
  <2> QED
    BY <2>1 DEF TokenInv
<1>6. ASSUME NEW w \in Relay, MarkPublished(w) PROVE TokenInv(e)'
  <2> DEFINE table == [rows EXCEPT ![cur[w]] = Published(@)]
  <2>1. /\ cur[w] \in Event /\ table \in [Event -> Row] /\ pc[w] = "mark"
        /\ Moves(w, table, batch[w] \ {cur[w]})
    BY <1>6, MarkFacts DEF MarkPublished
  <2>2. \/ table[e] = rows[e] /\ e # cur[w]
        \/ table[e].lockedBy = None
    BY <2>1, <1>a, WrittenRows
  <2>3. e # cur[w] /\ rows[e].lockedBy = w => e \in batch[w] \ {cur[w]}
    BY <2>1 DEF TokenInv
  <2> QED
    BY <2>1, <2>2, <2>3, MovesToken
<1>7. ASSUME NEW w \in Relay, ScheduleRetry(w) PROVE TokenInv(e)'
  <2> DEFINE table == [rows EXCEPT ![cur[w]] = Retried(@, snap[w][cur[w]] + 1)]
  <2>1. /\ cur[w] \in Event /\ table \in [Event -> Row] /\ pc[w] = "retry"
        /\ Moves(w, table, batch[w] \ {cur[w]}) /\ snap[w][cur[w]] + 1 \in Nat
    BY <1>7, RetryFacts DEF ScheduleRetry
  <2>2. \/ table[e] = rows[e] /\ e # cur[w]
        \/ table[e].lockedBy = None
    BY <2>1, <1>a, RetriedRows
  <2>3. e # cur[w] /\ rows[e].lockedBy = w => e \in batch[w] \ {cur[w]}
    BY <2>1 DEF TokenInv
  <2> QED
    BY <2>1, <2>2, <2>3, MovesToken
<1>8. ASSUME NEW w \in Relay, MarkFailed(w) PROVE TokenInv(e)'
  <2>1. /\ pc[w] = "mark" /\ batch' = batch /\ cur[w] \in Event
        /\ \A v \in Relay \ {w} : pc'[v] = pc[v]
    BY <1>8, <1>a DEF MarkFailed, TypeOK
  <2>2. rows'[e] = rows[e] \/ rows'[e].lockedBy = None
    BY <1>8, <2>1, <1>a, WrittenRows DEF MarkFailed
  <2> QED
    BY <2>1, <2>2, <1>e DEF TokenInv
<1>9. ASSUME NEW w \in Relay, TickFails(w) PROVE TokenInv(e)'
  BY <1>3, <1>9 DEF TickFails
<1>10. ASSUME NEW f \in Event, Outside(f) PROVE TokenInv(e)'
  <2>1. UNCHANGED <<pc, batch>>
    BY <1>10 DEF Outside, Insert, LeaseRunsOut, BackoffOver, Sweep, worker
  <2>2. CASE Insert(f) \/ Sweep(f)
    <3>1. rows'[e] = rows[e] \/ rows'[e].lockedBy = None
      BY <2>2, <1>a DEF Insert, Sweep, NoRow
    <3> QED
      BY <2>1, <3>1, RowsToken
  <2>3. CASE LeaseRunsOut(f) \/ BackoffOver(f)
    <3>1. rows'[e].lockedBy = rows[e].lockedBy /\ rows'[e].status = rows[e].status
      BY <2>3, <1>a DEF LeaseRunsOut, BackoffOver, Row
    <3> QED
      BY <2>1, <3>1, RowsToken
  <2> QED
    BY <1>10, <2>2, <2>3 DEF Outside
<1>11. ASSUME RedriveFailedOutboxEvents PROVE TokenInv(e)'
  <2>1. PICK picked \in SUBSET FailedRows :
          rows' = [f \in Event |-> IF f \in picked THEN Redriven(rows[f]) ELSE rows[f]]
    BY <1>11 DEF RedriveFailedOutboxEvents
  <2>2. rows'[e] = rows[e] \/ rows'[e].lockedBy = None
    BY <2>1, <1>a, WrittenRows
  <2>3. UNCHANGED <<pc, batch>>
    BY <1>11 DEF RedriveFailedOutboxEvents, worker
  <2> QED
    BY <2>2, <2>3, RowsToken
<1>12. ASSUME UNCHANGED vars PROVE TokenInv(e)'
  BY <1>0, <1>12 DEF vars, worker
<1> QED
  BY <1>1, <1>2, <1>4, <1>5, <1>6, <1>7, <1>8, <1>9, <1>10, <1>11, <1>12
     DEF Next, RelayStep, RelayFails

-----------------------------------------------------------------------------
(* The budget of copies.                                                   *)

\* What CopiesAreBudgeted says of one event.
Budgeted(e) == copies[e] + Cardinality(Sources(e)) <= 1 + faults

\* There are finitely many sources.
LEMMA SourcesFinite ==
    ASSUME NEW e \in Event
    PROVE  IsFiniteSet(Sources(e)) /\ IsFiniteSet(Sources(e)')
<1>1. IsFiniteSet(Relay \cup {None})
  BY RelayAssumption, FS_AddElement
<1>2. Sources(e) \subseteq Relay \cup {None} /\ Sources(e)' \subseteq Relay \cup {None}
  BY DEF Sources
<1> QED
  BY <1>1, <1>2, FS_Subset

\* The sizes of sets that differ by an element.
LEMMA SourceSizes ==
    ASSUME NEW S, IsFiniteSet(S), NEW T, IsFiniteSet(T)
    PROVE  /\ Cardinality(S) \in Nat /\ Cardinality(T) \in Nat
           /\ T \subseteq S => Cardinality(T) <= Cardinality(S)
           /\ \A x : T \subseteq S \cup {x} => Cardinality(T) <= Cardinality(S) + 1
           /\ \A x \in S : T \subseteq S \ {x} => Cardinality(T) + 1 <= Cardinality(S)
           /\ \A x \in S : \A y : T \subseteq (S \ {x}) \cup {y} => Cardinality(T) <= Cardinality(S)
<1>1. Cardinality(S) \in Nat /\ Cardinality(T) \in Nat
  BY FS_CardinalityType
<1>2. T \subseteq S => Cardinality(T) <= Cardinality(S)
  BY FS_Subset
<1>3. ASSUME NEW x, T \subseteq S \cup {x} PROVE Cardinality(T) <= Cardinality(S) + 1
  <2>1. IsFiniteSet(S \cup {x}) /\ Cardinality(S \cup {x}) \in {Cardinality(S), Cardinality(S) + 1}
    BY FS_AddElement
  <2>2. Cardinality(T) <= Cardinality(S \cup {x})
    BY <1>3, <2>1, FS_Subset
  <2> QED
    BY <1>1, <2>1, <2>2
<1>4. ASSUME NEW x \in S
      PROVE  /\ IsFiniteSet(S \ {x}) /\ Cardinality(S \ {x}) = Cardinality(S) - 1
             /\ T \subseteq S \ {x} => Cardinality(T) + 1 <= Cardinality(S)
  <2>1. IsFiniteSet(S \ {x}) /\ Cardinality(S \ {x}) = Cardinality(S) - 1
    BY FS_RemoveElement
  <2>2. T \subseteq S \ {x} => Cardinality(T) <= Cardinality(S \ {x})
    BY <2>1, FS_Subset
  <2> QED
    BY <1>1, <2>1, <2>2
<1>5. ASSUME NEW x \in S, NEW y, T \subseteq (S \ {x}) \cup {y}
      PROVE  Cardinality(T) <= Cardinality(S)
  <2> DEFINE R == S \ {x}
  <2>1. IsFiniteSet(R) /\ Cardinality(R) = Cardinality(S) - 1
    BY <1>4
  <2>2. /\ IsFiniteSet(R \cup {y})
        /\ Cardinality(R \cup {y}) \in {Cardinality(R), Cardinality(R) + 1}
    BY <2>1, FS_AddElement
  <2>3. Cardinality(T) <= Cardinality(R \cup {y})
    BY <1>5, <2>2, FS_Subset
  <2> QED
    BY <1>1, <2>1, <2>2, <2>3
<1> QED
  BY <1>1, <1>2, <1>3, <1>4, <1>5

\* How a step may change an event's sources, copies and the faults: no source is new, or
\* one is and a fault pays; one takes the place of another; one is used up by a copy; or
\* a fault pays for a copy.
Paid(e) ==
    \/ /\ copies'[e] = copies[e] /\ faults' >= faults
       /\ \/ Sources(e)' \subseteq Sources(e)
          \/ \E x \in Sources(e), y \in Relay \cup {None} :
                Sources(e)' \subseteq (Sources(e) \ {x}) \cup {y}
    \/ /\ copies'[e] = copies[e] /\ faults' = faults + 1
       /\ \E y \in Relay \cup {None} : Sources(e)' \subseteq Sources(e) \cup {y}
    \/ /\ copies'[e] = copies[e] + 1 /\ faults' = faults
       /\ \E x \in Sources(e) : Sources(e)' \subseteq Sources(e) \ {x}
    \/ /\ copies'[e] \in {copies[e], copies[e] + 1} /\ faults' = faults + 1
       /\ Sources(e)' \subseteq Sources(e)

\* Such a step keeps the budget.
LEMMA PaidKeeps ==
    ASSUME NEW e \in Event, Budgeted(e), Paid(e), copies[e] \in Nat,
           faults \in Nat, faults' \in Nat
    PROVE  Budgeted(e)'
<1> DEFINE S == Sources(e)
           T == Sources(e)'
<1>1. IsFiniteSet(S) /\ IsFiniteSet(T)
  BY SourcesFinite
<1>2. copies[e] + Cardinality(S) <= 1 + faults
  BY DEF Budgeted
<1>3. Cardinality(S) \in Nat /\ Cardinality(T) \in Nat
  BY <1>1, SourceSizes
<1>4. CASE /\ copies'[e] = copies[e] /\ faults' >= faults
           /\ \/ T \subseteq S
              \/ \E x \in S, y \in Relay \cup {None} : T \subseteq (S \ {x}) \cup {y}
  <2> HIDE DEF S, T
  <2>1. Cardinality(T) <= Cardinality(S)
    BY <1>1, <1>4, SourceSizes
  <2>2. copies'[e] + Cardinality(T) <= 1 + faults'
    BY <1>2, <1>3, <1>4, <2>1
  <2> QED
    BY <2>2 DEF Budgeted, T
<1>5. CASE /\ copies'[e] = copies[e] /\ faults' = faults + 1
           /\ \E y \in Relay \cup {None} : T \subseteq S \cup {y}
  <2> HIDE DEF S, T
  <2>1. Cardinality(T) <= Cardinality(S) + 1
    BY <1>1, <1>5, SourceSizes
  <2>2. copies'[e] + Cardinality(T) <= 1 + faults'
    BY <1>2, <1>3, <1>5, <2>1
  <2> QED
    BY <2>2 DEF Budgeted, T
<1>6. CASE /\ copies'[e] = copies[e] + 1 /\ faults' = faults
           /\ \E x \in S : T \subseteq S \ {x}
  <2> HIDE DEF S, T
  <2>1. Cardinality(T) + 1 <= Cardinality(S)
    BY <1>1, <1>6, SourceSizes
  <2>2. copies'[e] + Cardinality(T) <= 1 + faults'
    BY <1>2, <1>3, <1>6, <2>1
  <2> QED
    BY <2>2 DEF Budgeted, T
<1>7. CASE /\ copies'[e] \in {copies[e], copies[e] + 1} /\ faults' = faults + 1
           /\ T \subseteq S
  <2> HIDE DEF S, T
  <2>1. Cardinality(T) <= Cardinality(S)
    BY <1>1, <1>7, SourceSizes
  <2>2. copies'[e] + Cardinality(T) <= 1 + faults'
    BY <1>2, <1>3, <1>7, <2>1
  <2> QED
    BY <2>2 DEF Budgeted, T
<1> QED
  BY <1>4, <1>5, <1>6, <1>7 DEF Paid


\* Only a relay's own claim puts its token on a row.
LEMMA TokenKept ==
    ASSUME TypeOK, [Next]_vars, NEW v \in Relay, ~ClaimStamp(v), NEW e \in Event,
           rows'[e].lockedBy = v
    PROVE  rows[e].lockedBy = v
<1>a. rows \in [Event -> Row] /\ rows[e] \in Row
  BY DEF TypeOK
<1>e. None # v /\ Abandoned # v
  BY TokenAssumption
<1>0. CASE rows'[e] = rows[e]
  BY <1>0
<1>1. ASSUME NEW token \in Relay \cup {Abandoned}, token # v, rows' = Stamped(token)
      PROVE  rows[e].lockedBy = v
  <2>1. \/ rows'[e] = rows[e]
        \/ rows'[e] = [rows[e] EXCEPT !.lockedBy = token, !.lease = "held"]
    BY <1>1, StampedType
  <2> QED
    BY <1>1, <2>1, <1>a DEF Row
<1>2. ASSUME NEW w \in Relay, ClaimStamp(w) \/ ClaimUnanswered(w) PROVE rows[e].lockedBy = v
  BY <1>1, <1>2, <1>e DEF ClaimStamp, ClaimUnanswered
<1>3. ASSUME NEW w \in Relay, NEW table \in [Event -> Row], NEW left, Moves(w, table, left),
             table[e] = rows[e] \/ table[e].lockedBy = None
      PROVE  rows[e].lockedBy = v
  <2>1. LeftAs(w, table[e], rows'[e]) /\ table[e] \in Row
    BY <1>3 DEF Moves
  <2>2. rows'[e].lockedBy = table[e].lockedBy \/ rows'[e].lockedBy = Abandoned
    BY <2>1, LeftKeeps
  <2> QED
    BY <1>3, <2>2, <1>e
<1>4. ASSUME NEW w \in Relay, EndTick(w, rows) PROVE rows[e].lockedBy = v
  BY <1>3, <1>4, <1>a, EndTickMoves
<1>5. ASSUME NEW w \in Relay, StartBatch(w) \/ TickFails(w) PROVE rows[e].lockedBy = v
  BY <1>0, <1>4, <1>5 DEF StartBatch, TickFails
<1>6. ASSUME NEW w \in Relay, MarkPublished(w) PROVE rows[e].lockedBy = v
  <2> DEFINE table == [rows EXCEPT ![cur[w]] = Published(@)]
  <2>1. table \in [Event -> Row] /\ Moves(w, table, batch[w] \ {cur[w]}) /\ cur[w] \in Event
    BY <1>6, MarkFacts
  <2>2. table[e] = rows[e] \/ table[e].lockedBy = None
    BY <2>1, <1>a, WrittenRows
  <2> HIDE DEF table
  <2> QED
    BY <2>1, <2>2, <1>3
<1>7. ASSUME NEW w \in Relay, ScheduleRetry(w) PROVE rows[e].lockedBy = v
  <2> DEFINE table == [rows EXCEPT ![cur[w]] = Retried(@, snap[w][cur[w]] + 1)]
  <2>1. /\ table \in [Event -> Row] /\ Moves(w, table, batch[w] \ {cur[w]}) /\ cur[w] \in Event
        /\ snap[w][cur[w]] + 1 \in Nat
    BY <1>7, RetryFacts
  <2>2. table[e] = rows[e] \/ table[e].lockedBy = None
    BY <2>1, <1>a, RetriedRows
  <2> HIDE DEF table
  <2> QED
    BY <2>1, <2>2, <1>3
<1>8. ASSUME NEW w \in Relay, MarkFailed(w) PROVE rows[e].lockedBy = v
  <2>1. cur[w] \in Event /\ (rows' = rows \/ rows' = [rows EXCEPT ![cur[w]] = Published(@)])
    BY <1>8 DEF MarkFailed, TypeOK
  <2>2. rows'[e] = rows[e] \/ rows'[e].lockedBy = None
    BY <2>1, <1>a, WrittenRows
  <2> QED
    BY <1>0, <2>2, <1>e
<1>9. ASSUME NEW f \in Event, Outside(f) PROVE rows[e].lockedBy = v
  BY <1>9, <1>a, <1>e DEF Outside, Insert, LeaseRunsOut, BackoffOver, Sweep, NoRow, Row
<1>10. ASSUME RedriveFailedOutboxEvents PROVE rows[e].lockedBy = v
  <2>1. PICK picked \in SUBSET FailedRows :
          rows' = [f \in Event |-> IF f \in picked THEN Redriven(rows[f]) ELSE rows[f]]
    BY <1>10 DEF RedriveFailedOutboxEvents
  <2> QED
    BY <2>1, <1>a, <1>e, WrittenRows
<1>11. ASSUME \/ \E w \in Relay, f \in Event : PublishConfirmed(w, f) \/ PublishRejected(w, f)
              \/ UNCHANGED vars
       PROVE  rows[e].lockedBy = v
  BY <1>0, <1>11 DEF PublishConfirmed, PublishRejected, vars
<1> QED
  BY <1>2, <1>5, <1>6, <1>7, <1>8, <1>9, <1>10, <1>11 DEF Next, RelayStep, RelayFails

\* A relay's step leaves the others where they are.
LEMMA OthersPlace ==
    ASSUME TypeOK, NEW w \in Relay, RelayStep(w) \/ RelayFails(w), NEW v \in Relay, v # w
    PROVE  SamePlace(v)
<1>a. rows \in [Event -> Row]
  BY DEF TypeOK
<1>1. ASSUME NEW table, NEW left, Moves(w, table, left) PROVE SamePlace(v)
  BY <1>1 DEF Moves, SamePlace
<1>2. CASE EndTick(w, rows)
  BY <1>a, <1>1, <1>2, EndTickMoves
<1>3. CASE StartBatch(w)
  BY <1>2, <1>3 DEF StartBatch, SamePlace, TypeOK
<1>4. CASE MarkPublished(w)
  BY <1>1, <1>4, MarkFacts
<1>5. CASE ScheduleRetry(w)
  BY <1>1, <1>5, RetryFacts
<1>6. CASE ClaimStamp(w) \/ MarkFailed(w) \/ ClaimUnanswered(w)
  BY <1>6 DEF ClaimStamp, MarkFailed, ClaimUnanswered, worker, SamePlace, TypeOK
<1>7. ASSUME NEW f \in Event, PublishConfirmed(w, f) \/ PublishRejected(w, f) PROVE SamePlace(v)
  BY <1>7 DEF PublishConfirmed, PublishRejected, SamePlace, TypeOK
<1> QED
  BY <1>2, <1>3, <1>4, <1>5, <1>6, <1>7 DEF RelayStep, RelayFails, TickFails

\* A row that is gone stays gone.
LEMMA GoneStaysGone ==
    ASSUME TypeOK, [Next]_vars, NEW e \in Event, rows[e].status = "DELETED"
    PROVE  rows'[e].status = "DELETED"
  BY EveryRowMoves DEF RowMove, SameProgress, Inserted, MarkedBy, RetriedBy, PutBack, Swept

\* A relay that a step leaves where it is owes no more than before.
LEMMA OthersOwe ==
    ASSUME TypeOK, [Next]_vars, NEW v \in Relay, SamePlace(v), NEW e \in Event, Owes(v, e)'
    PROVE  Owes(v, e)
<1>1. ~ClaimStamp(v)
  BY DEF ClaimStamp, SamePlace, TypeOK
<1>2. rows'[e].lockedBy = v => rows[e].lockedBy = v
  BY <1>1, TokenKept
<1> QED
  BY <1>2, GoneStaysGone DEF Owes, SamePlace

\* A row that keeps its status and token, or is no longer to be published, is no more open.
LEMMA OpenKept ==
    ASSUME NEW e \in Event, Open(e)',
           \/ rows'[e].status \notin {"ABSENT", "PENDING", "FAILED"}
           \/ rows'[e].status = rows[e].status /\ rows'[e].lockedBy = rows[e].lockedBy
              /\ rows'[e].lease = rows[e].lease
    PROVE  Open(e)
  BY DEF Open

\* Sources in the two cases of a step: of one relay, or of none.
LEMMA SourcesOf ==
    ASSUME NEW e \in Event
    PROVE  /\ \A v \in Relay : v \in Sources(e) <=> Owes(v, e)
           /\ None \in Sources(e) <=> Open(e)
           /\ Sources(e) \subseteq Relay \cup {None}
           /\ \A v \in Relay : v \in Sources(e)' <=> Owes(v, e)'
           /\ None \in Sources(e)' <=> Open(e)'
           /\ Sources(e)' \subseteq Relay \cup {None}
  BY TokenAssumption DEF Sources


\* What the relay's own actions need to say: of itself and of the row.
LEMMA RelaySources ==
    ASSUME TypeOK, [Next]_vars, NEW w \in Relay, RelayStep(w) \/ RelayFails(w), NEW e \in Event
    PROVE  /\ Sources(e)' \subseteq Sources(e) \cup {w, None}
           /\ (Owes(w, e)' => Owes(w, e)) => Sources(e)' \subseteq Sources(e) \cup {None}
           /\ (Open(e)' => Open(e)) => Sources(e)' \subseteq Sources(e) \cup {w}
           /\ ~Owes(w, e)' => w \notin Sources(e)'
           /\ ~Open(e)' => None \notin Sources(e)'
           /\ Owes(w, e) => w \in Sources(e)
           /\ Open(e) => None \in Sources(e)
           /\ (Owes(w, e)' => Owes(w, e)) /\ (Open(e)' => Open(e)) =>
                 Sources(e)' \subseteq Sources(e)
<1>1. \A v \in Relay : v # w /\ Owes(v, e)' => Owes(v, e)
  BY OthersPlace, OthersOwe
<1> QED
  BY <1>1, SourcesOf

\* A relay ends its tick: what it owed falls to the row, unless a fault pays.
LEMMA EndTickOwes ==
    ASSUME TypeOK, NEW w \in Relay, EndTick(w, rows), NEW e \in Event
    PROVE  /\ ~Owes(w, e)'
           /\ rows[e].lockedBy # w => rows'[e] = rows[e]
           /\ rows'[e].status = rows[e].status
<1>1. pc'[w] = "idle" /\ batch'[w] = {}
  BY DEF EndTick, TypeOK
<1>2. LeftAs(w, rows[e], rows'[e]) /\ rows[e] \in Row
  BY EndTickMoves DEF TypeOK, Moves
<1> QED
  BY <1>1, <1>2, LeftKeeps DEF Owes, LeftAs

\* A relay is done with the row at hand: it owes nothing of it, and the others are as
\* before.
LEMMA DoneOwes ==
    ASSUME TypeOK, NEW w \in Relay, pc[w] \in {"mark", "retry"}, NEW e \in Event, TokenInv(e),
           NEW table \in [Event -> Row], Moves(w, table, batch[w] \ {cur[w]}),
           cur[w] \in batch[w], table[e] = rows[e] \/ e = cur[w]
    PROVE  /\ e = cur[w] => ~Owes(w, e)'
           /\ e # cur[w] => (Owes(w, e)' => Owes(w, e)) /\ rows'[e] = rows[e]
           /\ rows'[e].status = table[e].status
<1>1. /\ pc'[w] \in {"idle", "publish"} /\ batch'[w] = batch[w] \ {cur[w]}
      /\ pc'[w] = "idle" => batch[w] \ {cur[w]} = {}
      /\ pc'[w] # "idle" => rows'[e] = table[e]
      /\ LeftAs(w, table[e], rows'[e]) /\ table[e] \in Row
  BY DEF Moves
<1>2. rows'[e].status = table[e].status
  BY <1>1, LeftKeeps
<1>3. ASSUME e = cur[w] PROVE ~Owes(w, e)'
  BY <1>1, <1>3 DEF Owes
<1>4. ASSUME e # cur[w] PROVE Owes(w, e)' => Owes(w, e)
  BY <1>1, <1>4 DEF Owes
<1>5. ASSUME e # cur[w] PROVE rows'[e] = rows[e]
  <2>1. CASE pc'[w] = "idle"
    <3>1. rows[e].lockedBy # w
      BY <1>1, <1>5, <2>1 DEF TokenInv
    <3> QED
      BY <1>1, <1>5, <3>1 DEF LeftAs
  <2>2. CASE pc'[w] # "idle"
    BY <1>1, <1>5, <2>2
  <2> QED
    BY <2>1, <2>2
<1> QED
  BY <1>2, <1>3, <1>4, <1>5

\* Every step pays for what it adds.
LEMMA EveryStepPays ==
    ASSUME TypeOK, ClaimsExist, [Next]_vars, NEW e \in Event, TokenInv(e)
    PROVE  Paid(e)
<1>a. /\ rows \in [Event -> Row] /\ rows[e] \in Row /\ pc \in [Relay -> PcLabels]
      /\ batch \in [Relay -> SUBSET Event] /\ cur \in [Relay -> Event \cup {None}]
      /\ copies \in [Event -> Nat] /\ faults \in Nat
  BY DEF TypeOK
<1>e. None \notin Relay /\ Abandoned \notin Relay /\ Abandoned # None
  BY TokenAssumption
<1>f. ASSUME Fault \/ UNCHANGED faults PROVE faults' >= faults
  BY <1>f, <1>a DEF Fault
<1>0. ASSUME UNCHANGED copies, faults' >= faults, Sources(e)' \subseteq Sources(e) PROVE Paid(e)
  BY <1>0 DEF Paid
<1>1. ASSUME NEW w \in Relay, ClaimStamp(w) PROVE Paid(e)
  <2>0. /\ pc[w] = "idle" /\ pc'[w] = "read" /\ batch' = batch /\ cur' = cur
        /\ UNCHANGED <<copies, faults>>
    BY <1>1, <1>a DEF ClaimStamp, history
  <2>1. \/ rows'[e] = rows[e]
        \/ /\ rows[e].lease # "held" /\ rows[e].status = "PENDING"
           /\ rows'[e] = [rows[e] EXCEPT !.lockedBy = w, !.lease = "held"]
    <3>1. rows' = Stamped(w)
      BY <1>1 DEF ClaimStamp
    <3> QED
      BY <3>1, StampedType
  <2>2. rows[e].lockedBy # w
    BY <2>0 DEF ClaimsExist
  <2>3. CASE rows'[e] = rows[e]
    <3>1. (Owes(w, e)' => Owes(w, e)) /\ (Open(e)' => Open(e))
      BY <2>0, <2>2, <2>3 DEF Owes, Open
    <3>2. Sources(e)' \subseteq Sources(e)
      BY <1>1, <3>1, RelaySources DEF RelayStep
    <3> QED
      BY <1>0, <1>a, <2>0, <3>2
  <2>4. CASE /\ rows[e].lease # "held" /\ rows[e].status = "PENDING"
             /\ rows'[e] = [rows[e] EXCEPT !.lockedBy = w, !.lease = "held"]
    <3>1. Open(e) /\ ~Open(e)'
      BY <2>4, <1>a DEF Open, Row
    <3>2. /\ None \in Sources(e) /\ None \notin Sources(e)'
          /\ Sources(e)' \subseteq Sources(e) \cup {w}
      BY <1>1, <3>1, RelaySources DEF RelayStep
    <3>3. Sources(e)' \subseteq (Sources(e) \ {None}) \cup {w}
      BY <3>2
    <3> QED
      BY <1>a, <2>0, <3>2, <3>3 DEF Paid
  <2> QED
    BY <2>1, <2>3, <2>4
<1>2. ASSUME NEW w \in Relay, ClaimUnanswered(w) PROVE Paid(e)
  <2>1. \/ rows'[e] = rows[e]
        \/ /\ rows[e].lease # "held" /\ rows[e].status = "PENDING"
           /\ rows'[e] = [rows[e] EXCEPT !.lockedBy = Abandoned, !.lease = "held"]
    <3>1. rows' = Stamped(Abandoned)
      BY <1>2 DEF ClaimUnanswered
    <3> QED
      BY <3>1, StampedType
  <2>2. Open(e)' => Open(e)
    BY <2>1, <1>a DEF Open, Row
  <2>3. SamePlace(w)
    BY <1>2 DEF ClaimUnanswered, worker, SamePlace
  <2>4. Sources(e)' \subseteq Sources(e)
    BY <1>2, <2>2, <2>3, OthersOwe, RelaySources DEF RelayFails
  <2> QED
    BY <1>0, <1>2, <1>f, <2>4 DEF ClaimUnanswered, history
<1>3. ASSUME NEW w \in Relay, StartBatch(w) PROVE Paid(e)
  <2>0. pc[w] = "read" /\ UNCHANGED <<copies, faults>>
    BY <1>3 DEF StartBatch, history
  <2>1. rows'[e] = rows[e] /\ (Owes(w, e)' => Owes(w, e))
    <3>1. CASE ClaimRead(w) = {}
      <4>1. rows[e].lockedBy # w
        BY <3>1, <1>e DEF ClaimRead, TokenInv
      <4> QED
        BY <1>3, <3>1, <4>1, EndTickOwes DEF StartBatch
    <3>2. CASE ClaimRead(w) # {}
      <4>1. rows' = rows /\ batch'[w] = ClaimRead(w) /\ pc'[w] = "publish"
        BY <1>3, <3>2, <1>a DEF StartBatch
      <4> QED
        BY <2>0, <4>1 DEF Owes, ClaimRead
    <3> QED
      BY <3>1, <3>2
  <2>2. Sources(e)' \subseteq Sources(e)
    BY <1>3, <2>1, OpenKept, RelaySources DEF RelayStep
  <2> QED
    BY <1>0, <1>a, <2>0, <2>2
<1>4. ASSUME NEW w \in Relay, NEW f \in Event, PublishConfirmed(w, f) \/ PublishRejected(w, f)
      PROVE  Paid(e)
  <2>0. /\ pc[w] = "publish" /\ f \in batch[w] /\ rows' = rows /\ batch' = batch
        /\ cur'[w] = f /\ pc'[w] \in {"mark", "retry"}
        /\ PublishRejected(w, f) \/ (pc'[w] = "mark" /\ UNCHANGED faults)
    BY <1>4, <1>a DEF PublishConfirmed, PublishRejected, NextInBatch
  <2>1. Open(e)' => Open(e)
    BY <2>0 DEF Open
  <2>2. Owes(w, e)' => Owes(w, e)
    BY <2>0 DEF Owes
  <2>3. Sources(e)' \subseteq Sources(e)
    BY <1>4, <2>1, <2>2, RelaySources DEF RelayStep, RelayFails
  <2>4. CASE e # f
    <3>1. copies'[e] = copies[e] /\ (Fault \/ UNCHANGED faults)
      BY <1>4, <2>4, <1>a DEF PublishConfirmed, PublishRejected
    <3> QED
      BY <1>f, <2>3, <3>1 DEF Paid
  <2>5. CASE e = f /\ PublishRejected(w, f)
    <3>1. copies'[e] \in {copies[e], copies[e] + 1} /\ faults' = faults + 1
      BY <2>5, <1>a DEF PublishRejected, Fault
    <3> QED
      BY <2>3, <3>1 DEF Paid
  <2>6. CASE e = f /\ ~PublishRejected(w, f)
    <3>1. copies'[e] = copies[e] + 1 /\ faults' = faults
      BY <1>4, <2>0, <2>6, <1>a DEF PublishConfirmed
    <3>2. Owes(w, e) /\ ~Owes(w, e)'
      BY <2>0, <2>6 DEF Owes
    <3>3. w \in Sources(e) /\ w \notin Sources(e)'
      BY <3>2, SourcesOf
    <3>4. Sources(e)' \subseteq Sources(e) \ {w}
      BY <2>3, <3>3
    <3> QED
      BY <3>1, <3>3, <3>4 DEF Paid
  <2> QED
    BY <2>4, <2>5, <2>6
<1>5. ASSUME NEW w \in Relay, MarkPublished(w) PROVE Paid(e)
  <2> DEFINE table == [rows EXCEPT ![cur[w]] = Published(@)]
  <2>1. /\ table \in [Event -> Row] /\ Moves(w, table, batch[w] \ {cur[w]})
        /\ cur[w] \in batch[w] /\ pc[w] = "mark"
    BY <1>5, MarkFacts DEF MarkPublished
  <2>2. table[e] = rows[e] \/ e = cur[w]
    BY <1>a
  <2>3. e = cur[w] => table[e].status = "PUBLISHED"
    BY <1>a, WrittenRows
  <2> HIDE DEF table
  <2>4. (Owes(w, e)' => Owes(w, e)) /\ (rows'[e] = rows[e] \/ rows'[e].status = "PUBLISHED")
    BY <2>1, <2>2, <2>3, DoneOwes
  <2>5. Sources(e)' \subseteq Sources(e)
    BY <1>5, <2>4, OpenKept, RelaySources DEF RelayStep
  <2> QED
    BY <1>0, <1>5, <1>a, <2>5 DEF MarkPublished, history
<1>6. ASSUME NEW w \in Relay, MarkFailed(w) PROVE Paid(e)
  <2>0. /\ pc[w] = "mark" /\ pc'[w] = "retry" /\ batch' = batch /\ cur' = cur /\ copies' = copies
        /\ cur[w] \in Event
    BY <1>6, <1>a DEF MarkFailed, TypeOK
  <2>1. rows'[e] = rows[e] \/ (e = cur[w] /\ rows'[e].status = "PUBLISHED")
    BY <1>6, <2>0, <1>a, WrittenRows DEF MarkFailed
  <2>2. Open(e)' => Open(e)
    BY <2>1, OpenKept
  <2>3. CASE Owes(w, e)' => Owes(w, e)
    <3>1. Sources(e)' \subseteq Sources(e)
      BY <1>6, <2>2, <2>3, RelaySources DEF RelayFails
    <3>2. faults' >= faults
      BY <1>6, <1>f DEF MarkFailed
    <3> QED
      BY <1>0, <2>0, <3>1, <3>2
  <2>4. CASE ~(Owes(w, e)' => Owes(w, e))
    <3>1. e = cur[w] /\ rows'[e].status # "DELETED"
      BY <2>0, <2>4 DEF Owes
    <3>2. faults' = faults + 1
      BY <1>6, <3>1, <1>a DEF MarkFailed, Fault
    <3>3. Sources(e)' \subseteq Sources(e) \cup {w}
      BY <1>6, <2>2, RelaySources DEF RelayFails
    <3> QED
      BY <2>0, <3>2, <3>3 DEF Paid
  <2> QED
    BY <2>3, <2>4
<1>7. ASSUME NEW w \in Relay, ScheduleRetry(w) PROVE Paid(e)
  <2> DEFINE table == [rows EXCEPT ![cur[w]] = Retried(@, snap[w][cur[w]] + 1)]
  <2>1. /\ table \in [Event -> Row] /\ Moves(w, table, batch[w] \ {cur[w]})
        /\ cur[w] \in batch[w] /\ pc[w] = "retry" /\ UNCHANGED <<copies, faults>>
        /\ rows[cur[w]].status # "DELETED"
    BY <1>7, RetryFacts DEF ScheduleRetry, history
  <2>2. table[e] = rows[e] \/ e = cur[w]
    BY <1>a
  <2> HIDE DEF table
  <2>3. CASE e # cur[w]
    <3>1. (Owes(w, e)' => Owes(w, e)) /\ rows'[e] = rows[e]
      BY <2>1, <2>2, <2>3, DoneOwes
    <3>2. Sources(e)' \subseteq Sources(e)
      BY <1>7, <3>1, OpenKept, RelaySources DEF RelayStep
    <3> QED
      BY <1>0, <1>a, <2>1, <3>2
  <2>4. CASE e = cur[w]
    <3>1. Owes(w, e) /\ ~Owes(w, e)'
      BY <2>1, <2>2, <2>4, DoneOwes DEF Owes
    <3>2. /\ w \in Sources(e) /\ w \notin Sources(e)'
          /\ Sources(e)' \subseteq Sources(e) \cup {None}
      BY <1>7, <3>1, RelaySources DEF RelayStep
    <3>3. Sources(e)' \subseteq (Sources(e) \ {w}) \cup {None}
      BY <3>2
    <3> QED
      BY <1>a, <2>1, <3>2, <3>3 DEF Paid
  <2> QED
    BY <2>3, <2>4
<1>8. ASSUME NEW w \in Relay, TickFails(w) PROVE Paid(e)
  <2>1. /\ ~Owes(w, e)'
        /\ rows[e].lockedBy # w => rows'[e] = rows[e]
        /\ rows'[e].status = rows[e].status
    BY <1>8, EndTickOwes DEF TickFails
  <2>2. /\ copies' = copies /\ faults' >= faults
        /\ faults' = faults + 1 \/ (pc[w] = "retry" /\ rows[cur[w]].status = "DELETED")
    BY <1>8, <1>a DEF TickFails, Fault, history
  <2>3. Sources(e)' \subseteq Sources(e) \cup {None} /\ w \notin Sources(e)'
    BY <1>8, <2>1, RelaySources DEF RelayFails
  <2>4. CASE rows[e].lockedBy # w
    <3>1. Sources(e)' \subseteq Sources(e)
      BY <1>8, <2>1, <2>4, OpenKept, RelaySources DEF RelayFails
    <3> QED
      BY <1>0, <2>2, <3>1
  <2>5. CASE rows[e].lockedBy = w /\ Owes(w, e)
    <3>1. w \in Sources(e) /\ Sources(e)' \subseteq (Sources(e) \ {w}) \cup {None}
      BY <2>3, <2>5, SourcesOf
    <3> QED
      BY <2>2, <3>1 DEF Paid
  <2>6. CASE rows[e].lockedBy = w /\ ~Owes(w, e)
    <3>1. rows[e].status = "PENDING"
      BY <2>6, <1>e DEF TokenInv
    <3>2. pc[w] = "mark"
      BY <2>6, <3>1 DEF TokenInv, Owes
    <3>3. faults' = faults + 1
      BY <2>2, <3>2
    <3> QED
      BY <2>2, <2>3, <3>3 DEF Paid
  <2> QED
    BY <2>4, <2>5, <2>6
<1>9. ASSUME UNCHANGED worker, Open(e)' => Open(e) PROVE Sources(e)' \subseteq Sources(e)
  <2>1. \A v \in Relay : SamePlace(v)
    BY <1>9 DEF worker, SamePlace
  <2> QED
    BY <1>9, <2>1, OthersOwe, SourcesOf
<1>10. ASSUME NEW f \in Event, Outside(f) PROVE Paid(e)
  <2>1. UNCHANGED worker /\ copies' = copies
    BY <1>10 DEF Outside, Insert, LeaseRunsOut, BackoffOver, Sweep, history
  <2>2. faults' >= faults
    BY <1>10, <1>f DEF Outside, Insert, LeaseRunsOut, BackoffOver, Sweep
  <2>3. CASE Open(e)' => Open(e)
    BY <1>0, <1>9, <2>1, <2>2, <2>3
  <2>4. CASE ~(Open(e)' => Open(e))
    <3>1. LeaseRunsOut(e)
      <4>1. rows'[e] # rows[e]
        BY <2>4 DEF Open
      <4>2. e = f
        BY <1>10, <4>1, <1>a DEF Outside, Insert, LeaseRunsOut, BackoffOver, Sweep
      <4>3. ~Insert(e)
        <5>1. rows[e].status = "ABSENT" => rows[e].lockedBy = None
          BY DEF TokenInv
        <5> QED
          BY <2>4, <5>1, <1>e DEF Insert, Open
      <4>4. ~BackoffOver(e)
        BY <2>4, <1>a DEF BackoffOver, Open, Row
      <4>5. ~Sweep(e)
        BY <2>4, <1>a DEF Sweep, Open, NoRow
      <4> QED
        BY <1>10, <4>2, <4>3, <4>4, <4>5 DEF Outside
    <3>2. rows'[e].status = rows[e].status
      BY <3>1, <1>a DEF LeaseRunsOut, Row
    <3>3. rows[e].lockedBy \in Relay
      BY <2>4, <3>2 DEF Open
    <3>4. faults' = faults + 1
      BY <3>1, <3>3 DEF LeaseRunsOut, Fault
    <3>5. Sources(e)' \subseteq Sources(e) \cup {None}
      <4>1. \A v \in Relay : SamePlace(v)
        BY <2>1 DEF worker, SamePlace
      <4> QED
        BY <4>1, OthersOwe, SourcesOf
    <3> QED
      BY <2>1, <3>4, <3>5 DEF Paid
  <2> QED
    BY <2>3, <2>4
<1>11. ASSUME RedriveFailedOutboxEvents PROVE Paid(e)
  <2>1. PICK picked \in SUBSET FailedRows :
          rows' = [f \in Event |-> IF f \in picked THEN Redriven(rows[f]) ELSE rows[f]]
    BY <1>11 DEF RedriveFailedOutboxEvents
  <2>2. CASE e \in picked
    <3>1. rows[e].status = "FAILED"
      BY <2>2 DEF FailedRows
    <3>2. Open(e)
      BY <3>1, <1>e DEF TokenInv, Open
    <3> QED
      BY <1>0, <1>9, <1>11, <1>a, <3>2 DEF RedriveFailedOutboxEvents, history
  <2>3. CASE e \notin picked
    <3>1. rows'[e] = rows[e]
      BY <2>1, <2>3
    <3> QED
      BY <1>0, <1>9, <1>11, <1>a, <3>1, OpenKept DEF RedriveFailedOutboxEvents, history
  <2> QED
    BY <2>2, <2>3
<1>12. ASSUME UNCHANGED vars PROVE Paid(e)
  BY <1>0, <1>9, <1>12, <1>a, OpenKept DEF vars, history
<1> QED
  BY <1>1, <1>2, <1>3, <1>4, <1>5, <1>6, <1>7, <1>8, <1>10, <1>11, <1>12
     DEF Next, RelayStep, RelayFails


\* A copy of an event beyond the first was paid for by a fault: a refused or unconfirmed
\* publish, a lost mark, a failed tick or an outrun lease. Redrives, sweeps and any number
\* of relays add none.
THEOREM CopiesPaidFor == Spec => []CopiesArePaidFor
<1> DEFINE Inv == TokensAreLive /\ CopiesAreBudgeted
<1>1. Init => Inv
  <2> SUFFICES ASSUME Init, NEW e \in Event PROVE TokenInv(e) /\ Budgeted(e)
    BY DEF TokensAreLive, TokenInv, CopiesAreBudgeted, Budgeted
  <2>1. TokenInv(e)
    BY TokenAssumption DEF Init, NoRow, TokenInv
  <2>2. \A w \in Relay : ~Owes(w, e)
    BY TokenAssumption DEF Init, NoRow, Owes
  <2>3. Sources(e) \subseteq {None}
    BY <2>2 DEF Sources
  <2>4. IsFiniteSet({None}) /\ Cardinality({None}) = 1
    BY FS_Singleton
  <2>5. IsFiniteSet(Sources(e)) /\ Cardinality(Sources(e)) \in Nat /\ Cardinality(Sources(e)) <= 1
    BY <2>3, <2>4, FS_Subset, FS_CardinalityType
  <2> QED
    BY <2>1, <2>5 DEF Init, Budgeted
<1>2. IInv /\ Inv /\ [Next]_vars => Inv'
  <2> SUFFICES ASSUME IInv, Inv, [Next]_vars, NEW e \in Event PROVE TokenInv(e)' /\ Budgeted(e)'
    BY DEF TokensAreLive, TokenInv, CopiesAreBudgeted, Budgeted
  <2>1. TokenInv(e) /\ Budgeted(e) /\ TypeOK /\ ClaimsExist
    BY DEF IInv, TokensAreLive, TokenInv, CopiesAreBudgeted, Budgeted
  <2>2. TokenInv(e)'
    BY <2>1, TokenStep
  <2>3. copies[e] \in Nat /\ faults \in Nat /\ faults' \in Nat
    BY <2>1, TypeStep DEF TypeOK
  <2> QED
    BY <2>1, <2>2, <2>3, EveryStepPays, PaidKeeps
<1>3. IInv /\ Inv => CopiesArePaidFor
  <2> SUFFICES ASSUME IInv, Inv, NEW e \in Event PROVE copies[e] <= 1 + faults
    BY DEF CopiesArePaidFor
  <2>1. copies[e] + Cardinality(Sources(e)) <= 1 + faults
    BY DEF CopiesAreBudgeted
  <2>2. copies[e] \in Nat /\ faults \in Nat /\ Cardinality(Sources(e)) \in Nat
    BY SourcesFinite, FS_CardinalityType DEF IInv, TypeOK
  <2> QED
    BY <2>1, <2>2
<1> QED
  BY <1>1, <1>2, <1>3, Invariance, PTL DEF Spec

-----------------------------------------------------------------------------
(* The relay implements OutboxContract.                                    *)

\* A step moves at most one row's status, or publishes, or redrives.
OneMoves(f) ==
    /\ copies' = copies
    /\ \A e \in Event \ {f} : rows'[e].status = rows[e].status

Publishes(f) ==
    /\ rows' = rows
    /\ rows[f].status # "ABSENT"
    /\ copies' \in {copies, [copies EXCEPT ![f] = @ + 1]}

NothingMoves ==
    /\ copies' = copies
    /\ \A e \in Event : rows'[e].status = rows[e].status

LEMMA OneRowMoves ==
    ASSUME IInv, [Next]_vars, ~RedriveFailedOutboxEvents
    PROVE  NothingMoves \/ \E f \in Event : OneMoves(f) \/ Publishes(f)
<1>t. TypeOK
  BY DEF IInv
<1>a. rows \in [Event -> Row]
  BY <1>t DEF TypeOK
<1>1. ASSUME NEW w \in Relay, ClaimStamp(w) \/ ClaimUnanswered(w) PROVE NothingMoves
  <2>1. PICK token \in Relay \cup {Abandoned} : rows' = Stamped(token)
    BY <1>1 DEF ClaimStamp, ClaimUnanswered
  <2>2. ASSUME NEW e \in Event PROVE rows'[e].status = rows[e].status
    <3>1. \/ rows'[e] = rows[e]
          \/ rows'[e] = [rows[e] EXCEPT !.lockedBy = token, !.lease = "held"]
      BY <1>t, <2>1, StampedType
    <3> QED
      BY <3>1, <1>a DEF Row
  <2> QED
    BY <1>1, <2>2 DEF ClaimStamp, ClaimUnanswered, history, NothingMoves
<1>2. ASSUME NEW w \in Relay, EndTick(w, rows), copies' = copies PROVE NothingMoves
  <2>1. ASSUME NEW e \in Event PROVE rows'[e].status = rows[e].status
    <3>1. LeftAs(w, rows[e], rows'[e])
      BY <1>2, <1>t, <1>a, EndTickMoves DEF Moves
    <3> QED
      BY <3>1, <1>a, LeftKeeps
  <2> QED
    BY <1>2, <2>1 DEF NothingMoves
<1>3. ASSUME NEW w \in Relay, NEW f \in Event, NEW table \in [Event -> Row], NEW left,
             Moves(w, table, left), \A e \in Event \ {f} : table[e] = rows[e], copies' = copies
      PROVE  OneMoves(f)
  <2>1. ASSUME NEW e \in Event \ {f} PROVE rows'[e].status = rows[e].status
    <3>1. LeftAs(w, rows[e], rows'[e])
      BY <1>3 DEF Moves
    <3> QED
      BY <3>1, <1>a, LeftKeeps
  <2> QED
    BY <1>3, <2>1 DEF OneMoves
<1>4. ASSUME NEW w \in Relay, StartBatch(w) PROVE NothingMoves
  <2>1. copies' = copies /\ (EndTick(w, rows) \/ rows' = rows)
    BY <1>4 DEF StartBatch, history
  <2> QED
    BY <2>1, <1>2 DEF NothingMoves
<1>5. ASSUME NEW w \in Relay, NEW e \in Event, PublishConfirmed(w, e) \/ PublishRejected(w, e)
      PROVE  Publishes(e)
  <2>1. rows[e].status # "ABSENT"
    BY <1>5 DEF PublishConfirmed, PublishRejected, NextInBatch, IInv, ClaimsExist
  <2>2. copies' \in {copies, [copies EXCEPT ![e] = @ + 1]}
    BY <1>5, <1>t DEF PublishConfirmed, PublishRejected, TypeOK
  <2> QED
    BY <1>5, <2>1, <2>2 DEF PublishConfirmed, PublishRejected, Publishes
<1>6. ASSUME NEW w \in Relay, MarkPublished(w) PROVE \E f \in Event : OneMoves(f)
  <2>1. PICK table \in [Event -> Row] : table = [rows EXCEPT ![cur[w]] = Published(@)]
    BY <1>6, <1>t, MarkFacts
  <2>2. PICK f \in Event : f = cur[w]
    BY <1>6, <1>t, MarkFacts
  <2>3. Moves(w, table, batch[w] \ {cur[w]}) /\ copies' = copies
    BY <1>6, <1>t, <2>1, MarkFacts DEF MarkPublished, history
  <2>4. \A e \in Event \ {f} : table[e] = rows[e]
    BY <2>1, <2>2, <1>a
  <2>5. OneMoves(f)
    BY <1>3, <2>3, <2>4
  <2> QED
    BY <2>5
<1>7. ASSUME NEW w \in Relay, MarkFailed(w) PROVE \E f \in Event : OneMoves(f)
  BY <1>7, <1>t, <1>a DEF MarkFailed, OneMoves, TypeOK
<1>8. ASSUME NEW w \in Relay, ScheduleRetry(w) PROVE \E f \in Event : OneMoves(f)
  <2>1. PICK table \in [Event -> Row] :
          table = [rows EXCEPT ![cur[w]] = Retried(@, snap[w][cur[w]] + 1)]
    BY <1>8, <1>t, RetryFacts
  <2>2. PICK f \in Event : f = cur[w]
    BY <1>8, <1>t, RetryFacts
  <2>3. Moves(w, table, batch[w] \ {cur[w]}) /\ copies' = copies
    BY <1>8, <1>t, <2>1, RetryFacts DEF ScheduleRetry, history
  <2>4. \A e \in Event \ {f} : table[e] = rows[e]
    BY <2>1, <2>2, <1>a
  <2>5. OneMoves(f)
    BY <1>3, <2>3, <2>4
  <2> QED
    BY <2>5
<1>9. ASSUME NEW w \in Relay, TickFails(w) PROVE NothingMoves
  BY <1>9, <1>2 DEF TickFails, history
<1>10. ASSUME NEW f \in Event, Outside(f) PROVE OneMoves(f)
  BY <1>10, <1>a DEF Outside, Insert, LeaseRunsOut, BackoffOver, Sweep, history, OneMoves
<1>11. ASSUME UNCHANGED vars PROVE NothingMoves
  BY <1>11 DEF vars, history, NothingMoves
<1> QED
  BY <1>1, <1>4, <1>5, <1>6, <1>7, <1>8, <1>9, <1>10, <1>11 DEF Next, RelayStep, RelayFails

LEMMA ContractInit == Init => Contract!Init
  BY DEF Init, NoRow, Contract!Init

\* A status that moves to x is a move of the contract.
LEMMA StageMoves ==
    ASSUME NEW f \in Event, OneMoves(f), NEW x, rows'[f].status = x
    PROVE  Contract!Move(f, x) /\ UNCHANGED copies
  BY DEF OneMoves, Contract!Move

LEMMA ContractStep ==
    ASSUME IInv, [Next]_vars
    PROVE  [Contract!Next]_(Contract!vars)
<1>a. rows \in [Event -> Row] /\ rows' \in [Event -> Row] /\ copies \in [Event -> Nat]
  BY TypeStep DEF IInv, TypeOK
<1>1. CASE RedriveFailedOutboxEvents
  <2>1. PICK picked \in SUBSET FailedRows :
          /\ rows' = [e \in Event |-> IF e \in picked THEN Redriven(rows[e]) ELSE rows[e]]
          /\ copies' = copies
    BY <1>1 DEF RedriveFailedOutboxEvents, history
  <2>2. picked \in SUBSET Event /\ \A e \in picked : rows[e].status = "FAILED"
    BY DEF FailedRows
  <2>3. \A e \in Event :
          rows'[e].status = IF e \in picked THEN "PENDING" ELSE rows[e].status
    BY <2>1, <1>a, WrittenRows
  <2>4. Contract!Revive(picked)
    BY <2>1, <2>2, <2>3 DEF Contract!Revive
  <2> QED
    BY <2>2, <2>4 DEF Contract!Next
<1>2. CASE NothingMoves
  BY <1>2 DEF NothingMoves, Contract!vars
<1>3. ASSUME NEW f \in Event, Publishes(f) PROVE [Contract!Next]_(Contract!vars)
  <2>1. CASE copies' = copies
    BY <1>3, <2>1 DEF Publishes, Contract!vars
  <2>2. CASE copies' = [copies EXCEPT ![f] = @ + 1]
    <3>1. Contract!Deliver(f)
      BY <1>3, <2>2 DEF Publishes, Contract!Deliver
    <3> QED
      BY <3>1 DEF Contract!Next
  <2> QED
    BY <1>3, <2>1, <2>2 DEF Publishes
<1>4. ASSUME NEW f \in Event, OneMoves(f) PROVE [Contract!Next]_(Contract!vars)
  <2>1. rows[f] \in Row /\ rows'[f] \in Row
    BY <1>a
  <2>2. CASE rows'[f].status = rows[f].status
    BY <1>4, <2>2 DEF OneMoves, Contract!vars
  <2>3. CASE Inserted(f)
    <3>1. Contract!Commit(f)
      BY <1>4, <2>3, StageMoves DEF Inserted, Contract!Commit
    <3> QED
      BY <3>1 DEF Contract!Next
  <2>4. CASE PutBack(f)
    <3>1. Contract!Revive({f})
      BY <1>4, <2>4 DEF OneMoves, PutBack, Contract!Revive
    <3> QED
      BY <3>1 DEF Contract!Next
  <2>5. CASE Swept(f)
    <3>1. Contract!Forget(f)
      BY <1>4, <2>5, StageMoves DEF Swept, Contract!Forget
    <3> QED
      BY <3>1 DEF Contract!Next
  <2>6. ASSUME NEW w \in Relay, MarkedBy(w, f), rows'[f].status # rows[f].status
        PROVE  [Contract!Next]_(Contract!vars)
    <3>1. copies[f] >= 1 /\ rows[f].status # "ABSENT"
      BY <2>6 DEF MarkedBy, IInv, MarksWereConfirmed, ClaimsExist
    <3>2. rows[f].status \in {"PENDING", "FAILED"}
      BY <2>1, <2>6, <3>1 DEF MarkedBy, Row, RowStatus
    <3>3. Contract!Settle(f)
      BY <1>4, <2>6, <3>1, <3>2, StageMoves DEF MarkedBy, Contract!Settle
    <3> QED
      BY <3>3 DEF Contract!Next
  <2>7. ASSUME NEW w \in Relay, RetriedBy(w, f), rows'[f].status # rows[f].status
        PROVE  [Contract!Next]_(Contract!vars)
    <3>1. rows[f].status # "ABSENT"
      BY <2>7 DEF RetriedBy, IInv, ClaimsExist
    <3>2. rows[f].status \in {"PENDING", "PUBLISHED"} /\ rows'[f].status = "FAILED"
      BY <2>1, <2>7, <3>1 DEF RetriedBy, Row, RowStatus
    <3>3. Contract!GiveUp(f)
      BY <1>4, <3>2, StageMoves DEF Contract!GiveUp
    <3> QED
      BY <3>3 DEF Contract!Next
  <2> QED
    BY <2>2, <2>3, <2>4, <2>5, <2>6, <2>7, EveryRowMoves DEF IInv, RowMove, SameProgress
<1> QED
  BY <1>1, <1>2, <1>3, <1>4, OneRowMoves

\* Any number of relays, with their faults, redrives and sweeps, keep the contract of
\* the outbox.
THEOREM Implementation == Spec => ContractKept
<1>1. IInv /\ [Next]_vars => [Contract!Next]_(Contract!vars)
  BY ContractStep
<1> QED
  BY <1>1, ContractInit, Invariance, PTL DEF Spec, ContractKept, Contract!Spec

=============================================================================
