---------------------------- MODULE CheckoutProofs ----------------------------
(***************************************************************************)
(* Proofs about Checkout for every set of requests, keys and products: its *)
(* types, that a reservation yields at most one order, that stock and      *)
(* vouchers agree with the orders, what clients are shown, and that it     *)
(* implements CheckoutService.                                             *)
(***************************************************************************)
EXTENDS Checkout, SumLemmas, TLAPS

-----------------------------------------------------------------------------
(* Types.                                                                  *)

\* The responses the service gives are responses.
LEMMA AnswerTypes ==
    /\ NoAnswer \in AnswerType
    /\ Conflict \in AnswerType
    /\ Mismatch \in AnswerType
    /\ Rejected \in AnswerType
    /\ Failure \in AnswerType
    /\ \A o \in Nat : Fresh(o) \in AnswerType /\ Replay(o) \in AnswerType
  BY DEF AnswerType, NoAnswer, Conflict, Mismatch, Rejected, Failure, Fresh, Replay

\* A response keeps the locals' types.
LEMMA RespondType ==
    ASSUME LocalType, NEW r \in Request, NEW a \in AnswerType, Respond(r, a)
    PROVE  LocalType'
  BY DEF LocalType, Respond, NoSeen, NoOwn, SeenType, OwnType, Statuses, Labels, MaxAttempts

\* So does going on with a reservation.
LEMMA ProceedType ==
    ASSUME LocalType, NEW r \in Request, NEW o \in OwnType, Proceed(r, o)
    PROVE  LocalType'
  BY DEF LocalType, Proceed, NoSeen, SeenType, Statuses, Labels

\* So does an error thrown inside the try block.
LEMMA ThrowType ==
    ASSUME LocalType, NEW r \in Request, NEW a \in AnswerType, Throw(r, a)
    PROVE  LocalType'
<1>1. CASE Keyed(r)
  BY <1>1 DEF LocalType, Throw, Goto, local, Labels
<1>2. CASE ~Keyed(r)
  BY <1>2, RespondType DEF Throw
<1> QED
  BY <1>1, <1>2

\* So does falling through to the re-read, and a lost claim.
LEMMA RereadType ==
    ASSUME LocalType, NEW r \in Request, ToReread(r)
    PROVE  LocalType'
  BY DEF LocalType, ToReread, Goto, NoSeen, SeenType, Statuses, Labels

LEMMA ClaimLostType ==
    ASSUME LocalType, NEW r \in Request, ClaimLost(r)
    PROVE  LocalType'
<1>1. CASE second[r]
  BY <1>1, RespondType, AnswerTypes DEF ClaimLost
<1>2. CASE ~second[r]
  BY <1>2, RereadType DEF ClaimLost
<1> QED
  BY <1>1, <1>2

\* A row keeps its type when it is handled: the request that reads it is keyed.
LEMMA HandleExistingType ==
    ASSUME DatabaseType, LocalType, NEW r \in Request, Keyed(r), HandleExisting(r)
    PROVE  LocalType'
<1>1. RowOf(r) \in Row
  BY FormAssumption DEF DatabaseType, RowOf, Keyed, FormType
<1>2. /\ RowOf(r).id \in Nat
      /\ RowOf(r).fence \in Nat
      /\ RowOf(r).order \in Nat
      /\ RowOf(r).status \in Statuses
  BY <1>1 DEF Row
<1>3. CASE Respond(r, Mismatch) \/ Respond(r, Replay(RowOf(r).order)) \/ Respond(r, Conflict)
  BY <1>2, <1>3, AnswerTypes, RespondType
<1>4. CASE /\ Goto(r, "claim")
           /\ seen' = [seen EXCEPT ![r] =
                 [id |-> RowOf(r).id, fence |-> RowOf(r).fence, status |-> RowOf(r).status]]
           /\ UNCHANGED <<second, own, attempt, answer>>
  <2>1. [id |-> RowOf(r).id, fence |-> RowOf(r).fence, status |-> RowOf(r).status] \in SeenType
    BY <1>2 DEF SeenType
  <2> QED
    BY <1>4, <2>1 DEF LocalType, Goto, Labels
<1> QED
  BY <1>3, <1>4 DEF HandleExisting

\* What is written to a row is a row.
LEMMA RowTypes ==
    ASSUME NEW r \in Request
    PROVE  /\ nextId \in Nat => Reserved(r) \in Row
           /\ \A row \in Row, o \in Nat :
                 Claimed(row, r) \in Row /\ Finalized(row, o) \in Row /\ Failed(row) \in Row
<1>1. Fingerprint(r) \in Prints
  BY DEF Prints
<1>2. nextId \in Nat => Reserved(r) \in Row
  BY <1>1 DEF Reserved, Row, Statuses
<1>3. ASSUME NEW row \in Row, NEW o \in Nat
      PROVE  Claimed(row, r) \in Row /\ Finalized(row, o) \in Row /\ Failed(row) \in Row
  <2>1. row.fence + 1 \in Nat
    BY DEF Row
  <2>2. Failed(row) =
           [id |-> row.id, status |-> "FAILED", fence |-> row.fence, owner |-> row.owner,
            print |-> row.print, age |-> row.age, order |-> row.order]
    BY DEF Failed, Row
  <2> QED
    BY <1>1, <2>1, <2>2 DEF Claimed, Finalized, Row, Statuses
<1> QED
  BY <1>2, <1>3

\* The writes of the transaction keep the tables' types; the stock stays a natural
\* number because the conditional decrements found enough of it.
LEMMA CommitType ==
    ASSUME DatabaseType, NEW r \in Request, own[r] \in OwnType, InStock(r), Commit(r)
    PROVE  DatabaseType'
<1> DEFINE id == Len(orders) + 1
           form == Form[r]
<1>1. form \in FormType /\ own[r].id \in Nat /\ own[r].fence \in Nat
  BY FormAssumption DEF OwnType
<1>2. form.qty \in [Product -> Nat] /\ form.user \in User
  BY <1>1 DEF FormType
<1>3. id \in Nat
  BY DEF DatabaseType
<1>4. stock' \in [Product -> Nat]
  <2>1. ASSUME NEW p \in Product PROVE stock[p] - form.qty[p] \in Nat
    BY <1>2 DEF InStock, DatabaseType
  <2> QED
    BY <2>1 DEF Commit
<1>5. orders' \in Seq(OrderType)
  <2>1. [rid |-> own[r].id, fence |-> own[r].fence, form |-> form] \in OrderType
    BY <1>1 DEF OrderType
  <2>2. orders' = Append(orders, [rid |-> own[r].id, fence |-> own[r].fence, form |-> form])
    BY DEF Commit
  <2> QED
    BY <2>1, <2>2 DEF DatabaseType
<1>6. used' \in [Voucher -> Nat]
  BY DEF Commit, DatabaseType
<1>7. usage' \subseteq UsageType
  BY <1>2, <1>3 DEF Commit, DatabaseType, UsageType
<1>8. rows' \in [Key -> Row]
  <2>1. CASE Keyed(r)
    <3>1. rows' = [rows EXCEPT ![form.key] = Finalized(@, id)]
      BY <2>1 DEF Commit
    <3>2. form.key \in Key
      BY <1>1, <2>1 DEF FormType, Keyed
    <3> QED
      BY <3>1, <3>2, <1>3, RowTypes DEF DatabaseType
  <2>2. CASE ~Keyed(r)
    BY <2>2 DEF Commit, DatabaseType
  <2> QED
    BY <2>1, <2>2
<1>9. tokens' \subseteq Nat
  BY <1>3 DEF Commit, DatabaseType
<1>10. outbox' \in Seq(EventType)
  <2>1. \A n \in Nat : [order |-> id, url |-> n] \in EventType
    BY <1>3 DEF EventType
  <2>2. PICK n \in Nat : outbox' = Append(outbox, [order |-> id, url |-> n])
    BY <1>3 DEF Commit
  <2> QED
    BY <2>1, <2>2 DEF DatabaseType
<1> QED
  BY <1>4, <1>5, <1>6, <1>7, <1>8, <1>9, <1>10 DEF DatabaseType, Commit

\* The server's steps for one request keep the types.
LEMMA ServeType ==
    ASSUME TypeOK, UnkeyedHasNoReservation, NEW r \in Request, Serve(r)
    PROVE  TypeOK'
<1>0. /\ DatabaseType
      /\ LocalType
      /\ faults \in 0..MaxFaults
      /\ own[r] \in OwnType /\ answer[r] \in AnswerType /\ seen[r] \in SeenType
      /\ nextId \in Nat
  BY DEF TypeOK, LocalType, DatabaseType
<1>1. ASSUME Keyed(r) PROVE RowOf(r) \in Row /\ Form[r].key \in Key
  BY <1>0, <1>1, FormAssumption DEF DatabaseType, RowOf, Keyed, FormType
<1>2. ASSUME UNCHANGED database PROVE DatabaseType'
  BY <1>0, <1>2 DEF database, DatabaseType
<1>3. CASE Find(r)
  <2>1. Keyed(r)
    BY <1>3 DEF Find, UnkeyedHasNoReservation
  <2>2. LocalType'
    <3>1. CASE Goto(r, "create") /\ UNCHANGED <<local, answer>>
      BY <1>0, <3>1 DEF LocalType, Goto, local, Labels
    <3>2. CASE HandleExisting(r)
      BY <1>0, <2>1, <3>2, HandleExistingType
    <3> QED
      BY <1>3, <3>1, <3>2 DEF Find
  <2> QED
    BY <1>0, <1>2, <1>3, <2>2 DEF TypeOK, Find
<1>4. CASE Create(r)
  <2>1. Keyed(r)
    BY <1>4 DEF Create, UnkeyedHasNoReservation
  <2>2. CASE /\ rows' = [rows EXCEPT ![Form[r].key] = Reserved(r)]
             /\ nextId' = nextId + 1
             /\ Proceed(r, [id |-> nextId, fence |-> 1])
    <3>1. [id |-> nextId, fence |-> 1] \in OwnType
      BY <1>0 DEF OwnType
    <3>2. LocalType'
      BY <1>0, <2>2, <3>1, ProceedType
    <3>3. nextId' \in Nat \ {0}
      BY <1>0, <2>2
    <3>4. rows' \in [Key -> Row]
      BY <1>0, <2>2, RowTypes DEF DatabaseType
    <3> QED
      BY <1>0, <1>4, <3>2, <3>3, <3>4 DEF TypeOK, DatabaseType, Create
  <2>3. CASE ToReread(r) /\ UNCHANGED <<rows, nextId>>
    BY <1>0, <1>4, <2>3, RereadType DEF TypeOK, DatabaseType, Create
  <2> QED
    BY <1>4, <2>2, <2>3 DEF Create
<1>5. CASE Reread(r)
  <2>1. Keyed(r)
    BY <1>5 DEF Reread, UnkeyedHasNoReservation
  <2>2. LocalType'
    BY <1>0, <1>5, <2>1, HandleExistingType, RespondType, AnswerTypes DEF Reread
  <2> QED
    BY <1>0, <1>2, <1>5, <2>2 DEF TypeOK, Reread
<1>6. CASE Claim(r)
  <2>1. Keyed(r)
    BY <1>6 DEF Claim, UnkeyedHasNoReservation
  <2>2. CASE /\ rows' = [rows EXCEPT ![Form[r].key] = Claimed(@, r)]
             /\ Goto(r, "claimRead")
             /\ UNCHANGED <<local, answer>>
    <3>1. rows' \in [Key -> Row]
      BY <1>0, <1>1, <2>1, <2>2, RowTypes DEF DatabaseType, RowOf
    <3>2. LocalType'
      BY <1>0, <2>2 DEF LocalType, Goto, local, Labels
    <3> QED
      BY <1>0, <1>6, <3>1, <3>2 DEF TypeOK, DatabaseType, Claim
  <2>3. CASE ClaimLost(r) /\ UNCHANGED rows
    BY <1>0, <1>6, <2>3, ClaimLostType DEF TypeOK, DatabaseType, Claim
  <2> QED
    BY <1>6, <2>2, <2>3 DEF Claim
<1>7. CASE ClaimRead(r)
  <2>1. Keyed(r)
    BY <1>7 DEF ClaimRead, UnkeyedHasNoReservation
  <2>2. [id |-> RowOf(r).id, fence |-> RowOf(r).fence] \in OwnType
    BY <1>1, <2>1 DEF Row, OwnType
  <2>3. LocalType'
    BY <1>0, <1>7, <2>2, ProceedType, ClaimLostType DEF ClaimRead
  <2> QED
    BY <1>0, <1>2, <1>7, <2>3 DEF TypeOK, ClaimRead
<1>8. CASE Cart(r) \/ Summary(r) \/ TxOutOfStock(r) \/ TxVoucherGone(r) \/ TxSuperseded(r)
  <2>1. UNCHANGED <<database, faults>>
    BY <1>8 DEF Cart, Summary, TxOutOfStock, TxVoucherGone, TxSuperseded
  <2>2. CASE Throw(r, Rejected) \/ Throw(r, Failure)
    BY <1>0, <1>2, <2>1, <2>2, ThrowType, AnswerTypes DEF TypeOK
  <2>3. CASE (Goto(r, "summary") \/ Goto(r, "tx") \/ Goto(r, "resolve")) /\ UNCHANGED <<local, answer>>
    <3>1. LocalType'
      BY <1>0, <2>3 DEF LocalType, Goto, local, Labels
    <3> QED
      BY <1>0, <1>2, <2>1, <3>1 DEF TypeOK
  <2> QED
    BY <1>8, <2>2, <2>3 DEF Cart, Summary, TxOutOfStock, TxVoucherGone, TxSuperseded
<1>9. CASE TxCommit(r)
  <2>1. DatabaseType'
    BY <1>0, <1>9, CommitType DEF TxCommit
  <2>2. Len(orders) + 1 \in Nat
    BY <1>0 DEF DatabaseType
  <2>3. LocalType'
    BY <1>0, <1>9, <2>2, AnswerTypes, RespondType DEF TxCommit
  <2> QED
    BY <1>0, <1>9, <2>1, <2>3 DEF TypeOK, TxCommit
<1>10. CASE MarkFailed(r)
  <2>1. Keyed(r)
    BY <1>10 DEF MarkFailed, UnkeyedHasNoReservation
  <2>2. rows' \in [Key -> Row]
    BY <1>0, <1>1, <1>10, <2>1, RowTypes DEF MarkFailed, DatabaseType, RowOf
  <2>3. LocalType'
    BY <1>0, <1>10, RespondType DEF MarkFailed
  <2> QED
    BY <1>0, <1>10, <2>2, <2>3 DEF TypeOK, DatabaseType, MarkFailed
<1>11. CASE Resolve(r)
  <2>1. Keyed(r)
    BY <1>11 DEF Resolve, UnkeyedHasNoReservation
  <2>2. RowOf(r).order \in Nat
    BY <1>1, <2>1 DEF Row
  <2>3. LocalType'
    BY <1>0, <1>11, <2>2, AnswerTypes, RespondType DEF Resolve
  <2> QED
    BY <1>0, <1>2, <1>11, <2>3 DEF TypeOK, Resolve
<1> QED
  BY <1>3, <1>4, <1>5, <1>6, <1>7, <1>8, <1>9, <1>10, <1>11 DEF Serve

\* So do the steps that go wrong, a client's retry, time and retention.
LEMMA FaultType ==
    ASSUME TypeOK, UnkeyedHasNoReservation, NEW r \in Request,
           \/ TxNumberTaken(r) \/ TxCommitLost(r) \/ TxFailure(r)
           \/ MarkFailedLost(r) \/ Retry(r) \/ Crash(r)
    PROVE  TypeOK'
<1>0. /\ DatabaseType
      /\ LocalType
      /\ faults \in 0..MaxFaults
      /\ own[r] \in OwnType /\ answer[r] \in AnswerType
  BY DEF TypeOK, LocalType
<1>1. ASSUME Fault PROVE faults' \in 0..MaxFaults
  BY <1>0, <1>1, BoundAssumption DEF Fault
<1>2. ASSUME UNCHANGED database PROVE DatabaseType'
  BY <1>0, <1>2 DEF database, DatabaseType
<1>3. CASE TxNumberTaken(r)
  <2>1. CASE attempt[r] < MaxAttempts
    <3>1. LocalType'
      BY <1>0, <1>3, <2>1 DEF TxNumberTaken, LocalType, MaxAttempts
    <3> QED
      BY <1>1, <1>2, <1>3, <3>1 DEF TxNumberTaken, TypeOK
  <2>2. CASE ~(attempt[r] < MaxAttempts)
    BY <1>0, <1>1, <1>2, <1>3, <2>2, ThrowType, AnswerTypes DEF TxNumberTaken, TypeOK
  <2> QED
    BY <2>1, <2>2
<1>4. CASE TxCommitLost(r)
  BY <1>0, <1>1, <1>4, CommitType, ThrowType, AnswerTypes DEF TxCommitLost, TypeOK
<1>5. CASE TxFailure(r)
  BY <1>0, <1>1, <1>2, <1>5, ThrowType, AnswerTypes DEF TxFailure, TypeOK
<1>6. CASE MarkFailedLost(r)
  BY <1>0, <1>1, <1>2, <1>6, RespondType DEF MarkFailedLost, TypeOK
<1>7. CASE Retry(r)
  <2>1. LocalType'
    BY <1>0, <1>7, AnswerTypes DEF Retry, LocalType, local, Entry, Labels
  <2> QED
    BY <1>0, <1>2, <1>7, <2>1 DEF Retry, TypeOK
<1>8. CASE Crash(r)
  BY <1>0, <1>1, <1>2, <1>8, RespondType, AnswerTypes DEF Crash, TypeOK
<1> QED
  BY <1>3, <1>4, <1>5, <1>6, <1>7, <1>8

LEMMA TimeType ==
    ASSUME TypeOK, NEW k \in Key, Age(k) \/ Sweep(k)
    PROVE  TypeOK'
<1>0. DatabaseType /\ LocalType /\ faults \in 0..MaxFaults /\ rows[k] \in Row
  BY DEF TypeOK, DatabaseType
<1>1. LocalType'
  BY <1>0 DEF LocalType, Age, Sweep, local
<1>2. faults' \in 0..MaxFaults
  BY <1>0, BoundAssumption DEF Age, Sweep, Fault
<1>3. rows' \in [Key -> Row]
  <2>1. Absent \in Row
    BY DEF Absent, Row, Statuses, Prints
  <2>2. [rows[k] EXCEPT !.age = "stale"] \in Row
    BY <1>0 DEF Row
  <2> QED
    BY <1>0, <2>1, <2>2 DEF Age, Sweep, DatabaseType
<1> QED
  BY <1>0, <1>1, <1>2, <1>3 DEF TypeOK, DatabaseType, Age, Sweep

\* A request without a key never touches a reservation: its calls are the cart, the
\* summary and the transaction, and an error in them is answered at once.
LEMMA UnkeyedStep ==
    ASSUME TypeOK, UnkeyedHasNoReservation, [Next]_vars
    PROVE  UnkeyedHasNoReservation'
<1> SUFFICES ASSUME NEW q \in Request, ~Keyed(q)
             PROVE  pc'[q] \in {"cart", "summary", "tx", "done"} /\ own'[q] = NoOwn
  BY DEF UnkeyedHasNoReservation, Keyed
<1>0. /\ pc[q] \in {"cart", "summary", "tx", "done"} /\ own[q] = NoOwn
      /\ pc \in [Request -> Labels] /\ own \in [Request -> OwnType]
  BY DEF UnkeyedHasNoReservation, TypeOK, LocalType
<1> DEFINE Kept == pc'[q] \in {"cart", "summary", "tx", "done"} /\ own'[q] = NoOwn
<1>1. ASSUME NEW r \in Request, NEW a, Respond(r, a) PROVE Kept
  BY <1>0, <1>1 DEF Respond
<1>2. ASSUME NEW a, Throw(q, a) PROVE Kept
  BY <1>1, <1>2 DEF Throw
<1>3. ASSUME UNCHANGED <<pc, own>> PROVE Kept
  BY <1>0, <1>3
<1>4. ASSUME NEW r \in Request, r # q, Serve(r) PROVE Kept
  <2>1. pc'[q] = pc[q] /\ own'[q] = own[q]
    BY <1>0, <1>4 DEF Serve, Find, Create, Reread, Claim, ClaimRead, Cart, Summary, TxOutOfStock,
       TxVoucherGone, TxSuperseded, TxCommit, MarkFailed, Resolve, HandleExisting, ToReread,
       ClaimLost, Throw, Respond, Proceed, Goto, local
  <2> QED
    BY <1>0, <2>1
<1>5. ASSUME Serve(q) PROVE Kept
  <2>1. Cart(q) \/ Summary(q) \/ TxOutOfStock(q) \/ TxVoucherGone(q) \/ TxCommit(q)
        \/ TxSuperseded(q)
    BY <1>0, <1>5 DEF Serve, Find, Create, Reread, Claim, ClaimRead, MarkFailed, Resolve
  <2>2. ~TxSuperseded(q)
    BY DEF TxSuperseded, StillOwns
  <2>3. CASE Cart(q) \/ Summary(q)
    BY <1>0, <1>2, <2>3 DEF Cart, Summary, Goto, local
  <2>4. CASE TxOutOfStock(q) \/ TxVoucherGone(q)
    BY <1>2, <2>4 DEF TxOutOfStock, TxVoucherGone
  <2>5. CASE TxCommit(q)
    BY <1>1, <2>5 DEF TxCommit
  <2> QED
    BY <2>1, <2>2, <2>3, <2>4, <2>5
<1>6. ASSUME NEW r \in Request,
             \/ TxNumberTaken(r) \/ TxCommitLost(r) \/ TxFailure(r)
             \/ MarkFailedLost(r) \/ Retry(r) \/ Crash(r)
      PROVE  Kept
  <2>1. CASE r = q
    BY <1>0, <1>1, <1>2, <1>6, <2>1 DEF TxNumberTaken, TxCommitLost, TxFailure, MarkFailedLost,
       Retry, Crash, Entry, local
  <2>2. CASE r # q
    BY <1>0, <1>1, <1>6, <2>2 DEF TxNumberTaken, TxCommitLost, TxFailure, MarkFailedLost,
       Retry, Crash, Throw, Goto, local
  <2> QED
    BY <2>1, <2>2
<1>7. ASSUME NEW k \in Key, Age(k) \/ Sweep(k) PROVE Kept
  BY <1>3, <1>7 DEF Age, Sweep, local
<1>8. CASE Settled \/ UNCHANGED vars
  BY <1>3, <1>8 DEF Settled, vars, local
<1> QED
  BY <1>4, <1>5, <1>6, <1>7, <1>8 DEF Next

\* The initial state has the types and no reservation.
LEMMA InitType == Init => TypeOK /\ UnkeyedHasNoReservation
<1> SUFFICES ASSUME Init PROVE TypeOK /\ UnkeyedHasNoReservation
  OBVIOUS
<1>1. Absent \in Row
  BY DEF Absent, Row, Statuses, Prints
<1>2. DatabaseType
  BY <1>1, TableAssumption DEF Init, DatabaseType
<1>3. LocalType
  BY AnswerTypes DEF Init, LocalType, Entry, Labels, NoSeen, NoOwn, SeenType, OwnType, Statuses,
     MaxAttempts
<1> QED
  BY <1>2, <1>3, BoundAssumption DEF Init, TypeOK, UnkeyedHasNoReservation, Entry

\* A step keeps the types.
LEMMA TypeStep == TypeOK /\ UnkeyedHasNoReservation /\ [Next]_vars => TypeOK'
<1> SUFFICES ASSUME TypeOK, UnkeyedHasNoReservation, [Next]_vars PROVE TypeOK'
  OBVIOUS
<1>1. CASE Settled \/ UNCHANGED vars
  BY <1>1 DEF Settled, vars, database, local, TypeOK, DatabaseType, LocalType
<1> QED
  BY <1>1, ServeType, FaultType, TimeType DEF Next

\* In every reachable state, whatever the number of requests and keys, the tables and
\* the requests' locals have their types; no product's stock is negative.
THEOREM TypeCorrect == Spec => []TypeOK
<1>1. Init => TypeOK /\ UnkeyedHasNoReservation
  BY InitType
<1>2. TypeOK /\ UnkeyedHasNoReservation /\ [Next]_vars
         => (TypeOK /\ UnkeyedHasNoReservation)'
  BY TypeStep, UnkeyedStep
<1> QED
  BY <1>1, <1>2, PTL DEF Spec

-----------------------------------------------------------------------------
(* A reservation yields at most one order.                                 *)

\* A request keeps knowing its row while the row keeps its id and its print.
LEMMA StillKnows ==
    ASSUME TypeOK, UnkeyedHasNoReservation, NEW q \in Request, KnowsRow(q),
           pc'[q] = pc[q], own'[q] = own[q], seen'[q] = seen[q],
           nextId' \in Nat, nextId' >= nextId,
           RowOf(q)'.id = RowOf(q).id, RowOf(q)'.print = RowOf(q).print
    PROVE  KnowsRow(q)'
<1>1. nextId \in Nat
  BY DEF TypeOK, DatabaseType
<1> QED
  BY <1>1 DEF KnowsRow, Keyed, Fingerprint

\* The rows may change hands, age and fail without an order or a key's settled
\* state being touched.
Quiet ==
    /\ UNCHANGED <<orders, nextId>>
    /\ \A k \in Key :
          \/ rows'[k] = rows[k]
          \/ /\ rows'[k].id = rows[k].id
             /\ rows'[k].print = rows[k].print
             /\ rows[k].status \in {"PROCESSING", "FAILED"}
             /\ rows'[k].status \in {"PROCESSING", "FAILED"}

LEMMA QuietStep ==
    ASSUME RowIdsUnique, RowNamesItsOrder, AtMostOneOrderPerReservation, Quiet
    PROVE  (RowIdsUnique /\ RowNamesItsOrder /\ AtMostOneOrderPerReservation)'
<1>1. AtMostOneOrderPerReservation'
  BY DEF AtMostOneOrderPerReservation, Quiet
<1>2. RowIdsUnique'
  BY DEF RowIdsUnique, Quiet, Absent
<1>3. ASSUME NEW k \in Key PROVE NamesItsOrder(k)'
  <2>1. NamesItsOrder(k)
    BY DEF RowNamesItsOrder
  <2>2. CASE rows'[k] = rows[k]
    BY <2>1, <2>2 DEF NamesItsOrder, Quiet
  <2>3. CASE /\ rows'[k].id = rows[k].id
             /\ rows[k].status \in {"PROCESSING", "FAILED"}
             /\ rows'[k].status \in {"PROCESSING", "FAILED"}
    BY <2>1, <2>3 DEF NamesItsOrder, Quiet
  <2> QED
    BY <2>2, <2>3 DEF Quiet
<1> QED
  BY <1>1, <1>2, <1>3 DEF RowNamesItsOrder

\* The transaction adds one order; with a key, to a row that had none.
LEMMA CommitStep ==
    ASSUME IInv, NEW r \in Request, pc[r] = "tx", StillOwns(r), Commit(r)
    PROVE  (RowIdsUnique /\ RowNamesItsOrder /\ AtMostOneOrderPerReservation)'
<1> DEFINE id == Len(orders) + 1
           key == Form[r].key
           new == [rid |-> own[r].id, fence |-> own[r].fence, form |-> Form[r]]
<1>0. /\ orders \in Seq(OrderType) /\ rows \in [Key -> Row] /\ nextId \in Nat
      /\ own[r].id \in Nat
  BY DEF IInv, TypeOK, DatabaseType, LocalType, OwnType
<1>1. /\ orders' = Append(orders, new)
      /\ nextId' = nextId
  BY DEF Commit
<1>2. /\ DOMAIN orders' = 1..id
      /\ DOMAIN orders = 1..Len(orders)
      /\ Len(orders) \in Nat
      /\ \A i \in DOMAIN orders : i \in DOMAIN orders' /\ i # id /\ orders'[i] = orders[i]
      /\ orders'[id] = new
      /\ \A i \in DOMAIN orders' : i \in DOMAIN orders \/ i = id
  BY <1>0, <1>1
<1>3. \A i \in DOMAIN orders : orders[i].rid < nextId
  BY DEF IInv, RowIdsUnique
<1>4. CASE Keyed(r)
  <2>1. key \in Key
    BY <1>4, FormAssumption DEF Keyed, FormType
  <2>2. /\ rows[key].id = own[r].id /\ rows[key].id # 0
        /\ rows[key].status = "PROCESSING"
        /\ rows[key].print = Fingerprint(r)
    BY <1>4 DEF IInv, HolderKnowsRow, KnowsRow, Trying, StillOwns, RowOf
  <2>3. rows' = [rows EXCEPT ![key] = Finalized(rows[key], id)]
    BY <1>4 DEF Commit
  <2>4. /\ rows'[key].id = rows[key].id
        /\ rows'[key].status = "COMPLETED"
        /\ rows'[key].order = id
        /\ rows'[key].print = rows[key].print
        /\ \A k \in Key \ {key} : rows'[k] = rows[k]
    BY <1>0, <2>1, <2>3 DEF Finalized
  <2>5. rows[key].id < nextId
    BY <1>0, <2>1, <2>2 DEF IInv, RowIdsUnique, Absent
  <2>6. \A i \in DOMAIN orders : orders[i].rid # own[r].id
    BY <2>1, <2>2 DEF IInv, RowNamesItsOrder, NamesItsOrder
  <2>7. \A k \in Key \ {key} : rows[k].id # own[r].id
    BY <2>1, <2>2 DEF IInv, RowIdsUnique
  <2>8. RowIdsUnique'
    <3>1. \A k \in Key : \/ rows'[k] = Absent
                         \/ rows'[k].id \in 1..(nextId' - 1) /\ rows'[k].status # "ABSENT"
      BY <1>0, <1>1, <2>1, <2>2, <2>4 DEF IInv, RowIdsUnique, Absent
    <3>2. \A k, l \in Key : rows'[k].id = rows'[l].id => k = l \/ rows'[k].id = 0
      BY <2>1, <2>4 DEF IInv, RowIdsUnique
    <3>3. \A i \in DOMAIN orders' : orders'[i].rid < nextId'
      BY <1>1, <1>2, <1>3, <2>2, <2>5
    <3> QED
      BY <3>1, <3>2, <3>3 DEF RowIdsUnique
  <2>9. RowNamesItsOrder'
    <3> SUFFICES ASSUME NEW k \in Key PROVE NamesItsOrder(k)'
      BY DEF RowNamesItsOrder
    <3>1. CASE k = key
      BY <1>2, <2>2, <2>4, <2>6, <3>1 DEF Fingerprint, NamesItsOrder
    <3>2. CASE k # key
      <4>1. NamesItsOrder(k) /\ rows'[k] = rows[k] /\ (rows[k].id # 0 => rows[k].id # new.rid)
        BY <2>4, <2>7, <3>2 DEF IInv, RowNamesItsOrder
      <4> QED
        BY <1>2, <4>1 DEF NamesItsOrder
    <3> QED
      BY <3>1, <3>2
  <2>10. AtMostOneOrderPerReservation'
    BY <1>2, <2>6 DEF IInv, AtMostOneOrderPerReservation
  <2> QED
    BY <2>8, <2>9, <2>10
<1>5. CASE ~Keyed(r)
  <2>1. own[r].id = 0
    BY <1>5 DEF IInv, UnkeyedHasNoReservation, NoOwn
  <2>2. rows' = rows
    BY <1>5 DEF Commit
  <2>3. RowIdsUnique'
    BY <1>0, <1>1, <1>2, <1>3, <2>1, <2>2 DEF IInv, RowIdsUnique, TypeOK, DatabaseType
  <2>4. RowNamesItsOrder'
    <3> SUFFICES ASSUME NEW k \in Key PROVE NamesItsOrder(k)'
      BY DEF RowNamesItsOrder
    <3>1. NamesItsOrder(k) /\ rows'[k] = rows[k] /\ (rows[k].id # 0 => rows[k].id # new.rid)
      BY <2>1, <2>2 DEF IInv, RowNamesItsOrder
    <3> QED
      BY <1>2, <3>1 DEF NamesItsOrder
  <2>5. AtMostOneOrderPerReservation'
    BY <1>2, <2>1 DEF IInv, AtMostOneOrderPerReservation
  <2> QED
    BY <2>3, <2>4, <2>5
<1> QED
  BY <1>4, <1>5

\* The tables' half of the invariant.
TablesInv == RowIdsUnique /\ RowNamesItsOrder /\ AtMostOneOrderPerReservation

\* A step of one request that leaves the rows' ids and prints leaves the other
\* requests' knowledge.
LEMMA OthersKnow ==
    ASSUME IInv, NEW r \in Request, nextId' = nextId,
           \A k \in Key : rows'[k].id = rows[k].id /\ rows'[k].print = rows[k].print,
           \A q \in Request \ {r} : pc'[q] = pc[q] /\ own'[q] = own[q] /\ seen'[q] = seen[q]
    PROVE  \A q \in Request \ {r} : KnowsRow(q)'
<1> SUFFICES ASSUME NEW q \in Request, q # r PROVE KnowsRow(q)'
  OBVIOUS
<1>1. KnowsRow(q) /\ pc'[q] = pc[q] /\ own'[q] = own[q] /\ seen'[q] = seen[q]
  BY DEF IInv, HolderKnowsRow
<1>2. CASE Keyed(q)
  <2>1. RowOf(q)'.id = RowOf(q).id /\ RowOf(q)'.print = RowOf(q).print
    BY <1>2, FormAssumption DEF RowOf, Keyed, FormType
  <2> QED
    BY <1>1, <2>1 DEF KnowsRow, Keyed, Fingerprint
<1>3. CASE ~Keyed(q)
  BY <1>1, <1>3 DEF IInv, UnkeyedHasNoReservation, KnowsRow, Keyed
<1> QED
  BY <1>2, <1>3

\* A request that is answered, or starts again, knows nothing.
LEMMA IdleKnows ==
    ASSUME NEW r \in Request,
           pc'[r] \notin Trying \/ ~Keyed(r), pc'[r] \notin {"claim", "claimRead"}
    PROVE  KnowsRow(r)'
  BY DEF KnowsRow, Keyed

\* One that goes on to another call of the try block knows what it knew.
LEMMA TryingKnows ==
    ASSUME IInv, NEW r \in Request, pc[r] \in Trying, pc'[r] \in Trying, own'[r] = own[r],
           Keyed(r) => RowOf(r)'.id = RowOf(r).id /\ RowOf(r)'.print = RowOf(r).print
    PROVE  KnowsRow(r)'
  BY DEF IInv, HolderKnowsRow, KnowsRow, Keyed, Fingerprint, Trying

\* An error in the try block.
LEMMA ThrowKnows ==
    ASSUME IInv, NEW r \in Request, NEW a, pc[r] \in Trying, Throw(r, a),
           Keyed(r) => RowOf(r)'.id = RowOf(r).id /\ RowOf(r)'.print = RowOf(r).print
    PROVE  KnowsRow(r)'
<1>0. pc \in [Request -> Labels]
  BY DEF IInv, TypeOK, LocalType
<1>1. CASE Keyed(r)
  <2>1. pc'[r] = "markFailed" /\ own' = own
    BY <1>0, <1>1 DEF Throw, Goto, local
  <2> QED
    BY <2>1, TryingKnows DEF Trying
<1>2. CASE ~Keyed(r)
  BY <1>0, <1>2, IdleKnows DEF Throw, Respond
<1> QED
  BY <1>1, <1>2

\* Each operator that moves a request leaves the others' locals.
LEMMA OneMoves ==
    ASSUME NEW r \in Request, NEW a,
           \/ Respond(r, a) \/ Throw(r, a) \/ Proceed(r, a) \/ ToReread(r) \/ ClaimLost(r)
           \/ HandleExisting(r) \/ (Goto(r, a) /\ UNCHANGED local),
           TypeOK
    PROVE  \A q \in Request \ {r} : pc'[q] = pc[q] /\ own'[q] = own[q] /\ seen'[q] = seen[q]
  BY DEF TypeOK, LocalType, Respond, Throw, Proceed, ToReread, ClaimLost, HandleExisting, Goto, local

\* A request that handles a row it read is answered or is about to claim that row.
LEMMA HandleKnows ==
    ASSUME IInv, NEW r \in Request, Keyed(r), RowOf(r) # Absent, HandleExisting(r),
           UNCHANGED database
    PROVE  KnowsRow(r)'
<1>0. pc \in [Request -> Labels] /\ seen \in [Request -> SeenType]
  BY DEF IInv, TypeOK, LocalType
<1>1. RowOf(r).id \in 1..(nextId - 1)
  BY FormAssumption DEF IInv, RowIdsUnique, RowOf, Keyed, FormType
<1>2. ASSUME NEW a, Respond(r, a) PROVE KnowsRow(r)'
  BY <1>0, <1>2, IdleKnows DEF Respond, Trying
<1>3. CASE /\ RowOf(r).print = Fingerprint(r)
           /\ RowOf(r).status = "FAILED" \/ (RowOf(r).status = "PROCESSING" /\ Reclaimable(RowOf(r)))
           /\ Goto(r, "claim")
           /\ seen' = [seen EXCEPT ![r] =
                 [id |-> RowOf(r).id, fence |-> RowOf(r).fence, status |-> RowOf(r).status]]
  <2>1. /\ pc'[r] = "claim"
        /\ seen'[r].id = RowOf(r).id /\ seen'[r].status \in {"FAILED", "PROCESSING"}
    BY <1>0, <1>3 DEF Goto
  <2> QED
    BY <1>1, <1>3, <2>1 DEF KnowsRow, database, RowOf, Keyed, Fingerprint, Trying
<1> QED
  BY <1>2, <1>3 DEF HandleExisting

\* The half of the invariant that a step can disturb beside the types.
Kept == TablesInv' /\ HolderKnowsRow'

\* A step that writes nothing keeps it if its request still knows its row.
LEMMA ReadStep ==
    ASSUME IInv, NEW r \in Request, UNCHANGED database, KnowsRow(r)',
           \A q \in Request \ {r} : pc'[q] = pc[q] /\ own'[q] = own[q] /\ seen'[q] = seen[q]
    PROVE  Kept
<1>1. TablesInv'
  BY QuietStep DEF IInv, TablesInv, Quiet, database
<1>2. \A q \in Request \ {r} : KnowsRow(q)'
  BY OthersKnow DEF database
<1> QED
  BY <1>1, <1>2 DEF Kept, HolderKnowsRow

\* begin(): reading, reserving and claiming the key.
LEMMA BeginStep ==
    ASSUME IInv, NEW r \in Request,
           Find(r) \/ Create(r) \/ Reread(r) \/ Claim(r) \/ ClaimRead(r)
    PROVE  Kept
<1>0. /\ TypeOK /\ pc \in [Request -> Labels] /\ own \in [Request -> OwnType]
      /\ seen \in [Request -> SeenType] /\ rows \in [Key -> Row] /\ nextId \in Nat \ {0}
      /\ UnkeyedHasNoReservation /\ KnowsRow(r)
  BY DEF IInv, TypeOK, LocalType, DatabaseType, HolderKnowsRow
<1>1. Keyed(r) /\ Form[r].key \in Key /\ RowOf(r) = rows[Form[r].key]
  BY <1>0, FormAssumption DEF UnkeyedHasNoReservation, Find, Create, Reread, Claim, ClaimRead,
     Keyed, FormType, RowOf
<1>2. ASSUME NEW a, Respond(r, a), UNCHANGED database PROVE Kept
  <2>1. KnowsRow(r)'
    BY <1>0, <1>2, IdleKnows DEF Respond, Trying
  <2> QED
    BY <1>0, <1>2, <2>1, OneMoves, ReadStep
<1>3. ASSUME HandleExisting(r), RowOf(r) # Absent, UNCHANGED database PROVE Kept
  <2>1. KnowsRow(r)'
    BY <1>1, <1>3, HandleKnows
  <2>2. \A q \in Request \ {r} : pc'[q] = pc[q] /\ own'[q] = own[q] /\ seen'[q] = seen[q]
    BY <1>0, <1>3 DEF HandleExisting, Respond, Goto
  <2> QED
    BY <1>3, <2>1, <2>2, ReadStep
<1>4. ASSUME ToReread(r), UNCHANGED database PROVE Kept
  <2>1. KnowsRow(r)'
    BY <1>0, <1>4, IdleKnows DEF ToReread, Goto, Trying
  <2> QED
    BY <1>0, <1>4, <2>1, OneMoves, ReadStep
<1>5. CASE Find(r)
  <2>1. CASE Goto(r, "create") /\ UNCHANGED <<local, answer>>
    <3>1. KnowsRow(r)'
      BY <1>0, <2>1, IdleKnows DEF Goto, Trying
    <3>2. \A q \in Request \ {r} : pc'[q] = pc[q] /\ own'[q] = own[q] /\ seen'[q] = seen[q]
      BY <1>0, <2>1, OneMoves
    <3>3. UNCHANGED database
      BY <1>5 DEF Find
    <3> QED
      BY <3>1, <3>2, <3>3, ReadStep
  <2> QED
    BY <1>3, <1>5, <2>1 DEF Find
<1>6. CASE Create(r)
  <2>1. CASE ToReread(r) /\ UNCHANGED <<rows, nextId>>
    BY <1>4, <1>6, <2>1 DEF Create, database
  <2>2. CASE /\ RowOf(r) = Absent
             /\ rows' = [rows EXCEPT ![Form[r].key] = Reserved(r)]
             /\ nextId' = nextId + 1
             /\ Proceed(r, [id |-> nextId, fence |-> 1])
    <3> DEFINE key == Form[r].key
    <3>1. /\ rows'[key] = Reserved(r)
          /\ \A k \in Key \ {key} : rows'[k] = rows[k]
          /\ rows[key].id = 0
          /\ orders' = orders
      BY <1>0, <1>1, <1>6, <2>2 DEF Create, Absent
    <3>2. /\ Reserved(r).id = nextId /\ Reserved(r).status = "PROCESSING"
          /\ Reserved(r).print = Fingerprint(r)
      BY DEF Reserved
    <3>3. \A k \in Key : rows[k].id < nextId
      BY <1>0 DEF IInv, RowIdsUnique, Absent
    <3>4. \A i \in DOMAIN orders : orders[i].rid < nextId /\ orders[i].rid \in Nat
      <4>1. \A i \in DOMAIN orders : orders[i] \in OrderType
        BY DEF IInv, TypeOK, DatabaseType
      <4> QED
        BY <4>1 DEF IInv, RowIdsUnique, OrderType
    <3>5. RowIdsUnique'
      <4>1. \A k \in Key : \/ rows'[k] = Absent
                           \/ rows'[k].id \in 1..(nextId' - 1) /\ rows'[k].status # "ABSENT"
        BY <1>0, <2>2, <3>1, <3>2 DEF IInv, RowIdsUnique
      <4>2. \A k, l \in Key : rows'[k].id = rows'[l].id => k = l \/ rows'[k].id = 0
        BY <3>1, <3>2, <3>3, <1>0 DEF IInv, RowIdsUnique
      <4>3. \A i \in DOMAIN orders' : orders'[i].rid < nextId'
        BY <1>0, <2>2, <3>1, <3>4
      <4> QED
        BY <4>1, <4>2, <4>3 DEF RowIdsUnique
    <3>6. RowNamesItsOrder'
      <4> SUFFICES ASSUME NEW k \in Key PROVE NamesItsOrder(k)'
        BY DEF RowNamesItsOrder
      <4>1. CASE k = key
        BY <1>0, <3>1, <3>2, <3>4, <4>1 DEF NamesItsOrder
      <4>2. CASE k # key
        <5>1. NamesItsOrder(k) /\ rows'[k] = rows[k]
          BY <3>1, <4>2 DEF IInv, RowNamesItsOrder
        <5> QED
          BY <3>1, <5>1 DEF NamesItsOrder
      <4> QED
        BY <4>1, <4>2
    <3>7. AtMostOneOrderPerReservation'
      BY <3>1 DEF IInv, AtMostOneOrderPerReservation
    <3>8. KnowsRow(r)'
      <4>1. pc'[r] = "cart" /\ own'[r].id = nextId
        BY <1>0, <2>2 DEF Proceed
      <4> QED
        BY <1>0, <1>1, <3>1, <3>2, <4>1 DEF KnowsRow, Keyed, Fingerprint, RowOf
    <3>9. ASSUME NEW q \in Request, q # r PROVE KnowsRow(q)'
      <4>1. pc'[q] = pc[q] /\ own'[q] = own[q] /\ seen'[q] = seen[q]
        BY <1>0, <2>2, <3>9, OneMoves
      <4>2. KnowsRow(q) /\ (Keyed(q) => Form[q].key \in Key)
        BY FormAssumption DEF IInv, HolderKnowsRow, Keyed, FormType
      <4>3. CASE ~Keyed(q)
        BY <1>0, <4>1, <4>3, IdleKnows DEF UnkeyedHasNoReservation
      <4>4. CASE Keyed(q) /\ Form[q].key # key
        BY <1>0, <2>2, <3>1, <4>1, <4>2, <4>4 DEF KnowsRow, Keyed, Fingerprint, RowOf
      <4>5. CASE Keyed(q) /\ Form[q].key = key
        <5>1. pc[q] \notin Trying
          BY <3>1, <4>2, <4>5 DEF KnowsRow, RowOf
        <5> QED
          BY <1>0, <2>2, <3>1, <3>2, <4>1, <4>2, <4>5, <5>1 DEF KnowsRow, Keyed, Fingerprint, RowOf
      <4> QED
        BY <4>3, <4>4, <4>5
    <3> QED
      BY <3>5, <3>6, <3>7, <3>8, <3>9 DEF Kept, TablesInv, HolderKnowsRow
  <2> QED
    BY <1>6, <2>1, <2>2 DEF Create
<1>7. CASE Reread(r)
  BY <1>2, <1>3, <1>7 DEF Reread
<1>8. CASE Claim(r)
  <2>1. CASE ClaimLost(r) /\ UNCHANGED rows
    BY <1>2, <1>4, <1>8, <2>1 DEF Claim, ClaimLost, database
  <2>2. CASE /\ Claimable(r)
             /\ rows' = [rows EXCEPT ![Form[r].key] = Claimed(@, r)]
             /\ Goto(r, "claimRead")
             /\ UNCHANGED <<local, answer>>
    <3> DEFINE key == Form[r].key
    <3>1. /\ pc[r] = "claim" /\ pc'[r] = "claimRead" /\ seen'[r] = seen[r]
          /\ orders' = orders /\ nextId' = nextId
      BY <1>0, <1>8, <2>2 DEF Claim, Goto, local
    <3>2. /\ rows[key].id = seen[r].id
          /\ rows[key].status \in {"PROCESSING", "FAILED"}
          /\ rows[key].print = Fingerprint(r)
      BY <1>0, <1>1, <2>2, <3>1 DEF KnowsRow, Claimable
    <3>3. /\ rows'[key].id = rows[key].id /\ rows'[key].status = "PROCESSING"
          /\ rows'[key].print = Fingerprint(r)
          /\ \A k \in Key \ {key} : rows'[k] = rows[k]
      BY <1>0, <1>1, <2>2 DEF Claimed
    <3>4. Quiet
      BY <3>1, <3>2, <3>3 DEF Quiet
    <3>5. TablesInv'
      BY <3>4, QuietStep DEF IInv, TablesInv
    <3>6. \A q \in Request \ {r} : KnowsRow(q)'
      <4>1. \A k \in Key : rows'[k].id = rows[k].id /\ rows'[k].print = rows[k].print
        BY <3>2, <3>3
      <4> QED
        BY <1>0, <2>2, <3>1, <4>1, OthersKnow, OneMoves
    <3>7. KnowsRow(r)'
      BY <1>0, <1>1, <3>1, <3>3 DEF KnowsRow, Keyed, Fingerprint, RowOf, Trying
    <3> QED
      BY <3>5, <3>6, <3>7 DEF Kept, HolderKnowsRow
  <2> QED
    BY <1>8, <2>1, <2>2 DEF Claim
<1>9. CASE ClaimRead(r)
  <2>1. CASE ClaimLost(r)
    BY <1>2, <1>4, <1>9, <2>1 DEF ClaimRead, ClaimLost
  <2>2. CASE /\ RowOf(r).id = seen[r].id
             /\ Proceed(r, [id |-> RowOf(r).id, fence |-> RowOf(r).fence])
    <3>1. /\ pc[r] = "claimRead" /\ pc'[r] = "cart"
          /\ own'[r] = [id |-> RowOf(r).id, fence |-> RowOf(r).fence]
          /\ UNCHANGED database
      BY <1>0, <1>9, <2>2 DEF ClaimRead, Proceed
    <3>2. KnowsRow(r)'
      BY <1>0, <2>2, <3>1 DEF KnowsRow, Keyed, Fingerprint, RowOf, database
    <3> QED
      BY <1>0, <2>2, <3>1, <3>2, OneMoves, ReadStep
  <2> QED
    BY <1>9, <2>1, <2>2 DEF ClaimRead
<1> QED
  BY <1>5, <1>6, <1>7, <1>8, <1>9

\* Any step of checkout()'s try block that ends in an error or in the next call.
LEMMA TryStep ==
    ASSUME IInv, NEW r \in Request, pc[r] \in Trying, UNCHANGED database,
           \/ \E a \in AnswerType : Throw(r, a) \/ Respond(r, a)
           \/ \E label \in {"summary", "tx", "resolve"} : Goto(r, label) /\ UNCHANGED local
    PROVE  Kept
<1>0. TypeOK /\ pc \in [Request -> Labels]
  BY DEF IInv, TypeOK, LocalType
<1>1. RowOf(r)' = RowOf(r)
  BY DEF database, RowOf
<1>2. ASSUME NEW a \in AnswerType, Throw(r, a) PROVE Kept
  <2>1. KnowsRow(r)'
    BY <1>1, <1>2, ThrowKnows
  <2> QED
    BY <1>0, <1>2, <2>1, OneMoves, ReadStep
<1>3. ASSUME NEW a \in AnswerType, Respond(r, a) PROVE Kept
  <2>1. KnowsRow(r)'
    BY <1>0, <1>3, IdleKnows DEF Respond, Trying
  <2> QED
    BY <1>0, <1>3, <2>1, OneMoves, ReadStep
<1>4. ASSUME NEW label \in {"summary", "tx", "resolve"}, Goto(r, label), UNCHANGED local
      PROVE  Kept
  <2>1. pc'[r] \in Trying /\ own'[r] = own[r]
    BY <1>0, <1>4 DEF Goto, local, Trying
  <2>2. KnowsRow(r)'
    BY <1>1, <2>1, TryingKnows
  <2>3. \A q \in Request \ {r} : pc'[q] = pc[q] /\ own'[q] = own[q] /\ seen'[q] = seen[q]
    BY <1>0, <1>4, OneMoves
  <2> QED
    BY <2>2, <2>3, ReadStep
<1> QED
  BY <1>2, <1>3, <1>4

\* The transaction's commit, answered or lost.
LEMMA CommitKept ==
    ASSUME IInv, NEW r \in Request, TxCommit(r) \/ TxCommitLost(r)
    PROVE  Kept
<1>0. /\ TypeOK /\ pc \in [Request -> Labels] /\ rows \in [Key -> Row]
      /\ pc[r] = "tx" /\ StillOwns(r) /\ Commit(r)
  BY DEF IInv, TypeOK, LocalType, DatabaseType, TxCommit, TxCommitLost
<1>1. TablesInv'
  BY <1>0, CommitStep DEF TablesInv
<1>2. /\ \A k \in Key : rows'[k].id = rows[k].id /\ rows'[k].print = rows[k].print
      /\ nextId' = nextId
  BY <1>0 DEF Commit, Finalized
<1>3. \A q \in Request \ {r} : KnowsRow(q)'
  BY <1>0, <1>2, OthersKnow, OneMoves DEF TxCommit, TxCommitLost
<1>4. KnowsRow(r)'
  <2>1. CASE TxCommit(r)
    BY <1>0, <2>1, IdleKnows DEF TxCommit, Respond, Trying
  <2>2. CASE TxCommitLost(r)
    <3>1. Keyed(r) => RowOf(r)'.id = RowOf(r).id /\ RowOf(r)'.print = RowOf(r).print
      BY <1>2, FormAssumption DEF Keyed, RowOf, FormType
    <3> QED
      BY <1>0, <2>2, <3>1, ThrowKnows DEF TxCommitLost, Trying
  <2> QED
    BY <2>1, <2>2
<1> QED
  BY <1>1, <1>3, <1>4 DEF Kept, HolderKnowsRow

\* markFailed's update.
LEMMA MarkFailedKept ==
    ASSUME IInv, NEW r \in Request, MarkFailed(r)
    PROVE  Kept
<1>0. /\ TypeOK /\ pc \in [Request -> Labels] /\ rows \in [Key -> Row]
      /\ Respond(r, answer[r]) /\ orders' = orders /\ nextId' = nextId
  BY DEF IInv, TypeOK, LocalType, DatabaseType, MarkFailed
<1>1. Quiet
  <2>1. CASE MayFail(r)
    <3>1. rows[Form[r].key].status = "PROCESSING"
      BY <2>1 DEF MayFail, RowOf
    <3>2. rows' = [rows EXCEPT ![Form[r].key] = Failed(rows[Form[r].key])]
      BY <2>1 DEF MarkFailed
    <3>3. \A row \in Row : /\ Failed(row).id = row.id /\ Failed(row).print = row.print
                          /\ Failed(row).status = "FAILED"
      BY DEF Failed, Row
    <3> QED
      BY <1>0, <3>1, <3>2, <3>3 DEF Quiet
  <2>2. CASE ~MayFail(r)
    BY <1>0, <2>2 DEF MarkFailed, Quiet
  <2> QED
    BY <2>1, <2>2
<1>2. TablesInv'
  BY <1>1, QuietStep DEF IInv, TablesInv
<1>3. \A q \in Request \ {r} : KnowsRow(q)'
  BY <1>0, <1>1, OthersKnow, OneMoves DEF Quiet
<1>4. KnowsRow(r)'
  BY <1>0, IdleKnows DEF Respond, Trying
<1> QED
  BY <1>2, <1>3, <1>4 DEF Kept, HolderKnowsRow

\* Time passing over a row, and its removal once no request that holds it runs.
LEMMA TimeKept ==
    ASSUME IInv, NEW k \in Key, Age(k) \/ Sweep(k)
    PROVE  Kept
<1>0. /\ rows \in [Key -> Row] /\ rows[k] \in Row /\ nextId \in Nat \ {0}
      /\ orders' = orders /\ nextId' = nextId /\ pc' = pc /\ own' = own /\ seen' = seen
  BY DEF IInv, TypeOK, DatabaseType, Age, Sweep, local
<1>1. CASE Age(k)
  <2>1. /\ rows' = [rows EXCEPT ![k].age = "stale"] /\ rows[k].status = "PROCESSING"
    BY <1>1 DEF Age
  <2>2. /\ rows'[k].id = rows[k].id /\ rows'[k].print = rows[k].print
        /\ rows'[k].status = "PROCESSING"
        /\ \A l \in Key \ {k} : rows'[l] = rows[l]
    BY <1>0, <2>1 DEF Row
  <2>3. Quiet
    BY <1>0, <2>1, <2>2 DEF Quiet
  <2>4. TablesInv'
    BY <2>3, QuietStep DEF IInv, TablesInv
  <2>5. ASSUME NEW q \in Request PROVE KnowsRow(q)'
    <3>1. KnowsRow(q) /\ UnkeyedHasNoReservation
      BY DEF IInv, HolderKnowsRow
    <3>2. CASE Keyed(q)
      <4>1. RowOf(q)'.id = RowOf(q).id /\ RowOf(q)'.print = RowOf(q).print
        BY <2>2, <3>2, FormAssumption DEF RowOf, Keyed, FormType
      <4> QED
        BY <1>0, <3>1, <4>1 DEF KnowsRow, Keyed, Fingerprint
    <3>3. CASE ~Keyed(q)
      BY <1>0, <3>1, <3>3, IdleKnows DEF UnkeyedHasNoReservation
    <3> QED
      BY <3>2, <3>3
  <2> QED
    BY <2>4, <2>5 DEF Kept, HolderKnowsRow
<1>2. CASE Sweep(k)
  <2>1. /\ rows'[k] = Absent /\ ~OwnerRuns(k)
        /\ \A l \in Key \ {k} : rows'[l] = rows[l]
    BY <1>0, <1>2 DEF Sweep
  <2>2. RowIdsUnique'
    BY <1>0, <2>1 DEF IInv, RowIdsUnique, Absent
  <2>3. RowNamesItsOrder'
    <3> SUFFICES ASSUME NEW l \in Key PROVE NamesItsOrder(l)'
      BY DEF RowNamesItsOrder
    <3>1. NamesItsOrder(l)
      BY DEF IInv, RowNamesItsOrder
    <3> QED
      BY <1>0, <2>1, <3>1 DEF NamesItsOrder, Absent
  <2>4. AtMostOneOrderPerReservation'
    BY <1>0 DEF IInv, AtMostOneOrderPerReservation
  <2>5. ASSUME NEW q \in Request PROVE KnowsRow(q)'
    <3>1. KnowsRow(q) /\ UnkeyedHasNoReservation
      BY DEF IInv, HolderKnowsRow
    <3>2. CASE ~Keyed(q)
      BY <1>0, <3>1, <3>2, IdleKnows DEF UnkeyedHasNoReservation
    <3>3. CASE Keyed(q) /\ Form[q].key # k
      <4>1. RowOf(q)' = RowOf(q)
        BY <2>1, <3>3, FormAssumption DEF RowOf, Keyed, FormType
      <4> QED
        BY <1>0, <3>1, <4>1 DEF KnowsRow, Keyed, Fingerprint
    <3>4. CASE Keyed(q) /\ Form[q].key = k
      <4>1. pc[q] \notin Trying
        BY <2>1, <3>1, <3>4 DEF KnowsRow, OwnerRuns, Trying, RowOf
      <4>2. RowOf(q)'.id = 0
        BY <2>1, <3>4 DEF RowOf, Absent
      <4> QED
        BY <1>0, <3>1, <4>1, <4>2 DEF KnowsRow, Keyed, Fingerprint
    <3> QED
      BY <3>2, <3>3, <3>4
  <2> QED
    BY <2>2, <2>3, <2>4, <2>5 DEF Kept, TablesInv, HolderKnowsRow
<1> QED
  BY <1>1, <1>2

\* The invariant is inductive.
LEMMA InvariantInit == Init => IInv
  BY InitType DEF Init, IInv, RowIdsUnique, RowNamesItsOrder, NamesItsOrder, HolderKnowsRow,
     KnowsRow, AtMostOneOrderPerReservation, Absent, Entry, Trying, Keyed

LEMMA InvariantStep == IInv /\ [Next]_vars => IInv'
<1> SUFFICES ASSUME IInv, [Next]_vars PROVE IInv'
  OBVIOUS
<1>1. TypeOK' /\ UnkeyedHasNoReservation'
  BY TypeStep, UnkeyedStep DEF IInv
<1>2. ASSUME NEW r \in Request, Serve(r) PROVE Kept
  <2>1. CASE Find(r) \/ Create(r) \/ Reread(r) \/ Claim(r) \/ ClaimRead(r)
    BY <2>1, BeginStep
  <2>2. CASE Cart(r) \/ Summary(r) \/ TxOutOfStock(r) \/ TxVoucherGone(r) \/ TxSuperseded(r)
    BY <2>2, AnswerTypes, TryStep DEF Cart, Summary, TxOutOfStock, TxVoucherGone, TxSuperseded, Trying
  <2>3. CASE TxCommit(r)
    BY <2>3, CommitKept
  <2>4. CASE MarkFailed(r)
    BY <2>4, MarkFailedKept
  <2>5. CASE Resolve(r)
    <3>1. PICK a \in AnswerType : Respond(r, a)
      <4>1. Keyed(r)
        BY <2>5 DEF Resolve, IInv, UnkeyedHasNoReservation
      <4>2. RowOf(r).order \in Nat
        BY <4>1, FormAssumption DEF IInv, TypeOK, DatabaseType, Row, RowOf, Keyed, FormType
      <4> QED
        BY <2>5, <4>2, AnswerTypes DEF Resolve
    <3> QED
      BY <2>5, <3>1, TryStep DEF Resolve, Trying
  <2> QED
    BY <1>2, <2>1, <2>2, <2>3, <2>4, <2>5 DEF Serve
<1>3. ASSUME NEW r \in Request,
             \/ TxNumberTaken(r) \/ TxFailure(r) \/ MarkFailedLost(r) \/ Retry(r) \/ Crash(r)
      PROVE  Kept
  <2>0. answer[r] \in AnswerType /\ pc \in [Request -> Labels] /\ TypeOK
    BY DEF IInv, TypeOK, LocalType
  <2>1. CASE TxNumberTaken(r)
    <3>1. CASE attempt[r] < MaxAttempts
      <4>1. UNCHANGED <<database, pc, own, seen>>
        BY <2>1, <3>1 DEF TxNumberTaken
      <4>2. KnowsRow(r)'
        BY <4>1 DEF IInv, HolderKnowsRow, KnowsRow, Keyed, Fingerprint, RowOf, database
      <4> QED
        BY <4>1, <4>2, ReadStep
    <3>2. CASE ~(attempt[r] < MaxAttempts)
      BY <2>1, <3>2, AnswerTypes, TryStep DEF TxNumberTaken, Trying
    <3> QED
      BY <3>1, <3>2
  <2>2. CASE TxFailure(r)
    BY <2>2, AnswerTypes, TryStep DEF TxFailure, Trying
  <2>3. CASE MarkFailedLost(r)
    BY <2>0, <2>3, TryStep DEF MarkFailedLost, Trying
  <2>4. CASE Retry(r)
    <3>1. /\ UNCHANGED <<database, own, seen>>
          /\ pc' = [pc EXCEPT ![r] = Entry(r)]
      BY <2>4 DEF Retry, local
    <3>2. KnowsRow(r)'
      BY <2>0, <3>1, IdleKnows DEF Entry, Trying
    <3> QED
      BY <2>0, <3>1, <3>2, ReadStep
  <2>5. CASE Crash(r)
    <3>1. Respond(r, Failure) /\ UNCHANGED database
      BY <2>5 DEF Crash
    <3>2. KnowsRow(r)'
      BY <2>0, <3>1, IdleKnows DEF Respond, Trying
    <3> QED
      BY <2>0, <3>1, <3>2, OneMoves, ReadStep
  <2> QED
    BY <1>3, <2>1, <2>2, <2>3, <2>4, <2>5
<1>4. ASSUME Settled \/ UNCHANGED vars PROVE Kept
  <2>1. UNCHANGED vars
    BY <1>4 DEF Settled
  <2>2. TablesInv'
    BY <2>1, QuietStep DEF vars, database, Quiet, IInv, TablesInv
  <2>3. ASSUME NEW q \in Request PROVE KnowsRow(q)'
    BY <2>1 DEF IInv, HolderKnowsRow, KnowsRow, Keyed, Fingerprint, RowOf, vars, database, local
  <2> QED
    BY <2>2, <2>3 DEF Kept, HolderKnowsRow
<1>5. Kept
  BY <1>2, <1>3, <1>4, CommitKept, TimeKept DEF Next
<1> QED
  BY <1>1, <1>5 DEF IInv, Kept, TablesInv

\* Whatever the number of requests, keys, crashes and reclaims, a reservation of an
\* Idempotency-Key yields at most one committed order.
THEOREM AtMostOneOrder == Spec => []AtMostOneOrderPerReservation
<1>1. IInv => AtMostOneOrderPerReservation
  BY DEF IInv
<1> QED
  BY <1>1, InvariantInit, InvariantStep, PTL DEF Spec

\* The reservation and the order commit together, in every instance.
THEOREM CompletedExactlyWithOrder == Spec => []CompletedIffOrdered
<1>1. IInv => CompletedIffOrdered
  <2> SUFFICES ASSUME IInv, NEW k \in Key, rows[k] # Absent
               PROVE  /\ rows[k].status = "COMPLETED"
                            => rows[k].order \in DOMAIN orders
                               /\ orders[rows[k].order].rid = rows[k].id
                      /\ rows[k].status # "COMPLETED"
                            => \A i \in DOMAIN orders : orders[i].rid # rows[k].id
    BY DEF CompletedIffOrdered
  <2>1. rows[k].id # 0
    BY DEF IInv, RowIdsUnique
  <2> QED
    BY <2>1 DEF IInv, RowNamesItsOrder, NamesItsOrder
<1> QED
  BY <1>1, InvariantInit, InvariantStep, PTL DEF Spec

\* A completed key stays as it is until retention removes it: the steps that write to
\* a row find it PROCESSING or FAILED, or find no row.
THEOREM CompletedIsFinal == Spec => CompletedKeyIsFinal
<1> DEFINE Final == \A k \in Key : rows[k].status = "COMPLETED" => rows'[k] \in {rows[k], Absent}
<1>1. ASSUME IInv, [Next]_vars PROVE Final
  <2> SUFFICES ASSUME NEW k \in Key, rows[k].status = "COMPLETED"
               PROVE  rows'[k] \in {rows[k], Absent}
    OBVIOUS
  <2>0. rows \in [Key -> Row]
    BY <1>1 DEF IInv, TypeOK, DatabaseType
  <2>1. ASSUME UNCHANGED rows PROVE rows'[k] = rows[k]
    BY <2>1
  <2>2. ASSUME NEW r \in Request, NEW row, rows' = [rows EXCEPT ![Form[r].key] = row],
               RowOf(r).status # "COMPLETED"
        PROVE  rows'[k] = rows[k]
    BY <2>0, <2>2 DEF RowOf
  <2>3. ASSUME NEW r \in Request, Create(r) PROVE rows'[k] = rows[k]
    BY <2>1, <2>2, <2>3 DEF Create, Absent
  <2>4. ASSUME NEW r \in Request, Claim(r) PROVE rows'[k] = rows[k]
    <3>1. CASE Claimable(r) /\ rows' = [rows EXCEPT ![Form[r].key] = Claimed(@, r)]
      <4>1. RowOf(r).status \in {"FAILED", "PROCESSING"}
        BY <1>1, <2>4, <3>1 DEF Claim, Claimable, IInv, HolderKnowsRow, KnowsRow
      <4> QED
        BY <2>2, <3>1, <4>1
    <3> QED
      BY <2>1, <2>4, <3>1 DEF Claim
  <2>5. ASSUME NEW r \in Request, MarkFailed(r) PROVE rows'[k] = rows[k]
    BY <2>1, <2>2, <2>5 DEF MarkFailed, MayFail
  <2>6. ASSUME NEW r \in Request, StillOwns(r), Commit(r) PROVE rows'[k] = rows[k]
    <3>1. CASE Keyed(r)
      <4>1. rows' = [rows EXCEPT ![Form[r].key] = Finalized(rows[Form[r].key], Len(orders) + 1)]
        BY <2>6, <3>1 DEF Commit
      <4>2. RowOf(r).status = "PROCESSING"
        BY <2>6, <3>1 DEF StillOwns
      <4> QED
        BY <2>2, <4>1, <4>2
    <3>2. CASE ~Keyed(r)
      BY <2>1, <2>6, <3>2 DEF Commit
    <3> QED
      BY <3>1, <3>2
  <2>7. ASSUME NEW l \in Key, Age(l) \/ Sweep(l) PROVE rows'[k] \in {rows[k], Absent}
    BY <2>0, <2>7 DEF Age, Sweep
  <2>8. ASSUME NEW r \in Request, Serve(r) PROVE rows'[k] = rows[k]
    <3>1. CASE UNCHANGED rows
      BY <2>1, <3>1
    <3>2. CASE Create(r) \/ Claim(r) \/ MarkFailed(r) \/ TxCommit(r)
      BY <2>3, <2>4, <2>5, <2>6, <3>2 DEF TxCommit
    <3> QED
      BY <2>8, <3>1, <3>2 DEF Serve, Find, Reread, ClaimRead, Cart, Summary, TxOutOfStock,
         TxVoucherGone, TxSuperseded, Resolve, database
  <2>9. ASSUME NEW r \in Request,
               \/ Retry(r) \/ Crash(r) \/ TxNumberTaken(r) \/ TxFailure(r) \/ MarkFailedLost(r)
        PROVE  rows'[k] = rows[k]
    BY <2>1, <2>9 DEF Retry, Crash, TxNumberTaken, TxFailure, MarkFailedLost, database
  <2>10. ASSUME NEW r \in Request, TxCommitLost(r) PROVE rows'[k] = rows[k]
    BY <2>6, <2>10 DEF TxCommitLost
  <2>11. CASE Settled \/ UNCHANGED vars
    BY <2>1, <2>11 DEF Settled, vars, database
  <2> QED
    BY <1>1, <2>7, <2>8, <2>9, <2>10, <2>11 DEF Next
<1>2. IInv /\ [Next]_vars => [Final]_vars
  BY <1>1
<1> QED
  BY <1>2, InvariantInit, InvariantStep, PTL DEF Spec, CompletedKeyIsFinal

-----------------------------------------------------------------------------
(* The books: what is sold, and the vouchers used, agree with the orders.  *)

\* Only a commit of the order transaction changes the books, and it found enough stock,
\* an open voucher and its own reservation.
LEMMA OnlyCommitsTrade ==
    ASSUME [Next]_vars
    PROVE  \/ UNCHANGED <<orders, stock, used, usage>>
           \/ \E r \in Request : InStock(r) /\ VoucherOpen(r) /\ Commit(r)
<1>1. ASSUME NEW r \in Request, Serve(r)
      PROVE  UNCHANGED <<orders, stock, used, usage>> \/ TxCommit(r)
  BY <1>1 DEF Serve, Find, Create, Reread, Claim, ClaimRead, Cart, Summary, TxOutOfStock,
     TxVoucherGone, TxSuperseded, MarkFailed, Resolve, database
<1>2. ASSUME NEW r \in Request,
             \/ Retry(r) \/ Crash(r) \/ TxNumberTaken(r) \/ TxFailure(r) \/ MarkFailedLost(r)
      PROVE  UNCHANGED <<orders, stock, used, usage>>
  BY <1>2 DEF Retry, Crash, TxNumberTaken, TxFailure, MarkFailedLost, database
<1>3. ASSUME NEW k \in Key, Age(k) \/ Sweep(k) PROVE UNCHANGED <<orders, stock, used, usage>>
  BY <1>3 DEF Age, Sweep
<1>4. CASE Settled \/ UNCHANGED vars
  BY <1>4 DEF Settled, vars, database
<1>5. ASSUME NEW r \in Request, TxCommit(r) \/ TxCommitLost(r)
      PROVE  InStock(r) /\ VoucherOpen(r) /\ Commit(r)
  BY <1>5 DEF TxCommit, TxCommitLost
<1> QED
  BY <1>1, <1>2, <1>3, <1>4, <1>5 DEF Next

\* The order a commit appends.
LEMMA OrderAppended ==
    ASSUME TypeOK, NEW r \in Request, Commit(r)
    PROVE  LET id == Len(orders) + 1 IN
           /\ id \in Nat
           /\ id \notin DOMAIN orders
           /\ DOMAIN orders' = DOMAIN orders \cup {id}
           /\ IsFiniteSet(DOMAIN orders)
           /\ \A i \in DOMAIN orders : orders'[i] = orders[i] /\ orders[i] \in OrderType
           /\ orders'[id].form = Form[r]
<1> DEFINE new == [rid |-> own[r].id, fence |-> own[r].fence, form |-> Form[r]]
<1>1. orders \in Seq(OrderType) /\ orders' = Append(orders, new)
  BY DEF TypeOK, DatabaseType, Commit
<1>2. DOMAIN orders = 1..Len(orders) /\ Len(orders) \in Nat
  BY <1>1
<1>3. IsFiniteSet(1..Len(orders))
  BY <1>2, FS_Interval
<1> QED
  BY <1>1, <1>2, <1>3

\* The stock of a product falls by what the new order takes of it.
LEMMA StockStep ==
    ASSUME TypeOK, StockConserved, NEW r \in Request, InStock(r), Commit(r)
    PROVE  StockConserved'
<1> SUFFICES ASSUME NEW p \in Product
             PROVE  /\ stock'[p] >= 0
                    /\ stock'[p] + SumFunction([i \in DOMAIN orders' |-> orders'[i].form.qty[p]])
                         = InitStock[p]
  BY DEF StockConserved
<1> DEFINE id == Len(orders) + 1
           S == DOMAIN orders
           f == [i \in S |-> orders[i].form.qty[p]]
           g == [i \in DOMAIN orders' |-> orders'[i].form.qty[p]]
<1>1. /\ id \notin S /\ DOMAIN orders' = S \cup {id} /\ IsFiniteSet(S)
      /\ \A i \in S : orders'[i] = orders[i] /\ orders[i] \in OrderType
      /\ orders'[id].form = Form[r]
  BY OrderAppended
<1>2. Form[r].qty[p] \in Nat /\ stock[p] \in Nat /\ Form[r].qty[p] <= stock[p]
  BY FormAssumption, TableAssumption DEF TypeOK, DatabaseType, FormType, InStock
<1>3. \A i \in S : f[i] \in Nat /\ g[i] = f[i]
  BY <1>1 DEF OrderType, FormType
<1>4. g[id] = Form[r].qty[p]
  BY <1>1
<1>5. stock'[p] = stock[p] - Form[r].qty[p]
  BY DEF Commit
<1>6. SumFunction(f) = SumFunctionOnSet(f, S)
      /\ SumFunction(g) = SumFunctionOnSet(g, S \cup {id})
  BY <1>1 DEF SumFunction
<1>7. stock[p] + SumFunction(f) = InitStock[p] /\ InitStock[p] \in Nat
  BY TableAssumption DEF StockConserved
<1> HIDE DEF id, S, f, g
<1>8. /\ SumFunctionOnSet(f, S) \in Nat
      /\ SumFunctionOnSet(g, S \cup {id}) = SumFunctionOnSet(f, S) + g[id]
  BY <1>1, <1>2, <1>3, <1>4, SumGrows
<1>9. stock'[p] >= 0 /\ stock'[p] + SumFunction(g) = InitStock[p]
  BY <1>2, <1>4, <1>5, <1>6, <1>7, <1>8
<1> QED
  BY <1>9 DEF g, S

\* The voucher's counter, usage rows and orders move together.
LEMMA VoucherStep ==
    ASSUME TypeOK, VoucherRules, UsageNamesItsOrder,
           NEW r \in Request, VoucherOpen(r), Commit(r)
    PROVE  VoucherRules' /\ UsageNamesItsOrder'
<1> DEFINE id == Len(orders) + 1
           With(v) == {i \in DOMAIN orders : orders[i].form.voucher = v}
           Rows(v) == {u.order : u \in {w \in usage : w.voucher = v}}
           new(v) == [voucher |-> v, user |-> Form[r].user, order |-> id]
<1>1. /\ id \notin DOMAIN orders /\ DOMAIN orders' = DOMAIN orders \cup {id}
      /\ IsFiniteSet(DOMAIN orders)
      /\ \A i \in DOMAIN orders : orders'[i] = orders[i]
      /\ orders'[id].form = Form[r]
  BY OrderAppended
<1>2. usage' = usage \cup {new(v) : v \in {Form[r].voucher} \cap Voucher}
  BY DEF Commit
<1>3. UsageNamesItsOrder'
  BY <1>1, <1>2 DEF UsageNamesItsOrder
<1>4. ASSUME NEW v \in Voucher
      PROVE  /\ used'[v] <= UsageLimit[v]
             /\ used'[v] = Cardinality(With(v)')
             /\ With(v)' = Rows(v)'
             /\ \A i, j \in With(v)' : orders'[i].form.user = orders'[j].form.user => i = j
  <2>0. /\ used[v] <= UsageLimit[v] /\ used[v] = Cardinality(With(v)) /\ With(v) = Rows(v)
        /\ \A i, j \in With(v) : orders[i].form.user = orders[j].form.user => i = j
        /\ used[v] \in Nat /\ UsageLimit[v] \in Nat
    BY TableAssumption DEF VoucherRules, TypeOK, DatabaseType
  <2>1. used'[v] = IF v = Form[r].voucher THEN used[v] + 1 ELSE used[v]
    BY DEF Commit
  <2>2. CASE v = Form[r].voucher
    <3>1. used[v] < UsageLimit[v] /\ \A u \in usage : u.voucher = v => u.user # Form[r].user
      BY <2>2 DEF VoucherOpen
    <3>2. With(v)' = With(v) \cup {id}
      BY <1>1, <2>2
    <3>3. usage' = usage \cup {new(v)}
      BY <1>2, <2>2
    <3>4. Rows(v)' = Rows(v) \cup {id}
      <4>1. new(v).voucher = v /\ new(v).order = id
        OBVIOUS
      <4> HIDE DEF new, id
      <4>2. {w \in usage' : w.voucher = v} = {w \in usage : w.voucher = v} \cup {new(v)}
        BY <3>3, <4>1
      <4> QED
        BY <4>1, <4>2
    <3>5. IsFiniteSet(With(v)) /\ id \notin With(v)
      BY <1>1, FS_Subset
    <3>6. Cardinality(With(v) \cup {id}) = Cardinality(With(v)) + 1
      BY <3>5, FS_AddElement
    <3>7. \A i \in With(v) : orders[i].form.user # Form[r].user
      BY <2>0, <3>1 DEF UsageNamesItsOrder
    <3>8. \A i, j \in With(v)' : orders'[i].form.user = orders'[j].form.user => i = j
      BY <1>1, <2>0, <3>2, <3>7
    <3> HIDE DEF With, Rows
    <3>9. used'[v] = used[v] + 1 /\ used[v] + 1 <= UsageLimit[v]
      BY <2>0, <2>1, <2>2, <3>1
    <3>10. used'[v] = Cardinality(With(v)') /\ With(v)' = Rows(v)'
      BY <2>0, <3>2, <3>4, <3>6, <3>9
    <3> QED
      BY <3>8, <3>9, <3>10
  <2>3. CASE v # Form[r].voucher
    <3>1. With(v)' = With(v)
      BY <1>1, <2>3
    <3>2. Rows(v)' = Rows(v)
      BY <1>2, <2>3
    <3> QED
      BY <1>1, <2>0, <2>1, <2>3, <3>1, <3>2
  <2> QED
    BY <2>2, <2>3
<1> QED
  BY <1>3, <1>4 DEF VoucherRules

\* The books balance when nothing is sold, and after every step.
LEMMA BooksInit == Init => BooksBalance
<1> SUFFICES ASSUME Init PROVE BooksBalance
  OBVIOUS
<1>1. orders = <<>> /\ DOMAIN orders = {} /\ usage = {}
  BY DEF Init
<1>2. \A f : SumFunctionOnSet(f, {}) = 0
  BY SumStep, FS_EmptySet
<1>3. StockConserved
  BY <1>1, <1>2, TableAssumption DEF Init, StockConserved, SumFunction
<1>4. VoucherRules
  <2>1. \A v : {i \in DOMAIN orders : orders[i].form.voucher = v} = {}
              /\ {u.order : u \in {w \in usage : w.voucher = v}} = {}
    BY <1>1
  <2> QED
    BY <1>1, <2>1, FS_EmptySet, TableAssumption DEF Init, VoucherRules
<1> QED
  BY <1>1, <1>3, <1>4 DEF BooksBalance, UsageNamesItsOrder

\* A step either leaves the books alone or is a commit, which keeps them balanced.
LEMMA BooksStep == TypeOK /\ BooksBalance /\ [Next]_vars => BooksBalance'
<1> SUFFICES ASSUME TypeOK, BooksBalance, [Next]_vars PROVE BooksBalance'
  OBVIOUS
<1>1. CASE UNCHANGED <<orders, stock, used, usage>>
  <2>1. StockConserved'
    BY <1>1 DEF BooksBalance, StockConserved
  <2>2. VoucherRules' /\ UsageNamesItsOrder'
    BY <1>1 DEF BooksBalance, VoucherRules, UsageNamesItsOrder
  <2> QED
    BY <2>1, <2>2 DEF BooksBalance
<1>2. ASSUME NEW r \in Request, InStock(r), VoucherOpen(r), Commit(r) PROVE BooksBalance'
  BY <1>2, StockStep, VoucherStep DEF BooksBalance
<1> QED
  BY <1>1, <1>2, OnlyCommitsTrade

\* However checkouts interleave, the stock, the vouchers' counters and the usage rows
\* agree with the committed orders.
THEOREM BooksAlwaysBalance == Spec => []BooksBalance
<1>1. BooksBalance /\ TypeOK /\ TypeOK' /\ [Next]_vars => BooksBalance'
  BY BooksStep
<1> QED
  BY <1>1, BooksInit, TypeCorrect, PTL DEF Spec

\* Whatever the number of products, requests and orders, no product is oversold and what
\* has left the stock is what the orders hold.
THEOREM NothingOversold == Spec => []StockConserved
<1>1. BooksBalance => StockConserved
  BY DEF BooksBalance
<1> QED
  BY <1>1, BooksAlwaysBalance, PTL

\* However checkouts race for a voucher between its check and the transaction, its limit
\* and its one use per user hold, and counter, usage rows and orders agree.
THEOREM VouchersWithinRules == Spec => []VoucherRules
<1>1. BooksBalance => VoucherRules
  BY DEF BooksBalance
<1> QED
  BY <1>1, BooksAlwaysBalance, PTL

-----------------------------------------------------------------------------
(* What clients are shown.                                                 *)

\* What a step of a request does to its answer: it stays, or it names no order; or the
\* request is answered with the order its key's row names, or with the one it commits.
AnswerMoves(r) ==
    \/ answer'[r] = answer[r] /\ (pc'[r] = pc[r] \/ pc[r] # "done" \/ answer[r].kind \notin Shown)
    \/ /\ answer'[r].order = 0 /\ answer'[r].kind \notin Shown
       /\ pc[r] # "done" \/ answer[r].kind \notin Shown
    \/ /\ answer'[r] = Replay(RowOf(r).order) /\ pc'[r] = "done" /\ pc[r] # "done"
       /\ Keyed(r) /\ RowOf(r).status = "COMPLETED" /\ RowOf(r).print = Fingerprint(r)
       /\ UNCHANGED database
    \/ /\ answer'[r] = Fresh(Len(orders) + 1) /\ pc'[r] = "done" /\ pc[r] # "done"
       /\ TxCommit(r)

\* The answers that name no order.
LEMMA PlainAnswers ==
    \A a \in {NoAnswer, Conflict, Mismatch, Rejected, Failure} : a.order = 0 /\ a.kind \notin Shown
  BY DEF NoAnswer, Conflict, Mismatch, Rejected, Failure, Shown

\* Every step of a request moves its answer in one of these ways, and no other request's.
LEMMA RequestAnswers ==
    ASSUME IInv, NEW r \in Request,
           \/ Serve(r) \/ Retry(r) \/ Crash(r)
           \/ TxNumberTaken(r) \/ TxCommitLost(r) \/ TxFailure(r) \/ MarkFailedLost(r)
    PROVE  /\ AnswerMoves(r)
           /\ \A q \in Request \ {r} : answer'[q] = answer[q] /\ pc'[q] = pc[q]
<1>0. /\ pc \in [Request -> Labels] /\ answer \in [Request -> AnswerType]
      /\ UnkeyedHasNoReservation /\ KnowsRow(r)
  BY DEF IInv, TypeOK, LocalType, HolderKnowsRow
<1> DEFINE Rest1 == \A q \in Request \ {r} : answer'[q] = answer[q] /\ pc'[q] = pc[q]
           Plain == {NoAnswer, Conflict, Mismatch, Rejected, Failure}
<1>1. ASSUME NEW a \in Plain, Respond(r, a) \/ Throw(r, a), pc[r] # "done"
      PROVE  AnswerMoves(r) /\ Rest1
  <2>1. answer' = [answer EXCEPT ![r] = a]
    BY <1>1 DEF Respond, Throw
  <2>2. \A q \in Request \ {r} : pc'[q] = pc[q]
    BY <1>0, <1>1 DEF Respond, Throw, Goto
  <2> QED
    BY <1>0, <1>1, <2>1, <2>2, PlainAnswers DEF AnswerMoves
<1>2. ASSUME NEW label, Goto(r, label) \/ UNCHANGED pc, UNCHANGED answer, pc[r] # "done"
      PROVE  AnswerMoves(r) /\ Rest1
  BY <1>0, <1>2 DEF Goto, AnswerMoves
<1>3. ASSUME ToReread(r), pc[r] # "done" PROVE AnswerMoves(r) /\ Rest1
  BY <1>2, <1>3 DEF ToReread
<1>4. ASSUME ClaimLost(r), pc[r] # "done" PROVE AnswerMoves(r) /\ Rest1
  BY <1>1, <1>3, <1>4 DEF ClaimLost
<1>5. ASSUME NEW o, Proceed(r, o), pc[r] # "done" PROVE AnswerMoves(r) /\ Rest1
  BY <1>2, <1>5 DEF Proceed, Goto
<1>6. ASSUME Respond(r, Replay(RowOf(r).order)), pc[r] # "done", Keyed(r),
             RowOf(r).status = "COMPLETED", RowOf(r).print = Fingerprint(r), UNCHANGED database
      PROVE  AnswerMoves(r) /\ Rest1
  BY <1>0, <1>6 DEF Respond, AnswerMoves
<1>7. ASSUME HandleExisting(r), pc[r] # "done", Keyed(r), UNCHANGED database
      PROVE  AnswerMoves(r) /\ Rest1
  BY <1>1, <1>2, <1>6, <1>7 DEF HandleExisting
<1>8. ASSUME Respond(r, answer[r]), pc[r] # "done" PROVE AnswerMoves(r) /\ Rest1
  BY <1>0, <1>8 DEF Respond, AnswerMoves
<1>9. CASE Find(r) \/ Reread(r)
  <2>1. Keyed(r) /\ pc[r] # "done" /\ UNCHANGED database
    BY <1>0, <1>9 DEF Find, Reread, UnkeyedHasNoReservation
  <2> QED
    BY <1>1, <1>2, <1>7, <1>9, <2>1 DEF Find, Reread
<1>10. CASE Create(r) \/ Claim(r) \/ ClaimRead(r)
  <2>1. pc[r] # "done"
    BY <1>10 DEF Create, Claim, ClaimRead
  <2> QED
    BY <1>2, <1>3, <1>4, <1>5, <1>10, <2>1 DEF Create, Claim, ClaimRead
<1>11. CASE Cart(r) \/ Summary(r) \/ TxOutOfStock(r) \/ TxVoucherGone(r) \/ TxSuperseded(r)
            \/ TxNumberTaken(r) \/ TxCommitLost(r) \/ TxFailure(r)
  <2>1. pc[r] # "done"
    BY <1>11 DEF Cart, Summary, TxOutOfStock, TxVoucherGone, TxSuperseded, TxNumberTaken,
       TxCommitLost, TxFailure
  <2>2. \/ Throw(r, Rejected) \/ Throw(r, Failure)
        \/ UNCHANGED answer /\ (UNCHANGED pc \/ \E label : Goto(r, label))
    BY <1>11 DEF Cart, Summary, TxOutOfStock, TxVoucherGone, TxSuperseded, TxNumberTaken,
       TxCommitLost, TxFailure
  <2> QED
    BY <1>1, <1>2, <2>1, <2>2
<1>12. CASE TxCommit(r)
  BY <1>0, <1>12 DEF TxCommit, Respond, AnswerMoves
<1>13. CASE MarkFailed(r) \/ MarkFailedLost(r)
  BY <1>8, <1>13 DEF MarkFailed, MarkFailedLost
<1>14. CASE Resolve(r)
  <2>1. Keyed(r) /\ RowOf(r).print = Fingerprint(r) /\ pc[r] # "done" /\ UNCHANGED database
    BY <1>0, <1>14 DEF Resolve, UnkeyedHasNoReservation, KnowsRow, Trying
  <2> QED
    BY <1>1, <1>6, <1>14, <2>1 DEF Resolve
<1>15. CASE Retry(r)
  <2>1. answer' = [answer EXCEPT ![r] = NoAnswer] /\ pc' = [pc EXCEPT ![r] = Entry(r)]
        /\ answer[r].kind \notin Shown
    BY <1>15 DEF Retry, Shown
  <2> QED
    BY <1>0, <2>1, PlainAnswers DEF AnswerMoves
<1>16. CASE Crash(r)
  BY <1>1, <1>16 DEF Crash
<1> QED
  BY <1>9, <1>10, <1>11, <1>12, <1>13, <1>14, <1>15, <1>16 DEF Serve

\* The order that a completed row of a request's own form names is an order for that form.
LEMMA RowsOrderIsOwn ==
    ASSUME IInv, NEW r \in Request, Keyed(r), RowOf(r).status = "COMPLETED",
           RowOf(r).print = Fingerprint(r)
    PROVE  /\ Form[r].key \in Key
           /\ RowOf(r).order \in DOMAIN orders
           /\ LET form == orders[RowOf(r).order].form IN
                form.key = Form[r].key /\ form.user = Form[r].user
                /\ form.qty = Form[r].qty /\ form.voucher = Form[r].voucher
<1>1. Form[r].key \in Key
  BY FormAssumption DEF Keyed, FormType
<1>2. NamesItsOrder(Form[r].key)
  BY <1>1 DEF IInv, RowNamesItsOrder
<1>3. RowOf(r).order \in DOMAIN orders /\ orders[RowOf(r).order].form.key = Form[r].key
      /\ PrintOf(orders[RowOf(r).order].form) = PrintOf(Form[r])
  BY <1>2 DEF NamesItsOrder, RowOf, Fingerprint
<1>4. \A a, b : PrintOf(a) = PrintOf(b) => a.user = b.user /\ a.qty = b.qty /\ a.voucher = b.voucher
  BY DEF PrintOf
<1> QED
  BY <1>1, <1>3, <1>4

\* Orders are only ever appended.
LEMMA OrdersGrow ==
    ASSUME TypeOK, [Next]_vars
    PROVE  \A i \in DOMAIN orders : i \in DOMAIN orders' /\ orders'[i] = orders[i]
  BY OnlyCommitsTrade, OrderAppended

\* What clients are shown, as an inductive invariant next to IInv.
ClientsInv == AnswersOwnOrder /\ ShownAtTheEnd

\* A shown order stays the client's own: it is read from its own completed row or
\* committed by its own transaction, and orders are never rewritten.
LEMMA ClientsStep == IInv /\ ClientsInv /\ [Next]_vars => ClientsInv'
<1> SUFFICES ASSUME IInv, AnswersOwnOrder, ShownAtTheEnd, [Next]_vars PROVE ClientsInv'
  BY DEF ClientsInv
<1> DEFINE Right(q) ==
      /\ IF answer[q].kind \in Shown THEN pc[q] = "done" ELSE answer[q].order = 0
      /\ answer[q].kind \in Shown =>
            /\ answer[q].order \in DOMAIN orders
            /\ LET form == orders[answer[q].order].form IN
                 form.key = Form[q].key /\ form.user = Form[q].user
                 /\ form.qty = Form[q].qty /\ form.voucher = Form[q].voucher
<1>1. \A q \in Request : Right(q)
  BY DEF AnswersOwnOrder, ShownAtTheEnd, Shown
<1>2. \A i \in DOMAIN orders : i \in DOMAIN orders' /\ orders'[i] = orders[i]
  BY OrdersGrow DEF IInv
<1>3. ASSUME NEW q \in Request, answer'[q] = answer[q],
             pc'[q] = pc[q] \/ pc[q] # "done" \/ answer[q].kind \notin Shown
      PROVE  Right(q)'
  BY <1>1, <1>2, <1>3
<1>4. ASSUME NEW r \in Request, AnswerMoves(r) PROVE Right(r)'
  <2>1. CASE answer'[r].order = 0 /\ answer'[r].kind \notin Shown
    BY <2>1
  <2>2. CASE /\ answer'[r] = Replay(RowOf(r).order) /\ pc'[r] = "done"
             /\ Keyed(r) /\ RowOf(r).status = "COMPLETED" /\ RowOf(r).print = Fingerprint(r)
    BY <1>2, <2>2, RowsOrderIsOwn DEF Replay, Shown
  <2>3. CASE answer'[r] = Fresh(Len(orders) + 1) /\ pc'[r] = "done" /\ TxCommit(r)
    BY <2>3, OrderAppended DEF Fresh, Shown, TxCommit, IInv
  <2> QED
    BY <1>3, <1>4, <2>1, <2>2, <2>3 DEF AnswerMoves
<1>5. \A q \in Request : Right(q)'
  <2>1. ASSUME NEW r \in Request,
               \/ Serve(r) \/ Retry(r) \/ Crash(r)
               \/ TxNumberTaken(r) \/ TxCommitLost(r) \/ TxFailure(r) \/ MarkFailedLost(r)
        PROVE  \A q \in Request : Right(q)'
    <3>1. /\ AnswerMoves(r)
          /\ \A q \in Request \ {r} : answer'[q] = answer[q] /\ pc'[q] = pc[q]
      BY <2>1, RequestAnswers
    <3> HIDE DEF Right
    <3> QED
      BY <1>3, <1>4, <3>1
  <2>2. CASE \/ \E k \in Key : Age(k) \/ Sweep(k)
             \/ Settled \/ UNCHANGED vars
    <3>1. answer' = answer /\ pc' = pc
      BY <2>2 DEF Age, Sweep, Settled, vars
    <3> HIDE DEF Right
    <3> QED
      BY <1>3, <3>1
  <2> HIDE DEF Right
  <2> QED
    BY <2>1, <2>2 DEF Next
<1> QED
  BY <1>5 DEF ClientsInv, AnswersOwnOrder, ShownAtTheEnd, Shown

\* No client is shown anything at first.
LEMMA ClientsInit == Init => ClientsInv
  BY DEF Init, ClientsInv, AnswersOwnOrder, ShownAtTheEnd, NoAnswer, Shown

\* So it holds throughout.
LEMMA ClientsAlways == Spec => []ClientsInv
<1>1. IInv /\ ClientsInv /\ [Next]_vars => ClientsInv'
  BY ClientsStep
<1> QED
  BY <1>1, ClientsInit, InvariantInit, InvariantStep, PTL DEF Spec

\* Whatever crashed, was reclaimed or swept, a client is shown an order placed under its
\* own key for its own user, items and voucher.
THEOREM ShownOwnOrder == Spec => []AnswersOwnOrder
<1>1. ClientsInv => AnswersOwnOrder
  BY DEF ClientsInv
<1> QED
  BY <1>1, ClientsAlways, PTL

-----------------------------------------------------------------------------
(* The refinement of CheckoutService.                                      *)

\* The order that the key of a row stands for.
Remembers(k) == IF rows[k].status = "COMPLETED" THEN rows[k].order ELSE 0

\* A step of a request that commits nothing completes no row and reopens none.
LEMMA OtherStepsRemember ==
    ASSUME IInv, NEW r \in Request,
           \/ Serve(r) \/ Retry(r) \/ Crash(r)
           \/ TxNumberTaken(r) \/ TxCommitLost(r) \/ TxFailure(r) \/ MarkFailedLost(r),
           ~TxCommit(r), ~TxCommitLost(r)
    PROVE  UNCHANGED <<orders, stock>> /\ \A k \in Key : Remembers(k)' = Remembers(k)
<1>0. rows \in [Key -> Row]
  BY DEF IInv, TypeOK, DatabaseType
<1>1. ASSUME UNCHANGED rows PROVE \A k \in Key : Remembers(k)' = Remembers(k)
  BY <1>1 DEF Remembers
<1>2. ASSUME NEW row, rows' = [rows EXCEPT ![Form[r].key] = row],
             RowOf(r).status # "COMPLETED", row.status # "COMPLETED"
      PROVE  \A k \in Key : Remembers(k)' = Remembers(k)
  BY <1>0, <1>2 DEF RowOf, Remembers
<1>3. CASE Create(r)
  BY <1>1, <1>2, <1>3 DEF Create, Absent, Reserved
<1>4. CASE Claim(r)
  <2>1. CASE Claimable(r) /\ rows' = [rows EXCEPT ![Form[r].key] = Claimed(RowOf(r), r)]
    <3>1. RowOf(r).status \in {"FAILED", "PROCESSING"}
      BY <1>4, <2>1 DEF Claim, Claimable, IInv, HolderKnowsRow, KnowsRow
    <3>2. Claimed(RowOf(r), r).status = "PROCESSING"
      BY DEF Claimed
    <3> QED
      BY <1>2, <1>4, <2>1, <3>1, <3>2 DEF Claim
  <2> QED
    BY <1>1, <1>4, <2>1 DEF Claim, RowOf
<1>5. CASE MarkFailed(r)
  <2>1. CASE MayFail(r) /\ rows' = [rows EXCEPT ![Form[r].key] = Failed(RowOf(r))]
    <3>1. Keyed(r)
      BY <1>5 DEF MarkFailed, IInv, UnkeyedHasNoReservation
    <3>2. RowOf(r) \in Row
      BY <1>0, <3>1, FormAssumption DEF RowOf, Keyed, FormType
    <3>3. Failed(RowOf(r)).status = "FAILED"
      BY <3>2 DEF Failed, Row
    <3> QED
      BY <1>2, <1>5, <2>1, <3>3 DEF MarkFailed, MayFail
  <2> QED
    BY <1>1, <1>5, <2>1 DEF MarkFailed, RowOf
<1>6. CASE UNCHANGED database
  BY <1>1, <1>6 DEF database
<1> QED
  BY <1>3, <1>4, <1>5, <1>6 DEF Serve, Find, Create, Claim, MarkFailed, Reread, ClaimRead, Cart,
     Summary, TxOutOfStock, TxVoucherGone, TxSuperseded, Resolve, Retry, Crash, TxNumberTaken,
     TxFailure, MarkFailedLost

\* The abstract variables.
Placed == [i \in DOMAIN orders |-> orders[i].form]
Remembered == [k \in Key |-> Remembers(k)]
Answered == [r \in Request |-> answer[r].order]

\* What a commit writes is the placing of an order.
LEMMA CommitPlaces ==
    ASSUME TypeOK, NEW r \in Request, StillOwns(r), InStock(r), Commit(r),
           Answered' \in {Answered, [Answered EXCEPT ![r] = Len(orders) + 1]}
    PROVE  Service!Place(r)
<1> DEFINE id == Len(orders) + 1
           form == Form[r]
           new == [rid |-> own[r].id, fence |-> own[r].fence, form |-> form]
<1>1. /\ orders \in Seq(OrderType) /\ orders' = Append(orders, new) /\ rows \in [Key -> Row]
  BY DEF TypeOK, DatabaseType, Commit
<1>2. /\ Placed \in Seq(FormType) /\ Len(Placed) = Len(orders)
      /\ Len(orders) \in Nat /\ DOMAIN orders = 1..Len(orders)
  <2>1. Len(orders) \in Nat /\ DOMAIN orders = 1..Len(orders)
        /\ \A i \in 1..Len(orders) : orders[i] \in OrderType
    BY <1>1
  <2>2. Placed \in [1..Len(orders) -> FormType]
    BY <2>1 DEF Placed, OrderType
  <2>3. Placed \in Seq(FormType) /\ DOMAIN Placed = 1..Len(orders)
    BY <2>1, <2>2
  <2>4. Len(Placed) = Len(orders)
    BY <2>1, <2>3
  <2> QED
    BY <2>1, <2>3, <2>4
<1>3. form \in FormType /\ new.form = form
  BY FormAssumption
<1>4. Placed' = Append(Placed, form)
  <2>1. DOMAIN orders' = 1..id /\ Placed' = [i \in 1..id |-> orders'[i].form]
    BY <1>1, <1>2 DEF Placed
  <2>2. Append(Placed, form) = [i \in 1..id |-> IF i = id THEN form ELSE Placed[i]]
    BY <1>2, <1>3
  <2>3. \A i \in 1..id : orders'[i].form = IF i = id THEN form ELSE Placed[i]
    BY <1>1, <1>2, <1>3 DEF Placed
  <2> QED
    BY <2>1, <2>2, <2>3
<1>5. form.key \in Key => Remembered[form.key] = 0 /\ Keyed(r)
  <2>1. form.key \in Key => Keyed(r)
    BY NoneAssumption DEF Keyed
  <2> QED
    BY <2>1 DEF StillOwns, RowOf, Remembered, Remembers
<1>6. Remembered' = [k \in Key |-> IF k = form.key THEN id ELSE Remembered[k]]
  <2>1. CASE Keyed(r)
    <3>1. rows' = [rows EXCEPT ![form.key] = Finalized(rows[form.key], id)]
      BY <2>1 DEF Commit
    <3>2. \A row : Finalized(row, id).status = "COMPLETED" /\ Finalized(row, id).order = id
      BY DEF Finalized
    <3>3. \A k \in Key : Remembers(k)' = IF k = form.key THEN id ELSE Remembers(k)
      BY <1>1, <3>1, <3>2 DEF Remembers
    <3> QED
      BY <3>3 DEF Remembered
  <2>2. CASE ~Keyed(r)
    <3>1. rows' = rows /\ form.key \notin Key
      BY <2>2, <1>5 DEF Commit
    <3> QED
      BY <3>1 DEF Remembered, Remembers
  <2> QED
    BY <2>1, <2>2
<1>7. /\ stock' = [p \in Product |-> stock[p] - form.qty[p]]
      /\ \A p \in Product : form.qty[p] <= stock[p]
  BY DEF Commit, InStock
<1> QED
  BY <1>2, <1>4, <1>5, <1>6, <1>7 DEF Service!Place, Placed, Remembered, Remembers, Answered

\* A replayed response is an order shown.
LEMMA ReplayShows ==
    ASSUME IInv, NEW r \in Request, Keyed(r), RowOf(r).status = "COMPLETED",
           RowOf(r).print = Fingerprint(r), Remembered' = Remembered, UNCHANGED <<orders, stock>>,
           Answered' = [Answered EXCEPT ![r] = RowOf(r).order]
    PROVE  Service!Show(r)
<1> DEFINE form == Form[r]
<1>1. /\ form.key \in Key /\ RowOf(r).order \in DOMAIN orders
      /\ LET order == orders[RowOf(r).order].form IN
           order.user = form.user /\ order.qty = form.qty /\ order.voucher = form.voucher
  BY RowsOrderIsOwn
<1>2. Remembered[form.key] = RowOf(r).order
  BY <1>1 DEF Remembered, Remembers, RowOf
<1>3. RowOf(r).order # 0
  BY <1>1 DEF IInv, TypeOK, DatabaseType
<1>4. Placed[RowOf(r).order] = orders[RowOf(r).order].form /\ Placed' = Placed
  BY <1>1 DEF Placed
<1> QED
  BY <1>1, <1>2, <1>3, <1>4 DEF Service!Show, Placed, Remembered, Remembers, Answered

\* Every step of checkout is a step of the abstract service or changes nothing it shows.
LEMMA ServiceStep ==
    ASSUME IInv, ClientsInv, [Next]_vars
    PROVE  [Service!Next]_(Service!vars)
<1>0. /\ answer \in [Request -> AnswerType] /\ rows \in [Key -> Row] /\ TypeOK
      /\ answer' \in [Request -> AnswerType]
  BY TypeStep DEF IInv, TypeOK, DatabaseType, LocalType
<1>1. ASSUME Remembered' = Remembered, UNCHANGED <<orders, stock>>, Answered' = Answered
      PROVE  UNCHANGED Service!vars
  BY <1>1 DEF Service!vars, Remembered, Remembers, Answered
<1>2. ASSUME NEW r \in Request,
             \/ Serve(r) \/ Retry(r) \/ Crash(r)
             \/ TxNumberTaken(r) \/ TxCommitLost(r) \/ TxFailure(r) \/ MarkFailedLost(r)
      PROVE  [Service!Next]_(Service!vars)
  <2>1. AnswerMoves(r) /\ \A q \in Request \ {r} : answer'[q] = answer[q]
    BY <1>2, RequestAnswers
  <2>2. ASSUME answer'[r].order = answer[r].order PROVE Answered' = Answered
    BY <1>0, <2>1, <2>2 DEF Answered
  <2>3. ASSUME NEW o, answer'[r].order = o PROVE Answered' = [Answered EXCEPT ![r] = o]
    BY <1>0, <2>1, <2>3 DEF Answered
  <2>4. pc[r] # "done" \/ answer[r].kind \notin Shown => answer[r].order = 0
    BY DEF ClientsInv, ShownAtTheEnd
  <2>5. CASE TxCommit(r)
    <3>1. answer'[r].order = Len(orders) + 1
      BY <1>0, <2>5 DEF TxCommit, Respond, Fresh
    <3>2. Service!Place(r)
      BY <1>0, <2>3, <2>5, <3>1, CommitPlaces DEF TxCommit
    <3> QED
      BY <3>2 DEF Service!Next
  <2>6. CASE TxCommitLost(r)
    <3>1. answer'[r].order = 0 /\ answer[r].order = 0
      BY <1>0, <2>4, <2>6 DEF TxCommitLost, Throw, Respond, Failure
    <3>2. Service!Place(r)
      BY <1>0, <2>2, <2>6, <3>1, CommitPlaces DEF TxCommitLost
    <3> QED
      BY <3>2 DEF Service!Next
  <2>7. CASE ~TxCommit(r) /\ ~TxCommitLost(r)
    <3>1. UNCHANGED <<orders, stock>> /\ Remembered' = Remembered
      BY <1>2, <2>7, OtherStepsRemember DEF Remembered
    <3>2. CASE answer'[r].order = answer[r].order
      BY <1>1, <2>2, <3>1, <3>2
    <3>3. CASE /\ answer'[r] = Replay(RowOf(r).order)
               /\ Keyed(r) /\ RowOf(r).status = "COMPLETED" /\ RowOf(r).print = Fingerprint(r)
      <4>1. answer'[r].order = RowOf(r).order
        BY <3>3 DEF Replay
      <4>2. Service!Show(r)
        BY <2>3, <3>1, <3>3, <4>1, ReplayShows
      <4> QED
        BY <4>2 DEF Service!Next
    <3> QED
      BY <2>1, <2>4, <2>7, <3>2, <3>3 DEF AnswerMoves
  <2> QED
    BY <2>5, <2>6, <2>7
<1>3. ASSUME NEW k \in Key, Age(k) PROVE [Service!Next]_(Service!vars)
  <2>1. \A l \in Key : Remembers(l)' = Remembers(l)
    BY <1>0, <1>3 DEF Age, Remembers, Row
  <2> QED
    BY <1>1, <1>3, <2>1 DEF Age, Remembered, Answered
<1>4. ASSUME NEW k \in Key, Sweep(k) PROVE [Service!Next]_(Service!vars)
  <2>1. \A l \in Key : Remembers(l)' = IF l = k THEN 0 ELSE Remembers(l)
    BY <1>0, <1>4 DEF Sweep, Remembers, Absent
  <2>2. Remembered' = [Remembered EXCEPT ![k] = 0]
    BY <2>1 DEF Remembered
  <2>3. Service!Forget(k)
    BY <1>4, <2>2 DEF Service!Forget, Sweep, Remembered, Remembers
  <2> QED
    BY <2>3 DEF Service!Next
<1>5. CASE Settled \/ UNCHANGED vars
  BY <1>1, <1>5 DEF Settled, vars, database, Remembered, Remembers, Answered
<1> QED
  BY <1>2, <1>3, <1>4, <1>5 DEF Next

\* Both begin with no order placed, remembered or shown.
LEMMA ServiceInit == Init => Service!Init
  BY DEF Init, Service!Init, Absent, NoAnswer

\* Reservations, fences, claims, crashes and retention implement the abstract service for
\* every number of requests, keys and products.
THEOREM Implementation == Spec => ImplementsService
<1>1. IInv /\ ClientsInv /\ [Next]_vars => [Service!Next]_(Service!vars)
  BY ServiceStep
<1> QED
  BY <1>1, ServiceInit, InvariantInit, InvariantStep, ClientsAlways, PTL
     DEF Spec, ImplementsService, Service!Spec

=============================================================================
