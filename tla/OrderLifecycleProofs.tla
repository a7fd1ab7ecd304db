------------------------ MODULE OrderLifecycleProofs ------------------------
(***************************************************************************)
(* Proofs about OrderLifecycle for every set of orders, products, admins   *)
(* and workers: its types, that a payment has one outcome and is announced *)
(* consistently, that it implements PaymentContract, and that stock, order *)
(* trails and receipts agree with the orders and payments.                 *)
(***************************************************************************)
EXTENDS OrderLifecycle, SumLemmas, TLAPS

-----------------------------------------------------------------------------
(* Types.                                                                  *)

\* Cancelling sets the status CANCELLED and returns the items, or does nothing.
LEMMA CancelCases ==
    ASSUME NEW o \in Order, CancelAndRestock(o)
    PROVE  \/ order[o] \in Cancellable /\ SetStatus(o, "CANCELLED") /\ Restock(o)
           \/ order[o] \notin Cancellable /\ UNCHANGED <<order, trail, stock>>
  BY DEF CancelAndRestock, SetStatus

\* Cancelling an order keeps the tables' types.
LEMMA CancelType ==
    ASSUME DatabaseType, NEW o \in Order, CancelAndRestock(o)
    PROVE  /\ order' \in [Order -> OrderStatuses \cup {None}]
           /\ trail' \in [Order -> Seq(OrderStatuses)]
           /\ stock' \in [Product -> Nat]
<1>1. CASE order[o] \in Cancellable /\ SetStatus(o, "CANCELLED") /\ Restock(o)
  <2>1. /\ order' \in [Order -> OrderStatuses \cup {None}]
        /\ trail' \in [Order -> Seq(OrderStatuses)]
    BY <1>1 DEF SetStatus, DatabaseType, OrderStatuses
  <2>2. stock' \in [Product -> Nat]
    BY <1>1, ItemAssumption DEF Restock, DatabaseType
  <2> QED
    BY <2>1, <2>2
<1>2. CASE UNCHANGED <<order, trail, stock>>
  BY <1>2 DEF DatabaseType
<1> QED
  BY <1>1, <1>2, CancelCases

\* Setting a status writes a status.
LEMMA StatusType ==
    ASSUME DatabaseType, NEW o \in Order, NEW s \in OrderStatuses, SetStatus(o, s)
    PROVE  /\ order' \in [Order -> OrderStatuses \cup {None}]
           /\ trail' \in [Order -> Seq(OrderStatuses)]
  BY DEF SetStatus, DatabaseType

LEMMA PaymentStatusType ==
    ASSUME DatabaseType, NEW o \in Order, NEW s \in PaymentStatuses, SetPayment(o, s)
    PROVE  payment' \in [Order -> PaymentType]
  BY DEF SetPayment, DatabaseType, PaymentType

LEMMA EmitType ==
    ASSUME DatabaseType, NEW o \in Order, NEW e \in Events, Emit(o, e)
    PROVE  emitted' \in [Order -> [Events -> Nat]]
  BY DEF Emit, DatabaseType

\* A token issued now has a token's type.
LEMMA NewLinkType ==
    ASSUME DatabaseType, NEW o \in Order, NEW l \in Links,
           link' = [link EXCEPT ![o][l] = NewLink]
    PROVE  link' \in [Order -> [Links -> LinkType]]
<1>1. NewLink \in LinkType
  BY WindowAssumption DEF NewLink, LinkType, DatabaseType
<1> QED
  BY <1>1 DEF DatabaseType

LEMMA BatchType ==
    ASSUME NEW found \in SUBSET Order, NEW b \in Batches(found)
    PROVE  b \in SUBSET Order
  BY DEF Batches

\* A worker that begins a batch, or works one off, keeps the locals' types.
LEMMA BeginType ==
    ASSUME DatabaseType, LocalType, NEW w \in Worker, NEW phase \in {"expire", "first"},
           NEW found \in SUBSET Order, Begin(w, phase, found), UNCHANGED <<call, bounds>>
    PROVE  LocalType'
<1>1. PICK b \in Batches(found) :
        worker' = [worker EXCEPT ![w] = [phase |-> phase, batch |-> b, asOf |-> now]]
  BY DEF Begin
<1>2. b \in SUBSET Order
  BY <1>1, BatchType
<1>3. [phase |-> phase, batch |-> b, asOf |-> now] \in TickType
  BY <1>2 DEF TickType, DatabaseType
<1> QED
  BY <1>1, <1>3 DEF LocalType, bounds

LEMMA DoneType ==
    ASSUME LocalType, NEW w \in Worker, NEW o \in Order, Done(w, o)
    PROVE  worker' \in [Worker -> TickType]
  BY DEF LocalType, Done, TickType

LEMMA TypeInit == Init => TypeOK
<1> SUFFICES ASSUME Init PROVE TypeOK
  OBVIOUS
<1>1. /\ now \in Nat
      /\ order \in [Order -> OrderStatuses \cup {None}]
      /\ trail \in [Order -> Seq(OrderStatuses)]
      /\ stock \in [Product -> Nat]
      /\ emitted \in [Order -> [Events -> Nat]]
  BY ItemAssumption DEF Init
<1>2. payment \in [Order -> PaymentType] /\ link \in [Order -> [Links -> LinkType]]
  BY DEF Init, NoPayment, PaymentType, NoLink, LinkType
<1>3. LocalType
  BY DEF Init, LocalType, CallType, TickType, Idle
<1> QED
  BY <1>1, <1>2, <1>3 DEF TypeOK, DatabaseType

\* Every step keeps the types.
LEMMA TypeStep == TypeOK /\ [Next]_vars => TypeOK'
<1> SUFFICES ASSUME TypeOK, [Next]_vars PROVE TypeOK'
  OBVIOUS
<1> USE DEF TypeOK
<1>1. ASSUME NEW o \in Order, Place(o) PROVE TypeOK'
  <2>1. /\ order' \in [Order -> OrderStatuses \cup {None}]
        /\ trail' \in [Order -> Seq(OrderStatuses)]
    BY <1>1, StatusType DEF Place, OrderStatuses
  <2>2. payment' \in [Order -> PaymentType]
    BY <1>1 DEF Place, DatabaseType, PaymentType, NoPayment, PaymentStatuses
  <2>3. link' \in [Order -> [Links -> LinkType]]
    BY <1>1, NewLinkType DEF Place, Links, DatabaseType
  <2>4. stock' \in [Product -> Nat]
    <3>1. \A p \in Product : stock[p] \in Nat /\ Qty[o][p] \in Nat /\ Qty[o][p] <= stock[p]
      BY <1>1, ItemAssumption DEF Place, InStock, DatabaseType
    <3>2. \A p \in Product : stock[p] - Qty[o][p] \in Nat
      BY <3>1
    <3> QED
      BY <1>1, <3>2 DEF Place
  <2>5. emitted' \in [Order -> [Events -> Nat]]
    BY <1>1, EmitType DEF Place, Events
  <2> QED
    BY <1>1, <2>1, <2>2, <2>3, <2>4, <2>5 DEF Place, DatabaseType, LocalType, bounds
<1>2. ASSUME NEW o \in Order, Upload(o) PROVE TypeOK'
  <2>1. /\ payment' \in [Order -> PaymentType]
        /\ emitted' \in [Order -> [Events -> Nat]]
    BY <1>2, PaymentStatusType, EmitType DEF Upload, ApplyReceipt, PaymentStatuses, Events
  <2>2. LocalType'
    <3>1. uploads' \in [Order -> Nat]
      BY <1>2 DEF Upload, LocalType
    <3> QED
      BY <1>2, <3>1 DEF Upload, ApplyReceipt, LocalType
  <2> QED
    BY <1>2, <2>1, <2>2 DEF Upload, ApplyReceipt, DatabaseType
<1>3. ASSUME NEW o \in Order, NEW l \in Links, UploadByLink(o, l) PROVE TypeOK'
  <2>1. /\ payment' \in [Order -> PaymentType]
        /\ emitted' \in [Order -> [Events -> Nat]]
    BY <1>3, PaymentStatusType, EmitType DEF UploadByLink, ApplyReceipt, PaymentStatuses, Events
  <2>2. link' \in [Order -> [Links -> LinkType]]
    BY <1>3 DEF UploadByLink, DatabaseType, LinkType
  <2> QED
    BY <1>3, <2>1, <2>2 DEF UploadByLink, ApplyReceipt, DatabaseType, LocalType
<1>4. ASSUME NEW o \in Order, Cancel(o) PROVE TypeOK'
  <2>1. emitted' \in [Order -> [Events -> Nat]]
    BY <1>4, EmitType DEF Cancel, Events
  <2>2. LocalType'
    BY <1>4 DEF Cancel, LocalType
  <2> QED
    BY <1>4, <2>1, <2>2, CancelType DEF Cancel, DatabaseType
<1>5. ASSUME NEW o \in Order, NEW s \in StatusChoices, UpdateStatus(o, s) PROVE TypeOK'
  <2>1. /\ order' \in [Order -> OrderStatuses \cup {None}]
        /\ trail' \in [Order -> Seq(OrderStatuses)]
        /\ emitted' \in [Order -> [Events -> Nat]]
    BY <1>5, StatusType, EmitType, ChoiceAssumption DEF UpdateStatus, Events
  <2>2. LocalType'
    BY <1>5 DEF UpdateStatus, LocalType
  <2> QED
    BY <1>5, <2>1, <2>2 DEF UpdateStatus, DatabaseType
<1>6. CASE Tick
  BY <1>6 DEF Tick, DatabaseType, LocalType, database, bounds
<1>7. ASSUME NEW a \in Admin, Back(a) PROVE TypeOK'
  <2>1. ASSUME NEW op \in {"verify", "reject"}, NEW o \in Order, ReadPayment(a, op, o)
        PROVE  TypeOK'
    <3>1. ReadOutcome(payment[o].status, op) \in {"ok", "conflict", "tx"}
      BY DEF ReadOutcome, Terminal, Target
    <3>2. [step |-> ReadOutcome(payment[o].status, op), op |-> op, order |-> o] \in CallType
      BY <3>1 DEF CallType
    <3> QED
      BY <2>1, <3>2 DEF ReadPayment, DatabaseType, LocalType, database, bounds
  <2>2. CASE LoseRace(a)
    BY <2>2 DEF LoseRace, DatabaseType, LocalType, database, bounds, CallType
  <2>3. CASE Verify(a)
    <3>1. call[a].order \in Order
      BY <2>3 DEF Verify, LocalType
    <3>2. /\ payment' \in [Order -> PaymentType]
          /\ order' \in [Order -> OrderStatuses \cup {None}]
          /\ trail' \in [Order -> Seq(OrderStatuses)]
          /\ emitted' \in [Order -> [Events -> Nat]]
      BY <2>3, <3>1, PaymentStatusType, StatusType, EmitType
         DEF Verify, PaymentStatuses, OrderStatuses, Events
    <3>3. LocalType'
      BY <2>3 DEF Verify, LocalType, CallType, bounds
    <3> QED
      BY <2>3, <3>2, <3>3 DEF Verify, DatabaseType
  <2>4. CASE Reject(a)
    <3>1. call[a].order \in Order
      BY <2>4 DEF Reject, LocalType
    <3>2. /\ payment' \in [Order -> PaymentType]
          /\ emitted' \in [Order -> [Events -> Nat]]
      BY <2>4, <3>1, PaymentStatusType, EmitType DEF Reject, PaymentStatuses, Events
    <3>3. LocalType'
      BY <2>4 DEF Reject, LocalType, CallType, bounds
    <3> QED
      BY <2>4, <3>1, <3>2, <3>3, CancelType DEF Reject, DatabaseType
  <2>5. CASE DropCall(a)
    BY <2>5 DEF DropCall, DatabaseType, LocalType, database, bounds, CallType
  <2> QED
    BY <1>7, <2>1, <2>2, <2>3, <2>4, <2>5 DEF Back
<1>8. ASSUME NEW w \in Worker, RunTick(w) PROVE TypeOK'
  <2>1. CASE FindExpirable(w)
    BY <2>1, BeginType DEF FindExpirable, DatabaseType, database
  <2>2. CASE FindFirst(w)
    BY <2>2, BeginType DEF FindFirst, DatabaseType, database
  <2>3. CASE FindSecond(w)
    <3>1. PICK b \in SUBSET Order : worker' = [worker EXCEPT ![w].phase = "second", ![w].batch = b]
      BY <2>3, BatchType DEF FindSecond
    <3> QED
      <4>1. worker' \in [Worker -> TickType]
        BY <3>1 DEF LocalType, TickType
      <4> QED
        BY <2>3, <4>1 DEF FindSecond, DatabaseType, LocalType, database, bounds
  <2>4. CASE EndTick(w)
    BY <2>4 DEF EndTick, DatabaseType, LocalType, database, bounds, TickType, Idle
  <2>5. ASSUME NEW o \in Order, ExpireNext(w, o) PROVE TypeOK'
    <3>1. DatabaseType'
      <4>1. CASE UNCHANGED database
        BY <2>5, <4>1 DEF ExpireNext, DatabaseType, database
      <4>2. CASE Expire(o)
        BY <2>5, <4>2, PaymentStatusType, CancelType, EmitType
           DEF ExpireNext, Expire, DatabaseType, PaymentStatuses, Events
      <4> QED
        BY <2>5, <4>1, <4>2 DEF ExpireNext
    <3> QED
      BY <2>5, <3>1, DoneType DEF ExpireNext, LocalType, bounds
  <2>6. ASSUME NEW o \in Order, NEW stage \in Stages, RemindNext(w, o, stage) PROVE TypeOK'
    <3>1. DatabaseType'
      <4>1. CASE UNCHANGED database
        BY <2>6, <4>1 DEF RemindNext, DatabaseType, database
      <4>2. CASE Remind(o, stage)
        <5>1. payment' \in [Order -> PaymentType]
          BY <4>2 DEF Remind, DatabaseType, PaymentType, Stages
        <5>2. link' \in [Order -> [Links -> LinkType]]
          BY <4>2, NewLinkType DEF Remind, Links
        <5>3. emitted' \in [Order -> [Events -> Nat]]
          BY <4>2, EmitType DEF Remind, ReminderEvent, Events, Stages
        <5> QED
          BY <2>6, <4>2, <5>1, <5>2, <5>3 DEF RemindNext, Remind, DatabaseType
      <4> QED
        BY <2>6, <4>1, <4>2 DEF RemindNext
    <3> QED
      BY <2>6, <3>1, DoneType DEF RemindNext, LocalType, bounds
  <2> QED
    BY <1>8, <2>1, <2>2, <2>3, <2>4, <2>5, <2>6 DEF RunTick
<1>9. ASSUME NEW w \in Worker, Disrupt(w) PROVE TypeOK'
  <2>1. CASE AbortTick(w)
    BY <2>1 DEF AbortTick, DatabaseType, LocalType, database, TickType, Idle
  <2>2. ASSUME NEW o \in Order, SkipFailed(w, o) PROVE TypeOK'
    BY <2>2, DoneType DEF SkipFailed, DatabaseType, LocalType, database
  <2> QED
    BY <1>9, <2>1, <2>2 DEF Disrupt
<1>10. CASE UNCHANGED vars
  BY <1>10 DEF vars, database, bounds, DatabaseType, LocalType
<1> QED
  BY <1>1, <1>2, <1>3, <1>4, <1>5, <1>6, <1>7, <1>8, <1>9, <1>10 DEF Next, Customer, Desk

\* In every reachable state the tables and the actors' locals have their types; in
\* particular no product's stock is negative, whatever happens to the orders.
THEOREM TypeCorrect == Spec => []TypeOK
  BY TypeInit, TypeStep, PTL DEF Spec

-----------------------------------------------------------------------------
(* What a step does to one order's payment, and to no other's: every step  *)
(* of the system has one of these effects, or none.                        *)

Same(q) ==
    /\ payment'[q] = payment[q] /\ link'[q] = link[q] /\ emitted'[q] = emitted[q]
    /\ Placed(q)' <=> Placed(q)

Others(o) == \A q \in Order \ {o} : Same(q)

Emits(o, e) == emitted'[o] = [emitted[o] EXCEPT ![e] = @ + 1]

Opens(o) ==
    /\ ~Placed(o) /\ Placed(o)'
    /\ payment'[o] = [status |-> "PENDING", createdAt |-> now, first |-> "null", second |-> "null"]
    /\ \A stage \in Stages : link'[o][stage] = link[o][stage]
    /\ Emits(o, "order.created")

Receives(o) ==
    /\ Placed(o)' <=> Placed(o)
    /\ payment[o].status \in Open
    /\ payment'[o] = [payment[o] EXCEPT !.status = "WAITING_VERIFICATION"]
    /\ \A stage \in Stages : link'[o][stage].state # "none" <=> link[o][stage].state # "none"
    /\ Emits(o, "payment.receipt_uploaded")

RemindsFirst(o) ==
    /\ Placed(o)' <=> Placed(o)
    /\ payment[o].status \in Open /\ payment[o].first = "null"
    /\ Method[o] \in ReceiptMethods
    /\ payment'[o] = [payment[o] EXCEPT !.first = "set"]
    /\ link'[o]["first"].state # "none" /\ link'[o]["second"] = link[o]["second"]
    /\ Emits(o, "payment.reminder.first")

RemindsSecond(o) ==
    /\ Placed(o)' <=> Placed(o)
    /\ payment[o].status \in Open /\ payment[o].second = "null"
    /\ payment[o].first = "set"
    /\ payment'[o] = [payment[o] EXCEPT !.second = "set"]
    /\ link'[o]["second"].state # "none" /\ link'[o]["first"] = link[o]["first"]
    /\ Emits(o, "payment.reminder.second")

Settles(o, status, e) ==
    /\ Placed(o)' <=> Placed(o)
    /\ payment[o].status \in Open
    /\ payment'[o] = [payment[o] EXCEPT !.status = status]
    /\ link'[o] = link[o]
    /\ Emits(o, e)

Administered(o) ==
    /\ Placed(o)' <=> Placed(o)
    /\ payment'[o] = payment[o] /\ link'[o] = link[o]
    /\ Emits(o, "order.status_updated")

Effect(o) ==
    \/ Opens(o) \/ Receives(o) \/ RemindsFirst(o) \/ RemindsSecond(o) \/ Administered(o)
    \/ Settles(o, "PAID", "payment.paid")
    \/ Settles(o, "FAILED", "payment.failed")
    \/ Settles(o, "EXPIRED", "payment.expired")

PaymentStep == (\A q \in Order : Same(q)) \/ \E o \in Order : Others(o) /\ Effect(o)

\* No order is of a status None.
LEMMA StatusNotNone == \A s \in OrderStatuses : s # None
  BY NoneAssumption DEF OrderStatuses

\* Cancelling and setting a status keep every order that exists.
LEMMA StatusKeepsPlaced ==
    ASSUME DatabaseType, NEW o \in Order, NEW s \in OrderStatuses, SetStatus(o, s)
    PROVE  /\ Placed(o)'
           /\ \A q \in Order \ {o} : Placed(q)' <=> Placed(q)
  BY StatusNotNone DEF SetStatus, DatabaseType, Placed

LEMMA CancelKeepsPlaced ==
    ASSUME DatabaseType, NEW o \in Order, CancelAndRestock(o)
    PROVE  \A q \in Order : Placed(q)' <=> Placed(q)
<1>1. CASE order[o] \in Cancellable /\ SetStatus(o, "CANCELLED")
  BY <1>1, StatusKeepsPlaced, StatusNotNone DEF Placed, OrderStatuses, Cancellable
<1>2. CASE UNCHANGED order
  BY <1>2 DEF Placed
<1> QED
  BY <1>1, <1>2, CancelCases

\* Steps that change no table have no effect on any payment.
LEMMA NoEffect == UNCHANGED database => PaymentStep
  BY DEF database, PaymentStep, Same, Placed

\* The writes of a transaction touch the order they name.
LEMMA Writes ==
    ASSUME DatabaseType, NEW o \in Order, NEW e \in Events, Emit(o, e)
    PROVE  /\ Emits(o, e)
           /\ \A q \in Order \ {o} : emitted'[q] = emitted[q]
  BY DEF DatabaseType, Emit, Emits

LEMMA PaymentWrites ==
    ASSUME DatabaseType, NEW o \in Order, NEW s \in PaymentStatuses, SetPayment(o, s)
    PROVE  /\ payment'[o] = [payment[o] EXCEPT !.status = s]
           /\ \A q \in Order \ {o} : payment'[q] = payment[q]
  BY DEF DatabaseType, SetPayment

\* Every step of the system is a payment step.
LEMMA EveryStep == IInv /\ [Next]_vars => PaymentStep
<1> SUFFICES ASSUME IInv, [Next]_vars PROVE PaymentStep
  OBVIOUS
<1>0. DatabaseType /\ LocalType /\ \A o \in Order : BornTogether(o)
  BY DEF IInv, TypeOK
<1>1. ASSUME NEW o \in Order, Place(o) PROVE PaymentStep
  <2>1. Placed(o)' /\ \A q \in Order \ {o} : Placed(q)' <=> Placed(q)
    BY <1>0, <1>1, StatusKeepsPlaced DEF Place, OrderStatuses
  <2>2. Emits(o, "order.created") /\ \A q \in Order \ {o} : emitted'[q] = emitted[q]
    BY <1>0, <1>1, Writes DEF Place, Events
  <2>3. /\ payment'[o] = [status |-> "PENDING", createdAt |-> now, first |-> "null", second |-> "null"]
        /\ \A q \in Order \ {o} : payment'[q] = payment[q]
    BY <1>0, <1>1 DEF Place, DatabaseType, NoPayment
  <2>4. /\ \A q \in Order \ {o} : link'[q] = link[q]
        /\ \A stage \in Stages : link'[o][stage] = link[o][stage]
    BY <1>0, <1>1 DEF Place, DatabaseType, Stages, Links
  <2> QED
    BY <1>1, <2>1, <2>2, <2>3, <2>4 DEF PaymentStep, Others, Same, Effect, Opens, Place
<1>2. ASSUME NEW o \in Order, ApplyReceipt(o), UNCHANGED link PROVE PaymentStep
  <2>1. /\ payment'[o] = [payment[o] EXCEPT !.status = "WAITING_VERIFICATION"]
        /\ \A q \in Order \ {o} : payment'[q] = payment[q]
    BY <1>0, <1>2, PaymentWrites DEF ApplyReceipt, PaymentStatuses
  <2>2. Emits(o, "payment.receipt_uploaded") /\ \A q \in Order \ {o} : emitted'[q] = emitted[q]
    BY <1>0, <1>2, Writes DEF ApplyReceipt, Events
  <2>3. \A q \in Order : Placed(q)' <=> Placed(q)
    BY <1>2 DEF ApplyReceipt, Placed
  <2> QED
    BY <1>2, <2>1, <2>2, <2>3 DEF PaymentStep, Others, Same, Effect, Receives, ApplyReceipt
<1>3. ASSUME NEW o \in Order, NEW l \in Links, UploadByLink(o, l) PROVE PaymentStep
  <2>1. /\ payment'[o] = [payment[o] EXCEPT !.status = "WAITING_VERIFICATION"]
        /\ \A q \in Order \ {o} : payment'[q] = payment[q]
    BY <1>0, <1>3, PaymentWrites DEF UploadByLink, ApplyReceipt, PaymentStatuses
  <2>2. Emits(o, "payment.receipt_uploaded") /\ \A q \in Order \ {o} : emitted'[q] = emitted[q]
    BY <1>0, <1>3, Writes DEF UploadByLink, ApplyReceipt, Events
  <2>3. \A q \in Order : Placed(q)' <=> Placed(q)
    BY <1>3 DEF UploadByLink, ApplyReceipt, Placed
  <2>4. /\ \A q \in Order \ {o} : link'[q] = link[q]
        /\ \A stage \in Stages : link'[o][stage].state # "none" <=> link[o][stage].state # "none"
    BY <1>0, <1>3 DEF UploadByLink, Consumable, DatabaseType, LinkType, Stages, Links
  <2> QED
    BY <1>3, <2>1, <2>2, <2>3, <2>4
       DEF PaymentStep, Others, Same, Effect, Receives, UploadByLink, ApplyReceipt
<1>4. ASSUME NEW o \in Order, Cancel(o) PROVE PaymentStep
  <2>1. \A q \in Order : Placed(q)' <=> Placed(q)
    BY <1>0, <1>4, CancelKeepsPlaced DEF Cancel
  <2>2. Emits(o, "order.status_updated") /\ \A q \in Order \ {o} : emitted'[q] = emitted[q]
    BY <1>0, <1>4, Writes DEF Cancel, Events
  <2> QED
    BY <1>4, <2>1, <2>2 DEF PaymentStep, Others, Same, Effect, Administered, Cancel
<1>5. ASSUME NEW o \in Order, NEW s \in StatusChoices, UpdateStatus(o, s) PROVE PaymentStep
  <2>1. \A q \in Order : Placed(q)' <=> Placed(q)
    BY <1>0, <1>5, StatusKeepsPlaced, ChoiceAssumption DEF UpdateStatus
  <2>2. Emits(o, "order.status_updated") /\ \A q \in Order \ {o} : emitted'[q] = emitted[q]
    BY <1>0, <1>5, Writes DEF UpdateStatus, Events
  <2> QED
    BY <1>5, <2>1, <2>2 DEF PaymentStep, Others, Same, Effect, Administered, UpdateStatus
<1>6. ASSUME NEW a \in Admin, Verify(a) PROVE PaymentStep
  <2>0. PICK o \in Order : o = call[a].order
    BY <1>0, <1>6 DEF Verify, LocalType
  <2>1. Placed(o) /\ payment[o].status \in Open
    BY <1>0, <1>6, <2>0 DEF Verify, IInv, CallSound, BornTogether, Unsettled, Terminal, Open,
                      DatabaseType, PaymentType, PaymentStatuses
  <2>2. /\ payment'[o] = [payment[o] EXCEPT !.status = "PAID"]
        /\ \A q \in Order \ {o} : payment'[q] = payment[q]
    BY <1>0, <1>6, <2>0, PaymentWrites DEF Verify, PaymentStatuses
  <2>3. Emits(o, "payment.paid") /\ \A q \in Order \ {o} : emitted'[q] = emitted[q]
    BY <1>0, <1>6, <2>0, Writes DEF Verify, Events
  <2>4. \A q \in Order : Placed(q)' <=> Placed(q)
    BY <1>0, <1>6, <2>0, <2>1, StatusKeepsPlaced DEF Verify, OrderStatuses
  <2>5. link' = link
    BY <1>6 DEF Verify
  <2>6. Others(o) /\ Settles(o, "PAID", "payment.paid")
    BY <2>1, <2>2, <2>3, <2>4, <2>5 DEF Others, Same, Settles
  <2> QED
    BY <2>1, <2>6 DEF PaymentStep, Effect
<1>7. ASSUME NEW a \in Admin, Reject(a) PROVE PaymentStep
  <2>0. PICK o \in Order : o = call[a].order
    BY <1>0, <1>7 DEF Reject, LocalType
  <2>1. Placed(o) /\ payment[o].status \in Open
    BY <1>0, <1>7, <2>0 DEF Reject, IInv, CallSound, BornTogether, Unsettled, Terminal, Open,
                      DatabaseType, PaymentType, PaymentStatuses
  <2>2. /\ payment'[o] = [payment[o] EXCEPT !.status = "FAILED"]
        /\ \A q \in Order \ {o} : payment'[q] = payment[q]
    BY <1>0, <1>7, <2>0, PaymentWrites DEF Reject, PaymentStatuses
  <2>3. Emits(o, "payment.failed") /\ \A q \in Order \ {o} : emitted'[q] = emitted[q]
    BY <1>0, <1>7, <2>0, Writes DEF Reject, Events
  <2>4. \A q \in Order : Placed(q)' <=> Placed(q)
    BY <1>0, <1>7, <2>0, CancelKeepsPlaced DEF Reject
  <2>5. link' = link
    BY <1>7 DEF Reject
  <2>6. Others(o) /\ Settles(o, "FAILED", "payment.failed")
    BY <2>1, <2>2, <2>3, <2>4, <2>5 DEF Others, Same, Settles
  <2> QED
    BY <2>1, <2>6 DEF PaymentStep, Effect
<1>8. ASSUME NEW o \in Order, Expire(o) PROVE PaymentStep
  <2>1. /\ payment'[o] = [payment[o] EXCEPT !.status = "EXPIRED"]
        /\ \A q \in Order \ {o} : payment'[q] = payment[q]
    BY <1>0, <1>8, PaymentWrites DEF Expire, PaymentStatuses
  <2>2. Emits(o, "payment.expired") /\ \A q \in Order \ {o} : emitted'[q] = emitted[q]
    BY <1>0, <1>8, Writes DEF Expire, Events
  <2>3. \A q \in Order : Placed(q)' <=> Placed(q)
    BY <1>0, <1>8, CancelKeepsPlaced DEF Expire
  <2>4. payment[o].status \in Open /\ link' = link
    BY <1>8 DEF Expire, Eligible, Open
  <2>5. Others(o) /\ Settles(o, "EXPIRED", "payment.expired")
    BY <2>1, <2>2, <2>3, <2>4 DEF Others, Same, Settles
  <2> QED
    BY <2>5 DEF PaymentStep, Effect
<1>9. ASSUME NEW w \in Worker, NEW o \in Order, NEW stage \in Stages,
             worker[w].phase = stage, o \in worker[w].batch, Remind(o, stage)
      PROVE  PaymentStep
  <2>1. \A q \in Order : Placed(q)' <=> Placed(q)
    BY <1>9 DEF Remind, Placed
  <2>2. \A q \in Order \ {o} : payment'[q] = payment[q] /\ link'[q] = link[q]
    BY <1>0, <1>9 DEF Remind, DatabaseType
  <2>3. /\ link'[o][stage] = NewLink
        /\ \A l \in Links \ {stage} : link'[o][l] = link[o][l]
    BY <1>0, <1>9 DEF Remind, DatabaseType, Stages, Links
  <2>4. payment[o].status \in Open /\ payment[o][stage] = "null"
    BY <1>9 DEF Remind, Remindable, Eligible, Open
  <2>5. Method[o] \in ReceiptMethods
    BY <1>9 DEF IInv, BatchSound
  <2>6. CASE stage = "first"
    <3>1. Emits(o, "payment.reminder.first") /\ \A q \in Order \ {o} : emitted'[q] = emitted[q]
      BY <1>0, <1>9, <2>6, Writes DEF Remind, ReminderEvent, Events
    <3>2. payment'[o] = [payment[o] EXCEPT !.first = "set"]
      BY <1>0, <1>9, <2>6 DEF Remind, DatabaseType
    <3>3. Others(o) /\ RemindsFirst(o)
      BY <2>1, <2>2, <2>3, <2>4, <2>5, <2>6, <3>1, <3>2
         DEF Others, Same, RemindsFirst, NewLink, Links, Stages
    <3> QED
      BY <3>3 DEF PaymentStep, Effect
  <2>7. CASE stage = "second"
    <3>1. Emits(o, "payment.reminder.second") /\ \A q \in Order \ {o} : emitted'[q] = emitted[q]
      BY <1>0, <1>9, <2>7, Writes DEF Remind, ReminderEvent, Events
    <3>2. payment'[o] = [payment[o] EXCEPT !.second = "set"]
      BY <1>0, <1>9, <2>7 DEF Remind, DatabaseType
    <3>3. payment[o].first = "set"
      BY <1>9, <2>7 DEF IInv, BatchSound
    <3>4. Others(o) /\ RemindsSecond(o)
      BY <2>1, <2>2, <2>3, <2>4, <2>7, <3>1, <3>2, <3>3
         DEF Others, Same, RemindsSecond, NewLink, Links, Stages
    <3> QED
      BY <3>4 DEF PaymentStep, Effect
  <2> QED
    BY <2>6, <2>7 DEF Stages
<1>10. CASE Customer
  BY <1>10, <1>1, <1>2, <1>3 DEF Customer, Upload
<1>11. CASE Desk
  BY <1>11, <1>4, <1>5 DEF Desk
<1>12. ASSUME NEW a \in Admin, Back(a) PROVE PaymentStep
  BY <1>12, <1>6, <1>7, NoEffect DEF Back, ReadPayment, LoseRace, DropCall
<1>13. ASSUME NEW w \in Worker, RunTick(w) PROVE PaymentStep
  BY <1>13, <1>8, <1>9, NoEffect
     DEF RunTick, FindExpirable, FindFirst, FindSecond, EndTick, ExpireNext, RemindNext, Head1st
<1>14. ASSUME NEW w \in Worker, Disrupt(w) PROVE PaymentStep
  BY <1>14, NoEffect DEF Disrupt, AbortTick, SkipFailed
<1>15. CASE Tick \/ UNCHANGED vars
  BY <1>15, NoEffect DEF Tick, vars
<1> QED
  BY <1>10, <1>11, <1>12, <1>13, <1>14, <1>15 DEF Next

-----------------------------------------------------------------------------
(* The inductive invariant.                                                *)

\* What a payment step cannot undo: an order exists for good, a settled payment and
\* a reminder's stamp stay. It is what calls and batches, however stale, rely on.
Lasting ==
    \A o \in Order :
        /\ Placed(o) => Placed(o)'
        /\ payment[o].status \in Terminal => payment'[o] = payment[o]
        /\ payment[o].first = "set" => payment'[o].first = "set"

LEMMA EffectTypes ==
    ASSUME DatabaseType, NEW o \in Order
    PROVE  /\ payment[o] \in PaymentType
           /\ emitted[o] \in [Events -> Nat]
  BY DEF DatabaseType

\* An effect keeps the order's own invariants.
LEMMA EffectKeeps ==
    ASSUME DatabaseType, NEW o \in Order, BornTogether(o), OutcomeTold(o), InTurn(o), Effect(o)
    PROVE  BornTogether(o)' /\ OutcomeTold(o)' /\ InTurn(o)'
<1>0. payment[o] \in PaymentType /\ emitted[o] \in [Events -> Nat]
  BY EffectTypes
<1>1. CASE Opens(o)
  <2>1. payment[o].status = None /\ payment[o].first = "null" /\ payment[o].second = "null"
    BY <1>1 DEF BornTogether, Opens
  <2>2. None \notin PaymentStatuses
    BY NoneAssumption
  <2> QED
    BY <1>0, <1>1, <2>1, <2>2
       DEF Opens, Emits, BornTogether, OutcomeTold, InTurn, Events, PaymentStatuses, Stages
<1>2. CASE Receives(o)
  BY <1>0, <1>2, NoneAssumption
     DEF Receives, Emits, BornTogether, OutcomeTold, InTurn, Events, PaymentType, PaymentStatuses, Open, Stages
<1>3. CASE RemindsFirst(o)
  BY <1>0, <1>3, NoneAssumption
     DEF RemindsFirst, Emits, BornTogether, OutcomeTold, InTurn, Events, PaymentType, PaymentStatuses, Open
<1>4. CASE RemindsSecond(o)
  BY <1>0, <1>4, NoneAssumption
     DEF RemindsSecond, Emits, BornTogether, OutcomeTold, InTurn, Events, PaymentType, PaymentStatuses, Open
<1>5. CASE Administered(o)
  BY <1>0, <1>5 DEF Administered, Emits, BornTogether, OutcomeTold, InTurn, Events
<1>6. CASE Settles(o, "PAID", "payment.paid")
  BY <1>0, <1>6, NoneAssumption
     DEF Settles, Emits, BornTogether, OutcomeTold, InTurn, Events, PaymentType, PaymentStatuses, Open
<1>7. CASE Settles(o, "FAILED", "payment.failed")
  BY <1>0, <1>7, NoneAssumption
     DEF Settles, Emits, BornTogether, OutcomeTold, InTurn, Events, PaymentType, PaymentStatuses, Open
<1>8. CASE Settles(o, "EXPIRED", "payment.expired")
  BY <1>0, <1>8, NoneAssumption
     DEF Settles, Emits, BornTogether, OutcomeTold, InTurn, Events, PaymentType, PaymentStatuses, Open
<1> QED
  BY <1>1, <1>2, <1>3, <1>4, <1>5, <1>6, <1>7, <1>8 DEF Effect

\* An order that is left alone keeps its invariants.
LEMMA SameKeeps ==
    ASSUME NEW q \in Order, BornTogether(q), OutcomeTold(q), InTurn(q), Same(q)
    PROVE  BornTogether(q)' /\ OutcomeTold(q)' /\ InTurn(q)'
  BY DEF Same, BornTogether, OutcomeTold, InTurn

LEMMA PaymentsKept ==
    ASSUME IInv, PaymentStep
    PROVE  \A q \in Order : BornTogether(q)' /\ OutcomeTold(q)' /\ InTurn(q)'
<1>1. /\ DatabaseType
      /\ \A q \in Order : BornTogether(q) /\ OutcomeTold(q) /\ InTurn(q)
  BY DEF IInv, TypeOK, OutcomeToldOnce, RemindersInTurn
<1>2. CASE \A q \in Order : Same(q)
  BY <1>1, <1>2, SameKeeps
<1>3. ASSUME NEW o \in Order, Others(o), Effect(o)
      PROVE  \A q \in Order : BornTogether(q)' /\ OutcomeTold(q)' /\ InTurn(q)'
  <2>1. BornTogether(o)' /\ OutcomeTold(o)' /\ InTurn(o)'
    BY <1>1, <1>3, EffectKeeps
  <2>2. \A q \in Order \ {o} : BornTogether(q)' /\ OutcomeTold(q)' /\ InTurn(q)'
    BY <1>1, <1>3, SameKeeps DEF Others
  <2> QED
    BY <2>1, <2>2
<1> QED
  BY <1>2, <1>3 DEF PaymentStep

LEMMA PaymentsLast ==
    ASSUME IInv, PaymentStep
    PROVE  Lasting
<1>1. CASE \A q \in Order : Same(q)
  BY <1>1 DEF Same, Lasting
<1>2. ASSUME NEW o \in Order, Others(o), Effect(o) PROVE Lasting
  <2>1. payment[o] \in PaymentType /\ BornTogether(o)
    BY EffectTypes DEF IInv, TypeOK
  <2>2. Placed(o) => Placed(o)'
    BY <1>2 DEF Effect, Opens, Receives, RemindsFirst, RemindsSecond, Administered, Settles
  <2>3. payment[o].status \in Terminal => payment'[o] = payment[o]
    BY <1>2, <2>1, NoneAssumption
       DEF Effect, Opens, Receives, RemindsFirst, RemindsSecond, Administered, Settles,
           Terminal, Open, BornTogether, PaymentStatuses
  <2>4. payment[o].first = "set" => payment'[o].first = "set"
    BY <1>2, <2>1
       DEF Effect, Opens, Receives, RemindsFirst, RemindsSecond, Administered, Settles,
           BornTogether, PaymentType
  <2> QED
    BY <1>2, <2>2, <2>3, <2>4 DEF Others, Same, Lasting
<1> QED
  BY <1>1, <1>2 DEF PaymentStep

\* A call that rests relies on nothing that a step can undo.
LEMMA CallKept ==
    ASSUME TypeOK, Lasting, NEW a \in Admin, ToldTruth(a), CallSound(a), call'[a] = call[a]
    PROVE  ToldTruth(a)' /\ CallSound(a)'
<1>1. /\ call[a].step # "idle" => call[a].order \in Order
      /\ Target[call[a].op] \in Terminal
  BY DEF TypeOK, LocalType, CallType, Target, Terminal
<1>2. call[a].step = "ok" => payment'[call[a].order].status = Target[call[a].op]
  BY <1>1 DEF ToldTruth, Lasting
<1>3. call[a].step = "tx" => order'[call[a].order] # None
  BY <1>1 DEF CallSound, Lasting, Placed
<1> QED
  BY <1>2, <1>3 DEF ToldTruth, CallSound, Placed

\* An answer is the truth when it is given.
LEMMA AnswersSound ==
    ASSUME IInv, Lasting, NEW a \in Admin, Back(a)
    PROVE  /\ ToldTruth(a)' /\ CallSound(a)'
           /\ \A b \in Admin \ {a} : call'[b] = call[b]
<1>0. TypeOK /\ ToldTruth(a) /\ CallSound(a)
  BY DEF IInv, AdminToldTruth
<1>t. call \in [Admin -> CallType]
  BY <1>0 DEF TypeOK, LocalType
<1>1. ASSUME NEW op \in {"verify", "reject"}, NEW o \in Order, ReadPayment(a, op, o)
      PROVE  ToldTruth(a)' /\ CallSound(a)'
  <2>1. call'[a] = [step |-> ReadOutcome(payment[o].status, op), op |-> op, order |-> o]
    BY <1>1, <1>t DEF ReadPayment
  <2>2. ReadOutcome(payment[o].status, op) = "ok" => payment[o].status = Target[op]
    BY DEF ReadOutcome, Terminal, Target
  <2>3. UNCHANGED <<payment, order>> /\ Placed(o)
    BY <1>1 DEF ReadPayment, database
  <2>4. /\ call'[a].step = ReadOutcome(payment[o].status, op)
        /\ call'[a].op = op /\ call'[a].order = o
    BY <2>1
  <2> QED
    BY <2>2, <2>3, <2>4 DEF ToldTruth, CallSound, Placed
<1>2. ASSUME LoseRace(a) \/ DropCall(a) PROVE ToldTruth(a)' /\ CallSound(a)'
  BY <1>2, <1>t DEF LoseRace, DropCall, ToldTruth, CallSound, CallType
<1>3. ASSUME Verify(a) PROVE ToldTruth(a)' /\ CallSound(a)'
  <2>1. PICK o \in Order : o = call[a].order
    BY <1>0, <1>3 DEF Verify, TypeOK, LocalType
  <2>2. payment'[o].status = "PAID"
    <3>1. SetPayment(o, "PAID") /\ payment \in [Order -> PaymentType]
      BY <1>0, <1>3, <2>1 DEF Verify, TypeOK, DatabaseType
    <3> QED
      BY <3>1 DEF SetPayment, PaymentType
  <2>3. call'[a].step = "ok" /\ call'[a].op = "verify" /\ call'[a].order = o
    <3>1. call' = [call EXCEPT ![a].step = "ok"] /\ call[a].op = "verify"
      BY <1>3 DEF Verify
    <3> QED
      BY <1>t, <2>1, <3>1 DEF CallType
  <2> QED
    BY <2>2, <2>3 DEF ToldTruth, CallSound, Target
<1>4. ASSUME Reject(a) PROVE ToldTruth(a)' /\ CallSound(a)'
  <2>1. PICK o \in Order : o = call[a].order
    BY <1>0, <1>4 DEF Reject, TypeOK, LocalType
  <2>2. payment'[o].status = "FAILED"
    <3>1. SetPayment(o, "FAILED") /\ payment \in [Order -> PaymentType]
      BY <1>0, <1>4, <2>1 DEF Reject, TypeOK, DatabaseType
    <3> QED
      BY <3>1 DEF SetPayment, PaymentType
  <2>3. call'[a].step = "ok" /\ call'[a].op = "reject" /\ call'[a].order = o
    <3>1. call' = [call EXCEPT ![a].step = "ok"] /\ call[a].op = "reject"
      BY <1>4 DEF Reject
    <3> QED
      BY <1>t, <2>1, <3>1 DEF CallType
  <2> QED
    BY <2>2, <2>3 DEF ToldTruth, CallSound, Target
<1>5. \A b \in Admin \ {a} : call'[b] = call[b]
  BY <1>t DEF Back, ReadPayment, LoseRace, Verify, Reject, DropCall
<1> QED
  BY <1>1, <1>2, <1>3, <1>4, <1>5 DEF Back

LEMMA CallsKept ==
    ASSUME IInv, [Next]_vars, Lasting
    PROVE  \A a \in Admin : ToldTruth(a)' /\ CallSound(a)'
<1>0. TypeOK /\ \A a \in Admin : ToldTruth(a) /\ CallSound(a)
  BY DEF IInv, AdminToldTruth
<1>1. ASSUME NEW a \in Admin, Back(a) PROVE \A b \in Admin : ToldTruth(b)' /\ CallSound(b)'
  <2>1. ToldTruth(a)' /\ CallSound(a)'
    BY <1>1, AnswersSound
  <2>2. \A b \in Admin \ {a} : ToldTruth(b)' /\ CallSound(b)'
    BY <1>0, <1>1, AnswersSound, CallKept
  <2> QED
    BY <2>1, <2>2
<1>2. CASE UNCHANGED call
  BY <1>0, <1>2, CallKept
<1>3. ASSUME NEW w \in Worker, RunTick(w) \/ Disrupt(w) PROVE UNCHANGED call
  BY <1>3 DEF RunTick, FindExpirable, FindFirst, FindSecond, EndTick, ExpireNext, RemindNext,
              Disrupt, AbortTick, SkipFailed
<1>4. CASE Customer \/ Desk \/ Tick \/ UNCHANGED vars
  <2>1. UNCHANGED call
    BY <1>4 DEF Customer, Place, Upload, UploadByLink, ApplyReceipt, Desk, Cancel, UpdateStatus, Tick, vars
  <2> QED
    BY <1>2, <2>1
<1> QED
  BY <1>1, <1>2, <1>3, <1>4 DEF Next

\* A batch stays sound while it is not worked on, and when it shrinks.
LEMMA BatchKept ==
    ASSUME TypeOK, Lasting, NEW w \in Worker, BatchSound(w),
           worker'[w].phase = worker[w].phase, worker'[w].batch \subseteq worker[w].batch
    PROVE  BatchSound(w)'
<1>1. worker[w].batch \subseteq Order
  BY DEF TypeOK, LocalType, TickType
<1> QED
  BY <1>1 DEF BatchSound, Lasting

\* What a worker reads is sound.
LEMMA BatchesSound ==
    ASSUME IInv, Lasting, NEW w \in Worker, RunTick(w) \/ Disrupt(w)
    PROVE  /\ BatchSound(w)'
           /\ \A v \in Worker \ {w} : worker'[v] = worker[v]
<1>0. TypeOK /\ BatchSound(w) /\ worker \in [Worker -> TickType]
  BY DEF IInv, TypeOK, LocalType
<1>1. CASE FindExpirable(w)
  BY <1>0, <1>1 DEF FindExpirable, Begin, BatchSound, Stages
<1>2. CASE FindFirst(w)
  BY <1>0, <1>2 DEF FindFirst, Begin, Batches, BatchSound, Stages
<1>3. CASE FindSecond(w)
  <2>1. PICK b \in SUBSET {o \in Order : Method[o] \in ReceiptMethods /\ payment[o].first = "set"} :
          worker' = [worker EXCEPT ![w].phase = "second", ![w].batch = b]
    BY <1>3 DEF FindSecond, Batches
  <2>2. worker'[w].phase = "second" /\ worker'[w].batch = b
    BY <1>0, <2>1 DEF TickType
  <2>3. \A o \in b : Method[o] \in ReceiptMethods /\ payment'[o].first = "set"
    BY <1>3 DEF FindSecond, database
  <2> QED
    BY <1>0, <2>1, <2>2, <2>3 DEF BatchSound
<1>4. CASE EndTick(w) \/ AbortTick(w)
  BY <1>0, <1>4 DEF EndTick, AbortTick, Idle, BatchSound, Stages
<1>5. ASSUME NEW o \in Order, Done(w, o)
      PROVE  /\ BatchSound(w)'
             /\ \A v \in Worker \ {w} : worker'[v] = worker[v]
  <2>1. worker'[w].phase = worker[w].phase /\ worker'[w].batch \subseteq worker[w].batch
    BY <1>0, <1>5 DEF Done, TickType
  <2>2. \A v \in Worker \ {w} : worker'[v] = worker[v]
    BY <1>0, <1>5 DEF Done
  <2> QED
    BY <1>0, <2>1, <2>2, BatchKept
<1>6. \A v \in Worker \ {w} : worker'[v] = worker[v]
  BY <1>0, <1>5 DEF RunTick, FindExpirable, FindFirst, FindSecond, EndTick, ExpireNext, RemindNext,
                    Disrupt, AbortTick, SkipFailed, Begin
<1> QED
  BY <1>1, <1>2, <1>3, <1>4, <1>5, <1>6 DEF RunTick, Disrupt, ExpireNext, RemindNext, SkipFailed

LEMMA BatchesKept ==
    ASSUME IInv, [Next]_vars, Lasting
    PROVE  \A w \in Worker : BatchSound(w)'
<1>0. TypeOK /\ \A w \in Worker : BatchSound(w)
  BY DEF IInv
<1>1. ASSUME NEW w \in Worker, RunTick(w) \/ Disrupt(w) PROVE \A v \in Worker : BatchSound(v)'
  <2>1. BatchSound(w)'
    BY <1>1, BatchesSound
  <2>2. \A v \in Worker \ {w} : BatchSound(v)'
    BY <1>0, <1>1, BatchesSound, BatchKept
  <2> QED
    BY <2>1, <2>2
<1>2. CASE UNCHANGED worker
  BY <1>0, <1>2, BatchKept
<1>3. ASSUME NEW a \in Admin, Back(a) PROVE UNCHANGED worker
  BY <1>3 DEF Back, ReadPayment, LoseRace, Verify, Reject, DropCall
<1>4. CASE Customer \/ Desk \/ Tick \/ UNCHANGED vars
  <2>1. UNCHANGED worker
    BY <1>4 DEF Customer, Place, Upload, UploadByLink, ApplyReceipt, Desk, Cancel, UpdateStatus, Tick, vars
  <2> QED
    BY <1>2, <2>1
<1> QED
  BY <1>1, <1>2, <1>3, <1>4 DEF Next

LEMMA IInvInit == Init => IInv
<1> SUFFICES ASSUME Init PROVE IInv
  OBVIOUS
<1>1. TypeOK
  BY TypeInit
<1>2. \A o \in Order : BornTogether(o) /\ OutcomeTold(o) /\ InTurn(o)
  BY NoneAssumption DEF Init, NoPayment, NoLink, BornTogether, OutcomeTold, InTurn, Placed,
                        Events, Links, Stages, PaymentStatuses
<1>3. \A a \in Admin : ToldTruth(a) /\ CallSound(a)
  BY DEF Init, ToldTruth, CallSound
<1>4. \A w \in Worker : BatchSound(w)
  BY DEF Init, Idle, BatchSound, Stages
<1> QED
  BY <1>1, <1>2, <1>3, <1>4 DEF IInv, OutcomeToldOnce, RemindersInTurn, AdminToldTruth

LEMMA IInvStep == IInv /\ [Next]_vars => IInv'
<1> SUFFICES ASSUME IInv, [Next]_vars PROVE IInv'
  OBVIOUS
<1>1. TypeOK'
  BY TypeStep DEF IInv
<1>2. PaymentStep
  BY EveryStep
<1>3. Lasting
  BY <1>2, PaymentsLast
<1>4. \A q \in Order : BornTogether(q)' /\ OutcomeTold(q)' /\ InTurn(q)'
  BY <1>2, PaymentsKept
<1>5. \A a \in Admin : ToldTruth(a)' /\ CallSound(a)'
  BY <1>3, CallsKept
<1>6. \A w \in Worker : BatchSound(w)'
  BY <1>3, BatchesKept
<1> QED
  BY <1>1, <1>4, <1>5, <1>6 DEF IInv, OutcomeToldOnce, RemindersInTurn, AdminToldTruth

LEMMA Invariance == Spec => []IInv
  BY IInvInit, IInvStep, PTL DEF Spec

\* However verifying, rejecting, expiring and crashing interleave, a payment's one
\* outcome is announced by exactly one event.
THEOREM OneOutcome == Spec => []OutcomeToldOnce
<1>1. IInv => OutcomeToldOnce
  BY DEF IInv
<1> QED
  BY <1>1, Invariance, PTL

\* Workers with overlapping batches remind of each stage at most once, in order.
THEOREM RemindedInTurn == Spec => []RemindersInTurn
<1>1. IInv => RemindersInTurn
  BY DEF IInv
<1> QED
  BY <1>1, Invariance, PTL

\* What an admin is told of a payment is true, and stays true.
THEOREM AdminsToldTruth == Spec => []AdminToldTruth
<1>1. IInv => AdminToldTruth
  BY DEF IInv
<1> QED
  BY <1>1, Invariance, PTL

\* A step that touches a settled payment only adds order.status_updated.
LEMMA FinalStep ==
    ASSUME IInv, PaymentStep, NEW q \in Order, payment[q].status \in Terminal
    PROVE  /\ payment'[q] = payment[q]
           /\ link'[q] = link[q]
           /\ \A e \in Events \ {"order.status_updated"} : emitted'[q][e] = emitted[q][e]
<1>1. CASE Same(q)
  BY <1>1 DEF Same
<1>2. CASE Effect(q)
  <2>1. payment[q].status \notin Open /\ payment[q].status # None
    BY NoneAssumption DEF Terminal, Open, PaymentStatuses
  <2>2. Placed(q) /\ emitted[q] \in [Events -> Nat]
    BY <2>1, EffectTypes DEF IInv, TypeOK, BornTogether
  <2>3. Administered(q)
    BY <1>2, <2>1, <2>2 DEF Effect, Opens, Receives, RemindsFirst, RemindsSecond, Settles
  <2> QED
    BY <2>2, <2>3 DEF Administered, Emits
<1> QED
  BY <1>1, <1>2 DEF PaymentStep, Others

\* Once a payment is settled, no actor changes it or announces anything of it.
THEOREM SettledStaysFinal == Spec => SettledIsFinal
<1>1. IInv /\ [Next]_vars =>
        [\A o \in Order : payment[o].status \in Terminal =>
            /\ payment'[o] = payment[o]
            /\ link'[o] = link[o]
            /\ \A e \in Events \ {"order.status_updated"} : emitted'[o][e] = emitted[o][e]]_vars
  BY EveryStep, FinalStep
<1> QED
  BY <1>1, Invariance, PTL DEF Spec, SettledIsFinal

-----------------------------------------------------------------------------
(* The refinement of PaymentContract.                                      *)

LEMMA NewsAreNews == Contract!News = PaymentNews
  BY DEF Contract!News, PaymentNews, Events

\* The abstract state of one order, which is all that an effect on it changes.
Outcome(q) == OutcomeOf(payment[q].status)
Told(q) == [n \in PaymentNews |-> emitted[q][n]]

LEMMA ContractInit == Init => Contract!Init
<1> SUFFICES ASSUME Init PROVE Contract!Init
  OBVIOUS
<1>1. \A o \in Order : OutcomeOf(payment[o].status) = "none"
  BY DEF Init, NoPayment, OutcomeOf
<1>2. \A o \in Order : [n \in PaymentNews |-> emitted[o][n]] = [n \in Contract!News |-> 0]
  BY NewsAreNews DEF Init, PaymentNews
<1> QED
  BY <1>1, <1>2 DEF Contract!Init

\* An order that is left alone looks the same.
LEMMA SameLooks ==
    ASSUME NEW q \in Order, Same(q)
    PROVE  OutcomeOf(payment'[q].status) = Outcome(q) /\ [n \in PaymentNews |-> emitted'[q][n]] = Told(q)
  BY DEF Same, Outcome, Told

\* One more announcement of n about o, and of nothing else about any order.
LEMMA Announced ==
    ASSUME DatabaseType, NEW o \in Order, NEW n \in PaymentNews, Others(o), Emits(o, n)
    PROVE  Contract!Announce(o, n)
<1> DEFINE told == [q \in Order |-> Told(q)]
           next == [q \in Order |-> [m \in PaymentNews |-> emitted'[q][m]]]
<1>1. emitted[o] \in [Events -> Nat] /\ PaymentNews \subseteq Events
  BY EffectTypes DEF PaymentNews
<1>2. next[o] = [told[o] EXCEPT ![n] = told[o][n] + 1]
  BY <1>1 DEF Emits, Told
<1>3. \A q \in Order \ {o} : next[q] = told[q]
  BY SameLooks DEF Others
<1>4. next = [told EXCEPT ![o] = [told[o] EXCEPT ![n] = told[o][n] + 1]]
  <2> HIDE DEF Told
  <2>1. next = [q \in Order |-> next[q]]
    OBVIOUS
  <2> HIDE DEF next
  <2> QED
    BY <1>2, <1>3, <2>1
<1> QED
  BY <1>4 DEF Contract!Announce, Told

\* The outcome of o becomes x, and of no other order changes.
LEMMA Decided ==
    ASSUME NEW o \in Order, NEW x, Others(o), OutcomeOf(payment'[o].status) = x
    PROVE  [q \in Order |-> OutcomeOf(payment'[q].status)]
             = [[q \in Order |-> OutcomeOf(payment[q].status)] EXCEPT ![o] = x]
<1>1. \A q \in Order \ {o} : OutcomeOf(payment'[q].status) = OutcomeOf(payment[q].status)
  BY SameLooks DEF Others, Outcome
<1> QED
  BY <1>1

\* What is announced of o stays as it is.
LEMMA Silent ==
    ASSUME DatabaseType, NEW o \in Order, NEW e \in Events \ PaymentNews, Others(o), Emits(o, e)
    PROVE  [q \in Order |-> [n \in PaymentNews |-> emitted'[q][n]]]
             = [q \in Order |-> [n \in PaymentNews |-> emitted[q][n]]]
<1>1. emitted[o] \in [Events -> Nat] /\ PaymentNews \subseteq Events
  BY EffectTypes DEF PaymentNews
<1>2. [m \in PaymentNews |-> emitted'[o][m]] = Told(o)
  BY <1>1 DEF Emits, Told
<1>3. \A q \in Order \ {o} : [m \in PaymentNews |-> emitted'[q][m]] = Told(q)
  BY SameLooks DEF Others
<1> QED
  BY <1>2, <1>3 DEF Told

LEMMA ContractSettle ==
    ASSUME IInv, NEW o \in Order, Others(o), NEW s \in Contract!Results,
           Settles(o, s, Contract!Announcement[s])
    PROVE  Contract!Settle(o, s)
<1>0. DatabaseType
  BY DEF IInv, TypeOK
<1>1. payment'[o].status = s /\ payment[o].status \in Open
  BY <1>0, EffectTypes DEF Settles, PaymentType
<1>2. OutcomeOf(payment[o].status) = "open" /\ OutcomeOf(payment'[o].status) = s
  BY <1>1, NoneAssumption DEF OutcomeOf, Open, PaymentStatuses, Contract!Results
<1>3. Contract!Announcement[s] \in PaymentNews
  BY DEF Contract!Announcement, Contract!Results, PaymentNews, Events
<1>4. Contract!Announce(o, Contract!Announcement[s])
  BY <1>0, <1>3, Announced DEF Settles
<1> QED
  BY <1>2, <1>4, Decided DEF Contract!Settle

LEMMA ContractStep == IInv /\ PaymentStep => [Contract!Next]_(Contract!vars)
<1> SUFFICES ASSUME IInv, PaymentStep PROVE [Contract!Next]_(Contract!vars)
  OBVIOUS
<1>0. DatabaseType /\ \A o \in Order : BornTogether(o) /\ InTurn(o)
  BY DEF IInv, TypeOK, RemindersInTurn
<1>1. CASE \A q \in Order : Same(q)
  <2>1. \A q \in Order : /\ OutcomeOf(payment'[q].status) = OutcomeOf(payment[q].status)
                          /\ [n \in PaymentNews |-> emitted'[q][n]] = [n \in PaymentNews |-> emitted[q][n]]
    BY <1>1, SameLooks DEF Outcome, Told
  <2> QED
    BY <2>1 DEF Contract!vars
<1>2. ASSUME NEW o \in Order, Others(o), Effect(o) PROVE [Contract!Next]_(Contract!vars)
  <2>0. payment[o] \in PaymentType /\ emitted[o] \in [Events -> Nat]
    BY <1>0, EffectTypes
  <2>1. CASE Opens(o)
    <3>1. OutcomeOf(payment[o].status) = "none" /\ OutcomeOf(payment'[o].status) = "open"
      BY <1>0, <2>1, NoneAssumption DEF Opens, BornTogether, OutcomeOf, Open, PaymentStatuses
    <3>2. Contract!Open(o)
      BY <1>0, <1>2, <2>1, <3>1, Decided, Silent DEF Contract!Open, Opens, Events, PaymentNews
    <3> QED
      BY <3>2 DEF Contract!Next
  <2>2. CASE Receives(o)
    <3>1. OutcomeOf(payment[o].status) = "open" /\ OutcomeOf(payment'[o].status) = "open"
      BY <2>0, <2>2, NoneAssumption DEF Receives, OutcomeOf, Open, PaymentStatuses, PaymentType
    <3>2. Contract!Announce(o, "payment.receipt_uploaded")
      BY <1>0, <1>2, <2>2, Announced DEF Receives, Events, PaymentNews
    <3>3. Contract!Receive(o)
      BY <1>2, <3>1, <3>2, Decided DEF Contract!Receive
    <3> QED
      BY <3>3 DEF Contract!Next
  <2>3. CASE RemindsFirst(o)
    <3>1. OutcomeOf(payment[o].status) = "open" /\ OutcomeOf(payment'[o].status) = "open"
      BY <2>0, <2>3, NoneAssumption DEF RemindsFirst, OutcomeOf, Open, PaymentStatuses, PaymentType
    <3>2. Contract!Announce(o, "payment.reminder.first")
      BY <1>0, <1>2, <2>3, Announced DEF RemindsFirst, Events, PaymentNews
    <3>3. emitted[o]["payment.reminder.first"] = 0
      BY <1>0, <2>3 DEF RemindsFirst, InTurn
    <3>4. Contract!RemindFirst(o)
      BY <1>2, <3>1, <3>2, <3>3, Decided DEF Contract!RemindFirst, PaymentNews, Events
    <3> QED
      BY <3>4 DEF Contract!Next
  <2>4. CASE RemindsSecond(o)
    <3>1. OutcomeOf(payment[o].status) = "open" /\ OutcomeOf(payment'[o].status) = "open"
      BY <2>0, <2>4, NoneAssumption DEF RemindsSecond, OutcomeOf, Open, PaymentStatuses, PaymentType
    <3>2. Contract!Announce(o, "payment.reminder.second")
      BY <1>0, <1>2, <2>4, Announced DEF RemindsSecond, Events, PaymentNews
    <3>3. emitted[o]["payment.reminder.first"] = 1 /\ emitted[o]["payment.reminder.second"] = 0
      BY <1>0, <2>4 DEF RemindsSecond, InTurn
    <3>4. Contract!RemindSecond(o)
      BY <1>2, <3>1, <3>2, <3>3, Decided DEF Contract!RemindSecond, PaymentNews, Events
    <3> QED
      BY <3>4 DEF Contract!Next
  <2>5. CASE Administered(o)
    <3>1. OutcomeOf(payment'[o].status) = OutcomeOf(payment[o].status)
      BY <2>5 DEF Administered
    <3> QED
      BY <1>0, <1>2, <2>5, <3>1, Decided, Silent DEF Administered, Contract!vars, Events, PaymentNews
  <2>6. CASE Settles(o, "PAID", "payment.paid")
    BY <1>2, <2>6, ContractSettle DEF Contract!Next, Contract!Results, Contract!Announcement
  <2>7. CASE Settles(o, "FAILED", "payment.failed")
    BY <1>2, <2>7, ContractSettle DEF Contract!Next, Contract!Results, Contract!Announcement
  <2>8. CASE Settles(o, "EXPIRED", "payment.expired")
    BY <1>2, <2>8, ContractSettle DEF Contract!Next, Contract!Results, Contract!Announcement
  <2> QED
    BY <1>2, <2>1, <2>2, <2>3, <2>4, <2>5, <2>6, <2>7, <2>8 DEF Effect
<1> QED
  BY <1>1, <1>2 DEF PaymentStep

\* Customers, admins and workers, racing as they do, implement the payment contract.
THEOREM Implementation == Spec => ImplementsContract
<1>1. IInv /\ [Next]_vars => [Contract!Next]_(Contract!vars)
  BY EveryStep, ContractStep
<1> QED
  BY <1>1, ContractInit, Invariance, PTL DEF Spec, ImplementsContract, Contract!Spec

-----------------------------------------------------------------------------
(* Orders, their trails and the stock: what a step does to one order.      *)

\* Payments of other orders keep their status, and so does this one's while it is open.
OtherPayments(o) == \A q \in Order \ {o} : payment'[q].status = payment[q].status

\* A payment fails or expires, and its order is cancelled.
Withdraws(o) ==
    /\ payment[o].status \in Open /\ payment'[o].status \in {"FAILED", "EXPIRED"}
    /\ OtherPayments(o)
    /\ CancelAndRestock(o)
    /\ UNCHANGED changes

\* A payment is verified, and its order goes ahead.
Approves(o) ==
    /\ payment[o].status \in Open /\ payment'[o].status = "PAID"
    /\ OtherPayments(o)
    /\ SetStatus(o, "PROCESSING")
    /\ UNCHANGED <<stock, changes>>

\* An admin sets a status, to CANCELLED by way of cancelAndRestock.
Decides(o) ==
    /\ Placed(o)
    /\ CancelAndRestock(o) \/ \E s \in OrderStatuses \ {"CANCELLED"} : SetStatus(o, s) /\ UNCHANGED stock
    /\ changes' = changes + 1
    /\ UNCHANGED payment

\* No order changes, and no payment is decided.
OrdersStay ==
    /\ UNCHANGED <<order, trail, stock, changes>>
    /\ \A q \in Order : \/ payment'[q].status = payment[q].status
                        \/ payment[q].status \in Open /\ payment'[q].status \in Open

OrderStep ==
    OrdersStay \/ \E o \in Order : Place(o) \/ Withdraws(o) \/ Approves(o) \/ Decides(o)

\* What SetPayment does to the payments' statuses.
LEMMA PaymentStatusWrites ==
    ASSUME DatabaseType, NEW o \in Order, NEW s \in PaymentStatuses, SetPayment(o, s)
    PROVE  payment'[o].status = s /\ OtherPayments(o)
<1>1. payment'[o].status = s
  BY DEF SetPayment, DatabaseType, PaymentType
<1>2. OtherPayments(o)
  BY DEF SetPayment, DatabaseType, OtherPayments
<1> QED
  BY <1>1, <1>2

\* Every step of the system is an order step.
LEMMA EveryOrderStep == IInv /\ [Next]_vars => OrderStep
<1> SUFFICES ASSUME IInv, [Next]_vars PROVE OrderStep
  OBVIOUS
<1>0. DatabaseType /\ LocalType /\ \A o \in Order : BornTogether(o)
  BY DEF IInv, TypeOK
<1>1. ASSUME UNCHANGED database, UNCHANGED bounds \/ UNCHANGED changes PROVE OrderStep
  BY <1>1 DEF database, bounds, OrderStep, OrdersStay
<1>2. ASSUME NEW o \in Order, ApplyReceipt(o) PROVE OrderStep
  <2>1. /\ payment'[o].status = "WAITING_VERIFICATION" /\ payment[o].status \in Open
        /\ OtherPayments(o)
    BY <1>0, <1>2, PaymentStatusWrites DEF ApplyReceipt, PaymentStatuses
  <2> QED
    BY <1>2, <2>1 DEF ApplyReceipt, OrderStep, OrdersStay, OtherPayments, Open
<1>3. CASE Customer
  BY <1>2, <1>3 DEF Customer, Upload, UploadByLink, OrderStep
<1>4. CASE Desk
  <2>1. \A o \in Order : order[o] \in Cancellable => Placed(o)
    BY StatusNotNone DEF Placed, Cancellable, OrderStatuses
  <2>2. ASSUME NEW o \in Order, Cancel(o) PROVE OrderStep
    BY <2>1, <2>2 DEF Cancel, OrderStep, Decides
  <2>3. ASSUME NEW o \in Order, NEW s \in StatusChoices \ {"CANCELLED"}, UpdateStatus(o, s)
        PROVE  OrderStep
    BY <2>3, ChoiceAssumption DEF UpdateStatus, OrderStep, Decides
  <2> QED
    BY <1>4, <2>2, <2>3 DEF Desk
<1>5. ASSUME NEW a \in Admin, Verify(a) \/ Reject(a) PROVE OrderStep
  <2>0. PICK o \in Order : o = call[a].order
    BY <1>0, <1>5 DEF Verify, Reject, LocalType
  <2>1. payment[o].status \in Open
    BY <1>0, <1>5, <2>0 DEF Verify, Reject, IInv, CallSound, BornTogether, Unsettled, Terminal,
                      Open, DatabaseType, PaymentType, PaymentStatuses
  <2>2. CASE Verify(a)
    <3>1. payment'[o].status = "PAID" /\ OtherPayments(o)
      BY <1>0, <2>0, <2>2, PaymentStatusWrites DEF Verify, PaymentStatuses
    <3> QED
      BY <2>0, <2>1, <2>2, <3>1 DEF Verify, OrderStep, Approves, bounds
  <2>3. CASE Reject(a)
    <3>1. payment'[o].status = "FAILED" /\ OtherPayments(o)
      BY <1>0, <2>0, <2>3, PaymentStatusWrites DEF Reject, PaymentStatuses
    <3> QED
      BY <2>0, <2>1, <2>3, <3>1 DEF Reject, OrderStep, Withdraws, bounds
  <2> QED
    BY <1>5, <2>2, <2>3
<1>6. ASSUME NEW o \in Order, Expire(o), UNCHANGED bounds PROVE OrderStep
  <2>1. payment'[o].status = "EXPIRED" /\ OtherPayments(o)
    BY <1>0, <1>6, PaymentStatusWrites DEF Expire, PaymentStatuses
  <2> QED
    BY <1>6, <2>1 DEF Expire, Eligible, Open, OrderStep, Withdraws, bounds
<1>7. ASSUME NEW o \in Order, NEW stage \in Stages, Remind(o, stage), UNCHANGED bounds
      PROVE  OrderStep
  <2>1. \A q \in Order : payment'[q].status = payment[q].status
    BY <1>0, <1>7 DEF Remind, DatabaseType, PaymentType, Stages
  <2> QED
    BY <1>7, <2>1 DEF Remind, OrderStep, OrdersStay, bounds
<1>8. ASSUME NEW a \in Admin, Back(a) PROVE OrderStep
  BY <1>1, <1>5, <1>8 DEF Back, ReadPayment, LoseRace, DropCall
<1>9. ASSUME NEW w \in Worker, RunTick(w) PROVE OrderStep
  BY <1>1, <1>6, <1>7, <1>9
     DEF RunTick, FindExpirable, FindFirst, FindSecond, EndTick, ExpireNext, RemindNext
<1>10. ASSUME NEW w \in Worker, Disrupt(w) PROVE OrderStep
  BY <1>1, <1>10 DEF Disrupt, AbortTick, SkipFailed
<1>11. CASE Tick \/ UNCHANGED vars
  BY <1>1, <1>11 DEF Tick, vars
<1> QED
  BY <1>3, <1>4, <1>8, <1>9, <1>10, <1>11 DEF Next

\* The trail of an order, and whether it exists.
TrailOf(o) ==
    IF Placed(o) THEN Len(trail[o]) > 0 /\ trail[o][Len(trail[o])] = order[o]
                 ELSE trail[o] = <<>>

\* Setting a status writes it to the order and to the end of its trail, and to no other.
LEMMA StatusWrites ==
    ASSUME DatabaseType, NEW o \in Order, NEW s \in OrderStatuses, SetStatus(o, s)
    PROVE  /\ order'[o] = s /\ Placed(o)' /\ TrailOf(o)'
           /\ \A q \in Order \ {o} : order'[q] = order[q] /\ trail'[q] = trail[q]
<1>1. order'[o] = s /\ trail'[o] = Append(trail[o], s) /\ s # None
  BY StatusNotNone DEF SetStatus, DatabaseType
<1>2. \A q \in Order \ {o} : order'[q] = order[q] /\ trail'[q] = trail[q]
  BY DEF SetStatus, DatabaseType
<1>3. trail[o] \in Seq(OrderStatuses)
  BY DEF DatabaseType
<1>4. Len(trail'[o]) = Len(trail[o]) + 1 /\ Len(trail[o]) \in Nat /\ trail'[o][Len(trail[o]) + 1] = s
  BY <1>1, <1>3
<1> QED
  BY <1>1, <1>2, <1>4 DEF TrailOf, Placed

\* The statuses an order step writes.
LEMMA OrderWrites ==
    ASSUME DatabaseType, NEW o \in Order, Place(o) \/ Withdraws(o) \/ Approves(o) \/ Decides(o)
    PROVE  \/ UNCHANGED <<order, trail, stock>> /\ order[o] \notin Cancellable
           \/ \E s \in OrderStatuses : SetStatus(o, s)
<1>1. "CANCELLED" \in OrderStatuses /\ "PENDING" \in OrderStatuses /\ "PROCESSING" \in OrderStatuses
  BY DEF OrderStatuses
<1> QED
  BY <1>1, CancelCases DEF Place, Withdraws, Approves, Decides

\* So trails keep telling the status.
LEMMA TrailsKept ==
    ASSUME DatabaseType, TrailTellsStatus, OrderStep
    PROVE  TrailTellsStatus'
<1> SUFFICES ASSUME NEW q \in Order PROVE TrailOf(q)'
  BY DEF TrailTellsStatus, TrailOf
<1>0. TrailOf(q)
  BY DEF TrailTellsStatus, TrailOf
<1>1. CASE UNCHANGED <<order, trail>>
  BY <1>0, <1>1 DEF TrailOf, Placed
<1>2. ASSUME NEW o \in Order, NEW s \in OrderStatuses, SetStatus(o, s) PROVE TrailOf(q)'
  BY <1>0, <1>2, StatusWrites DEF TrailOf, Placed
<1> QED
  BY <1>1, <1>2, OrderWrites DEF OrderStep, OrdersStay

\* The stock that orders hold when one more of them holds its items.
LEMMA HeldMore ==
    ASSUME IsFiniteSet(Standing), NEW o \in Order, o \notin Standing,
           Standing' = Standing \cup {o}, NEW p \in Product
    PROVE  Held(p) \in Nat /\ Held(p)' = Held(p) + Qty[o][p] /\ Qty[o][p] \in Nat
<1> DEFINE f == [q \in Order |-> Qty[q][p]]
<1>1. \A q \in Order : f[q] \in Nat /\ f[q] = Qty[q][p]
  BY ItemAssumption
<1>2. Standing \subseteq Order
  BY DEF Standing
<1>3. Held(p) = SumFunctionOnSet(f, Standing) /\ Held(p)' = SumFunctionOnSet(f, Standing')
  BY DEF Held
<1> HIDE DEF f
<1>4. /\ SumFunctionOnSet(f, Standing) \in Nat
      /\ SumFunctionOnSet(f, Standing \cup {o}) = SumFunctionOnSet(f, Standing) + f[o]
  BY <1>1, <1>2, SumGrows
<1> QED
  BY <1>1, <1>3, <1>4

\* And when one of them no longer does.
LEMMA HeldLess ==
    ASSUME IsFiniteSet(Standing), NEW o \in Standing, Standing' = Standing \ {o},
           NEW p \in Product
    PROVE  Held(p)' \in Nat /\ Held(p) = Held(p)' + Qty[o][p] /\ Qty[o][p] \in Nat
<1> DEFINE f == [q \in Order |-> Qty[q][p]]
<1>1. \A q \in Order : f[q] \in Nat /\ f[q] = Qty[q][p]
  BY ItemAssumption
<1>2. Standing \subseteq Order
  BY DEF Standing
<1>3. Held(p) = SumFunctionOnSet(f, Standing) /\ Held(p)' = SumFunctionOnSet(f, Standing \ {o})
  BY DEF Held
<1> HIDE DEF f
<1>4. SumFunctionOnSet(f, Standing) = f[o] + SumFunctionOnSet(f, Standing \ {o})
  BY <1>1, <1>2, SumElement
<1>5. SumFunctionOnSet(f, Standing \ {o}) \in Nat
  <2>1. IsFiniteSet(Standing \ {o})
    BY FS_Subset
  <2> QED
    BY <1>1, <1>2, <2>1, SumIsNat
<1>6. o \in Order
  BY <1>2
<1> QED
  BY <1>1, <1>3, <1>4, <1>5, <1>6

\* Setting a status moves the order in or out of the standing ones.
LEMMA StandingMoves ==
    ASSUME DatabaseType, NEW o \in Order, NEW s \in OrderStatuses, SetStatus(o, s)
    PROVE  Standing' = IF s = "CANCELLED" THEN Standing \ {o} ELSE Standing \cup {o}
  BY StatusWrites, StatusNotNone DEF Standing, Placed, DatabaseType

\* The orders that exist.
PlacedOrders == {o \in Order : Placed(o)}

\* Finitely many orders are placed in a finite time.
LEMMA FinitelyPlaced ==
    ASSUME DatabaseType, IsFiniteSet(PlacedOrders), OrderStep
    PROVE  IsFiniteSet(PlacedOrders')
<1>1. CASE UNCHANGED order
  <2>1. PlacedOrders' = PlacedOrders
    BY <1>1 DEF PlacedOrders, Placed
  <2> QED
    BY <2>1
<1>2. ASSUME NEW o \in Order, NEW s \in OrderStatuses, SetStatus(o, s)
      PROVE  IsFiniteSet(PlacedOrders')
  <2>1. PlacedOrders' = PlacedOrders \cup {o}
    BY <1>2, StatusWrites DEF PlacedOrders, Placed
  <2> QED
    BY <2>1, FS_AddElement
<1> QED
  BY <1>1, <1>2, OrderWrites DEF OrderStep, OrdersStay

-----------------------------------------------------------------------------
(* Revivals: how often the history of an order leaves CANCELLED.           *)

\* The places of a history where it leaves CANCELLED.
RevivedAt(t) == {i \in 1 .. Len(t) - 1 : t[i] = "CANCELLED" /\ t[i + 1] # "CANCELLED"}

\* A history has finitely many.
LEMMA RevivalsCounted ==
    ASSUME NEW t \in Seq(OrderStatuses)
    PROVE  IsFiniteSet(RevivedAt(t)) /\ Cardinality(RevivedAt(t)) \in Nat
<1>1. Len(t) - 1 \in Int
  OBVIOUS
<1>2. IsFiniteSet(1 .. Len(t) - 1)
  BY <1>1, FS_Interval
<1>3. RevivedAt(t) \subseteq 1 .. Len(t) - 1
  BY DEF RevivedAt
<1> QED
  BY <1>2, <1>3, FS_Subset, FS_CardinalityType

\* A history with one status more has one more if it goes on from CANCELLED to another.
LEMMA RevivedOnce ==
    ASSUME NEW t \in Seq(OrderStatuses), NEW s \in OrderStatuses
    PROVE  Cardinality(RevivedAt(Append(t, s))) =
             Cardinality(RevivedAt(t)) +
               (IF Len(t) > 0 /\ t[Len(t)] = "CANCELLED" /\ s # "CANCELLED" THEN 1 ELSE 0)
<1> DEFINE u == Append(t, s)
           n == Len(t)
<1>1. n \in Nat /\ Len(u) = n + 1 /\ u[n + 1] = s /\ \A i \in 1 .. n : u[i] = t[i]
  OBVIOUS
<1> HIDE DEF u, n
<1>2. IsFiniteSet(RevivedAt(t)) /\ Cardinality(RevivedAt(t)) \in Nat
  BY RevivalsCounted
<1>3. n \notin RevivedAt(t)
  BY <1>1 DEF RevivedAt, n
<1>4. CASE n > 0 /\ t[n] = "CANCELLED" /\ s # "CANCELLED"
  <2>1. RevivedAt(u) = RevivedAt(t) \cup {n}
    BY <1>1, <1>4 DEF RevivedAt, n
  <2> QED
    BY <1>2, <1>3, <1>4, <2>1, FS_AddElement DEF u, n
<1>5. CASE ~(n > 0 /\ t[n] = "CANCELLED" /\ s # "CANCELLED")
  <2>1. RevivedAt(u) = RevivedAt(t)
    BY <1>1, <1>5 DEF RevivedAt, n
  <2> QED
    BY <1>2, <1>5, <2>1 DEF u, n
<1> QED
  BY <1>4, <1>5

\* What the status adds to an order's revivals.
Revives(o, s) == IF order[o] = "CANCELLED" /\ s # "CANCELLED" THEN 1 ELSE 0

\* Setting a status revives the order or does not, and no other.
LEMMA RevivalsMove ==
    ASSUME DatabaseType, TrailTellsStatus, NEW o \in Order, NEW s \in OrderStatuses, SetStatus(o, s)
    PROVE  /\ Revivals(o) \in Nat /\ Revivals(o)' = Revivals(o) + Revives(o, s)
           /\ \A q \in Order \ {o} : Revivals(q)' = Revivals(q)
<1>1. trail[o] \in Seq(OrderStatuses) /\ trail'[o] = Append(trail[o], s)
  BY DEF SetStatus, DatabaseType
<1>2. Revivals(o) = Cardinality(RevivedAt(trail[o])) /\ Revivals(o)' = Cardinality(RevivedAt(trail'[o]))
  BY DEF Revivals, RevivedAt
<1>3. Len(trail[o]) > 0 /\ trail[o][Len(trail[o])] = "CANCELLED" <=> order[o] = "CANCELLED"
  BY <1>1, NoneAssumption DEF TrailTellsStatus, Placed, OrderStatuses
<1>4. \A q \in Order \ {o} : Revivals(q)' = Revivals(q)
  BY DEF SetStatus, DatabaseType, Revivals
<1>5. Revivals(o)' = Revivals(o) + Revives(o, s)
  BY <1>1, <1>2, <1>3, RevivedOnce DEF Revives
<1> QED
  BY <1>1, <1>2, <1>4, <1>5, RevivalsCounted

\* An order not placed was never revived; every count is a natural number.
LEMMA RevivalsAreCounts ==
    ASSUME DatabaseType, TrailTellsStatus, NEW o \in Order
    PROVE  Revivals(o) \in Nat /\ (~Placed(o) => Revivals(o) = 0)
<1>1. trail[o] \in Seq(OrderStatuses) /\ Revivals(o) = Cardinality(RevivedAt(trail[o]))
  BY DEF DatabaseType, Revivals, RevivedAt
<1>2. ASSUME ~Placed(o) PROVE Revivals(o) = 0
  <2>1. RevivedAt(trail[o]) = {}
    BY <1>2 DEF TrailTellsStatus, RevivedAt
  <2> QED
    BY <1>1, <2>1, FS_EmptySet
<1> QED
  BY <1>1, <1>2, RevivalsCounted

\* The surplus grows by the items of the order a status revives.
LEMMA SurplusMoves ==
    ASSUME DatabaseType, TrailTellsStatus, IsFiniteSet(PlacedOrders),
           NEW o \in Order, NEW s \in OrderStatuses, SetStatus(o, s), NEW p \in Product
    PROVE  Surplus(p) \in Nat /\ Surplus(p)' = Surplus(p) + Revives(o, s) * Qty[o][p]
<1> DEFINE f == [q \in Order |-> Revivals(q) * Qty[q][p]]
           g == [q \in Order |-> Revivals(q)' * Qty[q][p]]
           Remaining == PlacedOrders \ {o}
<1>0. Qty[o][p] \in Nat /\ \A q \in Order : Qty[q][p] \in Nat
  BY ItemAssumption
<1>1. \A q \in Order : Revivals(q) \in Nat
  BY RevivalsAreCounts
<1>2. Revivals(o)' = Revivals(o) + Revives(o, s) /\ \A q \in Order \ {o} : Revivals(q)' = Revivals(q)
  BY RevivalsMove
<1>3. Surplus(p) = SumFunctionOnSet(f, PlacedOrders) /\ Surplus(p)' = SumFunctionOnSet(g, PlacedOrders')
  BY DEF Surplus, PlacedOrders
<1>4. PlacedOrders' = Remaining \cup {o} /\ PlacedOrders \subseteq Order
  BY StatusWrites DEF PlacedOrders, Placed
<1>5. \A q \in Order : f[q] = Revivals(q) * Qty[q][p] /\ f[q] \in Nat
  BY <1>0, <1>1
<1>6. \A q \in Remaining : g[q] = f[q]
  BY <1>2, <1>4
<1>7. g[o] = f[o] + Revives(o, s) * Qty[o][p] /\ g[o] \in Nat
  <2>1. ASSUME NEW a \in Nat, NEW b \in {0, 1}, NEW c \in Nat
        PROVE  (a + b) * c = a * c + b * c /\ (a + b) * c \in Nat
    BY <2>1
  <2>2. Revives(o, s) \in {0, 1}
    BY DEF Revives
  <2>3. g[o] = (Revivals(o) + Revives(o, s)) * Qty[o][p] /\ f[o] = Revivals(o) * Qty[o][p]
    BY <1>2
  <2>4. Revivals(o) \in Nat /\ Qty[o][p] \in Nat
    BY <1>0, <1>1
  <2> HIDE DEF f, g
  <2>5. /\ (Revivals(o) + Revives(o, s)) * Qty[o][p] = Revivals(o) * Qty[o][p] + Revives(o, s) * Qty[o][p]
        /\ (Revivals(o) + Revives(o, s)) * Qty[o][p] \in Nat
    BY <2>1, <2>2, <2>4, Zenon
  <2> QED
    BY <2>3, <2>5, Zenon
<1>8. IsFiniteSet(Remaining) /\ o \notin Remaining
  BY FS_Subset
<1>9. \A q \in Remaining : g[q] = f[q] /\ f[q] \in Nat
  BY <1>4, <1>5, <1>6
<1> HIDE DEF f, g, Remaining
<1>10. /\ SumFunctionOnSet(f, Remaining) \in Nat
       /\ SumFunctionOnSet(g, PlacedOrders') = SumFunctionOnSet(f, Remaining) + g[o]
  <2>1. SumFunctionOnSet(f, Remaining) \in Nat
    BY <1>8, <1>9, SumIsNat
  <2>2. SumFunctionOnSet(g, Remaining) = SumFunctionOnSet(f, Remaining)
    BY <1>8, <1>9, SumAgrees
  <2>3. SumFunctionOnSet(g, PlacedOrders') = g[o] + SumFunctionOnSet(g, Remaining)
    <3>1. IsFiniteSet(PlacedOrders') /\ PlacedOrders' \ {o} = Remaining /\ o \in PlacedOrders'
      BY <1>4, <1>8, FS_AddElement
    <3>2. \A q \in PlacedOrders' : g[q] \in Nat
      BY <1>4, <1>7, <1>9
    <3> QED
      BY <3>1, <3>2, SumElement
  <2> QED
    BY <1>7, <2>1, <2>2, <2>3
<1>11. SumFunctionOnSet(f, PlacedOrders) \in Nat /\ SumFunctionOnSet(f, PlacedOrders) = SumFunctionOnSet(f, Remaining) + f[o]
  <2>1. CASE o \in PlacedOrders
    <3>1. SumFunctionOnSet(f, PlacedOrders) = f[o] + SumFunctionOnSet(f, Remaining)
      BY <1>4, <1>5, <2>1, SumElement DEF Remaining
    <3> QED
      BY <1>5, <1>10, <3>1
  <2>2. CASE o \notin PlacedOrders
    <3>1. Remaining = PlacedOrders
      BY <2>2 DEF Remaining
    <3>2. Revivals(o) = 0
      BY <2>2, RevivalsAreCounts DEF PlacedOrders
    <3>3. f[o] = 0
      BY <1>0, <1>5, <3>2
    <3> QED
      BY <1>10, <3>1, <3>3
  <2> QED
    BY <2>1, <2>2
<1>12. ASSUME NEW a \in Nat, NEW b \in Nat, NEW c \in Nat, NEW d \in {0, 1}
       PROVE  a + (b + d * c) = (a + b) + d * c
  BY <1>12
<1>13. Revives(o, s) \in {0, 1}
  BY DEF Revives
<1> QED
  BY <1>0, <1>3, <1>5, <1>7, <1>10, <1>11, <1>12, <1>13

-----------------------------------------------------------------------------
(* The ledger.                                                             *)

\* The ledger of one product.
Ledger(p) == stock[p] + Held(p) = InitStock[p] + Surplus(p)

\* Cancelling an order returns what it held, once.
LEMMA CancelBalances ==
    ASSUME DatabaseType, TrailTellsStatus, IsFiniteSet(PlacedOrders), NEW o \in Order,
           IsFiniteSet(Standing), CancelAndRestock(o), NEW p \in Product
    PROVE  stock'[p] + Held(p)' = stock[p] + Held(p) /\ Surplus(p)' = Surplus(p)
<1>1. CASE order[o] \in Cancellable /\ SetStatus(o, "CANCELLED") /\ Restock(o)
  <2>1. o \in Standing
    BY <1>1, StatusNotNone DEF Standing, Placed, Cancellable, OrderStatuses
  <2>2. Standing' = Standing \ {o}
    BY <1>1, StandingMoves DEF OrderStatuses
  <2>3. Held(p)' \in Nat /\ Held(p) = Held(p)' + Qty[o][p] /\ Qty[o][p] \in Nat
    BY <2>1, <2>2, HeldLess
  <2>4. stock'[p] = stock[p] + Qty[o][p] /\ stock[p] \in Nat
    BY <1>1 DEF Restock, DatabaseType
  <2>5. Surplus(p) \in Nat /\ Surplus(p)' = Surplus(p) + 0 * Qty[o][p]
    BY <1>1, SurplusMoves DEF OrderStatuses, Revives
  <2> QED
    BY <2>3, <2>4, <2>5
<1>2. CASE order[o] \notin Cancellable /\ UNCHANGED <<order, trail, stock>>
  <2>1. Held(p)' = Held(p) /\ Surplus(p)' = Surplus(p)
    BY <1>2 DEF Held, Standing, Placed, Surplus, Revivals
  <2> QED
    BY <1>2, <2>1
<1> QED
  BY <1>1, <1>2, CancelCases

\* A status that is not CANCELLED leaves an order holding its items, or makes it: a new
\* one the first time, a cancelled one once more.
LEMMA StatusBalances ==
    ASSUME DatabaseType, TrailTellsStatus, IsFiniteSet(PlacedOrders), IsFiniteSet(Standing),
           NEW o \in Order, NEW s \in OrderStatuses \ {"CANCELLED"}, SetStatus(o, s), NEW p \in Product
    PROVE  /\ Held(p) \in Nat /\ Qty[o][p] \in Nat /\ Surplus(p) \in Nat
           /\ ~Placed(o) => Held(p)' = Held(p) + Qty[o][p] /\ Surplus(p)' = Surplus(p)
           /\ Placed(o) => \E n \in {0, Qty[o][p]} :
                               Held(p)' = Held(p) + n /\ Surplus(p)' = Surplus(p) + n
<1>1. Standing' = Standing \cup {o}
  BY StandingMoves
<1>2. Qty[o][p] \in Nat
  BY ItemAssumption
<1>3. Held(p) \in Nat
  <2> DEFINE f == [q \in Order |-> Qty[q][p]]
  <2>1. \A q \in Standing : f[q] \in Nat
    BY ItemAssumption DEF Standing
  <2> QED
    BY <2>1, SumIsNat DEF Held
<1>4. Surplus(p) \in Nat /\ Surplus(p)' = Surplus(p) + Revives(o, s) * Qty[o][p]
  BY SurplusMoves
<1>5. CASE o \in Standing
  <2>1. Held(p)' = Held(p)
    BY <1>1, <1>5 DEF Held
  <2>2. Placed(o) /\ Revives(o, s) = 0
    BY <1>5 DEF Standing, Revives
  <2> QED
    BY <1>2, <1>3, <1>4, <2>1, <2>2
<1>6. CASE o \notin Standing
  <2>1. Held(p)' = Held(p) + Qty[o][p]
    BY <1>1, <1>6, HeldMore
  <2>2. Revives(o, s) = (IF Placed(o) THEN 1 ELSE 0)
    BY <1>6, StatusNotNone DEF Standing, Revives, Placed, OrderStatuses
  <2> QED
    BY <1>2, <1>3, <1>4, <2>1, <2>2
<1> QED
  BY <1>5, <1>6

\* Payment and order agree on whether the order was withdrawn.
Agree(o) == payment[o].status \in {"FAILED", "EXPIRED"} <=> order[o] = "CANCELLED"

\* The statuses payments give an order.
UntouchedStatuses == {None, "PENDING", "PROCESSING", "CANCELLED"}

\* An order that payments alone have decided.
Untouched(o) == Agree(o) /\ order[o] \in UntouchedStatuses /\ Revivals(o) = 0

\* StockLedger with what makes it inductive, apart from finiteness and the trails.
LedgerInv ==
    /\ \A p \in Product : Ledger(p)
    /\ changes = 0 => \A o \in Order : Untouched(o)

\* A payment that is withdrawn takes an order with it that was not delivered.
LEMMA WithdrawalCancels ==
    ASSUME IInv, NEW o \in Order, Withdraws(o)
    PROVE  /\ Placed(o)
           /\ order'[o] \in {"CANCELLED", "DELIVERED", "COMPLETED"}
           /\ order[o] \in {"PENDING", "PROCESSING"} => order'[o] = "CANCELLED"
           /\ \A q \in Order \ {o} : order'[q] = order[q]
<1>0. DatabaseType
  BY DEF IInv, TypeOK
<1>1. Placed(o)
  BY NoneAssumption DEF IInv, BornTogether, Withdraws, Open, PaymentStatuses
<1>2. order[o] \in OrderStatuses
  BY <1>0, <1>1 DEF DatabaseType, Placed
<1>3. CASE order[o] \in Cancellable /\ SetStatus(o, "CANCELLED")
  BY <1>0, <1>1, <1>3, StatusWrites DEF OrderStatuses
<1>4. CASE order[o] \notin Cancellable /\ UNCHANGED order
  BY <1>1, <1>2, <1>4 DEF OrderStatuses, Cancellable
<1> QED
  BY <1>3, <1>4, CancelCases DEF Withdraws

\* Every order step keeps the ledger: what is in stock and what the standing orders
\* hold balance with what there was and what revived orders hold again.
LEMMA BalanceKept ==
    ASSUME IInv, OrderStep, TrailTellsStatus, IsFiniteSet(PlacedOrders), NEW p \in Product, Ledger(p)
    PROVE  Ledger(p)'
<1>0. /\ DatabaseType /\ stock[p] \in Nat /\ InitStock[p] \in Nat
      /\ \A o \in Order : BornTogether(o)
  BY ItemAssumption DEF IInv, TypeOK, DatabaseType
<1>1. IsFiniteSet(Standing)
  <2>1. Standing \subseteq PlacedOrders
    BY DEF Standing, PlacedOrders
  <2> QED
    BY <2>1, FS_Subset
<1>2. CASE OrdersStay
  BY <1>2 DEF OrdersStay, Ledger, Held, Standing, Placed, Surplus, Revivals
<1>3. ASSUME NEW o \in Order, Place(o) PROVE Ledger(p)'
  <2>1. ~Placed(o) /\ SetStatus(o, "PENDING") /\ "PENDING" \in OrderStatuses \ {"CANCELLED"}
    BY <1>3 DEF Place, OrderStatuses
  <2>2. stock'[p] = stock[p] - Qty[o][p]
    BY <1>3 DEF Place
  <2>3. /\ Held(p)' = Held(p) + Qty[o][p] /\ Held(p) \in Nat /\ Qty[o][p] \in Nat
        /\ Surplus(p)' = Surplus(p)
    BY <1>0, <1>1, <2>1, StatusBalances
  <2> QED
    BY <1>0, <2>2, <2>3 DEF Ledger
<1>4. ASSUME NEW o \in Order, CancelAndRestock(o) PROVE Ledger(p)'
  <2>1. stock'[p] + Held(p)' = stock[p] + Held(p) /\ Surplus(p)' = Surplus(p)
    BY <1>0, <1>1, <1>4, CancelBalances
  <2> QED
    BY <2>1 DEF Ledger
<1>5. ASSUME NEW o \in Order, NEW s \in OrderStatuses \ {"CANCELLED"}, SetStatus(o, s), Placed(o),
             UNCHANGED stock
      PROVE  Ledger(p)'
  <2>1. Held(p) \in Nat /\ Qty[o][p] \in Nat /\ Surplus(p) \in Nat
    BY <1>0, <1>1, <1>5, StatusBalances
  <2>2. PICK n \in {0, Qty[o][p]} : Held(p)' = Held(p) + n /\ Surplus(p)' = Surplus(p) + n
    BY <1>0, <1>1, <1>5, StatusBalances
  <2>3. n \in Nat
    BY <2>1
  <2> QED
    BY <1>0, <1>5, <2>1, <2>2, <2>3 DEF Ledger
<1>6. ASSUME NEW o \in Order, Approves(o) PROVE Ledger(p)'
  <2>1. Placed(o)
    BY <1>0, <1>6, NoneAssumption DEF Approves, BornTogether, Open, PaymentStatuses
  <2> QED
    BY <1>5, <1>6, <2>1 DEF Approves, OrderStatuses
<1> QED
  BY <1>2, <1>3, <1>4, <1>5, <1>6 DEF OrderStep, Withdraws, Decides

\* Until an admin sets a status, every order stays as payments decide it.
LEMMA UntouchedKept ==
    ASSUME IInv, OrderStep, TrailTellsStatus, changes' = 0, changes = 0,
           \A o \in Order : Untouched(o), NEW q \in Order
    PROVE  Untouched(q)'
<1>0. DatabaseType /\ BornTogether(q)
  BY DEF IInv, TypeOK
<1>1. CASE OrdersStay
  BY <1>1 DEF OrdersStay, Untouched, Agree, Open, Revivals
<1>2. ASSUME NEW o \in Order, o # q, payment'[q].status = payment[q].status,
             UNCHANGED <<order, trail>> \/ \E s \in OrderStatuses : SetStatus(o, s)
      PROVE  Untouched(q)'
  <2>1. order'[q] = order[q] /\ Revivals(q)' = Revivals(q)
    BY <1>0, <1>2, StatusWrites DEF Revivals
  <2> QED
    BY <1>2, <2>1 DEF Untouched, Agree
<1>3. CASE Place(q)
  <2>1. order'[q] = "PENDING" /\ Revivals(q)' = Revivals(q) + 0 /\ Revivals(q) \in Nat
    BY <1>0, <1>3, StatusWrites, RevivalsMove, StatusNotNone
       DEF Place, Placed, OrderStatuses, Revives
  <2>2. payment'[q].status = "PENDING"
    BY <1>0, <1>3 DEF Place, DatabaseType, NoPayment
  <2> QED
    BY <2>1, <2>2 DEF Untouched, Agree, UntouchedStatuses
<1>4. CASE Approves(q)
  <2>1. order[q] # "CANCELLED"
    BY <1>4 DEF Untouched, Agree, Approves, Open
  <2>2. order'[q] = "PROCESSING" /\ Revivals(q)' = Revivals(q) + 0 /\ Revivals(q) \in Nat
    BY <1>0, <1>4, <2>1, StatusWrites, RevivalsMove DEF Approves, OrderStatuses, Revives
  <2> QED
    BY <1>4, <2>2 DEF Approves, Untouched, Agree, UntouchedStatuses
<1>5. CASE Withdraws(q)
  <2>1. order[q] \in {"PENDING", "PROCESSING"}
    BY <1>0, <1>5, NoneAssumption
       DEF Untouched, Agree, UntouchedStatuses, Withdraws, Open, BornTogether, Placed, PaymentStatuses
  <2>2. order'[q] = "CANCELLED"
    BY <1>5, <2>1, WithdrawalCancels
  <2>3. SetStatus(q, "CANCELLED")
    BY <1>5, <2>1, CancelCases DEF Withdraws, Cancellable
  <2>4. Revivals(q)' = Revivals(q) + 0 /\ Revivals(q) \in Nat
    BY <1>0, <2>3, RevivalsMove DEF OrderStatuses, Revives
  <2> QED
    BY <1>5, <2>2, <2>4 DEF Withdraws, Untouched, Agree, UntouchedStatuses
<1>6. ASSUME NEW o \in Order, Decides(o) PROVE FALSE
  BY <1>6 DEF Decides
<1>7. ASSUME NEW o \in Order, o # q, Place(o) \/ Withdraws(o) \/ Approves(o) PROVE Untouched(q)'
  <2>1. payment'[q].status = payment[q].status
    BY <1>0, <1>7 DEF Place, Withdraws, Approves, OtherPayments, DatabaseType
  <2> QED
    BY <1>0, <1>2, <1>7, <2>1, OrderWrites
<1> QED
  BY <1>1, <1>3, <1>4, <1>5, <1>6, <1>7 DEF OrderStep

\* Both halves together.
LEMMA LedgerKept ==
    ASSUME IInv, OrderStep, TrailTellsStatus, IsFiniteSet(PlacedOrders), LedgerInv
    PROVE  LedgerInv'
<1>1. \A p \in Product : Ledger(p)'
  BY BalanceKept DEF LedgerInv
<1>2. changes' = 0 => changes = 0
  BY DEF IInv, TypeOK, LocalType, OrderStep, OrdersStay, Place, Withdraws, Approves, Decides, bounds
<1>3. changes' = 0 => \A o \in Order : Untouched(o)'
  BY <1>2, UntouchedKept DEF LedgerInv
<1> QED
  BY <1>1, <1>3 DEF LedgerInv

-----------------------------------------------------------------------------
(* Receipts.                                                               *)

\* The receipts announced for an order.
ReceiptsOf(o) == emitted[o]["payment.receipt_uploaded"]

\* OneReceiptPerLink and NoneBeforeReceipt, of one order.
Receipts(o) ==
    /\ ReceiptsOf(o) = uploads[o] + Cardinality(Used(o))
    /\ payment[o].status \in {None, "PENDING"} => ReceiptsOf(o) = 0

\* The receipts of an order a step leaves alone.
ReceiptsStay(o) ==
    /\ ReceiptsOf(o)' = ReceiptsOf(o) /\ uploads'[o] = uploads[o] /\ Used(o)' = Used(o)
    /\ payment'[o].status \in {None, "PENDING"} => payment[o].status \in {None, "PENDING"}

\* The one receipt a step adds.
ReceiptArrives(o) ==
    /\ ReceiptsOf(o)' = ReceiptsOf(o) + 1
    /\ payment'[o].status = "WAITING_VERIFICATION"
    /\ \/ uploads'[o] = uploads[o] + 1 /\ Used(o)' = Used(o)
       \/ uploads'[o] = uploads[o] /\ \E l \in Links \ Used(o) : Used(o)' = Used(o) \cup {l}

\* An order has three links, so finitely many are used.
LEMMA UsedIsFinite == \A o : IsFiniteSet(Used(o)) /\ Cardinality(Used(o)) \in Nat
<1>1. IsFiniteSet(Links)
  <2>1. Links = {"checkout", "first"} \cup {"second"}
    BY DEF Links, Stages
  <2>2. {"checkout", "first"} = {"checkout"} \cup {"first"}
    OBVIOUS
  <2>3. IsFiniteSet({"checkout", "first"})
    <3>1. IsFiniteSet({"checkout"})
      BY FS_Singleton
    <3> QED
      BY <2>2, <3>1, FS_AddElement
  <2> QED
    BY <2>1, <2>3, FS_AddElement
<1>2. \A o : Used(o) \subseteq Links
  BY DEF Used
<1> QED
  BY <1>1, <1>2, FS_Subset, FS_CardinalityType

\* Each receipt is counted once.
LEMMA ReceiptsKept ==
    ASSUME TypeOK, NEW o \in Order, Receipts(o), ReceiptsStay(o) \/ ReceiptArrives(o)
    PROVE  Receipts(o)'
<1>0. uploads[o] \in Nat /\ ReceiptsOf(o) \in Nat /\ Cardinality(Used(o)) \in Nat
  BY UsedIsFinite DEF TypeOK, DatabaseType, LocalType, ReceiptsOf, Events
<1>1. CASE ReceiptsStay(o)
  BY <1>1 DEF ReceiptsStay, Receipts
<1>2. CASE ReceiptArrives(o)
  <2>1. payment'[o].status \notin {None, "PENDING"}
    BY <1>2, NoneAssumption DEF ReceiptArrives, PaymentStatuses
  <2>2. CASE uploads'[o] = uploads[o] + 1 /\ Used(o)' = Used(o)
    BY <1>0, <1>2, <2>1, <2>2 DEF ReceiptArrives, Receipts
  <2>3. ASSUME NEW l \in Links \ Used(o), Used(o)' = Used(o) \cup {l}, uploads'[o] = uploads[o]
        PROVE  Receipts(o)'
    <3>1. Cardinality(Used(o)') = Cardinality(Used(o)) + 1
      BY <2>3, UsedIsFinite, FS_AddElement
    <3> QED
      BY <1>0, <1>2, <2>1, <2>3, <3>1 DEF ReceiptArrives, Receipts
  <2> QED
    BY <1>2, <2>2, <2>3 DEF ReceiptArrives
<1> QED
  BY <1>1, <1>2

\* What the writes of a transaction do to receipts.
LEMMA EmitKeepsReceipts ==
    ASSUME DatabaseType, NEW o \in Order, NEW e \in Events, Emit(o, e)
    PROVE  \A q \in Order : ReceiptsOf(q)' =
                IF q = o /\ e = "payment.receipt_uploaded" THEN ReceiptsOf(q) + 1 ELSE ReceiptsOf(q)
  BY DEF DatabaseType, Emit, ReceiptsOf, Events

\* Every step leaves an order's receipts alone or adds one.
LEMMA ReceiptStep ==
    ASSUME IInv, [Next]_vars, NEW q \in Order, Receipts(q)
    PROVE  ReceiptsStay(q) \/ ReceiptArrives(q)
<1>0. DatabaseType /\ LocalType /\ \A o \in Order : BornTogether(o) /\ InTurn(o)
  BY DEF IInv, TypeOK, RemindersInTurn
<1> DEFINE Goal == ReceiptsStay(q) \/ ReceiptArrives(q)
<1>1. ASSUME UNCHANGED <<link, uploads, payment>>, UNCHANGED emitted
                 \/ \E o \in Order : Emit(o, "order.status_updated")
      PROVE  Goal
  <2>1. ReceiptsOf(q)' = ReceiptsOf(q)
    BY <1>0, <1>1, EmitKeepsReceipts DEF ReceiptsOf, Events
  <2> QED
    BY <1>1, <2>1 DEF ReceiptsStay, Used
<1>2. ASSUME NEW o \in Order, ApplyReceipt(o), o # q, UNCHANGED link
                 \/ \E l \in Links : link' = [link EXCEPT ![o][l].state = "used"],
             uploads'[q] = uploads[q]
      PROVE  Goal
  <2>1. ReceiptsOf(q)' = ReceiptsOf(q)
    BY <1>0, <1>2, EmitKeepsReceipts DEF ApplyReceipt, Events
  <2>2. payment'[q].status = payment[q].status
    BY <1>0, <1>2, PaymentStatusWrites DEF ApplyReceipt, PaymentStatuses, OtherPayments
  <2>3. link'[q] = link[q]
    BY <1>0, <1>2 DEF DatabaseType
  <2> QED
    BY <1>2, <2>1, <2>2, <2>3 DEF ReceiptsStay, Used
<1>3. ASSUME ApplyReceipt(q)
      PROVE  ReceiptsOf(q)' = ReceiptsOf(q) + 1 /\ payment'[q].status = "WAITING_VERIFICATION"
  BY <1>0, <1>3, EmitKeepsReceipts, PaymentStatusWrites DEF ApplyReceipt, PaymentStatuses, Events
<1>4. ASSUME NEW o \in Order, Upload(o) PROVE Goal
  <2>1. CASE o = q
    <3>1. uploads'[q] = uploads[q] + 1 /\ Used(q)' = Used(q)
      BY <1>0, <1>4, <2>1 DEF Upload, Used, LocalType
    <3> QED
      BY <1>3, <1>4, <2>1, <3>1 DEF Upload, ReceiptArrives
  <2>2. CASE o # q
    <3>1. uploads'[q] = uploads[q]
      BY <1>0, <1>4, <2>2 DEF Upload, LocalType
    <3> QED
      BY <1>2, <1>4, <2>2, <3>1 DEF Upload
  <2> QED
    BY <2>1, <2>2
<1>5. ASSUME NEW o \in Order, NEW l \in Links, UploadByLink(o, l) PROVE Goal
  <2>1. CASE o = q
    <3>1. l \notin Used(q)
      BY <1>5, <2>1 DEF UploadByLink, Consumable, Used
    <3>2. link'[q][l].state = "used" /\ \A m \in Links \ {l} : link'[q][m] = link[q][m]
      BY <1>0, <1>5, <2>1 DEF UploadByLink, DatabaseType, LinkType
    <3>3. Used(q)' = Used(q) \cup {l}
      BY <3>2 DEF Used
    <3> QED
      BY <1>3, <1>5, <2>1, <3>1, <3>3 DEF UploadByLink, ReceiptArrives
  <2>2. CASE o # q
    BY <1>2, <1>5, <2>2 DEF UploadByLink
  <2> QED
    BY <2>1, <2>2
<1>6. ASSUME NEW o \in Order, Place(o) PROVE Goal
  <2>1. ReceiptsOf(q)' = ReceiptsOf(q) /\ uploads' = uploads
    BY <1>0, <1>6, EmitKeepsReceipts DEF Place, Events, bounds
  <2>2. CASE o = q
    <3>1. payment[q].status = None
      BY <1>0, <1>6, <2>2 DEF Place, BornTogether
    <3>2. Cardinality(Used(q)) = 0
      <4>1. uploads[q] \in Nat /\ uploads[q] + Cardinality(Used(q)) = 0
        BY <1>0, <3>1 DEF Receipts, LocalType
      <4> QED
        BY <4>1, UsedIsFinite
    <3>3. Used(q) = {}
      BY <3>2, UsedIsFinite, FS_EmptySet
    <3>4. \A l \in Links : link'[q][l].state \in {"active", link[q][l].state}
      BY <1>0, <1>6, <2>2 DEF Place, NewLink, DatabaseType, Links
    <3>5. Used(q)' = {}
      BY <3>3, <3>4 DEF Used
    <3> QED
      BY <2>1, <3>1, <3>3, <3>5 DEF ReceiptsStay
  <2>3. CASE o # q
    <3>1. link'[q] = link[q] /\ payment'[q] = payment[q]
      BY <1>0, <1>6, <2>3 DEF Place, DatabaseType
    <3> QED
      BY <2>1, <3>1 DEF ReceiptsStay, Used
  <2> QED
    BY <2>2, <2>3
<1>7. ASSUME NEW o \in Order, NEW s \in {"PAID", "FAILED", "EXPIRED"}, SetPayment(o, s),
             NEW e \in Events \ {"payment.receipt_uploaded"}, Emit(o, e), UNCHANGED <<link, uploads>>
      PROVE  Goal
  <2>1. ReceiptsOf(q)' = ReceiptsOf(q)
    BY <1>0, <1>7, EmitKeepsReceipts
  <2>2. payment'[q].status \in {s, payment[q].status}
    BY <1>0, <1>7, PaymentStatusWrites DEF PaymentStatuses, OtherPayments
  <2>3. s \notin {None, "PENDING"}
    BY NoneAssumption DEF PaymentStatuses
  <2> QED
    BY <1>7, <2>1, <2>2, <2>3 DEF ReceiptsStay, Used
<1>8. ASSUME NEW a \in Admin, Verify(a) \/ Reject(a) PROVE Goal
  <2>0. PICK o \in Order : o = call[a].order
    BY <1>0, <1>8 DEF Verify, Reject, LocalType
  <2> QED
    BY <1>7, <1>8, <2>0 DEF Verify, Reject, Events, bounds
<1>9. ASSUME NEW o \in Order, Expire(o), UNCHANGED bounds PROVE Goal
  BY <1>7, <1>9 DEF Expire, Events, bounds
<1>10. ASSUME NEW o \in Order, NEW stage \in Stages, Remind(o, stage), UNCHANGED bounds PROVE Goal
  <2>1. ReceiptsOf(q)' = ReceiptsOf(q)
    BY <1>0, <1>10, EmitKeepsReceipts DEF Remind, ReminderEvent, Events, Stages
  <2>2. payment'[q].status = payment[q].status
    BY <1>0, <1>10 DEF Remind, DatabaseType, PaymentType, Stages
  <2>3. link[o][stage].state = "none"
    <3>1. payment[o][stage] = "null" /\ InTurn(o)
      BY <1>0, <1>10 DEF Remind, Remindable
    <3> QED
      BY <3>1 DEF InTurn, Stages
  <2>4. \A l \in Links : \/ link'[q][l] = link[q][l]
                         \/ link'[q][l].state = "active" /\ link[q][l].state = "none"
    BY <1>0, <1>10, <2>3 DEF Remind, NewLink, DatabaseType
  <2>5. Used(q)' = Used(q)
    BY <2>4 DEF Used
  <2> QED
    BY <1>10, <2>1, <2>2, <2>5 DEF ReceiptsStay, bounds
<1> HIDE DEF Goal
<1>11. ASSUME Customer PROVE Goal
  BY <1>4, <1>5, <1>6, <1>11 DEF Customer
<1>12. ASSUME Desk PROVE Goal
  BY <1>1, <1>12 DEF Desk, Cancel, UpdateStatus
<1>13. ASSUME NEW a \in Admin, Back(a) PROVE Goal
  BY <1>1, <1>8, <1>13 DEF Back, ReadPayment, LoseRace, DropCall, database, bounds
<1>14. ASSUME NEW w \in Worker, RunTick(w) PROVE Goal
  BY <1>1, <1>9, <1>10, <1>14 DEF RunTick, FindExpirable, FindFirst, FindSecond, EndTick,
     ExpireNext, RemindNext, database, bounds
<1>15. ASSUME NEW w \in Worker, Disrupt(w) PROVE Goal
  BY <1>1, <1>15 DEF Disrupt, AbortTick, SkipFailed, database
<1>16. ASSUME Tick \/ UNCHANGED vars PROVE Goal
  BY <1>1, <1>16 DEF Tick, vars, database, bounds
<1>17. Goal
  BY <1>11, <1>12, <1>13, <1>14, <1>15, <1>16 DEF Next
<1> QED
  BY <1>17 DEF Goal

-----------------------------------------------------------------------------
(* The invariant of orders, stock and receipts.                            *)

\* OrdersInv, by its parts for one order or product.
LEMMA OrdersParts ==
    OrdersInv <=> /\ IsFiniteSet(PlacedOrders)
                  /\ LedgerInv
                  /\ TrailTellsStatus
                  /\ \A o \in Order : Receipts(o)
  BY DEF OrdersInv, PlacedOrders, LedgerInv, Ledger, Agree, Untouched, UntouchedStatuses,
     StockLedger, PaymentsDecide, OneReceiptPerLink, NoneBeforeReceipt, Receipts, ReceiptsOf

\* No order, no stock held.
LEMMA OrdersInit == Init => OrdersInv
<1> SUFFICES ASSUME Init PROVE OrdersInv
  OBVIOUS
<1>1. PlacedOrders = {} /\ Standing = {}
  BY DEF Init, PlacedOrders, Standing, Placed
<1>2. \A p \in Product : Held(p) = 0 /\ Surplus(p) = 0
  BY <1>1, FS_EmptySet, SumStep DEF Held, Surplus, PlacedOrders
<1>3. LedgerInv
  <2>1. \A p \in Product : Ledger(p)
    BY <1>2, ItemAssumption DEF Init, Ledger
  <2>2. \A o \in Order : Revivals(o) = 0
    <3>1. ASSUME NEW o \in Order PROVE Revivals(o) = Cardinality({})
      <4>1. Len(trail[o]) = 0
        BY DEF Init
      <4> QED
        BY <4>1 DEF Revivals
    <3> QED
      BY <3>1, FS_EmptySet
  <2>3. \A o \in Order : Agree(o) /\ order[o] \in UntouchedStatuses
    BY NoneAssumption DEF Init, Agree, UntouchedStatuses, NoPayment, PaymentStatuses, OrderStatuses
  <2> QED
    BY <2>1, <2>2, <2>3 DEF LedgerInv, Untouched
<1>4. TrailTellsStatus
  BY DEF Init, TrailTellsStatus, Placed
<1>5. \A o \in Order : Used(o) = {}
  BY DEF Init, Used, NoLink
<1>6. \A o \in Order : Receipts(o)
  <2>1. \A o \in Order : ReceiptsOf(o) = 0 /\ uploads[o] = 0
    BY DEF Init, ReceiptsOf, Events
  <2>2. \A o \in Order : Cardinality(Used(o)) = 0
    BY <1>5, FS_EmptySet
  <2> QED
    BY <2>1, <2>2 DEF Receipts
<1> QED
  BY <1>1, <1>3, <1>4, <1>6, FS_EmptySet, OrdersParts

\* Each part is kept by the kind of step that could break it.
LEMMA OrdersStep == IInv /\ OrdersInv /\ [Next]_vars => OrdersInv'
<1> SUFFICES ASSUME IInv, OrdersInv, [Next]_vars PROVE OrdersInv'
  OBVIOUS
<1>0. TypeOK /\ DatabaseType
  BY DEF IInv, TypeOK
<1>1. OrderStep
  BY EveryOrderStep
<1>2. IsFiniteSet(PlacedOrders) /\ LedgerInv /\ TrailTellsStatus /\ \A o \in Order : Receipts(o)
  BY OrdersParts
<1>3. IsFiniteSet(PlacedOrders')
  BY <1>0, <1>1, <1>2, FinitelyPlaced
<1>4. LedgerInv'
  BY <1>1, <1>2, LedgerKept
<1>5. TrailTellsStatus'
  BY <1>0, <1>1, <1>2, TrailsKept
<1>6. \A o \in Order : Receipts(o)'
  BY <1>0, <1>2, ReceiptStep, ReceiptsKept
<1>7. OrdersInv' <=> /\ IsFiniteSet(PlacedOrders')
                     /\ LedgerInv'
                     /\ TrailTellsStatus'
                     /\ \A o \in Order : Receipts(o)'
  BY DEF OrdersInv, PlacedOrders, LedgerInv, Ledger, Agree, Untouched, UntouchedStatuses,
     StockLedger, PaymentsDecide, OneReceiptPerLink, NoneBeforeReceipt, Receipts, ReceiptsOf
<1> QED
  BY <1>3, <1>4, <1>5, <1>6, <1>7

\* So it holds throughout.
LEMMA OrdersInvariance == Spec => []OrdersInv
<1>1. IInv /\ OrdersInv /\ [Next]_vars => OrdersInv'
  BY OrdersStep
<1> QED
  BY <1>1, OrdersInit, Invariance, PTL DEF Spec

\* Whatever statuses admins set and however settlements race, stock and what the
\* standing orders hold add up to what there was and what revived orders hold again.
THEOREM LedgerHolds == Spec => []StockLedger
<1>1. OrdersInv => StockLedger
  BY DEF OrdersInv
<1> QED
  BY <1>1, OrdersInvariance, PTL

\* However often a link is opened and reminders issue new ones, each is good for one
\* receipt, and a payment that is PENDING has none.
THEOREM LinksSpentOnce == Spec => []OneReceiptPerLink
<1>1. OrdersInv => OneReceiptPerLink
  BY DEF OrdersInv
<1> QED
  BY <1>1, OrdersInvariance, PTL

\* A payment that fails or expires takes its order with it, unless it was delivered.
THEOREM WithdrawnOrdersCancelled == Spec => WithdrawnCancels
<1> DEFINE Cancels ==
      \A o \in Order :
          payment[o].status \in Open /\ payment'[o].status \in {"FAILED", "EXPIRED"}
            => order'[o] \in {"CANCELLED", "DELIVERED", "COMPLETED"}
<1>1. ASSUME IInv, [Next]_vars PROVE Cancels
  <2> SUFFICES ASSUME NEW q \in Order, payment[q].status \in Open,
                      payment'[q].status \in {"FAILED", "EXPIRED"}
               PROVE  order'[q] \in {"CANCELLED", "DELIVERED", "COMPLETED"}
    OBVIOUS
  <2>0. DatabaseType
    BY <1>1 DEF IInv, TypeOK
  <2>1. ~OrdersStay
    BY DEF OrdersStay, Open
  <2>2. ASSUME NEW o \in Order, Place(o) \/ Approves(o) \/ Decides(o) PROVE FALSE
    <3>1. payment'[q].status \in {payment[q].status, "PENDING", "PAID"}
      BY <2>0, <2>2 DEF Place, Approves, Decides, OtherPayments, DatabaseType, NoPayment
    <3> QED
      BY <3>1 DEF Open
  <2>3. ASSUME NEW o \in Order, Withdraws(o) PROVE o = q
    BY <2>3 DEF Withdraws, OtherPayments, Open
  <2> QED
    BY <1>1, <2>1, <2>2, <2>3, EveryOrderStep, WithdrawalCancels DEF OrderStep
<1>2. IInv /\ [Next]_vars => [Cancels]_vars
  BY <1>1
<1> QED
  BY <1>2, Invariance, PTL DEF Spec, WithdrawnCancels

=============================================================================
