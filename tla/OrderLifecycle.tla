--------------------------- MODULE OrderLifecycle ---------------------------
(***************************************************************************)
(* An order and its payment from checkout to settlement. Four kinds of     *)
(* actors work on them at once: the customer (receipts, by session or by a *)
(* token link), admins (verify or reject the payment, set the order's      *)
(* status), the payment lifecycle workers of the service's processes       *)
(* (expiry and reminders, in batches read earlier), and time.              *)
(*                                                                         *)
(* An interactive transaction is one step. What an actor read before its   *)
(* transaction (an admin's look at the payment, a worker's batch) is local *)
(* state, and may be stale when the transaction runs.                      *)
(***************************************************************************)
EXTENDS Integers, Sequences, FiniteSets, Functions

CONSTANTS
    Order, Product, Admin, Worker,
    None,
    Method,          \* [Order -> payment method]
    Qty,             \* [Order -> [Product -> Nat]]: the order's items
    InitStock,       \* [Product -> Nat]
    FirstReminderAfter, SecondReminderAfter, ExpiryAfter,
    GatewayExpiryAfter, TokenTTL,   \* payment windows; a gateway window of 0 is never
    BatchSize,
    StatusChoices,   \* the statuses admins set orders to
    LastPlace,       \* bound: no order is placed later than this
    MaxTime,         \* bound: time stops here
    MaxChanges,      \* bound: status changes by admins
    MaxUploads,      \* bound: receipts uploaded by session, per order
    MaxFaults        \* bound: worker crashes and failed transactions

OrderStatuses == {"PENDING", "PROCESSING", "PACKING", "SHIPPED", "DELIVERING",
                  "DELIVERED", "COMPLETED", "CANCELLED"}
Methods == {"COD", "BANK_TRANSFER", "QRIS", "GATEWAY"}
PaymentStatuses == {"PENDING", "WAITING_VERIFICATION", "PAID", "FAILED", "EXPIRED", "REFUNDED"}

\* The payments with a receipt step: their links are e-mailed, they are reminded.
ReceiptMethods == {"BANK_TRANSFER", "QRIS"}

Terminal == {"PAID", "FAILED", "EXPIRED", "REFUNDED"}

Stages == {"first", "second"}
Links == {"checkout"} \cup Stages

\* Outbox rows by event name; a reminder by its stage as well.
Events == {"order.created", "order.status_updated", "payment.receipt_uploaded",
           "payment.paid", "payment.failed", "payment.expired",
           "payment.reminder.first", "payment.reminder.second"}

ReminderEvent == [first |-> "payment.reminder.first", second |-> "payment.reminder.second"]

ASSUME ItemAssumption == /\ Method \in [Order -> Methods]
                         /\ Qty \in [Order -> [Product -> Nat]]
                         /\ InitStock \in [Product -> Nat]
\* loadPaymentLifecycleConfig and the validation of the environment
ASSUME WindowAssumption ==
    /\ FirstReminderAfter \in Nat /\ SecondReminderAfter \in Nat /\ ExpiryAfter \in Nat
    /\ 0 < FirstReminderAfter
    /\ FirstReminderAfter < SecondReminderAfter
    /\ SecondReminderAfter < ExpiryAfter
    /\ GatewayExpiryAfter \in Nat
    /\ TokenTTL \in Nat \ {0}
    /\ BatchSize \in Nat \ {0}
ASSUME ChoiceAssumption == StatusChoices \subseteq OrderStatuses
ASSUME BoundAssumption == /\ LastPlace \in Nat /\ MaxTime \in Nat /\ MaxChanges \in Nat
                          /\ MaxUploads \in Nat /\ MaxFaults \in Nat
ASSUME NoneAssumption == None \notin Order \cup OrderStatuses \cup PaymentStatuses

VARIABLES
    now,
    order,     \* [Order -> status, or None before checkout]
    trail,     \* [Order -> its OrderEvents, as the sequence of their statuses]
    payment,   \* [Order -> its payment's status, creation time, reminder stamps]
    link,      \* [Order -> [Links -> PaymentUploadToken]]
    stock,     \* [Product -> Nat]
    emitted,   \* [Order -> [Events -> number of outbox rows]]
    call,      \* [Admin -> a verify or reject call: its step, or its answer]
    worker,    \* [Worker -> the tick it runs]
    uploads,   \* [Order -> receipts uploaded by session]
    changes, faults

database == <<order, trail, payment, link, stock, emitted>>
bounds == <<uploads, changes, faults>>
vars == <<now, database, call, worker, bounds>>

Placed(o) == order[o] # None

-----------------------------------------------------------------------------
(* The tables.                                                             *)

PaymentType == [status : PaymentStatuses \cup {None}, createdAt : Nat,
                first : {"null", "set"}, second : {"null", "set"}]
LinkType == [state : {"none", "active", "used"}, expiresAt : Nat]

NoPayment == [status |-> None, createdAt |-> 0, first |-> "null", second |-> "null"]
NoLink == [state |-> "none", expiresAt |-> 0]

\* issue: a token row, in the caller's transaction
NewLink == [state |-> "active", expiresAt |-> now + TokenTTL]

Emit(o, event) == emitted' = [emitted EXCEPT ![o][event] = @ + 1]

SetPayment(o, status) == payment' = [payment EXCEPT ![o].status = status]

\* order.update with its nested OrderEvent
SetStatus(o, status) ==
    /\ order' = [order EXCEPT ![o] = status]
    /\ trail' = [trail EXCEPT ![o] = Append(@, status)]

\* Mutant: only new orders can be cancelled.
OnlyPending == {"PENDING"}

\* Mutant: an order that is cancelled already is cancelled again.
CancellableAgain == {"PENDING", "PROCESSING", "PACKING", "SHIPPED", "DELIVERING", "CANCELLED"}

\* cancelAndRestock's whitelist; DELIVERED and COMPLETED are left alone
Cancellable == {"PENDING", "PROCESSING", "PACKING", "SHIPPED", "DELIVERING"}

Restock(o) == stock' = [p \in Product |-> stock[p] + Qty[o][p]]

\* The flip, the restock and the OrderEvent, which is a statement of its own here.
CancelAndRestock(o) ==
    \/ /\ order[o] \in Cancellable
       /\ order' = [order EXCEPT ![o] = "CANCELLED"]
       /\ Restock(o)
       /\ trail' = [trail EXCEPT ![o] = Append(@, "CANCELLED")]
    \/ /\ order[o] \notin Cancellable
       /\ UNCHANGED <<order, trail, stock>>

-----------------------------------------------------------------------------
(* Checkout and the customer.                                              *)

InStock(o) == \A p \in Product : Qty[o][p] <= stock[p]

\* The transaction that creates the order, its payment and its upload token.
Place(o) ==
    /\ ~Placed(o)
    /\ now <= LastPlace
    /\ InStock(o)
    /\ SetStatus(o, "PENDING")
    /\ payment' = [payment EXCEPT ![o] = [NoPayment EXCEPT !.status = "PENDING", !.createdAt = now]]
    /\ stock' = [p \in Product |-> stock[p] - Qty[o][p]]
    /\ \/ Method[o] \in ReceiptMethods /\ link' = [link EXCEPT ![o]["checkout"] = NewLink]
       \/ Method[o] \notin ReceiptMethods /\ UNCHANGED link
    /\ Emit(o, "order.created")
    /\ UNCHANGED <<now, call, worker, bounds>>

\* UPLOADABLE_STATUSES, and the worker's ELIGIBLE_STATUSES
Open == {"PENDING", "WAITING_VERIFICATION"}

\* applyReceiptInTx: a payment that is not open fails it, and the transaction
ApplyReceipt(o) ==
    /\ payment[o].status \in Open
    /\ SetPayment(o, "WAITING_VERIFICATION")
    /\ Emit(o, "payment.receipt_uploaded")
    /\ UNCHANGED <<now, order, trail, stock, call, worker, changes, faults>>

\* uploadManualReceipt, for a payment of the caller's
Upload(o) ==
    /\ uploads[o] < MaxUploads
    /\ ApplyReceipt(o)
    /\ uploads' = [uploads EXCEPT ![o] = @ + 1]
    /\ UNCHANGED link

\* Mutant: a used token is consumed again.
ConsumableAgain(token) == token.state # "none" /\ token.expiresAt > now

Consumable(token) == token.state = "active" /\ token.expiresAt > now

\* submitReceiptByToken: the token is spent and the receipt applied, or neither
UploadByLink(o, l) ==
    /\ Consumable(link[o][l])
    /\ link' = [link EXCEPT ![o][l].state = "used"]
    /\ ApplyReceipt(o)
    /\ UNCHANGED uploads

-----------------------------------------------------------------------------
(* Admins. A verify or reject call reads the payment and answers at once   *)
(* if its status is terminal; otherwise it goes on to its transaction.     *)

CallType == [step : {"idle", "tx", "ok", "conflict"}, op : {"verify", "reject"},
             order : Order \cup {None}]

Target == [verify |-> "PAID", reject |-> "FAILED"]

\* Mutant: every terminal status is taken for a replay.
ReplayAnyTerminal(status, op) ==
    IF status \in Terminal THEN "ok" ELSE "tx"

\* What the call does upon reading the status.
ReadOutcome(status, op) ==
    CASE status = Target[op] -> "ok"
      [] status \in Terminal \ {Target[op]} -> "conflict"
      [] OTHER -> "tx"

ReadPayment(a, op, o) ==
    /\ call[a].step # "tx"
    /\ Placed(o)
    /\ call' = [call EXCEPT ![a] =
                  [step |-> ReadOutcome(payment[o].status, op), op |-> op, order |-> o]]
    /\ UNCHANGED <<now, database, worker, bounds>>

\* Mutant: the transaction relies on the status that was read before it.
SettleAnyStatus(o) == Placed(o)

\* The compare-and-swap's condition.
Unsettled(o) == payment[o].status \notin Terminal

\* The transaction finds the payment settled since it was read: it rolls back.
LoseRace(a) ==
    /\ call[a].step = "tx"
    /\ ~Unsettled(call[a].order)
    /\ call' = [call EXCEPT ![a].step = "conflict"]
    /\ UNCHANGED <<now, database, worker, bounds>>

Verify(a) ==
    LET o == call[a].order IN
    /\ call[a].step = "tx" /\ call[a].op = "verify"
    /\ Unsettled(o)
    /\ SetPayment(o, "PAID")
    /\ SetStatus(o, "PROCESSING")
    /\ Emit(o, "payment.paid")
    /\ call' = [call EXCEPT ![a].step = "ok"]
    /\ UNCHANGED <<now, link, stock, worker, bounds>>

Reject(a) ==
    LET o == call[a].order IN
    /\ call[a].step = "tx" /\ call[a].op = "reject"
    /\ Unsettled(o)
    /\ SetPayment(o, "FAILED")
    /\ CancelAndRestock(o)
    /\ Emit(o, "payment.failed")
    /\ call' = [call EXCEPT ![a].step = "ok"]
    /\ UNCHANGED <<now, link, worker, bounds>>

\* The server dies between the read and the transaction, or the transaction fails.
DropCall(a) ==
    /\ call[a].step = "tx"
    /\ call' = [call EXCEPT ![a].step = "idle"]
    /\ UNCHANGED <<now, database, worker, bounds>>

\* updateOrderStatus(CANCELLED), which does nothing to an order not cancellable
Cancel(o) ==
    /\ "CANCELLED" \in StatusChoices
    /\ changes < MaxChanges
    /\ order[o] \in Cancellable
    /\ CancelAndRestock(o)
    /\ Emit(o, "order.status_updated")
    /\ changes' = changes + 1
    /\ UNCHANGED <<now, payment, link, call, worker, uploads, faults>>

\* updateOrderStatus to any other status, whatever the order's status is
UpdateStatus(o, status) ==
    /\ Placed(o)
    /\ changes < MaxChanges
    /\ SetStatus(o, status)
    /\ Emit(o, "order.status_updated")
    /\ changes' = changes + 1
    /\ UNCHANGED <<now, payment, link, stock, call, worker, uploads, faults>>

-----------------------------------------------------------------------------
(* The payment lifecycle worker: a tick expires a batch of payments, then  *)
(* sends a batch of first and a batch of second reminders. A batch is read *)
(* in one query and worked off oldest first, a transaction per payment.    *)

TickType == [phase : {"idle", "expire", "first", "second"}, batch : SUBSET Order, asOf : Nat]

Idle == [phase |-> "idle", batch |-> {}, asOf |-> 0]

Age(o, time) == time - payment[o].createdAt

ExpiryMethods ==
    {"BANK_TRANSFER", "QRIS"} \cup (IF GatewayExpiryAfter > 0 THEN {"GATEWAY"} ELSE {})

\* The window of the coarse filter, which the exact one follows.
MinWindow ==
    IF 0 < GatewayExpiryAfter /\ GatewayExpiryAfter < ExpiryAfter
    THEN GatewayExpiryAfter ELSE ExpiryAfter

\* expiryWindowMs, of the methods that expire
Window(o) == IF Method[o] = "GATEWAY" THEN GatewayExpiryAfter ELSE ExpiryAfter

Due(o, time) == Method[o] \in ExpiryMethods /\ Age(o, time) >= Window(o)

\* Mutant: a payment whose receipt waits for an admin is not eligible.
AwaitingOnly == {"PENDING"}

\* ELIGIBLE_STATUSES
Eligible == {"PENDING", "WAITING_VERIFICATION"}

Older(o, q) == payment[o].createdAt <= payment[q].createdAt

\* orderBy createdAt, take batchSize
Batches(found) ==
    {b \in SUBSET found :
        /\ Cardinality(b) = (IF Cardinality(found) < BatchSize THEN Cardinality(found) ELSE BatchSize)
        /\ \A o \in b, q \in found \ b : Older(o, q)}

Head1st(w, o) == o \in worker[w].batch /\ \A q \in worker[w].batch : Older(o, q)

Begin(w, phase, found) ==
    \E b \in Batches(found) :
        worker' = [worker EXCEPT ![w] = [phase |-> phase, batch |-> b, asOf |-> now]]

Done(w, o) == worker' = [worker EXCEPT ![w].batch = @ \ {o}]

\* runTick, runExpiry: the batch of payments to expire
FindExpirable(w) ==
    /\ worker[w].phase = "idle"
    /\ Begin(w, "expire", {o \in Order : /\ payment[o].status \in Eligible
                                         /\ Method[o] \in ExpiryMethods
                                         /\ Age(o, now) >= MinWindow})
    /\ UNCHANGED <<now, database, call, bounds>>

\* expirePayment: the transaction
Expire(o) ==
    /\ payment[o].status \in Eligible
    /\ SetPayment(o, "EXPIRED")
    /\ CancelAndRestock(o)
    /\ Emit(o, "payment.expired")
    /\ UNCHANGED link

ExpireNext(w, o) ==
    /\ worker[w].phase = "expire" /\ Head1st(w, o)
    /\ \/ Due(o, now) /\ Expire(o)
       \/ ~(Due(o, now) /\ payment[o].status \in Eligible) /\ UNCHANGED database
    /\ Done(w, o)
    /\ UNCHANGED <<now, call, bounds>>

\* runReminders: the payments due for their first reminder
FindFirst(w) ==
    /\ worker[w].phase = "expire" /\ worker[w].batch = {}
    /\ Begin(w, "first", {o \in Order : /\ payment[o].status \in Eligible
                                        /\ Method[o] \in ReceiptMethods
                                        /\ payment[o].first = "null"
                                        /\ Age(o, now) >= FirstReminderAfter})
    /\ UNCHANGED <<now, database, call, bounds>>

\* The payments due for their second; the time is the one runReminders began at.
FindSecond(w) ==
    /\ worker[w].phase = "first" /\ worker[w].batch = {}
    /\ \E b \in Batches({o \in Order : /\ payment[o].status \in Eligible
                                       /\ Method[o] \in ReceiptMethods
                                       /\ payment[o].first = "set"
                                       /\ payment[o].second = "null"
                                       /\ Age(o, worker[w].asOf) >= SecondReminderAfter}) :
            worker' = [worker EXCEPT ![w].phase = "second", ![w].batch = b]
    /\ UNCHANGED <<now, database, call, bounds>>

\* Mutant: the reminder's slot is not claimed, the batch is trusted.
RemindAgain(o, stage) == payment[o].status \in Eligible

\* The condition of sendReminder's compare-and-swap.
Remindable(o, stage) == payment[o].status \in Eligible /\ payment[o][stage] = "null"

\* sendReminder: the slot is claimed, a fresh token is issued, the event is written
Remind(o, stage) ==
    /\ Remindable(o, stage)
    /\ payment' = [payment EXCEPT ![o][stage] = "set"]
    /\ link' = [link EXCEPT ![o][stage] = NewLink]
    /\ Emit(o, ReminderEvent[stage])
    /\ UNCHANGED <<order, trail, stock>>

RemindNext(w, o, stage) ==
    /\ worker[w].phase = stage /\ Head1st(w, o)
    /\ \/ Remind(o, stage)
       \/ ~Remindable(o, stage) /\ UNCHANGED database
    /\ Done(w, o)
    /\ UNCHANGED <<now, call, bounds>>

EndTick(w) ==
    /\ worker[w].phase = "second" /\ worker[w].batch = {}
    /\ worker' = [worker EXCEPT ![w] = Idle]
    /\ UNCHANGED <<now, database, call, bounds>>

\* One payment's transaction fails: it is logged, and left for a later tick.
SkipFailed(w, o) ==
    /\ worker[w].phase # "idle" /\ Head1st(w, o)
    /\ faults < MaxFaults
    /\ faults' = faults + 1
    /\ Done(w, o)
    /\ UNCHANGED <<now, database, call, uploads, changes>>

\* The process dies, or a query fails: the rest of the tick does not happen.
AbortTick(w) ==
    /\ worker[w].phase # "idle"
    /\ faults < MaxFaults
    /\ faults' = faults + 1
    /\ worker' = [worker EXCEPT ![w] = Idle]
    /\ UNCHANGED <<now, database, call, uploads, changes>>

Tick ==
    /\ now < MaxTime
    /\ now' = now + 1
    /\ UNCHANGED <<database, call, worker, bounds>>

-----------------------------------------------------------------------------
Init ==
    /\ now = 0
    /\ order = [o \in Order |-> None]
    /\ trail = [o \in Order |-> <<>>]
    /\ payment = [o \in Order |-> NoPayment]
    /\ link = [o \in Order |-> [l \in Links |-> NoLink]]
    /\ stock = InitStock
    /\ emitted = [o \in Order |-> [e \in Events |-> 0]]
    /\ call = [a \in Admin |-> [step |-> "idle", op |-> "verify", order |-> None]]
    /\ worker = [w \in Worker |-> Idle]
    /\ uploads = [o \in Order |-> 0]
    /\ changes = 0 /\ faults = 0

Customer == \E o \in Order : Place(o) \/ Upload(o) \/ \E l \in Links : UploadByLink(o, l)

Back(a) ==
    \/ \E op \in {"verify", "reject"}, o \in Order : ReadPayment(a, op, o)
    \/ LoseRace(a) \/ Verify(a) \/ Reject(a) \/ DropCall(a)

Desk == \E o \in Order : \/ Cancel(o)
                         \/ \E s \in StatusChoices \ {"CANCELLED"} : UpdateStatus(o, s)

RunTick(w) ==
    \/ FindExpirable(w) \/ FindFirst(w) \/ FindSecond(w) \/ EndTick(w)
    \/ \E o \in Order : \/ ExpireNext(w, o)
                        \/ \E stage \in Stages : RemindNext(w, o, stage)

Disrupt(w) == AbortTick(w) \/ \E o \in Order : SkipFailed(w, o)

Next ==
    \/ Customer \/ Desk \/ Tick
    \/ \E a \in Admin : Back(a)
    \/ \E w \in Worker : RunTick(w) \/ Disrupt(w)

Spec == Init /\ [][Next]_vars

\* The workers are scheduled again after every tick, and time passes.
Fairness == WF_vars(Tick) /\ \A w \in Worker : WF_vars(RunTick(w))

FairSpec == Spec /\ Fairness

-----------------------------------------------------------------------------
(* Properties.                                                             *)

DatabaseType ==
    /\ now \in Nat
    /\ order \in [Order -> OrderStatuses \cup {None}]
    /\ trail \in [Order -> Seq(OrderStatuses)]
    /\ payment \in [Order -> PaymentType]
    /\ link \in [Order -> [Links -> LinkType]]
    /\ stock \in [Product -> Nat]
    /\ emitted \in [Order -> [Events -> Nat]]

LocalType ==
    /\ call \in [Admin -> CallType]
    /\ \A a \in Admin : call[a].step # "idle" => call[a].order \in Order
    /\ worker \in [Worker -> TickType]
    /\ uploads \in [Order -> Nat]
    /\ changes \in Nat /\ faults \in Nat

TypeOK == DatabaseType /\ LocalType

OutcomeTold(o) ==
    /\ emitted[o]["payment.paid"] = (IF payment[o].status = "PAID" THEN 1 ELSE 0)
    /\ emitted[o]["payment.failed"] = (IF payment[o].status = "FAILED" THEN 1 ELSE 0)
    /\ emitted[o]["payment.expired"] = (IF payment[o].status = "EXPIRED" THEN 1 ELSE 0)

\* However verifying, rejecting, expiring and crashing interleave, a payment's one
\* outcome is announced by exactly one event, and no other outcome is announced.
OutcomeToldOnce == \A o \in Order : OutcomeTold(o)

\* Once a payment is settled no actor changes it: no receipt, reminder, token or
\* second outcome comes after it, from batches or calls begun before it either.
SettledIsFinal ==
    [][\A o \in Order : payment[o].status \in Terminal =>
            /\ payment'[o] = payment[o]
            /\ link'[o] = link[o]
            /\ \A e \in Events \ {"order.status_updated"} : emitted'[o][e] = emitted[o][e]]_vars

InTurn(o) ==
    /\ emitted[o]["payment.reminder.first"] = (IF payment[o].first = "set" THEN 1 ELSE 0)
    /\ emitted[o]["payment.reminder.second"] = (IF payment[o].second = "set" THEN 1 ELSE 0)
    /\ payment[o].first = "set" <=> link[o]["first"].state # "none"
    /\ payment[o].second = "set" <=> link[o]["second"].state # "none"
    /\ payment[o].second = "set" => payment[o].first = "set"
    /\ payment[o].first = "set" => Method[o] \in ReceiptMethods

\* Workers of several processes, working off batches that overlap, remind of each
\* stage at most once, of the second only after the first, each with its own link,
\* and only of payments that have a receipt step.
RemindersInTurn == \A o \in Order : InTurn(o)

Used(o) == {l \in Links : link[o][l].state = "used"}

\* A link is good for one receipt: the receipts announced are those uploaded by
\* session and one per spent link; a payment is PENDING only while it has none.
OneReceiptPerLink ==
    \A o \in Order :
        /\ emitted[o]["payment.receipt_uploaded"] = uploads[o] + Cardinality(Used(o))
        /\ payment[o].status = "PENDING" => emitted[o]["payment.receipt_uploaded"] = 0

ToldTruth(a) ==
    call[a].step = "ok" => payment[call[a].order].status = Target[call[a].op]

\* An admin told that a payment is verified (rejected) was told the truth, and it
\* stays true: the answer may come from a read, or from the transaction.
AdminToldTruth == \A a \in Admin : ToldTruth(a)

\* A payment that fails or expires takes its order with it, unless it was delivered.
WithdrawnCancels ==
    [][\A o \in Order :
          payment[o].status \in Open /\ payment'[o].status \in {"FAILED", "EXPIRED"}
            => order'[o] \in {"CANCELLED", "DELIVERED", "COMPLETED"}]_vars

\* The orders that hold stock, and how much of a product they hold.
Standing == {o \in Order : Placed(o) /\ order[o] # "CANCELLED"}

Held(p) == SumFunctionOnSet([o \in Order |-> Qty[o][p]], Standing)

\* How often an order's history leaves CANCELLED again (updateOrderStatus, verifyPayment).
Revivals(o) ==
    Cardinality({i \in 1 .. Len(trail[o]) - 1 :
                    trail[o][i] = "CANCELLED" /\ trail[o][i + 1] # "CANCELLED"})

\* A revived order holds items it gave back and did not take again.
Surplus(p) == SumFunctionOnSet([o \in Order |-> Revivals(o) * Qty[o][p]], {o \in Order : Placed(o)})

\* Every unit is accounted for by what became of the orders, whatever statuses admins
\* set and however rejections, expiries and cancellations race: what is in stock and
\* what the standing orders hold is what there was, and once more the items of an order
\* for each time it was revived. While only payments have decided orders (no admin has
\* set a status) none is revived, and those cancelled are those whose payment failed.
StockLedger ==
    /\ \A p \in Product : stock[p] + Held(p) = InitStock[p] + Surplus(p)
    /\ changes = 0 =>
          \A o \in Order :
              /\ payment[o].status \in {"FAILED", "EXPIRED"} <=> order[o] = "CANCELLED"
              /\ Revivals(o) = 0

\* A payment whose method expires does not stay open past its window: the workers
\* get to it through batches, crashes and failed transactions.
OverdueIsSettled ==
    \A o \in Order : Placed(o) /\ Method[o] \in ExpiryMethods ~> payment[o].status \in Terminal

OutcomeOf(status) ==
    IF status = None THEN "none" ELSE IF status \in Open THEN "open" ELSE status

PaymentNews == Events \ {"order.created", "order.status_updated"}

\* The customers, admins and workers of this module, racing as they do, implement
\* the contract of PaymentContract.
Contract == INSTANCE PaymentContract WITH
    outcome <- [o \in Order |-> OutcomeOf(payment[o].status)],
    told <- [o \in Order |-> [n \in PaymentNews |-> emitted[o][n]]]

ImplementsContract == Contract!Spec

-----------------------------------------------------------------------------
(* The inductive invariant of the proofs.                                  *)

\* An order and its payment appear together, without reminders.
BornTogether(o) ==
    /\ Placed(o) <=> payment[o].status # None
    /\ ~Placed(o) => payment[o].first = "null" /\ payment[o].second = "null"

\* What a call learned by its read and relies on: its payment exists.
CallSound(a) == call[a].step = "tx" => Placed(call[a].order)

\* What a worker learned by its queries and relies on, however stale its batch is.
BatchSound(w) ==
    /\ worker[w].phase \in Stages => \A o \in worker[w].batch : Method[o] \in ReceiptMethods
    /\ worker[w].phase = "second" => \A o \in worker[w].batch : payment[o].first = "set"

\* What the code's compare-and-swaps and transactions keep true between any two
\* steps: the properties above that are proved, and what makes them inductive.
IInv ==
    /\ TypeOK
    /\ \A o \in Order : BornTogether(o)
    /\ OutcomeToldOnce
    /\ RemindersInTurn
    /\ AdminToldTruth
    /\ \A a \in Admin : CallSound(a)
    /\ \A w \in Worker : BatchSound(w)

\* Until an admin sets a status, the payments decide every order's.
PaymentsDecide ==
    changes = 0 => \A o \in Order : order[o] \in {None, "PENDING", "PROCESSING", "CANCELLED"}

\* Every receipt is of an order whose payment has left PENDING.
NoneBeforeReceipt ==
    \A o \in Order :
        payment[o].status \in {None, "PENDING"} => emitted[o]["payment.receipt_uploaded"] = 0

\* The last OrderEvent is of the order's status, so a trail tells when it is revived.
TrailTellsStatus ==
    \A o \in Order :
        IF Placed(o) THEN Len(trail[o]) > 0 /\ trail[o][Len(trail[o])] = order[o]
                     ELSE trail[o] = <<>>

\* What the transactions keep true of the orders, their trails, links and stock.
OrdersInv ==
    /\ IsFiniteSet({o \in Order : Placed(o)})
    /\ StockLedger
    /\ PaymentsDecide
    /\ TrailTellsStatus
    /\ OneReceiptPerLink
    /\ NoneBeforeReceipt

-----------------------------------------------------------------------------
(* What comments in the code say, and the code does not do.                *)

\* "Cancellation restocks inventory exactly once": there is never more stock than
\* there was.
RestockedOnce == \A p \in Product : stock[p] <= InitStock[p]
=============================================================================
