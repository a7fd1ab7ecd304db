------------------------------ MODULE Checkout ------------------------------
(***************************************************************************)
(* POST /checkout/order with an Idempotency-Key, as OrdersService.checkout *)
(* and IdempotencyService run it: every request is a process, and every    *)
(* awaited database call (or interactive transaction, which the database   *)
(* makes atomic) is one step, so any two requests, a crash of the server,  *)
(* the passing of time and the retention sweep interleave between steps.   *)
(*                                                                         *)
(* A client submits one form, and submits it again with the same key while *)
(* it has no definite answer (409 "in progress", a 5xx, a lost connection).*)
(* Two elements of Request with the same key are a double submission.      *)
(***************************************************************************)
EXTENDS Integers, Sequences, FiniteSets, SequencesExt

CONSTANTS
    Request,        \* the clients' submissions, each a process of the server
    Key,            \* (userId, idempotencyKey) pairs, the table's unique index
    User, Product, Voucher,
    None,           \* null: no key, no voucher, no owner, no answer
    Form,           \* [Request -> what the client submits], see FormType
    InitStock,      \* [Product -> Nat]
    UsageLimit,     \* [Voucher -> Nat]: promo.maxUsageCount
    MaxFaults,      \* bound: crashes, failed calls, overruns of reclaimMs
    MaxRows         \* bound: reservations ever created (a sweep frees a key)

Methods == {"COD", "BANK_TRANSFER", "QRIS", "GATEWAY"}

\* MAX_ORDER_NUMBER_ATTEMPTS
MaxAttempts == 3

FormType == [key : Key \cup {None}, user : User, qty : [Product -> Nat],
             voucher : Voucher \cup {None}, method : Methods]

ASSUME FormAssumption ==
    /\ Form \in [Request -> FormType]
    /\ \A r, s \in Request : Form[r].key = Form[s].key /\ Form[r].key # None
                                => Form[r].user = Form[s].user
ASSUME TableAssumption == /\ InitStock \in [Product -> Nat]
                          /\ UsageLimit \in [Voucher -> Nat]
ASSUME BoundAssumption == MaxFaults \in Nat /\ MaxRows \in Nat
ASSUME NoneAssumption == None \notin Request \cup Key \cup Voucher

VARIABLES
    rows,     \* [Key -> IdempotencyKey row]: the row of the key, or Absent
    nextId,   \* the id the next created row gets
    orders,   \* committed orders, in commit order; an order's id is its index
    stock,    \* [Product -> Nat]
    used,     \* [Voucher -> Nat]: promo.currentUsageCount
    usage,    \* VoucherUsage: set of [voucher, user, order]
    tokens,   \* orders whose payment was issued an upload token
    outbox,   \* order.created rows: sequence of [order, url], url the
              \* order whose upload token the event carries, 0 if none
    pc,       \* [Request -> the call the request awaits]
    second,   \* [Request -> BOOLEAN]: begin() is past its single re-read
    seen,     \* [Request -> the row begin() read and is about to claim]
    own,      \* [Request -> (record id, fence token) the request holds]
    attempt,  \* [Request -> order number attempts made]
    answer,   \* [Request -> the response, pending while pc is not "done"]
    faults    \* faults so far, at most MaxFaults

database == <<rows, nextId, orders, stock, used, usage, tokens, outbox>>
local == <<second, seen, own, attempt>>
vars == <<database, pc, local, answer, faults>>

-----------------------------------------------------------------------------
(* Rows, answers and locals.                                               *)

Statuses == {"ABSENT", "PROCESSING", "COMPLETED", "FAILED"}

\* Mutant: the items are left out of the fingerprint.
PrintNoItems(form) == [user |-> form.user, qty |-> None, voucher |-> form.voucher]

\* What computeFingerprint hashes, the canonical projection of a form: the user,
\* the items and the voucher code. payment_method is not part of it.
PrintOf(form) == [user |-> form.user, qty |-> form.qty, voucher |-> form.voucher]

Fingerprint(r) == PrintOf(Form[r])

Prints == {Fingerprint(r) : r \in Request} \cup {None}

\* An IdempotencyKey row. age: stale when ownershipAcquiredAt is older than reclaimMs;
\* the instant is set when the row is created and at every claim. order: resourceId of the stored response.
Row == [id : Nat, status : Statuses, fence : Nat, owner : Request \cup {None},
        print : Prints,
        age : {"fresh", "stale"}, order : Nat]

Absent == [id |-> 0, status |-> "ABSENT", fence |-> 0, owner |-> None,
           print |-> None, age |-> "fresh", order |-> 0]

\* What the four writes to a row leave there.
Reserved(r) ==
    [id |-> nextId, status |-> "PROCESSING", fence |-> 1, owner |-> r,
     print |-> Fingerprint(r), age |-> "fresh", order |-> 0]
Claimed(row, r) ==
    [id |-> row.id, status |-> "PROCESSING", fence |-> row.fence + 1, owner |-> r,
     print |-> Fingerprint(r), age |-> "fresh", order |-> 0]
Finalized(row, o) ==
    [id |-> row.id, status |-> "COMPLETED", fence |-> row.fence, owner |-> row.owner,
     print |-> row.print, age |-> row.age, order |-> o]
Failed(row) == [row EXCEPT !.status = "FAILED"]

NoOwn == [id |-> 0, fence |-> 0]
NoSeen == [id |-> 0, fence |-> 0, status |-> "ABSENT"]

NoAnswer == [kind |-> "none", order |-> 0]
Conflict == [kind |-> "conflict", order |-> 0]   \* 409 with Retry-After
Mismatch == [kind |-> "mismatch", order |-> 0]   \* 422
Rejected == [kind |-> "rejected", order |-> 0]   \* 400
Failure  == [kind |-> "failure", order |-> 0]    \* 5xx, or no response
Fresh(o)    == [kind |-> "fresh", order |-> o]   \* 201
Replay(o)   == [kind |-> "replay", order |-> o]  \* 201, Idempotent-Replayed

\* The key's row, read by (userId, idempotencyKey).
RowOf(r) == rows[Form[r].key]

Keyed(r) == Form[r].key # None

Fault == faults < MaxFaults /\ faults' = faults + 1

-----------------------------------------------------------------------------
(* Leaving the service: the response, after which no local survives.       *)

Respond(r, a) ==
    /\ pc' = [pc EXCEPT ![r] = "done"]
    /\ answer' = [answer EXCEPT ![r] = a]
    /\ second' = [second EXCEPT ![r] = FALSE]
    /\ seen' = [seen EXCEPT ![r] = NoSeen]
    /\ own' = [own EXCEPT ![r] = NoOwn]
    /\ attempt' = [attempt EXCEPT ![r] = 1]

\* begin() resolved to 'proceed' with the row (id, fence): the order is tried.
Proceed(r, o) ==
    /\ pc' = [pc EXCEPT ![r] = "cart"]
    /\ own' = [own EXCEPT ![r] = o]
    /\ second' = [second EXCEPT ![r] = FALSE]
    /\ seen' = [seen EXCEPT ![r] = NoSeen]
    /\ UNCHANGED <<attempt, answer>>

Goto(r, label) ==
    pc' = [pc EXCEPT ![r] = label]

\* An error thrown inside checkout()'s try block: with a reservation it is
\* answered once markFailed has run, without one it is answered at once.
Throw(r, a) ==
    IF Keyed(r)
    THEN /\ Goto(r, "markFailed")
         /\ answer' = [answer EXCEPT ![r] = a]
         /\ UNCHANGED local
    ELSE Respond(r, a)

-----------------------------------------------------------------------------
(* IdempotencyService.begin.                                               *)

\* Mutant: a stuck reservation is never handed over.
NeverReclaimable(row) == FALSE

\* isReclaimable: the ownership of a PROCESSING row is older than reclaimMs.
Reclaimable(row) == row.age = "stale"

\* handleExisting on the row just read: answered from it, refused, or claimed.
HandleExisting(r) ==
    LET row == RowOf(r) IN
    \/ /\ row.print # Fingerprint(r)
       /\ Respond(r, Mismatch)
    \/ /\ row.print = Fingerprint(r)
       /\ row.status = "COMPLETED"
       /\ Respond(r, Replay(row.order))
    \/ /\ row.print = Fingerprint(r)
       /\ row.status = "FAILED" \/ (row.status = "PROCESSING" /\ Reclaimable(row))
       /\ Goto(r, "claim")
       /\ seen' = [seen EXCEPT ![r] =
                     [id |-> row.id, fence |-> row.fence, status |-> row.status]]
       /\ UNCHANGED <<second, own, attempt, answer>>
    \/ /\ row.print = Fingerprint(r)
       /\ row.status = "PROCESSING" /\ ~Reclaimable(row)
       /\ Respond(r, Conflict)

\* begin()'s first read of the key.
Find(r) ==
    /\ pc[r] = "find"
    /\ \/ /\ RowOf(r) = Absent
          /\ Goto(r, "create")
          /\ UNCHANGED <<local, answer>>
       \/ RowOf(r) # Absent /\ HandleExisting(r)
    /\ UNCHANGED <<database, faults>>

\* begin() falls through to its single re-read.
ToReread(r) ==
    /\ Goto(r, "reread")
    /\ second' = [second EXCEPT ![r] = TRUE]
    /\ seen' = [seen EXCEPT ![r] = NoSeen]
    /\ UNCHANGED <<own, attempt, answer>>

\* The insert that reserves the key; the unique index lets one through (P2002
\* sends the others to the re-read).
Create(r) ==
    /\ pc[r] = "create"
    /\ \/ /\ RowOf(r) = Absent
          /\ rows' = [rows EXCEPT ![Form[r].key] = Reserved(r)]
          /\ nextId' = nextId + 1
          /\ Proceed(r, [id |-> nextId, fence |-> 1])
       \/ /\ RowOf(r) # Absent
          /\ ToReread(r)
          /\ UNCHANGED <<rows, nextId>>
    /\ UNCHANGED <<orders, stock, used, usage, tokens, outbox, faults>>

\* The single re-read that resolves a lost insert or a lost claim.
Reread(r) ==
    /\ pc[r] = "reread"
    /\ \/ RowOf(r) = Absent /\ Respond(r, Conflict)
       \/ RowOf(r) # Absent /\ HandleExisting(r)
    /\ UNCHANGED <<database, faults>>

\* claim() returned null: one re-read, and after that re-read a 409.
ClaimLost(r) ==
    IF second[r] THEN Respond(r, Conflict) ELSE ToReread(r)

\* The where clause of claim()'s update.
Claimable(r) ==
    LET row == RowOf(r) IN
    /\ row.id = seen[r].id
    /\ row.fence = seen[r].fence
    /\ row.status = seen[r].status
    /\ row.status = "PROCESSING" => Reclaimable(row)

\* claim()'s conditional update: the next fence token, a new owner.
Claim(r) ==
    /\ pc[r] = "claim"
    /\ \/ /\ Claimable(r)
          /\ rows' = [rows EXCEPT ![Form[r].key] = Claimed(@, r)]
          /\ Goto(r, "claimRead")
          /\ UNCHANGED <<local, answer>>
       \/ /\ ~Claimable(r)
          /\ ClaimLost(r)
          /\ UNCHANGED rows
    /\ UNCHANGED <<nextId, orders, stock, used, usage, tokens, outbox, faults>>

\* claim()'s read of the claimed row by id, a call of its own: the fence token
\* the request goes on with is the one it reads here.
ClaimRead(r) ==
    /\ pc[r] = "claimRead"
    /\ \/ /\ RowOf(r).id = seen[r].id
          /\ Proceed(r, [id |-> RowOf(r).id, fence |-> RowOf(r).fence])
       \/ RowOf(r).id # seen[r].id /\ ClaimLost(r)
    /\ UNCHANGED <<database, faults>>

-----------------------------------------------------------------------------
(* runCheckout: the reads, then the order transaction.                     *)

\* Mutant: the stock checks ask for some stock only.
SomeStock(r) == \A p \in Product : Form[r].qty[p] > 0 => stock[p] > 0

InStock(r) == \A p \in Product : Form[r].qty[p] <= stock[p]

\* Mutant: the voucher's limit is checked, the user's earlier use is not.
VoucherUnderLimit(r) ==
    \A v \in {Form[r].voucher} \cap Voucher : used[v] < UsageLimit[v]

VoucherOpen(r) ==
    \A v \in {Form[r].voucher} \cap Voucher :
        /\ used[v] < UsageLimit[v]
        /\ ~\E u \in usage : u.voucher = v /\ u.user = Form[r].user

\* getCartPricing and assertStock on the products just read.
Cart(r) ==
    /\ pc[r] = "cart"
    /\ \/ InStock(r) /\ Goto(r, "summary") /\ UNCHANGED <<local, answer>>
       \/ ~InStock(r) /\ Throw(r, Rejected)
    /\ UNCHANGED <<database, faults>>

\* getSummary: the cart again, then the voucher's checks.
Summary(r) ==
    /\ pc[r] = "summary"
    /\ \/ InStock(r) /\ VoucherOpen(r) /\ Goto(r, "tx") /\ UNCHANGED <<local, answer>>
       \/ ~(InStock(r) /\ VoucherOpen(r)) /\ Throw(r, Rejected)
    /\ UNCHANGED <<database, faults>>

\* Mutant: finalize is not fenced, it writes to the record whoever owns it now.
StillExists(r) == Keyed(r) => RowOf(r).id = own[r].id

\* The where clause of finalize's update (true without a reservation).
StillOwns(r) ==
    Keyed(r) => /\ RowOf(r).id = own[r].id
                /\ RowOf(r).fence = own[r].fence
                /\ RowOf(r).status = "PROCESSING"

\* The writes of the order transaction, committed together: the stock, the order
\* (with payment, shipment and event), the voucher's use, the finalized key, the
\* upload token of a non-COD payment, and the order.created outbox row.
Commit(r) ==
    LET form == Form[r]
        id == Len(orders) + 1
        voucher == {form.voucher} \cap Voucher
        receipt == form.method \in {"BANK_TRANSFER", "QRIS"}
    IN
    /\ stock' = [p \in Product |-> stock[p] - form.qty[p]]
    /\ orders' = Append(orders, [rid |-> own[r].id, fence |-> own[r].fence, form |-> form])
    /\ used' = [v \in Voucher |-> IF v \in voucher THEN used[v] + 1 ELSE used[v]]
    /\ usage' = usage \cup {[voucher |-> v, user |-> form.user, order |-> id] : v \in voucher}
    /\ rows' = IF Keyed(r)
               THEN [rows EXCEPT ![form.key] = Finalized(@, id)]
               ELSE rows
    /\ tokens' = IF receipt THEN tokens \cup {id} ELSE tokens
    /\ outbox' = Append(outbox, [order |-> id, url |-> IF receipt THEN id ELSE 0])
    /\ UNCHANGED nextId

\* The conditional stock decrement fails for some product: 400.
TxOutOfStock(r) ==
    /\ pc[r] = "tx"
    /\ ~InStock(r)
    /\ Throw(r, Rejected)
    /\ UNCHANGED <<database, faults>>

\* The generated order number is taken: the transaction is retried with another
\* one, and the last attempt's conflict is thrown.
TxNumberTaken(r) ==
    /\ pc[r] = "tx"
    /\ InStock(r)
    /\ Fault
    /\ IF attempt[r] < MaxAttempts
       THEN /\ attempt' = [attempt EXCEPT ![r] = @ + 1]
            /\ UNCHANGED <<pc, second, seen, own, answer>>
       ELSE Throw(r, Failure)
    /\ UNCHANGED database

\* The voucher ran out, or the user used it, since getSummary read it: the
\* conditional update finds no record, or the unique index refuses: 5xx.
TxVoucherGone(r) ==
    /\ pc[r] = "tx"
    /\ InStock(r)
    /\ ~VoucherOpen(r)
    /\ Throw(r, Failure)
    /\ UNCHANGED <<database, faults>>

\* finalize finds another owner: SupersededError rolls the transaction back.
TxSuperseded(r) ==
    /\ pc[r] = "tx"
    /\ InStock(r)
    /\ VoucherOpen(r)
    /\ ~StillOwns(r)
    /\ Goto(r, "resolve")
    /\ UNCHANGED <<database, local, answer, faults>>

TxCommit(r) ==
    /\ pc[r] = "tx"
    /\ InStock(r)
    /\ VoucherOpen(r)
    /\ StillOwns(r)
    /\ Commit(r)
    /\ Respond(r, Fresh(Len(orders) + 1))
    /\ UNCHANGED faults

\* The transaction commits and its call fails all the same: checkout() catches
\* an error although the order exists.
TxCommitLost(r) ==
    /\ pc[r] = "tx"
    /\ InStock(r)
    /\ VoucherOpen(r)
    /\ StillOwns(r)
    /\ Fault
    /\ Commit(r)
    /\ Throw(r, Failure)

\* Any other failure of a call of runCheckout: nothing is written.
TxFailure(r) ==
    /\ pc[r] \in {"cart", "summary", "tx"}
    /\ Fault
    /\ Throw(r, Failure)
    /\ UNCHANGED database

-----------------------------------------------------------------------------
(* checkout()'s catch block.                                               *)

\* The where clause of markFailed's update.
MayFail(r) ==
    /\ RowOf(r).id = own[r].id
    /\ RowOf(r).fence = own[r].fence
    /\ RowOf(r).status = "PROCESSING"

MarkFailed(r) ==
    /\ pc[r] = "markFailed"
    /\ rows' = IF MayFail(r)
               THEN [rows EXCEPT ![Form[r].key] = Failed(@)]
               ELSE rows
    /\ Respond(r, answer[r])
    /\ UNCHANGED <<nextId, orders, stock, used, usage, tokens, outbox, faults>>

\* markFailed's update fails: it is logged and the error is answered.
MarkFailedLost(r) ==
    /\ pc[r] = "markFailed"
    /\ Fault
    /\ Respond(r, answer[r])
    /\ UNCHANGED database

\* resolveAfterSupersession: the winner's response, or a 409.
Resolve(r) ==
    /\ pc[r] = "resolve"
    /\ Respond(r, IF RowOf(r).status = "COMPLETED" THEN Replay(RowOf(r).order) ELSE Conflict)
    /\ UNCHANGED <<database, faults>>

-----------------------------------------------------------------------------
(* The client, time, crashes and retention.                                *)

Entry(r) == IF Keyed(r) THEN "find" ELSE "cart"

\* The client submits its form again, with the same key.
Retry(r) ==
    /\ pc[r] = "done"
    /\ answer[r].kind \in {"conflict", "failure"}
    /\ pc' = [pc EXCEPT ![r] = Entry(r)]
    /\ answer' = [answer EXCEPT ![r] = NoAnswer]
    /\ UNCHANGED <<database, local, faults>>

\* The server dies under the request, or a call outside the try block fails:
\* the client sees no answer, and nothing more runs on its behalf.
Crash(r) ==
    /\ pc[r] # "done"
    /\ Fault
    /\ Respond(r, Failure)
    /\ UNCHANGED database

\* The request that owns the key's row is still running.
OwnerRuns(k) ==
    \E r \in Request : /\ pc[r] \in {"claimRead", "cart", "summary", "tx", "markFailed", "resolve"}
                       /\ rows[k].owner = r \/ (own[r].id = rows[k].id /\ rows[k].id # 0)

\* reclaimMs pass since the row's ownership was acquired. That a running owner
\* takes so long counts as a fault; that a dead one's row ages does not.
Age(k) ==
    /\ rows[k].status = "PROCESSING"
    /\ rows[k].age = "fresh"
    /\ rows' = [rows EXCEPT ![k].age = "stale"]
    /\ IF OwnerRuns(k) THEN Fault ELSE UNCHANGED faults
    /\ UNCHANGED <<nextId, orders, stock, used, usage, tokens, outbox, pc, local, answer>>

\* The retention worker deletes an expired row, whatever its status. Retention
\* (48 h) outlasts every request that acquired the row.
Sweep(k) ==
    /\ rows[k] # Absent
    /\ ~OwnerRuns(k)
    /\ nextId <= MaxRows
    /\ rows' = [rows EXCEPT ![k] = Absent]
    /\ UNCHANGED <<nextId, orders, stock, used, usage, tokens, outbox, pc, local, answer, faults>>

\* Every client has its definite answer.
Settled ==
    /\ \A r \in Request : pc[r] = "done" /\ answer[r].kind \notin {"conflict", "failure"}
    /\ UNCHANGED vars

-----------------------------------------------------------------------------

Init ==
    /\ rows = [k \in Key |-> Absent]
    /\ nextId = 1
    /\ orders = <<>>
    /\ stock = InitStock
    /\ used = [v \in Voucher |-> 0]
    /\ usage = {}
    /\ tokens = {}
    /\ outbox = <<>>
    /\ pc = [r \in Request |-> Entry(r)]
    /\ second = [r \in Request |-> FALSE]
    /\ seen = [r \in Request |-> NoSeen]
    /\ own = [r \in Request |-> NoOwn]
    /\ attempt = [r \in Request |-> 1]
    /\ answer = [r \in Request |-> NoAnswer]
    /\ faults = 0

\* What the server does next for a request, if nothing goes wrong.
Serve(r) ==
    \/ Find(r) \/ Create(r) \/ Reread(r) \/ Claim(r) \/ ClaimRead(r)
    \/ Cart(r) \/ Summary(r)
    \/ TxOutOfStock(r) \/ TxVoucherGone(r) \/ TxSuperseded(r) \/ TxCommit(r)
    \/ MarkFailed(r) \/ Resolve(r)

Next ==
    \/ \E r \in Request :
          \/ Serve(r) \/ Retry(r) \/ Crash(r)
          \/ TxNumberTaken(r) \/ TxCommitLost(r) \/ TxFailure(r) \/ MarkFailedLost(r)
    \/ \E k \in Key : Age(k) \/ Sweep(k)
    \/ Settled

Spec == Init /\ [][Next]_vars

\* The server keeps serving, a client keeps retrying, and time passes.
Fairness ==
    /\ \A r \in Request : WF_vars(Serve(r)) /\ WF_vars(Retry(r))
    /\ \A k \in Key : WF_vars(Age(k))

FairSpec == Spec /\ Fairness

-----------------------------------------------------------------------------
(* What checkout promises.                                                 *)

OrderType == [rid : Nat, fence : Nat, form : FormType]
UsageType == [voucher : Voucher, user : User, order : Nat]
EventType == [order : Nat, url : Nat]
OwnType == [id : Nat, fence : Nat]
SeenType == [id : Nat, fence : Nat, status : Statuses]
AnswerType == [kind : {"none", "conflict", "mismatch", "rejected", "failure",
                       "fresh", "replay"}, order : Nat]
Labels == {"find", "create", "reread", "claim", "claimRead", "cart", "summary", "tx",
           "markFailed", "resolve", "done"}

DatabaseType ==
    /\ rows \in [Key -> Row]
    /\ nextId \in Nat \ {0}
    /\ orders \in Seq(OrderType)
    /\ stock \in [Product -> Nat]
    /\ used \in [Voucher -> Nat]
    /\ usage \subseteq UsageType
    /\ tokens \subseteq Nat
    /\ outbox \in Seq(EventType)

LocalType ==
    /\ pc \in [Request -> Labels]
    /\ second \in [Request -> BOOLEAN]
    /\ seen \in [Request -> SeenType]
    /\ own \in [Request -> OwnType]
    /\ attempt \in [Request -> 1..MaxAttempts]
    /\ answer \in [Request -> AnswerType]

\* Every variable stays within the range the schema and the code give it; the
\* stock of a product, above all, is never driven below zero.
TypeOK == DatabaseType /\ LocalType /\ faults \in 0..MaxFaults

\* However requests with one key interleave, crash, time out and are reclaimed, a
\* reservation of the key yields at most one committed order.
AtMostOneOrderPerReservation ==
    \A i, j \in DOMAIN orders :
        orders[i].rid = orders[j].rid /\ orders[i].rid # 0 => i = j

\* The reservation and the order commit together: a key reads COMPLETED exactly
\* when the order it names was committed under it, and no other row says so.
CompletedIffOrdered ==
    \A k \in Key : rows[k] # Absent =>
        /\ rows[k].status = "COMPLETED"
               => rows[k].order \in DOMAIN orders /\ orders[rows[k].order].rid = rows[k].id
        /\ rows[k].status # "COMPLETED"
               => \A i \in DOMAIN orders : orders[i].rid # rows[k].id

\* A client that is shown an order, fresh or replayed, is shown one placed under
\* its own key by a request for the same user, items and voucher.
AnswersOwnOrder ==
    \A r \in Request : answer[r].kind \in {"fresh", "replay"} =>
        /\ answer[r].order \in DOMAIN orders
        /\ LET form == orders[answer[r].order].form IN
             form.key = Form[r].key /\ form.user = Form[r].user
             /\ form.qty = Form[r].qty /\ form.voucher = Form[r].voucher

\* No product is oversold, and the stock that left is the stock that was ordered:
\* the reads of Cart and Summary are stale by the time of the transaction.
StockConserved ==
    \A p \in Product :
        /\ stock[p] >= 0
        /\ stock[p] + SumFunction([i \in DOMAIN orders |-> orders[i].form.qty[p]])
               = InitStock[p]

\* Concurrent checkouts never take a voucher past its limit or let a user use it
\* twice, and its counter, its usage rows and the orders that carry it agree.
VoucherRules ==
    \A v \in Voucher :
        LET with == {i \in DOMAIN orders : orders[i].form.voucher = v} IN
        /\ used[v] <= UsageLimit[v]
        /\ used[v] = Cardinality(with)
        /\ with = {u.order : u \in {w \in usage : w.voucher = v}}
        /\ \A i, j \in with : orders[i].form.user = orders[j].form.user => i = j

\* A completed key keeps its order and its stored response until retention removes
\* the row: no late claim, finalize or markFailed of another request reopens it.
CompletedKeyIsFinal ==
    [][\A k \in Key : rows[k].status = "COMPLETED" => rows'[k] \in {rows[k], Absent}]_vars

\* A client that keeps retrying gets a definite answer, whatever crashed while it
\* held the key: an abandoned reservation is reclaimed, a failed one reopened.
EveryClientAnswered ==
    \A r \in Request :
        <>[](pc[r] = "done" /\ answer[r].kind \notin {"conflict", "failure"})

\* idempotency.service.ts:149-153 of markFailed: a superseded caller cannot clobber
\* the new owner's in-flight reservation; so a reservation fails only while its
\* owner is the one that reports a failure.
FailedOnlyByOwner ==
    [][\A k \in Key :
          rows[k].status = "PROCESSING" /\ rows'[k].status = "FAILED"
              => pc[rows[k].owner] = "markFailed"]_vars

-----------------------------------------------------------------------------
(* Why it does: the inductive invariant behind AtMostOneOrderPerReservation*)
(* and the refinement below.                                               *)

Trying == {"cart", "summary", "tx", "markFailed", "resolve"}

\* Without a key there is no reservation to read, claim, fail or resolve.
UnkeyedHasNoReservation ==
    \A r \in Request : ~Keyed(r) =>
        /\ pc[r] \in {"cart", "summary", "tx", "done"}
        /\ own[r] = NoOwn

\* A row id is given out once.
RowIdsUnique ==
    /\ \A k \in Key : \/ rows[k] = Absent
                      \/ rows[k].id \in 1..(nextId - 1) /\ rows[k].status # "ABSENT"
    /\ \A k, l \in Key : rows[k].id = rows[l].id => k = l \/ rows[k].id = 0
    /\ \A i \in DOMAIN orders : orders[i].rid < nextId

\* An order of a live row is the one order that the COMPLETED row names.
NamesItsOrder(k) ==
    /\ \A i \in DOMAIN orders :
          rows[k].id # 0 /\ orders[i].rid = rows[k].id
              => rows[k].status = "COMPLETED" /\ rows[k].order = i
    /\ rows[k].status = "COMPLETED" =>
          /\ rows[k].order \in DOMAIN orders
          /\ orders[rows[k].order].rid = rows[k].id
          /\ orders[rows[k].order].form.key = k
          /\ rows[k].print = PrintOf(orders[rows[k].order].form)

RowNamesItsOrder == \A k \in Key : NamesItsOrder(k)

\* A request that tries its order holds the key's row, whoever owns it by now, and
\* the row is about the request's form; one about to claim saw a claimable status.
KnowsRow(r) ==
    /\ Keyed(r) /\ pc[r] \in Trying =>
          own[r].id # 0 /\ RowOf(r).id = own[r].id /\ RowOf(r).print = Fingerprint(r)
    /\ pc[r] \in {"claim", "claimRead"} =>
          /\ seen[r].id \in 1..(nextId - 1) /\ seen[r].status \in {"FAILED", "PROCESSING"}
          /\ RowOf(r).id = seen[r].id => RowOf(r).print = Fingerprint(r)

HolderKnowsRow == \A r \in Request : KnowsRow(r)

IInv ==
    /\ TypeOK
    /\ UnkeyedHasNoReservation
    /\ RowIdsUnique
    /\ RowNamesItsOrder
    /\ HolderKnowsRow
    /\ AtMostOneOrderPerReservation

\* A usage row is of the user and the voucher of the order it names.
UsageNamesItsOrder ==
    \A u \in usage : /\ u.order \in DOMAIN orders
                     /\ orders[u.order].form.user = u.user
                     /\ orders[u.order].form.voucher = u.voucher

\* The transaction's conditional writes keep the shop's books balanced.
BooksBalance == StockConserved /\ VoucherRules /\ UsageNamesItsOrder

Shown == {"fresh", "replay"}

\* A client is shown an order only in the answer that ends its submissions.
ShownAtTheEnd ==
    \A r \in Request : IF answer[r].kind \in Shown THEN pc[r] = "done"
                                                  ELSE answer[r].order = 0

-----------------------------------------------------------------------------
(* Checkout implements CheckoutService.                                    *)

Service == INSTANCE CheckoutService WITH
    placed <- [i \in DOMAIN orders |-> orders[i].form],
    remembered <- [k \in Key |-> IF rows[k].status = "COMPLETED" THEN rows[k].order ELSE 0],
    shelf <- stock,
    answered <- [r \in Request |-> answer[r].order]

\* Reservations, fences, claims and crashes amount to the abstract service: a key
\* remembers one order at a time, and only that order is shown for it.
ImplementsService == Service!Spec

=============================================================================
