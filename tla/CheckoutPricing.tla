--------------------------- MODULE CheckoutPricing ---------------------------
(***************************************************************************)
(* What a checkout charges (orders.service.ts): the cart is priced from    *)
(* several reads of the catalogue and of the voucher, each an await of its *)
(* own, while administrators change prices, withdraw goods and edit        *)
(* vouchers. Module Checkout models the same handler for its idempotency,  *)
(* stock and transaction with fixed prices; here those are left out and    *)
(* the money is in.                                                        *)
(***************************************************************************)
EXTENDS Integers, FiniteSets, Functions, Sequences

CONSTANTS
    Request, User, Voucher,
    Good,          \* products and toppings, each with a price
    None,          \* null
    Form,          \* [Request -> what the customer submits], see FormType
    InitPrice,     \* [Good -> Nat]
    InitTerms,     \* [Voucher -> Terms]
    Prices,        \* prices an administrator sets
    Offers,        \* terms an administrator gives a voucher
    MaxChanges     \* bound: changes by administrators

Couriers == {"jne", "paxel"}

\* A line of the cart: a product with its toppings, and how many of it.
LineType == [goods : SUBSET Good, qty : Nat \ {0}]

FormType == [user : User, courier : Couriers, voucher : Voucher \cup {None},
             lines : Seq(LineType) \ {<<>>}]

\* A Promo row as checkout reads it. open: active and between its two dates.
Terms == [type : {"FREE_SHIPPING", "PERCENTAGE_DISCOUNT", "FIXED_DISCOUNT"},
          discountPercentage : Nat \cup {None}, discountAmount : Nat \cup {None},
          maxDiscountAmount : Nat \cup {None}, freeShippingMaxAmount : Nat \cup {None},
          minimumOrderAmount : Nat, maxUsageCount : Nat \cup {None},
          newUserOnly : {"no", "yes"}, open : {"no", "yes"}]

\* What an order charges, and on what terms.
ChargeType == [prices : [Good -> Nat], subtotal : Nat, fee : Nat, discount : Nat,
               offer : Terms \cup {None}, total : Int]

ASSUME PricingAssumption ==
    /\ InitPrice \in [Good -> Nat] /\ InitTerms \in [Voucher -> Terms]
    /\ Prices \subseteq Nat /\ Offers \subseteq Terms
    /\ IsFiniteSet(Good) /\ Form \in [Request -> FormType]
    /\ MaxChanges \in Nat /\ None \notin Voucher \cup Nat \cup ChargeType

VARIABLES
    price,    \* [Good -> Nat]
    onSale,   \* goods neither deleted nor inactive
    terms,    \* [Voucher -> Terms]
    used,     \* [Voucher -> currentUsageCount]
    usage,    \* VoucherUsage: set of [voucher, user, order]
    regulars, \* customers with a completed order
    pc,       \* [Request -> the call the request awaits, or its outcome]
    items,    \* [Request -> prices the order's items will have]
    subtotal, \* [Request -> summary.subtotal]
    offer,    \* [Request -> the voucher as the request read it, or None]
    order,    \* [Request -> what the committed order charges, or None]
    during,   \* [Request -> what prevailed at some moment of the request]
    limits,   \* [Voucher -> maxUsageCounts it has had]
    changes

shop == <<price, onSale, terms>>
vouchers == <<used, usage>>
local == <<items, subtotal, offer>>
vars == <<shop, vouchers, regulars, pc, local, order, during, limits, changes>>

-----------------------------------------------------------------------------
(* The calculations.                                                       *)

Least(a, b) == IF a <= b THEN a ELSE b
Most(a, b) == IF a >= b THEN a ELSE b
OrElse(value, default) == IF value = None THEN default ELSE value

UnitPrice(prices, line) == SumFunctionOnSet(prices, line.goods)

\* getCartPricing's subtotal.
Subtotal(prices, lines) ==
    SumFunction([i \in DOMAIN lines |-> UnitPrice(prices, lines[i]) * lines[i].qty])

TotalItems(lines) == SumFunction([i \in DOMAIN lines |-> lines[i].qty])

WeightGram(totalItems) == Most(1, totalItems) * 500

\* The providers' rates: per kilogram begun, at least a minimum.
ShippingCost(courier, weight) ==
    LET kilos == (weight + 999) \div 1000 IN
    IF courier = "jne" THEN Most(10000, kilos * 8000) ELSE Most(12000, kilos * 9000)

Fee(form) == ShippingCost(form.courier, WeightGram(TotalItems(form.lines)))

\* Mutant: a fixed discount is not capped by the subtotal.
DiscountUncapped(t, sum, fee) ==
    CASE t.type = "FREE_SHIPPING" -> Least(fee, OrElse(t.freeShippingMaxAmount, fee))
      [] t.type = "PERCENTAGE_DISCOUNT" -> (sum * OrElse(t.discountPercentage, 0)) \div 100
      [] t.type = "FIXED_DISCOUNT" -> OrElse(t.discountAmount, 0)

\* calculateVoucherDiscount.
Discount(t, sum, fee) ==
    CASE t.type = "FREE_SHIPPING" -> Least(fee, OrElse(t.freeShippingMaxAmount, fee))
      [] t.type = "PERCENTAGE_DISCOUNT" ->
            LET share == (sum * OrElse(t.discountPercentage, 0)) \div 100
            IN  Least(share, OrElse(t.maxDiscountAmount, share))
      [] t.type = "FIXED_DISCOUNT" -> Least(OrElse(t.discountAmount, 0), sum)

\* previewVoucher: the discount with no shipping.
Preview(t, sum) == Discount(t, sum, 0)

\* The configuration checks at the end of assertVoucherAvailability.
WellConfigured(t) ==
    /\ t.type = "PERCENTAGE_DISCOUNT" => OrElse(t.discountPercentage, 0) > 0
    /\ t.type = "FIXED_DISCOUNT" => OrElse(t.discountAmount, 0) > 0

-----------------------------------------------------------------------------

GoodsOf(r) == UNION {Form[r].lines[i].goods : i \in DOMAIN Form[r].lines}

VoucherOf(r) == {Form[r].voucher} \cap Voucher

Running(r) == pc[r] \notin {"new", "done", "rejected"}

Nothing == [quotes |-> {}, goods |-> {}, offers |-> {}]

TypeOK ==
    /\ price \in [Good -> Nat]
    /\ onSale \subseteq Good
    /\ terms \in [Voucher -> Terms]
    /\ used \in [Voucher -> Nat]
    /\ usage \subseteq [voucher : Voucher, user : User, order : Request]
    /\ \A a, b \in usage : a.voucher = b.voucher /\ a.user = b.user => a = b
    /\ regulars \subseteq User
    /\ pc \in [Request -> {"new", "summary", "shipping", "voucher", "customer", "tx",
                           "done", "rejected"}]
    /\ items \in [Request -> [Good -> Nat]]
    /\ subtotal \in [Request -> Nat]
    /\ offer \in [Request -> Terms \cup {None}]
    /\ order \in [Request -> ChargeType \cup {None}]
    /\ \A r \in Request : pc[r] = "done" <=> order[r] # None
    /\ changes \in Nat

Init ==
    /\ price = InitPrice
    /\ onSale = Good
    /\ terms = InitTerms
    /\ used = [v \in Voucher |-> 0]
    /\ usage = {}
    /\ regulars = {}
    /\ pc = [r \in Request |-> "new"]
    /\ items = [r \in Request |-> [g \in Good |-> 0]]
    /\ subtotal = [r \in Request |-> 0]
    /\ offer = [r \in Request |-> None]
    /\ order = [r \in Request |-> None]
    /\ during = [r \in Request |-> Nothing]
    /\ limits = [v \in Voucher |-> {InitTerms[v].maxUsageCount}]
    /\ changes = 0

Goto(r, label) == pc' = [pc EXCEPT ![r] = label]

\* The answer, after which no local survives.
Leave(r, outcome) ==
    /\ Goto(r, outcome)
    /\ items' = [items EXCEPT ![r] = [g \in Good |-> 0]]
    /\ subtotal' = [subtotal EXCEPT ![r] = 0]
    /\ offer' = [offer EXCEPT ![r] = None]

Reject(r) ==
    /\ Leave(r, "rejected")
    /\ UNCHANGED <<shop, vouchers, regulars, order, during, limits, changes>>

-----------------------------------------------------------------------------
(* runCheckout, call by call. Any call may also reject for what is not      *)
(* modelled here: no stock, no such address, a failed call.                 *)

\* Mutant: status and deletedAt are not looked at.
AnyGoods(r) == TRUE

Available(r) == GoodsOf(r) \subseteq onSale

\* getCartPricing for the items: their prices are those of this read.
Cart(r) ==
    /\ pc[r] = "new"
    /\ Available(r)
    /\ items' = [items EXCEPT ![r] = price]
    /\ during' = [during EXCEPT ![r] =
                    [quotes |-> {Subtotal(price, Form[r].lines)}, goods |-> onSale,
                     offers |-> {terms[v] : v \in VoucherOf(r)}]]
    /\ Goto(r, "summary")
    /\ UNCHANGED <<shop, vouchers, regulars, subtotal, offer, order, limits, changes>>

\* getSummary's getCartPricing: the subtotal is that of this read.
Summary(r) ==
    /\ pc[r] = "summary"
    /\ Available(r)
    /\ subtotal' = [subtotal EXCEPT ![r] = Subtotal(price, Form[r].lines)]
    /\ Goto(r, "shipping")
    /\ UNCHANGED <<shop, vouchers, regulars, items, offer, order, during, limits, changes>>

\* calculateShippingCost reads the cart a third time, for the number of items.
Shipping(r) ==
    /\ pc[r] = "shipping"
    /\ Available(r)
    /\ Goto(r, IF VoucherOf(r) = {} THEN "tx" ELSE "voucher")
    /\ UNCHANGED <<shop, vouchers, regulars, local, order, during, limits, changes>>

UnderLimit(v, limit) == limit # None => used[v] < limit

\* findVoucherByCode, and the checks on the row it read.
ReadVoucher(r, v) ==
    /\ pc[r] = "voucher" /\ v \in VoucherOf(r)
    /\ terms[v].open = "yes"
    /\ UnderLimit(v, terms[v].maxUsageCount)
    /\ subtotal[r] >= terms[v].minimumOrderAmount
    /\ offer' = [offer EXCEPT ![r] = terms[v]]
    /\ Goto(r, "customer")
    /\ UNCHANGED <<shop, vouchers, regulars, items, subtotal, order, during, limits, changes>>

UsedBy(v, u) == \E x \in usage : x.voucher = v /\ x.user = u

\* The checks on the customer's orders and earlier use.
CheckCustomer(r, v) ==
    /\ pc[r] = "customer" /\ v \in VoucherOf(r)
    /\ offer[r].newUserOnly = "yes" => Form[r].user \notin regulars
    /\ ~UsedBy(v, Form[r].user)
    /\ WellConfigured(offer[r])
    /\ Goto(r, "tx")
    /\ UNCHANGED <<shop, vouchers, regulars, local, order, during, limits, changes>>

Charged(r) ==
    LET discount == IF offer[r] = None THEN 0
                    ELSE Discount(offer[r], subtotal[r], Fee(Form[r])) IN
    [prices |-> items[r], subtotal |-> subtotal[r], fee |-> Fee(Form[r]),
     discount |-> discount, offer |-> offer[r],
     total |-> subtotal[r] + Fee(Form[r]) - discount]

\* Mutant: the count is incremented unconditionally.
MayUseAnyCount(r, v) == ~UsedBy(v, Form[r].user)

\* The conditional increment against the limit the request read, and the unique index.
MayUse(r, v) == UnderLimit(v, offer[r].maxUsageCount) /\ ~UsedBy(v, Form[r].user)

\* The order transaction.
Commit(r) ==
    /\ pc[r] = "tx"
    /\ \A v \in VoucherOf(r) : MayUse(r, v)
    /\ used' = [v \in Voucher |-> IF v \in VoucherOf(r) THEN used[v] + 1 ELSE used[v]]
    /\ usage' = usage \cup {[voucher |-> v, user |-> Form[r].user, order |-> r] :
                              v \in VoucherOf(r)}
    /\ order' = [order EXCEPT ![r] = Charged(r)]
    /\ Leave(r, "done")
    /\ UNCHANGED <<shop, regulars, during, limits, changes>>

-----------------------------------------------------------------------------
(* Administrators, and customers' orders that complete.                    *)

Change == changes < MaxChanges /\ changes' = changes + 1

\* What now prevails was seen by every request under way.
Prevails ==
    during' = [r \in Request |->
        IF Running(r)
        THEN [quotes |-> during[r].quotes \cup {Subtotal(price', Form[r].lines)},
              goods |-> during[r].goods \cup onSale',
              offers |-> during[r].offers \cup {terms'[v] : v \in VoucherOf(r)}]
        ELSE during[r]]

\* updateProduct, deleteProduct.
UpdateProduct(g) ==
    /\ Change
    /\ \/ \E p \in Prices : price' = [price EXCEPT ![g] = p] /\ UNCHANGED onSale
       \/ onSale' = onSale \ {g} /\ UNCHANGED price
       \/ onSale' = onSale \cup {g} /\ UNCHANGED price
    /\ UNCHANGED terms
    /\ Prevails
    /\ UNCHANGED <<vouchers, regulars, pc, local, order, limits>>

\* updatePromo: any subset of the columns is overwritten, but for the count.
UpdatePromo(v) ==
    /\ Change
    /\ \E t \in Offers : terms' = [terms EXCEPT ![v] = t]
    /\ UNCHANGED <<price, onSale>>
    /\ Prevails
    /\ limits' = [limits EXCEPT ![v] = @ \cup {terms'[v].maxUsageCount}]
    /\ UNCHANGED <<vouchers, regulars, pc, local, order>>

OrderCompletes(u) ==
    /\ u \notin regulars
    /\ regulars' = regulars \cup {u}
    /\ UNCHANGED <<shop, vouchers, pc, local, order, during, limits, changes>>

-----------------------------------------------------------------------------

CheckoutStep(r) ==
    \/ Cart(r) \/ Summary(r) \/ Shipping(r)
    \/ \E v \in Voucher : ReadVoucher(r, v) \/ CheckCustomer(r, v)
    \/ Commit(r)
    \/ (pc[r] = "new" \/ Running(r)) /\ Reject(r)

Next ==
    \/ \E r \in Request : CheckoutStep(r)
    \/ \E g \in Good : UpdateProduct(g)
    \/ \E v \in Voucher : UpdatePromo(v)
    \/ \E u \in User : OrderCompletes(u)

Spec == Init /\ [][Next]_vars

-----------------------------------------------------------------------------
(* Properties.                                                             *)

Ordered == {r \in Request : order[r] # None}

\* A discount takes at most what it is a discount on, so no order has a negative total,
\* unless the voucher was given more than a hundred per cent (the DTO's Max(100) is not
\* applied to an update that does not name the voucher's type).
ChargedWithinBounds ==
    \A r \in {s \in Ordered : order[s].offer # None} :
        LET o == order[r] IN
        \/ /\ 0 <= o.discount /\ o.total >= 0
           /\ o.discount <= IF o.offer.type = "FREE_SHIPPING" THEN o.fee ELSE o.subtotal
        \/ o.offer.type = "PERCENTAGE_DISCOUNT" /\ o.offer.discountPercentage > 100

\* The goods were on sale, the subtotal was right and the voucher was on offer at some
\* moment of the request: nothing older than the request is charged.
BoughtAsOffered ==
    \A r \in Ordered :
        /\ GoodsOf(r) \subseteq during[r].goods
        /\ order[r].subtotal \in during[r].quotes
        /\ order[r].offer \in during[r].offers \cup {None}

\* A voucher is never used more often than the highest limit it has had, although
\* the limit checked is the one the request read.
LimitKept ==
    \A v \in Voucher : None \in limits[v] \/ \E n \in limits[v] : used[v] <= n

-----------------------------------------------------------------------------
(* Why they hold: the inductive invariant.                                 *)

\* A request has its voucher from one read on to the end, and its order when it is done.
LocalsInOrder ==
    \A r \in Request :
        /\ pc[r] \in {"new", "summary", "shipping", "voucher"} => offer[r] = None
        /\ pc[r] \in {"customer", "tx"} /\ VoucherOf(r) # {} => offer[r] \in Terms
        /\ order[r] # None => pc[r] = "done"

\* A limit that a request may have read is one that the voucher has had.
LimitsKnown ==
    \A v \in Voucher :
        /\ terms[v].maxUsageCount \in limits[v]
        /\ \A r \in Request :
              pc[r] \in {"customer", "tx"} /\ v \in VoucherOf(r) =>
                 offer[r].maxUsageCount \in limits[v]

\* What a request under way has read prevailed at some moment since it began.
ReadDuring ==
    \A r \in Request :
        Running(r) =>
            /\ GoodsOf(r) \subseteq during[r].goods
            /\ Subtotal(price, Form[r].lines) \in during[r].quotes
            /\ pc[r] # "summary" => subtotal[r] \in during[r].quotes
            /\ \A v \in VoucherOf(r) : terms[v] \in during[r].offers
            /\ offer[r] \in during[r].offers \cup {None}
=============================================================================
