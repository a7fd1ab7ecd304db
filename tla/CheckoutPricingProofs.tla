------------------------ MODULE CheckoutPricingProofs ------------------------
(***************************************************************************)
(* Proofs about CheckoutPricing for every finite catalogue, every set of  *)
(* vouchers and any number of requests and changes: its types, that no     *)
(* voucher is used beyond its limits, that nothing is charged that did not *)
(* prevail during the request, and that no discount exceeds what it is a   *)
(* discount on.                                                            *)
(***************************************************************************)
EXTENDS CheckoutPricing, SumLemmas, TLAPS

-----------------------------------------------------------------------------
(* Discounts.                                                              *)

\* A part of at most a hundred per cent, rounded down, is no more than the whole.
LEMMA Percentage ==
    ASSUME NEW sum \in Nat, NEW p \in 0 .. 100
    PROVE  (sum * p) \div 100 \in 0 .. sum
<1>1. sum * p \in Nat /\ sum * p <= sum * 100
  OBVIOUS
<1> QED
  BY <1>1

\* calculateVoucherDiscount: whatever the terms of a voucher say, short of a percentage
\* above a hundred, no discount is negative, and none exceeds what it is on: the fee, or
\* the subtotal.
THEOREM DiscountBounded ==
    ASSUME NEW t \in Terms, NEW sum \in Nat, NEW fee \in Nat,
           t.type = "PERCENTAGE_DISCOUNT" => OrElse(t.discountPercentage, 0) <= 100
    PROVE  Discount(t, sum, fee) \in 0 .. (IF t.type = "FREE_SHIPPING" THEN fee ELSE sum)
<1>1. CASE t.type = "FREE_SHIPPING"
  BY <1>1, PricingAssumption DEF Terms, Discount, Least, OrElse
<1>2. CASE t.type = "PERCENTAGE_DISCOUNT"
  <2>1. PICK p \in 0 .. 100 : p = OrElse(t.discountPercentage, 0)
    BY <1>2 DEF Terms, OrElse
  <2>2. PICK share \in 0 .. sum : share = (sum * p) \div 100
    BY Percentage
  <2>3. OrElse(t.maxDiscountAmount, share) \in Nat
    BY <2>2 DEF Terms, OrElse
  <2>4. Discount(t, sum, fee) = Least(share, OrElse(t.maxDiscountAmount, share))
    BY <1>2, <2>1, <2>2 DEF Discount
  <2> QED
    BY <1>2, <2>2, <2>3, <2>4 DEF Least
<1>3. CASE t.type = "FIXED_DISCOUNT"
  <2>1. OrElse(t.discountAmount, 0) \in Nat
    BY DEF Terms, OrElse
  <2>2. Discount(t, sum, fee) = Least(OrElse(t.discountAmount, 0), sum)
    BY <1>3 DEF Discount
  <2> QED
    BY <1>3, <2>1, <2>2 DEF Least
<1> QED
  BY <1>1, <1>2, <1>3 DEF Terms

-----------------------------------------------------------------------------
(* Types, as far as the proofs use them.                                   *)

Labels == {"new", "summary", "shipping", "voucher", "customer", "tx", "done", "rejected"}

Shape ==
    /\ terms \in [Voucher -> Terms]
    /\ used \in [Voucher -> Nat]
    /\ pc \in [Request -> Labels]
    /\ offer \in [Request -> Terms \cup {None}]
    /\ limits \in [Voucher -> SUBSET (Nat \cup {None})]
    /\ subtotal = [r \in Request |-> subtotal[r]]
    /\ order = [r \in Request |-> order[r]]
    /\ during = [r \in Request |-> during[r]]

\* The answer, or the rejection, of a request.
LEMMA Left ==
    ASSUME Shape, NEW r \in Request, NEW outcome \in {"done", "rejected"}, Leave(r, outcome)
    PROVE  /\ pc' = [pc EXCEPT ![r] = outcome]
           /\ offer' = [offer EXCEPT ![r] = None]
           /\ subtotal' = [subtotal EXCEPT ![r] = 0]
           /\ pc' \in [Request -> Labels]
           /\ offer' \in [Request -> Terms \cup {None}]
           /\ subtotal' = [q \in Request |-> subtotal'[q]]
<1>1. /\ pc' = [pc EXCEPT ![r] = outcome]
      /\ offer' = [offer EXCEPT ![r] = None]
      /\ subtotal' = [subtotal EXCEPT ![r] = 0]
  BY DEF Leave, Goto
<1> QED
  BY <1>1 DEF Shape, Labels

\* A change of the shop, which what prevails follows.
LEMMA ShopChanges ==
    ASSUME Prevails, NEW r \in Request
    PROVE  /\ during' = [q \in Request |-> during'[q]]
           /\ ~Running(r) => during'[r] = during[r]
           /\ Running(r) =>
                 /\ during'[r].goods = during[r].goods \cup onSale'
                 /\ during'[r].quotes
                       = during[r].quotes \cup {Subtotal(price', Form[r].lines)}
                 /\ during'[r].offers
                       = during[r].offers \cup {terms'[v] : v \in VoucherOf(r)}
<1>1. during' = [q \in Request |->
        IF Running(q)
        THEN [quotes |-> during[q].quotes \cup {Subtotal(price', Form[q].lines)},
              goods |-> during[q].goods \cup onSale',
              offers |-> during[q].offers \cup {terms'[v] : v \in VoucherOf(q)}]
        ELSE during[q]]
  BY DEF Prevails
<1> QED
  BY <1>1

LEMMA ShapeInit == Init => Shape
  BY PricingAssumption DEF Init, Shape, Labels, Terms

LEMMA ShapeStep ==
    ASSUME Shape, [Next]_vars
    PROVE  Shape'
<1>1. ASSUME NEW r \in Request, Cart(r) PROVE Shape'
  <2>1. PICK now : during' = [during EXCEPT ![r] = now]
    BY <1>1 DEF Cart
  <2> QED
    BY <1>1, <2>1 DEF Cart, Goto, Shape, Labels, shop, vouchers
<1>2. ASSUME NEW r \in Request, Summary(r) PROVE Shape'
  <2>1. PICK sum : subtotal' = [subtotal EXCEPT ![r] = sum]
    BY <1>2 DEF Summary
  <2> QED
    BY <1>2, <2>1 DEF Summary, Goto, Shape, Labels, shop, vouchers
<1>3. ASSUME NEW r \in Request, Shipping(r) PROVE Shape'
  <2>1. PICK label \in {"tx", "voucher"} : pc' = [pc EXCEPT ![r] = label]
    BY <1>3 DEF Shipping, Goto
  <2> QED
    BY <1>3, <2>1 DEF Shipping, Shape, Labels, shop, vouchers, local
<1>4. ASSUME NEW r \in Request, NEW v \in Voucher, ReadVoucher(r, v) PROVE Shape'
  <2>1. terms[v] \in Terms
    BY DEF Shape
  <2> QED
    BY <1>4, <2>1 DEF ReadVoucher, Goto, Shape, Labels, shop, vouchers
<1>5. ASSUME NEW r \in Request, NEW v \in Voucher, CheckCustomer(r, v) PROVE Shape'
  BY <1>5 DEF CheckCustomer, Goto, Shape, Labels, shop, vouchers, local
<1>6. ASSUME NEW r \in Request, Commit(r) PROVE Shape'
  <2>1. PICK charged : order' = [order EXCEPT ![r] = charged]
    BY <1>6 DEF Commit
  <2>2. Leave(r, "done")
    BY <1>6 DEF Commit
  <2>3. used' \in [Voucher -> Nat]
    BY <1>6 DEF Commit, Shape
  <2> QED
    BY <1>6, <2>1, <2>2, <2>3, Left DEF Commit, Shape, shop
<1>7. ASSUME NEW r \in Request, Reject(r) PROVE Shape'
  <2>1. Leave(r, "rejected")
    BY <1>7 DEF Reject
  <2> QED
    BY <1>7, <2>1, Left DEF Reject, Shape, shop, vouchers
<1>8. ASSUME NEW g \in Good, UpdateProduct(g) PROVE Shape'
  <2>1. during' = [q \in Request |-> during'[q]]
    BY <1>8 DEF UpdateProduct, Prevails
  <2> QED
    BY <1>8, <2>1 DEF UpdateProduct, Shape, vouchers, local
<1>9. ASSUME NEW v \in Voucher, UpdatePromo(v) PROVE Shape'
  <2>1. during' = [q \in Request |-> during'[q]]
    BY <1>9 DEF UpdatePromo, Prevails
  <2>2. PICK t \in Offers : terms' = [terms EXCEPT ![v] = t]
    BY <1>9 DEF UpdatePromo
  <2>3. terms' \in [Voucher -> Terms] /\ t \in Terms /\ terms'[v] = t
    BY <2>2, PricingAssumption DEF Shape
  <2>4. t.maxUsageCount \in Nat \cup {None}
    BY <2>3 DEF Terms
  <2>5. limits' \in [Voucher -> SUBSET (Nat \cup {None})]
    BY <1>9, <2>3, <2>4 DEF UpdatePromo, Shape
  <2> QED
    BY <1>9, <2>1, <2>3, <2>5 DEF UpdatePromo, Shape, vouchers, local
<1>10. ASSUME (\E u \in User : OrderCompletes(u)) \/ UNCHANGED vars PROVE Shape'
  BY <1>10 DEF OrderCompletes, vars, shop, vouchers, local, Shape
<1> QED
  BY <1>1, <1>2, <1>3, <1>4, <1>5, <1>6, <1>7, <1>8, <1>9, <1>10 DEF Next, CheckoutStep

-----------------------------------------------------------------------------
(* What one step does to a request.                                        *)

\* The request reads the cart, goes on, reads its voucher, orders or is left.
Begins(r) ==
    /\ pc[r] = "new" /\ pc'[r] = "summary" /\ Available(r)
    /\ UNCHANGED <<price, terms>>
    /\ offer'[r] = offer[r] /\ order'[r] = order[r]
    /\ during'[r] = [quotes |-> {Subtotal(price, Form[r].lines)}, goods |-> onSale,
                     offers |-> {terms[v] : v \in VoucherOf(r)}]

GoesOn(r) ==
    /\ Running(r) /\ UNCHANGED <<price, terms>>
    /\ during'[r] = during[r] /\ order'[r] = order[r]
    /\ \/ /\ pc[r] = "summary" /\ pc'[r] = "shipping" /\ offer'[r] = offer[r]
          /\ subtotal'[r] = Subtotal(price, Form[r].lines)
       \/ /\ pc[r] = "shipping" /\ subtotal'[r] = subtotal[r] /\ offer'[r] = offer[r]
          /\ pc'[r] = IF VoucherOf(r) = {} THEN "tx" ELSE "voucher"
       \/ /\ pc[r] = "customer" /\ pc'[r] = "tx"
          /\ subtotal'[r] = subtotal[r] /\ offer'[r] = offer[r]
       \/ /\ pc[r] = "voucher" /\ pc'[r] = "customer" /\ subtotal'[r] = subtotal[r]
          /\ \E v \in VoucherOf(r) : offer'[r] = terms[v]

Orders(r) ==
    /\ pc[r] = "tx" /\ pc'[r] = "done" /\ offer'[r] = None /\ during'[r] = during[r]
    /\ order'[r] = Charged(r)
    /\ order'[r].subtotal = subtotal[r] /\ order'[r].offer = offer[r]

IsLeft(r) ==
    /\ pc'[r] = "rejected" /\ offer'[r] = None /\ during'[r] = during[r]
    /\ order'[r] = order[r] /\ pc[r] # "done"

\* It does nothing, while the shop changes or not.
LooksOn(r) ==
    /\ pc'[r] = pc[r] /\ offer'[r] = offer[r] /\ subtotal'[r] = subtotal[r]
    /\ order'[r] = order[r]
    /\ \/ UNCHANGED <<price, terms>> /\ during'[r] = during[r]
       \/ Prevails

RequestMove(r) == Begins(r) \/ GoesOn(r) \/ Orders(r) \/ IsLeft(r) \/ LooksOn(r)

LEMMA EveryRequestMoves ==
    ASSUME Shape, [Next]_vars, NEW r \in Request
    PROVE  RequestMove(r)
<1>1. ASSUME NEW q \in Request, CheckoutStep(q), q # r PROVE LooksOn(r)
  <2>1. /\ UNCHANGED <<price, terms>>
        /\ \A label : Leave(q, label) => /\ pc'[r] = pc[r] /\ offer'[r] = offer[r]
                                         /\ subtotal'[r] = subtotal[r]
    BY <1>1 DEF CheckoutStep, Cart, Summary, Shipping, ReadVoucher, CheckCustomer, Commit,
       Reject, Leave, Goto, shop, Shape
  <2> QED
    BY <1>1, <2>1 DEF CheckoutStep, Cart, Summary, Shipping, ReadVoucher, CheckCustomer, Commit,
       Reject, Goto, local, Shape, LooksOn
<1>2. ASSUME Cart(r) PROVE Begins(r)
  <2>1. during'[r] = [quotes |-> {Subtotal(price, Form[r].lines)}, goods |-> onSale,
                      offers |-> {terms[v] : v \in VoucherOf(r)}]
    BY <1>2 DEF Cart, Shape
  <2> QED
    BY <1>2, <2>1 DEF Cart, Goto, shop, Shape, Begins
<1>3. ASSUME Summary(r) PROVE GoesOn(r)
  <2>1. subtotal'[r] = Subtotal(price, Form[r].lines)
    BY <1>3 DEF Summary, Shape
  <2> QED
    BY <1>3, <2>1 DEF Summary, Goto, shop, Shape, GoesOn, Running
<1>4. ASSUME Shipping(r) PROVE GoesOn(r)
  BY <1>4 DEF Shipping, Goto, shop, local, Shape, GoesOn, Running
<1>5. ASSUME NEW v \in Voucher, ReadVoucher(r, v) PROVE GoesOn(r)
  BY <1>5 DEF ReadVoucher, Goto, shop, Shape, GoesOn, Running
<1>6. ASSUME NEW v \in Voucher, CheckCustomer(r, v) PROVE GoesOn(r)
  BY <1>6 DEF CheckCustomer, Goto, shop, local, Shape, GoesOn, Running
<1>7. ASSUME Commit(r) PROVE Orders(r)
  <2>1. Leave(r, "done")
    BY <1>7 DEF Commit
  <2>2. /\ order'[r] = Charged(r)
        /\ order'[r].subtotal = subtotal[r] /\ order'[r].offer = offer[r]
    <3>1. order'[r] = Charged(r)
      BY <1>7 DEF Commit, Shape
    <3> QED
      BY <3>1 DEF Charged
  <2>3. pc'[r] = "done" /\ offer'[r] = None
    BY <2>1, Left DEF Shape
  <2> QED
    BY <1>7, <2>2, <2>3 DEF Commit, Orders
<1>8. ASSUME Reject(r), pc[r] = "new" \/ Running(r) PROVE IsLeft(r)
  <2>1. Leave(r, "rejected")
    BY <1>8 DEF Reject
  <2>2. pc'[r] = "rejected" /\ offer'[r] = None
    BY <2>1, Left DEF Shape
  <2> QED
    BY <1>8, <2>2 DEF Reject, IsLeft, Running
<1>9. ASSUME (\E g \in Good : UpdateProduct(g)) \/ (\E v \in Voucher : UpdatePromo(v))
      PROVE  LooksOn(r)
  BY <1>9 DEF UpdateProduct, UpdatePromo, local, LooksOn
<1>10. ASSUME (\E u \in User : OrderCompletes(u)) \/ UNCHANGED vars PROVE LooksOn(r)
  BY <1>10 DEF OrderCompletes, vars, shop, local, LooksOn
<1> QED
  BY <1>1, <1>2, <1>3, <1>4, <1>5, <1>6, <1>7, <1>8, <1>9, <1>10
     DEF Next, CheckoutStep, RequestMove

-----------------------------------------------------------------------------
(* The inductive invariant.                                                *)

IInv ==
    /\ Shape
    /\ LocalsInOrder
    /\ LimitsKnown
    /\ ReadDuring
    /\ BoughtAsOffered
    /\ LimitKept

LEMMA LocalsStep ==
    ASSUME Shape, LocalsInOrder, [Next]_vars
    PROVE  LocalsInOrder'
<1> SUFFICES ASSUME NEW r \in Request
             PROVE  /\ pc'[r] \in {"new", "summary", "shipping", "voucher"} => offer'[r] = None
                    /\ pc'[r] \in {"customer", "tx"} /\ VoucherOf(r) # {} => offer'[r] \in Terms
                    /\ order'[r] # None => pc'[r] = "done"
  BY DEF LocalsInOrder
<1>1. /\ pc[r] \in {"new", "summary", "shipping", "voucher"} => offer[r] = None
      /\ pc[r] \in {"customer", "tx"} /\ VoucherOf(r) # {} => offer[r] \in Terms
      /\ order[r] # None => pc[r] = "done"
  BY DEF LocalsInOrder
<1>2. CASE Begins(r)
  BY <1>1, <1>2 DEF Begins
<1>3. CASE GoesOn(r)
  <2>1. \A v \in VoucherOf(r) : terms[v] \in Terms
    BY DEF VoucherOf, Shape
  <2> QED
    BY <1>1, <1>3, <2>1 DEF GoesOn, Running
<1>4. CASE Orders(r)
  BY <1>4 DEF Orders
<1>5. CASE IsLeft(r)
  BY <1>1, <1>5 DEF IsLeft
<1>6. CASE LooksOn(r)
  BY <1>1, <1>6 DEF LooksOn
<1> QED
  BY <1>2, <1>3, <1>4, <1>5, <1>6, EveryRequestMoves DEF RequestMove

\* Limits are never forgotten, and those of the present terms are among them.
LEMMA LimitsGrow ==
    ASSUME Shape, LimitsKnown, [Next]_vars, NEW v \in Voucher
    PROVE  limits[v] \subseteq limits'[v] /\ terms'[v].maxUsageCount \in limits'[v]
<1>1. CASE UNCHANGED <<terms, limits>>
  BY <1>1 DEF LimitsKnown
<1>2. ASSUME NEW w \in Voucher, UpdatePromo(w)
      PROVE  limits[v] \subseteq limits'[v] /\ terms'[v].maxUsageCount \in limits'[v]
  <2>1. PICK t \in Offers : terms' = [terms EXCEPT ![w] = t]
    BY <1>2 DEF UpdatePromo
  <2>2. limits' = [limits EXCEPT ![w] = @ \cup {terms'[w].maxUsageCount}]
    BY <1>2 DEF UpdatePromo
  <2>3. CASE v = w
    BY <2>2, <2>3 DEF Shape
  <2>4. CASE v # w
    <3>1. terms'[v] = terms[v] /\ limits'[v] = limits[v]
      BY <2>1, <2>2, <2>4 DEF Shape
    <3> QED
      BY <3>1 DEF LimitsKnown
  <2> QED
    BY <2>3, <2>4
<1>3. ASSUME NEW r \in Request, CheckoutStep(r) PROVE UNCHANGED <<terms, limits>>
  BY <1>3 DEF CheckoutStep, Cart, Summary, Shipping, ReadVoucher, CheckCustomer, Commit, Reject,
     shop
<1>4. ASSUME \/ \E g \in Good : UpdateProduct(g)
             \/ \E u \in User : OrderCompletes(u)
             \/ UNCHANGED vars
      PROVE  UNCHANGED <<terms, limits>>
  BY <1>4 DEF UpdateProduct, OrderCompletes, vars, shop
<1> QED
  BY <1>1, <1>2, <1>3, <1>4 DEF Next

LEMMA LimitsStep ==
    ASSUME Shape, LimitsKnown, [Next]_vars
    PROVE  LimitsKnown'
<1>1. ASSUME NEW v \in Voucher, NEW r \in Request, pc'[r] \in {"customer", "tx"},
             v \in VoucherOf(r)
      PROVE  offer'[r].maxUsageCount \in limits'[v]
  <2>1. CASE offer'[r] = offer[r] /\ pc[r] \in {"customer", "tx"}
    BY <1>1, <2>1, LimitsGrow DEF LimitsKnown
  <2>2. ASSUME NEW w \in VoucherOf(r), offer'[r] = terms[w]
        PROVE  offer'[r].maxUsageCount \in limits'[v]
    <3>1. w = v
      BY <1>1 DEF VoucherOf
    <3> QED
      BY <2>2, <3>1, LimitsGrow DEF LimitsKnown
  <2> QED
    BY <1>1, <2>1, <2>2, EveryRequestMoves
       DEF RequestMove, Begins, GoesOn, Orders, IsLeft, LooksOn
<1> QED
  BY <1>1, LimitsGrow DEF LimitsKnown

LEMMA ReadStep ==
    ASSUME Shape, LocalsInOrder, ReadDuring, [Next]_vars
    PROVE  ReadDuring'
<1> SUFFICES ASSUME NEW r \in Request, Running(r)'
             PROVE  /\ GoodsOf(r) \subseteq during'[r].goods
                    /\ Subtotal(price', Form[r].lines) \in during'[r].quotes
                    /\ pc'[r] # "summary" => subtotal'[r] \in during'[r].quotes
                    /\ \A v \in VoucherOf(r) : terms'[v] \in during'[r].offers
                    /\ offer'[r] \in during'[r].offers \cup {None}
  BY DEF ReadDuring
<1>1. Running(r) =>
        /\ GoodsOf(r) \subseteq during[r].goods
        /\ Subtotal(price, Form[r].lines) \in during[r].quotes
        /\ pc[r] # "summary" => subtotal[r] \in during[r].quotes
        /\ \A v \in VoucherOf(r) : terms[v] \in during[r].offers
        /\ offer[r] \in during[r].offers \cup {None}
  BY DEF ReadDuring
<1>2. CASE Begins(r)
  <2>1. offer'[r] = None /\ pc'[r] = "summary" /\ GoodsOf(r) \subseteq onSale
    BY <1>2 DEF Begins, LocalsInOrder, Available
  <2>2. /\ during'[r].goods = onSale
        /\ during'[r].quotes = {Subtotal(price', Form[r].lines)}
        /\ during'[r].offers = {terms'[v] : v \in VoucherOf(r)}
    BY <1>2 DEF Begins
  <2> QED
    BY <2>1, <2>2
<1>3. CASE GoesOn(r)
  BY <1>1, <1>3 DEF GoesOn
<1>4. CASE Orders(r) \/ IsLeft(r)
  BY <1>4 DEF Orders, IsLeft, Running
<1>5. CASE LooksOn(r)
  <2>1. Running(r)
    BY <1>5 DEF LooksOn, Running
  <2>2. CASE UNCHANGED <<price, terms>> /\ during'[r] = during[r]
    BY <1>1, <1>5, <2>1, <2>2 DEF LooksOn
  <2>3. CASE Prevails
    BY <1>1, <1>5, <2>1, <2>3, ShopChanges DEF LooksOn
  <2> QED
    BY <1>5, <2>2, <2>3 DEF LooksOn
<1> QED
  BY <1>2, <1>3, <1>4, <1>5, EveryRequestMoves DEF RequestMove

LEMMA OfferedStep ==
    ASSUME Shape, LocalsInOrder, ReadDuring, BoughtAsOffered, [Next]_vars
    PROVE  BoughtAsOffered'
<1> SUFFICES ASSUME NEW r \in Request, order'[r] # None
             PROVE  /\ GoodsOf(r) \subseteq during'[r].goods
                    /\ order'[r].subtotal \in during'[r].quotes
                    /\ order'[r].offer \in during'[r].offers \cup {None}
  BY DEF BoughtAsOffered, Ordered
<1>1. ASSUME order'[r] = order[r], during'[r] = during[r]
      PROVE  /\ GoodsOf(r) \subseteq during'[r].goods
             /\ order'[r].subtotal \in during'[r].quotes
             /\ order'[r].offer \in during'[r].offers \cup {None}
  BY <1>1 DEF BoughtAsOffered, Ordered
<1>2. CASE Begins(r) \/ GoesOn(r)
  BY <1>2 DEF Begins, GoesOn, LocalsInOrder, Running
<1>3. CASE Orders(r)
  BY <1>3 DEF Orders, ReadDuring, Running
<1>4. CASE IsLeft(r)
  BY <1>1, <1>4 DEF IsLeft
<1>5. CASE LooksOn(r)
  <2>1. order'[r] = order[r] /\ ~Running(r)
    BY <1>5 DEF LooksOn, LocalsInOrder, Running
  <2>2. during'[r] = during[r]
    BY <1>5, <2>1, ShopChanges DEF LooksOn
  <2> QED
    BY <1>1, <2>1, <2>2
<1> QED
  BY <1>2, <1>3, <1>4, <1>5, EveryRequestMoves DEF RequestMove

LEMMA KeptStep ==
    ASSUME Shape, LocalsInOrder, LimitsKnown, LimitKept, [Next]_vars
    PROVE  LimitKept'
<1> SUFFICES ASSUME NEW v \in Voucher
             PROVE  None \in limits'[v] \/ \E n \in limits'[v] : used'[v] <= n
  BY DEF LimitKept
<1>1. limits[v] \subseteq limits'[v]
  BY LimitsGrow
<1>2. CASE used'[v] = used[v]
  BY <1>1, <1>2 DEF LimitKept
<1>3. ASSUME NEW r \in Request, Commit(r), v \in VoucherOf(r)
      PROVE  None \in limits'[v] \/ \E n \in limits'[v] : used'[v] <= n
  <2>1. used'[v] = used[v] + 1 /\ used[v] \in Nat
    BY <1>3 DEF Commit, Shape
  <2>3. offer[r] \in Terms
    BY <1>3 DEF Commit, LocalsInOrder
  <2>4. UnderLimit(v, offer[r].maxUsageCount)
    BY <1>3 DEF Commit, MayUse
  <2>5. PICK limit \in Nat \cup {None} : limit = offer[r].maxUsageCount
    BY <2>3 DEF Terms
  <2>6. limit \in limits[v]
    BY <1>3, <2>5 DEF LimitsKnown, Commit
  <2>7. CASE limit = None
    BY <2>6, <2>7, <1>1
  <2>8. CASE limit # None
    BY <2>1, <2>4, <2>5, <2>6, <2>8, <1>1 DEF UnderLimit
  <2> QED
    BY <2>7, <2>8
<1>4. ASSUME NEW r \in Request, CheckoutStep(r), used'[v] # used[v]
      PROVE  Commit(r) /\ v \in VoucherOf(r)
  <2>1. Commit(r)
    BY <1>4 DEF CheckoutStep, Cart, Summary, Shipping, ReadVoucher, CheckCustomer, Reject, vouchers
  <2>2. used' = [w \in Voucher |-> IF w \in VoucherOf(r) THEN used[w] + 1 ELSE used[w]]
    BY <2>1 DEF Commit
  <2> QED
    BY <1>4, <2>1, <2>2
<1>5. ASSUME \/ \E g \in Good : UpdateProduct(g)
             \/ \E w \in Voucher : UpdatePromo(w)
             \/ \E u \in User : OrderCompletes(u)
             \/ UNCHANGED vars
      PROVE  used'[v] = used[v]
  BY <1>5 DEF UpdateProduct, UpdatePromo, OrderCompletes, vars, vouchers
<1> QED
  BY <1>2, <1>3, <1>4, <1>5 DEF Next

LEMMA InvInit == Init => IInv
<1> SUFFICES ASSUME Init PROVE IInv
  OBVIOUS
<1>1. Shape
  BY ShapeInit
<1>2. LocalsInOrder /\ LimitsKnown /\ ReadDuring /\ BoughtAsOffered
  BY DEF Init, LocalsInOrder, LimitsKnown, ReadDuring, BoughtAsOffered, Ordered, Running
<1>3. LimitKept
  <2>1. ASSUME NEW v \in Voucher
        PROVE  None \in limits[v] \/ \E n \in limits[v] : used[v] <= n
    <3>1. InitTerms[v].maxUsageCount \in Nat \cup {None} /\ limits[v] = {InitTerms[v].maxUsageCount}
      BY PricingAssumption DEF Init, Terms
    <3>2. used[v] = 0
      BY DEF Init
    <3> QED
      BY <3>1, <3>2
  <2> QED
    BY <2>1 DEF LimitKept
<1> QED
  BY <1>1, <1>2, <1>3 DEF IInv

LEMMA InvStep == IInv /\ [Next]_vars => IInv'
  BY ShapeStep, LocalsStep, LimitsStep, ReadStep, OfferedStep, KeptStep DEF IInv

THEOREM Invariance == Spec => []IInv
<1>1. Init => IInv
  BY InvInit
<1>2. IInv /\ [Next]_vars => IInv'
  BY InvStep
<1> QED
  BY <1>1, <1>2, PTL DEF Spec

\* orders.service.ts, the conditional increment of currentUsageCount: no number of
\* requests uses a voucher beyond the highest limit it has had, however the limit was
\* edited between a request's read and its transaction.
THEOREM LimitsAreKept == Spec => []LimitKept
<1>1. IInv => LimitKept
  BY DEF IInv
<1> QED
  BY <1>1, Invariance, PTL

\* Goods, subtotal and voucher of an order each prevailed at some moment of its request,
\* for any number of changes between the request's reads.
THEOREM NothingStale == Spec => []BoughtAsOffered
<1>1. IInv => BoughtAsOffered
  BY DEF IInv
<1> QED
  BY <1>1, Invariance, PTL

-----------------------------------------------------------------------------
(* The money.                                                              *)

\* A line of a cart is a set of goods and how many of it.
LEMMA LineOf ==
    ASSUME NEW lines \in Seq(LineType), NEW i \in DOMAIN lines
    PROVE  lines[i].goods \in SUBSET Good /\ lines[i].qty \in Nat
<1>1. i \in 1 .. Len(lines)
  OBVIOUS
<1>2. lines[i] \in LineType
  BY <1>1
<1> QED
  BY <1>2 DEF LineType

\* A sum over the lines of a cart is one over a finite set.
LEMMA LinesSum ==
    ASSUME NEW lines \in Seq(LineType), NEW f, DOMAIN f = DOMAIN lines,
           \A i \in DOMAIN lines : f[i] \in Nat
    PROVE  SumFunction(f) \in Nat
<1>1. IsFiniteSet(DOMAIN lines)
  BY FS_Interval
<1> QED
  BY <1>1, SumIsNat DEF SumFunction

\* getCartPricing: whatever the prices, the subtotal of a cart is an amount.
LEMMA SubtotalIsNat ==
    ASSUME NEW prices \in [Good -> Nat], NEW lines \in Seq(LineType)
    PROVE  Subtotal(prices, lines) \in Nat
<1> DEFINE f == [i \in DOMAIN lines |-> UnitPrice(prices, lines[i]) * lines[i].qty]
<1>1. ASSUME NEW i \in DOMAIN lines PROVE f[i] \in Nat
  <2>1. PICK goods \in SUBSET Good, n \in Nat : lines[i].goods = goods /\ lines[i].qty = n
    BY LineOf
  <2>2. IsFiniteSet(goods)
    BY PricingAssumption, FS_Subset
  <2>3. PICK unit \in Nat : unit = UnitPrice(prices, lines[i])
    <3>1. \A g \in goods : prices[g] \in Nat
      OBVIOUS
    <3>2. SumFunctionOnSet(prices, goods) \in Nat
      BY <2>2, <3>1, SumIsNat
    <3> QED
      BY <2>1, <3>2 DEF UnitPrice
  <2>4. f[i] = unit * n
    BY <2>1, <2>3
  <2> QED
    BY <2>4
<1>2. DOMAIN f = DOMAIN lines
  OBVIOUS
<1>3. Subtotal(prices, lines) = SumFunction(f)
  BY DEF Subtotal
<1> HIDE DEF f
<1> QED
  BY <1>1, <1>2, <1>3, LinesSum

\* calculateShippingCost: whatever is in the cart, the fee is an amount.
LEMMA FeeIsNat ==
    ASSUME NEW r \in Request
    PROVE  Fee(Form[r]) \in Nat
<1>1. PICK lines \in Seq(LineType) : lines = Form[r].lines
  BY PricingAssumption DEF FormType
<1> DEFINE f == [i \in DOMAIN lines |-> lines[i].qty]
<1>2. \A i \in DOMAIN lines : f[i] \in Nat
  BY LineOf
<1>3. DOMAIN f = DOMAIN lines
  OBVIOUS
<1>4. TotalItems(lines) = SumFunction(f)
  BY DEF TotalItems
<1> HIDE DEF f
<1>5. PICK n \in Nat : n = TotalItems(lines)
  BY <1>2, <1>3, <1>4, LinesSum
<1>6. PICK weight \in Nat : weight = WeightGram(n)
  BY DEF WeightGram, Most
<1>7. PICK kilos \in Nat : kilos = (weight + 999) \div 1000
  OBVIOUS
<1>8. ShippingCost(Form[r].courier, weight)
         = IF Form[r].courier = "jne" THEN Most(10000, kilos * 8000) ELSE Most(12000, kilos * 9000)
  BY <1>7 DEF ShippingCost
<1>9. Most(10000, kilos * 8000) \in Nat /\ Most(12000, kilos * 9000) \in Nat
  BY DEF Most
<1> QED
  BY <1>1, <1>5, <1>6, <1>8, <1>9 DEF Fee

\* Prices and subtotals are amounts, and what was charged is within its bounds.
Money ==
    /\ price \in [Good -> Nat]
    /\ subtotal \in [Request -> Nat]
    /\ ChargedWithinBounds

\* The bounds of one order.
Bounded(o) ==
    \/ /\ 0 <= o.discount /\ o.total >= 0
       /\ o.discount <= IF o.offer.type = "FREE_SHIPPING" THEN o.fee ELSE o.subtotal
    \/ o.offer.type = "PERCENTAGE_DISCOUNT" /\ o.offer.discountPercentage > 100

\* The transaction charges within the bounds, whatever voucher the request read.
LEMMA ChargedBounded ==
    ASSUME Shape, Money, NEW r \in Request, offer[r] # None
    PROVE  Bounded(Charged(r))
<1>1. PICK t \in Terms : t = offer[r]
  BY DEF Shape
<1>2. PICK sum \in Nat : sum = subtotal[r]
  BY DEF Money
<1>3. PICK fee \in Nat : fee = Fee(Form[r])
  BY FeeIsNat
<1>4. Charged(r) = [prices |-> items[r], subtotal |-> sum, fee |-> fee,
                    discount |-> Discount(t, sum, fee), offer |-> t,
                    total |-> sum + fee - Discount(t, sum, fee)]
  BY <1>1, <1>2, <1>3 DEF Charged
<1>5. CASE t.type = "PERCENTAGE_DISCOUNT" => OrElse(t.discountPercentage, 0) <= 100
  <2>1. PICK d \in 0 .. (IF t.type = "FREE_SHIPPING" THEN fee ELSE sum) :
           d = Discount(t, sum, fee)
    BY <1>5, DiscountBounded
  <2>2. sum + fee - d >= 0
    BY <2>1
  <2>3. /\ 0 <= d
        /\ d <= IF t.type = "FREE_SHIPPING" THEN fee ELSE sum
    BY <2>1
  <2>4. Charged(r) = [prices |-> items[r], subtotal |-> sum, fee |-> fee, discount |-> d,
                      offer |-> t, total |-> sum + fee - d]
    BY <1>4, <2>1
  <2> QED
    BY <2>2, <2>3, <2>4 DEF Bounded
<1>6. CASE t.type = "PERCENTAGE_DISCOUNT" /\ ~(OrElse(t.discountPercentage, 0) <= 100)
  <2>1. t.discountPercentage \in Nat \cup {None}
    BY DEF Terms
  <2>2. t.discountPercentage > 100
    BY <1>6, <2>1 DEF OrElse
  <2>3. Charged(r).offer = t
    BY <1>4
  <2> QED
    BY <1>6, <2>2, <2>3 DEF Bounded
<1> QED
  BY <1>5, <1>6

LEMMA MoneyInit == Init => Money
<1> SUFFICES ASSUME Init PROVE Money
  OBVIOUS
<1>1. price \in [Good -> Nat] /\ subtotal \in [Request -> Nat]
  BY PricingAssumption DEF Init
<1>2. \A r \in Request : order[r] = None
  BY DEF Init
<1> QED
  BY <1>1, <1>2 DEF Money, ChargedWithinBounds, Ordered

LEMMA PriceStep ==
    ASSUME Money, [Next]_vars
    PROVE  price' \in [Good -> Nat]
<1>1. CASE UNCHANGED price
  BY <1>1 DEF Money
<1>2. ASSUME NEW g \in Good, UpdateProduct(g) PROVE price' \in [Good -> Nat]
  <2>1. CASE UNCHANGED price
    BY <2>1 DEF Money
  <2>2. CASE \E p \in Prices : price' = [price EXCEPT ![g] = p]
    BY <2>2, PricingAssumption DEF Money
  <2> QED
    BY <1>2, <2>1, <2>2 DEF UpdateProduct
<1>3. ASSUME NEW r \in Request, CheckoutStep(r) PROVE UNCHANGED price
  BY <1>3 DEF CheckoutStep, Cart, Summary, Shipping, ReadVoucher, CheckCustomer, Commit, Reject,
     shop
<1>4. ASSUME \/ \E v \in Voucher : UpdatePromo(v)
             \/ \E u \in User : OrderCompletes(u)
             \/ UNCHANGED vars
      PROVE  UNCHANGED price
  BY <1>4 DEF UpdatePromo, OrderCompletes, vars, shop
<1> QED
  BY <1>1, <1>2, <1>3, <1>4 DEF Next

LEMMA SubtotalStep ==
    ASSUME Shape, Money, [Next]_vars
    PROVE  subtotal' \in [Request -> Nat]
<1>1. CASE UNCHANGED subtotal
  BY <1>1 DEF Money
<1>2. ASSUME NEW r \in Request, Summary(r) PROVE subtotal' \in [Request -> Nat]
  <2>1. Form[r].lines \in Seq(LineType)
    BY PricingAssumption DEF FormType
  <2>2. PICK sum \in Nat : sum = Subtotal(price, Form[r].lines)
    BY <2>1, SubtotalIsNat DEF Money
  <2>3. subtotal' = [subtotal EXCEPT ![r] = sum]
    BY <1>2, <2>2 DEF Summary
  <2> QED
    BY <2>3 DEF Money
<1>3. ASSUME NEW r \in Request, Commit(r) \/ Reject(r) PROVE subtotal' \in [Request -> Nat]
  <2>1. subtotal' = [subtotal EXCEPT ![r] = 0]
    BY <1>3 DEF Commit, Reject, Leave
  <2> QED
    BY <2>1 DEF Money
<1>4. ASSUME NEW r \in Request, CheckoutStep(r), ~Summary(r), ~Commit(r), ~Reject(r)
      PROVE  UNCHANGED subtotal
  BY <1>4 DEF CheckoutStep, Cart, Shipping, ReadVoucher, CheckCustomer, local
<1>5. ASSUME \/ \E g \in Good : UpdateProduct(g)
             \/ \E v \in Voucher : UpdatePromo(v)
             \/ \E u \in User : OrderCompletes(u)
             \/ UNCHANGED vars
      PROVE  UNCHANGED subtotal
  BY <1>5 DEF UpdateProduct, UpdatePromo, OrderCompletes, vars, local
<1> QED
  BY <1>1, <1>2, <1>3, <1>4, <1>5 DEF Next

LEMMA MoneyStep ==
    ASSUME Shape, LocalsInOrder, Money, [Next]_vars
    PROVE  Money'
<1>1. ASSUME NEW r \in Request, order'[r] # None, order'[r].offer # None
      PROVE  Bounded(order'[r])
  <2>1. CASE Orders(r)
    BY <1>1, <2>1, ChargedBounded DEF Orders
  <2>2. CASE order'[r] = order[r]
    BY <1>1, <2>2 DEF Money, ChargedWithinBounds, Ordered, Bounded
  <2>3. RequestMove(r)
    BY EveryRequestMoves
  <2> QED
    BY <2>1, <2>2, <2>3 DEF RequestMove, Begins, GoesOn, IsLeft, LooksOn
<1>2. ChargedWithinBounds'
  BY <1>1 DEF ChargedWithinBounds, Ordered, Bounded
<1> QED
  BY <1>2, PriceStep, SubtotalStep DEF Money

\* calculateVoucherDiscount within the transaction: no order is discounted by more than
\* what the discount is on, nor has a negative total, whatever prices and vouchers are set
\* between the reads of its request.
THEOREM DiscountsAreBounded == Spec => []ChargedWithinBounds
<1>1. Init => Money
  BY MoneyInit
<1>2. IInv /\ Money /\ [Next]_vars => Money'
  BY MoneyStep DEF IInv
<1>3. Money => ChargedWithinBounds
  BY DEF Money
<1> QED
  BY <1>1, <1>2, <1>3, Invariance, PTL DEF Spec

-----------------------------------------------------------------------------
(* The whole type invariant.                                               *)

\* Whatever the terms, above a hundred per cent included, a discount is an amount.
LEMMA DiscountIsNat ==
    ASSUME NEW t \in Terms, NEW sum \in Nat, NEW fee \in Nat
    PROVE  Discount(t, sum, fee) \in Nat
<1>1. CASE t.type = "PERCENTAGE_DISCOUNT"
  <2>1. PICK p \in Nat : p = OrElse(t.discountPercentage, 0)
    BY DEF Terms, OrElse
  <2>2. sum * p \in Nat
    OBVIOUS
  <2>3. PICK share \in Nat : share = (sum * p) \div 100
    BY <2>2
  <2>4. OrElse(t.maxDiscountAmount, share) \in Nat
    BY DEF Terms, OrElse
  <2>5. Discount(t, sum, fee) = Least(share, OrElse(t.maxDiscountAmount, share))
    BY <1>1, <2>1, <2>3 DEF Discount
  <2> QED
    BY <2>4, <2>5 DEF Least
<1>2. CASE t.type # "PERCENTAGE_DISCOUNT"
  BY <1>2, DiscountBounded
<1> QED
  BY <1>1, <1>2

\* A voucher's use by a customer is recorded once, and what is charged has its type.
Records ==
    /\ onSale \subseteq Good
    /\ usage \subseteq [voucher : Voucher, user : User, order : Request]
    /\ \A a, b \in usage : a.voucher = b.voucher /\ a.user = b.user => a = b
    /\ regulars \subseteq User
    /\ items \in [Request -> [Good -> Nat]]
    /\ order \in [Request -> ChargeType \cup {None}]
    /\ \A r \in Request : pc[r] = "done" <=> order[r] # None
    /\ changes \in Nat

LEMMA ChargedIsTyped ==
    ASSUME Shape, Money, Records, NEW r \in Request
    PROVE  Charged(r) \in ChargeType
<1>1. PICK sum \in Nat, fee \in Nat : sum = subtotal[r] /\ fee = Fee(Form[r])
  BY FeeIsNat DEF Money
<1>2. PICK d \in Nat : d = IF offer[r] = None THEN 0 ELSE Discount(offer[r], sum, fee)
  BY DiscountIsNat DEF Shape
<1>3. Charged(r) = [prices |-> items[r], subtotal |-> sum, fee |-> fee, discount |-> d,
                    offer |-> offer[r], total |-> sum + fee - d]
  BY <1>1, <1>2 DEF Charged
<1>4. items[r] \in [Good -> Nat] /\ offer[r] \in Terms \cup {None} /\ sum + fee - d \in Int
  BY DEF Records, Shape
<1> QED
  BY <1>3, <1>4 DEF ChargeType

LEMMA RecordsInit == Init => Records
  BY PricingAssumption DEF Init, Records

\* The order of a request that stands, or comes with its being done.
LEMMA OrdersTyped ==
    ASSUME Shape, Money, Records, [Next]_vars
    PROVE  /\ order' \in [Request -> ChargeType \cup {None}]
           /\ \A r \in Request : pc'[r] = "done" <=> order'[r] # None
<1>1. order' = [r \in Request |-> order'[r]]
  BY ShapeStep DEF Shape
<1>2. ASSUME NEW r \in Request
      PROVE  /\ order'[r] \in ChargeType \cup {None}
             /\ pc'[r] = "done" <=> order'[r] # None
  <2>1. /\ order[r] \in ChargeType \cup {None}
        /\ pc[r] = "done" <=> order[r] # None
    BY DEF Records
  <2>2. CASE Orders(r)
    BY <2>2, ChargedIsTyped, PricingAssumption DEF Orders
  <2>3. CASE Begins(r)
    BY <2>1, <2>3 DEF Begins
  <2>4. CASE GoesOn(r)
    BY <2>1, <2>4 DEF GoesOn, Running
  <2>5. CASE IsLeft(r)
    BY <2>1, <2>5 DEF IsLeft
  <2>6. CASE LooksOn(r)
    BY <2>1, <2>6 DEF LooksOn
  <2> QED
    BY <2>2, <2>3, <2>4, <2>5, <2>6, EveryRequestMoves DEF RequestMove
<1> QED
  BY <1>1, <1>2

LEMMA UsageTyped ==
    ASSUME Records, NEW r \in Request, Commit(r)
    PROVE  /\ usage' \subseteq [voucher : Voucher, user : User, order : Request]
           /\ \A a, b \in usage' : a.voucher = b.voucher /\ a.user = b.user => a = b
<1> DEFINE new == {[voucher |-> v, user |-> Form[r].user, order |-> r] : v \in VoucherOf(r)}
<1>1. usage' = usage \cup new
  BY DEF Commit
<1>2. Form[r].user \in User /\ VoucherOf(r) \subseteq Voucher
  BY PricingAssumption DEF FormType, VoucherOf
<1>3. new \subseteq [voucher : Voucher, user : User, order : Request]
  BY <1>2
<1>4. \A a, b \in new : a = b
  BY DEF VoucherOf
<1>5. \A a \in usage, b \in new : ~(a.voucher = b.voucher /\ a.user = b.user)
  BY DEF Commit, MayUse, UsedBy
<1> QED
  BY <1>1, <1>3, <1>4, <1>5 DEF Records

LEMMA RecordsStep ==
    ASSUME Shape, Money, Records, [Next]_vars
    PROVE  Records'
<1> DEFINE Kept ==
      /\ onSale' \subseteq Good
      /\ usage' \subseteq [voucher : Voucher, user : User, order : Request]
      /\ \A a, b \in usage' : a.voucher = b.voucher /\ a.user = b.user => a = b
      /\ regulars' \subseteq User
      /\ items' \in [Request -> [Good -> Nat]]
      /\ changes' \in Nat
<1>1. ASSUME NEW r \in Request, Cart(r) PROVE Kept
  <2>1. items' = [items EXCEPT ![r] = price] /\ price \in [Good -> Nat]
    BY <1>1 DEF Cart, Money
  <2> QED
    BY <1>1, <2>1 DEF Cart, shop, vouchers, Records
<1>2. ASSUME NEW r \in Request, NEW outcome, Leave(r, outcome)
      PROVE  items' \in [Request -> [Good -> Nat]]
  <2>1. items' = [items EXCEPT ![r] = [g \in Good |-> 0]]
    BY <1>2 DEF Leave
  <2> QED
    BY <2>1 DEF Records
<1>3. ASSUME NEW r \in Request, Commit(r) PROVE Kept
  BY <1>2, <1>3, UsageTyped DEF Commit, shop, Records
<1>4. ASSUME NEW r \in Request, Reject(r) PROVE Kept
  BY <1>2, <1>4 DEF Reject, shop, vouchers, Records
<1>5. ASSUME NEW r \in Request, CheckoutStep(r), ~Cart(r), ~Commit(r), ~Reject(r) PROVE Kept
  BY <1>5 DEF CheckoutStep, Summary, Shipping, ReadVoucher, CheckCustomer, shop, vouchers, local,
     Records
<1>6. ASSUME NEW g \in Good, UpdateProduct(g) PROVE Kept
  BY <1>6 DEF UpdateProduct, Change, vouchers, local, Records
<1>7. ASSUME NEW v \in Voucher, UpdatePromo(v) PROVE Kept
  BY <1>7 DEF UpdatePromo, Change, vouchers, local, Records
<1>8. ASSUME (\E u \in User : OrderCompletes(u)) \/ UNCHANGED vars PROVE Kept
  BY <1>8 DEF OrderCompletes, vars, shop, vouchers, local, Records
<1>9. Kept
  BY <1>1, <1>3, <1>4, <1>5, <1>6, <1>7, <1>8 DEF Next
<1> QED
  BY <1>9, OrdersTyped DEF Records

\* Every state is one the tables and the requests' locals can be in: prices, subtotals and
\* charges are amounts, a customer's use of a voucher is recorded once, and a request has
\* its order exactly when it is done.
THEOREM TypeCorrect == Spec => []TypeOK
<1>1. Init => Money /\ Records
  BY MoneyInit, RecordsInit
<1>2. IInv /\ Money /\ Records /\ [Next]_vars => Money' /\ Records'
  BY MoneyStep, RecordsStep DEF IInv
<1>3. IInv /\ Money /\ Records => TypeOK
  BY DEF IInv, Shape, Labels, Money, Records, TypeOK
<1> QED
  BY <1>1, <1>2, <1>3, Invariance, PTL DEF Spec
=============================================================================
