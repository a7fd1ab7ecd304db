-------------------------- MODULE MCCheckoutPricing --------------------------
(***************************************************************************)
(* A small instance of CheckoutPricing for TLC: two lines of a dish with   *)
(* and without a topping, and one voucher that goes from one offer to the  *)
(* next.                                                                   *)
(***************************************************************************)
EXTENDS CheckoutPricing, TLC

CONSTANTS r1, r2, r3, u1, u2, v1, dish, topping

Meal(user, courier, voucher) ==
    [user |-> user, courier |-> courier, voucher |-> voucher,
     lines |-> <<[goods |-> {dish, topping}, qty |-> 2], [goods |-> {dish}, qty |-> 1]>>]

MealForms == r1 :> Meal(u1, "jne", v1) @@ r2 :> Meal(u1, "paxel", v1) @@ r3 :> Meal(u2, "jne", v1)

MenuPrices == dish :> 20000 @@ topping :> 3000

Plain == [type |-> "FIXED_DISCOUNT", discountPercentage |-> None, discountAmount |-> 70000,
          maxDiscountAmount |-> None, freeShippingMaxAmount |-> None,
          minimumOrderAmount |-> 0, maxUsageCount |-> 1, newUserOnly |-> "no", open |-> "yes"]

Half == [Plain EXCEPT !.type = "PERCENTAGE_DISCOUNT", !.discountPercentage = 50,
                      !.maxDiscountAmount = 30000, !.maxUsageCount = None, !.newUserOnly = "yes"]
Overdone == [Half EXCEPT !.discountPercentage = 150, !.maxDiscountAmount = None,
                         !.maxUsageCount = 1]
FreeShipping == [Plain EXCEPT !.type = "FREE_SHIPPING", !.minimumOrderAmount = 50000]
Closed == [Plain EXCEPT !.open = "no", !.maxUsageCount = 0]

FirstTerms == v1 :> Plain
NextOffers == {Half, Overdone, FreeShipping, Closed}
=============================================================================
