SPECIFICATION Spec
CHECK_DEADLOCK FALSE
CONSTANTS
    None = None
    r1 = r1
    r2 = r2
    r3 = r3
    u1 = u1
    u2 = u2
    v1 = v1
    dish = dish
    topping = topping
    Request = {r1, r2, r3}
    User = {u1, u2}
    Voucher = {v1}
    Good = {dish, topping}
    Form <- MealForms
    InitPrice <- MenuPrices
    InitTerms <- FirstTerms
    Prices = {15000}
    Offers <- NextOffers
    MaxChanges = 1
INVARIANTS
    ChargedWithinBounds
    BoughtAsOffered
    LimitKept
