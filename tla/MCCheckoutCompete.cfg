SPECIFICATION Spec
CONSTANTS
    None = None
    r1 = r1
    r2 = r2
    r3 = r3
    r4 = r4
    k1 = k1
    u1 = u1
    u2 = u2
    p1 = p1
    p2 = p2
    v1 = v1
    v2 = v2
    Request = {r1, r2, r3, r4}
    Key = {k1}
    User = {u1, u2}
    Product = {p1, p2}
    Voucher = {v1, v2}
    Form <- Competitors
    InitStock <- MCStock
    UsageLimit <- MCLimit
    MaxFaults = 2
    MaxRows = 2
SYMMETRY SameForms
INVARIANTS
    StockConserved
    VoucherRules
