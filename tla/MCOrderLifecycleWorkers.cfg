SPECIFICATION Spec
CONSTANTS
    None = None
    o1 = o1
    o2 = o2
    o3 = o3
    a1 = a1
    a2 = a2
    w1 = w1
    w2 = w2
    p1 = p1
    p2 = p2
    Order = {o1}
    Product = {p1, p2}
    Admin = {a1}
    Worker = {w1, w2}
    Method <- TransferOnly
    Qty <- Items
    InitStock <- Stock
    FirstReminderAfter = 1
    SecondReminderAfter = 2
    ExpiryAfter = 3
    GatewayExpiryAfter = 0
    TokenTTL = 2
    BatchSize = 1
    StatusChoices = {}
    LastPlace = 0
    MaxTime = 3
    MaxChanges = 0
    MaxUploads = 1
    MaxFaults = 1
SYMMETRY Workers
INVARIANTS
    OneReceiptPerLink
PROPERTIES
    ImplementsContract
