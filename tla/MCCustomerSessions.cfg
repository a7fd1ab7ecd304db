SPECIFICATION Spec
CHECK_DEADLOCK FALSE
SYMMETRY Symmetry
CONSTANTS
    None = None
    u1 = u1
    u2 = u2
    r1 = r1
    r2 = r2
    r3 = r3
    r4 = r4
    User = {u1, u2}
    Request = {r1, r2, r3, r4}
    Take = 2
    MaxFaults = 2
    MaxSwitches = 2
INVARIANTS
    SessionsDoNotMultiply
    NewestServed
PROPERTIES
    DisabledGetsNothing
