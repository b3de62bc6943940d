SPECIFICATION Spec
CONSTANTS
    Orders = {o1, o2}
    RefundNos = {n1, n2}
    Workers = {w1, w2}
    Points = 1
    BatchSize = 1
    GatewayFails = TRUE
    Mismatches = TRUE
    None = None
CHECK_DEADLOCK FALSE
SYMMETRY Interchangeable
INVARIANTS PaidIsAnnounced
PROPERTIES KeepsSale
