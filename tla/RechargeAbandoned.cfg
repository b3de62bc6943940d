SPECIFICATION LiveSpec
CONSTANTS
    Orders = {o1, o2}
    RefundNos = {}
    Workers = {w1}
    Points = 1
    BatchSize = 1
    GatewayFails = FALSE
    Mismatches = FALSE
    None = None
CHECK_DEADLOCK FALSE
PROPERTIES PaidIsCredited
