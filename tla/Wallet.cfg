SPECIFICATION BoundedSpec
CONSTANTS
    Users = {u1, u2}
    ControlUser = u1
    Keys = {k1, k2, k3, k4}
    Points = {1, 2}
    Requests = {r1}
    Admins = {a1, a2, a3}
    Approvers = {a1, a2, a3}
    Calls = {c1, c2}
    Drifts <- SmallDrifts
    None = None
    Platform = Platform
    Everyone = Everyone
CHECK_DEADLOCK FALSE
SYMMETRY SymmetricSets
INVARIANTS NoOverdraft LedgerExplainsEntries AdjustmentsDualApproved
PROPERTIES KeepsPromise BlockedFundsStay
