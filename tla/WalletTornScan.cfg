SPECIFICATION Spec
CONSTANTS
    Users = {u1}
    ControlUser = u1
    Keys = {k1, k2}
    Points = {1}
    Requests = {}
    Admins = {}
    Approvers = {}
    Calls = {}
    Drifts = {}
    None = None
    Platform = Platform
    Everyone = Everyone
SYMMETRY SymmetricSets
INVARIANT BlockedOnlyWhenDamaged
