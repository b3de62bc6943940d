SPECIFICATION LiveSpec
CONSTANTS
    u1 = u1
    c1 = c1
    c2 = c2
    w1 = w1
    w2 = w2
    Uploads = {u1}
    Calls = {c1, c2}
    Workers = {w1, w2}
    Reliable = {w1}
    None = None
CHECK_DEADLOCK FALSE
ACTION_CONSTRAINT Reduced
INVARIANTS AvailableIsStored
PROPERTIES RememberedIsDeleted
