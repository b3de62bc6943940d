SPECIFICATION Spec
CONSTANTS
    Workers = {w1, w2}
    Quote = 3
    Others = 3
    Terms <- EitherCancels
    None = None
CHECK_DEADLOCK FALSE
SYMMETRY AnyWorker
INVARIANTS PostedAsDue RouteStands
PROPERTIES KeepsHold
