SPECIFICATION LiveSpec
CONSTANTS
    Calls = {c1, c2, c3, c4}
    Amended = {c2}
    Reliable = {c4}
    None = None
CHECK_DEADLOCK FALSE
INVARIANTS HoldAccounted AnswersHold
PROPERTIES KeepsFunding RetryResolves
