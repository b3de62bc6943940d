SPECIFICATION LiveSpec
CONSTANTS
    Workers = {w1, w2}
    Queued = {q1, q2}
    MaxAttempts = 2
    MaxPolls = 2
    MaxEvents = 3
    Faults <- ResultsMissing
    None = None
CHECK_DEADLOCK FALSE
INVARIANTS RecordedIsTrue MessagesAgree
PROPERTIES KeepsPurchase Concludes
