SPECIFICATION LiveSpec
CONSTANTS
    Workers = {w1, w2}
    Quote = 3
    Others = 3
    Terms <- ProviderCancels
    None = None
CHECK_DEADLOCK FALSE
PROPERTIES OutcomesArePaid
