SPECIFICATION Spec
CONSTANTS
    c1 = c1
    c2 = c2
    w1 = w1
    w2 = w2
    o1 = o1
    o2 = o2
    t1 = t1
    i1 = i1
    i2 = i2
    None = None
CHECK_DEADLOCK FALSE
PROPERTIES Recovers SmsResolves PaidIsCredited EndIsShown EventsArrive
