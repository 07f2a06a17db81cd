CONSTANTS
    Texts = {t1, t2}
    NoText = none
    Keys = {k1, k2}
    Blocking = {k1}
    MaxAttempts = 2
    MaxRequests = 2
    MaxFills = 0
    MaxLosses = 1
SPECIFICATION Spec
INVARIANT ProcessingIsProcessed
CHECK_DEADLOCK FALSE
