CONSTANTS
    Texts = {t1, t2}
    NoText = none
    Keys = {k1, k2}
    Blocking = {k1}
    MaxAttempts = 2
    MaxRequests = 3
    MaxFills = 2
    MaxLosses = 1
SPECIFICATION FairSpec
INVARIANTS TurnsRunOnPublishedLore
PROPERTIES NewestUploadWins PlayerAnswersStay ProcessingEnds
CHECK_DEADLOCK FALSE
