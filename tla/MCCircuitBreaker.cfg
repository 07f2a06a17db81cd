SPECIFICATION MCSpec
CONSTANTS
    t1 = t1
    t2 = t2
    t3 = t3
    Threads <- ThreeThreads
    FailMax = 2
    ResetTimeout = 2
    Answers <- MCAnswers
    Planners = {"debug", "travel", "state_first", "split", "legacy"}
    TmpRefs = {"ta", "tb", "tc", "td"}
    AutoRef <- MCAutoRef
    Player = "player"
    EndedQuests = {"quest"}
    MaxPatchOps = 3
    Workers <- TwoThreads
    Loop = t1
    Sessions = {"one", "other"}
    MaxVersion = 2
    Slices = 2
INVARIANTS
    AllTypesOK
    OneFreshProbe
    PlanIsSound
    StoryMatchesPatch
    CallsHoldNoTransaction
PROPERTIES
    BackoffAfterFailure
    HealthyProviderIsServed
    ShutdownIsOrderly
