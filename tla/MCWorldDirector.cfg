SPECIFICATION FairSpec
CONSTANTS
    a1 = a1
    a2 = a2
    Agendas <- TwoAgendas
    MaxChainDepth = 2
    RunLimit = 1
    MaxAttempts = 2
    MaxTurn = 3
    MaxCrashes = 1
CHECK_DEADLOCK FALSE
INVARIANT
    AgendaRunsAreSound
PROPERTIES
    BacksOffAfterFailure
    RunsSettle
