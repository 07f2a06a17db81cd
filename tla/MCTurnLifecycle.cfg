SPECIFICATION FairSpec
CONSTANTS
    c1 = c1
    c2 = c2
    c3 = c3
    NoClient = NoClient
    Clients <- ThreeClients
    MaxTurn = 4
    DayCap = 999999
    Scale = 600
    AdvanceModes <- Always
    MaxLockLosses = 2
INVARIANTS
    TypeOK
    SessionMatchesItsRows
    PlanningTurnIsProtected
PROPERTIES
    VerdictsAreFinal
    CommittedTimeIsKept
    ImplementsTurnLog
    RuntimeLockIsFreed
