CONSTANTS
    Player = player
    Npcs = {n1, n2}
    Items = {}
    Quests = {}
    Zones = {z1}
    Windows <- LinkWindows
    MaxTurn = 2
    MaxOps = 3
    Claims = {"c"}
    Places = {"here", "there"}
    Texts = {"one", "other"}
    Limit = 1
    MaxDay = 3
    ClaimOps = 2
SPECIFICATION MCSpec
SYMMETRY NpcSymmetry
INVARIANTS FlipIsClean LogReplays KnowledgeIsHeard
PROPERTY GoneNpcIsAlone
CHECK_DEADLOCK FALSE
