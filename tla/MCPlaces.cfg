SPECIFICATION MCSpec
CONSTANTS
    Player = player
    Npcs = {n1}
    Items = {i1, i2}
    Quests = {q1}
    Zones = {z1, z2}
    Windows <- LinkWindows
    MaxTurn = 3
    MaxOps = 2
    ListLimit = 2
    InventoryLimit = 1
    HistoryLimit = 2
    OrphanedLimit = 1
    LookbackTurns = 2
    Inputs = {"a", "b"}
    Rules = {"r"}
    CommandTurns = 2
SYMMETRY ItemSymmetry
INVARIANTS
    AllTypesOK
    PlayerIsSomewhere
    NothingIsLeftOver
PROPERTIES
    NarratorSeesTheWorld
    CommandsGoBack
CHECK_DEADLOCK FALSE
