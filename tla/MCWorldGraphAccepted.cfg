CONSTANTS
    Player = player
    Npcs = {}
    Items = {}
    Quests = {q1}
    Zones = {z1}
    Windows <- NoWindows
    MaxTurn = 1
    MaxOps = 2
SPECIFICATION Spec
PROPERTY EndingClosesTracking
CHECK_DEADLOCK FALSE
