SPECIFICATION MCSpec
CONSTANTS
    sword = sword
    player = player
    npc = npc
    swordOfPlayer = swordOfPlayer
    swordOfNpc = swordOfNpc
    alliance = alliance
    allianceBack = allianceBack
    Objects <- MCObjects
    Facts <- MCFacts
    Anchors <- MCAnchors
    Rivals <- MCRivals
    Grounds <- MCGrounds
    Derived <- MCDerived
    Lists <- MCLists
    Hidden <- MCHidden
    MaxBullets = 1
    Cuts <- MCCuts
    Cooldown = 2
    MaxTurn = 4
    MaxRepeats = 0
    Parts = {"player"}
    Keys = {"feud"}
    Budget = 1
    Span = 2
    MaxDepth = 2
    Shows = {1, 2}
    WindowObjects = {"gate"}
    Refs = {"tmp"}
    Readers <- MCReaders
    Names = {"one", "other"}
    MaxEntries = 1
    Ttl = 2
    Backoff = 1
    Clients = {1, 2, 3}
    Entities = {"shop", "npc", "player"}
    Nobody = "nobody"
    Items = {"sword"}
    Bases <- MCBases
    Patches <- MCPatches
    Told <- MCTold
    MaxActs = 3
CHECK_DEADLOCK FALSE
PROPERTIES
    CallbacksRest
