CONSTANTS
    Texts = {t1, t2}
    NoText = none
    Links = {l1}
    Workers = {w1, w2}
    MaxChanges = 2
    MaxBatches = 1
    MaxFailures = 1
    Turns = {1, 2, 3}
    Directors = {2}
    NewTurn = 4
    Semantic = {1}
    Others <- MCOthers
    Caps = {3, 5, 8}
    Costs = {1, 2, 4}
    Extras = {0, 1}
    Fixes <- MCFixes
    Threshold = 40
    Cadence = 2
    Prompts = {"p1", "p2"}
    NoPrompt = "none"
    Indexers = {1, 2}
    MaxTurns = 6
    MaxMisses = 2
    MaxEdits = 1
    Ids <- ObjectIds
    Population <- MCPopulation
    Patches <- MCPatches
    Arrivals <- MCArrivals
    MaxPatches = 1
    MaxNoise = 1
SPECIFICATION MCSpec
SYMMETRY Symmetry
INVARIANTS IndexIsCurrent PromptIsSound
PROPERTIES ChangesAreFollowed AppliedPatchIsSound
CHECK_DEADLOCK FALSE
