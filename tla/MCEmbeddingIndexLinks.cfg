CONSTANTS
    Texts = {t1, t2}
    NoText = none
    Links = {l1}
    Workers = {w1}
    MaxChanges = 2
    MaxBatches = 1
    MaxFailures = 0
SPECIFICATION Spec
SYMMETRY Symmetry
INVARIANT ContextIsCurrent
CHECK_DEADLOCK FALSE
