\* No symmetry: it is unsound for liveness.
SPECIFICATION FairSpec
CONSTANTS
    Contracts = {c1}
    Activations = {a1}
    Settlements = {s1}
    Workers = {w1, w2}
    Tags = {t1}
    Refusals = {r1}
    MaxVersion = 1
    ReworkLimit = 1
    MaxAttempts = 2
    MaxFaults = 2
PROPERTIES
    LeasesEnd
    PrimaryResolves
CHECK_DEADLOCK FALSE
