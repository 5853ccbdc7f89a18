\* One worker; a crash, and a re-send that is refused.
SPECIFICATION Spec
CONSTANTS
    Contracts = {c1}
    Activations = {a1}
    Settlements = {s1}
    Workers = {w1}
    Tags = {t1}
    Refusals = {r1}
    MaxVersion = 1
    ReworkLimit = 0
    MaxAttempts = 1
    MaxFaults = 1
INVARIANT FailedMeansNoEffect
CHECK_DEADLOCK FALSE
