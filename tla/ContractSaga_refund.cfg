\* One worker; the answer to the refund is lost once.
SPECIFICATION FairSpec
CONSTANTS
    Contracts = {c1}
    Activations = {a1}
    Settlements = {s1}
    Workers = {w1}
    Tags = {t1}
    Refusals = {r1}
    MaxVersion = 2
    ReworkLimit = 0
    MaxAttempts = 1
    MaxFaults = 1
PROPERTY RefundResolves
CHECK_DEADLOCK FALSE
