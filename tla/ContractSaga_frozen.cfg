\* Two workers, two tags: two different reports of one funding.
SPECIFICATION Spec
CONSTANTS
    Contracts = {c1}
    Activations = {a1}
    Settlements = {s1}
    Workers = {w1, w2}
    Tags = {t1, t2}
    Refusals = {r1}
    MaxVersion = 2
    ReworkLimit = 0
    MaxAttempts = 1
    MaxFaults = 2
PROPERTY FrozenSagaSendsNothing
CHECK_DEADLOCK FALSE
