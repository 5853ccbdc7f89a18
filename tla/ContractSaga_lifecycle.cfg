\* One contract through rework, dispute and repeated settlement attempts.
SPECIFICATION Spec
CONSTANTS
    Contracts = {c1}
    Activations = {a1, a2}
    Settlements = {s1, s2}
    Workers = {w1, w2}
    Tags = {t1}
    Refusals = {r1}
    MaxVersion = 2
    ReworkLimit = 1
    MaxAttempts = 2
    MaxFaults = 2
SYMMETRY AttemptSymmetry
INVARIANTS
    SettledOnlyIfDistributed
    ForwardRecoveryNeverNeeded
PROPERTIES
    TriggerNeverAborts
CHECK_DEADLOCK FALSE
