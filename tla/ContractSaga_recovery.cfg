\* Two workers, two adverse events, an activation that may have to be
\* repeated for a second version, and two tags per outcome so that one
\* operation can be reported in two different ways.
SPECIFICATION Spec
CONSTANTS
    Contracts = {c1}
    Activations = {a1, a2}
    Settlements = {s1}
    Workers = {w1, w2}
    Tags = {t1, t2}
    Refusals = {r1}
    MaxVersion = 2
    ReworkLimit = 0
    MaxAttempts = 2
    MaxFaults = 2
SYMMETRY AttemptSymmetry
INVARIANTS
    TypeOK
    ActiveOnlyIfFunded
    ActiveBindsAcceptedVersion
    OnlyOrphansAreRefunded
    FailureIsDefinite
    NoMoneyIsForgotten
    TerminalStatesConverged
    ResultEndsDispatch
    SnapshotAgreesWithInbox
    PersistedSagaInvariant
PROPERTIES
    ResultsAreFinal
    KeepsThePromise
\* Both parties may be done, and nothing restarts a settled contract.
CHECK_DEADLOCK FALSE
