\* Two workers take turns at the lease of one Agent while its route, model,
\* identity, restrictions and wallet change.
SPECIFICATION Spec
CONSTANTS
    Workers = {w1, w2}
    NoWorker = NoWorker
    Connectors = {c1}
    NoConnector = NoConnector
    Restrictions = {"OWNER_PAUSE"}
    MaxEpoch = 2
    MaxRoutes = 1
    MaxEnergy = 2
    Fee = 1
    ActivationFloor = 2
    Goals = {}
    Traits = {}
    Actions = {a1}
    MaxEdits = 0
SYMMETRY WorkerSymmetry
INVARIANTS
    TypeOK
    ActiveIsAuthorised
    EpochHasOneWorker
PROPERTIES
    ClaimsMoveForward
    TurnsAreEntitled
CHECK_DEADLOCK FALSE
