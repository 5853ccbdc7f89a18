\* A worker checkpoints while goals, traits and routes change, connectors
\* fail and a second worker takes the lease over.
SPECIFICATION Spec
CONSTANTS
    Workers = {w1, w2}
    NoWorker = NoWorker
    Connectors = {c1, c2}
    NoConnector = NoConnector
    Restrictions = {}
    MaxEpoch = 2
    MaxRoutes = 2
    MaxEnergy = 0
    Fee = 0
    ActivationFloor = 1
    Goals = {g1}
    Traits = {b1}
    Actions = {}
    MaxEdits = 2
SYMMETRY MemorySymmetry
INVARIANTS
    CheckpointIsCurrent
PROPERTIES
    CheckpointsAreOrdered
CHECK_DEADLOCK FALSE
