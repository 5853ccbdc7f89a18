\* Two requests under one key and three bind or revoke calls meet on two
\* entities and one principal.
SPECIFICATION FairSpec
CONSTANTS
    Requests = {r1, r2}
    Keys = {k1}
    Entities = {e1, e2}
    NoEntity = NoEntity
    Nobody = Nobody
    Calls = {b1, b2, b3}
    Principals = {p1}
    NoPrincipal = NoPrincipal
INVARIANTS
    TypeOK
    CommandsRunOnce
    LogTellsBindings
PROPERTIES
    OneChangeAtATime
    EverybodyGetsThrough
CHECK_DEADLOCK FALSE
