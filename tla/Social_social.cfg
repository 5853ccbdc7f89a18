\* Two sessions make up to six calls about two entities, one relationship id
\* and one space; revisions of a relationship race each other.
SPECIFICATION SocialSpec
CONSTANTS
    Entities <- Pair
    Relationships = {x1}
    t1 = t1
    t2 = t2
    Terms <- Contents
    Sessions = {s1, s2}
    MaxVersion = 2
    MaxProposals = 3
    Members <- Pair
    Objects = {o1}
    Visitors = {s1, s2}
    MaxSpaceVersion = 4
    MaxCalls = 6
SYMMETRY Symmetry
INVARIANTS
    TypeOK
    VersionsAreAgreed
    LogTellsSpace
CHECK_DEADLOCK FALSE
