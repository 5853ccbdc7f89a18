\* Two commands reserve from one wallet at the same time.
SPECIFICATION Spec
CONSTANTS
    Entities = {alice, bob}
    Keys = {k1, k2}
    Quotes = {}
    NoQuote = NoQuote
    Bases = {b1}
    TransferKeys = {t1}
    Sessions = {s1, s2}
    Amounts = {1, 2}
    MintAmount = 4
    Fee = 1
    ActivationFloor = 2
    Days = {1, 2}
    Executions = {}
    MaxAttempts = 2
SYMMETRY LedgerSymmetry
INVARIANTS
    AvailableNonNegative
CHECK_DEADLOCK FALSE
