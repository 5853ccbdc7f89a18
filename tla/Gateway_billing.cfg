\* Two inferences of one payer race on one quote-backed reservation, with a
\* second wallet, cancellation, release, midnight, expiry and crashes.
SPECIFICATION Spec
CONSTANTS
    Entities = {alice, bob}
    Keys = {k1}
    Quotes = {q1}
    NoQuote = NoQuote
    Bases = {b1}
    TransferKeys = {t1}
    Sessions = {s1}
    Amounts = {1}
    MintAmount = 3
    Fee = 1
    ActivationFloor = 2
    Days = {1, 2}
    Executions = {e1, e2}
    MaxAttempts = 2
SYMMETRY CallSymmetry
INVARIANTS
    TypeOK
    MoneyIsConserved
    ChargesAreSettlements
    QuoteFollowsReservation
PROPERTIES
    OutcomesAreFinal
    CancelledIsNeverSent
    OnlyOverlookingOverdraws
CHECK_DEADLOCK FALSE
