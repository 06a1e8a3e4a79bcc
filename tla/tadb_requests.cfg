\* The worker and a test; two good keys, one that is not eligible, tables of one.
SPECIFICATION Spec
CONSTANTS
    None = None
    A = A
    B = B
    C = C
    T = T
    W = W
    Thread = {W, T}
    Worker = W
    Key = {A, B, C}
    Eligible = {A, B}
    MinInterval = 2
    Cooldown = 2
    MaxAttempts = 2
    MaxLimited = 1
    MaxRejected = 1
INVARIANTS TypeOK KeyStaysGood
PROPERTIES NoRequestAfterRefusal RequestsAreSpaced GateHolds UnwantedCallsEnd
CHECK_DEADLOCK FALSE
