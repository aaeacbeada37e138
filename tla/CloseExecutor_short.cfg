\* Orders that may be filled short, so that the legs may differ and either may be
\* left alone for the retry; events of an earlier attempt arrive late.
SPECIFICATION CloseSpec
CONSTANTS
    first1 = first1
    second1 = second1
    first2 = first2
    second2 = second2
    Plan = plan1
    Pool = pool
    Ops = {plan1}
    Threads = {pool}
    Fills = {0, 1, 2}
    Opened = {2}
    Quantities = {1, 2}
    QuantityStep = 1
    MinimumQuantity = 1
    MaxAttempts = 2
    ShortFills = TRUE
    Garbled = FALSE
    StreamsFail = FALSE
    LateEvents = TRUE
    MaxRestarts = 0
    MaxFaults = 0
    Keys <- TwoKeys
    KeyOf <- TwoKeyOf
INVARIANTS
    NeverOverclosed
    ClosedIsFlat
\* The system stops when the position is closed or lost.
CHECK_DEADLOCK FALSE
