\* A create request of unknown outcome, and private streams that fail when the
\* user resumes it.
SPECIFICATION CloseSpec
CONSTANTS
    first1 = first1
    second1 = second1
    first2 = first2
    second2 = second2
    Plan = plan1
    Pool = pool
    Ops = {plan1}
    Threads = {pool}
    Fills = {0, 1}
    Opened = {1}
    Quantities = {1}
    QuantityStep = 1
    MinimumQuantity = 1
    MaxAttempts = 2
    ShortFills = FALSE
    Garbled = FALSE
    StreamsFail = TRUE
    LateEvents = FALSE
    MaxRestarts = 0
    MaxFaults = 0
    Keys <- TwoKeys
    KeyOf <- TwoKeyOf
INVARIANTS
    NeverOverclosed
\* The system stops when the position is closed or lost.
CHECK_DEADLOCK FALSE
