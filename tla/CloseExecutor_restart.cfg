\* A close and a retry, partial fills and a restart at any instant.
SPECIFICATION CloseSpec
CONSTANTS
    first1 = first1
    second1 = second1
    first2 = first2
    second2 = second2
    Plan = plan1
    Pool = pool
    Ops = {plan1}
    Threads = {pool}
    Fills = {0, 1, 2}
    Opened = {2}
    Quantities = {1, 2}
    QuantityStep = 1
    MinimumQuantity = 1
    MaxAttempts = 2
    ShortFills = FALSE
    Garbled = FALSE
    StreamsFail = FALSE
    LateEvents = FALSE
    MaxRestarts = 1
    MaxFaults = 0
    Keys <- TwoKeys
    KeyOf <- TwoKeyOf
INVARIANTS
    RemainingIsTrue
\* The system stops when the position is closed or lost.
CHECK_DEADLOCK FALSE
