\* One attempt with a quantity off the step, private streams that fail, unreadable
\* answers, late events, a restart and a journal write that fails.
SPECIFICATION CloseSpec
CONSTANTS
    first1 = first1
    second1 = second1
    first2 = first2
    second2 = second2
    Plan = plan1
    Pool = pool
    Ops = {plan1}
    Threads = {pool}
    Fills = {0, 2}
    Opened = {3}
    Quantities = {2}
    QuantityStep = 2
    MinimumQuantity = 2
    MaxAttempts = 1
    ShortFills = FALSE
    Garbled = TRUE
    StreamsFail = TRUE
    LateEvents = TRUE
    MaxRestarts = 1
    MaxFaults = 1
    Keys <- OneKeys
    KeyOf <- OneKeyOf
INVARIANTS
    AtMostOneLiveCreate
PROPERTIES
    ConfirmedByUser
\* The system stops when the position is closed or lost.
CHECK_DEADLOCK FALSE
