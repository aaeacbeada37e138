\* One plan, unreadable answers, private streams that fail, and a restart at any
\* instant; the pool is fair.
SPECIFICATION FairOpenSpec
CONSTANTS
    First = first
    Second = second
    Plan = plan1
    Pool = pool
    Keys = {first, second}
    Ops = {plan1}
    Threads = {pool}
    Fills = {0, 1}
    Quantities = {1}
    QuantityStep = 1
    MinimumQuantity = 1
    Garbled = TRUE
    StreamsFail = TRUE
    LateEvents = FALSE
    MaxRestarts = 1
    MaxFaults = 0
INVARIANTS
    AtMostOneLiveCreate
    SecondFollowsFilledFirst
PROPERTIES
    DeferredWaitsForUser
    TaskEnds
\* The system stops when the plan is over and the bounds are used up.
CHECK_DEADLOCK FALSE
