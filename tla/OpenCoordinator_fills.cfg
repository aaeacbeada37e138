\* Fills that differ between the legs or are too small to follow, a restart and a
\* journal write that fails, with readable answers and private streams that stay up.
SPECIFICATION OpenSpec
CONSTANTS
    First = first
    Second = second
    Plan = plan1
    Pool = pool
    Keys = {first, second}
    Ops = {plan1}
    Threads = {pool}
    Fills = {0, 1, 2}
    Quantities = {1, 2}
    QuantityStep = 1
    MinimumQuantity = 2
    Garbled = FALSE
    StreamsFail = FALSE
    LateEvents = FALSE
    MaxRestarts = 1
    MaxFaults = 1
INVARIANTS
    CompletedIsHedged
    FinalMeansAtRest
\* The system stops when the plan is over and the bounds are used up.
CHECK_DEADLOCK FALSE
