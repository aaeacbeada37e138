\* A private event after the plan has completed, and a restart.
SPECIFICATION OpenSpec
CONSTANTS
    First = first
    Second = second
    Plan = plan1
    Pool = pool
    Keys = {first, second}
    Ops = {plan1}
    Threads = {pool}
    Fills = {0, 1}
    Quantities = {1}
    QuantityStep = 1
    MinimumQuantity = 1
    Garbled = FALSE
    StreamsFail = FALSE
    LateEvents = TRUE
    MaxRestarts = 1
    MaxFaults = 0
INVARIANTS
    AtMostOneLiveCreate
\* The system stops when the plan is over and the bounds are used up.
CHECK_DEADLOCK FALSE
