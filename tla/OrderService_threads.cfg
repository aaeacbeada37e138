\* One id, two threads inside the service at once, a restart and a failing journal
\* write; quantities below and on the step.
SPECIFICATION Spec
CONSTANTS
    Keys = {k1}
    Fills = {0, 1}
    Ops = {op}
    Threads = {pool, other}
    Quantities = {1, 2}
    QuantityStep = 2
    MinimumQuantity = 2
    Garbled = TRUE
    MaxRestarts = 1
    MaxFaults = 1
INVARIANTS
    TypeOK
    LiveOrderJournalled
    TerminalIsTrue
PROPERTIES
    ConfirmationJournalledWithClaim
    ImplementsSubmitOnce
