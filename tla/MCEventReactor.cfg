SPECIFICATION Spec
CONSTANTS
    Units = {u1}
    Workers = {w1}
    NoUnit = NoUnit
    MaxRetries = 1
    Capacity = 1
    Budgets <- MCBudgets
INVARIANTS NoExitMissed AcceptedIsForwarded
PROPERTIES ExitRecorded ShutdownEnds
CHECK_DEADLOCK FALSE
