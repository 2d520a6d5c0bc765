SPECIFICATION Spec
CONSTANTS
    Units = {u1, u2}
    Workers = {w1, w2, w3}
    NoUnit = NoUnit
    MaxRetries = 1
    MaxAdds = 3
INVARIANTS TypeOK Exclusive NoLostUpdate NoLostWakeup DrainedWhenStopped
PROPERTIES EveryUpdateIsRead ShutDownEnds ImplementsUnitWork
