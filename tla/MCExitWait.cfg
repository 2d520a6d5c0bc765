SPECIFICATION Spec
CONSTANTS
    Waits = {c1, c2}
    Deletes = {d1}
    NoCall = NoCall
INVARIANTS NoMissedExit
PROPERTIES ExitReturns
CHECK_DEADLOCK FALSE
