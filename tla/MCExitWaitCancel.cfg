SPECIFICATION Spec
CONSTANTS
    Waits = {c1, c2}
    Deletes = {}
    NoCall = NoCall
PROPERTIES CancelReturns
CHECK_DEADLOCK FALSE
