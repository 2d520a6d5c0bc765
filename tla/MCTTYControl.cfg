SPECIFICATION Spec
CONSTANTS
    Resizers = {"r1", "r2", "r3"}
    Scenarios <- OneEarlyOrSpared
    Backlog = 1
    NoCall = NoCall
INVARIANTS AckIsOwn StaleNeverWins NoConnectionLeft
PROPERTIES CallsReturn
CHECK_DEADLOCK FALSE
