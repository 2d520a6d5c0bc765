SPECIFICATION Safe
CONSTANTS
    Starters = {"s1"}
    Deleters = {"d1"}
    Waiters = {}
    Scenarios <- PlainScenario
    NoObs = NoObs
INVARIANTS ExitPublished
CHECK_DEADLOCK FALSE
