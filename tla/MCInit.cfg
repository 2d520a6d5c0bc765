SPECIFICATION Safe
CONSTANTS
    Starters = {"s1", "s2"}
    Deleters = {"d1"}
    Waiters = {"w1"}
    Scenarios <- SafetyScenarios
    NoObs = NoObs
INVARIANTS NoStrandedUnit ExitIsReal CreatedHasPid EventsOnce
CHECK_DEADLOCK FALSE
