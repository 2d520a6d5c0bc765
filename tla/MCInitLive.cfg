SPECIFICATION Spec
CONSTANTS
    Starters = {"s1"}
    Deleters = {"d1"}
    Waiters = {"w1"}
    Scenarios <- LivenessScenarios
    NoObs = NoObs
PROPERTIES CallsReturn
CHECK_DEADLOCK FALSE
