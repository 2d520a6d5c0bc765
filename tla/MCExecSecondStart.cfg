\* Two Starts of one exec: the one that is refused hides the exit of the other.
SPECIFICATION Spec
CONSTANTS
    Starters = {"s1", "s2"}
    Deleters = {}
    NoObs = NoObs
    Scenarios <- TwoStarts
CHECK_DEADLOCK FALSE
INVARIANTS
    ExecExitPublished
