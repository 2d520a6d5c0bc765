\* One Start, one Delete of the exec, and the end of the container around them.
SPECIFICATION Spec
CONSTANTS
    Starters = {"s1"}
    Deleters = {"d1"}
    NoObs = NoObs
    Scenarios <- OneStart
CHECK_DEADLOCK FALSE
INVARIANTS
    NoStrandedExecUnit
    ExecExitPublished
    ExecExitIsReal
    NoExitWithoutUnit
PROPERTIES
    CallsReturn
