SPECIFICATION Spec
CONSTANTS
    Events = {"TaskCreate", "TaskStart", "TaskExit", "TaskDelete"}
    Kind <- MCKind
    NoEvent = NoEvent
    Capacity = 2
INVARIANTS TypeOK StreamMakesSense NoLossNoRepeat NoOvertaking FlushIsSent
PROPERTIES SendReturns
CHECK_DEADLOCK FALSE
