SPECIFICATION Spec
CONSTANTS
    Observations <- MCObservations
    Starts = {c1, c2}
INVARIANTS TypeOK PhaseMatchesState ExitedOnce RunningOnlyOnceStarted OneClaim
PROPERTIES ExitIsFinal
