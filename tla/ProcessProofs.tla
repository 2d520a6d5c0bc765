---------------------------- MODULE ProcessProofs ----------------------------
(***************************************************************************)
(* Proofs about Process, for any set of observations and any number of     *)
(* Start calls.  Everything rests on what CopyTo keeps of an exit.         *)
(***************************************************************************)
EXTENDS Process, TLAPS

\* A merge of two pStates is a pState.
LEMMA CopyToType ==
    ASSUME NEW s \in pStates, NEW other \in pStates
    PROVE  CopyTo(s, other) \in pStates
BY DEF CopyTo, pStates

\* A merge keeps an exit, its code and its time (state.go:393-414).
LEMMA CopyToKeepsExit ==
    ASSUME NEW s \in pStates, NEW other \in pStates
    PROVE  /\ Exited(other) => Exited(CopyTo(s, other))
           /\ other.exitCode > 0 => CopyTo(s, other).exitCode = other.exitCode
           /\ other.exitedAt > 0 => CopyTo(s, other).exitedAt = other.exitedAt
<1> DEFINE at == IF other.exitedAt = 0 THEN s.exitedAt ELSE other.exitedAt
           code == IF other.exitCode = 0 THEN s.exitCode ELSE other.exitCode
           known == code > 0 \/ toStatus(other.status) = "STOPPED" \/ at > 0
           r == CopyTo(s, other)
<1>1. \/ r = other
      \/ r.exitedAt = at /\ r.exitCode = code /\ r.status = other.status
      \/ r.exitedAt = at /\ r.exitCode = code /\ r.status = s.status
         /\ (~known \/ Exited(s))
  BY DEF CopyTo, pStates, Exited
<1>2. /\ s.exitedAt \in Nat /\ s.exitCode \in Nat
      /\ other.exitedAt \in Nat /\ other.exitCode \in Nat
  BY DEF pStates
<1> HIDE DEF r
<1>3. Exited(other) => Exited(r)
  BY <1>1, <1>2 DEF Exited
<1>4. /\ other.exitCode > 0 => r.exitCode = other.exitCode
      /\ other.exitedAt > 0 => r.exitedAt = other.exitedAt
  BY <1>1, <1>2
<1>5. QED
  BY <1>3, <1>4 DEF r

\* The status of a merge is that of one of its two sides.
LEMMA CopyToStatus ==
    ASSUME NEW s \in pStates, NEW other \in pStates
    PROVE  CopyTo(s, other).status \in {s.status, other.status}
BY DEF CopyTo, pStates


-----------------------------------------------------------------------------
(***************************************************************************)
(* The inductive invariant.  ExitedOnce needs to know that nobody has been *)
(* told of an exit before the phase moved; OneClaim that a claim is held   *)
(* in phase starting only, unless an exit or a delete overtook it, so that *)
(* the one transition into starting finds no claim.                        *)
(***************************************************************************)
NotToldYet == phase \in {"created", "starting", "running"} => exits = 0

ClaimHeld == \A c \in Starts : start[c] = "claimed" =>
                                   phase \in {"starting", "exited", "deleted"}

IInv == /\ TypeOK
        /\ PhaseMatchesState
        /\ ExitedOnce /\ NotToldYet
        /\ RunningOnlyOnceStarted
        /\ OneClaim /\ ClaimHeld

\* advance moves along phaseTransitions or not at all.
LEMMA AdvanceMoves ==
    ASSUME NEW ph \in Phases, NEW next \in Phases
    PROVE  /\ advance(ph, next) \in Phases
           /\ canBecome(ph, "starting") <=> ph = "created"
           /\ next = "starting" =>
                 advance(ph, next) = IF ph = "created" THEN next ELSE ph
           /\ next = "created" =>
                 advance(ph, next) = IF ph = "starting" THEN next ELSE ph
           /\ next = "running" =>
                 advance(ph, next) = IF ph = "starting" THEN next ELSE ph
           /\ next = "exited" =>
                 advance(ph, next) = IF ph = "deleted" THEN ph ELSE next
           /\ next = "deleted" => advance(ph, next) = next
<1>1. /\ phaseTransitions["created"] = {"created", "starting", "exited", "deleted"}
      /\ phaseTransitions["starting"] = {"created", "running", "exited", "deleted"}
      /\ phaseTransitions["running"] = {"running", "exited", "deleted"}
      /\ phaseTransitions["exited"] = {"exited", "deleted"}
      /\ phaseTransitions["deleted"] = {"deleted"}
  BY DEF phaseTransitions
<1>2. QED
  BY <1>1 DEF advance, canBecome, Phases

\* applyState (process.go:363-386), for any observation.
LEMMA MergedFacts ==
    ASSUME NEW ph \in Phases, NEW st \in pStates, NEW s \in pStates
    PROVE  /\ merged(ph, st, s) \in pStates
           /\ Exited(st) => Exited(merged(ph, st, s))
           /\ st.exitCode > 0 => merged(ph, st, s).exitCode = st.exitCode
           /\ st.exitedAt > 0 => merged(ph, st, s).exitedAt = st.exitedAt
           /\ beforeRunning(ph) /\ toStatus(st.status) # "RUNNING"
                 => toStatus(merged(ph, st, s).status) # "RUNNING"
<1> DEFINE in == IF beforeRunning(ph) /\ toStatus(s.status) = "RUNNING"
                 THEN [s EXCEPT !.status = "created"] ELSE s
<1>1. in \in pStates
  BY DEF pStates, Statuses, Created
<1>2. beforeRunning(ph) => toStatus(in.status) # "RUNNING"
  <2>1. toStatus("created") = "CREATED"
    BY DEF toStatus, Created, Running, Stopped
  <2>2. [s EXCEPT !.status = "created"].status = "created"
    BY DEF pStates
  <2>3. QED
    BY <2>1, <2>2
<1>3. merged(ph, st, s) = CopyTo(in, st)
  BY DEF merged
<1> HIDE DEF in
<1>4. CopyTo(in, st).status \in {in.status, st.status}
  BY <1>1, CopyToStatus
<1>5. CopyTo(in, st) \in pStates
  BY <1>1, CopyToType
<1>6. /\ Exited(st) => Exited(CopyTo(in, st))
      /\ st.exitCode > 0 => CopyTo(in, st).exitCode = st.exitCode
      /\ st.exitedAt > 0 => CopyTo(in, st).exitedAt = st.exitedAt
  BY <1>1, CopyToKeepsExit
<1>7. QED
  BY <1>2, <1>3, <1>4, <1>5, <1>6

-----------------------------------------------------------------------------
\* SetState preserves the invariant, whoever calls it (the reactor, Wait, Start,
\* Delete) and whatever it has read.
LEMMA SetStateKeepsInv ==
    ASSUME IInv, NEW s \in pStates, SetState(s)
    PROVE  /\ phase' \in Phases /\ state' \in pStates /\ exits' \in Nat
           /\ PhaseMatchesState' /\ ExitedOnce' /\ NotToldYet'
           /\ RunningOnlyOnceStarted'
           /\ phase' = phase \/ phase' = "exited"
<1>1. /\ phase \in Phases /\ state \in pStates /\ exits \in Nat
  BY DEF IInv, TypeOK
<1>2. state' = merged(phase, state, s) /\ state' \in pStates
  BY <1>1, MergedFacts DEF SetState
<1>3. Exited(state) => Exited(state')
  BY <1>1, <1>2, MergedFacts
<1>4. "exited" \in Phases
  BY DEF Phases
<1>5. phase' = IF Exited(state') /\ phase # "deleted" THEN "exited" ELSE phase
  BY <1>1, <1>2, <1>4, AdvanceMoves DEF SetState, phaseAfter
<1>6. exits' = exits + IF phase' = "exited" /\ phase # "exited" THEN 1 ELSE 0
  BY DEF SetState, justExited
<1>7. PhaseMatchesState'
  BY <1>1, <1>3, <1>5 DEF IInv, PhaseMatchesState
<1>8. ExitedOnce' /\ NotToldYet' /\ exits' \in Nat
  BY <1>1, <1>5, <1>6 DEF IInv, ExitedOnce, NotToldYet, Phases
<1>9. RunningOnlyOnceStarted'
  <2>1. CASE beforeRunning(phase)
    BY <2>1, <1>1, <1>2, MergedFacts DEF IInv, RunningOnlyOnceStarted
  <2>2. CASE ~beforeRunning(phase)
    BY <2>2, <1>5 DEF RunningOnlyOnceStarted, beforeRunning
  <2>3. QED
    BY <2>1, <2>2
<1>10. QED
  BY <1>1, <1>2, <1>4, <1>5, <1>7, <1>8, <1>9

\* A process that has just been created satisfies the invariant.
LEMMA InitInv == Init => IInv
<1> SUFFICES ASSUME Init PROVE IInv
  OBVIOUS
<1>1. toStatus("") = "UNKNOWN"
  BY DEF toStatus, Created, Running, Stopped
<1>2. noState \in pStates
  BY DEF noState, pStates, Statuses
<1>3. toStatus(noState.status) = "UNKNOWN"
  BY <1>1 DEF noState
<1>4. ~(noState.exitCode > 0) /\ ~(noState.exitedAt > 0)
  BY DEF noState
<1>5. ~Exited(noState) /\ toStatus(noState.status) # "RUNNING"
  BY <1>3, <1>4 DEF Exited
<1>6. PhaseMatchesState /\ RunningOnlyOnceStarted
  BY <1>5 DEF Init, PhaseMatchesState, RunningOnlyOnceStarted
<1>7. TypeOK /\ ExitedOnce /\ NotToldYet /\ OneClaim /\ ClaimHeld
  BY <1>2 DEF Init, TypeOK, ExitedOnce, NotToldYet, OneClaim, ClaimHeld, Phases
<1>8. QED
  BY <1>6, <1>7 DEF IInv

\* SetState, the start claim and the deletion keep the invariant, in any order.
LEMMA StepInv == IInv /\ [Next]_vars => IInv'
<1> SUFFICES ASSUME IInv, [Next]_vars PROVE IInv'
  OBVIOUS
<1> USE ObservationsType
<1>1. /\ phase \in Phases /\ state \in pStates /\ exits \in Nat
      /\ start \in [Starts -> {"new", "claimed", "refused", "advanced", "done"}]
      /\ \A next \in Phases : next \in {"created", "starting", "running", "exited",
                                        "deleted"}
      /\ {"created", "starting", "running", "exited", "deleted"} \subseteq Phases
  BY DEF IInv, TypeOK, Phases
<1>2. CASE Observe
  <2>1. PICK s \in Observations : SetState(s)
    BY <1>2 DEF Observe
  <2>2. start' = start
    BY <1>2 DEF Observe
  <2>3. /\ phase' \in Phases /\ state' \in pStates /\ exits' \in Nat
        /\ PhaseMatchesState' /\ ExitedOnce' /\ NotToldYet'
        /\ RunningOnlyOnceStarted'
        /\ phase' = phase \/ phase' = "exited"
    BY <2>1, SetStateKeepsInv
  <2>4. OneClaim' /\ ClaimHeld'
    BY <1>1, <2>2, <2>3 DEF IInv, OneClaim, ClaimHeld
  <2>5. QED
    BY <1>1, <2>2, <2>3, <2>4 DEF IInv, TypeOK
<1>3. CASE finishDelete
  <2>1. phase' = "deleted" /\ UNCHANGED <<state, start, exits>>
    BY <1>1, <1>3, AdvanceMoves DEF finishDelete
  <2>2. QED
    BY <1>1, <2>1 DEF IInv, TypeOK, PhaseMatchesState, ExitedOnce, NotToldYet,
       RunningOnlyOnceStarted, OneClaim, ClaimHeld, beforeRunning
<1>4. ASSUME NEW c \in Starts, beginStart(c)
      PROVE  IInv'
  <2>1. /\ phase' = IF phase = "created" THEN "starting" ELSE phase
        /\ start' = [start EXCEPT ![c] = IF phase = "created" THEN "claimed"
                                                              ELSE "refused"]
        /\ start[c] = "new"
        /\ UNCHANGED <<state, exits>>
    BY <1>1, <1>4, AdvanceMoves DEF beginStart
  <2>2. TypeOK'
    BY <1>1, <2>1 DEF TypeOK
  <2>3. PhaseMatchesState' /\ ExitedOnce' /\ NotToldYet' /\ RunningOnlyOnceStarted'
    BY <2>1 DEF IInv, PhaseMatchesState, ExitedOnce, NotToldYet,
       RunningOnlyOnceStarted, beforeRunning
  <2>4. OneClaim' /\ ClaimHeld'
    BY <1>1, <2>1 DEF IInv, OneClaim, ClaimHeld
  <2>5. QED
    BY <2>2, <2>3, <2>4 DEF IInv
<1>5. ASSUME NEW c \in Starts, abortStart(c)
      PROVE  IInv'
  <2>1. /\ phase' = IF phase = "starting" THEN "created" ELSE phase
        /\ start' = [start EXCEPT ![c] = "new"]
        /\ start[c] = "claimed"
        /\ UNCHANGED <<state, exits>>
    BY <1>1, <1>5, AdvanceMoves DEF abortStart
  <2>2. TypeOK'
    BY <1>1, <2>1 DEF TypeOK
  <2>3. PhaseMatchesState' /\ ExitedOnce' /\ NotToldYet' /\ RunningOnlyOnceStarted'
    BY <2>1 DEF IInv, PhaseMatchesState, ExitedOnce, NotToldYet,
       RunningOnlyOnceStarted, beforeRunning
  <2>4. OneClaim' /\ ClaimHeld'
    BY <1>1, <2>1 DEF IInv, OneClaim, ClaimHeld
  <2>5. QED
    BY <2>2, <2>3, <2>4 DEF IInv
<1>6. ASSUME NEW c \in Starts, finishStart(c)
      PROVE  IInv'
  <2>1. /\ phase' = IF phase = "starting" THEN "running" ELSE phase
        /\ start' = [start EXCEPT ![c] = "advanced"]
        /\ start[c] = "claimed"
        /\ UNCHANGED <<state, exits>>
    BY <1>1, <1>6, AdvanceMoves DEF finishStart
  <2>2. TypeOK'
    BY <1>1, <2>1 DEF TypeOK
  <2>3. PhaseMatchesState' /\ ExitedOnce' /\ NotToldYet' /\ RunningOnlyOnceStarted'
    BY <2>1 DEF IInv, PhaseMatchesState, ExitedOnce, NotToldYet,
       RunningOnlyOnceStarted, beforeRunning
  <2>4. OneClaim' /\ ClaimHeld'
    BY <1>1, <2>1 DEF IInv, OneClaim, ClaimHeld
  <2>5. QED
    BY <2>2, <2>3, <2>4 DEF IInv
<1>7. ASSUME NEW c \in Starts, finishStartState(c)
      PROVE  IInv'
  <2>1. PICK s \in Observations : SetState(s)
    BY <1>7 DEF finishStartState
  <2>2. start' = [start EXCEPT ![c] = "done"] /\ start[c] = "advanced"
    BY <1>7 DEF finishStartState
  <2>3. /\ phase' \in Phases /\ state' \in pStates /\ exits' \in Nat
        /\ PhaseMatchesState' /\ ExitedOnce' /\ NotToldYet'
        /\ RunningOnlyOnceStarted'
        /\ phase' = phase \/ phase' = "exited"
    BY <2>1, SetStateKeepsInv
  <2>4. OneClaim' /\ ClaimHeld'
    BY <1>1, <2>2, <2>3 DEF IInv, OneClaim, ClaimHeld
  <2>5. QED
    BY <1>1, <2>2, <2>3, <2>4 DEF IInv, TypeOK
<1>8. ASSUME NEW c \in Starts, writePid(c)
      PROVE  IInv'
  <2>1. PICK s \in Observations : state' = [state EXCEPT !.pid = s.pid]
    BY <1>8 DEF writePid
  <2>2. UNCHANGED <<phase, start, exits>>
    BY <1>8 DEF writePid
  <2>3. /\ state' \in pStates
        /\ state'.exitedAt = state.exitedAt /\ state'.exitCode = state.exitCode
        /\ state'.status = state.status
    BY <1>1, <2>1 DEF pStates
  <2>4. Exited(state') <=> Exited(state)
    BY <2>3 DEF Exited
  <2>5. QED
    BY <1>1, <2>2, <2>3, <2>4 DEF IInv, TypeOK, PhaseMatchesState, ExitedOnce,
       NotToldYet, RunningOnlyOnceStarted, OneClaim, ClaimHeld
<1>9. CASE UNCHANGED vars
  BY <1>9 DEF vars, IInv, TypeOK, PhaseMatchesState, ExitedOnce, NotToldYet,
     RunningOnlyOnceStarted, OneClaim, ClaimHeld
<1>10. QED
  BY <1>2, <1>3, <1>4, <1>5, <1>6, <1>7, <1>8, <1>9 DEF Next

-----------------------------------------------------------------------------
\* The fields keep their types, whatever order observations, starts and deletes of
\* process.go come in.
THEOREM TypeCorrect == Spec => []TypeOK
BY InitInv, StepInv, PTL DEF Spec, IInv

\* The phase and the state of a process never disagree about whether it has exited
\* (applyState, process.go:363-386).
THEOREM PhaseAgrees == Spec => []PhaseMatchesState
BY InitInv, StepInv, PTL DEF Spec, IInv

\* At most one caller of SetState is told that it ended the process, and exactly one
\* once the process has exited: TaskExit is sent once (process.go:345-350).
THEOREM OneExit == Spec => []ExitedOnce
BY InitInv, StepInv, PTL DEF Spec, IInv

\* No process is reported running before its Start has finished (phase.go:15-17).
THEOREM NotRunningEarly == Spec => []RunningOnlyOnceStarted
BY InitInv, StepInv, PTL DEF Spec, IInv

\* At most one Start holds the claim (beginStart, process.go:284-294).
THEOREM ClaimIsExclusive == Spec => []OneClaim
BY InitInv, StepInv, PTL DEF Spec, IInv

\* A step keeps what is known of an exit.
LEMMA StepKeepsExit ==
    IInv /\ [Next]_vars =>
        [/\ Exited(state) => Exited(state')
         /\ state.exitCode > 0 => state'.exitCode = state.exitCode
         /\ state.exitedAt > 0 => state'.exitedAt = state.exitedAt]_vars
<1> SUFFICES ASSUME IInv, Next
             PROVE  /\ Exited(state) => Exited(state')
                    /\ state.exitCode > 0 => state'.exitCode = state.exitCode
                    /\ state.exitedAt > 0 => state'.exitedAt = state.exitedAt
  OBVIOUS
<1> USE ObservationsType
<1>1. phase \in Phases /\ state \in pStates
  BY DEF IInv, TypeOK
<1>2. CASE \E s \in Observations : SetState(s)
  BY <1>1, <1>2, MergedFacts DEF SetState
<1>3. CASE \E s \in Observations : state' = [state EXCEPT !.pid = s.pid]
  <2>1. /\ state'.exitedAt = state.exitedAt /\ state'.exitCode = state.exitCode
        /\ state'.status = state.status
    BY <1>1, <1>3 DEF pStates
  <2>2. QED
    BY <2>1 DEF Exited
<1>4. CASE state' = state
  BY <1>4
<1>5. QED
  BY <1>2, <1>3, <1>4 DEF Next, Observe, finishDelete, beginStart, abortStart,
     writePid, finishStart, finishStartState

\* An exit, its code and its time are final, for every sequence of observations
\* (CopyTo, state.go:389-414).
THEOREM ExitStays == Spec => ExitIsFinal
BY InitInv, StepInv, StepKeepsExit, PTL DEF Spec, ExitIsFinal
=============================================================================
