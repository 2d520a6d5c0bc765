------------------------------- MODULE Process -------------------------------
(***************************************************************************)
(* The process struct of process.go: phase, state and deleting behind one  *)
(* mutex, every method that changes them one critical section.  The        *)
(* callers (RPC handlers, reactor workers, the delete and start helpers)   *)
(* are left unconstrained: any observation may be merged at any time and   *)
(* any number of starts and deletes attempted.                             *)
(***************************************************************************)
EXTENDS ProcState, FiniteSets

CONSTANTS Observations,  \* the observations SetState is called with
          Starts         \* Start calls

ASSUME ObservationsType == Observations \subseteq pStates

VARIABLES phase, state,
          start,   \* where each Start call is
          exits    \* history: how often SetState reported justExited

vars == <<phase, state, start, exits>>

Init == /\ phase = "created"
        /\ state = noState
        /\ start = [c \in Starts |-> "new"]
        /\ exits = 0

\* applyState: merge s; the caller that moves the phase to exited is told so.
SetState(s) == /\ state' = merged(phase, state, s)
               /\ phase' = phaseAfter(phase, state, s)
               /\ exits' = exits + IF justExited(phase, state, s) THEN 1 ELSE 0

Observe == /\ \E s \in Observations : SetState(s)
           /\ UNCHANGED start

\* beginStart claims the process, or is refused.
beginStart(c) ==
    /\ start[c] = "new"
    /\ phase' = advance(phase, "starting")
    /\ start' = [start EXCEPT ![c] = IF canBecome(phase, "starting")
                                     THEN "claimed" ELSE "refused"]
    /\ UNCHANGED <<state, exits>>

\* abortStart hands the claim back; the Start call may be made again.
abortStart(c) == /\ start[c] = "claimed"
                 /\ phase' = advance(phase, "created")
                 /\ start' = [start EXCEPT ![c] = "new"]
                 /\ UNCHANGED <<state, exits>>

\* finishStart: first the phase ...
finishStart(c) == /\ start[c] = "claimed"
                  /\ phase' = advance(phase, "running")
                  /\ start' = [start EXCEPT ![c] = "advanced"]
                  /\ UNCHANGED <<state, exits>>

\* ... then, in a second critical section, the running state.
finishStartState(c) ==
    /\ start[c] = "advanced"
    /\ \E s \in Observations :
          /\ s.status = "running" /\ s.pid > 0 /\ ~Exited(s)
          /\ SetState(s)
    /\ start' = [start EXCEPT ![c] = "done"]

\* execProcess.Start writes the pid it read without merging.
writePid(c) == /\ start[c] = "claimed"
               /\ \E s \in Observations :
                     s.pid > 0 /\ state' = [state EXCEPT !.pid = s.pid]
               /\ UNCHANGED <<phase, start, exits>>

\* finishDelete ends the lifecycle from any phase.
finishDelete == /\ phase' = advance(phase, "deleted")
                /\ UNCHANGED <<state, start, exits>>

Next == \/ Observe
        \/ finishDelete
        \/ \E c \in Starts : \/ beginStart(c) \/ abortStart(c) \/ writePid(c)
                             \/ finishStart(c) \/ finishStartState(c)

Spec == Init /\ [][Next]_vars

-----------------------------------------------------------------------------
\* The type of every variable; a status is a SubState or one of the helpers' words,
\* the alphabet toStatus reads (process.go:371-372, state.go:337).
TypeOK == /\ phase \in Phases
          /\ state \in pStates
          /\ start \in [Starts -> {"new", "claimed", "refused", "advanced",
                                   "done"}]
          /\ exits \in Nat

\* No caller can see a terminal state that has not moved the phase, nor an exited
\* phase without a terminal state (process.go:360-362).
PhaseMatchesState == /\ Exited(state) => phase \in {"exited", "deleted"}
                     /\ phase = "exited" => Exited(state)

\* However many callers observe the exit, at most one of them is told that it
\* ended the process and so sends TaskExit (process.go:345-350).
ExitedOnce == /\ exits <= 1
              /\ phase = "exited" => exits = 1

\* A process is never reported running before Start has finished (phase.go:15-17).
RunningOnlyOnceStarted == toStatus(state.status) = "RUNNING" =>
                              ~beforeRunning(phase)

\* Only one Start at a time holds the claim, and while it does nobody else can have
\* started the process (process.go:284-290).
OneClaim == /\ \A c, d \in Starts : start[c] = "claimed" /\ start[d] = "claimed"
                                     => c = d
            /\ phase = "starting" => \E c \in Starts : start[c] = "claimed"
            /\ phase = "running" => \A c \in Starts : start[c] # "claimed"

\* An exit is final: no later observation makes the process live again or changes
\* an exit code or time that is already known (CopyTo, state.go:389-392).
ExitIsFinal == [][/\ Exited(state) => Exited(state')
                  /\ state.exitCode > 0 => state'.exitCode = state.exitCode
                  /\ state.exitedAt > 0 => state'.exitedAt = state.exitedAt]_vars
=============================================================================
