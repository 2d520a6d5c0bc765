------------------------------ MODULE ProcState ------------------------------
(***************************************************************************)
(* pState (state.go) and procPhase (phase.go) as data: what the shim last  *)
(* observed of a process, how a new observation is merged into it, and the *)
(* phases of its lifecycle.  An instant is a natural number; 0 is every    *)
(* instant that is not After(timeZero), the only test the code makes: the  *)
(* timeZero of Reset and the zero time.Time of a new process alike.        *)
(***************************************************************************)
EXTENDS Naturals

\* The SubStates and helper statuses toStatus distinguishes, and one it does not.
Created == {"created", "start-pre"}
Running == {"running", "start-post"}
Stopped == {"stopped", "dead", "failed", "stop-post", "exited", "exited-init",
            "exit-code"}
Statuses == Created \union Running \union Stopped
            \union {"", "pausing", "paused", "other"}

exitedInit == "exited-init"

pStates == [exitedAt : Nat, exitCode : Nat, pid : Nat, status : Statuses]

\* The state of a process that has just been made: a pState nobody has written to.
noState == [exitedAt |-> 0, exitCode |-> 0, pid |-> 0, status |-> ""]

toStatus(s) == CASE s \in Created   -> "CREATED"
                 [] s \in Running   -> "RUNNING"
                 [] s = "pausing"   -> "PAUSING"
                 [] s = "paused"    -> "PAUSED"
                 [] s \in Stopped   -> "STOPPED"
                 [] OTHER           -> "UNKNOWN"

Exited(s) == s.exitCode > 0 \/ toStatus(s.status) = "STOPPED" \/ s.exitedAt > 0

\* Mutant of CopyTo: the newer value wins.
CopyToOverrides(s, other) ==
    LET times == [other EXCEPT
                    !.exitedAt = IF s.exitedAt > 0 THEN s.exitedAt ELSE @,
                    !.exitCode = IF s.exitCode > 0 THEN s.exitCode ELSE @,
                    !.pid      = IF s.pid > 0 THEN s.pid ELSE @]
    IN  IF s.pid = 0 /\ ~Exited(s) THEN other
        ELSE IF s.status # "" THEN [times EXCEPT !.status = s.status] ELSE times

(***************************************************************************)
(* s.CopyTo(&other): what other becomes.  Non-zero values are not          *)
(* overridden; the status is compared with the already merged other.       *)
(***************************************************************************)
CopyTo(s, other) ==
    LET times == [other EXCEPT
                    !.exitedAt = IF @ = 0 THEN s.exitedAt ELSE @,
                    !.exitCode = IF @ = 0 THEN s.exitCode ELSE @,
                    !.pid      = IF @ = 0 THEN s.pid ELSE @]
    IN  IF s.pid = 0 /\ ~Exited(s) THEN other
        ELSE IF s.status # "" /\ (~Exited(times) \/ Exited(s))
             THEN [times EXCEPT !.status = s.status]
             ELSE times

-----------------------------------------------------------------------------
Phases == {"created", "starting", "running", "exited", "deleted"}

\* Mutant of phaseTransitions: a process that is being started may be claimed again.
phaseTransitionsReentrant ==
    [created  |-> {"created", "starting", "exited", "deleted"},
     starting |-> {"created", "starting", "running", "exited", "deleted"},
     running  |-> {"running", "exited", "deleted"},
     exited   |-> {"exited", "deleted"},
     deleted  |-> {"deleted"}]

phaseTransitions ==
    [created  |-> {"created", "starting", "exited", "deleted"},
     starting |-> {"created", "running", "exited", "deleted"},
     running  |-> {"running", "exited", "deleted"},
     exited   |-> {"exited", "deleted"},
     deleted  |-> {"deleted"}]

canBecome(phase, next) == next \in phaseTransitions[phase]

\* advanceLocked: the phase after a legal or rejected move, and whether it moved.
advance(phase, next) == IF canBecome(phase, next) THEN next ELSE phase
advanced(phase, next) == advance(phase, next) # phase

beforeRunning(phase) == phase \in {"created", "starting"}

\* Mutant of merged: systemd's "running" is taken at its word.
mergedVerbatim(ph, st, s) == CopyTo(s, st)

\* Mutant of merged: the name of the task status is stored for the SubState, and
\* toStatus does not know it.
mergedNamed(ph, st, s) ==
    CopyTo(IF beforeRunning(ph) /\ toStatus(s.status) = "RUNNING"
           THEN [s EXCEPT !.status = "CREATED"] ELSE s, st)

(***************************************************************************)
(* applyState: merge observation s into a process in phase ph with state   *)
(* st.  Before the process runs, systemd's "running" means created.        *)
(***************************************************************************)
merged(ph, st, s) ==
    CopyTo(IF beforeRunning(ph) /\ toStatus(s.status) = "RUNNING"
           THEN [s EXCEPT !.status = "created"] ELSE s, st)

\* Mutant of phaseAfter: only an observation that is terminal moves the phase, so
\* that two halves of an exit never add up.
phaseAfterSeen(ph, st, s) ==
    IF s.exitedAt > 0 /\ Exited(s) THEN advance(ph, "exited") ELSE ph

phaseAfter(ph, st, s) ==
    IF Exited(merged(ph, st, s)) THEN advance(ph, "exited") ELSE ph

\* Mutant of justExited: every terminal merge counts as the exit.
justExitedAgain(ph, st, s) == Exited(merged(ph, st, s))

justExited(ph, st, s) == phaseAfter(ph, st, s) = "exited" /\ ph # "exited"
=============================================================================
