---------------------------- MODULE ProcessSteps ----------------------------
(***************************************************************************)
(* What InitLifecycle and ExecLifecycle have in common: the process, its   *)
(* outbox and its place in the index, the systemd unit it runs in, the     *)
(* steps every RPC handler is made of, and the reactor.  A handler is at a *)
(* label; a step is one critical section of p.mu, one call to systemd or   *)
(* runc, or one Send.  An outbox Send is atomic (o.mu; see FlushIsSent of  *)
(* EventOutbox) and the channel never stalls here.                         *)
(***************************************************************************)
EXTENDS ProcState, Sequences

CONSTANTS Handlers,    \* the goroutines
          EventKinds,  \* the events its outbox may carry
          SilentInit,  \* the exit of the init helper alone is not published
          MainPid,     \* unit states in which systemd knows a main pid
          NoObs        \* no observation: a read that failed

VARIABLES phase, state, deleting, recorded,  \* process
          indexed,              \* in Service.units
          box, exitEvent, owe,  \* outbox with its output; TaskExit's status; and per
                                \* handler, an event it has still to send
          unit, file, signals,  \* systemd, the exit state file, the signal stream
          work,                 \* the unit is in the reactor's queue
          pc, obs,              \* per handler: its label, a read
          busErrors,            \* D-Bus calls may fail although the unit exists
          readErrors,           \* and so may a read of the unit's properties
          own1, own2, own3      \* the lifecycle's own, which the steps leave alone

procVars == <<phase, state>>
eventVars == <<box, exitEvent, owe>>
sysdVars == <<unit, file, signals>>
own == <<own1, own2, own3>>
shimVars == <<deleting, recorded, indexed, own>>

Outbox == INSTANCE OutboxOps WITH Events <- EventKinds,
                                  Kind <- [e \in EventKinds |-> e]

Obs(at, code, pid, status) ==
    [exitedAt |-> at, exitCode |-> code, pid |-> pid, status |-> status]

StepsInit ==
    /\ phase = "created" /\ state = noState
    /\ deleting = FALSE /\ recorded = NoObs /\ indexed = FALSE
    /\ box = [o |-> Outbox!newEventOutbox, out |-> <<>>]
    /\ exitEvent = 0
    /\ unit = [st |-> "absent", code |-> 0, real |-> 0, ref |-> FALSE,
               job |-> "none", helper |-> "gone"]
    /\ file = NoObs /\ signals = {} /\ work = FALSE
    /\ pc = [h \in Handlers |-> IF h = "reactor" THEN "idle" ELSE "new"]
    /\ obs = [h \in Handlers |-> NoObs]
    /\ owe = [h \in Handlers |-> {}]

Goto(h, label) == pc' = [pc EXCEPT ![h] = label]

\* Handler h is at the label and has sent what it owed.
At(h, label) == pc[h] = label /\ owe[h] = {}

Returned(h) == pc[h] \in {"ok", "failed", "refused"}

-----------------------------------------------------------------------------
(***************************************************************************)
(* The unit: absent, starting (the create helper runs), running or dead.   *)
(***************************************************************************)
Alive == unit.st \in {"starting", "running"}

Killed == 137  \* the exit code of a workload ended by SIGKILL

\* The signals of a death, delivered in any order: the Unit's, which says no more
\* than that, and for a unit with a main pid the Service's, with its exit state.
DeathSignals(code) ==
    {NoObs} \union (IF unit.st \in MainPid THEN {Obs(1, code, 1, "exited")} ELSE {})

\* The unit ends with status code in systemd's eyes and the workload with real.
DiesAs(code, real) ==
    /\ unit' = [unit EXCEPT !.st = "dead", !.code = code, !.real = real,
                            !.job = IF @ = "none" THEN "failed" ELSE @,
                            !.helper = "gone"]
    /\ signals' = signals \union DeathSignals(code)

Dies(code) == DiesAs(code, code)

\* A kill or stop of the unit: without bus errors it ends a live one.
KillUnit == \/ Alive /\ Dies(Killed)
            \/ (~Alive \/ busErrors) /\ UNCHANGED <<unit, signals>>

\* runc kill --all and runc delete --force reach what runs in the container.
RuncKill == IF unit.st = "running" THEN Dies(Killed)
                                   ELSE UNCHANGED <<unit, signals>>

\* getUnitState: GetAll on the unit.  An unknown unit reads as dead, or the call
\* fails.  The pid of a dead unit is left out: no branch asks for it after an exit.
UnitReads ==
    (IF readErrors \/ unit.st = "absent" THEN {NoObs} ELSE {}) \union
    {CASE unit.st = "absent" -> Obs(0, 0, 0, "dead")
       [] Alive -> Obs(0, 0, IF unit.st \in MainPid THEN 1 ELSE 0,
                       IF unit.st = "running" THEN "running" ELSE "other")
       [] unit.st = "dead" -> Obs(0, unit.code, 0,
                                  IF unit.code = 0 THEN "dead" ELSE "failed")}

\* StartTransientUnit with AddRef.
NewUnit == [unit EXCEPT !.st = "starting", !.ref = TRUE, !.job = "none"]

releaseUnit == unit' = [unit EXCEPT !.ref = FALSE] /\ UNCHANGED signals

\* systemd collects a dead unit nobody references.  The result of its start job is
\* with the shim already, in the channel startUnit reads.
Collect == /\ unit.st = "dead" /\ ~unit.ref
           /\ unit' = [unit EXCEPT !.st = "absent"]
           /\ UNCHANGED <<procVars, shimVars, eventVars, file, signals, work, pc, obs>>

\* The workload ends by itself.
WorkloadExits(codes) ==
    /\ unit.st = "running" /\ unit.helper = "gone"
    /\ \E c \in codes : Dies(c)
    /\ UNCHANGED <<procVars, shimVars, eventVars, file, work, pc, obs>>

-----------------------------------------------------------------------------
(***************************************************************************)
(* The steps of handlers.                                                  *)
(***************************************************************************)
\* SetState, up to its Send: the one caller that ends the process owes TaskExit,
\* with the status as merged.
SetState(h, s) ==
    LET st == merged(phase, state, s)
        exits == /\ justExited(phase, state, s)
                 /\ SilentInit => st.status # exitedInit
    IN  /\ state' = st
        /\ phase' = phaseAfter(phase, state, s)
        /\ owe' = IF exits THEN [owe EXCEPT ![h] = {"TaskExit"}] ELSE owe
        /\ exitEvent' = IF exits THEN st.exitCode ELSE exitEvent

\* The Send at the end of SetState and finishDelete.
SendOwed(h) ==
    /\ \E e \in owe[h] : box' = Outbox!Sent(box, e)
    /\ owe' = [owe EXCEPT ![h] = {}]
    /\ UNCHANGED <<procVars, shimVars, exitEvent, sysdVars, work, pc, obs>>

\* A branch that only looks.
Branch(h, from, cond, to) ==
    /\ At(h, from) /\ cond
    /\ Goto(h, to)
    /\ UNCHANGED <<procVars, shimVars, eventVars, sysdVars, work, obs>>

Sets(h, from, s, to) ==
    /\ At(h, from)
    /\ SetState(h, s)
    /\ Goto(h, to)
    /\ UNCHANGED <<shimVars, box, sysdVars, work, obs>>

Advance(h, from, next, to) ==
    /\ At(h, from)
    /\ phase' = advance(phase, next)
    /\ Goto(h, to)
    /\ UNCHANGED <<state, shimVars, eventVars, sysdVars, work, obs>>

Sends(h, from, e, to) ==
    /\ At(h, from)
    /\ box' = Outbox!Sent(box, e)
    /\ Goto(h, to)
    /\ UNCHANGED <<procVars, shimVars, exitEvent, owe, sysdVars, work, obs>>

\* A call that acts on the unit: Act constrains unit and signals.
Calls(h, from, Act, to) ==
    /\ At(h, from)
    /\ Act
    /\ Goto(h, to)
    /\ UNCHANGED <<procVars, shimVars, eventVars, file, work, obs>>

markDeleting(h, from, to) ==
    /\ At(h, from)
    /\ deleting' = TRUE
    /\ Goto(h, to)
    /\ UNCHANGED <<procVars, recorded, indexed, own, eventVars, sysdVars, work, obs>>

\* Stop and SIGKILL the unit, then release it.
abandonStartedUnit(h) == \/ Calls(h, "s_abandon", KillUnit, "s_release")
                         \/ Calls(h, "s_release", releaseUnit, "s_abort")

\* finishStart publishes the start even when the workload is already gone.
finishStart(h, pid) ==
    \/ Advance(h, "s_finish", "running", "s_state")
    \/ Sets(h, "s_state", Obs(0, 0, pid, "running"), "s_send")
    \/ Sends(h, "s_send", "TaskStart", "ok")

\* Mutant of Stamped: every read is stamped.
StampedAlways(s) == IF s # NoObs THEN [s EXCEPT !.exitedAt = 1] ELSE s

\* loadExitFromUnit stamps a terminal read.
Stamped(s) == IF s # NoObs /\ Exited(s) THEN [s EXCEPT !.exitedAt = 1] ELSE s

\* The first half of LoadExitState: the recorded signal, or a read of the unit.
ReadExit(h, from, to) ==
    /\ At(h, from)
    /\ ~Exited(state) /\ state.pid > 0
    /\ \/ recorded # NoObs /\ obs' = [obs EXCEPT ![h] = recorded]
       \/ /\ recorded = NoObs
          /\ \E s \in UnitReads : obs' = [obs EXCEPT ![h] = Stamped(s)]
    /\ Goto(h, to)
    /\ UNCHANGED <<procVars, shimVars, eventVars, sysdVars, work>>

\* The second half: merge what was read, which may be stale by now.
MergeRead(h, from, to) ==
    /\ At(h, from)
    /\ IF obs[h] = NoObs THEN UNCHANGED <<procVars, owe, exitEvent>>
                         ELSE SetState(h, obs[h])
    /\ obs' = [obs EXCEPT ![h] = NoObs]
    /\ Goto(h, to)
    /\ UNCHANGED <<shimVars, box, sysdVars, work>>

-----------------------------------------------------------------------------
(***************************************************************************)
(* The reactor: the informer and one worker (the work queue admits one at  *)
(* a time for a unit, see UnitWorkQueue).                                  *)
(***************************************************************************)
\* Mutant of Informer: a process that is still being started is passed over.
InformerWhenRunning ==
    \E s \in signals :
        /\ signals' = signals \ {s}
        /\ IF indexed /\ ~Exited(state) /\ ~beforeRunning(phase)
           THEN /\ work' = TRUE
                /\ recorded' = IF recorded = NoObs THEN s ELSE recorded
           ELSE UNCHANGED <<work, recorded>>
        /\ UNCHANGED <<procVars, deleting, indexed, own, eventVars, unit, file, pc, obs>>

\* enqueueIfExit: a signal for a tracked process that has not exited queues the unit,
\* and a terminal Service signal is recorded first.
Informer ==
    \E s \in signals :
        /\ signals' = signals \ {s}
        /\ IF indexed /\ ~Exited(state)
           THEN /\ work' = TRUE
                /\ recorded' = IF recorded = NoObs THEN s ELSE recorded
           ELSE UNCHANGED <<work, recorded>>
        /\ UNCHANGED <<procVars, deleting, indexed, own, eventVars, unit, file, pc, obs>>

\* reconcileUnit: a worker takes the unit, loads the state and then reads the exit of
\* a process with a pid.  A failed read is retried, but not for ever.
Reconcile(Load) ==
    LET h == "reactor"
    IN  \/ /\ At(h, "idle") /\ work
           /\ work' = FALSE
           /\ Goto(h, IF indexed /\ ~Exited(state) THEN "r_load" ELSE "idle")
           /\ UNCHANGED <<procVars, shimVars, eventVars, sysdVars, obs>>
        \/ Load
        \/ Branch(h, "r_read", Exited(state) \/ state.pid = 0, "idle")
        \/ ReadExit(h, "r_read", "r_merge")
        \/ obs[h] # NoObs /\ MergeRead(h, "r_merge", "idle")
        \/ Branch(h, "r_merge", obs[h] = NoObs, "r_retry")
        \/ /\ At(h, "r_retry")
           /\ \E again \in BOOLEAN : work' = (work \/ again)
           /\ Goto(h, "idle")
           /\ UNCHANGED <<procVars, shimVars, eventVars, sysdVars, obs>>

-----------------------------------------------------------------------------
Finished == {"new", "ok", "failed", "refused", "idle"}

\* No handler is in the middle of anything.
Idle == \A h \in Handlers : pc[h] \in Finished /\ owe[h] = {}

Told(e) == \E n \in 1..Len(box.out) : box.out[n] = e

\* The type of the variables, given the labels handlers go through.
StepsType(labels) ==
    /\ phase \in Phases /\ state \in pStates
    /\ {deleting, indexed, work} \subseteq BOOLEAN
    /\ recorded \in pStates \union {NoObs} /\ file \in pStates \union {NoObs}
    /\ signals \subseteq pStates \union {NoObs}
    /\ box.o \in Outbox!Outboxes /\ box.out \in Seq(EventKinds)
    /\ exitEvent \in Nat
    /\ unit \in [st : {"absent", "starting", "running", "dead"}, code : Nat,
                 real : Nat, ref : BOOLEAN, job : {"none", "done", "failed"},
                 helper : {"gone", "handoff", "rewriting"}]
    /\ pc \in [Handlers -> labels \union Finished
                           \union {"r_load", "r_read", "r_merge", "r_retry"}]
    /\ obs \in [Handlers -> pStates \union {NoObs}]
    /\ owe \in [Handlers -> SUBSET EventKinds]
=============================================================================
