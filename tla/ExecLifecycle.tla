---------------------------- MODULE ExecLifecycle ----------------------------
(***************************************************************************)
(* One exec process and the container it runs in: Service.Exec, Start and  *)
(* Delete of the exec, the exit of the container's init with its sweep     *)
(* over the execs, the deletion of the container with its own sweep, and a *)
(* reactor worker.  Of the container only what the exec looks at is kept   *)
(* (InitLifecycle has the rest).  The two sweeps hold the mutex of the     *)
(* exec map from their first step to their last.                           *)
(*                                                                         *)
(* file is exit_status.json.  The unit is of Type=notify: the helper is    *)
(* its main process until the workload is, so every death has a main pid,  *)
(* and a helper that never said READY=1 fails the start job.               *)
(***************************************************************************)
EXTENDS Naturals, Sequences

CONSTANTS Starters, Deleters,  \* the client's calls on the exec
          Scenarios,           \* the circumstances of a behaviour, see below
          NoObs                \* no observation: a read that failed

\* callers: what happens besides Exec: the calls on the exec, "parent", the container is
\* started only meanwhile, "init", its init dies, "container", it is deleted; shared: the
\* container has no pid namespace of its own (killAllOnExit); ordered: the client deletes
\* the exec only after its Starts have returned; faults: bus, calls to systemd, reads and
\* runc kill fail and contexts end (but Unref is taken to work); reply,
\* StartTransientUnit fails although it has made the unit; crash, the helper dies without
\* writing its file.
ASSUME ScenariosType ==
    Scenarios \subseteq [callers : SUBSET (Starters \union Deleters
                                           \union {"parent", "init", "container"}),
                         shared : BOOLEAN, ordered : BOOLEAN,
                         faults : SUBSET {"bus", "reply", "crash"}]
ASSUME CallersFresh ==
    (Starters \union Deleters) \intersect {"exec", "exit", "container", "reactor"} = {}
\* Every call is of one kind.
ASSUME StartersApart == Starters \intersect Deleters = {}

VARIABLES phase, state, deleting, recorded, indexed, box, exitEvent, owe, unit, file,
          signals, work, pc, obs,  \* of the exec, see ProcessSteps
          parent,     \* the container: see Init
          execs, mu,  \* the exec is in parent.execs; who holds that map's mutex
          scenario    \* what this behaviour is about; never changes

proc == <<phase, state>>
event == <<box, exitEvent, owe>>
sysd == <<unit, file, signals>>
maps == <<execs, mu, indexed>>
vars == <<proc, deleting, recorded, parent, maps, event, sysd, work, pc, obs, scenario>>

BusErrors == "bus" \in scenario.faults
LostReplies == "reply" \in scenario.faults

Handlers == {"exec", "exit", "container", "reactor"} \union Starters \union Deleters

\* TaskCreate and TaskStart stand for TaskExecAdded and TaskExecStarted (OutboxOps).
EventKinds == {"TaskCreate", "TaskStart", "TaskExit"}

\* SetState also publishes that only runc's exec init exited; the outbox holds that
\* event back for ever.
INSTANCE ProcessSteps WITH SilentInit <- FALSE, MainPid <- {"starting", "running"},
                           busErrors <- BusErrors, readErrors <- BusErrors,
                           own1 <- parent, own2 <- execs, own3 <- mu

\* No observation is one that was made.
ASSUME NoObsFresh == NoObs \notin pStates

OwnCodes == {0, 7}    \* exit codes of the workload,
RuncCodes == {1, 255} \* of runc exec when it fails,
HelperFailed == 3     \* of the helper that reports a failure
Synthetic == 255      \* and what the sweep makes up

\* The container has been created, and started unless it is to be started meanwhile.  One
\* from a checkpoint has no pid before its own Start.  ran: that Start finished before the
\* exit was recorded.
Init == /\ StepsInit
        /\ scenario \in Scenarios
        /\ \E pid \in BOOLEAN :
              /\ "parent" \notin scenario.callers => pid
              /\ parent = [shared |-> scenario.shared, alive |-> TRUE, pid |-> pid,
                           ran |-> "parent" \notin scenario.callers,
                           exited |-> FALSE, deleting |-> FALSE, tracked |-> TRUE]
        /\ execs = FALSE /\ mu = "nobody"

-----------------------------------------------------------------------------
(***************************************************************************)
(* systemd, runc, the create helper and the container's init: external.    *)
(***************************************************************************)
\* The helper runs runc exec, which fails at the latest when the container is gone,
\* and reports the workload, running or already dead on its hands.
Helper ==
    /\ unit.st = "starting"
    /\ \/ /\ parent.alive
          /\ unit' = [unit EXCEPT !.st = "running", !.job = "done"]
          /\ file' = Obs(0, 0, 1, "running")
          /\ UNCHANGED signals
       \/ \E c \in RuncCodes : Dies(HelperFailed) /\ file' = Obs(1, c, 1, exitedInit)
       \/ /\ parent.alive
          /\ \E c \in OwnCodes : /\ DiesAs(IF c = 0 THEN 0 ELSE HelperFailed, c)
                                 /\ file' = Obs(1, c, 1, "exited")
       \/ "crash" \in scenario.faults /\ Dies(HelperFailed) /\ UNCHANGED file
    /\ UNCHANGED <<proc, deleting, recorded, parent, maps, event, work, pc, obs>>

\* The container's init dies; the execs in its pid namespace die with it, those of a
\* container that shares its pid namespace do not.
InitDies ==
    /\ "init" \in scenario.callers /\ parent.alive
    /\ parent' = [parent EXCEPT !.alive = FALSE]
    /\ IF parent.shared THEN UNCHANGED <<unit, signals>> ELSE RuncKill
    /\ UNCHANGED <<proc, deleting, recorded, maps, event, file, work, pc, obs>>

\* Start of the container learns its pid and finishes, which it may do although the init
\* is gone already; once the exit is recorded there is no way back to running.
ParentStarts ==
    /\ \/ /\ parent.alive /\ ~parent.pid
          /\ parent' = [parent EXCEPT !.pid = TRUE]
       \/ /\ parent.pid /\ ~parent.ran /\ ~parent.exited
          /\ parent' = [parent EXCEPT !.ran = TRUE]
    /\ UNCHANGED <<proc, deleting, recorded, maps, event, sysd, work, pc, obs>>

-----------------------------------------------------------------------------
(***************************************************************************)
(* What the handlers share.                                                *)
(***************************************************************************)
\* LoadState merges the exit state file if there is one and looks no further.
Loads(h, from, to) ==
    /\ At(h, from)
    /\ IF file # NoObs THEN SetState(h, file) ELSE UNCHANGED <<proc, owe, exitEvent>>
    /\ Goto(h, to)
    /\ UNCHANGED <<deleting, recorded, parent, maps, box, sysd, work, obs>>

\* Service.units and, under its mutex, parent.execs.
SetIndexed(h, from, there, to) ==
    /\ At(h, from)
    /\ indexed' = there
    /\ Goto(h, to)
    /\ UNCHANGED <<proc, deleting, recorded, parent, execs, mu, event, sysd, work, obs>>

SetExecs(h, from, there, to) ==
    /\ At(h, from) /\ mu = "nobody"
    /\ execs' = there
    /\ Goto(h, to)
    /\ UNCHANGED <<proc, deleting, recorded, parent, mu, indexed, event, sysd, work, obs>>

Lock(h, from, to) ==
    /\ At(h, from) /\ mu = "nobody"
    /\ mu' = h
    /\ Goto(h, to)
    /\ UNCHANGED <<proc, deleting, recorded, parent, execs, indexed, event, sysd, work, obs>>

Unlock(h, from, to) ==
    /\ At(h, from)
    /\ mu' = "nobody"
    /\ Goto(h, to)
    /\ UNCHANGED <<proc, deleting, recorded, parent, execs, indexed, event, sysd, work, obs>>

-----------------------------------------------------------------------------
(***************************************************************************)
(* Service.Exec.  The state directory may fail to be made.                 *)
(***************************************************************************)
\* Mutant of Registers: the container is looked at before the exec is registered.
RegistersLate ==
    \/ Branch("exec", "new", TRUE, IF parent.tracked THEN "e_check" ELSE "refused")
    \/ Branch("exec", "e_check", TRUE, IF parent.deleting THEN "refused" ELSE "e_add")
    \/ SetExecs("exec", "e_add", TRUE, "e_index")
    \/ SetIndexed("exec", "e_index", TRUE, "e_create")

\* Register first, then look at the container.
Registers ==
    \/ Branch("exec", "new", TRUE, IF parent.tracked THEN "e_add" ELSE "refused")
    \/ SetExecs("exec", "e_add", TRUE, "e_index")
    \/ SetIndexed("exec", "e_index", TRUE, "e_check")
    \/ Branch("exec", "e_check", TRUE,
              IF parent.deleting THEN "e_unindex" ELSE "e_create")

Exec == /\ ~Returned("exec")
        /\ \/ Registers
           \/ \E to \in {"e_send", "e_unindex"} : Branch("exec", "e_create", TRUE, to)
           \/ SetIndexed("exec", "e_unindex", FALSE, "e_remove")
           \/ SetExecs("exec", "e_remove", FALSE, "failed")
           \/ Sends("exec", "e_send", "TaskCreate", "ok")

\* A call on the exec finds the container and then, under the mutex, the exec.  The
\* client knows of the exec once Exec has returned.
Lookup(h, found) ==
    \/ /\ h \in scenario.callers /\ pc["exec"] = "ok"
       /\ Branch(h, "new", TRUE, IF parent.tracked THEN "get" ELSE "refused")
    \/ Branch(h, "get", mu = "nobody", IF execs THEN found ELSE "refused")

-----------------------------------------------------------------------------
(***************************************************************************)
(* execProcess.Start and what Service.Start does after it.                 *)
(***************************************************************************)
\* The claim; then the container must have a pid.  makePty and the unit's properties may
\* fail.
StartBegins(h) ==
    \/ /\ canBecome(phase, "starting")
       /\ Advance(h, "s_begin", "starting", "s_parent")
    \/ Branch(h, "s_begin", ~canBecome(phase, "starting"), "s_unindex")
    \/ Branch(h, "s_parent", parent.pid, "s_do")
    \/ Branch(h, "s_parent", ~parent.pid \/ BusErrors, "s_abort")

\* startTransientUnit creates the unit with a reference.  It fails when the unit
\* exists or the call does, and its reply may be lost.
StartTransientUnit(h, from, failed) ==
    /\ At(h, from)
    /\ recorded' = IF from = "s_do" THEN NoObs ELSE recorded
    /\ \/ /\ unit.st = "absent"
          /\ unit' = NewUnit
          /\ \/ Goto(h, "s_job")
             \/ LostReplies /\ Goto(h, failed)
       \/ (unit.st # "absent" \/ BusErrors) /\ Goto(h, failed) /\ UNCHANGED unit
    /\ UNCHANGED <<proc, deleting, parent, maps, event, file, signals, work, obs>>

\* A second try follows if the failed state of a loaded unit could be reset.
StartsTwice(h) ==
    \/ StartTransientUnit(h, "s_do", "s_reset")
    \/ Branch(h, "s_reset", unit.st # "absent", "s_again")
    \/ Branch(h, "s_reset", unit.st = "absent" \/ BusErrors, "s_err")
    \/ StartTransientUnit(h, "s_again", "s_err")

\* The job ends, or the context does and the unit is killed.  A failed job is an error
\* only for an exec that exited with 255.
Job(h) ==
    \/ Branch(h, "s_job", unit.job = "done", "s_load")
    \/ unit.job = "failed" /\ Loads(h, "s_job", "s_jobload")
    \/ Branch(h, "s_jobload", TRUE,
              IF Exited(state) /\ state.exitCode = 255 THEN "s_err" ELSE "s_load")
    \/ BusErrors /\ Calls(h, "s_job", KillUnit, "s_load")

\* getPid finds runc's pid file while the workload runs, else a file written for one
\* that came to run.
HasPid == \/ unit.st = "running"
          \/ file # NoObs /\ file.pid > 0 /\ file.status \in {"running", "exited"}

\* The pid goes straight into the state.
StartLoads(h) ==
    \/ Loads(h, "s_load", "s_status")
    \/ Branch(h, "s_status", TRUE, IF state.status = exitedInit THEN "s_err" ELSE "s_pid")
    \/ Branch(h, "s_pid", ~HasPid, "s_err")
    \/ /\ At(h, "s_pid") /\ HasPid
       /\ state' = [state EXCEPT !.pid = 1]
       /\ Goto(h, "s_done")
       /\ UNCHANGED <<phase, deleting, recorded, parent, maps, event, sysd, work, obs>>

\* The deferred check: a teardown that began meanwhile may not have found the unit, so
\* the starter stops, kills and releases it.
AbandonIfDeleting(h) ==
    \/ Branch(h, "s_done", TRUE, IF deleting THEN "s_abandon" ELSE "s_finish")
    \/ Branch(h, "s_err", TRUE, IF deleting THEN "s_abandon" ELSE "s_abort")

\* A failure hands the claim back and takes the exec out of the index.
abortStart(h) == \/ Advance(h, "s_abort", "created", "s_unindex")
                 \/ SetIndexed(h, "s_unindex", FALSE, "failed")

Start(h) == /\ ~Returned(h)
            /\ \/ Lookup(h, "s_begin") \/ StartBegins(h)
               \/ StartsTwice(h) \/ Job(h) \/ StartLoads(h)
               \/ AbandonIfDeleting(h) \/ abandonStartedUnit(h)
               \/ abortStart(h) \/ finishStart(h, 1)

-----------------------------------------------------------------------------
(***************************************************************************)
(* execProcess.Delete and what Service.Delete does after it.               *)
(***************************************************************************)
Live == state.pid # 0 /\ ~Exited(state) /\ ~parent.exited

\* Refused while the exec runs in a running container; then mark, stop and kill.
DeleteStops(h) ==
    \/ Branch(h, "d_check", TRUE, IF Live THEN "refused" ELSE "d_mark")
    \/ markDeleting(h, "d_mark", "d_stop")
    \/ Calls(h, "d_stop", KillUnit, "d_pid")

\* waitForExit, for an exec that has a pid.  A cancelled wait fails Delete, the
\* reference being released all the same.
DeleteWaits(h) ==
    \/ Branch(h, "d_pid", TRUE, IF state.pid > 0 THEN "d_wait" ELSE "d_finish")
    \/ Branch(h, "d_wait", phase = "deleted" \/ Exited(state), "d_finish")
    \/ BusErrors /\ Calls(h, "d_wait", releaseUnit, "failed")

\* The end of the lifecycle, the map, the state directory, the reference, and Service's
\* own removal from both maps.
DeleteEnds(h) ==
    \/ Advance(h, "d_finish", "deleted", "d_remove")
    \/ SetExecs(h, "d_remove", FALSE, "d_files")
    \/ /\ At(h, "d_files")
       /\ file' = NoObs
       /\ Goto(h, "d_release")
       /\ UNCHANGED <<proc, deleting, recorded, parent, maps, event, unit, signals,
                      work, obs>>
    \/ Calls(h, "d_release", releaseUnit, "d_again")
    \/ SetExecs(h, "d_again", FALSE, "d_unindex")
    \/ SetIndexed(h, "d_unindex", FALSE, "ok")

Delete(h) ==
    /\ ~Returned(h)
    /\ \/ /\ scenario.ordered => \A s \in Starters \intersect scenario.callers : Returned(s)
          /\ Lookup(h, "d_check")
       \/ DeleteStops(h) \/ DeleteWaits(h) \/ DeleteEnds(h)

-----------------------------------------------------------------------------
(***************************************************************************)
(* The container's exit and deletion.                                      *)
(***************************************************************************)
\* Mutant of Sweep: execs that were only set up are reaped too.
SweepAll(h) ==
    \/ Loads(h, "x_load", "x_look")
    \/ Branch(h, "x_look", TRUE, IF Exited(state) THEN "x_unlock" ELSE "x_reap")
    \/ Sets(h, "x_reap", Obs(1, Synthetic, 0, ""), "x_unlock")

\* Mutant of Sweep: an exec that never ran is left without giving the mutex back.
SweepHolding(h) ==
    \/ Loads(h, "x_load", "x_look")
    \/ Branch(h, "x_look", ~beforeRunning(phase),
              IF Exited(state) THEN "x_unlock" ELSE "x_reap")
    \/ Branch(h, "x_look", beforeRunning(phase), "ok")
    \/ Sets(h, "x_reap", Obs(1, Synthetic, 0, ""), "x_unlock")

\* The sweep looks at one exec and may end it.  Phase and state are two looks in the
\* code, but no exec goes back from running.
Sweep(h) ==
    \/ Loads(h, "x_load", "x_look")
    \/ Branch(h, "x_look", TRUE,
              IF beforeRunning(phase) \/ Exited(state) THEN "x_unlock" ELSE "x_reap")
    \/ Sets(h, "x_reap", Obs(1, Synthetic, 0, ""), "x_unlock")

\* Mutant of KillsAll: killAllOnExit is taken the wrong way round.
KillsAllOwn(h) ==
    Calls(h, "x_kill",
          \/ parent.ran /\ ~parent.shared /\ RuncKill
          \/ (~parent.ran \/ parent.shared) /\ UNCHANGED <<unit, signals>>,
          "x_lock")

\* killAllOnExit, for a container that shares its pid namespace and was running; that
\* runc kill failed is only logged.
KillsAll(h) ==
    Calls(h, "x_kill",
          \/ parent.ran /\ parent.shared /\ RuncKill
          \/ (~parent.ran \/ ~parent.shared \/ BusErrors) /\ UNCHANGED <<unit, signals>>,
          "x_lock")

\* initProcess.SetState for the exit of init: kill what is left, then the sweep.
InitExits ==
    LET h == "exit"
    IN  /\ ~Returned(h)
        /\ \/ /\ At(h, "new") /\ ~parent.alive
              /\ parent' = [parent EXCEPT !.exited = TRUE]
              /\ Goto(h, "x_kill")
              /\ UNCHANGED <<proc, deleting, recorded, maps, event, sysd, work, obs>>
           \/ KillsAll(h)
           \/ Lock(h, "x_lock", "x_each")
           \/ Branch(h, "x_each", TRUE, IF execs THEN "x_load" ELSE "x_unlock")
           \/ Sweep(h)
           \/ Unlock(h, "x_unlock", "ok")

\* Mark before releasing, so that a Start sees the mark or its unit is released here.
SweepReleases(h) ==
    \/ markDeleting(h, "k_mark", "k_release")
    \/ Calls(h, "k_release", releaseUnit, "k_unindex")
    \/ SetIndexed(h, "k_unindex", FALSE, "k_unlock")

\* Service.Delete of an exited container: initProcess.Delete marks it and deletes it in
\* runc; then every exec is marked, released and taken out of the index.
ContainerDelete ==
    LET h == "container"
    IN  /\ ~Returned(h)
        /\ \/ /\ At(h, "new") /\ h \in scenario.callers /\ parent.exited
              /\ parent' = [parent EXCEPT !.deleting = TRUE]
              /\ Goto(h, "k_runc")
              /\ UNCHANGED <<proc, deleting, recorded, maps, event, sysd, work, obs>>
           \/ Calls(h, "k_runc", RuncKill, "k_lock")
           \/ Lock(h, "k_lock", "k_each")
           \/ Branch(h, "k_each", TRUE, IF execs THEN "k_mark" ELSE "k_unlock")
           \/ SweepReleases(h)
           \/ Unlock(h, "k_unlock", "k_untrack")
           \/ /\ At(h, "k_untrack")
              /\ parent' = [parent EXCEPT !.tracked = FALSE]
              /\ Goto(h, "ok")
              /\ UNCHANGED <<proc, deleting, recorded, maps, event, sysd, work, obs>>

-----------------------------------------------------------------------------
\* The reactor's LoadState cannot fail.
ReactorLoads == Loads("reactor", "r_load", "r_read")

Step == \/ Helper \/ WorkloadExits(OwnCodes) \/ InitDies \/ ParentStarts \/ Collect
        \/ Exec
        \/ \E h \in Starters : Start(h)
        \/ \E h \in Deleters : Delete(h)
        \/ InitExits \/ ContainerDelete
        \/ Informer \/ Reconcile(ReactorLoads)
        \/ \E h \in Handlers : SendOwed(h)

Next == Step /\ UNCHANGED scenario

\* Nothing fails, nobody deletes the container, and the client does not delete an exec
\* it is starting.
Undisturbed == scenario.faults = {} /\ "container" \notin scenario.callers
Orderly == scenario.ordered /\ Undisturbed

\* Every goroutine that can run does, the helper comes to an end and the signals arrive.
\* The scenario's calls on the exec are made, a client that makes fewer being another
\* scenario; nothing has to die.  Stated only for the behaviours CallsReturn is about.
Runs(A) == Orderly /\ A /\ UNCHANGED scenario

Fairness ==
    /\ WF_vars(Runs(Helper))
    /\ WF_vars(Runs(Exec \/ SendOwed("exec")))
    /\ \A h \in Starters : WF_vars(Runs(Start(h) \/ SendOwed(h)))
    /\ \A h \in Deleters : WF_vars(Runs(Delete(h) \/ SendOwed(h)))
    /\ WF_vars(Runs(InitExits \/ SendOwed("exit")))
    /\ WF_vars(Runs(Informer))
    /\ WF_vars(Runs(Reconcile(ReactorLoads) \/ SendOwed("reactor")))

Spec == Init /\ [][Next]_vars /\ Fairness

-----------------------------------------------------------------------------
\* No handler is in the middle of anything, and neither is the helper.
Quiet == Idle /\ unit.st # "starting"

Labels ==
    {"e_add", "e_index", "e_check", "e_create", "e_unindex", "e_remove", "e_send",
     "get", "s_begin", "s_parent", "s_do", "s_reset", "s_again", "s_job", "s_jobload",
     "s_load", "s_status", "s_pid", "s_done", "s_err", "s_abandon", "s_release",
     "s_abort", "s_unindex", "s_finish", "s_state", "s_send", "d_check", "d_mark",
     "d_stop", "d_pid", "d_wait", "d_finish", "d_remove", "d_files", "d_release",
     "d_again", "d_unindex", "x_kill", "x_lock", "x_each", "x_load", "x_look", "x_reap",
     "x_unlock", "k_runc", "k_lock", "k_each", "k_mark", "k_release", "k_unindex",
     "k_unlock", "k_untrack"}

\* The type of every variable.
TypeOK ==
    /\ StepsType(Labels)
    /\ execs \in BOOLEAN
    /\ mu \in {"nobody", "exit", "container"}
    /\ parent \in [shared : BOOLEAN, alive : BOOLEAN, pid : BOOLEAN, ran : BOOLEAN,
                   exited : BOOLEAN, deleting : BOOLEAN, tracked : BOOLEAN]
    /\ scenario \in Scenarios

\* Once everything has come to rest and the exec can no longer be reached, because it
\* was deleted or its container was, its unit is referenced by nobody and, unless calls
\* failed, not running: of a Start and a teardown that race, one sees the other
\* (process.go:392-398, create.go:295-299), as do an Exec and the sweep of a Delete.
NoStrandedExecUnit ==
    Quiet /\ pc["exec"] # "new" /\ (~execs \/ ~parent.tracked) =>
        ~unit.ref /\ (BusErrors \/ ~Alive)

\* An exec the client was told has started, and whose unit has ended, has had its exit
\* published once everything has come to rest, whichever of Start, the reactor and the
\* sweep saw it (unitevents.go:31-34, process.go:699-710).
ExecExitPublished ==
    /\ Undisturbed /\ Quiet /\ signals = {} /\ ~work
    /\ Told("TaskStart") /\ ~Alive
    => Told("TaskExit")

\* The init of a container with a shared pid namespace ended before the container's Start
\* had finished: nothing kills its execs.
Spares == parent.shared /\ parent.exited /\ ~parent.ran

\* The published exit status is the one the workload ended with, and the workload has
\* ended.  Only the sweep over a dead container's execs may say 255 instead
\* (process.go:572-574), and only where SetState had no reason to kill them may it say so
\* of one that lives on (process.go:556).
ExecExitIsReal ==
    Undisturbed /\ Told("TaskExit") =>
        \/ ~Alive /\ exitEvent = unit.real
        \/ parent.exited /\ exitEvent = Synthetic /\ (~Alive \/ Spares)

\* An exec no unit was ever made for, and that nobody deleted, has no exit: the sweep
\* leaves it as it is, and a Start that fails before its unit hands the claim back
\* (process.go:569-571, process.go:295-299).
NoExitWithoutUnit ==
    unit.st = "absent" /\ unit.job = "none" /\ phase # "deleted" =>
        phase \in {"created", "starting"} /\ ~Exited(state)

\* Every call returns although the sweeps hold the exec map's mutex while they publish,
\* and Delete sleeps until another goroutine has recorded the exit.  Shown for a client
\* that does not delete an exec it is starting, in a container nobody deletes.
CallsReturn ==
    Orderly =>
        <>[](\A h \in Handlers \ {"reactor"} : pc[h] \in Finished)
=============================================================================
