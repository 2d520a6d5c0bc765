---------------------------- MODULE InitLifecycle ----------------------------
(***************************************************************************)
(* One container's init process, with its RPC handlers running             *)
(* concurrently: Service.Create, Start, Delete and Wait, and a reactor     *)
(* worker reconciling the unit.                                            *)
(*                                                                         *)
(* systemd, runc and the create helper are external.  unit.st is running   *)
(* once runc has set the container up; file is what the helper left in     *)
(* init_exit_status.json.  The unit is of Type=forking (SdNotifyEnable     *)
(* off): the helper is not its main process, so a unit that dies in        *)
(* starting never had a main pid.                                          *)
(***************************************************************************)
EXTENDS Naturals, Sequences

CONSTANTS Starters, Deleters, Waiters,  \* RPC calls; one Create and one worker
          Scenarios,    \* the circumstances of a behaviour, see below
          NoObs         \* no observation: a read that failed

\* callers: the calls that are made; checkpoint: p.checkpoint # "", so Create leaves
\* the unit to Start; order: the client may call while Create is running (early), once
\* it has returned (created), and delete only once its Starts have too (serial);
\* faults: what may go wrong outside the shim.  bus: D-Bus and runc calls fail
\* although the unit exists, and contexts end (but Unref is taken to work:
\* releaseUnit has no second try, it only logs); reads: reads of the unit fail; reply:
\* the reply to StartTransientUnit is lost; crash: the create helper dies without
\* writing its file; handoff: the workload dies before systemd has taken it
\* over from the helper.
ASSUME ScenariosType ==
    Scenarios \subseteq [callers : SUBSET (Starters \union Deleters \union Waiters
                                           \union {"kill"}),
                         checkpoint : BOOLEAN, order : {"early", "created", "serial"},
                         faults : SUBSET {"bus", "reads", "reply", "crash", "handoff"}]
ASSUME CallersFresh ==
    (Starters \union Deleters \union Waiters) \intersect {"create", "reactor"} = {}
\* Every call is of one kind.
ASSUME StartersApart == Starters \intersect (Deleters \union Waiters) = {}

VARIABLES phase, state, deleting, recorded, indexed, box, exitEvent, owe, unit, file,
          signals, work, pc, obs,  \* see ProcessSteps
          tracked,              \* the process is in Service.processes
          attempt, ctxDone,     \* startUnit's do() attempt; its context is over
          scenario              \* what this behaviour is about; never changes

proc == <<phase, state>>
maps == <<tracked, indexed>>
event == <<box, exitEvent, owe>>
sysd == <<unit, file, signals>>
unitVars == <<attempt, ctxDone>>

Faults == scenario.faults
BusErrors == "bus" \in Faults
ReadErrors == BusErrors \/ "reads" \in Faults
LostReplies == BusErrors \/ "reply" \in Faults

Handlers == {"create", "reactor"} \union Starters \union Deleters \union Waiters

EventKinds == {"TaskCreate", "TaskStart", "TaskExit", "TaskDelete"}

\* Only the init helper having exited is no exit of the task (SetState).  Killing what
\* init left behind and the sweep over the execs touch nothing modelled here.
INSTANCE ProcessSteps WITH SilentInit <- TRUE, MainPid <- {"running"},
                           busErrors <- BusErrors, readErrors <- ReadErrors,
                           own1 <- tracked, own2 <- attempt, own3 <- ctxDone

\* No observation is one that was made.
ASSUME NoObsFresh == NoObs \notin pStates

vars == <<proc, deleting, recorded, maps, event, sysd, work, pc, obs, unitVars,
          scenario>>

\* Exit codes: the workload's own, the failed helper's, and what the shim makes up for
\* a start that failed.
OwnCodes == {0, 7}
HelperFailed == 3
Synthetic == 255

failedState == Obs(1, Synthetic, 0, "failed")

Init == /\ StepsInit
        /\ tracked = FALSE
        /\ attempt = 1 /\ ctxDone = FALSE
        /\ scenario \in Scenarios

-----------------------------------------------------------------------------
(***************************************************************************)
(* systemd, runc and the create helper, external.                          *)
(***************************************************************************)
\* The helper reports a workload that died on its hands and then fails itself, with
\* a status of its own, unless the workload's status was 0.
HelperTells(c) == /\ DiesAs(IF c = 0 THEN 0 ELSE HelperFailed, c)
                  /\ file' = Obs(1, c, 1, "exited")

\* The create helper comes to an end of its first part: the container is set up and
\* handed over, runc failed, the workload was gone before the hand-off, or the
\* helper died without a word.
Helper ==
    /\ unit.st = "starting"
    /\ \/ /\ unit' = [unit EXCEPT !.st = "running", !.job = "done",
                                  !.helper = "handoff"]
          /\ file' = Obs(0, 0, 1, "running")
          /\ UNCHANGED signals
       \/ Dies(HelperFailed) /\ file' = Obs(1, 1, 1, exitedInit)
       \/ "handoff" \in Faults /\ \E c \in OwnCodes : HelperTells(c)
       \/ "crash" \in Faults /\ Dies(HelperFailed) /\ UNCHANGED file
    /\ UNCHANGED <<proc, deleting, recorded, maps, event, work, pc, obs, unitVars>>

\* The helper's second look: systemd owns the workload, or the workload died during
\* the hand-off and the helper truncates the file to rewrite it ...
HandoffEnds ==
    /\ unit.st = "running" /\ unit.helper = "handoff"
    /\ \/ unit' = [unit EXCEPT !.helper = "gone"] /\ UNCHANGED file
       \/ /\ "handoff" \in Faults
          /\ unit' = [unit EXCEPT !.helper = "rewriting"] /\ file' = NoObs
    /\ UNCHANGED <<proc, deleting, recorded, maps, event, signals, work, pc, obs,
                   unitVars>>

\* ... and then writes it and exits.
HelperReports ==
    /\ unit.st = "running" /\ unit.helper = "rewriting"
    /\ \E c \in OwnCodes : HelperTells(c)
    /\ UNCHANGED <<proc, deleting, recorded, maps, event, work, pc, obs, unitVars>>

\* initProcess.Kill, at a client's request: refused without a pid or after an exit.
Kill == /\ "kill" \in scenario.callers
        /\ tracked /\ state.pid > 0 /\ ~Exited(state)
        /\ KillUnit
        /\ UNCHANGED <<proc, deleting, recorded, maps, event, file, work, pc, obs,
                       unitVars>>

-----------------------------------------------------------------------------
(***************************************************************************)
(* What the handlers share.                                                *)
(***************************************************************************)
\* LoadState: merge the exit state file; without one, nothing before there is a
\* pid, else the unit's own properties.  The file is read and merged in one step:
\* what it says is never undone (ExitIsFinal of Process).
LoadState(h) ==
    \/ file # NoObs /\ SetState(h, file)
    \/ /\ file = NoObs /\ state.pid = 0
       /\ UNCHANGED <<proc, owe, exitEvent>>
    \/ /\ file = NoObs /\ state.pid > 0
       /\ \E s \in UnitReads \ {NoObs} : SetState(h, s)

\* LoadState as a step of its own, from one label to another; its error, if the
\* caller minds, leads elsewhere.
Loads(h, from, to, failed) ==
    /\ At(h, from)
    /\ \/ LoadState(h) /\ Goto(h, to)
       \/ /\ file = NoObs /\ state.pid > 0 /\ NoObs \in UnitReads
          /\ UNCHANGED <<proc, owe, exitEvent>>
          /\ Goto(h, failed)
    /\ UNCHANGED <<deleting, recorded, maps, box, sysd, work, obs, unitVars>>

-----------------------------------------------------------------------------
(***************************************************************************)
(* startUnit, called by Create, or by Start for a checkpoint.  h returns   *)
(* to label su_ok or su_err.                                               *)
(***************************************************************************)
\* do() has failed: the first time handlePid may still save the start.
DoFailed == IF attempt = 1 THEN "su_pid1" ELSE "su_rdel2"

\* Mutant of StartTransientUnit: the job is not waited for.
StartTransientUnitUnawaited(h, from, failed) ==
    /\ At(h, from)
    /\ recorded' = IF from = "su_do" THEN NoObs ELSE recorded
    /\ \/ /\ unit.st = "absent"
          /\ unit' = NewUnit
          /\ Goto(h, "su_pid2")
       \/ unit.st # "absent" /\ Goto(h, failed) /\ UNCHANGED unit
    /\ UNCHANGED <<proc, deleting, maps, event, file, signals, work, obs, unitVars>>

\* One call of startTransientUnit, which creates the unit and references it.  It
\* fails when the unit exists, and its reply may be lost.
StartTransientUnit(h, from, failed) ==
    /\ At(h, from)
    /\ recorded' = IF from = "su_do" THEN NoObs ELSE recorded
    /\ \/ /\ unit.st = "absent"
          /\ unit' = NewUnit
          /\ \/ Goto(h, "su_job")
             \/ LostReplies /\ Goto(h, failed)
       \/ /\ unit.st # "absent" \/ BusErrors
          /\ Goto(h, failed) /\ UNCHANGED unit
    /\ UNCHANGED <<proc, deleting, maps, event, file, signals, work, obs, unitVars>>

\* do() forgets the recorded exit and calls it, and after deleting the container in
\* runc once more.
StartsTwice(h) ==
    \/ StartTransientUnit(h, "su_do", "su_clean")
    \/ Calls(h, "su_clean", RuncKill, "su_again")
    \/ StartTransientUnit(h, "su_again", DoFailed)

\* The job ends; "done" is followed by LoadState, anything else is an error.
JobDone(h) == unit.job = "done" /\ Loads(h, "su_job", "su_check", DoFailed)

JobFailed(h) == Branch(h, "su_job", unit.job = "failed", DoFailed)

\* The caller's context ends while the job runs: Kill, which refuses to act on a
\* process without a pid.
JobCancelled(h) ==
    /\ At(h, "su_job")
    /\ BusErrors /\ ~ctxDone
    /\ ctxDone' = TRUE
    /\ IF state.pid > 0 /\ ~Exited(state) THEN KillUnit
                                          ELSE UNCHANGED <<unit, signals>>
    /\ Goto(h, DoFailed)
    /\ UNCHANGED <<proc, deleting, recorded, maps, event, file, work, obs, attempt>>

JobChecked(h) == Branch(h, "su_check", TRUE,
                        IF Exited(state) THEN DoFailed ELSE "su_pid2")

\* handlePid fails on an exit or a cancelled context, not for want of a pid.
NoPid == Exited(state) \/ (state.pid = 0 /\ ctxDone)

\* handlePid: LoadState, and again up to ten times while there is neither a pid nor
\* an exit.  It runs after a failed do() (1) and at the end (2).
handlePid(h) ==
    \/ Loads(h, "su_pid1", "su_loop1", "su_loop1")
    \/ Loads(h, "su_pid2", "su_loop2", "su_loop2")
    \/ \E l \in {"su_loop1", "su_loop2"} :
          state.pid = 0 /\ ~Exited(state) /\ ~ctxDone /\ Loads(h, l, l, l)
    \/ Branch(h, "su_loop1", TRUE, IF NoPid THEN "su_stop" ELSE "su_ok")
    \/ Branch(h, "su_loop2", TRUE, IF NoPid THEN "su_err" ELSE "su_ok")

\* Mutant of StopForRetry: no answer comes for a unit that is dead already.
StopForRetryAliveOnly(h) ==
    \/ Alive /\ Calls(h, "su_stop", Dies(Killed), "su_release")
    \/ Branch(h, "su_stop", ctxDone, "su_err")

\* Before the second attempt: stop the unit and wait for it.  When StopUnit fails,
\* for want of a unit say, nothing ever arrives on ch and only the context ends
\* the wait.
StopForRetry(h) ==
    \/ /\ unit.st # "absent"
       /\ Calls(h, "su_stop", IF Alive THEN Dies(Killed)
                                       ELSE UNCHANGED <<unit, signals>>, "su_release")
    \/ Branch(h, "su_stop", ctxDone, "su_err")
    \/ /\ At(h, "su_stop") /\ BusErrors /\ ~ctxDone
       /\ ctxDone' = TRUE
       /\ Goto(h, "su_err")
       /\ UNCHANGED <<proc, deleting, recorded, maps, event, sysd, work, obs, attempt>>

\* Release the first attempt's reference, delete the container and start over.
Retry(h) ==
    \/ Calls(h, "su_release", releaseUnit, "su_rdel1")
    \/ /\ At(h, "su_rdel1")
       /\ RuncKill
       /\ attempt' = 2
       /\ Goto(h, "su_do")
       /\ UNCHANGED <<proc, deleting, recorded, maps, event, file, work, obs, ctxDone>>
    \/ Calls(h, "su_rdel2", RuncKill, "su_err")

startUnit(h) == \/ StartsTwice(h)
                \/ JobDone(h) \/ JobFailed(h) \/ JobCancelled(h) \/ JobChecked(h)
                \/ handlePid(h)
                \/ StopForRetry(h) \/ Retry(h)

-----------------------------------------------------------------------------
(***************************************************************************)
(* initProcess.Delete, called by Service.Delete and by a Create that       *)
(* failed.  h returns to label d_ok or d_err.                              *)
(***************************************************************************)
\* Refused while the unit is seen to be live.  A unit that cannot be read does not
\* stop the delete; a terminal one is recorded first.
DeleteChecks(h) ==
    \/ Branch(h, "d_check", Exited(state), "d_mark")
    \/ /\ At(h, "d_check")
       /\ ~Exited(state)
       /\ \E s \in UnitReads :
             IF s = NoObs \/ Exited(s)
             THEN obs' = [obs EXCEPT ![h] = Stamped(s)] /\ Goto(h, "d_set")
             ELSE Goto(h, "refused") /\ UNCHANGED obs
       /\ UNCHANGED <<proc, deleting, recorded, maps, event, sysd, work, unitVars>>
    \/ MergeRead(h, "d_set", "d_mark")

\* A Delete that fails once it has begun removes the bundle, the exit state file with
\* it, and releases the unit.
Fails(h, from) ==
    /\ BusErrors
    /\ At(h, from)
    /\ file' = NoObs
    /\ releaseUnit
    /\ Goto(h, "d_err")
    /\ UNCHANGED <<proc, deleting, recorded, maps, event, work, obs, unitVars>>

\* StopUnit and the SIGKILL after it, then runc delete --force.
DeleteStops(h) ==
    \/ Calls(h, "d_stop", KillUnit, "d_runc")
    \/ Calls(h, "d_runc", RuncKill, "d_wait")
    \/ Fails(h, "d_runc")

\* waitForExit, only for a process that has a pid; a cancelled wait fails Delete.
DeleteWaits(h) ==
    \/ Branch(h, "d_wait",
              state.pid = 0 \/ phase = "deleted" \/ Exited(state), "d_finish")
    \/ state.pid > 0 /\ Fails(h, "d_wait")

\* finishDelete: whoever moves the phase owes TaskDelete.  The deferred release is
\* the last step.
finishDelete(h) ==
    \/ /\ At(h, "d_finish")
       /\ phase' = advance(phase, "deleted")
       /\ owe' = IF advanced(phase, "deleted")
                 THEN [owe EXCEPT ![h] = {"TaskDelete"}] ELSE owe
       /\ Goto(h, "d_release")
       /\ UNCHANGED <<state, deleting, recorded, maps, box, exitEvent, sysd, work,
                      obs, unitVars>>
    \/ Calls(h, "d_release", releaseUnit, "d_ok")

Delete(h) == \/ DeleteChecks(h) \/ markDeleting(h, "d_mark", "d_stop") \/ DeleteStops(h)
             \/ DeleteWaits(h) \/ finishDelete(h)

-----------------------------------------------------------------------------
(***************************************************************************)
(* The handlers.                                                           *)
(***************************************************************************)
Untrack(h, from, to) ==
    /\ At(h, from)
    /\ tracked' = FALSE /\ indexed' = FALSE
    /\ Goto(h, to)
    /\ UNCHANGED <<proc, deleting, recorded, event, sysd, work, obs, unitVars>>

\* Service.Create registers the process before anything can happen to its unit.
\* Preparing the bundle may fail before the unit is started.
Register ==
    /\ At("create", "new")
    /\ tracked' = TRUE /\ indexed' = TRUE
    /\ \/ Goto("create", IF scenario.checkpoint THEN "c_set" ELSE "su_do")
       \/ Goto("create", "su_err")
    /\ UNCHANGED <<proc, deleting, recorded, event, sysd, work, obs, unitVars>>

\* On success the created state and TaskCreate; on failure the process is made to
\* exit (by initProcess.Create, then by Service.Create), untracked and torn down.
CreateEnds ==
    \/ Branch("create", "su_ok", TRUE, "c_set")
    \/ Sets("create", "c_set", Obs(0, 0, state.pid, "created"), "c_send")
    \/ Sends("create", "c_send", "TaskCreate", "ok")
    \/ Calls("create", "su_err", RuncKill, "c_fail")
    \/ Sets("create", "c_fail", failedState, "c_fail2")
    \/ Sets("create", "c_fail2", failedState, "c_untrack")
    \/ Untrack("create", "c_untrack", "d_check")
    \/ \E l \in {"d_ok", "d_err", "refused"} : Branch("create", l, TRUE, "failed")

Create == /\ ~Returned("create")
          /\ Register \/ startUnit("create") \/ Delete("create") \/ CreateEnds

\* A handler looks the process up.
Lookup(h, found) ==
    /\ h \in scenario.callers
    /\ scenario.order # "early" => pc["create"] \in {"ok", "failed"}
    /\ Branch(h, "new", TRUE, IF tracked THEN found ELSE "refused")

\* beginStart, with attempt and context of a later startUnit still fresh.
beginStart(h) ==
    /\ At(h, "s_begin")
    /\ phase' = advance(phase, "starting")
    /\ IF canBecome(phase, "starting")
       THEN /\ Goto(h, IF scenario.checkpoint THEN "su_do" ELSE "s_runc")
            /\ attempt' = 1 /\ ctxDone' = FALSE
       ELSE Goto(h, "refused") /\ UNCHANGED unitVars
    /\ UNCHANGED <<state, deleting, recorded, maps, event, sysd, work, obs>>

\* runc start works on a container that is set up and alive; when it fails, a process
\* not known to have exited is killed and recorded as failed.
SetUp == unit.st = "running" /\ unit.helper # "rewriting"

RuncStart(h) ==
    \/ Branch(h, "s_runc", SetUp, "s_pid")
    \/ Branch(h, "s_runc", ~SetUp \/ BusErrors, "s_load")
    \/ Loads(h, "s_load", "s_loaded", "s_loaded")
    \/ Branch(h, "s_loaded", Exited(state), "s_abort")
    \/ ~Exited(state) /\ Calls(h, "s_loaded", KillUnit, "s_reload")
    \/ Loads(h, "s_reload", "s_fail", "s_fail")
    \/ Branch(h, "s_fail", Exited(state), "s_abort")
    \/ ~Exited(state) /\ Sets(h, "s_fail", [failedState EXCEPT !.pid = state.pid], "s_abort")

\* Start polls for a pid, ignoring its context.
StartPolls(h) ==
    \/ state.pid = 0 /\ ~Exited(state) /\ Loads(h, "s_pid", "s_pid", "s_pid")
    \/ Branch(h, "s_pid", state.pid > 0 \/ Exited(state), "s_finish")

\* Mutant of RestoreEnds: no look at deleting.
RestoreEndsRegardless(h) ==
    \/ Branch(h, "su_ok", TRUE, "s_finish")
    \/ Branch(h, "su_err", TRUE, "s_abort")

\* restore's deferred check: a delete that began meanwhile found no unit to tear
\* down, so the starter does it.
RestoreEnds(h) ==
    \/ Branch(h, "su_ok", TRUE, IF deleting THEN "s_abandon" ELSE "s_finish")
    \/ Branch(h, "su_err", TRUE, IF deleting THEN "s_abandon" ELSE "s_abort")

abortStart(h) == Advance(h, "s_abort", "created", "failed")

Start(h) == /\ ~Returned(h)
            /\ \/ Lookup(h, "s_begin") \/ beginStart(h)
               \/ RuncStart(h) \/ StartPolls(h)
               \/ scenario.checkpoint /\ (startUnit(h) \/ RestoreEnds(h))
               \/ abandonStartedUnit(h)
               \/ finishStart(h, state.pid) \/ abortStart(h)

ServiceDelete(h) == /\ ~Returned(h)
                    /\ \/ /\ scenario.order = "serial" =>
                                \A s \in Starters \intersect scenario.callers : Returned(s)
                          /\ Lookup(h, "d_check")
                       \/ Delete(h)
                       \/ Untrack(h, "d_ok", "ok")
                       \/ Branch(h, "d_err", TRUE, "failed")

\* Service.Wait refreshes the state once and then sleeps until it is terminal.
Wait(h) == /\ ~Returned(h)
           /\ \/ Lookup(h, "w_load")
              \/ Loads(h, "w_load", "w_read", "w_read")
              \/ ReadExit(h, "w_read", "w_merge")
              \/ Branch(h, "w_read", Exited(state) \/ state.pid = 0, "w_wait")
              \/ MergeRead(h, "w_merge", "w_wait")
              \/ Branch(h, "w_wait", phase = "deleted" \/ Exited(state), "ok")

-----------------------------------------------------------------------------
\* The reactor's LoadState; its error leads to a retry.
ReactorLoads == Loads("reactor", "r_load", "r_read", "r_retry")

Environment == Helper \/ HandoffEnds \/ HelperReports \/ WorkloadExits(OwnCodes)
               \/ Collect \/ Kill

Step == \/ Environment
        \/ Create
        \/ \E h \in Starters : Start(h)
        \/ \E h \in Deleters : ServiceDelete(h)
        \/ \E h \in Waiters : Wait(h)
        \/ Informer
        \/ Reconcile(ReactorLoads)
        \/ \E h \in Handlers : SendOwed(h)

Next == Step /\ UNCHANGED scenario

\* Every goroutine that can run does: the RPC handlers, the informer and the reactor
\* worker.  The create helper comes to an end and the signals arrive.  The scenario's
\* calls are made, a client that makes fewer being another scenario; nobody has to
\* kill and no workload has to exit.
Fairness ==
    /\ WF_vars((Helper \/ HandoffEnds \/ HelperReports) /\ UNCHANGED scenario)
    /\ WF_vars((Create \/ SendOwed("create")) /\ UNCHANGED scenario)
    /\ \A h \in Starters : WF_vars((Start(h) \/ SendOwed(h)) /\ UNCHANGED scenario)
    /\ \A h \in Deleters :
           WF_vars((ServiceDelete(h) \/ SendOwed(h)) /\ UNCHANGED scenario)
    /\ \A h \in Waiters : WF_vars((Wait(h) \/ SendOwed(h)) /\ UNCHANGED scenario)
    /\ WF_vars(Informer /\ UNCHANGED scenario)
    /\ WF_vars((Reconcile(ReactorLoads) \/ SendOwed("reactor")) /\ UNCHANGED scenario)

Safe == Init /\ [][Next]_vars
Spec == Safe /\ Fairness

-----------------------------------------------------------------------------
\* Create starts the unit, reads do not fail and the hand-off to systemd works.
Undisturbed == ~scenario.checkpoint /\ Faults = {}

Labels ==
    {"su_do", "su_clean", "su_again", "su_job", "su_check", "su_pid1", "su_loop1",
     "su_pid2", "su_loop2", "su_stop", "su_release", "su_rdel1", "su_rdel2", "su_ok",
     "su_err", "c_set", "c_send", "c_fail", "c_fail2", "c_untrack", "s_begin",
     "s_runc", "s_pid", "s_load", "s_loaded", "s_reload", "s_fail", "s_abandon",
     "s_release", "s_finish", "s_state", "s_send", "s_abort", "d_check", "d_set", "d_mark",
     "d_stop", "d_runc", "d_wait", "d_finish", "d_release", "d_ok", "d_err",
     "w_load", "w_read", "w_merge", "w_wait"}

\* The type of every variable.
TypeOK ==
    /\ StepsType(Labels)
    /\ {tracked, ctxDone} \subseteq BOOLEAN
    /\ attempt \in 1..2
    /\ scenario \in Scenarios

\* Once everything has come to rest and the process is no longer tracked, its unit is
\* referenced by nobody (delete.go:135-140), however often calls failed, replies were
\* lost and a teardown stopped half way; and unless the calls that would have killed
\* it failed, it is not running either (process.go:392-398).
NoStrandedUnit ==
    Idle /\ ~tracked /\ pc["create"] # "new" =>
        ~unit.ref /\ (BusErrors \/ ~Alive)

\* However many callers see the exit and however often Start is called, containerd
\* is told each event once, now or when the outbox lets it go (process.go:345-350).
EventsOnce ==
    LET all == box.out \o box.o.held
    IN  \A m, n \in 1..Len(all) : all[m] = all[n] => m = n

\* A TaskExit is true: when containerd hears it the unit is gone, and the status is
\* the one the workload ended with (phase.go:38-39), whichever of the reactor, Wait,
\* Start and Delete saw the exit first, and in the file, a signal or the unit.
ExitIsReal ==
    Undisturbed /\ Told("TaskExit") => ~Alive /\ exitEvent = unit.real

\* A task that started and was deleted has had its exit published: only a task that
\* never ran loses it (events.go:75-78).
ExitPublished ==
    Idle /\ Told("TaskStart") /\ Told("TaskDelete") => Told("TaskExit")

\* A Create that succeeded has set a container up (phase.go:27-28): the shim knows
\* its pid, so the reactor will look at the unit when it ends.  This is said of a
\* container that is not restored from a checkpoint and of behaviours without faults:
\* a helper that dies silently, or rewrites its file during all of handlePid's tries,
\* and a lost reply leave Create without a pid.
CreatedHasPid ==
    Undisturbed /\ pc["create"] = "ok" => state.pid > 0

\* The helper died without a word, the shim never learned a pid, and since then neither
\* Start nor Delete has met the unit.  The reactor leaves a unit without a pid alone
\* (unitevents.go:314), so nobody records this exit.
SilentDeath ==
    /\ "crash" \in Faults /\ state.pid = 0
    /\ \A h \in Starters \union Deleters : pc[h] = "new"

\* Every Create, Start and Delete returns, although Delete sleeps until another
\* goroutine has recorded the exit, and every Wait does once the unit it waits for has
\* ended, however the exit came to be known (unitevents.go:31-34).  Each call is made
\* once, so this is: in the end nobody is under way but a Wait on a live unit, or on
\* one that died silently and that no other call has met since (SilentDeath).
CallsReturn ==
    <>[](\A h \in Handlers \ {"reactor"} :
            \/ pc[h] \in Finished
            \/ h \in Waiters /\ pc[h] = "w_wait" /\ (Alive \/ SilentDeath))
=============================================================================
