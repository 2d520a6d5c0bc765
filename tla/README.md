# Verification of containerd-shim-systemd-v1

TLA+ models of the shim that runs containerd tasks as transient systemd units,
the TLC runs that check them, and TLAPS proofs of the properties that matter
most. One shim process serves every container of a node; what makes it correct
is that exits are seen, reported once and in order, and that no unit outlives
its container, while RPC handlers, reactor workers, systemd, runc and the create
helper all act at the same time.

All line numbers refer to the repository's source.

## 1. Inventory

| part | source | state it keeps | operations | how it meets the others |
|---|---|---|---|---|
| unit work queue | `unitworkqueue.go` | `queue`, `dirty`, `processing`, `failures`, `shutdown`, retry timers | Add, AddAfter, Retry, Forget, Get, Done, ShutDown | filled by the informer and by resync, drained by 8 `reconcileWorker`s |
| event reactor | `unitevents.go`, `unitsignals.go` | the queue, the unit index, a D-Bus connection of its own | runEventReactor: dial, conn.Signal, resync, consume/enqueueIfExit, re-dial, stop; reconcileUnit; watchConnection | reads unit signals; merges what it learns into the process |
| process state | `process.go`, `state.go`, `phase.go` | `phase`, `state`, `deleting`, the recorded exit, a mutex and a condition variable | applyState/SetState, advance, beginStart, abortStart, finishStart, finishDelete, markDeleting | written by every handler and every worker |
| event outbox | `events.go` | `known`, `started`, `deleted`, `held` per process; one channel for all | Send/flush, Forward | SetState, finishStart, finishDelete and Create send; Forward publishes to containerd |
| container lifecycle | `create.go`, `start.go`, `delete.go`, `unitref.go` | the process maps, the unit and its reference | Service.Create, Start, Delete, Kill, restore | calls systemd over D-Bus and runc; waits on the process |
| waiting | `wait.go` | the sleepers on the condition variable | Wait, waitForExit | woken by applyState and advance, or by the goroutine of Wait |
| create helper | `create.go` (`createCmd`) | the exit state file | run runc, hand the workload over, look once more | a process of its own inside the unit; talks through the file and sd_notify |
| exec processes | `create.go`, `start.go`, `delete.go`, `process.go` | as a process, in a map of their container | Exec, Start, Delete, the sweep when init exits | share the reactor, the queue and runc |
| terminals | `pty.go`, `pty.c` | the socket's path, the tty handler unit, the control client and its connection | makePty, ResizePty, closeTTYControl; handshake and serving in C | a unit per terminal; runc sends it the descriptor; Delete kills it |
| serving, shutdown | `main.go`, `service.go`, `manager.go`, `service_v2.go` | listeners, contexts, connections, the events channel | newCtx, serve, Close, send, Forward | closes the events channel and waits for Forward |
| the rest | `mount.go`, `log.*`, `metrics.go`, `tracing.go`, `runtime_info.go`, `options/`, `contrib/` | none that a decision depends on | | |

What is hard here:

* **Concurrency.** An exit is observed by the reactor, by Wait, by Start's failure
  path and by Delete, from a signal, the exit state file or the unit, each read
  without the lock and merged later. Delete may run beside Create and Start.
* **Ordering.** containerd must hear create, start, exit, delete in an order that
  makes sense although the shim learns of them in another.
* **Failure.** A full event channel, failing D-Bus and runc calls, lost replies,
  a helper that dies, contexts that end.
* **Waiting.** Three condition variable protocols: the queue, waitForExit, and the
  loops that poll for a pid.

What makes each part correct:

* queue: no two workers on one unit, no lost event, no lost wakeup, drained at
  shutdown, retries bounded;
* outbox: the stream makes sense, nothing lost, repeated or overtaken, every
  Send returns;
* process: one exit, final; phase and state agree; one start at a time;
* waiting: nobody sleeps through an exit; a cancelled call returns;
* lifecycle of containers and execs: no unit or reference is left behind, a
  TaskExit is true and is published, every call returns;
* reactor: no exit is missed, whatever happens to the connection;
* terminals: a resize takes its own reply, an abandoned one has no late effect,
  nothing is left open, nobody hangs;
* shutdown: it ends, and what was accepted is forwarded.

`PROJECT.json` lists the hazards at their lines with the properties that cover
them.

## 2. Modules

| module | models | depends on |
|---|---|---|
| `UnitWork` | abstract: a set of pending units and what each worker holds | |
| `UnitWorkQueue` | the queue and its workers, condition variable explicit | `UnitWork` (refinement) |
| `OutboxOps` | one outbox as data; what an undisturbed Send does | |
| `EventOutbox` | Send and flush step by step, the channel, Forward | `OutboxOps` |
| `ProcState` | `pState`, `CopyTo`, the phase table, applyState as operators | |
| `Process` | one process under arbitrary callers | `ProcState` |
| `ExitWait` | waitForExit and the cancelling goroutine | |
| `ProcessSteps` | what both lifecycles are made of: process, outbox, unit, the steps of a handler, informer and worker | `ProcState`, `OutboxOps` |
| `InitLifecycle` | one container with all its handlers, the reactor, systemd and the helper | `ProcessSteps` |
| `ExecLifecycle` | one exec with its handlers, and of its container the exit, the deletion and their sweeps | `ProcessSteps` |
| `TTYControl` | one terminal: socket path, handler, control client, resizes, Delete | |
| `EventReactor` | the reactor's loop around its connection, the workers, and the end of the service | `UnitWork` |
| `*Proofs` | theorems about the module they are named after (all but `OutboxOps`, `ProcState`, `ProcessSteps`, `UnitWork`, whose operators the others' proofs cover) | |
| `MC*` | constants and scenarios for TLC | |

**Composition.** The lifecycles build on the small modules: they use the merge
and phase operators of `ProcState` that `Process` checks under every caller, and
`Sent` of `OutboxOps` as one atomic step, which `FlushIsSent` of `EventOutbox`
justifies for a flush that does not stall. One reactor worker per unit suffices
because the queue never gives a unit to two (`Exclusive`). `EventReactor` runs
the reactor on the abstract queue `UnitWork`, which `UnitWorkQueue` is shown to
implement, and reduces a process to "its exit is recorded", since the lifecycles
show what recording an exit does.

**Correspondence.**

* *UnitWorkQueue*: one action per method, since each is one critical section of
  `q.mu`. Get is split into its three outcomes (sleep, item, shutdown), Add into
  the caller's `Add` and the timer's `TimerFires`, both of which perform
  `Enqueue`. `Signal` wakes some sleeper, or none if there is none. `unseen` is
  history: the units whose last event no reconcile has read.
* *EventOutbox*: `Lock` is the entry of Send, `Keep`, `Deliver` and `Stall` are
  one iteration of flush's inner loop, `EndPass` the end of a pass. `queued` is
  the fill of the channel. A `Stall` happens when the channel is full (the
  timeout) or the shim's context is over.
* *Process*: a critical section of `p.mu` per action. finishStart is two
  (`finishStart`, `finishStartState`). `exits` is history.
* *ExitWait*: `p.mu` is explicit and a critical section is cut in two, because
  the broadcast of Wait's goroutine does not take the lock.
* *ProcessSteps, InitLifecycle, ExecLifecycle*: every handler has a label `pc[h]`;
  a step is a critical section, one call to systemd or runc, or a Send. What a
  handler read and has not merged is `obs[h]`; the event a SetState or
  finishDelete still has to send is `owe[h]`. Labels `su_*` are startUnit, `d_*`
  Delete, `c_*`, `e_*`, `s_*`, `w_*`, `r_*` the rest of Create, Exec, Start, Wait
  and the reactor, `x_*` the sweep when init exits, `k_*` the deletion of the
  container. The unit is `absent`, `starting` (the helper runs), `running` or
  `dead`, with the status systemd knows (`code`) and the workload's own (`real`),
  which differ when the workload died on the helper's hands. `file` is the exit
  state file. `signals` holds the signals under way, delivered in any order. In
  `ExecLifecycle` the mutex of the exec map is `mu`, held by a sweep from its
  first exec to its last, `execs` and `indexed` are the two maps, and `parent`
  has the few facts about the container that the exec's code looks at.
* *TTYControl*: a connection is a record in `conns`, in the order of the dials,
  with what was written and not read in each direction; `handler.backlog` holds
  those nobody has accepted. A client may be replaced, so each has a number. The
  sizes are the names of the calls. `applied` and `written` are history.
* *EventReactor*: `reactor` is the point runEventReactor is at, `stream` and
  `ended` the channel of signals, `runDone` and `serveDone` the contexts,
  `method` the connection every other call uses and nobody re-dials, `givenUp`
  the units a worker has dropped after its retries. A goroutine inside
  Service.send is in `sending`.

**Scenarios and budgets.** The `scenario` of a lifecycle or a terminal is chosen in the initial state
and never changes: which calls are made, what may fail, how orderly the client
is. It keeps one run over several circumstances small, and lets a property say
under which of them it holds. `left` of `EventReactor` is a budget of external
events.

**What is abstracted.** Times are 0, 1 or 2 (no time, some time). Exit codes are
0, 7, 137 (SIGKILL), 1 and 255 (runc exec), 3 (`errOut`), 255 (made up by the
shim). Retry delays and the ten tries of handlePid become "some number of tries".
A unit name, a bundle or an event's fields are left out. systemd, runc and the
workload are external and nondeterministic. A container's unit is of
`Type=forking`, the default; `job` may be done as soon as the container is set
up, which also covers `Type=notify`. An exec's unit is of `Type=notify`. Unref is
taken to succeed (see the hazards). One exec id is used once. A line of the tty
protocol is one message, and copying the terminal's bytes is left out.

## 3. Runs

| run | instance | shows |
|---|---|---|
| `queue` | 3 workers, 2 units, 3 Adds, 1 retry | exclusivity, no lost update or wakeup, drained when stopped, retries bounded, no deadlock; every event is read, shutdown ends; implements `UnitWork` with its fairness |
| `outbox` | one event of each kind, channel of 2 | order, no loss or repetition, no overtaking, Send returns, a flush computes `Sent` |
| `process` | 9 observations, 2 Starts | phase and state agree, one exit, final; never running early; one claim |
| `exit_wait` | 2 Waits, 1 Delete | no missed exit; calls return after it |
| `init` | 6 scenarios of 2 Starts, Delete, Wait, Kill: nothing failing (2), D-Bus, runc and contexts failing under one call after the other (2, with a dying helper, with a checkpoint), death during the hand-off, a checkpoint whose Start races Delete | no stranded unit or reference, true exits, created means a pid, events once |
| `init_live` | 6 scenarios: a silently dying helper under a Wait alone, with Start, with Delete; a death during the hand-off under a Wait; Start and Delete with failing reads; Start after a lost reply | Create, Start, Delete and Wait return |
| `exec` | 8 scenarios of Exec, Start and Delete against the container's start, death and deletion, its pid namespace its own or shared, with failing calls and a lost reply | no stranded unit, exits published and true, none without a unit, calls return |
| `tty` | Create, 3 resizes, Delete: either 1 early resize, handler framed or not, or kills and stops of the handler that may fail | own reply, no stale size, nothing left open (but what is dialled after the detach at a handler whose kill failed), calls return |
| `reactor` | 1 unit, 1 worker, 1 retry, channel of 1; either 2 lost connections and 2 failing reads, or 1 and 2 reasons to stop | no exit missed, every exit recorded or given up on, accepted events forwarded, shutdown ends |

Two workers and two units are enough for the races of the queue, each of which
involves one unit and at most two workers; the third worker is there for
wakeups, which a sleeping bystander may steal. Three Adds let a unit become dirty
while it is queued, processed and behind a timer. A channel of two slots is full
in the middle of a pass. In the lifecycles each handler runs once, so two Starts
show every race between Starts; one container and one exec are enough since
containers share only the queue and the channel, and execs only the map whose
mutex is modelled. Three resizes are one that times out, one that takes its place
and one that comes later; the backlog of one is that of the code. A kill that fails
needs no early resize and no second framing to show what it leads to. In `exec` a
container that starts meanwhile, with and without a pid namespace of its own, is what
decides whether init's exit kills the exec (process.go:556). In `init_live` failing
reads are what makes Delete sleep (it takes a live unit it cannot read for one it may
kill) and a lost reply what makes Start poll: no other path of the code leads there. In `reactor`
one unit is enough because units meet only in the queue; two losses let the
connection go down again while the first gap is being resynced, and two failing
reads are one more than the retry. That a failure count never passes
`MaxRetries` is part of `TypeOK` of `UnitWorkQueue`.

The clients of `InitLifecycle` call after Create has returned, as containerd
does; those of `ExecLifecycle` call Start and Delete after Exec has returned.
The type invariants of the lifecycles, `TTYControl` and `EventReactor` are stated
for the reader; they are not among the runs' properties, and that of `TTYControl`
is proved.

**Fairness.** A goroutine that can run does run (weak fairness per worker,
handler, informer), a timer fires, the create helper comes to an end (its waits
have deadlines: `pidFileTimeout`, `notifyBarrierTimeout`), a flush goes on
(`eventPublishTimeout`). That a worker's read of a unit ends is an assumption on
systemd and not a fact of the code: reconcileUnit sets no timeout
(unitevents.go:292-317), so `EveryUpdateIsRead`, `ImplementsUnitWork` and
`ExitRecorded` hold as long as systemd answers or drops the connection. `p.mu` is strongly fair in `ExitWait`, because
`sync.Mutex` hands the lock to a starving waiter. A resize that waits ends by its
deadline (`ttyResponseTimeout`); the tty handler may stop answering at any point.
In `EventReactor` the watchdog's ticker and the sleep before a re-dial end,
systemd comes back after a re-exec, and Publish returns because its context is
serve's. The calls a lifecycle's scenario names are made, and a client that makes
fewer of them is another scenario; elsewhere nobody has to call anything. No workload
has to exit and no client has to give up: the liveness scenarios of the lifecycles
have no `bus` faults, under which contexts end.

### Disagreements found

Each is a run that is expected to be violated, and a finding in `PROJECT.json`
with the line it contradicts.

| run | property | what happens |
|---|---|---|
| `exit_wait_cancel` | `CancelReturns` | the broadcast for a cancelled Wait falls between its look at the context and cond.Wait |
| `init_lost_exit` | `ExitPublished` | Delete overtakes the reactor between recording the exit and sending it; TaskExit is held for ever |
| `exec_second_start` | `ExecExitPublished` | a refused second Start takes the exec out of the unit index (start.go:60); the exit of the exec the first Start started is published by nobody |

### Limits the models made visible

The properties exclude these by their scenarios or their wording; most were found
by TLC when a scenario was widened.

Containers:

* Delete during Create, before the unit exists (create.go:492): Create never looks
  at `deleting`, and the unit it then starts is tracked by nobody. Check
  `NoStrandedUnit` with `Scenarios <- EarlyScenario`.
* The helper dies without its file ("crash"): handlePid (create.go:542-571)
  reports no error and Create succeeds with pid 0. `CreatedHasPid` excepts it, as it
  does checkpoints, failing calls and lost replies. `CallsReturn` excepts a Wait for
  such a unit until a Start or a Delete has met it (`SilentDeath`): the reactor leaves a
  unit without a pid alone (unitevents.go:312-314), so that Wait sleeps for ever if
  neither comes. Without that disjunct `init_live` shows the hang.
* The workload dies before systemd has it ("handoff"): Delete asks the unit and
  not the file (delete.go:119) and takes the helper's status for the workload's;
  `ExitIsReal` excepts it.
* With a checkpoint Delete reads the unit before Start creates it and merges the
  read after (delete.go:119-127), so that TaskExit is published for a live unit;
  and a unit may be collected before StopUnit, for whose reply startUnit then
  waits until its client gives up (create.go:584).
* After a StopUnit that failed (create.go:584) startUnit waits for its client: no
  scenario of `init_live` goes there, so the property says nothing of it.
* releaseUnit only logs a failed Unref (unitref.go:101) and nobody tries again. A
  cancelled Delete notices only at the next state change: it calls waitForExit
  directly, and nobody broadcasts when its context ends (delete.go:175).

Execs:

* A Delete that races Start can sleep in waitForExit for an exec whose unit Start
  abandons and that nobody records an exit for; so can an exec's Delete or Wait
  after the container's deletion has taken the exec out of the index, and its
  TaskExit is then lost. `CallsReturn` and `ExecExitPublished` are stated for
  clients and containers that do neither.
* The sweep looks at an exec and then records 255 (process.go:572-574): an exit
  that is recorded in between keeps its published status, one that comes later is
  shadowed by 255, also for an exec that has been deleted without being started.
  `ExecExitIsReal` admits 255 once init has exited.
* Init's exit kills the execs of a container with a shared pid namespace only if the
  container was running (process.go:556), while an exec can be started as soon as the
  container has a pid (start.go:393). An exec of a container that ends before its own
  Start has finished lives on (`Spares`), and the sweep publishes 255 for it;
  `ExecExitIsReal` says that this is the only way a live exec gets an exit. A runc
  kill that fails does the same to one that was to be killed; it fails under `bus`
  faults only, which the property excepts (`Undisturbed`).
* A failed Start leaves its unit dead and referenced, so the next Start of the
  exec fails as well. A workload that exits with 255 while it is being started is
  taken for a failure to start (start.go:475).
* A unit that systemd has collected reads as dead with status 0
  (state.go:82-124).

Terminals:

* A resize that connects before runc does takes the place of the handshake, and
  the handler ends without a terminal (pty.c:339-364).
* ttySockPath reads and then writes its file (pty.go:303-325): a resize during
  Create may leave the two with different sockets.
* Delete ignores the error of the KillUnit that is to end the handler (delete.go:182,
  248), which fails when its context has ended or the method connection is lost, and
  so do the teardowns of Create. The handler then serves on, a resize that found the
  process before it was forgotten makes a client of its own, and its connection is
  closed by nobody: `NoConnectionLeft` says that no other is left. That client and
  the one Delete is about to close write in no common order, so an abandoned size may
  win over an acknowledged one; `StaleNeverWins` excepts two clients at a handler that
  was spared (`OneClient`). The scenario
  with `killsFail` checks both.
* makePty reports success when its context ends (pty.go:420). A resize with an
  unknown exec id calls a method on nil (pty.go:241-278). The deletion of a
  container does not close the control clients of its execs.

Service:

* Close closes the events channel while handlers and workers may still send on it
  (manager.go:197): such a send panics, modelled as the outcome `panicked`, so
  `ShutdownEnds` says that the shim ends, not that it ends in good order. Close
  waits for Forward only, not for the reactor, the workers or the handlers.
* When a listener's Serve ends, serve's context is cancelled and publishCtx is not
  (main.go:410, 431), and what Forward drains at a shutdown is published under a
  context that is already cancelled; `AcceptedIsForwarded` counts the hand-over to
  the publisher.
* The shared method connection is never re-dialled (manager.go:64). After systemd
  has re-executed, a resync may find that every fallback read fails, and gives up.

## 4. Proofs

All by induction on the steps of `[][Next]_vars`, for every value of the
constants.

* **UnitWorkQueueProofs.** Any finite set of workers, any units, any
  `MaxRetries`. The properties are not inductive alone; `IInv` adds that a unit
  is in `processing` exactly while one worker holds it (`ProcessingHeld`), that
  a worker past Get has an item (`ItemsAreUnits`), that slice and dirty set agree
  (`QueueMatchesDirty`), that a worker stops only after a shutdown
  (`StoppedByShutdown`), and that the queue is empty once all have left
  (`LeftEmpty`): with nobody processing, that leaves nothing dirty, which is
  `DrainedWhenStopped`. `NoLostWakeup` is the delicate one: it counts woken
  workers against queued names, so each step needs a fact about cardinalities.
  The safety part of the refinement of `UnitWork` is proved step by step under
  the mapping. Assumptions: `WorkersFinite`, `MaxRetriesNat`, `MaxAddsNat`,
  `NoUnitFresh`.
* **ProcessProofs.** Any set of observations (`ObservationsType`) and any Starts.
  `IInv` adds that no caller has been told of an exit before the phase moved
  (`NotToldYet`) and that a held claim has kept the phase from running
  (`ClaimHeld`). The lemmas about `CopyTo` (an exit stays an exit, a non-zero
  code or time is kept) carry `ExitIsFinal`.
* **ExitWaitProofs.** Any number of calls. `NoMissedExit` rests on `MutexHeld`:
  between its checks and its sleep a call holds `p.mu`, so no exit can fall
  there.
* **EventOutboxProofs.** Any events with any kinds, so repeated ones too, and any
  capacity. `StreamMakesSense` needs that the three flags are true of what was
  handed over (`FlagsAreTrue`). `NoLossNoRepeat` and `NoOvertaking` need `DInv`:
  Send has taken each event once, that of the flush under way included (`Books`);
  what is not handed over is held, through kept and unvisited part, in the order it
  was taken (`HeldInOrder`); and a pass keeps a create or a start back only behind a
  delete (`KeptIsBlocked`). `FlushIsSent` speaks of the passes and visits that `OutboxOps`
  defines as recursive functions: `Follows` says that a flush under way is so many
  passes and so many visits into what `Flush` computes, and the lemmas about the
  two functions are proved by the least number principle (`NatInd`). The lifecycles
  use lemmas about the one-step `Sent`: it adds the event and nothing else
  (`SentGrows`), repeats nothing (`SentOnce`), lets no exit out before a start
  (`Sound`), and holds none back once the start is out (`SentPrompt`: the pass after
  the one that published the start takes the exit along).
* **EventReactorProofs.** Any units, workers, retries, capacity and budgets.
  `NoExitMissed` becomes inductive with two facts (`ExitInv`): the queue is open
  while a connection is consumed (`QueueOpen`), so that no Add is refused, and a
  worker without a unit has no outcome (`CleanOutcome`), so that the unit it takes
  counts as in its hands. `WorkersStep` is the queue's part, `MissedStep` follows
  an unnoticed exit through every action: signal to queue, queue to worker, worker
  to timer or giving up, resync to queue. `AcceptedIsForwarded` rests on
  `ChannelInv`: after `waitEvents` the channel is closed and empty, and nothing is
  accepted on a closed channel. Assumptions: `NoUnitFresh`, `BoundsNat`.

* **TTYControlProofs.** Any resizes, any backlog, any number of dials, handlers
  framed or not, kills that work or fail. `Base` is the type invariant with the labels
  each kind of call goes through (`Where`) and runc's one connection (`RuncOnce`).
  `AckIsOwn` and `NoConnectionLeft` follow from `AInv`: a client is held by a call in an
  exchange (`Holders`), an open connection belongs to one client (`Owned`), there is one
  client until Delete detaches it and after the kill a handler is up only if it was
  spared (`Ending`), so what Delete does not close was dialled after the detach, at a
  spared handler (`Closing`), and a connection its client has kept carries nothing but
  the exchange under way (`Exchange`). `StaleNeverWins` needs `SInv`: while one client
  is in use it holds the latest connection (`Latest`), a call writes one request
  (`WrittenOnce`), the handler serves connections in the order of their dials
  (`InOrder`), so what is pending is in the order it was written and younger than what
  was applied (`Pending`), and nothing older undoes what was applied (`NotUndone`).
  Assumptions: `BacklogNat`, and names of their own for the calls (`ResizersFresh`,
  `NoCallFresh`).
* **ExecLifecycleProofs.** Any number of Starts and Deletes, any scenarios, so with
  and without failing calls, a dying container and its deletion.
  `NoStrandedExecUnit` needs `RInv`: while an exec is marked and its unit
  referenced, some goroutine is at a label from which it is going to release it
  (`WillRelease`), and while the unit lives and calls do not fail, at one from which
  it is going to kill it (`WillKill`). A step keeps these when it `Minds` the unit.
  The rest says who may be where: nobody calls before Exec has returned (`NotYet`),
  only who marked the exec takes it out of the map (`Marked`, `Registered`), the
  container's deletion announces itself before it looks for execs, and has had runc
  kill what runs (`Announced`, `RuncKilled`). `NoExitWithoutUnit` needs `VInv`: until
  there is a unit nothing has been observed (`Unobserved`) and the state is blank
  unless the exec was deleted (`Blank`), and a dead unit's job has ended.
  `ExecExitIsReal` needs two more. `EInv`, whatever fails: one Start at most holds the
  claim (`OneClaim`), and the start is published by a Start that returns
  (`StartTold`). `YInv`, when nothing fails and nobody deletes the container: how unit,
  exit state file, state, signals, reads and published exit agree (`UnitFacts`,
  `StateFacts`, `SeenFacts`, `ClaimFacts`), and what each goroutine may rely on where
  it is (`PlaceFacts`). An exit that is known means a dead unit, or one that was spared
  (`Spares`): only the sweep makes an exit up, and of a live unit only after a kill that
  the code did not make, because a unit runs on without its init only in a shared pid
  namespace. A read that is merged late is the hard case: it was true of the
  unit, and as long as no exit is known it still is (`Truthful`). None of this survives
  a Delete that marks the exec under a Start, so `YInv` is stated for an exec that is
  not marked or whose Start won before (`Single`); after a lost race no Start wins any
  more, so no start is published and the outbox keeps every exit back.
  `ExecExitPublished` needs `PInv`, under the same conditions: whoever makes the exit
  known owes its event until the outbox has it (`ExitClaimed`), the outbox holds no exit
  back whose start is out (`Flushed`), and while the unit is dead, in the index, and the
  exit not known, the exit is `Coming`: a signal is undelivered, the unit is queued, or
  the worker holds a pid or a terminal read it is going to merge (`Pending`). The unit
  stays in the index until the exit is known or a Start has failed (`Indexed`), hence
  the hypothesis `StartedOnce`; `exec_second_start` shows that it cannot be dropped.
  Assumptions: `CallersFresh`, the calls have names of their own, `StartersApart`, no
  call is both a Start and a Delete, and `NoObsFresh`, a failed read is not an
  observation.
* **InitLifecycleProofs.** Any number of Starts, Deletes and Waits, from a checkpoint
  or not, whatever fails, for a client that calls when Create has returned
  (`Settled`; without it the property is false, see the limits above). The argument
  is that of the execs, with two differences. Create starts the unit without a look
  at `deleting`, which is sound only because until it returns nobody else is under
  way (`CreateAlone`). And a Create that fails deletes a container that is in no map
  any more, so its Delete must not be refused: it has recorded an exit (`Failing`),
  which no merge takes back (`GoesOn`, from the lemmas about `CopyTo`), and that
  needs the type of every observation (`Observed`). A Start from a checkpoint looks
  at `deleting` at its end, and is until then among those who will kill and release.
  `EventsOnce` holds in every scenario, `Settled` or not, by `OInv`: every event has one
  occasion (`Occasions`), the return of Create, the one Start that returns, or the
  change of phase that makes one goroutine owe it; one Start at a time holds the claim
  (`OneClaim`); the outbox itself repeats nothing and lets no exit out before a start
  (`Orderly`). `CreatedHasPid`
  and `ExitIsReal` follow from `XInv`, which `RealInv` states for undisturbed
  behaviours: unit and file (`UnitFacts`), what Create knows at each of its labels
  (`CreateFacts`), that a signal or a read that is not merged yet is true as long as no
  exit is known (`SeenFacts`), the phase (`PhaseFacts`), and what the other calls rely
  on (`CallerFacts`). Assumptions: the calls have names of their own, no call is of two
  kinds (`StartersApart`; a call that were both would be counted twice among those who
  send), and `NoObsFresh`.

Only model-checked: liveness and fairness, the fairness half of the refinement
included, which are out of the prover's reach.

## 5. Plan

Done: every part that keeps state the shim decides by. Next, in this order:

1. `CreateHelper`: createCmd as a process against systemd and the reader of the
   file, with its barrier, shown to implement what the lifecycles assume of it.
2. That the process of `InitLifecycle` implements `Process`.

Not modelled: mounts, logging, metrics, tracing, runtime information, generated
options, flags, bootstrap, the v2 adapter, installation, the benchmark and check
tools, and the calls that only read state or forward one command to runc (State,
Stats, Pids, Pause, Resume, Update, Checkpoint); none of them changes state the
shim keeps. The backoff delay (unitworkqueue.go:168) is abstracted to "some
delay": with at most `reconcileMaxRetries` = 5 attempts of 200 ms its shift comes
nowhere near its width.
