---------------------------- MODULE EventReactor ----------------------------
(***************************************************************************)
(* runEventReactor (unitevents.go), the signal stream of systemd's private *)
(* bus (unitsignals.go) and the end of the service around them: serve and  *)
(* newCtx (main.go), Service.Close (manager.go), Forward and send          *)
(* (events.go).  The reactor's queue is the abstract one of UnitWork, which *)
(* UnitWorkQueue implements; a process is its unit, whether its exit is    *)
(* recorded and what the informer retained for it, since ExecLifecycle and *)
(* InitLifecycle have the rest.                                            *)
(*                                                                         *)
(* The reactor is at one of these points (reactor):                        *)
(*   dial      top of the loop          dialed    connected, no channel yet *)
(*   paths     conn.Signal is done      resync    adding the units in todo  *)
(*   consume   ranging over the stream  sleep     sleepCtx before a re-dial *)
(*   stop      wg.Wait in stop          returned                           *)
(***************************************************************************)
EXTENDS Naturals, FiniteSets

CONSTANTS Units,       \* units of tracked processes, one Start each
          Workers,     \* the reconcileWorker goroutines
          NoUnit,      \* "the worker holds no unit"
          MaxRetries,  \* reconcileMaxRetries
          Capacity,    \* cap(Service.events)
          Budgets      \* bounds: how often systemd drops its clients (downs), a
                       \* read fails (faults) and the shim is told to stop (stops)

ASSUME NoUnitFresh == NoUnit \notin Units
ASSUME BoundsNat == /\ MaxRetries \in Nat /\ Capacity \in Nat
                    /\ Budgets \subseteq [downs : Nat, faults : Nat, stops : Nat]

VARIABLES unit,       \* per unit: absent, running, exited (still loaded), deleted
          recorded,   \* units whose process reports Exited()
          retained,   \* units with a RecordSystemdExitState
          up,         \* systemd accepts connections
          method,     \* the shared method connection, which nobody re-dials
          conn,       \* the reactor's own connection: none, open or dead
          stream,     \* the signals in sigs: <<unit, interface>>
          ended,      \* sigs was closed
          runDone,    \* runCtx is done
          reactor, todo,
          pending, active, closed,     \* the queue, as UnitWork sees it
          outcome,    \* per worker: what its reconcile has come to
          failures, timers, givenUp,   \* Retry and Forget, per unit
          serveDone,  \* the context of serve's goroutines is done
          publishDone,                 \* Service.publishCtx is done
          main,       \* serve: serving, closing, waiting, returned or panicked
          sending,    \* goroutines inside Service.send
          queued, chanClosed,          \* the channel Service.events
          waitEvents, \* Forward has closed waitEvents
          left        \* what is left of the budget

units == <<unit, recorded, retained>>
bus == <<up, method, conn, stream, ended>>
loop == <<runDone, reactor, todo>>
queue == <<pending, active, closed>>
work == <<outcome, failures, timers, givenUp>>
service == <<serveDone, publishDone, main, queued, chanClosed, waitEvents>>
vars == <<units, bus, loop, queue, work, service, sending, left>>

Queue == INSTANCE UnitWork

\* One of the bounded events of the environment.
Spends(what) == /\ left[what] > 0
                /\ left' = [left EXCEPT ![what] = @ - 1]

Interfaces == {"Service", "Unit"}
Tracked == {u \in Units : unit[u] \in {"running", "exited"}}

\* The shim is one operating system process: when main returns or any goroutine
\* panics, nothing of it runs on.
Alive == main \notin {"returned", "panicked"}

Init == /\ unit = [u \in Units |-> "absent"]
        /\ recorded = {} /\ retained = {}
        /\ up = TRUE /\ method = TRUE
        /\ conn = "none" /\ stream = {} /\ ended = FALSE /\ runDone = FALSE
        /\ reactor = "dial" /\ todo = {}
        /\ Queue!Init
        /\ outcome = [w \in Workers |-> "none"]
        /\ failures = [u \in Units |-> 0]
        /\ timers = {} /\ givenUp = {}
        /\ serveDone = FALSE /\ publishDone = FALSE /\ main = "serving"
        /\ sending = {} /\ queued = 0 /\ chanClosed = FALSE
        /\ waitEvents = FALSE
        /\ left \in Budgets

-----------------------------------------------------------------------------
(***************************************************************************)
(* systemd and the RPC handlers around the reactor.                        *)
(***************************************************************************)
\* Mutant of Listening: conn.Signal comes after the resync.
ListeningLate == reactor = "consume"

\* conn.Signal(sigs) has been called: a signal of a live connection reaches sigs.
\* (When sigs is full the bus library delivers later, in any order.)
Listening == reactor \in {"paths", "resync", "consume"}

\* A Start handler indexes the process, runs its unit and publishes TaskStart.
Starts(u) == /\ main = "serving"
             /\ unit[u] = "absent"
             /\ unit' = [unit EXCEPT ![u] = "running"]
             /\ sending' = sending \union {u}
             /\ UNCHANGED <<recorded, retained, bus, loop, queue, work, service, left>>

\* The workload ends.  systemd announces it on both interfaces, or on Unit alone.
UnitExits(u) ==
    /\ unit[u] = "running"
    /\ unit' = [unit EXCEPT ![u] = "exited"]
    /\ IF conn = "open" /\ Listening
       THEN \E ifaces \in {{"Unit"}, Interfaces} :
                stream' = stream \union ({u} \X ifaces)
       ELSE UNCHANGED stream
    /\ UNCHANGED <<recorded, retained, up, method, conn, ended, loop,
                   queue, work, service, sending, left>>

\* A Delete handler untracks a process that has exited and publishes TaskDelete.
Deletes(u) == /\ main = "serving"
              /\ unit[u] = "exited" /\ u \in recorded
              /\ u \notin sending
              /\ unit' = [unit EXCEPT ![u] = "deleted"]
              /\ sending' = sending \union {u}
              /\ UNCHANGED <<recorded, retained, bus, loop, queue, work, service, left>>

\* systemd drops its clients (a re-exec).  The library closes the channels that
\* are registered by then; the method connection may be hit as well.
SystemdDown == /\ up /\ Spends("downs")
               /\ up' = FALSE
               /\ conn' = IF conn = "open" THEN "dead" ELSE conn
               /\ ended' = (ended \/ (conn = "open" /\ Listening))
               /\ method' \in {method, FALSE}
               /\ UNCHANGED <<units, stream, loop, queue, work, service, sending>>

SystemdUp == /\ ~up
             /\ up' = TRUE
             /\ UNCHANGED <<units, method, conn, stream, ended, loop, queue,
                            work, service, sending, left>>

-----------------------------------------------------------------------------
(***************************************************************************)
(* The goroutine of runEventReactor, and watchConnection.                  *)
(***************************************************************************)
\* unitWorkQueue.Add: the request counts unless the queue is shut down.
Add(u) == /\ IF closed THEN UNCHANGED queue ELSE Queue!Request(u)
          /\ givenUp' = IF closed THEN givenUp ELSE givenUp \ {u}

Goes(from, to) == /\ reactor = from
                  /\ reactor' = to

dialSignalBus == /\ Goes("dial", "dialed")
                 /\ ~serveDone /\ up
                 /\ conn' = "open" /\ stream' = {} /\ ended' = FALSE
                 /\ runDone' = FALSE
                 /\ UNCHANGED <<units, up, method, todo, queue, work,
                                service, sending, left>>

dialFails == /\ Goes("dial", "sleep")
             /\ ~serveDone /\ ~up
             /\ UNCHANGED <<units, bus, runDone, todo, queue, work, service,
                            sending, left>>

connSignal == /\ Goes("dialed", "paths")
              /\ UNCHANGED <<units, bus, runDone, todo, queue, work, service,
                             sending, left>>

\* resync takes the names of the index under its lock ...
resyncPaths == /\ Goes("paths", "resync")
               /\ todo' = Tracked
               /\ UNCHANGED <<units, bus, runDone, queue, work, service, sending, left>>

\* ... and adds them to the queue one by one.
resyncAdd(u) == /\ reactor = "resync" /\ u \in todo
                /\ todo' = todo \ {u}
                /\ Add(u)
                /\ UNCHANGED <<units, bus, reactor, runDone, outcome, failures,
                               timers, service, sending, left>>

resyncEnds == /\ Goes("resync", "consume")
              /\ todo = {}
              /\ UNCHANGED <<units, bus, runDone, todo, queue, work, service,
                             sending, left>>

\* consume: enqueueIfExit for one signal.  A terminal Service update is retained
\* for the worker; one for a unit that is unknown or done with is dropped.
consume(u, iface) ==
    /\ reactor = "consume" /\ <<u, iface>> \in stream
    /\ stream' = stream \ {<<u, iface>>}
    /\ IF u \in Tracked \ recorded
       THEN /\ Add(u)
            /\ retained' = IF iface = "Service" THEN retained \union {u}
                                                ELSE retained
       ELSE UNCHANGED <<queue, givenUp, retained>>
    /\ UNCHANGED <<unit, recorded, up, method, conn, ended, loop, outcome,
                   failures, timers, service, sending, left>>

\* The stream is over: runCtx is done, whatever is left in sigs, or sigs was
\* closed and is empty.  The loop cancels runCtx and closes the connection.
consumeEnds == /\ Goes("consume", "sleep")
               /\ runDone \/ serveDone \/ (ended /\ stream = {})
               /\ runDone' = TRUE
               /\ conn' = "none" /\ stream' = {}
               /\ UNCHANGED <<units, up, method, ended, todo, queue, work,
                              service, sending, left>>

sleepCtx == /\ Goes("sleep", "dial")
            /\ ~serveDone
            /\ UNCHANGED <<units, bus, runDone, todo, queue, work, service, sending, left>>

\* The context is done: the deferred stop shuts the queue down ...
ShutDown == /\ reactor \in {"dial", "sleep"} /\ serveDone
            /\ reactor' = "stop"
            /\ Queue!Close
            /\ UNCHANGED <<units, bus, runDone, todo, work, service, sending, left>>

\* ... and waits for the workers to drain it.
stopReturns == /\ Goes("stop", "returned")
               /\ pending = {} /\ Queue!Busy = {}
               /\ UNCHANGED <<units, bus, runDone, todo, queue, work, service,
                              sending, left>>

runEventReactor == \/ dialSignalBus \/ dialFails \/ connSignal
                   \/ resyncPaths \/ (\E u \in Units : resyncAdd(u)) \/ resyncEnds
                   \/ \E u \in Units, iface \in Interfaces : consume(u, iface)
                   \/ consumeEnds \/ sleepCtx \/ ShutDown \/ stopReturns

\* Mutant of watchConnection: it leaves a lost connection to the stream's end.
watchConnectionIdle == FALSE /\ UNCHANGED vars

\* The ticker finds the connection lost and cancels runCtx.
watchConnection == /\ reactor \in {"dialed", "paths", "resync", "consume"}
                   /\ conn = "dead" /\ ~runDone
                   /\ runDone' = TRUE
                   /\ UNCHANGED <<units, bus, reactor, todo, queue, work, service,
                                  sending, left>>

-----------------------------------------------------------------------------
(***************************************************************************)
(* The workers.  Done and the Retry or Forget after it are one step here;  *)
(* UnitWorkQueue has them apart.                                           *)
(***************************************************************************)
Get(w, u) == /\ Queue!Begin(w, u)
             /\ UNCHANGED <<units, bus, loop, work, service, sending, left>>

Reconciles(w, res) == /\ active[w] # NoUnit /\ outcome[w] = "none"
                      /\ outcome' = [outcome EXCEPT ![w] = res]
                      /\ UNCHANGED <<unit, retained, bus, loop, queue, failures,
                                     timers, givenUp, service>>

\* reconcileUnit finds nothing to do: the process is untracked or already exited,
\* or its unit still runs.
reconcileNothing(w) == /\ Reconciles(w, "ok")
                       /\ \/ active[w] \notin Tracked \ recorded
                          \/ unit[active[w]] = "running" /\ method
                       /\ UNCHANGED <<recorded, sending, left>>

\* It records the exit, retained or read, and is the one to publish TaskExit.
reconcileExit(w) == /\ Reconciles(w, "ok")
                    /\ active[w] \in Tracked \ recorded
                    /\ unit[active[w]] = "exited"
                    /\ active[w] \in retained \/ method
                    /\ recorded' = recorded \union {active[w]}
                    /\ sending' = sending \union {w}
                    /\ UNCHANGED left

\* It fails: a read of its own, or every one once the method connection is gone.
reconcileFails(w) == /\ Reconciles(w, "err")
                     /\ active[w] \in Tracked \ recorded
                     /\ \/ ~method /\ active[w] \notin retained
                           /\ UNCHANGED left
                        \/ Spends("faults")
                     /\ UNCHANGED <<recorded, sending>>

CanRetry(u) == ~closed /\ failures[u] < MaxRetries

\* Done, then Forget after a success, Retry after a failure, and Forget again when
\* there have been too many.
Done(w) ==
    LET u == active[w]
        retry == outcome[w] = "err" /\ CanRetry(u)
        giveUp == outcome[w] = "err" /\ ~CanRetry(u)
    IN  /\ outcome[w] # "none" /\ w \notin sending
        /\ Queue!Finish(w)
        /\ outcome' = [outcome EXCEPT ![w] = "none"]
        /\ failures' = [failures EXCEPT ![u] = IF retry THEN @ + 1 ELSE 0]
        /\ timers' = IF retry THEN timers \union {u} ELSE timers
        /\ givenUp' = IF giveUp THEN givenUp \union {u} ELSE givenUp
        /\ UNCHANGED <<units, bus, loop, service, sending, left>>

reconcileWorker(w) == \/ \E u \in Units : Get(w, u)
                      \/ reconcileNothing(w) \/ reconcileExit(w)
                      \/ reconcileFails(w) \/ Done(w)

\* A backoff timer fires and adds the unit; nothing comes of it after a shutdown.
TimerFires(u) == /\ u \in timers
                 /\ timers' = timers \ {u}
                 /\ Add(u)
                 /\ UNCHANGED <<units, bus, loop, outcome, failures, service,
                                sending, left>>

-----------------------------------------------------------------------------
(***************************************************************************)
(* Service.send, Forward, and the end of serve.                            *)
(***************************************************************************)
sent(g) == sending' = sending \ {g}

\* There is room for the event ...
sendAccepted(g) == /\ g \in sending
                   /\ ~chanClosed /\ queued < Capacity
                   /\ queued' = queued + 1
                   /\ sent(g)
                   /\ UNCHANGED <<units, bus, loop, queue, work, serveDone,
                                  publishDone, main, chanClosed, waitEvents, left>>

\* ... or its wait ends, by the timeout or with publishCtx ...
sendGivesUp(g) == /\ g \in sending
                  /\ publishDone \/ (~chanClosed /\ queued = Capacity)
                  /\ sent(g)
                  /\ UNCHANGED <<units, bus, loop, queue, work, service, left>>

\* ... or the channel is closed under it: the goroutine panics, and the shim with it.
sendPanics(g) == /\ g \in sending /\ chanClosed
                 /\ main' = "panicked"
                 /\ UNCHANGED <<units, bus, loop, queue, work, serveDone, publishDone,
                                queued, chanClosed, waitEvents, sending, left>>

send(g) == sendAccepted(g) \/ sendGivesUp(g) \/ sendPanics(g)

\* Forward hands one event to the publisher, whose error it only logs ...
Publish == /\ queued > 0
           /\ queued' = queued - 1
           /\ UNCHANGED <<units, bus, loop, queue, work, serveDone, publishDone, main,
                          chanClosed, waitEvents, sending, left>>

\* Mutant of ForwardEnds: it does not look at what is left in the channel.
ForwardEndsAtOnce == /\ chanClosed /\ ~waitEvents
                     /\ waitEvents' = TRUE
                     /\ UNCHANGED <<units, bus, loop, queue, work, serveDone,
                                    publishDone, main, queued, chanClosed, sending, left>>

\* ... and when the closed channel is empty closes waitEvents.
ForwardEnds == /\ chanClosed /\ queued = 0 /\ ~waitEvents
               /\ waitEvents' = TRUE
               /\ UNCHANGED <<units, bus, loop, queue, work, serveDone, publishDone,
                              main, queued, chanClosed, sending, left>>

Forward == Publish \/ ForwardEnds

\* SIGTERM or SIGINT (newCtx) ends publishCtx and serve's context, a child of it ...
Terminated == /\ ~publishDone /\ Spends("stops")
              /\ publishDone' = TRUE /\ serveDone' = TRUE
              /\ UNCHANGED <<units, bus, loop, queue, work, main, queued, chanClosed,
                             waitEvents, sending>>

\* ... and a listener whose Serve returns ends serve's context alone.
listenerEnds == /\ ~serveDone /\ Spends("stops")
                /\ serveDone' = TRUE
                /\ UNCHANGED <<units, bus, loop, queue, work, publishDone, main,
                               queued, chanClosed, waitEvents, sending>>

\* serve wakes up and closes the API server; Close gives up the connections ...
closeConns == /\ main = "serving" /\ serveDone
              /\ main' = "closing" /\ method' = FALSE
              /\ UNCHANGED <<units, up, conn, stream, ended, loop, queue, work,
                             serveDone, publishDone, queued, chanClosed, waitEvents,
                             sending, left>>

\* Mutant of closeEvents: Close waits for Forward before it closes the channel.
closeEventsLast == /\ main = "closing" /\ waitEvents
                   /\ main' = "waiting" /\ chanClosed' = TRUE
                   /\ UNCHANGED <<units, bus, loop, queue, work, serveDone,
                                  publishDone, queued, waitEvents, sending, left>>

\* ... closes the channel, whoever may be sending on it ...
closeEvents == /\ main = "closing"
               /\ main' = "waiting" /\ chanClosed' = TRUE
               /\ UNCHANGED <<units, bus, loop, queue, work, serveDone, publishDone,
                              queued, waitEvents, sending, left>>

\* ... and waits for Forward.  Then serve returns, and with it the shim.
closeReturns == /\ main = "waiting" /\ waitEvents
                /\ main' = "returned"
                /\ UNCHANGED <<units, bus, loop, queue, work, serveDone, publishDone,
                               queued, chanClosed, waitEvents, sending, left>>

serve == closeConns \/ closeEvents \/ closeReturns

-----------------------------------------------------------------------------
Goroutines == Workers \union Units

Next == /\ Alive
        /\ \/ \E u \in Units : Starts(u) \/ UnitExits(u) \/ Deletes(u)
           \/ SystemdDown \/ SystemdUp
           \/ runEventReactor \/ watchConnection
           \/ \E w \in Workers : reconcileWorker(w)
           \/ \E u \in Units : TimerFires(u)
           \/ \E g \in Goroutines : send(g)
           \/ Forward
           \/ Terminated \/ listenerEnds \/ serve

Runs(A) == Alive /\ A

\* Goroutines and timers run on and systemd comes back.  That a worker's read ends is
\* an assumption on systemd, which answers or drops the connection: the read has no
\* timeout (unitevents.go:292-317).  Publish returns: its context is serve's.  Nobody
\* has to start or stop anything.
Fairness == /\ WF_vars(Runs(runEventReactor)) /\ WF_vars(Runs(watchConnection))
            /\ \A w \in Workers : WF_vars(Runs(reconcileWorker(w)))
            /\ \A u \in Units : WF_vars(Runs(TimerFires(u)))
            /\ \A g \in Goroutines : WF_vars(Runs(send(g)))
            /\ WF_vars(Runs(Forward)) /\ WF_vars(Runs(serve))
            /\ WF_vars(Runs(SystemdUp))

Safe == Init /\ [][Next]_vars
Spec == Safe /\ Fairness

-----------------------------------------------------------------------------
\* The type of every variable.
TypeOK == /\ unit \in [Units -> {"absent", "running", "exited", "deleted"}]
          /\ recorded \in SUBSET Units /\ retained \in SUBSET Units
          /\ up \in BOOLEAN /\ method \in BOOLEAN
          /\ conn \in {"none", "open", "dead"}
          /\ stream \in SUBSET (Units \X Interfaces)
          /\ ended \in BOOLEAN /\ runDone \in BOOLEAN
          /\ reactor \in {"dial", "dialed", "paths", "resync", "consume", "sleep",
                          "stop", "returned"}
          /\ todo \in SUBSET Units
          /\ pending \in SUBSET Units /\ closed \in BOOLEAN
          /\ active \in [Workers -> Units \union {NoUnit}]
          /\ outcome \in [Workers -> {"none", "ok", "err"}]
          /\ failures \in [Units -> 0..MaxRetries]
          /\ timers \in SUBSET Units /\ givenUp \in SUBSET Units
          /\ serveDone \in BOOLEAN /\ publishDone \in BOOLEAN
          /\ main \in {"serving", "closing", "waiting", "returned", "panicked"}
          /\ sending \in SUBSET Goroutines
          /\ queued \in 0..Capacity
          /\ chanClosed \in BOOLEAN /\ waitEvents \in BOOLEAN
          /\ left \in [downs : Nat, faults : Nat, stops : Nat]

\* An exit of u is still to be noticed: nothing has recorded it.
Unnoticed(u) == unit[u] = "exited" /\ u \notin recorded

\* A worker is about to look at u, or has failed to and will come back to it.
InHand(u) == \E w \in Workers : active[w] = u /\ outcome[w] # "ok"

\* No exit is missed (unitevents.go:50-56, 182-186).  From the moment a live
\* connection is being resynced, every exit not recorded yet, also one that came
\* before the connection or between its dial and its first signal, is in sigs,
\* still to be resynced, queued, in a worker's hands or waiting for a retry; or a
\* worker has given up on it since.
NoExitMissed ==
    reactor \in {"resync", "consume"} /\ conn = "open" =>
        \A u \in Units :
            Unnoticed(u) =>
                \/ u \in todo \union pending \union timers \union givenUp
                \/ \E iface \in Interfaces : <<u, iface>> \in stream
                \/ InHand(u)

\* Every exit is recorded in the end (unitevents.go:30-34, the shim's sole monitor),
\* whatever connections are lost on the way, unless the shim stops or has run out
\* of retries on a failing read.
ExitRecorded == \A u \in Units :
                    Unnoticed(u) ~> (~Unnoticed(u) \/ u \in givenUp \/ serveDone)

\* When serve returns, every event that send accepted was handed to the publisher
\* (events.go:18-28 and manager.go:197-198).
AcceptedIsForwarded == main = "returned" => queued = 0

\* A shutdown ends: Close and Forward do not wait for one another for ever.
ShutdownEnds == serveDone ~> ~Alive
=============================================================================
