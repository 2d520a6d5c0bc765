---------------------------- MODULE UnitWorkQueue ----------------------------
(***************************************************************************)
(* unitworkqueue.go, and the reconcileWorker loop of unitevents.go that    *)
(* drains it.  Every method of the queue is one critical section of q.mu   *)
(* and therefore one action; the condition variable is explicit, because   *)
(* Get may only sleep when nobody will have to wake it again.              *)
(*                                                                         *)
(* A worker w is at one of these points (pc[w]):                           *)
(*   idle      about to call Get                                           *)
(*   waiting   asleep in cond.Wait inside Get                              *)
(*   woken     signalled, has not reacquired q.mu yet                      *)
(*   got       Get returned item[w]; reconcileUnit has read nothing yet    *)
(*   read      reconcileUnit has read the unit's state                     *)
(*   ok, err   Done was called; the reconcile succeeded / failed           *)
(*   giveup    Retry returned false, Forget is still to come               *)
(*   stopped   Get reported shutdown and the goroutine returned            *)
(***************************************************************************)
EXTENDS Naturals, Sequences, FiniteSets

CONSTANTS Units,       \* escaped object-path bases, the keys of the queue
          Workers,     \* reconcileWorker goroutines (eventReconcileWorkers)
          MaxRetries,  \* reconcileMaxRetries
          NoUnit,      \* "no item"
          MaxAdds      \* bound: calls of Add made by the informer and resync

ASSUME WorkersFinite == IsFiniteSet(Workers)
ASSUME MaxRetriesNat == MaxRetries \in Nat
ASSUME MaxAddsNat == MaxAdds \in Nat
ASSUME NoUnitFresh == NoUnit \notin Units

VARIABLES queue, dirty, processing, failures, shutdown,  \* unitWorkQueue
          timers,  \* AddAfter goroutines whose timer has not fired, per unit
          pc, item, \* the workers
          unseen,  \* history: units whose last event no reconcile has read yet
          added    \* calls of Add made so far by the informer and resync

qvars == <<queue, dirty, processing, failures, shutdown>>
vars == <<qvars, timers, pc, item, unseen, added>>

Points == {"idle", "waiting", "woken", "got", "read", "ok", "err", "giveup",
           "stopped"}

At(p) == {w \in Workers : pc[w] = p}
Holding == At("got") \union At("read")

Init == /\ queue = <<>>
        /\ dirty = {}
        /\ processing = {}
        /\ failures = [u \in Units |-> 0]
        /\ shutdown = FALSE
        /\ timers = [u \in Units |-> 0]
        /\ pc = [w \in Workers |-> "idle"]
        /\ item = [w \in Workers |-> NoUnit]
        /\ unseen = {}
        /\ added = 0

\* Mutant of Signal: the signal is forgotten.
SignalForgotten(base) == pc' = base

(***************************************************************************)
(* cond.Signal, when the caller's own step leaves the workers at base:     *)
(* some sleeper is woken, or nothing happens if there is none.             *)
(***************************************************************************)
Signal(base) ==
    LET asleep == {w \in Workers : base[w] = "waiting"}
    IN  \/ asleep = {} /\ pc' = base
        \/ \E w \in asleep : pc' = [base EXCEPT ![w] = "woken"]

\* Mutant of Enqueue: a unit in processing is queued all the same.
EnqueueIgnoringProcessing(u) ==
    \/ /\ shutdown \/ u \in dirty
       /\ UNCHANGED <<queue, dirty, pc>>
    \/ /\ ~shutdown /\ u \notin dirty
       /\ dirty' = dirty \union {u}
       /\ queue' = Append(queue, u)
       /\ Signal(pc)

\* Mutant of Enqueue: a unit in processing is taken to be up to date already.
EnqueueDropsBusy(u) ==
    \/ /\ shutdown \/ u \in dirty \/ u \in processing
       /\ UNCHANGED <<queue, dirty, pc>>
    \/ /\ ~shutdown /\ u \notin dirty /\ u \notin processing
       /\ dirty' = dirty \union {u}
       /\ queue' = Append(queue, u)
       /\ Signal(pc)

\* The critical section of Add.
Enqueue(u) ==
    \/ /\ shutdown \/ u \in dirty
       /\ UNCHANGED <<queue, dirty, pc>>
    \/ /\ ~shutdown /\ u \notin dirty /\ u \in processing
       /\ dirty' = dirty \union {u}
       /\ UNCHANGED <<queue, pc>>
    \/ /\ ~shutdown /\ u \notin dirty /\ u \notin processing
       /\ dirty' = dirty \union {u}
       /\ queue' = Append(queue, u)
       /\ Signal(pc)

\* The informer (enqueueIfExit) or a resync reports that u may have changed.
Add(u) == /\ added < MaxAdds
          /\ added' = added + 1
          /\ Enqueue(u)
          /\ unseen' = IF shutdown THEN unseen ELSE unseen \union {u}
          /\ UNCHANGED <<processing, failures, shutdown, timers, item>>

\* The goroutine of AddAfter: its timer fires and it calls Add ...
TimerFires(u) == /\ timers[u] > 0
                 /\ timers' = [timers EXCEPT ![u] = @ - 1]
                 /\ Enqueue(u)
                 /\ UNCHANGED <<processing, failures, shutdown, item, unseen,
                                added>>

\* ... or the queue is shut down first and the add is abandoned.
TimerAbandoned(u) == /\ shutdown
                     /\ timers[u] > 0
                     /\ timers' = [timers EXCEPT ![u] = @ - 1]
                     /\ UNCHANGED <<qvars, pc, item, unseen, added>>

\* Get, entered or resumed with q.mu held, finds nothing to do and sleeps.
GetWaits(w) == /\ pc[w] \in {"idle", "woken"}
               /\ queue = <<>> /\ ~shutdown
               /\ pc' = [pc EXCEPT ![w] = "waiting"]
               /\ UNCHANGED <<qvars, timers, item, unseen, added>>

\* Get returns the oldest name.
GetItem(w) == /\ pc[w] \in {"idle", "woken"}
              /\ queue # <<>>
              /\ queue' = Tail(queue)
              /\ dirty' = dirty \ {Head(queue)}
              /\ processing' = processing \union {Head(queue)}
              /\ pc' = [pc EXCEPT ![w] = "got"]
              /\ item' = [item EXCEPT ![w] = Head(queue)]
              /\ UNCHANGED <<failures, shutdown, timers, unseen, added>>

\* Mutant of GetShutdown: shutdown is looked at before the queue.
GetShutdownFirst(w) == /\ pc[w] \in {"idle", "woken"}
                       /\ shutdown
                       /\ pc' = [pc EXCEPT ![w] = "stopped"]
                       /\ UNCHANGED <<qvars, timers, item, unseen, added>>

\* Get reports shutdown and the worker returns.
GetShutdown(w) == /\ pc[w] \in {"idle", "woken"}
                  /\ queue = <<>> /\ shutdown
                  /\ pc' = [pc EXCEPT ![w] = "stopped"]
                  /\ UNCHANGED <<qvars, timers, item, unseen, added>>

\* reconcileUnit reads the current state of the unit.
Read(w) == /\ pc[w] = "got"
           /\ unseen' = unseen \ {item[w]}
           /\ pc' = [pc EXCEPT ![w] = "read"]
           /\ UNCHANGED <<qvars, timers, item, added>>

\* Mutant of Done: a unit that became dirty meanwhile is not queued again.
DoneForgetsDirty(w, res) ==
    /\ pc[w] = "read"
    /\ processing' = processing \ {item[w]}
    /\ pc' = [pc EXCEPT ![w] = res]
    /\ UNCHANGED <<queue, dirty, failures, shutdown, timers, item, unseen, added>>

\* Mutant of Done: it clears the dirty mark that Get should have cleared.
DoneClearsDirty(w, res) ==
    /\ pc[w] = "read"
    /\ processing' = processing \ {item[w]}
    /\ dirty' = dirty \ {item[w]}
    /\ pc' = [pc EXCEPT ![w] = res]
    /\ UNCHANGED <<queue, failures, shutdown, timers, item, unseen, added>>

\* Done, after a reconcile that returned no error ("ok") or one ("err").
Done(w, res) ==
    LET u == item[w]
        next == [pc EXCEPT ![w] = res]
    IN  /\ pc[w] = "read"
        /\ processing' = processing \ {u}
        /\ IF u \in dirty
           THEN queue' = Append(queue, u) /\ Signal(next)
           ELSE pc' = next /\ UNCHANGED queue
        /\ UNCHANGED <<dirty, failures, shutdown, timers, item, unseen, added>>

\* Forget, after a success or after giving up, ends the worker's round.
Forget(w) == /\ pc[w] \in {"ok", "giveup"}
             /\ failures' = [failures EXCEPT ![item[w]] = 0]
             /\ pc' = [pc EXCEPT ![w] = "idle"]
             /\ item' = [item EXCEPT ![w] = NoUnit]
             /\ UNCHANGED <<queue, dirty, processing, shutdown, timers, unseen,
                            added>>

\* Mutant of RetryScheduled: the bound is off by one.
RetryOnceTooOften(w) ==
    LET u == item[w]
    IN  /\ pc[w] = "err"
        /\ ~shutdown /\ failures[u] <= MaxRetries
        /\ failures' = [failures EXCEPT ![u] = @ + 1]
        /\ timers' = [timers EXCEPT ![u] = @ + 1]
        /\ pc' = [pc EXCEPT ![w] = "idle"]
        /\ item' = [item EXCEPT ![w] = NoUnit]
        /\ UNCHANGED <<queue, dirty, processing, shutdown, unseen, added>>

\* Retry counts the failure and leaves the add to a timer.  The backoff is never
\* zero (reconcileRetryBase is 200ms), so AddAfter always starts its goroutine.
RetryScheduled(w) ==
    LET u == item[w]
    IN  /\ pc[w] = "err"
        /\ ~shutdown /\ failures[u] < MaxRetries
        /\ failures' = [failures EXCEPT ![u] = @ + 1]
        /\ timers' = [timers EXCEPT ![u] = @ + 1]
        /\ pc' = [pc EXCEPT ![w] = "idle"]
        /\ item' = [item EXCEPT ![w] = NoUnit]
        /\ UNCHANGED <<queue, dirty, processing, shutdown, unseen, added>>

RetryRefused(w) == /\ pc[w] = "err"
                   /\ shutdown \/ failures[item[w]] >= MaxRetries
                   /\ pc' = [pc EXCEPT ![w] = "giveup"]
                   /\ UNCHANGED <<qvars, timers, item, unseen, added>>

\* Mutant of ShutDown: the sleepers are not woken.
ShutDownSilently == /\ ~shutdown
                    /\ shutdown' = TRUE
                    /\ UNCHANGED <<queue, dirty, processing, failures, timers, pc,
                                   item, unseen, added>>

\* ShutDown, called once by the stop function that start returns.
ShutDown == /\ ~shutdown
            /\ shutdown' = TRUE
            /\ pc' = [w \in Workers |-> IF pc[w] = "waiting" THEN "woken"
                                                             ELSE pc[w]]
            /\ UNCHANGED <<queue, dirty, processing, failures, timers, item,
                           unseen, added>>

\* Every worker has returned, so stop returns too.
Stopped == /\ At("stopped") = Workers
           /\ \A u \in Units : timers[u] = 0
           /\ UNCHANGED vars

Worker(w) == \/ GetWaits(w) \/ GetItem(w) \/ GetShutdown(w)
             \/ Read(w)
             \/ \E res \in {"ok", "err"} : Done(w, res)
             \/ Forget(w) \/ RetryScheduled(w) \/ RetryRefused(w)

Timer(u) == TimerFires(u) \/ TimerAbandoned(u)

Next == \/ \E u \in Units : Add(u)
        \/ \E u \in Units : Timer(u)
        \/ \E w \in Workers : Worker(w)
        \/ ShutDown
        \/ Stopped

\* A goroutine that can run does, and a timer expires.  Nobody has to call Add or
\* ShutDown.  That a reconcile ends is an assumption on systemd, which answers or drops
\* the connection: the worker's reads have no timeout (unitevents.go:292-317).  After
\* ShutDown their context is cancelled.
Fairness == /\ \A w \in Workers : WF_vars(Worker(w))
            /\ \A u \in Units : WF_vars(Timer(u))

Safe == Init /\ [][Next]_vars
Spec == Safe /\ Fairness

-----------------------------------------------------------------------------
\* The type of every variable.
TypeOK == /\ queue \in Seq(Units)
          /\ dirty \in SUBSET Units
          /\ processing \in SUBSET Units
          /\ failures \in [Units -> 0..MaxRetries]
          /\ shutdown \in BOOLEAN
          /\ timers \in [Units -> Nat]
          /\ pc \in [Workers -> Points]
          /\ item \in [Workers -> Units \union {NoUnit}]
          /\ unseen \in SUBSET Units
          /\ added \in 0..MaxAdds

\* Exclusivity (unitworkqueue.go:14): no unit is reconciled by two workers.
Exclusive == \A v, w \in Holding : item[v] = item[w] => v = w

\* No lost updates (unitworkqueue.go:16): an event that an open queue accepted,
\* and that no reconcile has read yet, is still on its way to a worker.
NoLostUpdate ==
    \A u \in unseen : u \in dirty \/ \E w \in At("got") : item[w] = u

\* The dirty set and the slice agree (Add and Done, unitworkqueue.go:57-65 and
\* 145-148): what is dirty is queued exactly once, or is being processed and will
\* be queued by Done.
QueueMatchesDirty ==
    /\ \A i, j \in 1..Len(queue) : queue[i] = queue[j] => i = j
    /\ {queue[i] : i \in 1..Len(queue)} = dirty \ processing

\* No lost wakeup (Signal in Add and Done, Broadcast in ShutDown): a worker is
\* asleep only while as many woken workers as there are queued names are on their
\* way to the queue, and nobody sleeps through a shutdown.
NoLostWakeup ==
    /\ At("waiting") # {} => Len(queue) <= Cardinality(At("woken"))
    /\ shutdown => At("waiting") = {}

\* Get drains (unitworkqueue.go:153): when the last worker has left, nothing
\* accepted before the shutdown is left unread, although Done may have queued a
\* name after other workers were already gone.
DrainedWhenStopped ==
    (Workers # {} /\ At("stopped") = Workers) => /\ dirty = {} /\ unseen = {}

-----------------------------------------------------------------------------
\* Every accepted event is read by a reconcile that starts after it, even when the
\* unit was being processed as the event came in, or the queue shuts down.
EveryUpdateIsRead == \A u \in Units : u \in unseen ~> u \notin unseen

\* stop() returns: wg.Wait in eventReactor.start ends after ShutDown.
ShutDownEnds == shutdown ~> At("stopped") = Workers

Abstract == INSTANCE UnitWork
            WITH pending <- dirty,
                 active <- [w \in Workers |->
                              IF w \in Holding THEN item[w] ELSE NoUnit],
                 closed <- shutdown

\* The queue, its condition variable and its retry timers implement UnitWork.
ImplementsUnitWork == Abstract!Spec
=============================================================================
