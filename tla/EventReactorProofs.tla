------------------------- MODULE EventReactorProofs -------------------------
(***************************************************************************)
(* Proofs about EventReactor, for any number of units, workers, retries    *)
(* and lost connections.                                                   *)
(***************************************************************************)
EXTENDS EventReactor, TLAPS

\* The three parts of a step: systemd and the handlers, the reactor with its
\* workers, and the service around them.
LEMMA StepCases ==
  ASSUME [Next]_vars
  PROVE  \/ \E u \in Units : Starts(u) \/ UnitExits(u) \/ Deletes(u)
         \/ SystemdDown \/ SystemdUp
         \/ dialSignalBus \/ dialFails \/ connSignal \/ resyncPaths \/ resyncEnds
         \/ \E u \in Units : resyncAdd(u)
         \/ \E u \in Units, iface \in Interfaces : consume(u, iface)
         \/ consumeEnds \/ sleepCtx \/ ShutDown \/ stopReturns \/ watchConnection
         \/ \E w \in Workers, u \in Units : Get(w, u)
         \/ \E w \in Workers : \/ reconcileNothing(w) \/ reconcileExit(w)
                               \/ reconcileFails(w) \/ Done(w)
         \/ \E u \in Units : TimerFires(u)
         \/ \E g \in Goroutines : \/ sendAccepted(g) \/ sendGivesUp(g)
                                  \/ sendPanics(g)
         \/ Publish \/ ForwardEnds \/ Terminated \/ listenerEnds
         \/ closeConns \/ closeEvents \/ closeReturns
         \/ UNCHANGED vars
BY DEF Next, runEventReactor, reconcileWorker, send, Forward, serve

-----------------------------------------------------------------------------
(***************************************************************************)
(* The events channel: Close and Forward.                                  *)
(***************************************************************************)
\* Forward leaves only a closed, empty channel, and serve returns only after it.
ChannelInv == /\ queued \in Nat
              /\ waitEvents => chanClosed /\ queued = 0
              /\ main = "returned" => waitEvents

\* Every step keeps ChannelInv.
LEMMA ChannelStep == ChannelInv /\ [Next]_vars => ChannelInv'
<1> SUFFICES ASSUME ChannelInv, [Next]_vars
             PROVE  ChannelInv'
    OBVIOUS
<1> USE DEF ChannelInv, service
<1>1. ASSUME NEW g \in Goroutines, sendAccepted(g) PROVE ChannelInv'
      BY <1>1 DEF sendAccepted
<1>2. ASSUME NEW g \in Goroutines, sendPanics(g) PROVE ChannelInv'
      BY <1>2 DEF sendPanics
<1>3. CASE Publish
      BY <1>3 DEF Publish
<1>4. CASE ForwardEnds
      BY <1>4 DEF ForwardEnds
<1>5. CASE Terminated \/ listenerEnds
      BY <1>5 DEF Terminated, listenerEnds
<1>6. CASE closeConns \/ closeEvents \/ closeReturns
      BY <1>6 DEF closeConns, closeEvents, closeReturns
<1>7. CASE UNCHANGED <<queued, chanClosed, waitEvents, main>>
      BY <1>7
<1>8. \/ \E g \in Goroutines : sendAccepted(g) \/ sendPanics(g)
      \/ Publish \/ ForwardEnds \/ Terminated \/ listenerEnds
      \/ closeConns \/ closeEvents \/ closeReturns
      \/ UNCHANGED <<queued, chanClosed, waitEvents, main>>
      BY StepCases
         DEF Starts, UnitExits, Deletes, SystemdDown, SystemdUp, dialSignalBus,
             dialFails, connSignal, resyncPaths, resyncEnds, resyncAdd, consume,
             consumeEnds, sleepCtx, ShutDown, stopReturns, watchConnection, Get,
             Reconciles, reconcileNothing, reconcileExit, reconcileFails, Done,
             TimerFires, sendGivesUp, vars
<1> QED BY <1>1, <1>2, <1>3, <1>4, <1>5, <1>6, <1>7, <1>8

\* When serve has returned, the publisher was handed every event send accepted:
\* Close waits for Forward, and Forward for an empty, closed channel.
THEOREM EventsAreForwarded == Spec => []AcceptedIsForwarded
<1>1. Init => ChannelInv
      BY DEF Init, ChannelInv
<1>2. ChannelInv => AcceptedIsForwarded
      BY DEF ChannelInv, AcceptedIsForwarded
<1> QED BY <1>1, <1>2, ChannelStep, PTL DEF Spec, Safe

-----------------------------------------------------------------------------
(***************************************************************************)
(* The exits.  NoExitMissed alone is not inductive: an Add must still      *)
(* count, so the queue must not be shut down while the reactor resyncs or  *)
(* consumes, and a worker must take up a unit with a clean outcome.        *)
(***************************************************************************)
QueueOpen == closed => reactor \in {"stop", "returned"}

CleanOutcome == \A w \in Workers : active[w] = NoUnit => outcome[w] = "none"

TypeParts == /\ unit \in [Units -> {"absent", "running", "exited", "deleted"}]
             /\ active \in [Workers -> Units \union {NoUnit}]
             /\ outcome \in [Workers -> {"none", "ok", "err"}]
             /\ failures \in [Units -> 0..MaxRetries]

ExitInv == TypeParts /\ QueueOpen /\ CleanOutcome /\ NoExitMissed

\* The places where an exit that nothing has recorded is still looked after.
Covered(u) == \/ u \in todo \union pending \union timers \union givenUp
              \/ \E iface \in Interfaces : <<u, iface>> \in stream
              \/ InHand(u)

Watching == reactor \in {"resync", "consume"} /\ conn = "open"

\* Each step keeps the types, the open queue and the clean outcomes.
LEMMA WorkersStep ==
    TypeParts /\ QueueOpen /\ CleanOutcome /\ [Next]_vars
        => TypeParts' /\ QueueOpen' /\ CleanOutcome'
<1> SUFFICES ASSUME TypeParts, QueueOpen, CleanOutcome, [Next]_vars
             PROVE  TypeParts' /\ QueueOpen' /\ CleanOutcome'
    OBVIOUS
<1> USE DEF TypeParts, QueueOpen, CleanOutcome, units, bus, loop, queue, work, service
<1>0. NoUnit \notin Units /\ MaxRetries \in Nat
      BY NoUnitFresh, BoundsNat
<1>1. ASSUME NEW u \in Units, Starts(u) \/ UnitExits(u) \/ Deletes(u)
      PROVE  TypeParts' /\ QueueOpen' /\ CleanOutcome'
      BY <1>1 DEF Starts, UnitExits, Deletes
<1>2. CASE SystemdDown \/ SystemdUp \/ watchConnection
  <2>1. UNCHANGED <<unit, active, outcome, failures, closed, reactor>>
        BY <1>2, Zenon DEF SystemdDown, SystemdUp, watchConnection
  <2> QED BY <2>1
<1>3. CASE dialSignalBus \/ dialFails \/ connSignal \/ resyncPaths \/ resyncEnds
           \/ consumeEnds \/ sleepCtx \/ stopReturns
      BY <1>3 DEF dialSignalBus, dialFails, connSignal, resyncPaths, resyncEnds,
                  consumeEnds, sleepCtx, stopReturns, Goes
<1>4. ASSUME NEW u \in Units, resyncAdd(u) \/ TimerFires(u)
      PROVE  TypeParts' /\ QueueOpen' /\ CleanOutcome'
      BY <1>4 DEF resyncAdd, TimerFires, Add, Queue!Request
<1>5. ASSUME NEW u \in Units, NEW iface \in Interfaces, consume(u, iface)
      PROVE  TypeParts' /\ QueueOpen' /\ CleanOutcome'
      BY <1>5 DEF consume, Add, Queue!Request
<1>6. CASE ShutDown
      BY <1>6 DEF ShutDown, Queue!Close
<1>7. ASSUME NEW w \in Workers, NEW u \in Units, Get(w, u)
      PROVE  TypeParts' /\ QueueOpen' /\ CleanOutcome'
      BY <1>7, <1>0 DEF Get, Queue!Begin
<1>8. ASSUME NEW w \in Workers,
             reconcileNothing(w) \/ reconcileExit(w) \/ reconcileFails(w)
      PROVE  TypeParts' /\ QueueOpen' /\ CleanOutcome'
      BY <1>8 DEF reconcileNothing, reconcileExit, reconcileFails, Reconciles
<1>9. ASSUME NEW w \in Workers, Done(w)
      PROVE  TypeParts' /\ QueueOpen' /\ CleanOutcome'
  <2>1. active[w] \in Units
        BY <1>9 DEF Done, Queue!Finish
  <2>2. failures' \in [Units -> 0..MaxRetries]
        BY <1>9, <2>1, <1>0 DEF Done, CanRetry
  <2> QED BY <1>9, <2>1, <2>2 DEF Done, Queue!Finish
<1>10. ASSUME NEW g \in Goroutines,
              sendAccepted(g) \/ sendGivesUp(g) \/ sendPanics(g)
       PROVE  TypeParts' /\ QueueOpen' /\ CleanOutcome'
       BY <1>10 DEF sendAccepted, sendGivesUp, sendPanics
<1>11. CASE Publish \/ ForwardEnds \/ Terminated \/ listenerEnds
            \/ closeConns \/ closeEvents \/ closeReturns \/ UNCHANGED vars
       BY <1>11 DEF Publish, ForwardEnds, Terminated, listenerEnds, closeConns,
                    closeEvents, closeReturns, vars
<1> QED BY StepCases, <1>1, <1>2, <1>3, <1>4, <1>5, <1>6, <1>7, <1>8, <1>9, <1>10,
           <1>11

\* Each step keeps every exit in somebody's sight while the reactor is watching.
LEMMA MissedStep == ExitInv /\ [Next]_vars => NoExitMissed'
<1> SUFFICES ASSUME ExitInv, [Next]_vars, Watching',
                    NEW v \in Units, Unnoticed(v)'
             PROVE  Covered(v)'
    BY DEF NoExitMissed, Watching, Covered
<1> USE DEF units, bus, loop, queue, work, service
<1>0. /\ TypeParts /\ QueueOpen /\ CleanOutcome
      /\ Watching /\ Unnoticed(v) => Covered(v)
      BY DEF ExitInv, NoExitMissed, Watching, Covered
<1>a. CASE UNCHANGED <<unit, recorded, reactor, conn, todo, pending, timers,
                       givenUp, stream, active, outcome>>
      BY <1>a, <1>0 DEF Watching, Unnoticed, Covered, InHand
<1>1. ASSUME NEW u \in Units, Starts(u) \/ UnitExits(u) \/ Deletes(u)
      PROVE  Covered(v)'
  <2>1. /\ Watching
        /\ UNCHANGED <<todo, pending, timers, givenUp, active, outcome, recorded>>
        BY <1>1 DEF Starts, UnitExits, Deletes, Watching
  <2>2. CASE Unnoticed(v)
        BY <1>0, <1>1, <2>1, <2>2
           DEF Covered, InHand, Starts, UnitExits, Deletes
  <2>3. CASE ~Unnoticed(v)
    <3>1. UnitExits(u) /\ u = v
          BY <1>0, <1>1, <2>1, <2>3
             DEF TypeParts, Unnoticed, Starts, UnitExits, Deletes
    <3>2. <<v, "Unit">> \in stream'
          BY <3>1, <2>1 DEF UnitExits, Watching, Listening, Interfaces
    <3> QED BY <3>2 DEF Covered, Interfaces
  <2> QED BY <2>2, <2>3
<1>2. CASE SystemdDown \/ SystemdUp \/ watchConnection
      BY <1>2, <1>0 DEF SystemdDown, SystemdUp, watchConnection, Watching,
                        Unnoticed, Covered, InHand
<1>3. CASE dialSignalBus \/ dialFails \/ connSignal \/ consumeEnds \/ sleepCtx
           \/ stopReturns \/ ShutDown
      BY <1>3 DEF dialSignalBus, dialFails, connSignal, consumeEnds, sleepCtx,
                  stopReturns, ShutDown, Goes, Watching
<1>4. CASE resyncPaths
      BY <1>4 DEF resyncPaths, Tracked, Unnoticed, Covered
<1>5. CASE resyncEnds
      BY <1>5, <1>0 DEF resyncEnds, Goes, Watching, Unnoticed, Covered, InHand
<1>6. ASSUME NEW u \in Units, resyncAdd(u) \/ TimerFires(u)
      PROVE  Covered(v)'
  <2>1. /\ Watching /\ ~closed /\ Unnoticed(v)
        /\ UNCHANGED <<stream, active, outcome>>
        BY <1>6, <1>0 DEF resyncAdd, TimerFires, Add, Queue!Request, QueueOpen,
                          Watching, Unnoticed
  <2>2. /\ pending' = pending \union {u} /\ givenUp' = givenUp \ {u}
        /\ todo \ {u} \subseteq todo' /\ timers \ {u} \subseteq timers'
        BY <1>6, <2>1 DEF resyncAdd, TimerFires, Add, Queue!Request
  <2> QED BY <1>0, <2>1, <2>2 DEF Covered, InHand
<1>7. ASSUME NEW u \in Units, NEW iface \in Interfaces, consume(u, iface)
      PROVE  Covered(v)'
  <2>1. /\ Watching /\ ~closed /\ Unnoticed(v)
        /\ UNCHANGED <<todo, timers, active, outcome>>
        /\ stream' = stream \ {<<u, iface>>}
        BY <1>7, <1>0 DEF consume, Add, Queue!Request, QueueOpen, Watching, Unnoticed
  <2>2. CASE u = v
    <3>1. v \in pending'
          BY <1>7, <2>1, <2>2 DEF consume, Add, Queue!Request, Tracked, Unnoticed
    <3> QED BY <3>1 DEF Covered
  <2>3. CASE u # v
    <3>1. pending \subseteq pending' /\ givenUp \ {u} \subseteq givenUp'
          BY <1>7, <2>1 DEF consume, Add, Queue!Request
    <3>2. \A i \in Interfaces : <<v, i>> \in stream => <<v, i>> \in stream'
          BY <2>1, <2>3
    <3> QED BY <1>0, <2>1, <2>3, <3>1, <3>2 DEF Covered, InHand
  <2> QED BY <2>2, <2>3
<1>8. ASSUME NEW w \in Workers, NEW u \in Units, Get(w, u)
      PROVE  Covered(v)'
  <2>1. /\ Watching /\ Unnoticed(v)
        /\ UNCHANGED <<todo, timers, givenUp, stream, outcome>>
        /\ active[w] = NoUnit /\ outcome[w] = "none"
        /\ active' = [active EXCEPT ![w] = u] /\ pending' = pending \ {u}
        BY <1>8, <1>0 DEF Get, Queue!Begin, Watching, Unnoticed, CleanOutcome
  <2>2. CASE u = v
        BY <2>1, <2>2, <1>0 DEF Covered, InHand, TypeParts
  <2>3. CASE u # v
    <3>1. InHand(v) => InHand(v)'
          BY <2>1, <1>0, NoUnitFresh DEF InHand, TypeParts
    <3> QED BY <1>0, <2>1, <2>3, <3>1 DEF Covered
  <2> QED BY <2>2, <2>3
<1>9. ASSUME NEW w \in Workers,
             reconcileNothing(w) \/ reconcileExit(w) \/ reconcileFails(w)
      PROVE  Covered(v)'
  <2>1. /\ Watching /\ Unnoticed(v)
        /\ UNCHANGED <<todo, timers, givenUp, stream, pending, active>>
        BY <1>9 DEF reconcileNothing, reconcileExit, reconcileFails, Reconciles,
                    Watching, Unnoticed
  <2>2. InHand(v) => InHand(v)'
    <3>1. \E res \in {"ok", "err"} :
              /\ outcome' = [outcome EXCEPT ![w] = res]
              /\ res = "ok" => active[w] # v
          BY <1>9, <2>1 DEF reconcileNothing, reconcileExit, reconcileFails,
                            Reconciles, Tracked, Unnoticed
    <3> QED BY <3>1, <2>1, <1>0 DEF InHand, TypeParts
  <2> QED BY <1>0, <2>1, <2>2 DEF Covered
<1>10. ASSUME NEW w \in Workers, Done(w)
       PROVE  Covered(v)'
  <2>1. /\ Watching /\ Unnoticed(v)
        /\ UNCHANGED <<todo, stream, pending>>
        /\ timers \subseteq timers' /\ givenUp \subseteq givenUp'
        /\ active' = [active EXCEPT ![w] = NoUnit]
        /\ outcome' = [outcome EXCEPT ![w] = "none"]
        BY <1>10 DEF Done, Queue!Finish, Watching, Unnoticed
  <2>2. CASE active[w] = v /\ outcome[w] # "ok"
    <3>1. outcome[w] = "err"
          BY <1>10, <2>2, <1>0 DEF Done, TypeParts
    <3>2. v \in timers' \/ v \in givenUp'
          BY <1>10, <2>2, <3>1 DEF Done
    <3> QED BY <3>2 DEF Covered
  <2>3. CASE ~(active[w] = v /\ outcome[w] # "ok")
    <3>1. InHand(v) => InHand(v)'
          BY <2>1, <2>3, <1>0 DEF InHand, TypeParts
    <3> QED BY <1>0, <2>1, <3>1 DEF Covered
  <2> QED BY <2>2, <2>3
<1>11. ASSUME NEW g \in Goroutines,
              sendAccepted(g) \/ sendGivesUp(g) \/ sendPanics(g)
       PROVE  Covered(v)'
       BY <1>11, <1>a DEF sendAccepted, sendGivesUp, sendPanics
<1>12. CASE Publish \/ ForwardEnds \/ Terminated \/ listenerEnds
            \/ closeConns \/ closeEvents \/ closeReturns \/ UNCHANGED vars
       BY <1>12, <1>a DEF Publish, ForwardEnds, Terminated, listenerEnds, closeConns,
                          closeEvents, closeReturns, vars
<1> QED BY StepCases, <1>1, <1>2, <1>3, <1>4, <1>5, <1>6, <1>7, <1>8, <1>9, <1>10,
           <1>11, <1>12

\* No exit is missed, however often the connection is lost and whenever a unit
\* exits: the reactor listens before it takes the names to resync.
THEOREM ExitsAreNotMissed == Spec => []NoExitMissed
<1>1. Init => ExitInv
      BY BoundsNat DEF Init, ExitInv, TypeParts, QueueOpen, CleanOutcome, NoExitMissed,
                       Queue!Init
<1>2. ExitInv /\ [Next]_vars => ExitInv'
      BY WorkersStep, MissedStep DEF ExitInv
<1>3. ExitInv => NoExitMissed
      BY DEF ExitInv
<1> QED BY <1>1, <1>2, <1>3, PTL DEF Spec, Safe
=============================================================================
