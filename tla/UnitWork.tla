------------------------------ MODULE UnitWork ------------------------------
(***************************************************************************)
(* What the event reactor needs of its work queue, with no queue in it: a  *)
(* set of units that still have to be looked at, and the unit each worker  *)
(* is looking at now.  unitworkqueue.go promises coalescing (a set has no  *)
(* duplicates), exclusivity (Begin), no lost updates (Request is not       *)
(* forgotten while the unit is busy) and, once closed, that what is still  *)
(* pending is drained before the workers leave.                            *)
(***************************************************************************)
CONSTANTS Units,    \* escaped object-path bases, the queue's keys
          Workers,  \* the goroutines of eventReactor.start
          NoUnit    \* "the worker holds no unit"

VARIABLES pending,  \* units with a request that no worker has picked up
          active,   \* the unit each worker holds, or NoUnit
          closed    \* no further request is accepted

vars == <<pending, active, closed>>

Busy == {active[w] : w \in Workers} \ {NoUnit}

Init == /\ pending = {}
        /\ active = [w \in Workers |-> NoUnit]
        /\ closed = FALSE

\* A request for u; one that is already pending absorbs it.
Request(u) == /\ ~closed
              /\ pending' = pending \union {u}
              /\ UNCHANGED <<active, closed>>

\* A worker picks up a pending unit that no other worker holds.
Begin(w, u) == /\ active[w] = NoUnit
               /\ u \in pending \ Busy
               /\ pending' = pending \ {u}
               /\ active' = [active EXCEPT ![w] = u]
               /\ UNCHANGED closed

Finish(w) == /\ active[w] # NoUnit
             /\ active' = [active EXCEPT ![w] = NoUnit]
             /\ UNCHANGED <<pending, closed>>

Close == /\ ~closed
         /\ closed' = TRUE
         /\ UNCHANGED <<pending, active>>

Next == \/ \E u \in Units : Request(u)
        \/ \E w \in Workers, u \in Units : Begin(w, u)
        \/ \E w \in Workers : Finish(w)
        \/ Close

\* A pending unit is picked up as long as some worker is free to do it, and a
\* worker finishes what it picked up.
Fairness == /\ \A u \in Units : WF_vars(\E w \in Workers : Begin(w, u))
            /\ \A w \in Workers : WF_vars(Finish(w))

Safe == Init /\ [][Next]_vars
Spec == Safe /\ Fairness
=============================================================================
