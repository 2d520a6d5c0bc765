------------------------- MODULE UnitWorkQueueProofs -------------------------
(***************************************************************************)
(* Proofs about UnitWorkQueue, for any sets of units and (finitely many)   *)
(* workers, any retry limit and any number of adds: the safety properties, *)
(* and that the queue implements UnitWork.                                 *)
(***************************************************************************)
EXTENDS UnitWorkQueue, FiniteSetTheorems, TLAPS

Elems(q) == {q[i] : i \in 1..Len(q)}
Once(q) == \A i, j \in 1..Len(q) : q[i] = q[j] => i = j
Woken(p) == {w \in Workers : p[w] = "woken"}
Asleep(p) == {w \in Workers : p[w] = "waiting"}

-----------------------------------------------------------------------------
\* append in Add and Done: one more element, once if it was not there.
LEMMA AppendElems ==
    ASSUME NEW q \in Seq(Units), NEW u \in Units
    PROVE  /\ Append(q, u) \in Seq(Units)
           /\ Len(Append(q, u)) = Len(q) + 1
           /\ Elems(Append(q, u)) = Elems(q) \union {u}
           /\ Once(q) /\ u \notin Elems(q) => Once(Append(q, u))
<1>1. /\ Append(q, u) \in Seq(Units)
      /\ Len(Append(q, u)) = Len(q) + 1 /\ Len(q) \in Nat
      /\ \A i \in 1..Len(q) : Append(q, u)[i] = q[i]
      /\ Append(q, u)[Len(q) + 1] = u
  OBVIOUS
<1>2. Elems(Append(q, u)) = Elems(q) \union {u}
  BY <1>1 DEF Elems
<1>3. Once(q) /\ u \notin Elems(q) => Once(Append(q, u))
  BY <1>1 DEF Once, Elems
<1>4. QED
  BY <1>1, <1>2, <1>3

\* q.queue = q.queue[1:] in Get: one element less.
LEMMA TailElems ==
    ASSUME NEW q \in Seq(Units), q # <<>>, Once(q)
    PROVE  /\ Tail(q) \in Seq(Units)
           /\ Head(q) \in Units
           /\ Len(Tail(q)) = Len(q) - 1
           /\ Head(q) \in Elems(q)
           /\ Elems(Tail(q)) = Elems(q) \ {Head(q)}
           /\ Once(Tail(q))
<1>1. /\ Tail(q) \in Seq(Units)
      /\ Len(q) \in Nat \ {0} /\ Len(Tail(q)) = Len(q) - 1
      /\ \A i \in 1..(Len(q) - 1) : Tail(q)[i] = q[i + 1]
      /\ Head(q) = q[1] /\ Head(q) \in Units
  OBVIOUS
<1>2. Head(q) \in Elems(q)
  BY <1>1 DEF Elems
<1>3. Elems(Tail(q)) = Elems(q) \ {Head(q)}
  <2>1. ASSUME NEW x \in Elems(Tail(q)) PROVE x \in Elems(q) \ {Head(q)}
    <3>1. PICK i \in 1..(Len(q) - 1) : x = q[i + 1]
      BY <1>1 DEF Elems
    <3>2. i + 1 \in 1..Len(q) /\ 1 \in 1..Len(q) /\ i + 1 # 1
      BY <1>1
    <3>3. q[i + 1] # q[1]
      BY <3>2 DEF Once
    <3>4. QED
      BY <1>1, <3>1, <3>2, <3>3 DEF Elems
  <2>2. ASSUME NEW x \in Elems(q), x # Head(q) PROVE x \in Elems(Tail(q))
    <3>1. PICK i \in 1..Len(q) : x = q[i]
      BY DEF Elems
    <3>2. i # 1 /\ i - 1 \in 1..(Len(q) - 1)
      BY <1>1, <2>2, <3>1
    <3>3. Tail(q)[i - 1] = q[(i - 1) + 1] /\ (i - 1) + 1 = i
      BY <1>1, <3>2
    <3>4. QED
      BY <1>1, <3>1, <3>2, <3>3 DEF Elems
  <2>3. QED
    BY <2>1, <2>2
<1>4. Once(Tail(q))
  BY <1>1 DEF Once
<1>5. QED
  BY <1>1, <1>2, <1>3, <1>4

\* cond.Signal turns one sleeper, if there is one, into a woken worker and leaves
\* the others alone.
LEMMA SignalWakes ==
    ASSUME NEW base \in [Workers -> Points], Signal(base)
    PROVE  /\ pc' \in [Workers -> Points]
           /\ \A w \in Workers : pc'[w] = base[w]
                                 \/ (base[w] = "waiting" /\ pc'[w] = "woken")
           /\ Asleep(base) # {} =>
                 Cardinality(Woken(pc')) = Cardinality(Woken(base)) + 1
<1>1. CASE Asleep(base) = {}
  BY <1>1 DEF Signal, Asleep
<1>2. CASE Asleep(base) # {}
  <2>1. PICK w \in Workers : /\ base[w] = "waiting"
                             /\ pc' = [base EXCEPT ![w] = "woken"]
    BY <1>2 DEF Signal, Asleep
  <2>2. w \notin Woken(base) /\ Woken(pc') = Woken(base) \union {w}
    BY <2>1 DEF Woken
  <2>3. IsFiniteSet(Woken(base))
    BY WorkersFinite, FS_Subset DEF Woken
  <2>4. Cardinality(Woken(pc')) = Cardinality(Woken(base)) + 1
    BY <2>2, <2>3, FS_AddElement
  <2>5. QED
    BY <2>1, <2>4 DEF Points
<1>3. QED
  BY <1>1, <1>2

-----------------------------------------------------------------------------
(***************************************************************************)
(* The inductive invariant.  Exclusive holds because what is processed is  *)
(* exactly what the workers hold, and nothing processed is queued; the     *)
(* drain because nobody leaves an open queue or a queue with a name in it. *)
(***************************************************************************)
ProcessingHeld == processing = {item[w] : w \in Holding}

ItemsAreUnits == \A w \in Workers :
    pc[w] \in {"got", "read", "ok", "err", "giveup"} => item[w] \in Units

StoppedByShutdown == At("stopped") # {} => shutdown

LeftEmpty == Workers # {} /\ At("stopped") = Workers => queue = <<>>

IInv == /\ TypeOK
        /\ QueueMatchesDirty /\ ProcessingHeld /\ Exclusive
        /\ ItemsAreUnits
        /\ NoLostUpdate
        /\ NoLostWakeup
        /\ StoppedByShutdown /\ LeftEmpty

\* A step moved no worker, other than waking sleepers.
OnlyWakes == \A w \in Workers : \/ pc'[w] = pc[w]
                                \/ pc[w] = "waiting" /\ pc'[w] = "woken"

\* Waking workers changes nothing about who holds what and who has left.
LEMMA WakingKeeps ==
    ASSUME IInv, pc' \in [Workers -> Points], OnlyWakes,
           UNCHANGED <<item, processing>>
    PROVE  /\ Holding' = Holding
           /\ At("got")' = At("got") /\ At("stopped")' = At("stopped")
           /\ At("waiting")' \subseteq At("waiting")
           /\ ProcessingHeld' /\ Exclusive' /\ ItemsAreUnits'
<1>1. pc \in [Workers -> Points]
  BY DEF IInv, TypeOK
<1>2. /\ Holding' = Holding
      /\ At("got")' = At("got") /\ At("stopped")' = At("stopped")
      /\ At("waiting")' \subseteq At("waiting")
  BY <1>1 DEF OnlyWakes, Holding, At
<1>3. ProcessingHeld' /\ Exclusive'
  BY <1>2 DEF IInv, ProcessingHeld, Exclusive
<1>4. ItemsAreUnits'
  BY DEF IInv, ItemsAreUnits, OnlyWakes
<1>5. QED
  BY <1>2, <1>3, <1>4

\* The critical section of Add (unitworkqueue.go:53-66), whoever calls it.
LEMMA EnqueueKeeps ==
    ASSUME IInv, NEW u \in Units, Enqueue(u),
           UNCHANGED <<processing, shutdown, item>>
    PROVE  /\ queue' \in Seq(Units) /\ dirty' \in SUBSET Units
           /\ pc' \in [Workers -> Points] /\ OnlyWakes
           /\ dirty' = IF shutdown THEN dirty ELSE dirty \union {u}
           /\ QueueMatchesDirty' /\ ProcessingHeld' /\ Exclusive' /\ ItemsAreUnits'
           /\ NoLostWakeup'
           /\ StoppedByShutdown' /\ LeftEmpty'
<1>1. /\ queue \in Seq(Units) /\ dirty \in SUBSET Units /\ processing \in SUBSET Units
      /\ pc \in [Workers -> Points]
      /\ Once(queue) /\ Elems(queue) = dirty \ processing
  BY DEF IInv, TypeOK, QueueMatchesDirty, Once, Elems
<1>2. CASE UNCHANGED <<queue, pc>> /\ (dirty' = dirty \/ u \in processing)
  <2>1. /\ dirty' = IF shutdown THEN dirty ELSE dirty \union {u}
        /\ dirty' \ processing = dirty \ processing
    BY <1>2 DEF Enqueue
  <2>2. QueueMatchesDirty'
    BY <1>2, <2>1 DEF IInv, QueueMatchesDirty
  <2>3. OnlyWakes /\ At("stopped")' = At("stopped") /\ NoLostWakeup'
    BY <1>2 DEF OnlyWakes, IInv, NoLostWakeup, At
  <2>4. StoppedByShutdown' /\ LeftEmpty'
    BY <1>2, <2>3 DEF IInv, StoppedByShutdown, LeftEmpty
  <2>5. QED
    BY <1>1, <1>2, <2>1, <2>2, <2>3, <2>4, WakingKeeps
<1>3. CASE /\ ~shutdown /\ u \notin dirty /\ u \notin processing
           /\ dirty' = dirty \union {u}
           /\ queue' = Append(queue, u)
           /\ Signal(pc)
  <2>1. /\ queue' \in Seq(Units)
        /\ Len(queue') = Len(queue) + 1
        /\ Once(queue') /\ Elems(queue') = Elems(queue) \union {u}
    BY <1>1, <1>3, AppendElems
  <2>2. QueueMatchesDirty'
    BY <1>1, <1>3, <2>1 DEF QueueMatchesDirty, Once, Elems
  <2>3. /\ pc' \in [Workers -> Points] /\ OnlyWakes
        /\ Asleep(pc) # {} => Cardinality(Woken(pc')) = Cardinality(Woken(pc)) + 1
    BY <1>1, <1>3, SignalWakes DEF OnlyWakes
  <2>4. At("waiting")' \subseteq At("waiting") /\ At("stopped")' = At("stopped")
    BY <1>1, <2>3, WakingKeeps
  <2>5. /\ At("waiting") = Asleep(pc) /\ At("woken") = Woken(pc)
        /\ At("woken")' = Woken(pc')
    BY DEF At, Asleep, Woken
  <2>6. Len(queue) \in Nat /\ Cardinality(Woken(pc)) \in Nat
    BY <1>1, WorkersFinite, FS_Subset, FS_CardinalityType DEF Woken
  <2>7. NoLostWakeup'
    BY <1>3, <2>1, <2>3, <2>4, <2>5, <2>6 DEF IInv, NoLostWakeup
  <2>8. StoppedByShutdown' /\ LeftEmpty'
    BY <1>3, <2>4 DEF IInv, StoppedByShutdown, LeftEmpty
  <2>9. QED
    BY <1>1, <1>3, <2>1, <2>2, <2>3, <2>7, <2>8, WakingKeeps
<1>4. QED
  BY <1>2, <1>3 DEF Enqueue

-----------------------------------------------------------------------------
\* Get returns a name (unitworkqueue.go:128-136).
LEMMA GetItemKeeps ==
    ASSUME IInv, NEW w \in Workers, GetItem(w)
    PROVE  IInv'
<1> DEFINE u == Head(queue)
<1>1. /\ TypeOK /\ pc \in [Workers -> Points] /\ queue \in Seq(Units)
      /\ item \in [Workers -> Units \union {NoUnit}]
      /\ Once(queue) /\ Elems(queue) = dirty \ processing
      /\ pc[w] \in {"idle", "woken"} /\ queue # <<>>
  BY DEF IInv, TypeOK, QueueMatchesDirty, Once, Elems, GetItem
<1>2. /\ Tail(queue) \in Seq(Units) /\ u \in Units
      /\ Len(Tail(queue)) = Len(queue) - 1
      /\ u \in dirty \ processing
      /\ Elems(Tail(queue)) = (dirty \ processing) \ {u}
      /\ Once(Tail(queue))
  BY <1>1, TailElems
<1>3. /\ queue' = Tail(queue) /\ dirty' = dirty \ {u}
      /\ processing' = processing \union {u}
      /\ pc' = [pc EXCEPT ![w] = "got"] /\ item' = [item EXCEPT ![w] = u]
      /\ UNCHANGED <<failures, shutdown, timers, unseen, added>>
  BY DEF GetItem
<1> HIDE DEF u
<1>4. TypeOK'
  BY <1>1, <1>2, <1>3 DEF TypeOK, Points
<1>5. QueueMatchesDirty'
  <2>1. (dirty \ processing) \ {u} = dirty' \ processing'
    BY <1>3
  <2>2. Once(queue') /\ Elems(queue') = dirty' \ processing'
    BY <1>2, <1>3, <2>1
  <2>3. QED
    BY <2>2 DEF QueueMatchesDirty, Once, Elems
<1>6. /\ w \notin Holding /\ Holding' = Holding \union {w}
      /\ \A v \in Holding : item'[v] = item[v]
      /\ item'[w] = u
  BY <1>1, <1>3 DEF Holding, At
<1>7. ProcessingHeld'
  BY <1>3, <1>6 DEF IInv, ProcessingHeld
<1>8. Exclusive'
  BY <1>2, <1>6 DEF IInv, ProcessingHeld, Exclusive
<1>9. ItemsAreUnits'
  BY <1>1, <1>2, <1>3 DEF IInv, ItemsAreUnits
<1>10. NoLostUpdate'
  <2>1. At("got")' = At("got") \union {w} /\ w \notin At("got")
    BY <1>1, <1>3 DEF At
  <2>2. \A v \in At("got") : item'[v] = item[v]
    BY <1>1, <1>3, <2>1 DEF At
  <2>3. QED
    BY <1>3, <1>6, <2>1, <2>2 DEF IInv, NoLostUpdate
<1>11. NoLostWakeup'
  <2>1. At("waiting")' = At("waiting") /\ At("woken")' = At("woken") \ {w}
    BY <1>1, <1>3 DEF At
  <2>2. IsFiniteSet(At("woken")) /\ Cardinality(At("woken")) \in Nat
    BY WorkersFinite, FS_Subset, FS_CardinalityType DEF At
  <2>3. Cardinality(At("woken")') >= Cardinality(At("woken")) - 1
    BY <2>1, <2>2, FS_RemoveElement
  <2>4. Cardinality(At("woken")') \in Nat
    BY <2>1, <2>2, FS_RemoveElement, FS_CardinalityType
  <2>5. Len(queue) \in Nat
    BY <1>1
  <2>6. QED
    BY <1>2, <1>3, <2>1, <2>2, <2>3, <2>4, <2>5 DEF IInv, NoLostWakeup
<1>12. StoppedByShutdown' /\ LeftEmpty'
  <2>1. At("stopped")' = At("stopped") /\ w \notin At("stopped")
    BY <1>1, <1>3 DEF At
  <2>2. QED
    BY <1>3, <2>1 DEF IInv, StoppedByShutdown, LeftEmpty
<1>13. QED
  BY <1>4, <1>5, <1>7, <1>8, <1>9, <1>10, <1>11, <1>12 DEF IInv

\* Done (unitworkqueue.go:141-150): the unit is queued again if it became dirty
\* while it was processed.
LEMMA DoneKeeps ==
    ASSUME IInv, NEW w \in Workers, NEW res \in {"ok", "err"}, Done(w, res)
    PROVE  IInv'
<1> DEFINE u == item[w]
           next == [pc EXCEPT ![w] = res]
<1>1. /\ TypeOK /\ pc \in [Workers -> Points] /\ queue \in Seq(Units)
      /\ Once(queue) /\ Elems(queue) = dirty \ processing
      /\ pc[w] = "read" /\ w \in Holding /\ u \in Units /\ u \in processing
  BY DEF IInv, TypeOK, QueueMatchesDirty, Once, Elems, Done, ItemsAreUnits,
     ProcessingHeld, Holding, At
<1>2. next \in [Workers -> Points]
  BY <1>1 DEF Points
<1>3. /\ processing' = processing \ {u}
      /\ UNCHANGED <<dirty, failures, shutdown, timers, item, unseen, added>>
      /\ \/ u \in dirty /\ queue' = Append(queue, u) /\ Signal(next)
         \/ u \notin dirty /\ pc' = next /\ UNCHANGED queue
  BY DEF Done
<1>4. /\ pc' \in [Workers -> Points]
      /\ \A v \in Workers : pc'[v] = next[v]
                            \/ (next[v] = "waiting" /\ pc'[v] = "woken")
  BY <1>2, <1>3, SignalWakes
<1>5. /\ Holding' = Holding \ {w} /\ At("got")' = At("got")
      /\ At("waiting")' \subseteq At("waiting")
      /\ At("stopped")' = At("stopped") /\ w \notin At("stopped")
  BY <1>1, <1>4 DEF Holding, At
<1>6. Asleep(next) = At("waiting") /\ Woken(next) = At("woken")
  BY <1>1 DEF Asleep, Woken, At
<1> HIDE DEF next
<1>7. TypeOK'
  BY <1>1, <1>3, <1>4, AppendElems DEF TypeOK
<1>8. QueueMatchesDirty'
  <2>1. CASE u \in dirty /\ queue' = Append(queue, u)
    <3>1. (dirty \ processing) \union {u} = dirty \ processing'
      BY <1>1, <1>3, <2>1
    <3>2. Once(queue') /\ Elems(queue') = dirty \ processing'
      BY <1>1, <2>1, <3>1, AppendElems
    <3>3. QED
      BY <1>3, <3>2 DEF QueueMatchesDirty, Once, Elems
  <2>2. CASE u \notin dirty /\ UNCHANGED queue
    BY <1>1, <1>3, <2>2 DEF IInv, QueueMatchesDirty
  <2>3. QED
    BY <1>3, <2>1, <2>2
<1>9. ProcessingHeld' /\ Exclusive'
  BY <1>1, <1>3, <1>5 DEF IInv, ProcessingHeld, Exclusive
<1>10. ItemsAreUnits'
  BY <1>1, <1>3, <1>4 DEF IInv, ItemsAreUnits, next
<1>11. NoLostUpdate'
  BY <1>3, <1>5 DEF IInv, NoLostUpdate
<1>12. NoLostWakeup'
  <2>1. CASE u \in dirty /\ queue' = Append(queue, u) /\ Signal(next)
    <3>1. Len(queue') = Len(queue) + 1 /\ Len(queue) \in Nat
      BY <1>1, <2>1, AppendElems
    <3>2. Asleep(next) # {} =>
             Cardinality(Woken(pc')) = Cardinality(Woken(next)) + 1
      BY <1>2, <2>1, SignalWakes
    <3>3. Cardinality(Woken(next)) \in Nat
      BY WorkersFinite, FS_Subset, FS_CardinalityType DEF Woken
    <3>4. At("woken")' = Woken(pc')
      BY DEF At, Woken
    <3>5. QED
      BY <1>3, <1>5, <1>6, <3>1, <3>2, <3>3, <3>4 DEF IInv, NoLostWakeup
  <2>2. CASE pc' = next /\ UNCHANGED queue
    <3>1. At("waiting")' = At("waiting") /\ At("woken")' = At("woken")
      BY <1>6, <2>2 DEF At, Asleep, Woken
    <3>2. QED
      BY <1>3, <2>2, <3>1 DEF IInv, NoLostWakeup
  <2>3. QED
    BY <1>3, <2>1, <2>2
<1>13. StoppedByShutdown' /\ LeftEmpty'
  BY <1>3, <1>5 DEF IInv, StoppedByShutdown, LeftEmpty
<1>14. QED
  BY <1>7, <1>8, <1>9, <1>10, <1>11, <1>12, <1>13 DEF IInv

-----------------------------------------------------------------------------
LEMMA InitInv == Init => IInv
<1> SUFFICES ASSUME Init PROVE IInv
  OBVIOUS
<1>1. \A w \in Workers : pc[w] = "idle"
  BY DEF Init
<1>2. Holding = {} /\ At("waiting") = {} /\ At("stopped") = {}
  BY <1>1 DEF Holding, At
<1>3. queue = <<>> /\ dirty = {} /\ processing = {} /\ unseen = {} /\ ~shutdown
  BY DEF Init
<1>4. TypeOK
  <2>1. 0 \in 0..MaxRetries /\ 0 \in 0..MaxAdds /\ "idle" \in Points
    BY MaxRetriesNat, MaxAddsNat DEF Points
  <2>2. queue \in Seq(Units)
    BY <1>3
  <2>3. failures \in [Units -> 0..MaxRetries] /\ timers \in [Units -> Nat]
    BY <2>1 DEF Init
  <2>4. pc \in [Workers -> Points] /\ item \in [Workers -> Units \union {NoUnit}]
    BY <2>1 DEF Init
  <2>5. added \in 0..MaxAdds /\ shutdown \in BOOLEAN
    BY <2>1 DEF Init
  <2>6. QED
    BY <1>3, <2>2, <2>3, <2>4, <2>5 DEF TypeOK
<1>5. QueueMatchesDirty
  BY <1>3 DEF QueueMatchesDirty
<1>6. ProcessingHeld /\ Exclusive /\ ItemsAreUnits
  BY <1>1, <1>2, <1>3 DEF ProcessingHeld, Exclusive, ItemsAreUnits
<1>7. NoLostUpdate /\ NoLostWakeup /\ StoppedByShutdown /\ LeftEmpty
  BY <1>2, <1>3 DEF NoLostUpdate, NoLostWakeup, StoppedByShutdown, LeftEmpty
<1>8. QED
  BY <1>4, <1>5, <1>6, <1>7 DEF IInv

\* A step that only moves worker w, and neither into nor out of Holding, sleep or
\* the woken, and not to the end.
LEMMA MoveKeeps ==
    ASSUME IInv, NEW w \in Workers, NEW next \in Points,
           pc[w] \in {"ok", "err", "giveup"}, next \in {"idle", "giveup"},
           pc' = [pc EXCEPT ![w] = next],
           UNCHANGED <<queue, dirty, processing, shutdown, unseen>>,
           item' = item \/ (next = "idle" /\ item' = [item EXCEPT ![w] = NoUnit])
    PROVE  /\ QueueMatchesDirty' /\ ProcessingHeld' /\ Exclusive' /\ ItemsAreUnits'
           /\ NoLostUpdate' /\ NoLostWakeup' /\ StoppedByShutdown' /\ LeftEmpty'
<1>1. pc \in [Workers -> Points] /\ item \in [Workers -> Units \union {NoUnit}]
  BY DEF IInv, TypeOK
<1>2. /\ Holding' = Holding /\ At("got")' = At("got")
      /\ At("waiting")' = At("waiting") /\ At("woken")' = At("woken")
      /\ At("stopped")' = At("stopped") /\ w \notin Holding \union At("got")
  BY <1>1 DEF Holding, At
<1>3. \A v \in Workers : v # w => item'[v] = item[v]
  BY <1>1
<1>4. QueueMatchesDirty'
  BY DEF IInv, QueueMatchesDirty
<1>5. \A v \in Holding \union At("got") : item'[v] = item[v]
  BY <1>2, <1>3 DEF Holding, At
<1>6. ProcessingHeld' /\ Exclusive'
  BY <1>2, <1>5 DEF IInv, ProcessingHeld, Exclusive
<1>7. ItemsAreUnits'
  BY <1>1, <1>3 DEF IInv, ItemsAreUnits
<1>8. NoLostUpdate'
  BY <1>2, <1>5 DEF IInv, NoLostUpdate
<1>9. NoLostWakeup' /\ StoppedByShutdown' /\ LeftEmpty'
  BY <1>2 DEF IInv, NoLostWakeup, StoppedByShutdown, LeftEmpty
<1>10. QED
  BY <1>4, <1>6, <1>7, <1>8, <1>9

\* Every operation of the queue and every step of a worker keeps the invariant.
LEMMA StepInv == IInv /\ [Next]_vars => IInv'
<1> SUFFICES ASSUME IInv, [Next]_vars PROVE IInv'
  OBVIOUS
<1>1. /\ TypeOK
      /\ pc \in [Workers -> Points] /\ item \in [Workers -> Units \union {NoUnit}]
  BY DEF IInv, TypeOK
<1>2. ASSUME NEW u \in Units, Add(u) PROVE IInv'
  <2>1. /\ Enqueue(u) /\ added < MaxAdds /\ added' = added + 1
        /\ unseen' = IF shutdown THEN unseen ELSE unseen \union {u}
        /\ UNCHANGED <<processing, failures, shutdown, timers, item>>
    BY <1>2 DEF Add
  <2>2. /\ queue' \in Seq(Units) /\ dirty' \in SUBSET Units
        /\ pc' \in [Workers -> Points] /\ OnlyWakes
        /\ dirty' = IF shutdown THEN dirty ELSE dirty \union {u}
        /\ QueueMatchesDirty' /\ ProcessingHeld' /\ Exclusive' /\ ItemsAreUnits'
        /\ NoLostWakeup' /\ StoppedByShutdown' /\ LeftEmpty'
    BY <2>1, EnqueueKeeps
  <2>3. TypeOK'
    BY <1>1, <2>1, <2>2, MaxAddsNat DEF TypeOK
  <2>4. At("got")' = At("got")
    BY <2>1, <2>2, WakingKeeps
  <2>5. NoLostUpdate'
    BY <2>1, <2>2, <2>4 DEF IInv, NoLostUpdate
  <2>6. QED
    BY <2>2, <2>3, <2>5 DEF IInv
<1>3. ASSUME NEW u \in Units, TimerFires(u) PROVE IInv'
  <2>1. /\ Enqueue(u)
        /\ timers[u] > 0 /\ timers' = [timers EXCEPT ![u] = @ - 1]
        /\ UNCHANGED <<processing, failures, shutdown, item, unseen, added>>
    BY <1>3 DEF TimerFires
  <2>2. /\ queue' \in Seq(Units) /\ dirty' \in SUBSET Units
        /\ pc' \in [Workers -> Points] /\ OnlyWakes
        /\ dirty' = IF shutdown THEN dirty ELSE dirty \union {u}
        /\ QueueMatchesDirty' /\ ProcessingHeld' /\ Exclusive' /\ ItemsAreUnits'
        /\ NoLostWakeup' /\ StoppedByShutdown' /\ LeftEmpty'
    BY <2>1, EnqueueKeeps
  <2>3. TypeOK'
    BY <1>1, <2>1, <2>2 DEF TypeOK
  <2>4. At("got")' = At("got")
    BY <2>1, <2>2, WakingKeeps
  <2>5. NoLostUpdate'
    BY <2>1, <2>2, <2>4 DEF IInv, NoLostUpdate
  <2>6. QED
    BY <2>2, <2>3, <2>5 DEF IInv
<1>4. ASSUME NEW u \in Units, TimerAbandoned(u) PROVE IInv'
  <2>1. TypeOK'
    BY <1>1, <1>4 DEF TypeOK, TimerAbandoned, qvars
  <2>2. QED
    BY <1>4, <2>1 DEF IInv, TimerAbandoned, qvars, QueueMatchesDirty,
       ProcessingHeld, Exclusive, ItemsAreUnits, NoLostUpdate, NoLostWakeup,
       StoppedByShutdown, LeftEmpty, Holding, At
<1>5. ASSUME NEW w \in Workers, GetWaits(w) PROVE IInv'
  <2>1. /\ pc[w] \in {"idle", "woken"} /\ queue = <<>> /\ ~shutdown
        /\ pc' = [pc EXCEPT ![w] = "waiting"]
        /\ UNCHANGED <<queue, dirty, processing, failures, shutdown, timers, item,
                       unseen, added>>
    BY <1>5 DEF GetWaits, qvars
  <2>2. /\ Holding' = Holding /\ At("got")' = At("got")
        /\ At("stopped")' = At("stopped")
    BY <1>1, <2>1 DEF Holding, At
  <2>3. TypeOK' /\ ItemsAreUnits'
    BY <1>1, <2>1 DEF IInv, TypeOK, Points, ItemsAreUnits
  <2>4. Len(queue) = 0
    BY <2>1
  <2>5. Cardinality(At("woken")') \in Nat
    BY WorkersFinite, FS_Subset, FS_CardinalityType DEF At
  <2>6. NoLostWakeup'
    BY <2>1, <2>4, <2>5 DEF NoLostWakeup
  <2>7. QueueMatchesDirty' /\ ProcessingHeld' /\ Exclusive' /\ NoLostUpdate'
        /\ StoppedByShutdown' /\ LeftEmpty'
    BY <2>1, <2>2 DEF IInv, QueueMatchesDirty, ProcessingHeld, Exclusive,
       NoLostUpdate, StoppedByShutdown, LeftEmpty
  <2>8. QED
    BY <2>3, <2>6, <2>7 DEF IInv
<1>6. ASSUME NEW w \in Workers, GetShutdown(w) PROVE IInv'
  <2>1. /\ pc[w] \in {"idle", "woken"} /\ queue = <<>> /\ shutdown
        /\ pc' = [pc EXCEPT ![w] = "stopped"]
        /\ UNCHANGED <<queue, dirty, processing, failures, shutdown, timers, item,
                       unseen, added>>
    BY <1>6 DEF GetShutdown, qvars
  <2>2. /\ Holding' = Holding /\ At("got")' = At("got")
        /\ At("waiting")' = At("waiting")
    BY <1>1, <2>1 DEF Holding, At
  <2>3. TypeOK' /\ ItemsAreUnits'
    BY <1>1, <2>1 DEF IInv, TypeOK, Points, ItemsAreUnits
  <2>4. NoLostWakeup'
    BY <2>1, <2>2 DEF IInv, NoLostWakeup
  <2>5. QueueMatchesDirty' /\ ProcessingHeld' /\ Exclusive' /\ NoLostUpdate'
        /\ StoppedByShutdown' /\ LeftEmpty'
    BY <2>1, <2>2 DEF IInv, QueueMatchesDirty, ProcessingHeld, Exclusive,
       NoLostUpdate, StoppedByShutdown, LeftEmpty
  <2>6. QED
    BY <2>3, <2>4, <2>5 DEF IInv
<1>7. ASSUME NEW w \in Workers, Read(w) PROVE IInv'
  <2>1. /\ pc[w] = "got" /\ unseen' = unseen \ {item[w]}
        /\ pc' = [pc EXCEPT ![w] = "read"]
        /\ UNCHANGED <<queue, dirty, processing, failures, shutdown, timers, item,
                       added>>
    BY <1>7 DEF Read, qvars
  <2>2. /\ Holding' = Holding /\ At("got")' = At("got") \ {w}
        /\ At("waiting")' = At("waiting") /\ At("woken")' = At("woken")
        /\ At("stopped")' = At("stopped")
    BY <1>1, <2>1 DEF Holding, At
  <2>3. TypeOK' /\ ItemsAreUnits'
    BY <1>1, <2>1 DEF IInv, TypeOK, Points, ItemsAreUnits
  <2>4. NoLostUpdate'
    BY <2>1, <2>2 DEF IInv, NoLostUpdate
  <2>5. QueueMatchesDirty' /\ ProcessingHeld' /\ Exclusive' /\ NoLostWakeup'
        /\ StoppedByShutdown' /\ LeftEmpty'
    BY <2>1, <2>2 DEF IInv, QueueMatchesDirty, ProcessingHeld, Exclusive,
       NoLostWakeup, StoppedByShutdown, LeftEmpty
  <2>6. QED
    BY <2>3, <2>4, <2>5 DEF IInv
<1>8. ASSUME NEW w \in Workers, Forget(w) PROVE IInv'
  <2>1. "idle" \in Points /\ 0 \in 0..MaxRetries
    BY MaxRetriesNat DEF Points
  <2>2. failures' \in [Units -> 0..MaxRetries]
    BY <1>1, <1>8, <2>1 DEF TypeOK, Forget
  <2>3. pc' \in [Workers -> Points] /\ item' \in [Workers -> Units \union {NoUnit}]
    BY <1>1, <1>8, <2>1 DEF Forget
  <2>4. TypeOK'
    BY <1>1, <1>8, <2>2, <2>3 DEF TypeOK, Forget
  <2>5. QED
    BY <1>8, <2>1, <2>4, MoveKeeps DEF IInv, Forget
<1>9. ASSUME NEW w \in Workers, RetryScheduled(w) PROVE IInv'
  <2>1. item[w] \in Units
    BY <1>9 DEF IInv, ItemsAreUnits, RetryScheduled
  <2>2. TypeOK'
    BY <1>1, <1>9, <2>1, MaxRetriesNat DEF TypeOK, RetryScheduled, Points
  <2>3. "idle" \in Points
    BY DEF Points
  <2>4. QED
    BY <1>9, <2>2, <2>3, MoveKeeps DEF IInv, RetryScheduled
<1>10. ASSUME NEW w \in Workers, RetryRefused(w) PROVE IInv'
  <2>1. TypeOK'
    BY <1>1, <1>10 DEF TypeOK, RetryRefused, qvars, Points
  <2>2. "giveup" \in Points
    BY DEF Points
  <2>3. QED
    BY <1>10, <2>1, <2>2, MoveKeeps DEF IInv, RetryRefused, qvars
<1>11. CASE ShutDown
  <2>1. /\ shutdown' = TRUE
        /\ pc' = [w \in Workers |-> IF pc[w] = "waiting" THEN "woken" ELSE pc[w]]
        /\ UNCHANGED <<queue, dirty, processing, failures, timers, item, unseen, added>>
    BY <1>11 DEF ShutDown
  <2>2. pc' \in [Workers -> Points] /\ OnlyWakes /\ At("waiting")' = {}
    BY <1>1, <2>1 DEF Points, OnlyWakes, At
  <2>3. TypeOK'
    BY <1>1, <2>1, <2>2 DEF TypeOK
  <2>4. /\ At("got")' = At("got") /\ At("stopped")' = At("stopped")
        /\ ProcessingHeld' /\ Exclusive' /\ ItemsAreUnits'
    BY <2>1, <2>2, WakingKeeps
  <2>5. QueueMatchesDirty' /\ NoLostUpdate' /\ NoLostWakeup' /\ StoppedByShutdown'
        /\ LeftEmpty'
    BY <2>1, <2>2, <2>4 DEF IInv, QueueMatchesDirty, NoLostUpdate, NoLostWakeup,
       StoppedByShutdown, LeftEmpty
  <2>6. QED
    BY <2>3, <2>4, <2>5 DEF IInv
<1>12. CASE Stopped \/ UNCHANGED vars
  <2>1. UNCHANGED <<queue, dirty, processing, failures, shutdown, timers, pc, item,
                    unseen, added>>
    BY <1>12 DEF Stopped, vars, qvars
  <2>2. TypeOK'
    BY <1>1, <2>1 DEF TypeOK
  <2>3. /\ Holding' = Holding /\ At("got")' = At("got")
        /\ At("waiting")' = At("waiting") /\ At("woken")' = At("woken")
        /\ At("stopped")' = At("stopped")
    BY <2>1 DEF Holding, At
  <2>4. QueueMatchesDirty' /\ ProcessingHeld' /\ Exclusive' /\ ItemsAreUnits'
    BY <2>1, <2>3 DEF IInv, QueueMatchesDirty, ProcessingHeld, Exclusive,
       ItemsAreUnits
  <2>5. NoLostUpdate' /\ NoLostWakeup' /\ StoppedByShutdown' /\ LeftEmpty'
    BY <2>1, <2>3 DEF IInv, NoLostUpdate, NoLostWakeup, StoppedByShutdown, LeftEmpty
  <2>6. QED
    BY <2>2, <2>4, <2>5 DEF IInv
<1>13. QED
  BY <1>2, <1>3, <1>4, <1>5, <1>6, <1>7, <1>8, <1>9, <1>10, <1>11, <1>12,
     GetItemKeeps, DoneKeeps DEF Next, Timer, Worker

-----------------------------------------------------------------------------
\* The fields of unitWorkQueue keep their types and failures its bound.
THEOREM TypeCorrect == Safe => []TypeOK
BY InitInv, StepInv, PTL DEF Safe, IInv

\* Exclusivity (unitworkqueue.go:14): however many workers there are, no two of them
\* reconcile the same unit.
THEOREM ExclusiveAlways == Safe => []Exclusive
BY InitInv, StepInv, PTL DEF Safe, IInv

\* No lost updates (unitworkqueue.go:16): an accepted event is dirty or about to be
\* read, through coalescing, retries and shutdown.
THEOREM NothingLost == Safe => []NoLostUpdate
BY InitInv, StepInv, PTL DEF Safe, IInv

\* What is dirty is in the queue exactly once or will be put there by Done.
THEOREM QueueAgrees == Safe => []QueueMatchesDirty
BY InitInv, StepInv, PTL DEF Safe, IInv

\* One Signal per appended name is enough (unitworkqueue.go:65 and 148): no worker
\* sleeps while a name is queued that nobody was woken for.
THEOREM WakeupsSuffice == Safe => []NoLostWakeup
BY InitInv, StepInv, PTL DEF Safe, IInv

\* After a shutdown the workers leave nothing unread behind (unitworkqueue.go:153).
THEOREM Drains == Safe => []DrainedWhenStopped
<1>1. IInv => DrainedWhenStopped
  <2> SUFFICES ASSUME IInv, Workers # {}, At("stopped") = Workers
               PROVE  dirty = {} /\ unseen = {}
    BY DEF DrainedWhenStopped
  <2>1. Holding = {} /\ At("got") = {}
    BY DEF Holding, At
  <2>2. processing = {} /\ queue = <<>>
    BY <2>1 DEF IInv, ProcessingHeld, LeftEmpty
  <2>3. {queue[i] : i \in 1..Len(queue)} = {}
    BY <2>2
  <2>4. dirty = {}
    BY <2>2, <2>3 DEF IInv, QueueMatchesDirty
  <2>5. QED
    BY <2>1, <2>4 DEF IInv, NoLostUpdate
<1>2. QED
  BY <1>1, InitInv, StepInv, PTL DEF Safe

-----------------------------------------------------------------------------
(***************************************************************************)
(* The refinement.  Under Abstract a unit is pending when it is dirty, a   *)
(* worker is active from Get to Done, and every other step is a stutter.   *)
(***************************************************************************)
active == [w \in Workers |-> IF w \in Holding THEN item[w] ELSE NoUnit]

\* Busy units are the ones in processing.
LEMMA BusyIsProcessing == IInv => Abstract!Busy = processing
<1> SUFFICES ASSUME IInv PROVE Abstract!Busy = processing
  OBVIOUS
<1>1. Abstract!Busy = {active[w] : w \in Workers} \ {NoUnit}
  BY DEF Abstract!Busy, active
<1>2. Holding \subseteq Workers /\ \A w \in Holding : item[w] \in Units
  BY DEF IInv, ItemsAreUnits, Holding, At
<1>3. QED
  BY <1>1, <1>2, NoUnitFresh DEF IInv, ProcessingHeld, active

\* A new queue is a new abstract queue.
LEMMA InitRefines == Init => Abstract!Init
<1> SUFFICES ASSUME Init PROVE Abstract!Init
  OBVIOUS
<1>1. Holding = {}
  BY DEF Init, Holding, At
<1>2. QED
  BY <1>1 DEF Init, Abstract!Init

\* Each step of the queue is a step of the abstract one or leaves it as it is.
LEMMA StepRefines == IInv /\ [Next]_vars => [Abstract!Next]_(Abstract!vars)
<1> SUFFICES ASSUME IInv, [Next]_vars
             PROVE  Abstract!Next \/ UNCHANGED <<dirty, active, shutdown>>
  BY DEF Abstract!vars, active
<1>1. /\ pc \in [Workers -> Points] /\ item \in [Workers -> Units \union {NoUnit}]
  BY DEF IInv, TypeOK
<1>2. ASSUME NEW u \in Units, Enqueue(u), UNCHANGED <<processing, shutdown, item>>
      PROVE  Abstract!Next \/ UNCHANGED <<dirty, active, shutdown>>
  <2>1. /\ dirty' = IF shutdown THEN dirty ELSE dirty \union {u}
        /\ pc' \in [Workers -> Points] /\ OnlyWakes
    BY <1>2, EnqueueKeeps
  <2>2. Holding' = Holding
    BY <1>2, <2>1, WakingKeeps
  <2>3. active' = active
    BY <1>2, <2>2 DEF active
  <2>4. CASE shutdown
    BY <1>2, <2>1, <2>3, <2>4
  <2>5. CASE ~shutdown
    <3>1. Abstract!Request(u)
      BY <1>2, <2>1, <2>3, <2>5 DEF Abstract!Request, active
    <3>2. QED
      BY <3>1 DEF Abstract!Next
  <2>6. QED
    BY <2>4, <2>5
<1>3. ASSUME NEW w \in Workers, GetItem(w) PROVE Abstract!Next
  <2>1. /\ queue \in Seq(Units) /\ queue # <<>>
        /\ Once(queue) /\ Elems(queue) = dirty \ processing
        /\ pc[w] \in {"idle", "woken"}
    BY <1>3 DEF IInv, TypeOK, QueueMatchesDirty, Once, Elems, GetItem
  <2>2. PICK u \in Units : u = Head(queue) /\ u \in dirty \ processing
    BY <2>1, TailElems
  <2>3. /\ dirty' = dirty \ {u} /\ shutdown' = shutdown
        /\ pc' = [pc EXCEPT ![w] = "got"] /\ item' = [item EXCEPT ![w] = u]
    BY <1>3, <2>2 DEF GetItem
  <2>4. w \notin Holding /\ Holding' = Holding \union {w}
    BY <1>1, <2>1, <2>3 DEF Holding, At
  <2>5. active' = [active EXCEPT ![w] = u] /\ active[w] = NoUnit
    BY <1>1, <2>3, <2>4 DEF active
  <2>6. Abstract!Begin(w, u)
    BY <2>2, <2>3, <2>5, BusyIsProcessing DEF Abstract!Begin, active
  <2>7. QED
    BY <2>6 DEF Abstract!Next
<1>4. ASSUME NEW w \in Workers, NEW res \in {"ok", "err"}, Done(w, res)
      PROVE  Abstract!Next
  <2>1. /\ pc[w] = "read" /\ w \in Holding /\ item[w] \in Units
        /\ UNCHANGED <<dirty, shutdown, item>>
    BY <1>4 DEF Done, Holding, At, IInv, ItemsAreUnits
  <2>2. [pc EXCEPT ![w] = res] \in [Workers -> Points]
    BY <1>1 DEF Points
  <2>3. \A v \in Workers :
           \/ pc'[v] = [pc EXCEPT ![w] = res][v]
           \/ [pc EXCEPT ![w] = res][v] = "waiting" /\ pc'[v] = "woken"
    BY <1>4, <2>2, SignalWakes DEF Done
  <2>4. Holding' = Holding \ {w}
    BY <1>1, <2>1, <2>3 DEF Holding, At
  <2>5. active' = [active EXCEPT ![w] = NoUnit] /\ active[w] # NoUnit
    BY <2>1, <2>4, NoUnitFresh DEF active
  <2>6. Abstract!Finish(w)
    BY <2>1, <2>5 DEF Abstract!Finish, active
  <2>7. QED
    BY <2>6 DEF Abstract!Next
<1>5. CASE ShutDown
  <2>1. /\ ~shutdown /\ shutdown' = TRUE /\ UNCHANGED <<dirty, item>>
        /\ Holding' = Holding
    BY <1>1, <1>5 DEF ShutDown, Holding, At
  <2>2. Abstract!Close
    BY <2>1 DEF Abstract!Close
  <2>3. QED
    BY <2>2 DEF Abstract!Next
<1>6. ASSUME NEW w \in Workers,
             \/ GetWaits(w) \/ GetShutdown(w) \/ Read(w)
             \/ Forget(w) \/ RetryScheduled(w) \/ RetryRefused(w)
      PROVE  UNCHANGED <<dirty, active, shutdown>>
  <2>1. UNCHANGED <<dirty, shutdown>> /\ Holding' = Holding
    BY <1>1, <1>6 DEF GetWaits, GetShutdown, Read, Forget, RetryScheduled,
       RetryRefused, qvars, Holding, At
  <2>2. \A v \in Holding : item'[v] = item[v]
    BY <1>1, <1>6 DEF GetWaits, GetShutdown, Read, Forget, RetryScheduled,
       RetryRefused, Holding, At
  <2>3. QED
    BY <2>1, <2>2 DEF active
<1>7. ASSUME \/ \E u \in Units : TimerAbandoned(u)
             \/ Stopped
             \/ UNCHANGED vars
      PROVE  UNCHANGED <<dirty, active, shutdown>>
  BY <1>7 DEF TimerAbandoned, Stopped, vars, qvars, active, Holding, At
<1>8. QED
  BY <1>2, <1>3, <1>4, <1>5, <1>6, <1>7 DEF Next, Add, Timer, TimerFires, Worker

\* The queue with its condition variable, coalescing and retries implements the
\* abstract set of units of UnitWork (all but fairness).
THEOREM QueueImplementsUnitWork == Safe => Abstract!Safe
BY InitInv, StepInv, InitRefines, StepRefines, PTL DEF Safe, Abstract!Safe
=============================================================================
