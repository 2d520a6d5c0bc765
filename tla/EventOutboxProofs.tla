-------------------------- MODULE EventOutboxProofs --------------------------
(***************************************************************************)
(* Proofs about EventOutbox, for any events, any queue capacity and any    *)
(* pattern of stalls: the stream containerd is told makes sense, no event  *)
(* is lost, repeated or overtaken, and a flush that is not disturbed       *)
(* computes what OutboxOps says it does in one step.                       *)
(***************************************************************************)
EXTENDS EventOutbox, SequenceTheorems, FiniteSetTheorems, WellFoundedInduction, TLAPS

\* The flags of the outbox are what has been handed over (record, events.go:171-180).
FlagsAreTrue ==
    /\ o.known => \E m \in 1..Len(handed) : Kind[handed[m]] = "TaskCreate"
    /\ o.started => \E m \in 1..Len(handed) : Kind[handed[m]] = "TaskStart"
    /\ \A m \in 1..Len(handed) : Kind[handed[m]] = "TaskDelete" => o.deleted

IInv == TypeOK /\ FlagsAreTrue /\ StreamMakesSense

\* record keeps the type of the outbox and touches only the flags.
LEMMA RecordType ==
    ASSUME NEW b \in Outboxes, NEW e \in Events
    PROVE  /\ record(b, e) \in Outboxes
           /\ record(b, e).held = b.held
           /\ record(b, e).known = (b.known \/ Kind[e] = "TaskCreate")
           /\ record(b, e).started = (b.started \/ Kind[e] = "TaskStart")
           /\ record(b, e).deleted = (b.deleted \/ Kind[e] = "TaskDelete")
BY DEF Outboxes, record

\* An outbox that has published nothing satisfies the invariant.
LEMMA InitInv == Init => IInv
<1> SUFFICES ASSUME Init PROVE IInv
  OBVIOUS
<1>1. newEventOutbox \in Outboxes
  BY DEF newEventOutbox, Outboxes
<1>2. <<>> \in Seq(Events)
  OBVIOUS
<1>3. entry \in [o : Outboxes, out : Seq(Events)]
  BY <1>1, <1>2 DEF Init
<1>4. TypeOK
  <2>1. o \in Outboxes /\ mu \in Events \union {NoEvent}
    BY <1>1 DEF Init
  <2>2. kept \in Seq(Events) /\ handed \in Seq(Events) /\ accepted \in Seq(Events)
    BY <1>2 DEF Init
  <2>3. i \in Nat \ {0} /\ queued \in 0..Capacity
    BY CapacityPositive DEF Init
  <2>4. sent \in BOOLEAN /\ cancelled \in BOOLEAN /\ stalled \in BOOLEAN
    BY DEF Init
  <2>5. pc \in [Events -> {"new", "flushing", "returned"}]
    BY DEF Init
  <2>6. QED
    BY <1>3, <2>1, <2>2, <2>3, <2>4, <2>5 DEF TypeOK
<1>5. handed = <<>> /\ ~o.known /\ ~o.started
  BY DEF Init, newEventOutbox
<1>6. FlagsAreTrue /\ StreamMakesSense
  BY <1>5 DEF FlagsAreTrue, StreamMakesSense
<1>7. QED
  BY <1>4, <1>6 DEF IInv

\* A step that hands nothing over and leaves the flags alone.
LEMMA QuietStep ==
    ASSUME IInv, TypeOK', handed' = handed,
           o'.known = o.known, o'.started = o.started, o'.deleted = o.deleted
    PROVE  IInv'
BY DEF IInv, FlagsAreTrue, StreamMakesSense

\* The channel takes a publishable event (events.go:145-158).
LEMMA DeliverKeeps ==
    ASSUME IInv, Deliver
    PROVE  IInv'
<1> DEFINE e == o.held[i]
           n == Len(handed)
<1>1. /\ TypeOK /\ o \in Outboxes /\ handed \in Seq(Events)
      /\ o.held \in Seq(Events) /\ i \in 1..Len(o.held)
  BY DEF IInv, TypeOK, Deliver, Scanning, Outboxes
<1>2. e \in Events
  BY <1>1
<1>3. /\ publishable(o, e) /\ queued < Capacity
      /\ handed' = Append(handed, e) /\ o' = record(o, e)
  BY DEF Deliver
<1>4. /\ n \in Nat /\ Len(handed') = n + 1 /\ handed'[n + 1] = e
      /\ \A m \in 1..n : handed'[m] = handed[m]
      /\ handed' \in Seq(Events)
  BY <1>1, <1>2, <1>3
<1> HIDE DEF e, n
<1>5. TypeOK'
  <2>1. o' \in Outboxes
    BY <1>1, <1>2, <1>3, RecordType
  <2>2. i' \in Nat \ {0} /\ queued' \in 0..Capacity
    BY <1>1, CapacityPositive DEF TypeOK, Deliver
  <2>3. sent' \in BOOLEAN
    BY DEF Deliver
  <2>4. UNCHANGED <<mu, pc, kept, cancelled, accepted, entry, stalled>>
    BY DEF Deliver
  <2>5. QED
    BY <1>1, <1>4, <2>1, <2>2, <2>3, <2>4 DEF TypeOK
<1>6. /\ o'.known = (o.known \/ Kind[e] = "TaskCreate")
      /\ o'.started = (o.started \/ Kind[e] = "TaskStart")
      /\ o'.deleted = (o.deleted \/ Kind[e] = "TaskDelete")
  BY <1>1, <1>2, <1>3, RecordType
<1>7. FlagsAreTrue'
  <2>1. \A k \in Kinds : (\E m \in 1..n : Kind[handed[m]] = k) \/ Kind[e] = k
                         => \E m \in 1..Len(handed') : Kind[handed'[m]] = k
    BY <1>4
  <2>2. /\ o'.known => \E m \in 1..Len(handed') : Kind[handed'[m]] = "TaskCreate"
        /\ o'.started => \E m \in 1..Len(handed') : Kind[handed'[m]] = "TaskStart"
    BY <1>6, <2>1 DEF IInv, FlagsAreTrue, n, Kinds
  <2>3. \A m \in 1..Len(handed') : Kind[handed'[m]] = "TaskDelete" => o'.deleted
    <3>1. SUFFICES ASSUME NEW m \in 1..(n + 1), Kind[handed'[m]] = "TaskDelete"
                   PROVE  o.deleted \/ Kind[e] = "TaskDelete"
      BY <1>4, <1>6
    <3>2. CASE m = n + 1
      BY <1>4, <3>1, <3>2
    <3>3. CASE m \in 1..n
      BY <1>4, <3>1, <3>3 DEF IInv, FlagsAreTrue, n
    <3>4. QED
      BY <1>4, <3>2, <3>3
  <2>4. QED
    BY <2>2, <2>3 DEF FlagsAreTrue
<1>8. /\ Kind[e] = "TaskExit" => o.started
      /\ Kind[e] = "TaskDelete" => o.known
      /\ ~o.deleted
  BY <1>3 DEF publishable
<1>9. \A m \in 1..n : Kind[handed[m]] # "TaskDelete"
  BY <1>8 DEF IInv, FlagsAreTrue, n
<1>10. StreamMakesSense'
  BY <1>4, <1>8, <1>9 DEF IInv, FlagsAreTrue, StreamMakesSense, n
<1>11. QED
  BY <1>5, <1>7, <1>10 DEF IInv

\* Every step of Send and flush, and every read of the channel, keeps the invariant.
LEMMA StepInv == IInv /\ [Next]_vars => IInv'
<1> SUFFICES ASSUME IInv, [Next]_vars PROVE IInv'
  OBVIOUS
<1>1. /\ TypeOK /\ o \in Outboxes /\ o.held \in Seq(Events) /\ kept \in Seq(Events)
      /\ handed \in Seq(Events)
  BY DEF IInv, TypeOK, Outboxes
<1>2. ASSUME NEW h \in Seq(Events)
      PROVE  LET b == [o EXCEPT !.held = h]
             IN  /\ b \in Outboxes /\ b.known = o.known
                 /\ b.started = o.started /\ b.deleted = o.deleted
  BY <1>1 DEF Outboxes
<1>3. ASSUME NEW e \in Events, Lock(e) PROVE IInv'
  <2>1. /\ Append(o.held, e) \in Seq(Events)
        /\ o' = [o EXCEPT !.held = Append(o.held, e)]
    BY <1>1, <1>3 DEF Lock
  <2>2. /\ o' \in Outboxes /\ o'.known = o.known
        /\ o'.started = o.started /\ o'.deleted = o.deleted
    BY <1>2, <2>1
  <2>3. entry' \in [o : Outboxes, out : Seq(Events)]
    BY <1>1, <1>3, <2>2 DEF Lock
  <2>4. accepted' \in Seq(Events) /\ kept' \in Seq(Events)
    BY <1>1, <1>3 DEF Lock, StartPass, TypeOK
  <2>5. /\ mu' = e /\ pc' = [pc EXCEPT ![e] = "flushing"] /\ i' = 1 /\ sent' = FALSE
        /\ UNCHANGED <<queued, cancelled, handed, stalled>>
    BY <1>3 DEF Lock, StartPass
  <2>6. pc' \in [Events -> {"new", "flushing", "returned"}]
    BY <1>1, <2>5 DEF TypeOK
  <2>7. sent' \in BOOLEAN
    BY <2>5
  <2>8. i' \in Nat \ {0}
    BY <2>5
  <2>9. TypeOK'
    BY <1>1, <2>2, <2>3, <2>4, <2>5, <2>6, <2>7, <2>8 DEF TypeOK
  <2>10. QED
    BY <2>2, <2>5, <2>9, QuietStep
<1>4. CASE Keep
  <2>1. o.held[i] \in Events /\ i \in Nat \ {0}
    BY <1>1, <1>4 DEF Keep, Scanning, TypeOK
  <2>2. kept' \in Seq(Events) /\ i' \in Nat \ {0}
    BY <1>1, <1>4, <2>1 DEF Keep
  <2>3. UNCHANGED <<o, mu, pc, sent, queued, cancelled, handed, accepted, entry,
                    stalled>>
    BY <1>4 DEF Keep
  <2>4. TypeOK'
    BY <1>1, <2>2, <2>3 DEF TypeOK
  <2>5. QED
    BY <2>3, <2>4, QuietStep
<1>5. CASE Deliver
  BY <1>5, DeliverKeeps
<1>6. ASSUME Return, mu # NoEvent
      PROVE  /\ mu' \in Events \union {NoEvent}
             /\ pc' \in [Events -> {"new", "flushing", "returned"}]
  BY <1>1, <1>6 DEF Return, TypeOK
<1>7. CASE Stall
  <2>1. i \in 1..Len(o.held)
    BY <1>1, <1>7 DEF Stall, Scanning, TypeOK
  <2>2. SubSeq(o.held, i, Len(o.held)) \in Seq(Events)
    BY <1>1, <2>1
  <2>3. kept \o SubSeq(o.held, i, Len(o.held)) \in Seq(Events)
    BY <1>1, <2>2
  <2>4. o' = [o EXCEPT !.held = kept \o SubSeq(o.held, i, Len(o.held))]
    BY <1>7 DEF Stall
  <2>5. /\ o' \in Outboxes /\ o'.known = o.known
        /\ o'.started = o.started /\ o'.deleted = o.deleted
    BY <1>2, <2>3, <2>4
  <2>6. /\ stalled' = TRUE /\ Return /\ mu # NoEvent
        /\ UNCHANGED <<i, kept, sent, queued, cancelled, handed, accepted, entry>>
    BY <1>7 DEF Stall, Scanning, pass
  <2>7. TypeOK'
    BY <1>1, <1>6, <2>5, <2>6 DEF TypeOK
  <2>8. QED
    BY <2>5, <2>6, <2>7, QuietStep
<1>8. CASE EndPass
  <2>1. o' = [o EXCEPT !.held = kept] /\ mu # NoEvent
    BY <1>8 DEF EndPass
  <2>2. /\ o' \in Outboxes /\ o'.known = o.known
        /\ o'.started = o.started /\ o'.deleted = o.deleted
    BY <1>1, <1>2, <2>1
  <2>3. UNCHANGED <<queued, cancelled, handed, accepted, entry>>
    BY <1>8 DEF EndPass
  <2>4. CASE sent
    <3>1. i' = 1 /\ kept' = <<>> /\ sent' = FALSE /\ UNCHANGED <<mu, pc, stalled>>
      BY <1>8, <2>4 DEF EndPass, StartPass
    <3>2. kept' \in Seq(Events) /\ i' \in Nat \ {0}
      BY <3>1
    <3>3. sent' \in BOOLEAN
      BY <3>1
    <3>4. TypeOK'
      BY <1>1, <2>2, <2>3, <3>1, <3>2, <3>3 DEF TypeOK
    <3>5. QED
      BY <2>2, <2>3, <3>4, QuietStep
  <2>5. CASE ~sent
    <3>1. Return /\ stalled' = FALSE /\ UNCHANGED <<i, kept, sent>>
      BY <1>8, <2>5 DEF EndPass, pass
    <3>2. TypeOK'
      BY <1>1, <1>6, <2>1, <2>2, <2>3, <3>1 DEF TypeOK
    <3>3. QED
      BY <2>2, <2>3, <3>2, QuietStep
  <2>6. QED
    BY <2>4, <2>5
<1>9. CASE Forward
  <2>1. queued' \in 0..Capacity
    BY <1>1, <1>9, CapacityPositive DEF Forward, TypeOK
  <2>2. UNCHANGED <<o, mu, pc, i, kept, sent, cancelled, handed, accepted, entry,
                    stalled>>
    BY <1>9 DEF Forward, pass
  <2>3. TypeOK'
    BY <1>1, <2>1, <2>2 DEF TypeOK
  <2>4. QED
    BY <2>2, <2>3, QuietStep
<1>10. CASE Cancel
  <2>1. cancelled' \in BOOLEAN
    BY <1>10 DEF Cancel
  <2>2. UNCHANGED <<o, mu, pc, i, kept, sent, queued, handed, accepted, entry,
                    stalled>>
    BY <1>10 DEF Cancel, pass
  <2>3. TypeOK'
    BY <1>1, <2>1, <2>2 DEF TypeOK
  <2>4. QED
    BY <2>2, <2>3, QuietStep
<1>11. CASE UNCHANGED vars
  <2>1. UNCHANGED <<o, mu, pc, i, kept, sent, queued, cancelled, handed, accepted,
                    entry, stalled>>
    BY <1>11 DEF vars, pass
  <2>2. TypeOK'
    BY <1>1, <2>1 DEF TypeOK
  <2>3. QED
    BY <2>1, <2>2, QuietStep
<1>12. QED
  BY <1>3, <1>4, <1>5, <1>7, <1>8, <1>9, <1>10, <1>11 DEF Next, flush

\* The outbox and its queue keep their types: the channel never overflows.
THEOREM TypeCorrect == Safe => []TypeOK
BY InitInv, StepInv, PTL DEF Safe, IInv

\* Whatever order the events of a process are sent in, and however many of them, the
\* stream never has an exit before a start, a delete before a create, or anything
\* after a delete (publishable, events.go:115-129).
THEOREM StreamAlwaysMakesSense == Safe => []StreamMakesSense
BY InitInv, StepInv, PTL DEF Safe, IInv

-----------------------------------------------------------------------------
(***************************************************************************)
(* Nothing lost, nothing repeated, nothing overtaken.                      *)
(***************************************************************************)
\* A concatenation has no repetition when neither part has one and they share nothing.
LEMMA ConcatInjectiveAt ==
    ASSUME NEW S, NEW s \in Seq(S), NEW t \in Seq(S)
    PROVE  IsInjective(s \o t) <=>
             /\ IsInjective(s) /\ IsInjective(t)
             /\ \A m \in 1..Len(s), n \in 1..Len(t) : s[m] # t[n]
<1> DEFINE u == s \o t
<1>1. /\ u \in Seq(S) /\ Len(u) = Len(s) + Len(t) /\ Len(s) \in Nat /\ Len(t) \in Nat
      /\ DOMAIN u = 1..Len(u) /\ DOMAIN s = 1..Len(s) /\ DOMAIN t = 1..Len(t)
      /\ \A j \in 1..(Len(s) + Len(t)) : u[j] = IF j <= Len(s) THEN s[j] ELSE t[j - Len(s)]
  BY ConcatProperties
<1>2. \A m \in 1..Len(s) : u[m] = s[m] /\ m \in DOMAIN u
  BY <1>1
<1>3. \A n \in 1..Len(t) : u[n + Len(s)] = t[n] /\ n + Len(s) \in DOMAIN u
  BY <1>1
<1>4. \A j \in DOMAIN u : \/ j \in 1..Len(s)
                          \/ \E n \in 1..Len(t) : j = n + Len(s)
  <2> SUFFICES ASSUME NEW j \in DOMAIN u, j \notin 1..Len(s)
               PROVE \E n \in 1..Len(t) : j = n + Len(s)
    OBVIOUS
  <2>1. j - Len(s) \in 1..Len(t) /\ j = (j - Len(s)) + Len(s)
    BY <1>1
  <2>2. QED
    BY <2>1
<1> HIDE DEF u
<1>5. ASSUME IsInjective(u)
      PROVE  IsInjective(s) /\ IsInjective(t)
             /\ \A m \in 1..Len(s), n \in 1..Len(t) : s[m] # t[n]
  <2>1. \A a, b \in DOMAIN u : u[a] = u[b] => a = b
    BY <1>5 DEF IsInjective
  <2>2. IsInjective(s)
    BY <1>1, <1>2, <2>1 DEF IsInjective
  <2>3. IsInjective(t)
    <3>1. \A a, b \in 1..Len(t) : t[a] = t[b] => a + Len(s) = b + Len(s)
      BY <1>3, <2>1
    <3>2. QED
      BY <1>1, <3>1 DEF IsInjective
  <2>4. \A m \in 1..Len(s), n \in 1..Len(t) : s[m] # t[n]
    <3>1. \A m \in 1..Len(s), n \in 1..Len(t) : s[m] = t[n] => m = n + Len(s)
      BY <1>2, <1>3, <2>1
    <3>2. \A m \in 1..Len(s), n \in 1..Len(t) : m # n + Len(s)
      BY <1>1
    <3>3. QED
      BY <3>1, <3>2
  <2>5. QED
    BY <2>2, <2>3, <2>4
<1>6. ASSUME IsInjective(s), IsInjective(t), \A m \in 1..Len(s), n \in 1..Len(t) : s[m] # t[n]
      PROVE  IsInjective(u)
  <2>1. /\ \A a, b \in 1..Len(s) : s[a] = s[b] => a = b
        /\ \A a, b \in 1..Len(t) : t[a] = t[b] => a = b
    BY <1>1, <1>6 DEF IsInjective
  <2> SUFFICES ASSUME NEW a \in DOMAIN u, NEW b \in DOMAIN u, u[a] = u[b]
               PROVE  a = b
    BY DEF IsInjective
  <2>2. QED
    BY <1>2, <1>3, <1>4, <1>6, <2>1
<1>7. QED
  BY <1>5, <1>6 DEF u

\* The elements of a concatenation.
LEMMA ConcatToSet ==
    ASSUME NEW S, NEW s \in Seq(S), NEW t \in Seq(S)
    PROVE  ToSet(s \o t) = ToSet(s) \union ToSet(t)
<1>1. Range(s \o t) = Range(s) \union Range(t)
  BY RangeConcatenation
<1>2. QED
  BY <1>1 DEF ToSet, Range

\* ConcatInjectiveAt with the elements of the parts as sets.
LEMMA ConcatInjective ==
    ASSUME NEW S, NEW s \in Seq(S), NEW t \in Seq(S)
    PROVE  IsInjective(s \o t) <=>
             /\ IsInjective(s) /\ IsInjective(t)
             /\ ToSet(s) \intersect ToSet(t) = {}
<1>1. /\ ToSet(s) = {s[m] : m \in 1..Len(s)}
      /\ ToSet(t) = {t[n] : n \in 1..Len(t)}
  BY DEF ToSet
<1>2. ToSet(s) \intersect ToSet(t) = {} <=>
          \A m \in 1..Len(s), n \in 1..Len(t) : s[m] # t[n]
  BY <1>1
<1>3. QED
  BY <1>2, ConcatInjectiveAt

\* The part of o.held the pass has not visited.
Unvisited == SubSeq(o.held, i, Len(o.held))

\* Sends that are under way have been accepted, and a pass does not run past the end.
Books ==
    /\ IsInjective(accepted)
    /\ \A e \in Events : e \in ToSet(accepted) <=> pc[e] # "new"
    /\ mu # NoEvent => pc[mu] = "flushing" /\ i <= Len(o.held) + 1

\* What is not handed over yet is held in the order in which Send took it.
HeldInOrder ==
    \A m, n \in 1..Len(Unplaced) : m < n => Before(accepted, Unplaced[m], Unplaced[n])

\* A pass keeps a create or a start back only behind a delete.
KeptIsBlocked ==
    mu # NoEvent =>
        \A m \in 1..Len(kept) : Kind[kept[m]] \in {"TaskCreate", "TaskStart"} => o.deleted

DInv == /\ IInv /\ Books /\ NoLossNoRepeat
        /\ HeldInOrder /\ KeptIsBlocked /\ NoOvertaking

\* The sequences of the outbox, and the two the properties speak of.
LEMMA OutboxTypes ==
    ASSUME TypeOK
    PROVE  /\ o \in Outboxes /\ o.held \in Seq(Events) /\ kept \in Seq(Events)
           /\ handed \in Seq(Events) /\ accepted \in Seq(Events) /\ i \in Nat \ {0}
           /\ Unvisited \in Seq(Events) /\ kept \o Unvisited \in Seq(Events)
           /\ Unplaced \in Seq(Events)
<1>1. /\ o \in Outboxes /\ o.held \in Seq(Events) /\ kept \in Seq(Events)
      /\ handed \in Seq(Events) /\ accepted \in Seq(Events) /\ i \in Nat \ {0}
  BY DEF TypeOK, Outboxes
<1>2. Unvisited \in Seq(Events)
  <2>1. \A j \in i..Len(o.held) : o.held[j] \in Events
    BY <1>1
  <2>2. QED
    BY <1>1, <2>1, SubSeqProperties DEF Unvisited
<1>3. kept \o Unvisited \in Seq(Events)
  BY <1>1, <1>2, ConcatProperties
<1>4. QED
  BY <1>1, <1>2, <1>3 DEF Unplaced, Unvisited

\* The event a scan is at is the first unvisited one.
LEMMA ScanSplits ==
    ASSUME TypeOK, Scanning
    PROVE  /\ i \in 1..Len(o.held) /\ o.held[i] \in Events
           /\ Unvisited = <<o.held[i]>> \o SubSeq(o.held, i + 1, Len(o.held))
           /\ SubSeq(o.held, i + 1, Len(o.held)) \in Seq(Events)
<1>1. i \in 1..Len(o.held) /\ o.held \in Seq(Events) /\ Len(o.held) \in i..Len(o.held)
  BY OutboxTypes DEF Scanning
<1>2. o.held[i] \in Events
  BY <1>1
<1>3. Unvisited = <<o.held[i]>> \o SubSeq(o.held, i + 1, Len(o.held))
  BY <1>1, SubSeqRecursiveFirst DEF Unvisited
<1>4. \A j \in (i + 1)..Len(o.held) : o.held[j] \in Events
  BY <1>1
<1>5. SubSeq(o.held, i + 1, Len(o.held)) \in Seq(Events)
  BY <1>1, <1>4, SubSeqProperties
<1>6. QED
  BY <1>1, <1>2, <1>3, <1>5

\* A step that hands nothing over, accepts nothing and keeps what is unplaced.
LEMMA StillStep ==
    ASSUME DInv, IInv', Books', KeptIsBlocked', UNCHANGED <<handed, accepted>>,
           Unplaced' = Unplaced
    PROVE  DInv'
<1>1. NoLossNoRepeat'
  BY DEF DInv, NoLossNoRepeat
<1>2. HeldInOrder'
  BY DEF DInv, HeldInOrder, Before
<1>3. NoOvertaking'
  BY DEF DInv, NoOvertaking, Before
<1>4. QED
  BY <1>1, <1>2, <1>3 DEF DInv

\* Send takes an event nobody has sent before (events.go:108-111).
LEMMA LockDInv ==
    ASSUME DInv, NEW e \in Events, Lock(e), IInv'
    PROVE  DInv'
<1>1. TypeOK /\ TypeOK'
  BY DEF DInv, IInv
<1>2. /\ mu = NoEvent /\ pc[e] = "new" /\ mu' = e /\ pc' = [pc EXCEPT ![e] = "flushing"]
      /\ o' = [o EXCEPT !.held = Append(o.held, e)] /\ accepted' = Append(accepted, e)
      /\ i' = 1 /\ kept' = <<>> /\ handed' = handed
  BY DEF Lock, StartPass
<1>3. o'.held = Append(o.held, e) /\ Unplaced = o.held /\ mu' # NoEvent
  BY <1>1, <1>2, OutboxTypes, NoEventFresh DEF Outboxes, Unplaced
<1>4. Unplaced' = Append(o.held, e)
  <2>1. o'.held \in Seq(Events) /\ Unplaced' = <<>> \o SubSeq(o'.held, 1, Len(o'.held))
    BY <1>1, <1>2, <1>3, OutboxTypes DEF Unplaced
  <2>2. SubSeq(o'.held, 1, Len(o'.held)) = o'.held
    BY <2>1, SubSeqFull
  <2>3. <<>> \o o'.held = o'.held
    BY <2>1, ConcatEmptySeq
  <2>4. QED
    BY <1>3, <2>1, <2>2, <2>3
<1> DEFINE U == o.held
<1>5. /\ handed \in Seq(Events) /\ U \in Seq(Events) /\ accepted \in Seq(Events)
      /\ <<e>> \in Seq(Events) /\ handed \o U \in Seq(Events)
      /\ Append(U, e) = U \o <<e>> /\ Append(accepted, e) = accepted \o <<e>>
      /\ ToSet(<<e>>) = {e}
  <2>1. handed \in Seq(Events) /\ U \in Seq(Events) /\ accepted \in Seq(Events)
    BY <1>1, OutboxTypes
  <2>2. <<e>> \in Seq(Events) /\ handed \o U \in Seq(Events)
    BY <2>1, ConcatProperties
  <2>3. Append(U, e) = U \o <<e>> /\ Append(accepted, e) = accepted \o <<e>>
    BY <2>1, AppendIsConcat
  <2>4. ToSet(<<e>>) = {e}
    BY DEF ToSet
  <2>5. QED
    BY <2>1, <2>2, <2>3, <2>4
<1> HIDE DEF U
<1>6. handed' \o Unplaced' = (handed \o U) \o <<e>>
  <2>1. (handed \o U) \o <<e>> = handed \o (U \o <<e>>)
    BY <1>5, ConcatAssociative
  <2>2. QED
    BY <1>2, <1>4, <1>5, <2>1 DEF U
<1>7. e \notin ToSet(accepted) /\ IsInjective(accepted)
  BY <1>2 DEF DInv, Books
<1>8. IsInjective(handed \o U) /\ ToSet(handed \o U) = ToSet(accepted)
  BY <1>3 DEF DInv, NoLossNoRepeat, U
<1>9. IsInjective(<<e>>)
  BY DEF IsInjective
<1>10. \A s \in Seq(Events) : IsInjective(s) /\ e \notin ToSet(s)
                              => IsInjective(s \o <<e>>)
  <2> SUFFICES ASSUME NEW s \in Seq(Events), IsInjective(s), e \notin ToSet(s)
               PROVE  IsInjective(s \o <<e>>)
    OBVIOUS
  <2>1. <<e>> \in Seq(Events) /\ ToSet(s) \intersect ToSet(<<e>>) = {}
    BY <1>5
  <2>2. QED
    BY <1>9, <2>1, ConcatInjective
<1>11. \A s \in Seq(Events) : ToSet(s \o <<e>>) = ToSet(s) \union {e}
  <2>1. \A s, t \in Seq(Events) : ToSet(s \o t) = ToSet(s) \union ToSet(t)
    BY ConcatToSet
  <2>2. <<e>> \in Seq(Events) /\ ToSet(<<e>>) = {e}
    BY <1>5
  <2>3. QED
    BY <2>1, <2>2, Zenon
<1>12. ToSet(accepted') = ToSet(accepted) \union {e}
  BY <1>2, <1>5, <1>11
<1>13. NoLossNoRepeat'
  <2>1. IsInjective(handed' \o Unplaced')
    BY <1>5, <1>6, <1>7, <1>8, <1>10
  <2>2. ToSet(handed' \o Unplaced') = ToSet(accepted) \union {e}
    BY <1>5, <1>6, <1>8, <1>11
  <2>3. QED
    BY <1>12, <2>1, <2>2 DEF NoLossNoRepeat
<1>14. Books'
  <2>1. IsInjective(accepted')
    BY <1>2, <1>5, <1>7, <1>10
  <2>2. \A f \in Events : f \in ToSet(accepted') <=> pc'[f] # "new"
    BY <1>1, <1>2, <1>12 DEF DInv, Books, TypeOK
  <2>3. pc'[mu'] = "flushing" /\ i' <= Len(o'.held) + 1
    BY <1>1, <1>2, <1>3, <1>5 DEF TypeOK, U
  <2>4. QED
    BY <2>1, <2>2, <2>3 DEF Books
<1>15. \A f, g \in Events : Before(accepted, f, g) => Before(accepted', f, g)
  BY <1>2, <1>5 DEF Before
<1>16. \A f \in ToSet(accepted) : Before(accepted', f, e)
  <2>1. \A f \in ToSet(accepted) : \E m \in 1..Len(accepted) : f = accepted[m]
    BY <1>5 DEF ToSet
  <2>2. SUFFICES ASSUME NEW m \in 1..Len(accepted)
                 PROVE  Before(accepted', accepted[m], e)
    BY <2>1
  <2>3. /\ Len(accepted) + 1 \in 1..Len(accepted') /\ m \in 1..Len(accepted')
        /\ m < Len(accepted) + 1
        /\ accepted'[m] = accepted[m] /\ accepted'[Len(accepted) + 1] = e
    BY <1>2, <1>5
  <2>4. QED
    BY <2>3 DEF Before
<1>17. HeldInOrder'
  <2> SUFFICES ASSUME NEW m \in 1..(Len(U) + 1), NEW n \in 1..(Len(U) + 1), m < n
               PROVE  Before(accepted', Append(U, e)[m], Append(U, e)[n])
    BY <1>4, <1>5 DEF HeldInOrder, U
  <2>1. m \in 1..Len(U) /\ Append(U, e)[m] = U[m] /\ U[m] \in Events
    BY <1>5
  <2>2. CASE n \in 1..Len(U)
    <3>1. Append(U, e)[n] = U[n] /\ U[n] \in Events
      BY <1>5, <2>2
    <3>2. Before(accepted, U[m], U[n])
      BY <1>3, <2>1, <2>2 DEF DInv, HeldInOrder, U
    <3>3. QED
      BY <1>15, <2>1, <3>1, <3>2
  <2>3. CASE n = Len(U) + 1
    <3>1. Append(U, e)[n] = e
      BY <1>5, <2>3
    <3>2. U[m] \in ToSet(accepted)
      <4>1. U[m] \in ToSet(U)
        BY <1>5, <2>1 DEF ToSet
      <4>2. QED
        BY <1>5, <1>8, <4>1, ConcatToSet
    <3>3. QED
      BY <1>16, <2>1, <3>1, <3>2
  <2>4. QED
    BY <1>5, <2>2, <2>3
<1>18. KeptIsBlocked'
  BY <1>2 DEF KeptIsBlocked
<1>19. NoOvertaking'
  <2> SUFFICES ASSUME NEW f \in ToSet(accepted'), NEW g \in ToSet(handed),
                      Kind[f] \in {"TaskCreate", "TaskStart"}, Before(accepted', f, g)
               PROVE  Before(handed, f, g)
    BY <1>2 DEF NoOvertaking
  <2>1. g \in ToSet(accepted) /\ g # e
    BY <1>5, <1>7, <1>8, ConcatToSet
  <2>2. PICK m, n \in 1..Len(accepted') : m < n /\ accepted'[m] = f /\ accepted'[n] = g
    BY DEF Before
  <2>3. n \in 1..Len(accepted) /\ m \in 1..Len(accepted)
    BY <1>2, <1>5, <2>1, <2>2
  <2>4. accepted[m] = f /\ accepted[n] = g
    BY <1>2, <1>5, <2>2, <2>3
  <2>5. f \in ToSet(accepted) /\ Before(accepted, f, g)
    BY <1>5, <2>2, <2>3, <2>4 DEF ToSet, Before
  <2>6. QED
    BY <2>5 DEF DInv, NoOvertaking
<1>20. QED
  BY <1>13, <1>14, <1>17, <1>18, <1>19 DEF DInv

\* The channel takes an event out of the middle of what is unplaced (events.go:145-158).
LEMMA DeliverDInv ==
    ASSUME DInv, Deliver, IInv'
    PROVE  DInv'
<1> DEFINE x == o.held[i]
           R == SubSeq(o.held, i + 1, Len(o.held))
<1>1. TypeOK /\ TypeOK' /\ Scanning /\ mu # NoEvent
  BY DEF DInv, IInv, Deliver, Scanning
<1>2. /\ publishable(o, x) /\ handed' = Append(handed, x) /\ o' = record(o, x)
      /\ i' = i + 1 /\ UNCHANGED <<mu, pc, kept, accepted>>
  BY DEF Deliver
<1>3. /\ i \in 1..Len(o.held) /\ x \in Events /\ R \in Seq(Events)
      /\ Unplaced = kept \o (<<x>> \o R)
      /\ kept \in Seq(Events) /\ handed \in Seq(Events) /\ accepted \in Seq(Events)
      /\ o \in Outboxes
  BY <1>1, ScanSplits, OutboxTypes DEF Unplaced, Unvisited
<1>4. o'.held = o.held /\ (o.deleted => o'.deleted)
  BY <1>2, <1>3, RecordType
<1>5. Unplaced' = kept \o R
  BY <1>1, <1>2, <1>4 DEF Unplaced
<1> HIDE DEF x, R
<1>6. /\ <<x>> \in Seq(Events) /\ ToSet(<<x>>) = {x} /\ IsInjective(<<x>>)
      /\ handed' = handed \o <<x>>
  <2>1. <<x>> \in Seq(Events)
    BY <1>3
  <2>2. ToSet(<<x>>) = {x}
    BY DEF ToSet
  <2>3. IsInjective(<<x>>)
    BY DEF IsInjective
  <2>4. handed' = handed \o <<x>>
    BY <1>2, <1>3, AppendIsConcat
  <2>5. QED
    BY <2>1, <2>2, <2>3, <2>4
<1>7. /\ handed' \in Seq(Events) /\ <<x>> \o R \in Seq(Events)
      /\ kept \o (<<x>> \o R) \in Seq(Events) /\ kept \o R \in Seq(Events)
  BY <1>3, <1>6, ConcatProperties
<1>8. \A s, t \in Seq(Events) :
          /\ ToSet(s \o t) = ToSet(s) \union ToSet(t)
          /\ IsInjective(s \o t) <=> /\ IsInjective(s) /\ IsInjective(t)
                                     /\ ToSet(s) \intersect ToSet(t) = {}
  BY ConcatToSet, ConcatInjective
<1>9. /\ ToSet(<<x>> \o R) = {x} \union ToSet(R)
      /\ ToSet(Unplaced) = ToSet(kept) \union {x} \union ToSet(R)
      /\ ToSet(kept \o R) = ToSet(kept) \union ToSet(R)
      /\ ToSet(handed') = ToSet(handed) \union {x}
      /\ ToSet(handed \o Unplaced) = ToSet(handed) \union ToSet(Unplaced)
      /\ ToSet(handed' \o (kept \o R)) = ToSet(handed') \union ToSet(kept \o R)
  <2>1. ToSet(<<x>> \o R) = {x} \union ToSet(R)
    <3>1. <<x>> \in Seq(Events) /\ R \in Seq(Events)
      BY <1>3, <1>6
    <3>2. ToSet(<<x>> \o R) = ToSet(<<x>>) \union ToSet(R)
      BY <3>1, ConcatToSet, Zenon
    <3>3. QED
      BY <1>6, <3>2
  <2>2. ToSet(Unplaced) = ToSet(kept) \union ToSet(<<x>> \o R)
    BY <1>3, <1>7, <1>8, Zenon
  <2>3. ToSet(kept \o R) = ToSet(kept) \union ToSet(R)
    BY <1>3, <1>8, Zenon
  <2>4. ToSet(handed') = ToSet(handed) \union {x}
    BY <1>3, <1>6, <1>8, Zenon
  <2>5. ToSet(handed \o Unplaced) = ToSet(handed) \union ToSet(Unplaced)
    BY <1>3, <1>7, <1>8, Zenon
  <2>6. ToSet(handed' \o (kept \o R)) = ToSet(handed') \union ToSet(kept \o R)
    BY <1>7, <1>8, Zenon
  <2>7. QED
    BY <2>1, <2>2, <2>3, <2>4, <2>5, <2>6
<1>10. /\ IsInjective(handed) /\ IsInjective(Unplaced)
       /\ ToSet(handed) \intersect ToSet(Unplaced) = {}
       /\ ToSet(handed) \union ToSet(Unplaced) = ToSet(accepted)
  <2>1. Unplaced \in Seq(Events)
    BY <1>3, <1>7
  <2>2. IsInjective(handed \o Unplaced) /\ ToSet(handed \o Unplaced) = ToSet(accepted)
    BY DEF DInv, NoLossNoRepeat
  <2>3. /\ IsInjective(handed) /\ IsInjective(Unplaced)
        /\ ToSet(handed) \intersect ToSet(Unplaced) = {}
    <3>1. handed \in Seq(Events)
      BY <1>3
    <3>2. QED
      BY <2>1, <2>2, <3>1, ConcatInjective
  <2>4. QED
    BY <1>9, <2>2, <2>3
<1>11. /\ IsInjective(kept) /\ IsInjective(<<x>> \o R)
       /\ ToSet(kept) \intersect ToSet(<<x>> \o R) = {}
  BY <1>3, <1>7, <1>8, <1>10
<1>12. IsInjective(R) /\ x \notin ToSet(R)
  BY <1>3, <1>6, <1>8, <1>11
<1>13. NoLossNoRepeat'
  <2>1. IsInjective(kept \o R)
    BY <1>3, <1>8, <1>9, <1>11, <1>12
  <2>2. IsInjective(handed')
    <3>1. ToSet(handed) \intersect ToSet(<<x>>) = {}
      BY <1>6, <1>9, <1>10
    <3>2. QED
      BY <1>3, <1>6, <1>8, <1>10, <3>1, Zenon
  <2>3. ToSet(handed') \intersect ToSet(kept \o R) = {}
    BY <1>9, <1>10, <1>11, <1>12
  <2>4. IsInjective(handed' \o (kept \o R))
    BY <1>7, <1>8, <2>1, <2>2, <2>3
  <2>5. ToSet(handed' \o (kept \o R)) = ToSet(accepted)
    BY <1>9, <1>10
  <2>6. QED
    BY <1>2, <1>5, <2>4, <2>5 DEF NoLossNoRepeat
<1>14. Books'
  BY <1>2, <1>3, <1>4 DEF DInv, Books
<1>15. KeptIsBlocked'
  BY <1>2, <1>4 DEF DInv, KeptIsBlocked
<1> DEFINE k == Len(kept)
           at(m) == IF m <= k THEN m ELSE m + 1
<1>16. /\ k \in Nat /\ Len(R) \in Nat /\ Len(Unplaced) = k + 1 + Len(R)
       /\ Len(kept \o R) = k + Len(R)
       /\ \A m \in 1..(k + Len(R)) : (kept \o R)[m] = Unplaced[at(m)]
       /\ \A n \in 1..Len(R) : Unplaced[k + 1 + n] = R[n]
       /\ \A n \in 1..k : Unplaced[n] = kept[n]
       /\ Unplaced[k + 1] = x
  <2>1. k \in Nat /\ Len(R) \in Nat /\ Len(kept \o R) = k + Len(R)
    BY <1>3
  <2>2. /\ Len(<<x>> \o R) = 1 + Len(R) /\ (<<x>> \o R)[1] = x
        /\ \A n \in 1..Len(R) : (<<x>> \o R)[1 + n] = R[n]
    BY <1>3, <1>6
  <2>3. /\ Len(Unplaced) = k + 1 + Len(R)
        /\ \A n \in 1..k : Unplaced[n] = kept[n]
        /\ \A n \in 1..(1 + Len(R)) : Unplaced[k + n] = (<<x>> \o R)[n]
    BY <1>3, <1>7, <2>1, <2>2
  <2>4. Unplaced[k + 1] = x
    BY <2>1, <2>2, <2>3
  <2>5. \A n \in 1..Len(R) : Unplaced[k + 1 + n] = R[n]
    <3> SUFFICES ASSUME NEW n \in 1..Len(R) PROVE Unplaced[k + 1 + n] = R[n]
      OBVIOUS
    <3>1. 1 + n \in 1..(1 + Len(R)) /\ k + (1 + n) = k + 1 + n
      BY <2>1
    <3>2. QED
      BY <2>2, <2>3, <3>1
  <2>6. /\ \A m \in 1..k : (kept \o R)[m] = kept[m]
        /\ \A n \in 1..Len(R) : (kept \o R)[k + n] = R[n]
    BY <1>3, <2>1
  <2>7. ASSUME NEW m \in 1..(k + Len(R)) PROVE (kept \o R)[m] = Unplaced[at(m)]
    <3>1. CASE m <= k
      BY <2>1, <2>3, <2>6, <3>1
    <3>2. CASE m > k
      <4>1. m - k \in 1..Len(R) /\ k + (m - k) = m /\ k + 1 + (m - k) = m + 1
        BY <2>1, <3>2
      <4>2. (kept \o R)[m] = R[m - k] /\ Unplaced[m + 1] = R[m - k]
        BY <2>5, <2>6, <4>1
      <4>3. QED
        BY <2>1, <3>2, <4>2
    <3>3. QED
      BY <2>1, <3>1, <3>2
  <2>8. QED
    BY <2>1, <2>3, <2>4, <2>5, <2>7
<1>17. HeldInOrder'
  <2> SUFFICES ASSUME NEW m \in 1..(k + Len(R)), NEW n \in 1..(k + Len(R)), m < n
               PROVE  Before(accepted, (kept \o R)[m], (kept \o R)[n])
    BY <1>2, <1>5, <1>16 DEF HeldInOrder, Before
  <2>1. at(m) \in 1..Len(Unplaced) /\ at(n) \in 1..Len(Unplaced) /\ at(m) < at(n)
    BY <1>16
  <2>2. Before(accepted, Unplaced[at(m)], Unplaced[at(n)])
    BY <2>1 DEF DInv, HeldInOrder
  <2>3. QED
    BY <1>16, <2>2
<1> HIDE DEF k
<1>18. ASSUME NEW f, NEW g, Before(accepted, f, g), Before(accepted, g, f) \/ f = g
       PROVE  FALSE
  <2>1. \A a, b \in 1..Len(accepted) : accepted[a] = accepted[b] => a = b
    BY <1>3 DEF DInv, Books, IsInjective
  <2>2. PICK m, n \in 1..Len(accepted) : m < n /\ accepted[m] = f /\ accepted[n] = g
    BY <1>18 DEF Before
  <2>3. \A p, q \in 1..Len(accepted) : accepted[p] = g /\ accepted[q] = f => p = n /\ q = m
    BY <2>1, <2>2
  <2>4. ~Before(accepted, g, f)
    BY <1>3, <2>2, <2>3 DEF Before
  <2>5. f # g
    BY <1>3, <2>1, <2>2
  <2>6. QED
    BY <1>18, <2>4, <2>5
<1>19. NoOvertaking'
  <2> SUFFICES ASSUME NEW f \in ToSet(accepted), NEW g \in ToSet(handed'),
                      Kind[f] \in {"TaskCreate", "TaskStart"}, Before(accepted, f, g)
               PROVE  Before(handed', f, g)
    BY <1>2 DEF NoOvertaking, Before
  <2>1. /\ Len(handed) \in Nat /\ Len(handed') = Len(handed) + 1
        /\ handed'[Len(handed) + 1] = x
        /\ \A m \in 1..Len(handed) : handed'[m] = handed[m]
    BY <1>2, <1>3
  <2>2. CASE g \in ToSet(handed)
    <3>1. Before(handed, f, g)
      BY <2>2 DEF DInv, NoOvertaking
    <3>2. QED
      BY <2>1, <3>1 DEF Before
  <2>3. CASE g = x
    <3>1. f # x
      BY <1>18, <2>3
    <3>2. f \notin ToSet(R)
      <4>1. SUFFICES ASSUME NEW n \in 1..Len(R), f = R[n] PROVE FALSE
        BY <1>3 DEF ToSet
      <4>2. /\ k + 1 \in 1..Len(Unplaced) /\ k + 1 + n \in 1..Len(Unplaced)
            /\ k + 1 < k + 1 + n
        BY <1>16
      <4>3. Before(accepted, Unplaced[k + 1], Unplaced[k + 1 + n])
        BY <4>2 DEF DInv, HeldInOrder
      <4>4. Before(accepted, x, f)
        BY <1>16, <4>1, <4>3
      <4>5. QED
        BY <1>18, <2>3, <4>4
    <3>3. f \notin ToSet(kept)
      <4>1. ~o.deleted
        BY <1>2 DEF publishable
      <4>2. \A m \in 1..Len(kept) : kept[m] # f
        BY <1>1, <4>1 DEF DInv, KeptIsBlocked
      <4>3. QED
        BY <1>3, <4>2 DEF ToSet
    <3>4. f \in ToSet(handed)
      BY <1>9, <1>10, <3>1, <3>2, <3>3
    <3>5. PICK m \in 1..Len(handed) : handed[m] = f
      BY <1>3, <3>4 DEF ToSet
    <3>6. /\ m \in 1..Len(handed') /\ Len(handed) + 1 \in 1..Len(handed')
          /\ m < Len(handed) + 1 /\ handed'[m] = f
      BY <2>1, <3>5
    <3>7. QED
      BY <2>1, <2>3, <3>6 DEF Before
  <2>4. QED
    BY <1>9, <2>2, <2>3
<1>20. QED
  BY <1>13, <1>14, <1>15, <1>17, <1>19 DEF DInv

\* The outbox starts with nothing accepted and nothing held.
LEMMA InitDInv == Init => DInv
<1> SUFFICES ASSUME Init PROVE DInv
  OBVIOUS
<1>1. IInv
  BY InitInv
<1>2. /\ mu = NoEvent /\ handed = <<>> /\ accepted = <<>> /\ o.held = <<>>
      /\ pc = [e \in Events |-> "new"]
  BY DEF Init, newEventOutbox
<1>3. Unplaced = <<>> /\ handed \o Unplaced = <<>>
  BY <1>2 DEF Unplaced
<1>4. ToSet(<<>>) = {} /\ IsInjective(<<>>)
  BY DEF ToSet, IsInjective
<1>5. Books /\ NoLossNoRepeat /\ KeptIsBlocked
  BY <1>2, <1>3, <1>4 DEF Books, NoLossNoRepeat, KeptIsBlocked
<1>6. HeldInOrder /\ NoOvertaking
  BY <1>2, <1>3, <1>4 DEF HeldInOrder, NoOvertaking
<1>7. QED
  BY <1>1, <1>5, <1>6 DEF DInv

\* Return leaves every accepted event accepted.
LEMMA ReturnBooks ==
    ASSUME DInv, Return, mu # NoEvent, accepted' = accepted
    PROVE  Books' /\ KeptIsBlocked' /\ mu' = NoEvent
<1>1. mu \in Events /\ pc[mu] = "flushing" /\ pc' = [pc EXCEPT ![mu] = "returned"]
      /\ pc \in [Events -> {"new", "flushing", "returned"}]
  BY DEF DInv, IInv, TypeOK, Books, Return
<1>2. \A e \in Events : pc'[e] # "new" <=> pc[e] # "new"
  BY <1>1
<1>3. mu' = NoEvent
  BY DEF Return
<1>4. QED
  BY <1>2, <1>3 DEF DInv, Books, KeptIsBlocked

\* Every step of the outbox and of the channel keeps the invariant.
LEMMA StepDInv == DInv /\ [Next]_vars => DInv'
<1> SUFFICES ASSUME DInv, [Next]_vars PROVE DInv'
  OBVIOUS
<1>1. TypeOK /\ IInv /\ IInv'
  BY StepInv DEF DInv, IInv
<1>2. /\ o \in Outboxes /\ o.held \in Seq(Events) /\ kept \in Seq(Events)
      /\ i \in Nat \ {0} /\ Unvisited \in Seq(Events)
  BY <1>1, OutboxTypes
<1>3. ASSUME NEW h \in Seq(Events), o' = [o EXCEPT !.held = h]
      PROVE  o'.held = h /\ o'.deleted = o.deleted
  BY <1>2, <1>3 DEF Outboxes
<1>4. ASSUME NEW e \in Events, Lock(e) PROVE DInv'
  BY <1>1, <1>4, LockDInv
<1>5. CASE Keep
  <2> DEFINE x == o.held[i]
             R == SubSeq(o.held, i + 1, Len(o.held))
  <2>1. /\ Scanning /\ mu # NoEvent /\ ~publishable(o, x) /\ kept' = Append(kept, x)
        /\ i' = i + 1
        /\ UNCHANGED <<o, mu, pc, handed, accepted>>
    BY <1>5 DEF Keep, Scanning
  <2>2. /\ i \in 1..Len(o.held) /\ x \in Events /\ R \in Seq(Events)
        /\ Unvisited = <<x>> \o R
    BY <1>1, <2>1, ScanSplits
  <2> HIDE DEF x, R
  <2>3. Unplaced' = Unplaced
    <3>1. Unplaced = kept \o (<<x>> \o R)
      BY <2>1, <2>2 DEF Unplaced, Unvisited
    <3>2. Unplaced' = Append(kept, x) \o R
      BY <2>1 DEF Unplaced, R
    <3>3. Append(kept, x) = kept \o <<x>> /\ <<x>> \in Seq(Events)
      BY <1>2, <2>2, AppendIsConcat
    <3>4. (kept \o <<x>>) \o R = kept \o (<<x>> \o R)
      BY <1>2, <2>2, <3>3, ConcatAssociative
    <3>5. QED
      BY <3>1, <3>2, <3>3, <3>4
  <2>4. Books'
    BY <2>1, <2>2 DEF DInv, Books
  <2>5. KeptIsBlocked'
    <3>1. Kind[x] \in {"TaskCreate", "TaskStart"} => o.deleted
      BY <2>1 DEF publishable
    <3>2. \A m \in 1..Len(kept') : \/ m \in 1..Len(kept) /\ kept'[m] = kept[m]
                                   \/ kept'[m] = x
      BY <1>2, <2>1, <2>2
    <3>3. QED
      BY <2>1, <3>1, <3>2 DEF DInv, KeptIsBlocked
  <2>6. QED
    BY <1>1, <2>1, <2>3, <2>4, <2>5, StillStep
<1>6. CASE Deliver
  BY <1>1, <1>6, DeliverDInv
<1>7. CASE Stall
  <2>1. /\ mu # NoEvent /\ Return /\ UNCHANGED <<handed, accepted>>
        /\ o' = [o EXCEPT !.held = kept \o Unvisited]
    BY <1>7 DEF Stall, Scanning, Unvisited
  <2>2. kept \o Unvisited \in Seq(Events)
    BY <1>1, OutboxTypes
  <2>3. o'.held = kept \o Unvisited
    BY <1>3, <2>1, <2>2
  <2>4. Books' /\ KeptIsBlocked' /\ mu' = NoEvent
    BY <2>1, ReturnBooks
  <2>5. Unplaced' = Unplaced
    BY <2>1, <2>3, <2>4 DEF Unplaced, Unvisited
  <2>6. QED
    BY <1>1, <2>1, <2>4, <2>5, StillStep
<1>8. CASE EndPass
  <2>1. /\ mu # NoEvent /\ i > Len(o.held) /\ o' = [o EXCEPT !.held = kept]
        /\ UNCHANGED <<handed, accepted>>
    BY <1>8 DEF EndPass
  <2>2. o'.held = kept
    BY <1>2, <1>3, <2>1
  <2>3. Unplaced = kept
    <3>1. SubSeq(o.held, i, Len(o.held)) = <<>>
      BY <1>2, <2>1, SubSeqEmpty
    <3>2. kept \o <<>> = kept
      BY <1>2, ConcatEmptySeq
    <3>3. QED
      BY <2>1, <3>1, <3>2 DEF Unplaced
  <2>4. CASE sent
    <3>1. i' = 1 /\ kept' = <<>> /\ UNCHANGED <<mu, pc>>
      BY <1>8, <2>4 DEF EndPass, StartPass
    <3>2. Unplaced' = kept
      <4>1. Unplaced' = <<>> \o SubSeq(kept, 1, Len(kept))
        BY <2>1, <2>2, <3>1 DEF Unplaced
      <4>2. SubSeq(kept, 1, Len(kept)) = kept /\ <<>> \o kept = kept
        BY <1>2, SubSeqFull, ConcatEmptySeq
      <4>3. QED
        BY <4>1, <4>2
    <3>3. Books' /\ KeptIsBlocked'
      BY <1>2, <2>1, <2>2, <3>1 DEF DInv, Books, KeptIsBlocked
    <3>4. QED
      BY <1>1, <2>1, <2>3, <3>2, <3>3, StillStep
  <2>5. CASE ~sent
    <3>1. Return
      BY <1>8, <2>5 DEF EndPass
    <3>2. Books' /\ KeptIsBlocked' /\ mu' = NoEvent
      BY <2>1, <3>1, ReturnBooks
    <3>3. Unplaced' = Unplaced
      BY <2>2, <2>3, <3>2 DEF Unplaced
    <3>4. QED
      BY <1>1, <2>1, <3>2, <3>3, StillStep
  <2>6. QED
    BY <2>4, <2>5
<1>9. CASE Forward \/ Cancel \/ UNCHANGED vars
  <2>1. UNCHANGED <<o, mu, pc, i, kept, handed, accepted>>
    BY <1>9 DEF Forward, Cancel, vars, pass
  <2>2. Unplaced' = Unplaced /\ Books' /\ KeptIsBlocked'
    BY <2>1 DEF DInv, Unplaced, Books, KeptIsBlocked
  <2>3. QED
    BY <1>1, <2>1, <2>2, StillStep
<1>10. QED
  BY <1>4, <1>5, <1>6, <1>7, <1>8, <1>9 DEF Next, flush

\* Whatever sends fail and however full the channel is, every event Send has accepted
\* is handed over once or still held (events.go:110, 154, 161).
THEOREM NothingLostOrRepeated == Safe => []NoLossNoRepeat
BY InitDInv, StepDInv, PTL DEF Safe, DInv

\* No event is handed over before a create or a start that Send took earlier.
THEOREM NothingOvertakes == Safe => []NoOvertaking
BY InitDInv, StepDInv, PTL DEF Safe, DInv

-----------------------------------------------------------------------------
(***************************************************************************)
(* Send as one step.  A flush under way is followed through the passes and *)
(* visits that OutboxOps defines by recursion.                             *)
(***************************************************************************)
\* Induction over the natural numbers, for a set: the least number outside it is not 0
\* and is no successor.
LEMMA NatInd ==
    ASSUME NEW S, 0 \in S, \A n \in Nat : n \in S => n + 1 \in S
    PROVE  Nat \subseteq S
<1> DEFINE T == Nat \ S
           R == OpToRel(<, Nat)
<1>1. SUFFICES ASSUME T # {} PROVE FALSE
  OBVIOUS
<1>2. IsWellFoundedOn(R, Nat)
  BY NatLessThanWellFounded
<1>3. T \subseteq Nat
  OBVIOUS
<1>4. PICK x \in T : \A y \in T : <<y, x>> \notin R
  <2> HIDE DEF T, R
  <2>1. QED
    BY <1>1, <1>2, <1>3, WFMin
<1>5. x \in Nat /\ x # 0 /\ x - 1 \in Nat
  OBVIOUS
<1>6. <<x - 1, x>> \in R
  BY <1>5 DEF OpToRel
<1>7. x - 1 \in S
  BY <1>4, <1>5, <1>6
<1>8. (x - 1) + 1 \in S
  BY <1>5, <1>7
<1>9. QED
  BY <1>5, <1>8

\* The recursion that defines Visits has a solution, so Visits satisfies it.
LEMMA VisitsDef ==
    ASSUME NEW b, Len(b.o.held) \in Nat
    PROVE  Visits(b) = [n \in 0..Len(b.o.held) |->
                            IF n = 0 THEN Holding(b, <<>>)
                                     ELSE Visit(Visits(b)[n - 1], b.o.held[n])]
<1> DEFINE N == Len(b.o.held)
           Rec(g, m) == g = [n \in 0..m |-> IF n = 0 THEN Holding(b, <<>>)
                                                     ELSE Visit(g[n - 1], b.o.held[n])]
           S == {m \in Nat : \E g : Rec(g, m)}
<1>1. 0 \in S
  <2> DEFINE g == [n \in 0..0 |-> Holding(b, <<>>)]
  <2>1. Rec(g, 0)
    OBVIOUS
  <2>2. QED
    BY <2>1
<1>2. ASSUME NEW m \in Nat, m \in S PROVE m + 1 \in S
  <2>1. PICK g : Rec(g, m)
    BY <1>2
  <2> DEFINE last == LET n == m + 1 IN Visit(g[n - 1], b.o.held[n])
             f == [n \in 0..(m + 1) |-> IF n = m + 1 THEN last ELSE g[n]]
  <2>2. \A n \in 0..m : g[n] = IF n = 0 THEN Holding(b, <<>>) ELSE Visit(g[n - 1], b.o.held[n])
    BY <2>1
  <2>3. ASSUME NEW n \in 0..(m + 1)
        PROVE  f[n] = IF n = 0 THEN Holding(b, <<>>) ELSE Visit(f[n - 1], b.o.held[n])
    <3>1. CASE n = m + 1
      BY <3>1
    <3>2. CASE n \in 0..m
      <4>1. f[n] = g[n] /\ (n # 0 => f[n - 1] = g[n - 1])
        BY <3>2
      <4>2. QED
        BY <2>2, <3>2, <4>1
    <3>3. QED
      BY <3>1, <3>2
  <2>4. Rec(f, m + 1)
    BY <2>3
  <2> HIDE DEF f, Rec
  <2>5. QED
    BY <2>4
<1>3. \E g : Rec(g, N)
  <2>1. Nat \subseteq S
    <3> HIDE DEF S
    <3>1. QED
      BY <1>1, <1>2, NatInd
  <2> HIDE DEF Rec, N
  <2>2. N \in Nat
    BY DEF N
  <2>3. QED
    BY <2>1, <2>2
<1>4. Visits(b) = CHOOSE g : Rec(g, N)
  BY DEF Visits
<1>5. Rec(Visits(b), N)
  <2> HIDE DEF Rec, N
  <2>1. QED
    BY <1>3, <1>4
<1>6. QED
  BY <1>5

\* The same for Passes.
LEMMA PassesDef ==
    ASSUME NEW b, Len(b.o.held) \in Nat
    PROVE  Passes(b) = [n \in 0..Len(b.o.held) |->
                            IF n = 0 THEN b
                                     ELSE Pass(Passes(b)[n - 1])]
<1> DEFINE N == Len(b.o.held)
           Rec(g, m) == g = [n \in 0..m |-> IF n = 0 THEN b
                                                     ELSE Pass(g[n - 1])]
           S == {m \in Nat : \E g : Rec(g, m)}
<1>1. 0 \in S
  <2> DEFINE g == [n \in 0..0 |-> b]
  <2>1. Rec(g, 0)
    OBVIOUS
  <2>2. QED
    BY <2>1
<1>2. ASSUME NEW m \in Nat, m \in S PROVE m + 1 \in S
  <2>1. PICK g : Rec(g, m)
    BY <1>2
  <2> DEFINE last == LET n == m + 1 IN Pass(g[n - 1])
             f == [n \in 0..(m + 1) |-> IF n = m + 1 THEN last ELSE g[n]]
  <2>2. \A n \in 0..m : g[n] = IF n = 0 THEN b ELSE Pass(g[n - 1])
    BY <2>1
  <2>3. ASSUME NEW n \in 0..(m + 1)
        PROVE  f[n] = IF n = 0 THEN b ELSE Pass(f[n - 1])
    <3>1. CASE n = m + 1
      BY <3>1
    <3>2. CASE n \in 0..m
      <4>1. f[n] = g[n] /\ (n # 0 => f[n - 1] = g[n - 1])
        BY <3>2
      <4>2. QED
        BY <2>2, <3>2, <4>1
    <3>3. QED
      BY <3>1, <3>2
  <2>4. Rec(f, m + 1)
    BY <2>3
  <2> HIDE DEF f, Rec
  <2>5. QED
    BY <2>4
<1>3. \E g : Rec(g, N)
  <2>1. Nat \subseteq S
    <3> HIDE DEF S
    <3>1. QED
      BY <1>1, <1>2, NatInd
  <2> HIDE DEF Rec, N
  <2>2. N \in Nat
    BY DEF N
  <2>3. QED
    BY <2>1, <2>2
<1>4. Passes(b) = CHOOSE g : Rec(g, N)
  BY DEF Passes
<1>5. Rec(Passes(b), N)
  <2> HIDE DEF Rec, N
  <2>1. QED
    BY <1>3, <1>4
<1>6. QED
  BY <1>5

\* What Holding makes of a box.
LEMMA HoldingType ==
    ASSUME NEW b \in Boxes, NEW h \in Seq(Events)
    PROVE  /\ Holding(b, h) \in Boxes /\ Holding(b, h).out = b.out
           /\ Holding(b, h).o = [b.o EXCEPT !.held = h]
           /\ Holding(b, h).o.held = h
           /\ Holding(Holding(b, h), b.o.held) = b
           /\ Holding(b, b.o.held) = b
           /\ \A e \in Events : publishable(Holding(b, h).o, e) <=> publishable(b.o, e)
BY DEF Boxes, Outboxes, Holding, publishable

\* A visit makes a box of a box.
LEMMA VisitType ==
    ASSUME NEW b \in Boxes, NEW e \in Events
    PROVE  Visit(b, e) \in Boxes
<1>1. b.o \in Outboxes /\ b.out \in Seq(Events) /\ b.o.held \in Seq(Events)
  BY DEF Boxes, Outboxes
<1>2. record(b.o, e) \in Outboxes /\ Append(b.out, e) \in Seq(Events)
      /\ Append(b.o.held, e) \in Seq(Events)
  BY <1>1, RecordType
<1>3. Holding(b, Append(b.o.held, e)) \in Boxes
  BY <1>2, HoldingType
<1>4. QED
  BY <1>2, <1>3 DEF Visit, Boxes

\* The visits of a pass are boxes.
LEMMA VisitsType ==
    ASSUME NEW b \in Boxes
    PROVE  /\ Len(b.o.held) \in Nat
           /\ Visits(b)[0] = Holding(b, <<>>)
           /\ \A n \in 0..(Len(b.o.held) - 1) :
                 Visits(b)[n + 1] = Visit(Visits(b)[n], b.o.held[n + 1])
           /\ \A n \in 0..Len(b.o.held) : Visits(b)[n] \in Boxes
<1> DEFINE N == Len(b.o.held)
           S == {n \in Nat : n <= N => Visits(b)[n] \in Boxes}
<1>1. b.o.held \in Seq(Events) /\ N \in Nat /\ \A n \in 1..N : b.o.held[n] \in Events
  BY DEF Boxes, Outboxes
<1>2. Visits(b) = [n \in 0..N |-> IF n = 0 THEN Holding(b, <<>>)
                                           ELSE Visit(Visits(b)[n - 1], b.o.held[n])]
  BY <1>1, VisitsDef
<1> HIDE DEF N
<1>3. Visits(b)[0] = Holding(b, <<>>)
  BY <1>1, <1>2
<1>4. \A n \in 0..(N - 1) : Visits(b)[n + 1] = Visit(Visits(b)[n], b.o.held[n + 1])
  <2> SUFFICES ASSUME NEW n \in 0..(N - 1)
               PROVE Visits(b)[n + 1] = Visit(Visits(b)[n], b.o.held[n + 1])
    OBVIOUS
  <2>1. n + 1 \in 0..N /\ n + 1 # 0 /\ (n + 1) - 1 = n
    BY <1>1
  <2>2. QED
    BY <1>2, <2>1
<1>5. 0 \in S
  <2>1. <<>> \in Seq(Events)
    OBVIOUS
  <2>2. Holding(b, <<>>) \in Boxes
    BY <2>1, HoldingType
  <2>3. QED
    BY <1>3, <2>2
<1>6. ASSUME NEW n \in Nat, n \in S PROVE n + 1 \in S
  <2> SUFFICES ASSUME n + 1 <= N PROVE Visits(b)[n + 1] \in Boxes
    OBVIOUS
  <2>1. n \in 0..(N - 1) /\ Visits(b)[n] \in Boxes /\ b.o.held[n + 1] \in Events
    BY <1>1, <1>6
  <2>2. QED
    BY <1>4, <2>1, VisitType
<1>7. \A n \in 0..N : Visits(b)[n] \in Boxes
  <2>1. Nat \subseteq S
    <3> HIDE DEF S
    <3>1. QED
      BY <1>5, <1>6, NatInd
  <2>2. QED
    BY <1>1, <2>1
<1>8. QED
  BY <1>1, <1>3, <1>4, <1>7 DEF N

\* The passes of a flush are boxes.
LEMMA PassesType ==
    ASSUME NEW b \in Boxes
    PROVE  /\ Len(b.o.held) \in Nat
           /\ Passes(b)[0] = b
           /\ \A n \in 0..(Len(b.o.held) - 1) : Passes(b)[n + 1] = Pass(Passes(b)[n])
           /\ \A n \in 0..Len(b.o.held) : Passes(b)[n] \in Boxes
<1> DEFINE N == Len(b.o.held)
           S == {n \in Nat : n <= N => Passes(b)[n] \in Boxes}
<1>1. N \in Nat
  BY DEF Boxes, Outboxes
<1>2. Passes(b) = [n \in 0..N |-> IF n = 0 THEN b ELSE Pass(Passes(b)[n - 1])]
  BY <1>1, PassesDef
<1> HIDE DEF N
<1>3. Passes(b)[0] = b
  BY <1>1, <1>2
<1>4. \A n \in 0..(N - 1) : Passes(b)[n + 1] = Pass(Passes(b)[n])
  <2> SUFFICES ASSUME NEW n \in 0..(N - 1) PROVE Passes(b)[n + 1] = Pass(Passes(b)[n])
    OBVIOUS
  <2>1. n + 1 \in 0..N /\ n + 1 # 0 /\ (n + 1) - 1 = n
    BY <1>1
  <2>2. QED
    BY <1>2, <2>1
<1>5. 0 \in S
  BY <1>3
<1>6. ASSUME NEW n \in Nat, n \in S PROVE n + 1 \in S
  <2> SUFFICES ASSUME n + 1 <= N PROVE Passes(b)[n + 1] \in Boxes
    OBVIOUS
  <2>1. n \in 0..(N - 1) /\ Passes(b)[n] \in Boxes
    BY <1>1, <1>6
  <2>2. Pass(Passes(b)[n]) \in Boxes
    <3> DEFINE p == Passes(b)[n]
    <3>1. p \in Boxes
      BY <2>1
    <3> HIDE DEF p
    <3>2. /\ Len(p.o.held) \in 0..Len(p.o.held)
          /\ \A k \in 0..Len(p.o.held) : Visits(p)[k] \in Boxes
      BY <3>1, VisitsType
    <3>3. QED
      BY <3>2 DEF Pass, p
  <2>3. QED
    BY <1>4, <2>1, <2>2
<1>7. \A n \in 0..N : Passes(b)[n] \in Boxes
  <2>1. Nat \subseteq S
    <3> HIDE DEF S
    <3>1. QED
      BY <1>5, <1>6, NatInd
  <2>2. QED
    BY <1>1, <2>1
<1>8. QED
  BY <1>1, <1>3, <1>4, <1>7 DEF N

\* Once a pass changes nothing, the flush is over.
LEMMA PassesStay ==
    ASSUME NEW b \in Boxes, NEW j \in 0..Len(b.o.held), Pass(Passes(b)[j]) = Passes(b)[j]
    PROVE  Flush(b) = Passes(b)[j]
<1> DEFINE N == Len(b.o.held)
           p == Passes(b)[j]
           S == {n \in Nat : j + n <= N => Passes(b)[j + n] = p}
<1>1. N \in Nat /\ \A n \in 0..(N - 1) : Passes(b)[n + 1] = Pass(Passes(b)[n])
  BY PassesType
<1>2. 0 \in S
  OBVIOUS
<1>3. ASSUME NEW n \in Nat, n \in S PROVE n + 1 \in S
  <2> SUFFICES ASSUME j + (n + 1) <= N PROVE Passes(b)[j + (n + 1)] = p
    OBVIOUS
  <2> HIDE DEF N, p
  <2>1. j + n \in 0..(N - 1) /\ j + (n + 1) = (j + n) + 1
    BY <1>1 DEF N
  <2>2. Passes(b)[j + n] = p /\ Pass(p) = p
    BY <1>1, <1>3, <2>1 DEF p
  <2>3. QED
    BY <1>1, <2>1, <2>2
<1>4. N - j \in S
  <2>1. Nat \subseteq S
    <3> HIDE DEF S
    <3>1. QED
      BY <1>2, <1>3, NatInd
  <2>2. N - j \in Nat
    BY <1>1
  <2>3. QED
    BY <2>1, <2>2
<1>5. j + (N - j) = N /\ N <= N
  BY <1>1
<1>6. QED
  BY <1>4, <1>5 DEF Flush

\* A flush in progress, seen from entry: it is in a pass whose beginning is one of the
\* Passes, i - 1 visits into it, with a slot less for every pass that published.
Follows(j) ==
    LET p == Passes(entry)[j]
    IN  /\ Len(p.o.held) + j <= Len(entry.o.held)
        /\ o.held = p.o.held
        /\ i <= Len(o.held) + 1
        /\ Visits(p)[i - 1] = [o |-> [o EXCEPT !.held = kept], out |-> handed]
        /\ sent => Len(kept) + 1 <= i - 1
        /\ ~sent => /\ kept = SubSeq(p.o.held, 1, i - 1)
                    /\ handed = p.out /\ [o EXCEPT !.held = p.o.held] = p.o

FlushInv == /\ IInv
            /\ mu # NoEvent => \E j \in 0..Len(entry.o.held) : Follows(j)
            /\ FlushIsSent

\* No flush has begun.
LEMMA InitFlush == Init => FlushInv
<1> SUFFICES ASSUME Init PROVE FlushInv
  OBVIOUS
<1>1. IInv /\ entry \in Boxes
  BY InitInv DEF IInv, TypeOK, Boxes
<1>2. entry = [o |-> o, out |-> handed] /\ Len(entry.o.held) = 0 /\ mu = NoEvent
  BY DEF Init, newEventOutbox
<1>3. Flush(entry) = entry
  BY <1>1, <1>2, PassesType DEF Flush
<1>4. QED
  BY <1>1, <1>2, <1>3 DEF FlushInv, FlushIsSent

\* The Send that enters flush begins the first pass over what it found.
LEMMA LockFlush ==
    ASSUME FlushInv, NEW e \in Events, Lock(e), IInv'
    PROVE  FlushInv'
<1>1. /\ entry' \in Boxes /\ o' \in Outboxes /\ handed' \in Seq(Events)
      /\ entry'.o = o' /\ entry'.out = handed' /\ entry' = [o |-> o', out |-> handed']
      /\ i' = 1 /\ kept' = <<>> /\ sent' = FALSE /\ mu' # NoEvent
  BY NoEventFresh DEF IInv, TypeOK, Boxes, Lock, StartPass
<1> DEFINE b == entry'
<1>2. b \in Boxes /\ b.o.held \in Seq(Events) /\ b = [o |-> o', out |-> handed']
  BY <1>1 DEF Boxes, Outboxes
<1>3. Passes(b)[0] = b /\ Visits(b)[0] = Holding(b, <<>>) /\ Len(b.o.held) \in Nat
  BY <1>2, PassesType, VisitsType
<1>4. SubSeq(b.o.held, 1, 0) = <<>>
  BY <1>2
<1>5. [o' EXCEPT !.held = b.o.held] = b.o
  BY <1>1 DEF Outboxes
<1>6. Holding(b, <<>>) = [o |-> [o' EXCEPT !.held = kept'], out |-> handed']
  BY <1>1 DEF Holding
<1>7. Follows(0)'
  <2>1. Len(b.o.held) + 0 <= Len(b.o.held) /\ o'.held = b.o.held /\ i' <= Len(o'.held) + 1
    BY <1>1, <1>3
  <2>2. i' - 1 = 0
    BY <1>1
  <2>3. QED
    BY <1>1, <1>3, <1>4, <1>5, <1>6, <2>1, <2>2 DEF Follows
<1>8. 0 \in 0..Len(b.o.held)
  BY <1>3
<1>9. QED
  BY <1>1, <1>7, <1>8 DEF FlushInv, FlushIsSent

\* The next event is visited as Visit says.
LEMMA ScanFlush ==
    ASSUME FlushInv, Keep \/ Deliver, IInv'
    PROVE  FlushInv'
<1> DEFINE x == o.held[i]
<1>1. /\ TypeOK /\ Scanning /\ mu # NoEvent /\ i' = i + 1
      /\ UNCHANGED <<mu, entry>>
  BY DEF FlushInv, IInv, Keep, Deliver, Scanning
<1>2. /\ i \in 1..Len(o.held) /\ x \in Events /\ o \in Outboxes /\ kept \in Seq(Events)
      /\ o.held \in Seq(Events) /\ handed \in Seq(Events) /\ entry \in Boxes
  BY <1>1, ScanSplits, OutboxTypes DEF TypeOK, Boxes
<1>3. PICK j \in 0..Len(entry.o.held) : Follows(j)
  BY <1>1 DEF FlushInv
<1> DEFINE p == Passes(entry)[j]
           v == [o |-> [o EXCEPT !.held = kept], out |-> handed]
<1>4. /\ p \in Boxes /\ o.held = p.o.held /\ Visits(p)[i - 1] = v
      /\ Len(p.o.held) + j <= Len(entry.o.held)
      /\ sent => Len(kept) + 1 <= i - 1
      /\ ~sent => /\ kept = SubSeq(p.o.held, 1, i - 1)
                  /\ handed = p.out /\ [o EXCEPT !.held = p.o.held] = p.o
  BY <1>2, <1>3, PassesType DEF Follows
<1>5. /\ v \in Boxes /\ v.o.held = kept /\ v.out = handed
      /\ publishable(v.o, x) <=> publishable(o, x)
      /\ record(v.o, x) = [record(o, x) EXCEPT !.held = kept]
      /\ Holding(v, Append(kept, x)) = [o |-> [o EXCEPT !.held = Append(kept, x)],
                                        out |-> handed]
  BY <1>2 DEF Boxes, Outboxes, publishable, record, Holding
<1> HIDE DEF x, p, v
<1>6. Visits(p)[i] = Visit(v, x)
  <2>1. i - 1 \in 0..(Len(p.o.held) - 1) /\ (i - 1) + 1 = i
    BY <1>2, <1>4
  <2>2. QED
    BY <1>4, <2>1, VisitsType DEF x
<1>7. i' - 1 = i /\ i' <= Len(o.held) + 1 /\ i \in Nat
  BY <1>1, <1>2
<1>8. Follows(j)'
  <2>1. CASE Keep
    <3>1. /\ ~publishable(o, x) /\ kept' = Append(kept, x)
          /\ UNCHANGED <<o, handed, sent>>
      BY <2>1 DEF Keep, x
    <3>2. Visits(p)[i] = [o |-> [o EXCEPT !.held = kept'], out |-> handed]
      BY <1>5, <1>6, <3>1 DEF Visit
    <3>3. Len(kept') = Len(kept) + 1 /\ Len(kept) \in Nat
      BY <1>2, <3>1
    <3>4. ~sent => kept' = SubSeq(p.o.held, 1, i)
      <4>1. SubSeq(p.o.held, 1, i) = SubSeq(p.o.held, 1, i - 1) \o <<p.o.held[i]>>
        <5>1. 1 \in 1..Len(o.held) /\ i \in 1..Len(o.held)
          BY <1>2
        <5>2. QED
          BY <1>2, <1>4, <5>1, SubSeqRecursiveSecond
      <4>2. kept' = kept \o <<x>>
        BY <1>2, <3>1, AppendIsConcat
      <4>3. QED
        BY <1>4, <4>1, <4>2 DEF x
    <3>5. sent => Len(kept') + 1 <= i
      BY <1>4, <1>7, <3>3
    <3>6. QED
      BY <1>1, <1>4, <1>7, <3>1, <3>2, <3>4, <3>5 DEF Follows, p
  <2>2. CASE Deliver
    <3>1. /\ publishable(o, x) /\ handed' = Append(handed, x) /\ o' = record(o, x)
          /\ sent' = TRUE /\ UNCHANGED kept
      BY <2>2 DEF Deliver, x
    <3>2. Visits(p)[i] = [o |-> [o' EXCEPT !.held = kept], out |-> handed']
      BY <1>5, <1>6, <3>1 DEF Visit
    <3>3. o'.held = o.held
      BY <1>2, <3>1, RecordType
    <3>4. Len(kept) + 1 <= i
      <4>1. CASE sent
        BY <1>2, <1>4, <4>1
      <4>2. CASE ~sent
        <5>1. Len(kept) = i - 1
          BY <1>2, <1>4, <4>2
        <5>2. QED
          BY <1>2, <5>1
      <4>3. QED
        BY <4>1, <4>2
    <3>5. QED
      BY <1>1, <1>4, <1>7, <3>1, <3>2, <3>3, <3>4 DEF Follows, p
  <2>3. QED
    BY <2>1, <2>2
<1>9. QED
  BY <1>1, <1>3, <1>8 DEF FlushInv, FlushIsSent

\* A pass that published begins the next one; one that did not has changed nothing, so
\* that Flush stops there as well.
LEMMA EndFlush ==
    ASSUME FlushInv, EndPass, IInv'
    PROVE  FlushInv'
<1>1. /\ TypeOK /\ mu # NoEvent /\ i > Len(o.held) /\ o' = [o EXCEPT !.held = kept]
      /\ UNCHANGED <<handed, entry>>
  BY DEF FlushInv, IInv, EndPass
<1>2. /\ o \in Outboxes /\ kept \in Seq(Events) /\ i \in Nat \ {0}
      /\ o.held \in Seq(Events) /\ handed \in Seq(Events) /\ entry \in Boxes
      /\ Len(o.held) \in Nat
  BY <1>1, OutboxTypes DEF TypeOK, Boxes
<1>3. PICK j \in 0..Len(entry.o.held) : Follows(j)
  BY <1>1 DEF FlushInv
<1> DEFINE p == Passes(entry)[j]
           v == [o |-> o', out |-> handed]
<1>4. /\ p \in Boxes /\ o.held = p.o.held /\ Visits(p)[i - 1] = v
      /\ Len(p.o.held) + j <= Len(entry.o.held)
      /\ i <= Len(o.held) + 1
      /\ sent => Len(kept) + 1 <= i - 1
      /\ ~sent => /\ kept = SubSeq(p.o.held, 1, i - 1)
                  /\ handed = p.out /\ [o EXCEPT !.held = p.o.held] = p.o
  BY <1>1, <1>2, <1>3, PassesType DEF Follows
<1>5. /\ v \in Boxes /\ v.o = o' /\ v.out = handed /\ o'.held = kept
      /\ Len(kept) \in Nat /\ Len(entry.o.held) \in Nat
  <2>1. o' \in Outboxes /\ o'.held = kept
    BY <1>1, <1>2 DEF Outboxes
  <2>2. v \in Boxes /\ v.o = o' /\ v.out = handed
    BY <1>2, <2>1 DEF Boxes
  <2>3. Len(kept) \in Nat /\ Len(entry.o.held) \in Nat
    BY <1>2 DEF Boxes, Outboxes
  <2>4. QED
    BY <2>1, <2>2, <2>3
<1>6. i - 1 = Len(p.o.held)
  BY <1>1, <1>2, <1>4
<1> HIDE DEF p, v
<1>7. Pass(p) = v
  BY <1>4, <1>6 DEF Pass
<1>8. CASE sent
  <2>1. i' = 1 /\ kept' = <<>> /\ sent' = FALSE /\ UNCHANGED <<mu, stalled>>
    BY <1>8 DEF EndPass, StartPass
  <2>2. Len(kept) + (j + 1) <= Len(entry.o.held) /\ j + 1 \in 0..Len(entry.o.held)
        /\ j \in 0..(Len(entry.o.held) - 1)
    <3> DEFINE N == Len(entry.o.held)
               K == Len(kept)
               L == Len(p.o.held)
    <3>1. N \in Nat /\ K \in Nat /\ L \in Nat /\ L + j <= N /\ K + 1 <= L /\ j \in 0..N
      BY <1>2, <1>4, <1>5, <1>6, <1>8
    <3> HIDE DEF N, K, L
    <3>2. K + (j + 1) <= N /\ j + 1 \in 0..N /\ j \in 0..(N - 1)
      BY <3>1
    <3>3. QED
      BY <3>2 DEF N, K
  <2>3. Passes(entry)[j + 1] = v
    BY <1>2, <1>7, <2>2, PassesType DEF p
  <2>4. Visits(v)[0] = Holding(v, <<>>)
    BY <1>5, VisitsType
  <2>5. Holding(v, <<>>) = [o |-> [o' EXCEPT !.held = kept'], out |-> handed']
    BY <1>1, <1>5, <2>1 DEF Holding
  <2>6. SubSeq(v.o.held, 1, 0) = <<>> /\ [o' EXCEPT !.held = v.o.held] = v.o
    <3>1. SubSeq(kept, 1, 0) = <<>>
      BY <1>2
    <3>2. [o' EXCEPT !.held = kept] = o'
      BY <1>1, <1>2 DEF Outboxes
    <3>3. QED
      BY <1>5, <3>1, <3>2
  <2>7. i' - 1 = 0 /\ i' <= Len(o'.held) + 1
    BY <1>5, <2>1
  <2>8. Follows(j + 1)'
    BY <1>1, <1>5, <2>1, <2>2, <2>3, <2>4, <2>5, <2>6, <2>7 DEF Follows
  <2>9. QED
    BY <1>1, <2>1, <2>2, <2>8 DEF FlushInv, FlushIsSent
<1>9. CASE ~sent
  <2>1. mu' = NoEvent
    BY <1>9 DEF EndPass, Return
  <2>2. kept = p.o.held
    BY <1>2, <1>4, <1>6, <1>9, SubSeqFull
  <2>3. p = v
    <3>1. o' = p.o /\ handed = p.out
      BY <1>1, <1>4, <1>9, <2>2
    <3>2. p = [o |-> p.o, out |-> p.out]
      BY <1>4 DEF Boxes
    <3>3. QED
      BY <3>1, <3>2 DEF v
  <2>4. Flush(entry) = v
    BY <1>2, <1>3, <1>7, <2>3, PassesStay DEF p
  <2>5. QED
    BY <1>1, <2>1, <2>4 DEF FlushInv, FlushIsSent, v
<1>10. QED
  BY <1>8, <1>9

\* Every step of the outbox and of the channel keeps a flush on the course of Sent.
LEMMA StepFlush == FlushInv /\ [Next]_vars => FlushInv'
<1> SUFFICES ASSUME FlushInv, [Next]_vars PROVE FlushInv'
  OBVIOUS
<1>1. IInv'
  BY StepInv DEF FlushInv
<1>2. ASSUME NEW e \in Events, Lock(e) PROVE FlushInv'
  BY <1>1, <1>2, LockFlush
<1>3. CASE Keep \/ Deliver
  BY <1>1, <1>3, ScanFlush
<1>4. CASE EndPass
  BY <1>1, <1>4, EndFlush
<1>5. CASE Stall
  <2>1. mu' = NoEvent /\ stalled'
    BY <1>5 DEF Stall, Return
  <2>2. QED
    BY <1>1, <2>1 DEF FlushInv, FlushIsSent
<1>6. CASE Forward \/ Cancel \/ UNCHANGED vars
  <2>1. UNCHANGED <<o, mu, i, kept, sent, handed, entry, stalled>>
    BY <1>6 DEF Forward, Cancel, vars, pass
  <2>2. \A j : Follows(j)' <=> Follows(j)
    BY <2>1 DEF Follows
  <2>3. QED
    BY <1>1, <2>1, <2>2 DEF FlushInv, FlushIsSent
<1>7. QED
  BY <1>2, <1>3, <1>4, <1>5, <1>6 DEF Next, flush

\* A flush whose sends all succeeded has computed what Sent computes in one step.
THEOREM FlushComputesSent == Safe => []FlushIsSent
BY InitFlush, StepFlush, PTL DEF Safe, FlushInv

-----------------------------------------------------------------------------
(***************************************************************************)
(* What a Send makes of a box, for the specifications that take it as one  *)
(* step: no event is lost, made up or repeated.                            *)
(***************************************************************************)
\* What a box has to do with: the events handed over and those held back.
Contents(b) == ToSet(b.out) \union ToSet(b.o.held)
Size(b) == Len(b.out) + Len(b.o.held)

\* A box says started exactly when it has handed a start over, and hands no exit over
\* before.
Sound(b) ==
    /\ b.o.started <=> \E e \in ToSet(b.out) : Kind[e] = "TaskStart"
    /\ \A e \in ToSet(b.out) : Kind[e] = "TaskExit" => b.o.started

\* c has more than b in it: the events in S.
Grows(b, c, S) ==
    /\ c \in Boxes /\ Contents(c) = Contents(b) \union S
    /\ ToSet(b.out) \subseteq ToSet(c.out)
    /\ Sound(b) => Sound(c)

\* Sums of lengths, of which one grows.
LEMMA SumOne ==
    ASSUME NEW m \in Nat, NEW n \in Nat
    PROVE  m + n \in Nat /\ (m + 1) + n = (m + n) + 1 /\ m + (n + 1) = (m + n) + 1
OBVIOUS

\* What appending adds.
LEMMA AppendToSet ==
    ASSUME NEW S, NEW s \in Seq(S), NEW e \in S
    PROVE  /\ ToSet(Append(s, e)) = ToSet(s) \union {e}
           /\ Len(Append(s, e)) = Len(s) + 1 /\ Len(s) \in Nat
<1>1. /\ Len(s) \in Nat /\ Append(s, e) \in Seq(S) /\ Len(Append(s, e)) = Len(s) + 1
      /\ DOMAIN s = 1..Len(s) /\ DOMAIN Append(s, e) = 1..(Len(s) + 1)
      /\ Append(s, e)[Len(s) + 1] = e /\ \A n \in 1..Len(s) : Append(s, e)[n] = s[n]
  BY AppendProperties
<1>2. 1..(Len(s) + 1) = (1..Len(s)) \union {Len(s) + 1}
  BY <1>1
<1> DEFINE t == Append(s, e)
<1>3. ToSet(t) = {t[n] : n \in 1..Len(s)} \union {t[Len(s) + 1]}
  <2> HIDE DEF t
  <2>1. DOMAIN t = (1..Len(s)) \union {Len(s) + 1}
    BY <1>1, <1>2 DEF t
  <2>2. QED
    BY <2>1 DEF ToSet
<1>4. {t[n] : n \in 1..Len(s)} = {s[n] : n \in 1..Len(s)}
  BY <1>1
<1>5. QED
  BY <1>1, <1>3, <1>4 DEF ToSet

\* Holding touches no flag.
LEMMA HoldingStarted ==
    ASSUME NEW b \in Boxes, NEW h \in Seq(Events)
    PROVE  Holding(b, h).o.started = b.o.started
<1>1. b.o \in Outboxes /\ Holding(b, h).o = [b.o EXCEPT !.held = h]
  BY HoldingType DEF Boxes
<1>2. QED
  BY <1>1 DEF Outboxes

\* A visit adds the visited event to the box, wherever it goes.
LEMMA VisitGrows ==
    ASSUME NEW b \in Boxes, NEW e \in Events
    PROVE  Grows(b, Visit(b, e), {e}) /\ Size(Visit(b, e)) = Size(b) + 1 /\ Size(b) \in Nat
<1>1. /\ b.o \in Outboxes /\ b.out \in Seq(Events) /\ b.o.held \in Seq(Events)
      /\ Visit(b, e) \in Boxes
  BY VisitType DEF Boxes, Outboxes
<1>2. Len(b.out) \in Nat /\ Len(b.o.held) \in Nat
  BY <1>1
<1>3. CASE publishable(b.o, e)
  <2>1. Visit(b, e) = [o |-> record(b.o, e), out |-> Append(b.out, e)]
    BY <1>3 DEF Visit
  <2>2. /\ Visit(b, e).out = Append(b.out, e)
        /\ Visit(b, e).o.held = b.o.held
        /\ Visit(b, e).o.started = (b.o.started \/ Kind[e] = "TaskStart")
    BY <1>1, <2>1, RecordType
  <2>3. ToSet(Append(b.out, e)) = ToSet(b.out) \union {e} /\ Len(Append(b.out, e)) = Len(b.out) + 1
    BY <1>1, AppendToSet
  <2>4. Sound(b) => Sound(Visit(b, e))
    BY <1>3, <2>2, <2>3 DEF Sound, publishable
  <2>5. Contents(Visit(b, e)) = Contents(b) \union {e}
    BY <2>2, <2>3 DEF Contents
  <2>6. Size(Visit(b, e)) = Size(b) + 1 /\ Size(b) \in Nat
    <3>1. Len(Visit(b, e).out) = Len(b.out) + 1 /\ Len(Visit(b, e).o.held) = Len(b.o.held)
      BY <2>2, <2>3, Zenon
    <3>2. QED
      BY <1>2, <3>1, SumOne DEF Size
  <2>7. QED
    BY <1>1, <2>2, <2>3, <2>4, <2>5, <2>6 DEF Grows
<1>4. CASE ~publishable(b.o, e)
  <2>1. Append(b.o.held, e) \in Seq(Events)
    BY <1>1
  <2>2. /\ Visit(b, e).out = b.out
        /\ Visit(b, e).o.held = Append(b.o.held, e)
        /\ Visit(b, e).o.started = b.o.started
    BY <1>4, <2>1, HoldingType, HoldingStarted DEF Visit
  <2>3. /\ ToSet(Append(b.o.held, e)) = ToSet(b.o.held) \union {e}
        /\ Len(Append(b.o.held, e)) = Len(b.o.held) + 1
    BY <1>1, AppendToSet
  <2>4. Contents(Visit(b, e)) = Contents(b) \union {e}
    BY <2>2, <2>3 DEF Contents
  <2>5. Size(Visit(b, e)) = Size(b) + 1 /\ Size(b) \in Nat
    <3>1. Len(Visit(b, e).out) = Len(b.out) /\ Len(Visit(b, e).o.held) = Len(b.o.held) + 1
      BY <2>2, <2>3, Zenon
    <3>2. QED
      BY <1>2, <3>1, SumOne DEF Size
  <2>6. Sound(b) => Sound(Visit(b, e))
    BY <2>2 DEF Sound
  <2>7. QED
    BY <1>1, <2>2, <2>4, <2>5, <2>6 DEF Grows
<1>5. QED
  BY <1>3, <1>4

\* A pass visits every held event once, so it only moves events,
LEMMA PassGrows ==
    ASSUME NEW b \in Boxes
    PROVE  Grows(b, Pass(b), {}) /\ Size(Pass(b)) = Size(b)
<1> DEFINE N == Len(b.o.held)
           v == Visits(b)
           Seen(n) == {b.o.held[k] : k \in 1..n}
           Ok(n) == /\ v[n] \in Boxes
                    /\ Contents(v[n]) = ToSet(b.out) \union Seen(n)
                    /\ ToSet(b.out) \subseteq ToSet(v[n].out)
                    /\ Sound(b) => Sound(v[n])
                    /\ Size(v[n]) = Len(b.out) + n
           S == {n \in Nat : n <= N => Ok(n)}
<1>1. /\ b.o \in Outboxes /\ b.out \in Seq(Events) /\ b.o.held \in Seq(Events)
      /\ N \in Nat /\ Len(b.out) \in Nat /\ \A n \in 1..N : b.o.held[n] \in Events
  BY DEF Boxes, Outboxes
<1>2. /\ Visits(b)[0] = Holding(b, <<>>)
      /\ \A n \in 0..(N - 1) : Visits(b)[n + 1] = Visit(Visits(b)[n], b.o.held[n + 1])
  BY VisitsType
<1> HIDE DEF N
<1>3. Ok(0)
  <2>1. <<>> \in Seq(Events) /\ ToSet(<<>>) = {} /\ Len(<<>>) = 0
    BY DEF ToSet
  <2>2. /\ v[0] \in Boxes /\ v[0].out = b.out /\ v[0].o.held = <<>>
        /\ v[0].o.started = b.o.started
    <3>1. v[0] = Holding(b, <<>>)
      BY <1>2
    <3>2. <<>> \in Seq(Events)
      OBVIOUS
    <3>3. /\ Holding(b, <<>>) \in Boxes /\ Holding(b, <<>>).out = b.out
          /\ Holding(b, <<>>).o.held = <<>> /\ Holding(b, <<>>).o.started = b.o.started
      BY <3>2, HoldingType, HoldingStarted, Zenon
    <3> HIDE DEF v
    <3>4. QED
      BY <3>1, <3>3, Zenon
  <2>3. Seen(0) = {}
    OBVIOUS
  <2> HIDE DEF v, Seen
  <2>4. QED
    BY <1>1, <2>1, <2>2, <2>3 DEF Contents, Size, Sound
<1>4. ASSUME NEW n \in Nat, n \in S PROVE n + 1 \in S
  <2> SUFFICES ASSUME n + 1 <= N PROVE Ok(n + 1)
    OBVIOUS
  <2>1. n \in 0..(N - 1) /\ Ok(n) /\ b.o.held[n + 1] \in Events
    BY <1>1, <1>4
  <2>2. v[n + 1] = Visit(v[n], b.o.held[n + 1])
    BY <1>2, <2>1
  <2>3. Seen(n + 1) = Seen(n) \union {b.o.held[n + 1]}
    <3>1. 1..(n + 1) = (1..n) \union {n + 1}
      OBVIOUS
    <3>2. QED
      BY <3>1
  <2> HIDE DEF v, Seen
  <2>4. /\ Grows(v[n], v[n + 1], {b.o.held[n + 1]}) /\ Size(v[n + 1]) = Size(v[n]) + 1
    BY <2>1, <2>2, VisitGrows
  <2>5. Contents(v[n + 1]) = ToSet(b.out) \union Seen(n + 1)
    BY <2>1, <2>3, <2>4 DEF Grows
  <2>6. Size(v[n + 1]) = Len(b.out) + (n + 1)
    <3>1. Size(v[n + 1]) = (Len(b.out) + n) + 1
      BY <2>1, <2>4, Zenon
    <3>2. Len(b.out) + (n + 1) = (Len(b.out) + n) + 1
      BY <1>1, SumOne, Zenon
    <3>3. QED
      BY <3>1, <3>2, Zenon
  <2>7. QED
    BY <2>1, <2>4, <2>5, <2>6 DEF Grows
<1>5. Ok(N)
  <2>1. Nat \subseteq S
    <3> HIDE DEF S
    <3>1. 0 \in S
      BY <1>3 DEF S
    <3>2. QED
      BY <1>4, <3>1, NatInd
  <2> HIDE DEF Ok
  <2>2. QED
    BY <1>1, <2>1
<1>6. Pass(b) = v[N]
  BY DEF Pass, N
<1>7. Seen(N) = ToSet(b.o.held)
  <2>1. DOMAIN b.o.held = 1..N
    BY <1>1 DEF N
  <2>2. QED
    BY <2>1 DEF ToSet
<1> HIDE DEF v, Seen
<1>8. QED
  BY <1>5, <1>6, <1>7 DEF Grows, Contents, Size, N

\* a flush does the same several times,
LEMMA FlushGrows ==
    ASSUME NEW b \in Boxes
    PROVE  Grows(b, Flush(b), {}) /\ Size(Flush(b)) = Size(b)
<1> DEFINE N == Len(b.o.held)
           p == Passes(b)
           Ok(n) == Grows(b, p[n], {}) /\ Size(p[n]) = Size(b)
           S == {n \in Nat : n <= N => Ok(n)}
<1>1. /\ N \in Nat /\ p[0] = b
      /\ \A n \in 0..(N - 1) : p[n + 1] = Pass(p[n])
  BY PassesType
<1> HIDE DEF N, p
<1>2. 0 \in S
  BY <1>1 DEF Grows
<1>3. ASSUME NEW n \in Nat, n \in S PROVE n + 1 \in S
  <2> SUFFICES ASSUME n + 1 <= N PROVE Ok(n + 1)
    OBVIOUS
  <2>1. n \in 0..(N - 1) /\ Ok(n)
    BY <1>1, <1>3
  <2>2. Grows(p[n], p[n + 1], {}) /\ Size(p[n + 1]) = Size(p[n])
    BY <1>1, <2>1, PassGrows DEF Grows
  <2>3. QED
    BY <2>1, <2>2 DEF Grows
<1>4. Ok(N)
  <2>1. Nat \subseteq S
    <3> HIDE DEF S
    <3>1. QED
      BY <1>2, <1>3, NatInd
  <2> HIDE DEF Ok
  <2>2. QED
    BY <1>1, <2>1
<1>5. Flush(b) = p[N]
  BY DEF Flush, p, N
<1>6. QED
  BY <1>4, <1>5

\* and Send adds its own event before.
LEMMA SentGrows ==
    ASSUME NEW b \in Boxes, NEW e \in Events
    PROVE  Grows(b, Sent(b, e), {e}) /\ Size(Sent(b, e)) = Size(b) + 1
<1> DEFINE c == Holding(b, Append(b.o.held, e))
<1>1. /\ b.o \in Outboxes /\ b.out \in Seq(Events) /\ b.o.held \in Seq(Events)
      /\ Append(b.o.held, e) \in Seq(Events)
  BY DEF Boxes, Outboxes
<1>2. /\ c \in Boxes /\ c.out = b.out /\ c.o.held = Append(b.o.held, e)
      /\ c.o.started = b.o.started
  BY <1>1, HoldingType, HoldingStarted
<1>3. /\ ToSet(Append(b.o.held, e)) = ToSet(b.o.held) \union {e}
      /\ Len(Append(b.o.held, e)) = Len(b.o.held) + 1
      /\ Len(b.o.held) \in Nat /\ Len(b.out) \in Nat
  BY <1>1, AppendToSet
<1>4. Sent(b, e) = Flush(c)
  BY DEF Sent
<1> HIDE DEF c
<1>5. Grows(c, Flush(c), {}) /\ Size(Flush(c)) = Size(c)
  BY <1>2, FlushGrows
<1>6. Contents(c) = Contents(b) \union {e}
  BY <1>2, <1>3 DEF Contents
<1>7. Size(c) = Size(b) + 1
  <2>1. Len(c.out) = Len(b.out) /\ Len(c.o.held) = Len(b.o.held) + 1
    BY <1>2, <1>3, Zenon
  <2>2. QED
    BY <1>3, <2>1, SumOne DEF Size
<1>8. Sound(b) => Sound(c)
  BY <1>2 DEF Sound
<1>9. QED
  BY <1>2, <1>4, <1>5, <1>6, <1>7, <1>8 DEF Grows

\* A sequence has no repetition when it has as many elements as places.
LEMMA InjectiveCount ==
    ASSUME NEW S, NEW s \in Seq(S)
    PROVE  /\ IsFiniteSet(ToSet(s))
           /\ IsInjective(s) <=> Cardinality(ToSet(s)) = Len(s)
<1>1. /\ Len(s) \in Nat /\ DOMAIN s = 1..Len(s) /\ s = [n \in 1..Len(s) |-> s[n]]
      /\ ToSet(s) = {s[n] : n \in 1..Len(s)}
  BY DEF ToSet
<1>2. s \in [1..Len(s) -> ToSet(s)]
  BY <1>1
<1>3. s \in Surjection(1..Len(s), ToSet(s))
  BY <1>1, <1>2 DEF Surjection
<1>4. IsFiniteSet(1..Len(s)) /\ Cardinality(1..Len(s)) = Len(s)
  <2>1. 1 \in Int /\ Len(s) \in Int
    BY <1>1
  <2>2. IsFiniteSet(1..Len(s)) /\ Cardinality(1..Len(s)) = IF 1 > Len(s) THEN 0 ELSE Len(s) - 1 + 1
    BY <2>1, FS_Interval
  <2>3. QED
    BY <1>1, <2>2
<1>5. IsInjective(s) <=> s \in Injection(1..Len(s), ToSet(s))
  BY <1>1, <1>2 DEF IsInjective, Injection
<1>6. QED
  BY <1>3, <1>4, <1>5, FS_Surjection

\* An event that is new to a box in which no event is twice is not in it twice when it has
\* been sent.
LEMMA SentOnce ==
    ASSUME NEW b \in Boxes, NEW e \in Events, e \notin Contents(b),
           IsInjective(b.out \o b.o.held)
    PROVE  IsInjective(Sent(b, e).out \o Sent(b, e).o.held)
<1> DEFINE c == Sent(b, e)
           s == b.out \o b.o.held
           t == c.out \o c.o.held
<1>1. Grows(b, c, {e}) /\ Size(c) = Size(b) + 1
  BY SentGrows
<1> HIDE DEF c
<1>2. /\ c \in Boxes /\ b.out \in Seq(Events) /\ b.o.held \in Seq(Events)
      /\ c.out \in Seq(Events) /\ c.o.held \in Seq(Events)
  BY <1>1 DEF Grows, Boxes, Outboxes
<1>3. /\ s \in Seq(Events) /\ ToSet(s) = Contents(b) /\ Len(s) = Size(b)
      /\ t \in Seq(Events) /\ ToSet(t) = Contents(c) /\ Len(t) = Size(c)
  BY <1>2, ConcatToSet, ConcatProperties DEF Contents, Size
<1> HIDE DEF s, t
<1>4. IsFiniteSet(ToSet(s)) /\ Cardinality(ToSet(s)) = Len(s)
  BY <1>3, InjectiveCount DEF s
<1>5. ToSet(t) = ToSet(s) \union {e} /\ e \notin ToSet(s)
  BY <1>1, <1>3 DEF Grows
<1>6. Cardinality(ToSet(t)) = Cardinality(ToSet(s)) + 1
  BY <1>4, <1>5, FS_AddElement
<1>7. IsInjective(t)
  BY <1>1, <1>3, <1>4, <1>6, InjectiveCount
<1>8. QED
  BY <1>7 DEF t, c

\* An exit waits for its start only: a box that has handed a start over, and no delete,
\* holds none back.
Prompt(b) == b.o.started /\ ~b.o.deleted => \A x \in ToSet(b.o.held) : Kind[x] # "TaskExit"

\* Nothing is sent that would end the stream.
NoDeletes == \A x \in Events : Kind[x] # "TaskDelete"

\* What a visit does to the flags, and what it holds back.
LEMMA VisitFlags ==
    ASSUME NEW b \in Boxes, NEW e \in Events
    PROVE  LET c == Visit(b, e)
           IN  /\ b.o.deleted => c.o.deleted
               /\ NoDeletes /\ c.o.deleted => b.o.deleted
               /\ b.o.started => c.o.started
               /\ c.o.started => b.o.started \/ Kind[e] = "TaskStart"
               /\ \/ c.o.held = b.o.held
                  \/ /\ ToSet(c.o.held) = ToSet(b.o.held) \union {e}
                     /\ c.o.started = b.o.started
                     /\ ~b.o.deleted => Kind[e] # "TaskStart"
                                        /\ (b.o.started => Kind[e] # "TaskExit")
<1>1. /\ b.o \in Outboxes /\ b.out \in Seq(Events) /\ b.o.held \in Seq(Events)
  BY DEF Boxes, Outboxes
<1>2. CASE publishable(b.o, e)
  <2>1. Visit(b, e).o = record(b.o, e)
    BY <1>2 DEF Visit
  <2>2. /\ Visit(b, e).o.held = b.o.held
        /\ Visit(b, e).o.started = (b.o.started \/ Kind[e] = "TaskStart")
        /\ Visit(b, e).o.deleted = (b.o.deleted \/ Kind[e] = "TaskDelete")
    BY <1>1, <2>1, RecordType
  <2>3. QED
    BY <2>2 DEF NoDeletes
<1>3. CASE ~publishable(b.o, e)
  <2>1. Append(b.o.held, e) \in Seq(Events)
    BY <1>1
  <2>2. Visit(b, e).o = [b.o EXCEPT !.held = Append(b.o.held, e)]
    BY <1>3, <2>1, HoldingType DEF Visit
  <2>3. /\ Visit(b, e).o.held = Append(b.o.held, e) /\ Visit(b, e).o.started = b.o.started
        /\ Visit(b, e).o.deleted = b.o.deleted
    BY <1>1, <2>2 DEF Outboxes
  <2>4. ToSet(Append(b.o.held, e)) = ToSet(b.o.held) \union {e}
    BY <1>1, AppendToSet
  <2>5. ~b.o.deleted => Kind[e] \in {"TaskExit", "TaskDelete"} /\ ~(b.o.started /\ Kind[e] = "TaskExit")
    BY <1>3 DEF publishable
  <2>6. QED
    BY <2>3, <2>4, <2>5
<1>4. QED
  BY <1>2, <1>3

\* A pass from b to c: it holds no start back and, when the start was out before, no exit.
Passed(b, c) ==
    /\ b.o.deleted => c.o.deleted
    /\ NoDeletes /\ c.o.deleted => b.o.deleted
    /\ b.o.started => c.o.started
    /\ c.o.started => b.o.started \/ \E x \in ToSet(b.o.held) : Kind[x] = "TaskStart"
    /\ ~c.o.deleted => \A x \in ToSet(c.o.held) :
          Kind[x] # "TaskStart" /\ (b.o.started => Kind[x] # "TaskExit")

\* Every pass is one.
LEMMA PassFlags ==
    ASSUME NEW b \in Boxes
    PROVE  Pass(b) \in Boxes /\ Passed(b, Pass(b))
<1> DEFINE N == Len(b.o.held)
           v == Visits(b)
           Ok(n) == v[n] \in Boxes /\ Passed(b, v[n])
           S == {n \in Nat : n <= N => Ok(n)}
<1>1. /\ b.o \in Outboxes /\ b.o.held \in Seq(Events) /\ N \in Nat
      /\ \A n \in 1..N : b.o.held[n] \in Events /\ b.o.held[n] \in ToSet(b.o.held)
  BY DEF Boxes, Outboxes, ToSet
<1>2. /\ v[0] = Holding(b, <<>>)
      /\ \A n \in 0..(N - 1) : v[n + 1] = Visit(v[n], b.o.held[n + 1])
      /\ \A n \in 0..N : v[n] \in Boxes
  BY VisitsType
<1>3. Pass(b) = v[N]
  BY DEF Pass
<1> HIDE DEF N, v
<1>4. Ok(0)
  <2>1. <<>> \in Seq(Events) /\ ToSet(<<>>) = {}
    BY DEF ToSet
  <2>2. Holding(b, <<>>).o = [b.o EXCEPT !.held = <<>>]
    BY <2>1, HoldingType, Zenon
  <2>3. v[0].o = [b.o EXCEPT !.held = <<>>]
    BY <1>2, <2>2, Zenon
  <2>4. v[0].o.held = <<>> /\ v[0].o.started = b.o.started /\ v[0].o.deleted = b.o.deleted
    BY <1>1, <2>3 DEF Outboxes
  <2>5. v[0] \in Boxes
    BY <1>1, <1>2
  <2>6. QED
    BY <2>1, <2>4, <2>5 DEF Passed
<1>5. ASSUME NEW n \in Nat, n \in S PROVE n + 1 \in S
  <2> SUFFICES ASSUME n + 1 <= N PROVE Ok(n + 1)
    OBVIOUS
  <2> DEFINE e == b.o.held[n + 1]
  <2>1. /\ n \in 0..(N - 1) /\ n + 1 \in 0..N /\ Ok(n)
        /\ e \in Events /\ e \in ToSet(b.o.held)
    BY <1>1, <1>5
  <2>2. v[n + 1] = Visit(v[n], e) /\ v[n + 1] \in Boxes
    BY <1>2, <2>1
  <2> HIDE DEF e
  <2>3. /\ v[n].o.deleted => v[n + 1].o.deleted
        /\ NoDeletes /\ v[n + 1].o.deleted => v[n].o.deleted
        /\ v[n].o.started => v[n + 1].o.started
        /\ v[n + 1].o.started => v[n].o.started \/ Kind[e] = "TaskStart"
        /\ \/ v[n + 1].o.held = v[n].o.held
           \/ /\ ToSet(v[n + 1].o.held) = ToSet(v[n].o.held) \union {e}
              /\ v[n + 1].o.started = v[n].o.started
              /\ ~v[n].o.deleted => Kind[e] # "TaskStart"
                                    /\ (v[n].o.started => Kind[e] # "TaskExit")
    BY <2>1, <2>2, VisitFlags
  <2>4. Passed(b, v[n + 1])
    BY <2>1, <2>3 DEF Passed
  <2>5. QED
    BY <2>2, <2>4
<1>6. Ok(N)
  <2>1. Nat \subseteq S
    <3> HIDE DEF S
    <3>1. 0 \in S
      BY <1>4 DEF S
    <3>2. QED
      BY <1>5, <3>1, NatInd
  <2> HIDE DEF Ok
  <2>2. QED
    BY <1>1, <2>1
<1>7. QED
  BY <1>3, <1>6

\* So a flush leaves no exit behind its start: whatever pass the start went out in, there was
\* another after it, unless there was nothing else to hold back.
LEMMA FlushPrompt ==
    ASSUME NEW b \in Boxes, b.o.held # <<>>
    PROVE  /\ Prompt(Flush(b))
           /\ NoDeletes /\ Flush(b).o.deleted => b.o.deleted
<1> DEFINE N == Len(b.o.held)
           p == Passes(b)
           S == {n \in Nat : n <= N => (NoDeletes /\ p[n].o.deleted => b.o.deleted)}
<1>1. /\ N \in Nat /\ p[0] = b /\ N > 0
      /\ \A n \in 0..(N - 1) : p[n + 1] = Pass(p[n])
      /\ \A n \in 0..N : p[n] \in Boxes
  <2>1. b.o.held \in Seq(Events)
    BY DEF Boxes, Outboxes
  <2>2. N \in Nat /\ N > 0
    BY <2>1, EmptySeq
  <2>3. QED
    BY <2>2, PassesType
<1>2. Flush(b) = p[N]
  BY DEF Flush
<1> HIDE DEF N, p
<1>3. \A n \in 0..(N - 1) : Passed(p[n], p[n + 1]) /\ p[n] \in Boxes /\ n \in 0..N
  BY <1>1, PassFlags
<1>4. NoDeletes /\ p[N].o.deleted => b.o.deleted
  <2>1. 0 \in S
    BY <1>1
  <2>2. ASSUME NEW n \in Nat, n \in S PROVE n + 1 \in S
    BY <1>1, <1>3, <2>2 DEF Passed
  <2>3. Nat \subseteq S
    <3> HIDE DEF S
    <3>1. QED
      BY <2>1, <2>2, NatInd
  <2>4. QED
    BY <1>1, <2>3
<1>5. Prompt(p[N])
  <2> SUFFICES ASSUME p[N].o.started, ~p[N].o.deleted
               PROVE  \A x \in ToSet(p[N].o.held) : Kind[x] # "TaskExit"
    BY DEF Prompt
  <2>1. PICK m \in 0..(N - 1) : N = m + 1
    BY <1>1
  <2>2. Passed(p[m], p[N])
    BY <1>3, <2>1
  <2>3. CASE p[m].o.started
    BY <2>2, <2>3 DEF Passed
  <2>4. CASE ~p[m].o.started /\ m > 0
    <3>1. PICK k \in 0..(N - 1) : m = k + 1
      BY <1>1, <2>1, <2>4
    <3>2. Passed(p[k], p[m])
      BY <1>3, <3>1
    <3>3. QED
      BY <2>2, <2>4, <3>2 DEF Passed
  <2>5. CASE ~b.o.started /\ m = 0
    <3> DEFINE e == b.o.held[1]
    <3>1. N = 1 /\ p[N] = Pass(b)
      BY <1>1, <2>1, <2>5
    <3>2. b.o.held \in Seq(Events) /\ Len(b.o.held) = 1 /\ e \in Events
      BY <3>1 DEF Boxes, Outboxes, N
    <3>3. /\ Visits(b)[0] = Holding(b, <<>>) /\ Visits(b)[0] \in Boxes
          /\ Visits(b)[1] = Visit(Visits(b)[0], e)
      <4>1. /\ Visits(b)[0] = Holding(b, <<>>)
            /\ \A n \in 0..(1 - 1) : Visits(b)[n + 1] = Visit(Visits(b)[n], b.o.held[n + 1])
            /\ \A n \in 0..1 : Visits(b)[n] \in Boxes
        BY <3>2, VisitsType
      <4>2. QED
        BY <4>1
    <3>4. Pass(b) = Visits(b)[1]
      BY <3>2 DEF Pass
    <3> HIDE DEF e
    <3>5. <<>> \in Seq(Events) /\ ToSet(<<>>) = {}
      BY DEF ToSet
    <3>6. Visits(b)[0].o.held = <<>> /\ Visits(b)[0].o.started = b.o.started
      <4>1. Holding(b, <<>>).o.held = <<>> /\ Holding(b, <<>>).o.started = b.o.started
        BY <3>5, HoldingType, HoldingStarted, Zenon
      <4>2. QED
        BY <3>3, <4>1, Zenon
    <3>7. p[N].o.held = <<>>
      BY <2>5, <3>1, <3>2, <3>3, <3>4, <3>6, VisitFlags
    <3>8. QED
      BY <3>5, <3>7
  <2>6. QED
    BY <1>1, <2>1, <2>3, <2>4, <2>5
<1>6. QED
  BY <1>2, <1>4, <1>5

\* Send leaves none behind either.
LEMMA SentPrompt ==
    ASSUME NEW b \in Boxes, NEW e \in Events
    PROVE  /\ Prompt(Sent(b, e))
           /\ NoDeletes /\ Sent(b, e).o.deleted => b.o.deleted
<1> DEFINE c == Holding(b, Append(b.o.held, e))
<1>1. b.o \in Outboxes /\ b.o.held \in Seq(Events)
  BY DEF Boxes, Outboxes
<1>2. Append(b.o.held, e) \in Seq(Events) /\ Append(b.o.held, e) # <<>>
  BY <1>1, AppendProperties
<1>3. c \in Boxes /\ c.o = [b.o EXCEPT !.held = Append(b.o.held, e)]
  BY <1>2, HoldingType
<1>4. c.o.held # <<>> /\ c.o.deleted = b.o.deleted
  BY <1>1, <1>2, <1>3 DEF Outboxes
<1>5. Sent(b, e) = Flush(c)
  BY DEF Sent
<1> HIDE DEF c
<1>6. QED
  BY <1>3, <1>4, <1>5, FlushPrompt
=============================================================================
