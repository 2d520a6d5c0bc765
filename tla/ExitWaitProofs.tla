--------------------------- MODULE ExitWaitProofs ---------------------------
(***************************************************************************)
(* Proofs about ExitWait, for any number of Wait and Delete calls.         *)
(***************************************************************************)
EXTENDS ExitWait, TLAPS

\* p.mu is held by the call that is between its two checks, and by no other.
MutexHeld == \A c \in Calls : pc[c] \in {"ctx", "state"} <=> mu = c

IInv == TypeOK /\ MutexHeld /\ NoMissedExit

\* Before any call waits, the invariant holds.
LEMMA InitInv == Init => IInv
BY NoCallFresh DEF Init, IInv, TypeOK, MutexHeld, NoMissedExit, Asleep, Calls

\* Broadcast leaves nobody asleep and moves only sleepers.
LEMMA BroadcastWakes ==
    ASSUME TypeOK, Broadcast
    PROVE  /\ pc' \in [Calls -> {"new", "ctx", "state", "asleep", "woken"}
                                \union Returned]
           /\ Asleep' = {}
           /\ \A c \in Calls : pc'[c] \in {"ctx", "state"}
                               <=> pc[c] \in {"ctx", "state"}
BY DEF TypeOK, Broadcast, Asleep

\* No step of waitForExit, of its cancellation or of a broadcaster breaks the invariant.
LEMMA StepInv == IInv /\ [Next]_vars => IInv'
<1> SUFFICES ASSUME IInv, [Next]_vars PROVE IInv'
  OBVIOUS
<1>1. TypeOK
  BY DEF IInv
<1>2. CASE applyState \/ advance
  <2>1. UNCHANGED <<mu, over, watching>> /\ {exited', deleted'} \subseteq BOOLEAN
    BY <1>1, <1>2 DEF applyState, advance, TypeOK
  <2>2. Broadcast
    BY <1>2 DEF applyState, advance
  <2>3. QED
    BY <1>1, <2>1, <2>2, BroadcastWakes DEF IInv, TypeOK, MutexHeld, NoMissedExit
<1>3. ASSUME NEW c \in Calls, Acquire(c) PROVE IInv'
  <2>1. TypeOK'
    BY <1>1, <1>3 DEF Acquire, TypeOK
  <2>2. MutexHeld'
    BY <1>1, <1>3, NoCallFresh DEF Acquire, IInv, MutexHeld, TypeOK, Calls
  <2>3. NoMissedExit'
    BY <1>1, <1>3 DEF Acquire, IInv, NoMissedExit, TypeOK, Asleep
  <2>4. QED
    BY <2>1, <2>2, <2>3 DEF IInv
<1>4. ASSUME NEW c \in Calls, CheckContext(c) PROVE IInv'
  <2>1. TypeOK'
    BY <1>1, <1>4 DEF CheckContext, Return, TypeOK, Returned
  <2>2. MutexHeld'
    BY <1>1, <1>4, NoCallFresh
       DEF CheckContext, Return, IInv, MutexHeld, TypeOK, Calls
  <2>3. NoMissedExit'
    BY <1>1, <1>4 DEF CheckContext, Return, IInv, NoMissedExit, TypeOK, Asleep
  <2>4. QED
    BY <2>1, <2>2, <2>3 DEF IInv
<1>5. ASSUME NEW c \in Calls, CheckState(c) PROVE IInv'
  <2>1. TypeOK'
    BY <1>1, <1>5 DEF CheckState, Return, TypeOK, Returned
  <2>2. MutexHeld'
    BY <1>1, <1>5, NoCallFresh
       DEF CheckState, Return, IInv, MutexHeld, TypeOK, Calls
  <2>3. NoMissedExit'
    BY <1>1, <1>5 DEF CheckState, Return, IInv, NoMissedExit, TypeOK, Asleep
  <2>4. QED
    BY <2>1, <2>2, <2>3 DEF IInv
<1>6. ASSUME NEW c \in Calls, Cancel(c) PROVE IInv'
  BY <1>1, <1>6 DEF Cancel, IInv, TypeOK, MutexHeld, NoMissedExit, Asleep
<1>7. ASSUME NEW c \in Calls, Watch(c) PROVE IInv'
  <2>1. /\ UNCHANGED <<exited, deleted, mu, over>> /\ Broadcast
        /\ watching' = watching \ {c}
    BY <1>7 DEF Watch
  <2>2. QED
    BY <1>1, <2>1, BroadcastWakes DEF IInv, TypeOK, MutexHeld, NoMissedExit
<1>8. CASE UNCHANGED vars
  BY <1>8 DEF vars, IInv, TypeOK, MutexHeld, NoMissedExit, Asleep
<1>9. QED
  BY <1>2, <1>3, <1>4, <1>5, <1>6, <1>7, <1>8 DEF Next, waitForExit

\* The variables of the wait loop keep their types.
THEOREM TypeCorrect == Safe => []TypeOK
BY InitInv, StepInv, PTL DEF Safe, IInv

\* No call sleeps on a process that has exited or was deleted (wait.go:97-115),
\* although the broadcasts of Wait's goroutines come without p.mu.
THEOREM ExitIsNotMissed == Safe => []NoMissedExit
BY InitInv, StepInv, PTL DEF Safe, IInv

\* At most one call is between its checks: waitForExit runs under p.mu.
THEOREM WaitIsLocked == Safe => []MutexHeld
BY InitInv, StepInv, PTL DEF Safe, IInv
=============================================================================
