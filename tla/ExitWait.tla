------------------------------ MODULE ExitWait ------------------------------
(***************************************************************************)
(* waitForExit and Wait (wait.go): calls that sleep on the condition       *)
(* variable of a process until it has exited, was deleted, or their        *)
(* context is over.  The critical sections of p.mu are taken apart here,   *)
(* because the goroutine Wait starts calls Broadcast without p.mu.         *)
(*                                                                         *)
(* A call is new, at "ctx" or "state" (holding p.mu, about to look at its  *)
(* context or at the process), asleep in cond.Wait, woken but without      *)
(* p.mu, or done ("exited" or "cancelled").                                *)
(***************************************************************************)
EXTENDS FiniteSets

CONSTANTS Waits,    \* Service.Wait calls, each with its goroutine
          Deletes,  \* Delete calls, which use waitForExit without one
          NoCall    \* p.mu is free

ASSUME CallsDisjoint == Waits \cap Deletes = {}
ASSUME NoCallFresh == NoCall \notin Waits \union Deletes

VARIABLES exited, deleted,  \* p.state.Exited(), p.phase == phaseDeleted
          mu,               \* the call that holds p.mu
          pc,               \* where each call is
          over,             \* calls whose context is done
          watching          \* Waits whose goroutine has not broadcast yet

vars == <<exited, deleted, mu, pc, over, watching>>

Calls == Waits \union Deletes
Asleep == {c \in Calls : pc[c] = "asleep"}
Returned == {"exited", "cancelled"}

Init == /\ exited = FALSE /\ deleted = FALSE
        /\ mu = NoCall
        /\ pc = [c \in Calls |-> "new"]
        /\ over = {}
        /\ watching = {}

\* cond.Broadcast wakes the calls that are asleep at that moment, and no other.
Broadcast == pc' = [c \in Calls |-> IF c \in Asleep THEN "woken" ELSE pc[c]]

\* Mutant of applyState: no broadcast.
applyStateSilently == /\ mu = NoCall /\ ~exited
                      /\ exited' = TRUE
                      /\ UNCHANGED <<deleted, mu, pc, over, watching>>

\* Mutant of advance: no broadcast.
advanceSilently == /\ mu = NoCall /\ ~deleted
                   /\ deleted' = TRUE
                   /\ UNCHANGED <<exited, mu, pc, over, watching>>

\* applyState merges a terminal observation and broadcasts, under p.mu ...
applyState == /\ mu = NoCall /\ ~exited
              /\ exited' = TRUE
              /\ Broadcast
              /\ UNCHANGED <<deleted, mu, over, watching>>

\* ... and so does advance, here into phaseDeleted.
advance == /\ mu = NoCall /\ ~deleted
           /\ deleted' = TRUE
           /\ Broadcast
           /\ UNCHANGED <<exited, mu, over, watching>>

\* The loop begins: at entry, or as cond.Wait returns, p.mu is acquired.
Acquire(c) == /\ mu = NoCall
              /\ pc[c] \in {"new", "woken"}
              /\ mu' = c
              /\ pc' = [pc EXCEPT ![c] = "ctx"]
              /\ watching' = IF pc[c] = "new" /\ c \in Waits
                             THEN watching \union {c} ELSE watching
              /\ UNCHANGED <<exited, deleted, over>>

\* A return releases p.mu and, in Wait, cancels ctx2.
Return(c, how) == /\ mu' = NoCall
                  /\ pc' = [pc EXCEPT ![c] = how]
                  /\ over' = over \union {c}
                  /\ UNCHANGED <<exited, deleted, watching>>

\* The select on ctx.Done.
CheckContext(c) == /\ pc[c] = "ctx"
                   /\ IF c \in over
                      THEN Return(c, "cancelled")
                      ELSE /\ pc' = [pc EXCEPT ![c] = "state"]
                           /\ UNCHANGED <<exited, deleted, mu, over, watching>>

\* The phase and the state; cond.Wait joins the sleepers before it gives up p.mu.
CheckState(c) == /\ pc[c] = "state"
                 /\ IF deleted \/ exited
                    THEN Return(c, "exited")
                    ELSE /\ pc' = [pc EXCEPT ![c] = "asleep"]
                         /\ mu' = NoCall
                         /\ UNCHANGED <<exited, deleted, over, watching>>

waitForExit(c) == Acquire(c) \/ CheckContext(c) \/ CheckState(c)

\* The client gives up.
Cancel(c) == /\ pc[c] \notin Returned \union {"new"}
             /\ c \notin over
             /\ over' = over \union {c}
             /\ UNCHANGED <<exited, deleted, mu, pc, watching>>

\* The goroutine of Wait: ctx2 is done, by cancellation or by return.  It does not
\* take p.mu, so a call may be anywhere between its checks and its sleep.
Watch(c) == /\ c \in watching /\ c \in over
            /\ watching' = watching \ {c}
            /\ Broadcast
            /\ UNCHANGED <<exited, deleted, mu, over>>

Next == \/ applyState \/ advance
        \/ \E c \in Calls : waitForExit(c) \/ Cancel(c) \/ Watch(c)

\* A goroutine that can run does; sync.Mutex hands p.mu to a starving waiter, so
\* acquiring it is strongly fair.  No process has to exit and no client to give up.
Fairness == /\ \A c \in Calls : /\ SF_vars(Acquire(c))
                                /\ WF_vars(CheckContext(c) \/ CheckState(c))
            /\ \A c \in Waits : WF_vars(Watch(c))

Safe == Init /\ [][Next]_vars
Spec == Safe /\ Fairness

-----------------------------------------------------------------------------
\* The type of every variable.
TypeOK == /\ {exited, deleted} \subseteq BOOLEAN
          /\ mu \in Calls \union {NoCall}
          /\ pc \in [Calls -> {"new", "ctx", "state", "asleep", "woken"}
                              \union Returned]
          /\ over \in SUBSET Calls
          /\ watching \in SUBSET Waits

\* No missed exit (process.go:273, 384 and wait.go:97-115): nobody is asleep once
\* the process has exited or was deleted, wherever in its loop a call was when it
\* happened.
NoMissedExit == exited \/ deleted => Asleep = {}

\* Every call that waits returns after the exit or the delete.
ExitReturns == \A c \in Calls :
    (pc[c] # "new" /\ (exited \/ deleted)) ~> pc[c] \in Returned

\* A Wait whose client has gone returns (wait.go:128-130: "wake up the wait loop so
\* it can exit ... It's more impportant to unblock API calls that are cancelled").
CancelReturns == \A c \in Waits :
    (pc[c] # "new" /\ c \in over) ~> pc[c] \in Returned
=============================================================================
