----------------------------- MODULE EventOutbox -----------------------------
(***************************************************************************)
(* eventOutbox.Send step by step.  One goroutine per event calls Send; o.mu *)
(* is held across the whole flush, whose channel sends may block on a full  *)
(* queue and give up (eventPublishTimeout, or the shim's own context).      *)
(* Forward drains the queue at the other end.                               *)
(***************************************************************************)
EXTENDS OutboxOps

CONSTANTS NoEvent,  \* o.mu is free
          Capacity  \* of the channel s.events (128 in newServiceWithConfig)

ASSUME NoEventFresh == NoEvent \notin Events
ASSUME CapacityPositive == Capacity \in Nat \ {0}

VARIABLES o,        \* the outbox; o.held is replaced at the end of each pass
          mu,       \* the event whose Send holds o.mu, or NoEvent
          pc,       \* "new", "flushing" or "returned", for the Send of each event
          i,        \* the pass: index of the next held event,
          kept,     \*           what it keeps,
          sent,     \*           and whether it published anything
          queued,   \* number of events in the channel s.events
          cancelled, \* publishCtx is done: the shim is shutting down
          handed,   \* history: events handed over to Forward, in order
          accepted, \* history: events in the order in which Send took them
          entry,    \* history: the outbox and handed as the flush found them
          stalled   \* history: the last flush ended in a failed send

pass == <<i, kept, sent>>
vars == <<o, mu, pc, pass, queued, cancelled, handed, accepted, entry, stalled>>

Init == /\ o = newEventOutbox
        /\ mu = NoEvent
        /\ pc = [e \in Events |-> "new"]
        /\ i = 1 /\ kept = <<>> /\ sent = FALSE
        /\ queued = 0
        /\ cancelled = FALSE
        /\ handed = <<>>
        /\ accepted = <<>>
        /\ entry = [o |-> newEventOutbox, out |-> <<>>]
        /\ stalled = FALSE

StartPass == i' = 1 /\ kept' = <<>> /\ sent' = FALSE

\* Send takes o.mu, appends its event and enters flush.
Lock(e) == /\ mu = NoEvent
           /\ pc[e] = "new"
           /\ mu' = e
           /\ pc' = [pc EXCEPT ![e] = "flushing"]
           /\ o' = [o EXCEPT !.held = Append(@, e)]
           /\ entry' = [o |-> o', out |-> handed]
           /\ accepted' = Append(accepted, e)
           /\ StartPass
           /\ UNCHANGED <<queued, cancelled, handed, stalled>>

Scanning == mu # NoEvent /\ i <= Len(o.held)

\* Mutant of Deliver: the full channel is not waited for.
DeliverUnbounded == /\ Scanning
                    /\ publishable(o, o.held[i])
                    /\ queued' = queued + 1
                    /\ handed' = Append(handed, o.held[i])
                    /\ o' = record(o, o.held[i])
                    /\ sent' = TRUE
                    /\ i' = i + 1
                    /\ UNCHANGED <<mu, pc, kept, cancelled, accepted, entry, stalled>>

\* Mutant of Keep: what cannot be published is dropped.
KeepNothing == /\ Scanning
               /\ ~publishable(o, o.held[i])
               /\ i' = i + 1
               /\ UNCHANGED <<o, mu, pc, kept, sent, queued, cancelled, handed,
                              accepted, entry, stalled>>

\* The next held event is not publishable yet.
Keep == /\ Scanning
        /\ ~publishable(o, o.held[i])
        /\ kept' = Append(kept, o.held[i])
        /\ i' = i + 1
        /\ UNCHANGED <<o, mu, pc, sent, queued, cancelled, handed, accepted,
                       entry, stalled>>

\* The next held event is publishable and the channel takes it.
Deliver == /\ Scanning
           /\ publishable(o, o.held[i])
           /\ queued < Capacity
           /\ queued' = queued + 1
           /\ handed' = Append(handed, o.held[i])
           /\ o' = record(o, o.held[i])
           /\ sent' = TRUE
           /\ i' = i + 1
           /\ UNCHANGED <<mu, pc, kept, cancelled, accepted, entry, stalled>>

Return == /\ mu' = NoEvent
          /\ pc' = [pc EXCEPT ![mu] = "returned"]

\* Mutant of Stall: what was kept is put behind what was not visited.
StallReorders == /\ Scanning
                 /\ publishable(o, o.held[i])
                 /\ queued = Capacity \/ cancelled
                 /\ o' = [o EXCEPT !.held = SubSeq(@, i + 1, Len(@)) \o kept
                                            \o <<@[i]>>]
                 /\ stalled' = TRUE
                 /\ Return
                 /\ UNCHANGED <<pass, queued, cancelled, handed, accepted, entry>>

\* Mutant of Stall: the slice starts behind the event that could not be sent.
StallLoses == /\ Scanning
              /\ publishable(o, o.held[i])
              /\ queued = Capacity \/ cancelled
              /\ o' = [o EXCEPT !.held = kept \o SubSeq(@, i + 1, Len(@))]
              /\ stalled' = TRUE
              /\ Return
              /\ UNCHANGED <<pass, queued, cancelled, handed, accepted, entry>>

\* The send gives up: its event and all behind it stay held, and flush returns.
Stall == /\ Scanning
         /\ publishable(o, o.held[i])
         /\ queued = Capacity \/ cancelled
         /\ o' = [o EXCEPT !.held = kept \o SubSeq(@, i, Len(@))]
         /\ stalled' = TRUE
         /\ Return
         /\ UNCHANGED <<pass, queued, cancelled, handed, accepted, entry>>

\* Mutant of EndPass: another pass for as long as anything is held.
EndPassNever == /\ mu # NoEvent /\ i > Len(o.held)
                /\ o' = [o EXCEPT !.held = kept]
                /\ IF sent \/ kept # <<>>
                   THEN StartPass /\ UNCHANGED <<mu, pc, stalled>>
                   ELSE Return /\ stalled' = FALSE /\ UNCHANGED pass
                /\ UNCHANGED <<queued, cancelled, handed, accepted, entry>>

\* A pass is over: another one if it published something, else Send returns.
EndPass == /\ mu # NoEvent /\ i > Len(o.held)
           /\ o' = [o EXCEPT !.held = kept]
           /\ IF sent THEN StartPass /\ UNCHANGED <<mu, pc, stalled>>
                      ELSE Return /\ stalled' = FALSE /\ UNCHANGED pass
           /\ UNCHANGED <<queued, cancelled, handed, accepted, entry>>

\* Forward takes an envelope out of the channel.  Whether Publish succeeds or its
\* error is only logged, the slot is free again.
Forward == /\ queued > 0
           /\ queued' = queued - 1
           /\ UNCHANGED <<o, mu, pc, pass, cancelled, handed, accepted, entry,
                          stalled>>

\* The shim's context ends.
Cancel == /\ ~cancelled
          /\ cancelled' = TRUE
          /\ UNCHANGED <<o, mu, pc, pass, queued, handed, accepted, entry,
                         stalled>>

flush == Keep \/ Deliver \/ Stall \/ EndPass

Next == \/ \E e \in Events : Lock(e)
        \/ flush
        \/ Forward
        \/ Cancel

\* The goroutine in the critical section runs on; a full channel ends its wait one
\* way or the other.  Nobody has to call Send and Forward may be wedged.
Fairness == WF_vars(flush)

Safe == Init /\ [][Next]_vars
Spec == Safe /\ Fairness

-----------------------------------------------------------------------------
\* The type of every variable.
TypeOK == /\ o \in Outboxes
          /\ mu \in Events \union {NoEvent}
          /\ pc \in [Events -> {"new", "flushing", "returned"}]
          /\ i \in Nat \ {0}
          /\ kept \in Seq(Events)
          /\ sent \in BOOLEAN
          /\ queued \in 0..Capacity
          /\ cancelled \in BOOLEAN
          /\ handed \in Seq(Events)
          /\ accepted \in Seq(Events)
          /\ entry \in [o : Outboxes, out : Seq(Events)]
          /\ stalled \in BOOLEAN

Before(s, e, f) == \E m, n \in 1..Len(s) : m < n /\ s[m] = e /\ s[n] = f

\* The stream makes sense to containerd (events.go:67-70): an exit follows a start,
\* a delete follows a create, and nothing follows a delete.
StreamMakesSense ==
    \A n \in 1..Len(handed) :
        /\ Kind[handed[n]] = "TaskExit" =>
               \E m \in 1..(n - 1) : Kind[handed[m]] = "TaskStart"
        /\ Kind[handed[n]] = "TaskDelete" =>
               \E m \in 1..(n - 1) : Kind[handed[m]] = "TaskCreate"
        /\ Kind[handed[n]] = "TaskDelete" => n = Len(handed)

\* What a flush in progress still has to place: the part of o.held it has not
\* visited, behind what it keeps.
Unplaced == IF mu = NoEvent THEN o.held
                            ELSE kept \o SubSeq(o.held, i, Len(o.held))

\* Send neither loses nor repeats an event (events.go:110, 154, 161): each accepted
\* one is handed over once or still held, also when a send failed in mid-pass.
NoLossNoRepeat ==
    /\ IsInjective(handed \o Unplaced)
    /\ ToSet(handed \o Unplaced) = ToSet(accepted)

\* TaskCreate and TaskStart have no precondition, so nothing that Send accepted
\* after one of them reaches containerd before it, whatever sends failed.
NoOvertaking ==
    \A e \in ToSet(accepted), f \in ToSet(handed) :
        /\ Kind[e] \in {"TaskCreate", "TaskStart"}
        /\ Before(accepted, e, f)
        => Before(handed, e, f)

\* A flush whose sends all succeeded computes what Sent says, so a Send may be taken
\* as one atomic step by a model that has no stalls.
FlushIsSent ==
    mu = NoEvent /\ ~stalled => [o |-> o, out |-> handed] = Flush(entry)

\* Send returns (its wait is bounded, events.go:90-92): no flush goes on for ever.
SendReturns == \A e \in Events : pc[e] = "flushing" ~> pc[e] = "returned"
=============================================================================
