------------------------------ MODULE OutboxOps ------------------------------
(***************************************************************************)
(* The outbox of one process (eventOutbox in events.go) as data: what      *)
(* containerd has been told, the events still held, and what a Send that   *)
(* is not disturbed makes of them.                                         *)
(*                                                                         *)
(* TaskExecAdded and TaskExecStarted play the parts of TaskCreate and      *)
(* TaskStart for an exec; no other kind is ever sent by the shim.          *)
(***************************************************************************)
EXTENDS Naturals, SequencesExt

CONSTANTS Events,  \* the events handed to one outbox
          Kind     \* the kind of each

Kinds == {"TaskCreate", "TaskStart", "TaskExit", "TaskDelete"}

ASSUME KindType == Kind \in [Events -> Kinds]

Outboxes == [known : BOOLEAN, started : BOOLEAN, deleted : BOOLEAN,
             held : Seq(Events)]

newEventOutbox == [known |-> FALSE, started |-> FALSE, deleted |-> FALSE,
                   held |-> <<>>]

\* Mutant of publishable: the exit is not held back until the start.
publishableUnordered(o, e) == /\ ~o.deleted
                              /\ Kind[e] = "TaskDelete" => o.known

publishable(o, e) == /\ ~o.deleted
                     /\ Kind[e] = "TaskExit" => o.started
                     /\ Kind[e] = "TaskDelete" => o.known

record(o, e) == [o EXCEPT !.known   = @ \/ Kind[e] = "TaskCreate",
                          !.started = @ \/ Kind[e] = "TaskStart",
                          !.deleted = @ \/ Kind[e] = "TaskDelete"]

-----------------------------------------------------------------------------
(***************************************************************************)
(* flush with every send succeeding.  A pass takes the held events oldest  *)
(* first, publishing or keeping each; passes repeat until one publishes    *)
(* nothing, which takes at most one pass per held event.  A box pairs the  *)
(* outbox with what has been handed to Forward.                            *)
(***************************************************************************)
Boxes == [o : Outboxes, out : Seq(Events)]

Holding(b, held) == [o |-> [b.o EXCEPT !.held = held], out |-> b.out]

Visit(b, e) ==
    IF publishable(b.o, e)
    THEN [o |-> record(b.o, e), out |-> Append(b.out, e)]
    ELSE Holding(b, Append(b.o.held, e))

\* The box after n visits of a pass, and after n passes.
Visits(b) ==
    LET after[n \in 0..Len(b.o.held)] ==
            IF n = 0 THEN Holding(b, <<>>)
                     ELSE Visit(after[n - 1], b.o.held[n])
    IN  after

Pass(b) == Visits(b)[Len(b.o.held)]

Passes(b) ==
    LET after[n \in 0..Len(b.o.held)] == IF n = 0 THEN b ELSE Pass(after[n - 1])
    IN  after

Flush(b) == Passes(b)[Len(b.o.held)]

\* Send of e by the only goroutine in the outbox.
Sent(b, e) == Flush(Holding(b, Append(b.o.held, e)))
=============================================================================
