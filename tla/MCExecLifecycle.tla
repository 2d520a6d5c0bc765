--------------------------- MODULE MCExecLifecycle ---------------------------
(***************************************************************************)
(* The circumstances under which ExecLifecycle is checked.                 *)
(***************************************************************************)
EXTENDS ExecLifecycle

Scenario(callers, shared, ordered, faults) ==
    [callers |-> callers, shared |-> shared, ordered |-> ordered, faults |-> faults]

\* A client that starts and then deletes the exec while the container starts and dies,
\* with a pid namespace of its own or without; the two calls racing each other,
\* undisturbed, with StartTransientUnit's reply lost, and with calls that fail; a
\* container that dies while calls fail; and the deletion of the container racing a
\* Start, with or without a Delete after it.
OneStart ==
    {Scenario({"s1", "d1", "parent", "init"}, FALSE, TRUE, {}),
     Scenario({"s1", "d1", "parent", "init"}, TRUE, TRUE, {}),
     Scenario({"s1", "d1"}, FALSE, FALSE, {}),
     Scenario({"s1", "d1"}, FALSE, FALSE, {"reply"}),
     Scenario({"s1", "d1"}, FALSE, FALSE, {"bus", "crash"}),
     Scenario({"s1", "init"}, TRUE, FALSE, {"bus"}),
     Scenario({"s1", "init", "container"}, TRUE, FALSE, {}),
     Scenario({"s1", "d1", "init", "container"}, FALSE, TRUE, {})}

\* A second Start while the first is under way, or after it.
TwoStarts == {Scenario({"s1", "s2"}, FALSE, TRUE, {})}
=============================================================================
