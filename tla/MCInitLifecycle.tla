--------------------------- MODULE MCInitLifecycle ---------------------------
(***************************************************************************)
(* The circumstances under which InitLifecycle is checked.                 *)
(***************************************************************************)
EXTENDS InitLifecycle

Scenario(callers, checkpoint, faults) ==
    [callers |-> callers, checkpoint |-> checkpoint, order |-> "created",
     faults |-> faults]

\* Two Starts against a Delete, a Wait beside a Start and a Delete, failing calls with
\* lost replies under one call after the other, also for a checkpoint, a workload that
\* dies during its hand-off, and a checkpoint whose Start, which makes the unit, meets a
\* Delete.
SafetyScenarios ==
    {Scenario({"s1", "s2", "d1"}, FALSE, {}),
     Scenario({"s1", "d1", "w1", "kill"}, FALSE, {}),
     [Scenario({"s1", "d1"}, FALSE, {"bus", "crash"}) EXCEPT !.order = "serial"],
     [Scenario({"s1", "d1"}, TRUE, {"bus"}) EXCEPT !.order = "serial"],
     Scenario({"s1", "d1"}, FALSE, {"handoff"}),
     Scenario({"s1", "d1"}, TRUE, {"crash"})}

\* A helper that dies silently under a Wait, alone, with Start and with Delete; a
\* workload that dies during its hand-off while somebody waits; a Delete whose read of
\* the live unit fails, so that it kills it and sleeps until the exit is recorded; a
\* Create that knows no pid, so that Start polls for one.
LivenessScenarios ==
    {Scenario({"w1"}, FALSE, {"crash"}),
     Scenario({"s1", "w1"}, FALSE, {"crash"}),
     Scenario({"d1", "w1"}, FALSE, {"crash"}),
     Scenario({"w1"}, FALSE, {"handoff"}),
     Scenario({"s1", "d1"}, FALSE, {"reads"}),
     Scenario({"s1"}, FALSE, {"reply"})}

\* Start and Delete, nothing failing.
PlainScenario == {Scenario({"s1", "d1"}, FALSE, {})}

\* The same, called while Create is still running.
EarlyScenario == {[Scenario({"s1", "d1"}, FALSE, {}) EXCEPT !.order = "early"]}
=============================================================================
