------------------------------ MODULE MCProcess ------------------------------
EXTENDS Process

\* Observations as they come: a running unit, the leading dead event, a clean exit
\* with its time, a non-zero exit read without one, the helper's failure, the
\* synthetic failure, and a refinement that still says running.
Obs(at, code, pid, status) ==
    [exitedAt |-> at, exitCode |-> code, pid |-> pid, status |-> status]

MCObservations ==
    {Obs(0, 0, 1, "running"), Obs(0, 0, 0, "dead"), Obs(1, 0, 1, "exited"),
     Obs(0, 1, 0, "failed"), Obs(1, 1, 2, exitedInit), Obs(2, 2, 0, "failed"),
     Obs(0, 3, 1, "running"), Obs(0, 0, 1, ""), Obs(0, 0, 1, "other")}
=============================================================================
