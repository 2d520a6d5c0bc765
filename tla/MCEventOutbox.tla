---------------------------- MODULE MCEventOutbox ----------------------------
EXTENDS EventOutbox

\* One of each event: every process sends each of its events at most once.
MCKind == [e \in Kinds |-> e]
=============================================================================
