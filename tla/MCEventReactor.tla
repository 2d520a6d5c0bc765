--------------------------- MODULE MCEventReactor ---------------------------
EXTENDS EventReactor

\* Lost connections and failing reads while the shim serves, one failure more than
\* the retries cover; and a shutdown, with one connection lost before or during it.
MCBudgets == {[downs |-> 2, faults |-> 2, stops |-> 0],
              [downs |-> 1, faults |-> 0, stops |-> 2]}
=============================================================================
