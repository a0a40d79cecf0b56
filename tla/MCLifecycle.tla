----------------------------- MODULE MCLifecycle -----------------------------
\* Small instances of LifecycleOperations for TLC.
EXTENDS LifecycleOperations
L1 == [ops |-> 1, asks |-> {"prepared"}, terminal |-> {}, supervised |-> FALSE, attempts |-> 2, faults |-> 1]
L2 == [ops |-> 1, asks |-> {"archive"}, terminal |-> {}, supervised |-> TRUE, attempts |-> 1, faults |-> 1]
L3 == [ops |-> 2, asks |-> {"delete"}, terminal |-> {"delete", "create"}, supervised |-> FALSE, attempts |-> 1, faults |-> 0]
L4 == [ops |-> 2, asks |-> {"revive"}, terminal |-> {"archive"}, supervised |-> FALSE, attempts |-> 1, faults |-> 0]
L5 == [ops |-> 2, asks |-> {"archive"}, terminal |-> {"archive"}, supervised |-> FALSE, attempts |-> 1, faults |-> 0]
L6 == [ops |-> 2, asks |-> {"prepared"}, terminal |-> {"archive"}, supervised |-> FALSE, attempts |-> 1, faults |-> 1]
MCResume == {L6}
MCCasts == {L1, L2, L3, L4, L5}
=============================================================================
