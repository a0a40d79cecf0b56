------------------------- MODULE MCProgressObserver -------------------------
\* Small instances of ProgressObserver for TLC.
EXTENDS ProgressObserver
Cast == [does |-> {}, checks |-> 2, faults |-> 1]
P1 == [Cast EXCEPT !.does = {"idle"}, !.checks = 3]
P2 == [Cast EXCEPT !.does = {"team"}]
P3 == [Cast EXCEPT !.does = {"manual", "queue"}]
P4 == [Cast EXCEPT !.does = {"pause"}, !.faults = 2]
P5 == [Cast EXCEPT !.does = {"configure", "operation"}, !.faults = 2]
P6 == [Cast EXCEPT !.does = {"team", "manual"}, !.checks = 1, !.faults = 0]
MCCasts == {P1, P2, P3, P4, P5, P6}
=============================================================================
