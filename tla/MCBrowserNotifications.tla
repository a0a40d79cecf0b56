----------------------- MODULE MCBrowserNotifications -----------------------
\* Small instances of BrowserNotifications for TLC.
EXTENDS BrowserNotifications
Cast == [does |-> {"browser", "turns"}, faults |-> 1, acts |-> 4]
B1 == [Cast EXCEPT !.does = {"turns", "ask"}, !.faults = 2]
B2 == [Cast EXCEPT !.does = @ \cup {"mute"}]
B3 == [Cast EXCEPT !.does = @ \cup {"hold", "off"}]
B4 == [Cast EXCEPT !.does = @ \cup {"peer"}, !.faults = 0, !.acts = 5]
B5 == [Cast EXCEPT !.does = {"browser", "test", "lapse"}]
B6 == [Cast EXCEPT !.does = @ \cup {"visit", "ask"}, !.faults = 0]
B7 == [Cast EXCEPT !.does = @ \cup {"recreate"}, !.faults = 0, !.acts = 5]
MCCasts == {B1, B2, B3, B4, B5, B6, B7}
=============================================================================
