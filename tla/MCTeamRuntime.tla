---------------------------- MODULE MCTeamRuntime ----------------------------
\* Small instances of TeamRuntime for TLC.
EXTENDS TeamRuntime
Cast == [first |-> "empty", forked |-> FALSE, unstarted |-> FALSE, lead |-> FALSE, ops |-> {}, count |-> 3, faults |-> 2]
R1 == [Cast EXCEPT !.ops = {"create", "assign", "remove"}, !.count = 5, !.faults = 3]
R2 == [Cast EXCEPT !.ops = {"create", "assign", "access", "remove"}, !.first = "ready", !.count = 4]
R3 == [Cast EXCEPT !.ops = {"create", "assign", "remove", "retained", "revive"}, !.first = "ready", !.count = 6]
R4 == [Cast EXCEPT !.ops = {"assign", "remove", "explicit", "revive", "retire"}, !.first = "ready", !.count = 6, !.faults = 3]
R5 == [Cast EXCEPT !.ops = {"create", "assign", "archive", "retire"}, !.first = "ready", !.count = 4]
R6 == [Cast EXCEPT !.ops = {"create", "retire", "archive"}, !.unstarted = TRUE, !.count = 4, !.faults = 3]
R7 == [Cast EXCEPT !.ops = {"fork", "assign", "remove", "explicit", "retire"}, !.forked = TRUE, !.count = 4, !.faults = 3]
R8 == [Cast EXCEPT !.ops = {"create", "remove", "assign"}, !.first = "legacy"]
\* Conversations with a member: messages, queued prompts, their start.
R9 == [Cast EXCEPT !.ops = {"talk", "access", "remove", "explicit"}, !.first = "ready", !.count = 5, !.faults = 2]
R10 == [Cast EXCEPT !.ops = {"talk", "retained", "revive", "retire"}, !.first = "ready", !.count = 5, !.faults = 1]
\* The lead's thread.
R11 == [Cast EXCEPT !.ops = {"lead", "goal", "retained", "explicit", "revive", "archive", "retire"}, !.lead = TRUE, !.count = 6, !.faults = 3]
R12 == [Cast EXCEPT !.ops = {"lead", "goal", "create", "explicit", "retire"}, !.lead = TRUE, !.count = 6, !.faults = 2]
MCCasts == {R1, R2, R3, R4, R5, R6, R7, R8, R9, R10, R11, R12}
=============================================================================
