----------------------------- MODULE TeamRuntime -----------------------------
(***************************************************************************)
(* The conversations of a session: its lead's native thread at the app     *)
(* server (workspacecodex/client.go) and the team's roster file of         *)
(* members, each with a thread of its own (teamruntime/runtime.go,         *)
(* deletion.go), with the operations that start, replace, assign, address, *)
(* configure, retire, revive and fork them.                                *)
(*                                                                         *)
(* One operation runs at a time, under the operation lock of the session.  *)
(* It cuts its work into roster updates and native calls.  A call may be   *)
(* executed and its answer lost, or be executed long after the caller gave *)
(* up on it, when another operation is running; the process may end        *)
(* between any two steps.  The app server cannot deduplicate thread/start, *)
(* so the roster records what was attempted before every call.             *)
(*                                                                         *)
(* An update that fails before its rename is the operation ending before   *)
(* the step, one that fails after it is the operation ending after it.     *)
(* Members are visited in roster order in the code, in any order here.     *)
(***************************************************************************)
EXTENDS FiniteSets, Naturals

CONSTANTS
    Members,      \* addresses
    Threads,      \* native thread identities
    Lead,         \* the owner of the session's first thread
    None,         \* no thread, no member
    Casts         \* what happens in a behaviour: its first roster, whether it
                  \* is a fork, whether its session never started, whether the
                  \* lead's thread is followed too, operations, and bounds on
                  \* operations and faults

Journals == {"retained", "explicit", "archive", "retire", "revive"}
UserOps  == {"create", "assign", "remove", "access", "fork", "talk", "lead", "goal"}
Accesses == {"read_only", "workspace_write"}

ASSUME TeamRuntimeAssumption ==
    /\ None \notin Members \cup Threads /\ Lead \notin Members \cup {None}
    /\ IsFiniteSet(Threads)
    /\ Casts \subseteq [first : {"empty", "legacy", "ready"}, forked : BOOLEAN,
                         unstarted : BOOLEAN, lead : BOOLEAN, ops : SUBSET (UserOps \cup Journals),
                         count : Nat, faults : Nat]

VARIABLES
    cast,         \* never changes
    member,       \* the roster
    native,       \* the app server's threads
    flight,       \* calls on their way to the app server
    ledger,       \* submission attempts of each thread
    run,          \* the operation that has the operation lock
    root,         \* what the session's manifest and ledger say of the lead
    held,         \* queued prompts saved in private storage
    deleted,      \* history: queued prompts deleted at the app server
    session,      \* open, archived or deleted
    journal,      \* the unfinished lifecycle operation, if any
    forced,       \* history: a forced retirement was begun
    abandoned,    \* history: members whose reservation a deletion gave up
    count, faults

vars == <<cast, member, native, flight, ledger, run, root, held, deleted, session,
          journal, forced, abandoned, count, faults>>

NoMember == [st |-> "none", thread |-> None, project |-> "none", tried |-> FALSE,
             boot |-> FALSE, intent |-> "none", access |-> "read_only"]
Fresh    == [NoMember EXCEPT !.st = "creating"]
NoThread == [st |-> "none", of |-> None, rollout |-> FALSE, turn |-> "none",
             input |-> FALSE, queue |-> "none", qid |-> 0]
NoRoot   == [thread |-> None, begun |-> FALSE, sent |-> FALSE, retiring |-> None]
Idle     == [op |-> "none", a |-> None, pc |-> "none", left |-> {}, got |-> None,
             call |-> "none"]

MemberRecords == [st : {"none", "creating", "ready", "archived", "removed"},
                  thread : Threads \cup {None}, project : {"none", "legacy", "real"},
                  tried : BOOLEAN, boot : BOOLEAN,
                  intent : {"none", "replace", "remove"}, access : Accesses]
Calls == [do : {"start", "boot", "delete", "archive", "unarchive", "send", "queue",
                "startq"},
          a : Members \cup {Lead}, t : Threads \cup {None}, access : Accesses, id : Nat]

\* Validate: what an update may save and a load accepts.
Valid(r) ==
    /\ r.thread = None => r.st \in {"none", "creating", "removed"} /\ ~r.boot
    /\ r.tried /\ r.project = "none" => cast.forked
    /\ r.intent # "none" => /\ r.thread # None /\ r.project = "real"
                            /\ r.st \in {"creating", "ready"}

(* Validate (runtime.go:514-587) accepts every roster an update saves, and  *)
(* every variable has its shape.                                            *)
TypeOK ==
    /\ cast \in Casts /\ member \in [Members -> MemberRecords]
    /\ \A a \in Members : Valid(member[a])
    /\ \A a, b \in Members :
          a # b /\ member[a].thread # None => member[a].thread # member[b].thread
    /\ native \in [Threads -> [st : {"none", "live", "archived", "gone"},
                   of : Members \cup {Lead, None}, rollout : BOOLEAN,
                   turn : Accesses \cup {"none"}, input : BOOLEAN,
                   queue : Accesses \cup {"none"}, qid : Nat]]
    /\ root \in [thread : Threads \cup {None}, begun : BOOLEAN, sent : BOOLEAN,
                 retiring : Threads \cup {None}]
    /\ held \subseteq Threads \X Nat /\ deleted \subseteq Threads \X Nat
    /\ flight \subseteq Calls /\ ledger \in [Threads -> {"none", "open", "accepted"}]
    /\ run.op \in UserOps \cup Journals \cup {"none"} /\ run.left \subseteq Members \cup {Lead}
    /\ session \in {"open", "archived", "deleted"}
    /\ journal \in Journals \cup {"none"} /\ forced \in BOOLEAN
    /\ abandoned \subseteq Members /\ count \in Nat /\ faults \in Nat

\* A ready member of an earlier release has a thread without a rollout; one
\* that was being created has the idempotency key in place of a project.
FirstThread == CHOOSE t \in Threads : TRUE
FirstMember == CHOOSE a \in Members : TRUE
FirstRoster(c) ==
    CASE c.first = "empty" /\ ~c.forked -> [a \in Members |-> NoMember]
      [] c.first = "empty" /\ c.forked -> [a \in Members |-> Fresh]
      [] c.first = "legacy" -> [a \in Members |->
            IF a = FirstMember THEN [Fresh EXCEPT !.project = "legacy", !.tried = TRUE]
                               ELSE NoMember]
      [] c.first = "ready" -> [a \in Members |->
            IF a = FirstMember THEN [Fresh EXCEPT !.st = "ready", !.project = "real",
                                                  !.thread = FirstThread, !.tried = TRUE]
                               ELSE NoMember]

Init ==
    /\ cast \in Casts /\ member = FirstRoster(cast)
    /\ native = [t \in Threads |->
          IF cast.first = "ready" /\ t = FirstThread
          THEN [NoThread EXCEPT !.st = "live", !.of = FirstMember] ELSE NoThread]
    /\ flight = {} /\ ledger = [t \in Threads |-> "none"] /\ run = Idle
    /\ root = NoRoot /\ held = {} /\ deleted = {}
    /\ session = "open" /\ journal = "none" /\ forced = FALSE /\ abandoned = {}
    /\ count = 0 /\ faults = 0

(***************************************************************************)
(* What a client reads of the app server.                                  *)
(***************************************************************************)
Live(t) == native[t].st = "live"
Materialized(t) == native[t].rollout

\* The active threads of a member's project.  A thread without a rollout may
\* be missing from the list although it exists.
Listings(a) ==
    LET mine == {t \in Threads : Live(t) /\ native[t].of = a}
    IN  {s \in SUBSET mine : \A t \in mine : Materialized(t) => t \in s}

Resolved(t) == ledger[t] = "open" => native[t].input
ThreadIdle(t) == Live(t) /\ native[t].turn = "none" /\ native[t].queue = "none" /\ Resolved(t)
Archived(t) == native[t].st = "archived"

Terminal(m) == m.st \in {"none", "archived", "removed"}
IdleMember(m) ==
    \/ Terminal(m)
    \/ /\ m.st = "ready" /\ m.intent = "none"
       /\ IF Archived(m.thread) THEN Resolved(m.thread) ELSE ThreadIdle(m.thread)

\* The member keeps a thread that can be archived as it stands.
RetainedState(m) ==
    \/ m.st = "archived" /\ Archived(m.thread)
    \/ /\ m.st = "ready" /\ m.intent = "none"
       /\ Archived(m.thread) \/ (Live(m.thread) /\ Materialized(m.thread))

(***************************************************************************)
(* Steps of an operation.                                                  *)
(***************************************************************************)
At(pc) == run.pc = pc
\* The member the operation is about, and the thread of a member or the lead.
me == member[run.a]
LeadThread == IF root.thread # None THEN root.thread ELSE root.retiring
ThreadOf(a) == IF a = Lead THEN LeadThread ELSE member[a].thread
Update(new) == member' = [member EXCEPT ![run.a] = new]
Goto(pc) == run' = [run EXCEPT !.pc = pc]
Wait(pc, c) == /\ flight' = flight \cup {c}
               /\ run' = [run EXCEPT !.pc = pc, !.call = c.do]
CallTo(do, a, t, access) == [do |-> do, a |-> a, t |-> t, access |-> access,
                              id |-> IF do = "queue" \/ (a = Lead /\ do = "start") THEN count
                                     ELSE IF do = "startq" THEN native[t].qid ELSE 0]
\* A turn is asked for with the policy the member has now.
Call(do, t) == CallTo(do, run.a, t, me.access)

\* The operation ends, with an answer or with an error.  Its lifecycle
\* journal is finished by the caller alone.
Stop == run' = Idle

\* A member has what the operation wanted of it.
Return ==
    CASE run.op = "assign" -> Goto("send")
      [] run.op = "create" -> Stop
      [] run.op = "fork" -> run' = [run EXCEPT !.pc = "forks", !.left = @ \ {run.a}]
      [] OTHER -> run' = [run EXCEPT !.pc = "sweep", !.left = @ \ {run.a}]

stays == <<cast, session, journal, forced, abandoned, count, faults, root, held, deleted>>
books == <<root, held, deleted>>

(***************************************************************************)
(* Creation of a member's thread (retryCreatingLocked).                    *)
(***************************************************************************)
LoadMember ==
    /\ At("load")
    /\ CASE me.st = "ready" -> Return
         [] me.st \notin {"creating", "ready"} -> Stop
         [] me.st = "creating" /\ me.intent = "replace" -> Goto("recycle")
         [] me.st = "creating" /\ me.intent = "remove" -> Stop
         [] me.st = "creating" /\ me.intent = "none" /\ me.thread # None ->
               IF Materialized(me.thread) THEN Goto("boot") ELSE Goto("recycle")
         [] OTHER -> Goto("project")
    /\ UNCHANGED <<stays, member, native, flight, ledger>>

\* The key of an earlier release never was a project: the app server refused
\* the start before it made a thread.
ForgetLegacy ==
    /\ At("project") /\ me.project = "legacy"
    /\ Update([me EXCEPT !.project = "none", !.tried = FALSE])
    /\ UNCHANGED <<stays, native, flight, ledger, run>>

\* project/create is idempotent by its key.
RegisterProject ==
    /\ At("project") /\ me.project # "legacy"
    /\ IF me.project = "none" /\ me.tried THEN Stop /\ UNCHANGED member
       ELSE Update([me EXCEPT !.project = "real"])
            /\ Goto(IF me.tried THEN "find" ELSE "reserve")
    /\ UNCHANGED <<stays, native, flight, ledger>>

StartMember ==
    /\ At("reserve") /\ Update([me EXCEPT !.tried = TRUE])
    /\ Wait("starting", Call("start", None))
    /\ UNCHANGED <<stays, native, ledger>>

\* Mutant: an empty list taken for a start that never happened.
FindStartedOrRestart ==
    /\ At("find")
    /\ \E s \in Listings(run.a) :
          IF s = {} THEN Goto("reserve")
          ELSE IF Cardinality(s) = 1
          THEN run' = [run EXCEPT !.pc = "bind", !.got = CHOOSE t \in s : TRUE]
          ELSE Stop
    /\ UNCHANGED <<stays, member, native, flight, ledger>>

\* An empty list may race a start whose answer was lost.
FindStarted ==
    /\ At("find")
    /\ \E s \in Listings(run.a) :
          IF Cardinality(s) = 1
          THEN run' = [run EXCEPT !.pc = "bind", !.got = CHOOSE t \in s : TRUE]
          ELSE Stop
    /\ UNCHANGED <<stays, member, native, flight, ledger>>

BindThread ==
    /\ At("bind") /\ run.a # Lead /\ Update([me EXCEPT !.thread = run.got])
    /\ run' = [run EXCEPT !.pc = "boot", !.got = None]
    /\ UNCHANGED <<stays, native, flight, ledger>>

\* A fork cannot be replaced: without a rollout its outcome stays unknown.
Bootstrap ==
    /\ At("boot")
    /\ IF me.boot
       THEN /\ IF Materialized(me.thread) THEN Goto("ready") ELSE Stop
            /\ UNCHANGED <<member, flight>>
       ELSE /\ Update([me EXCEPT !.boot = TRUE])
            /\ Wait("booting", Call("boot", me.thread))
    /\ UNCHANGED <<stays, native, ledger>>

MakeReady ==
    /\ At("ready") /\ Update([me EXCEPT !.st = "ready"]) /\ Return
    /\ UNCHANGED <<stays, native, flight, ledger>>

(***************************************************************************)
(* Replacement of a thread that never got a rollout.                       *)
(***************************************************************************)
ReserveReplacement ==
    /\ At("recycle")
    /\ IF me.intent = "remove" THEN Stop /\ UNCHANGED member
       ELSE Update([me EXCEPT !.intent = "replace"]) /\ Goto("replace")
    /\ UNCHANGED <<stays, native, flight, ledger>>

KeepRollout ==
    /\ At("replace") /\ Materialized(me.thread)
    /\ Update([me EXCEPT !.intent = "none"]) /\ Goto("load")
    /\ UNCHANGED <<stays, native, flight, ledger>>

DeleteFresh ==
    /\ \/ At("replace") /\ ~Materialized(me.thread)
       \/ At("discard")
    /\ \E s \in Listings(run.a) :
          IF s \subseteq {me.thread} THEN Wait("deleting", Call("delete", me.thread))
          ELSE Stop /\ UNCHANGED flight
    /\ UNCHANGED <<stays, member, native, ledger>>

FreshDeleted ==
    /\ At("deleted")
    /\ \E s \in Listings(run.a) :
          CASE s # {} -> Stop /\ UNCHANGED member
            [] s = {} /\ me.intent = "replace" ->
                 /\ Update([me EXCEPT !.thread = None, !.tried = FALSE, !.boot = FALSE,
                                     !.intent = "none", !.st = "creating"])
                 /\ Goto("load")
            [] OTHER -> Goto("clear") /\ UNCHANGED member
    /\ UNCHANGED <<stays, native, flight, ledger>>

(***************************************************************************)
(* Assignment, access and removal.                                         *)
(***************************************************************************)
\* A ready member with a project needs a rollout; one without a project was
\* forked and has one.
LoadAssign ==
    /\ At("assign")
    /\ CASE me.st # "ready" \/ me.intent = "remove" -> Stop
         [] me.st = "ready" /\ me.intent = "replace" -> Goto("recycle")
         [] me.st = "ready" /\ me.intent = "none" /\ Archived(me.thread) -> Stop
         [] me.st = "ready" /\ me.intent = "none" /\ ~Archived(me.thread) ->
               IF me.project = "none" \/ Materialized(me.thread)
               THEN Goto("send") ELSE Goto("recycle")
    /\ UNCHANGED <<stays, member, native, flight, ledger>>

\* A message is reserved in the ledger before it leaves.  Under the same id
\* it is only looked for, never sent again.  Bound: another message is sent to
\* the thread once the outcome of this one is known.
SendAssignment ==
    /\ At("send")
    /\ IF Live(me.thread) /\ Resolved(me.thread)
       THEN /\ ledger' = [ledger EXCEPT ![me.thread] = "open"]
            /\ native' = [native EXCEPT ![me.thread].input = FALSE]
            /\ Wait("sending", Call("send", me.thread))
       ELSE Stop /\ UNCHANGED <<ledger, native, flight>>
    /\ UNCHANGED <<stays, member>>

\* A prompt for the queue is reserved like a message.  Bound: one is queued.
Queue ==
    /\ At("queue")
    /\ IF Live(me.thread) /\ Resolved(me.thread) /\ native[me.thread].queue = "none"
       THEN /\ ledger' = [ledger EXCEPT ![me.thread] = "open"]
            /\ native' = [native EXCEPT ![me.thread].input = FALSE]
            /\ Wait("sending", Call("queue", me.thread))
       ELSE Stop /\ UNCHANGED <<ledger, native, flight>>
    /\ UNCHANGED <<stays, member>>

StartQueue ==
    /\ At("startq")
    /\ IF Live(me.thread) /\ native[me.thread].queue # "none"
       THEN Wait("sending", Call("startq", me.thread)) ELSE Stop /\ UNCHANGED flight
    /\ UNCHANGED <<stays, member, native, ledger>>

\* Mutant: the thread may be busy.
CheckAccessBusy ==
    /\ At("access")
    /\ IF me.st = "ready" /\ me.intent = "none" THEN Goto("grant") ELSE Stop
    /\ UNCHANGED <<stays, member, native, flight, ledger>>

CheckAccess ==
    /\ At("access")
    /\ IF me.st = "ready" /\ me.intent = "none" /\ ThreadIdle(me.thread)
       THEN Goto("grant") ELSE Stop
    /\ UNCHANGED <<stays, member, native, flight, ledger>>

UpdateAccess ==
    /\ At("grant")
    /\ \E x \in Accesses : x # me.access /\ Update([me EXCEPT !.access = x])
    /\ Stop /\ UNCHANGED <<stays, native, flight, ledger>>

\* A start whose outcome is unknown keeps its member.
Removable == /\ ~Terminal(me) /\ me.intent # "replace"
             /\ me.thread = None => ~me.tried /\ me.project = "real"

LoadRemove ==
    /\ At("remove")
    /\ CASE ~Removable -> Stop /\ UNCHANGED flight
         [] Removable /\ me.thread = None -> Goto("retire") /\ UNCHANGED flight
         [] Removable /\ me.thread # None /\ Archived(me.thread) ->
               Goto("clear") /\ UNCHANGED flight
         [] OTHER ->
               IF me.project # "none" /\ ~Materialized(me.thread)
               THEN Goto("intent") /\ UNCHANGED flight
               ELSE IF ThreadIdle(me.thread)
                    THEN Wait("archiving", Call("archive", me.thread))
                    ELSE Stop /\ UNCHANGED flight
    /\ UNCHANGED <<stays, member, native, ledger>>

ReserveRemoval ==
    /\ At("intent") /\ Update([me EXCEPT !.intent = "remove"]) /\ Goto("discard")
    /\ UNCHANGED <<stays, native, flight, ledger>>

\* Ordinary retirement keeps unresolved attempts, forced retirement drops them.
Forcing == run.op \in {"explicit", "retire"}
ClearAttempts ==
    /\ At("clear") /\ run.a # Lead
    /\ IF Forcing \/ Resolved(me.thread)
       THEN ledger' = [ledger EXCEPT ![me.thread] = "none"] /\ Goto("retire")
       ELSE Stop /\ UNCHANGED ledger
    /\ UNCHANGED <<stays, member, native, flight>>

\* The update of a team's retirement leaves the intent as it is, and is
\* refused where that is not valid.
RetireMember ==
    /\ At("retire")
    /\ IF run.op = "remove"
       THEN Update([me EXCEPT !.st = "removed", !.intent = "none"]) /\ Stop
       ELSE IF Valid([me EXCEPT !.st = "archived"])
       THEN /\ Update([me EXCEPT !.st = "archived"])
            /\ run' = [run EXCEPT !.pc = "each", !.left = @ \ {run.a}]
       ELSE Stop /\ UNCHANGED member
    /\ UNCHANGED <<stays, native, flight, ledger>>

(***************************************************************************)
(* Retirement of the whole team, for an archive or a deletion.             *)
(***************************************************************************)
Retained == run.op \in {"retained", "explicit"}
Deleting == run.op \in {"archive", "retire"}

\* The initial request is not known to be accepted.
Unstarted == IF cast.lead THEN ~root.sent ELSE cast.unstarted

\* PrepareDelete: a session that never started gives up the reservations
\* whose start may or may not have happened.
Candidate(a) == LET r == member[a] IN ~Terminal(r) /\ r.thread = None
PrepareDelete ==
    /\ At("prepare")
    /\ LET given == {a \in Members : Candidate(a)}
           sound == /\ \A a \in given : /\ Unstarted /\ ~cast.forked
                                        /\ member[a].project = "real" /\ member[a].tried
                    /\ ~Forcing => \A a \in Members \ given : IdleMember(member[a])
       IN  IF sound
           THEN /\ member' = [a \in Members |-> IF a \in given
                                THEN [member[a] EXCEPT !.st = "removed"] ELSE member[a]]
                /\ abandoned' = abandoned \cup given
                /\ run' = [run EXCEPT !.pc = "sweep", !.left = Members]
           ELSE Stop /\ UNCHANGED <<member, abandoned>>
    /\ UNCHANGED <<books, cast, session, journal, forced, count, faults, native, flight, ledger>>

\* Before a deletion every ready member gets a thread that can be archived.
Sweep ==
    /\ At("sweep") /\ run.left # {}
    /\ \E a \in run.left : LET r == member[a] IN
          CASE r.st # "ready" \/ r.project = "none" ->
                  run' = [run EXCEPT !.left = @ \ {a}]
            [] r.st = "ready" /\ r.project # "none" /\ r.intent = "remove" -> Stop
            [] OTHER -> IF Archived(r.thread) \/ (r.intent = "none" /\ Materialized(r.thread))
                        THEN run' = [run EXCEPT !.left = @ \ {a}]
                        ELSE run' = [run EXCEPT !.a = a, !.pc = "recycle"]
    /\ UNCHANGED <<stays, member, native, flight, ledger>>

Swept == /\ At("sweep") /\ run.left = {} /\ Goto("check")
         /\ UNCHANGED <<stays, member, native, flight, ledger>>

\* ArchiveExplicitAll, thread quiesce-explicit: the lead and every member that
\* is not archived.  The queued prompts are saved before one is deleted.
QuiesceHold ==
    /\ At("quiesce")
    /\ \/ run.left = {} /\ Goto("check") /\ UNCHANGED held
       \/ \E a \in run.left : LET t == ThreadOf(a) IN
            IF (IF a = Lead THEN t = None ELSE Terminal(member[a])) \/ (t # None /\ Archived(t))
            THEN run' = [run EXCEPT !.left = @ \ {a}] /\ UNCHANGED held
            ELSE IF t = None \/ ~Live(t) THEN Stop /\ UNCHANGED held
            ELSE /\ held' = held \cup {<<t, native[t].qid>> : q \in {native[t].queue} \ {"none"}}
                 /\ run' = [run EXCEPT !.a = a, !.pc = "drain"]
    /\ UNCHANGED <<cast, session, journal, forced, abandoned, count, faults, root, deleted,
                   member, native, flight, ledger>>

\* The queue is read again: a prompt that came in meanwhile is not deleted.
QuiesceQueue ==
    /\ At("drain")
    /\ LET t == ThreadOf(run.a) IN
          CASE native[t].queue = "none" -> Goto("interrupt") /\ UNCHANGED <<native, deleted>>
            [] native[t].queue # "none" /\ <<t, native[t].qid>> \notin held ->
                  Stop /\ UNCHANGED <<native, deleted>>
            [] OTHER -> /\ native' = [native EXCEPT ![t].queue = "none"]
                        /\ deleted' = deleted \cup {<<t, native[t].qid>>}
                        /\ Goto("interrupt")
    /\ UNCHANGED <<cast, session, journal, forced, abandoned, count, faults, root, held,
                   member, flight, ledger>>

\* A thread without a rollout has no turn to wait for.
QuiesceTurn ==
    /\ At("interrupt")
    /\ LET t == ThreadOf(run.a) IN
          native' = IF Materialized(t) THEN [native EXCEPT ![t].turn = "none"] ELSE native
    /\ run' = [run EXCEPT !.pc = "quiesce", !.left = @ \ {run.a}]
    /\ UNCHANGED <<stays, member, flight, ledger>>

\* Every member is checked before the first one is retired.
Retirable(r) ==
    IF r.st = "archived" THEN Retained /\ ~Forcing => RetainedState(r) /\ Resolved(r.thread)
    ELSE /\ r.thread # None
         /\ r.st = "ready" \/ (Forcing /\ r.st = "creating")
         /\ ~Forcing => IdleMember(r)
         /\ Retained /\ ~Forcing => RetainedState(r)
         /\ Forcing => Live(r.thread) \/ Archived(r.thread)

CheckAll ==
    /\ At("check")
    /\ IF \A a \in Members : member[a].st \in {"none", "removed"} \/ Retirable(member[a])
       THEN run' = [run EXCEPT !.pc = "each", !.left = Members]
       ELSE Stop
    /\ UNCHANGED <<stays, member, native, flight, ledger>>

\* RetireAll interrupts each thread and waits for its turn to end.
RetireNext ==
    /\ At("each") /\ run.left # {}
    /\ \E a \in run.left : LET r == member[a] IN
          CASE r.st \in {"none", "removed"} ->
                  run' = [run EXCEPT !.left = @ \ {a}] /\ UNCHANGED <<native, flight, ledger>>
            [] r.st = "archived" ->
                  /\ IF Archived(r.thread) /\ (Forcing \/ Resolved(r.thread))
                     THEN /\ ledger' = [ledger EXCEPT ![r.thread] = "none"]
                          /\ run' = [run EXCEPT !.left = @ \ {a}]
                     ELSE Stop /\ UNCHANGED ledger
                  /\ UNCHANGED <<native, flight>>
            [] OTHER ->
                  /\ native' = IF run.op = "retire" /\ Live(r.thread)
                               THEN [native EXCEPT ![r.thread].turn = "none"] ELSE native
                  /\ IF Archived(r.thread)
                     THEN run' = [run EXCEPT !.a = a, !.pc = "clear"] /\ UNCHANGED flight
                     ELSE IF run.op = "retained" /\ ~RetainedState(r)
                     THEN Stop /\ UNCHANGED flight
                     ELSE /\ flight' = flight \cup {CallTo("archive", a, r.thread, r.access)}
                          /\ run' = [run EXCEPT !.a = a, !.pc = "archiving", !.call = "archive"]
                  /\ UNCHANGED ledger
    /\ UNCHANGED <<stays, member>>

\* The caller proves the archive (RequireArchivedAll) and ends its journal.
ArchivedAll ==
    \A a \in Members : LET r == member[a] IN
        r.st \notin {"none", "removed"} =>
            /\ r.st \in {"ready", "archived"} /\ r.intent = "none"
            /\ Archived(r.thread) /\ Resolved(r.thread)
\* require-archive-ready, before the journal of an ordinary archive and again
\* before its retirements: every conversation is idle and can be archived as
\* it stands, and nothing else runs in the session's directory.
Listed == {s \in SUBSET {t \in Threads : Live(t)} :
              \A t \in Threads : Live(t) /\ Materialized(t) => t \in s}
ArchiveReady ==
    /\ \A a \in Members : member[a].st \notin {"none", "removed"} =>
          /\ RetainedState(member[a]) /\ Resolved(member[a].thread)
          /\ Live(member[a].thread) => ThreadIdle(member[a].thread)
    /\ cast.lead => root.thread # None /\ (Archived(root.thread) \/ ThreadIdle(root.thread))
    /\ \A t \in Threads : Live(t) /\ Materialized(t) =>
          t \in {ThreadOf(a) : a \in Members \cup {Lead}}

RequireArchiveReady ==
    /\ At("ready_all") /\ IF ArchiveReady THEN Goto("check") ELSE Stop
    /\ UNCHANGED <<stays, member, native, flight, ledger>>

\* An explicit archive retires the team before its journal and again after.
EndRetirement ==
    /\ At("each") /\ run.left = {}
    /\ CASE Deleting -> Goto("lead_find") /\ UNCHANGED journal
         [] ~Deleting /\ journal = "none" ->
              /\ journal' = "explicit"
              /\ run' = [run EXCEPT !.pc = "quiesce", !.left = Members]
         [] OTHER -> /\ IF ArchivedAll THEN Goto("lead_find") ELSE Stop
                     /\ UNCHANGED journal
    /\ UNCHANGED <<books, cast, session, forced, abandoned, count, faults, member, native,
                   flight, ledger>>

(***************************************************************************)
(* The lead's thread.                                                      *)
(***************************************************************************)
\* Recovery of a creation that did not finish.  What runs in the directory and
\* is no member's is the lead's, when there is one such thread at most.
Strangers == {t \in Threads : Live(t) /\ \A a \in Members : member[a].thread # t}
Kept == \E a \in Members : member[a].st # "none"
Missing(t) == t = None \/ native[t].st \in {"none", "gone"}
Adoptable(t) == \/ t = root.thread
                \/ ~Kept /\ ~Materialized(t) /\ Missing(root.thread)

StartLead == /\ root' = [root EXCEPT !.begun = TRUE]
             /\ Wait("starting", CallTo("start", Lead, None, "workspace_write"))
RecoverCreatingThread ==
    /\ At("lead")
    /\ CASE ~root.begun -> StartLead
         [] root.begun /\ Strangers = {} ->
              IF ~Kept /\ Missing(root.thread) THEN StartLead ELSE Stop /\ UNCHANGED <<root, flight>>
         [] root.begun /\ Cardinality(Strangers) = 1 /\ (\A t \in Strangers : Adoptable(t)) ->
              /\ run' = [run EXCEPT !.pc = "bind", !.got = CHOOSE t \in Strangers : TRUE]
              /\ UNCHANGED <<root, flight>>
         [] OTHER -> Stop /\ UNCHANGED <<root, flight>>
    /\ UNCHANGED <<cast, session, journal, forced, abandoned, count, faults, held, deleted,
                   member, native, ledger>>

\* The manifest names the thread.
BindLead ==
    /\ At("bind") /\ run.a = Lead /\ root' = [root EXCEPT !.thread = run.got] /\ Stop
    /\ UNCHANGED <<cast, session, journal, forced, abandoned, count, faults, held, deleted,
                   member, native, flight, ledger>>

\* The initial request is sent once to a thread and looked for afterwards.
SendGoal ==
    /\ At("goal")
    /\ LET t == root.thread IN
          CASE t = None -> Stop /\ UNCHANGED <<root, ledger, native, flight>>
            [] t # None /\ ledger[t] = "none" /\ Live(t) ->
                 /\ ledger' = [ledger EXCEPT ![t] = "open"]
                 /\ Wait("sending", CallTo("send", Lead, t, "workspace_write"))
                 /\ UNCHANGED <<root, native>>
            [] OTHER -> /\ root' = [root EXCEPT !.sent = @ \/ (ledger[t] # "none" /\ native[t].input)]
                        /\ Stop /\ UNCHANGED <<ledger, native, flight>>
    /\ UNCHANGED <<cast, session, journal, forced, abandoned, count, faults, held, deleted,
                   member>>

\* thread retire: without a recorded thread the one in the directory is
\* recorded before it is archived.
Close == /\ session' = IF Deleting THEN "deleted" ELSE "archived"
         /\ journal' = "none" /\ Stop
FindLead ==
    /\ At("lead_find")
    /\ \/ /\ LeadThread # None /\ run' = [run EXCEPT !.pc = "lead_prove", !.a = Lead]
          /\ UNCHANGED <<root, session, journal>>
       \/ /\ LeadThread = None
          /\ \E s \in Listed :
                CASE s = {} \/ ~cast.lead -> Close /\ UNCHANGED root
                  [] cast.lead /\ Cardinality(s) = 1 ->
                       /\ root' = [root EXCEPT !.retiring = CHOOSE t \in s : TRUE]
                       /\ run' = [run EXCEPT !.pc = "lead_prove", !.a = Lead]
                       /\ UNCHANGED <<session, journal>>
                  [] OTHER -> Stop /\ UNCHANGED <<root, session, journal>>
    /\ UNCHANGED <<cast, forced, abandoned, count, faults, held, deleted, member, native,
                   flight, ledger>>

\* Nothing else may run in the directory.  The index may leave threads out;
\* where it leaves out the lead's, the loaded threads are read, and where that
\* is not loaded either, its submissions must be resolved.
Alone(t) == \E s \in Listed : /\ s \subseteq {t}
                              /\ s = {} => \/ \A u \in Threads : Live(u) => u = t
                                           \/ Materialized(t) /\ Resolved(t)
RetireLead ==
    /\ At("lead_prove")
    /\ LET t == LeadThread IN
          CASE Archived(t) ->
                 /\ IF {} \in Listed THEN Goto("clear") ELSE Stop
                 /\ UNCHANGED <<native, flight>>
            [] Live(t) /\ Alone(t) /\ (Forcing \/ native[t].turn = "none" \/ ~Materialized(t)) ->
                 /\ native' = [native EXCEPT ![t].turn = IF Materialized(t) THEN "none" ELSE @]
                 /\ Wait("archiving", CallTo("archive", Lead, t, "workspace_write"))
            [] OTHER -> Stop /\ UNCHANGED <<native, flight>>
    /\ UNCHANGED <<stays, member, ledger>>

LeadRetired ==
    /\ At("clear") /\ run.a = Lead
    /\ ledger' = [ledger EXCEPT ![LeadThread] = "none"] /\ Close
    /\ UNCHANGED <<books, cast, forced, abandoned, count, faults, member, native, flight>>

(***************************************************************************)
(* Revival.                                                                *)
(***************************************************************************)
\* The lead's thread is revived first, alone in its directory.
LeadOwed == root.thread # None /\ Archived(root.thread)
ReviveLead ==
    /\ At("revive") /\ LeadOwed
    /\ IF {} \in Listed
       THEN /\ flight' = flight \cup {CallTo("unarchive", Lead, root.thread, "workspace_write")}
            /\ run' = [run EXCEPT !.a = Lead, !.pc = "reviving", !.call = "unarchive"]
       ELSE Stop /\ UNCHANGED flight
    /\ UNCHANGED <<stays, member, native, ledger>>

ReviveNext ==
    /\ At("revive") /\ ~LeadOwed
    /\ LET owed == {a \in Members : member[a].st = "archived"}
       IN  \/ /\ owed # {} /\ UNCHANGED <<session, journal>>
              /\ \E a \in owed :
                    /\ flight' = flight \cup {CallTo("unarchive", a, member[a].thread, member[a].access)}
                    /\ run' = [run EXCEPT !.a = a, !.pc = "reviving", !.call = "unarchive"]
           \/ /\ owed = {} /\ session' = "open" /\ journal' = "none" /\ Stop
              /\ UNCHANGED flight
    /\ UNCHANGED <<books, cast, forced, abandoned, count, faults, member, native, ledger>>

Revived ==
    /\ At("revived") /\ Goto("revive")
    /\ IF run.a = Lead THEN UNCHANGED member ELSE Update([me EXCEPT !.st = "ready"])
    /\ UNCHANGED <<stays, native, flight, ledger>>

(***************************************************************************)
(* Fork of another session's team.  The reservation of every member was    *)
(* saved at once; each is started by one thread/fork, which has no         *)
(* identity a retry could look for.                                        *)
(***************************************************************************)
ForkNext ==
    /\ At("forks")
    /\ \/ run.left = {} /\ Stop /\ UNCHANGED <<member, flight>>
       \/ \E a \in run.left : LET r == member[a] IN
            \/ /\ r.st # "creating" /\ run' = [run EXCEPT !.left = @ \ {a}]
               /\ UNCHANGED <<member, flight>>
            \/ /\ r.st = "creating" /\ r.thread = None /\ r.tried
               /\ Stop /\ UNCHANGED <<member, flight>>
            \/ /\ r.st = "creating" /\ r.thread = None /\ ~r.tried
               /\ member' = [member EXCEPT ![a].tried = TRUE]
               /\ flight' = flight \cup {CallTo("start", a, None, r.access)}
               /\ run' = [run EXCEPT !.a = a, !.pc = "starting", !.call = "start"]
    /\ UNCHANGED <<stays, native, ledger>>

ForkBoot ==
    /\ At("forks")
    /\ \E a \in run.left : /\ member[a].st = "creating" /\ member[a].thread # None
                           /\ run' = [run EXCEPT !.a = a, !.pc = "boot"]
    /\ UNCHANGED <<stays, member, native, flight, ledger>>

(***************************************************************************)
(* Callers.                                                                *)
(***************************************************************************)
Reserving == /\ run = Idle /\ journal = "none" /\ session = "open" /\ "create" \in cast.ops
             /\ cast.lead => root.thread # None
Add ==
    /\ Reserving
    /\ \E a \in Members : member[a].st = "none" /\ member' = [member EXCEPT ![a] = Fresh]
    /\ UNCHANGED <<stays, native, flight, ledger, run>>

\* A preset reserves its whole team before it starts a thread.  A retry finds
\* its members and reserves nothing.
EmptyTeam == \A a \in Members : member[a].st = "none"
ApplyPreset ==
    /\ Reserving /\ EmptyTeam /\ member' = [a \in Members |-> Fresh]
    /\ UNCHANGED <<stays, native, flight, ledger, run>>

\* The browser and the members are refused while a journal is unfinished, or
\* the session is archived or still being created.
Settled == \A a \in Members : member[a].st # "creating"
Admitted(op) ==
    /\ session = "open" /\ journal = "none"
    /\ Unstarted => op \in {"create", "lead", "goal"}
    /\ op \in {"lead", "goal"} => cast.lead /\ ~root.sent
    /\ cast.lead => op = "lead" \/ root.thread # None
    /\ cast.forked => (op = "fork" <=> ~Settled)

FirstPc(op) == IF op = "create" THEN "load" ELSE op
Begin ==
    /\ run = Idle /\ count < cast.count /\ count' = count + 1
    /\ \E op \in cast.ops \cap (UserOps \ {"talk"}) :
          /\ Admitted(op)
          /\ IF op = "fork" THEN run' = [Idle EXCEPT !.op = op, !.pc = "forks", !.left = Members]
             ELSE IF op \in {"lead", "goal"} THEN run' = [Idle EXCEPT !.op = op, !.a = Lead, !.pc = op]
             ELSE \E a \in Members : /\ member[a].st # "none"
                                     /\ run' = [Idle EXCEPT !.op = op, !.a = a, !.pc = FirstPc(op)]
    /\ UNCHANGED <<books, cast, member, native, flight, ledger, session, journal, forced,
                   abandoned, faults>>

\* A browser addresses a member that is ready, under the operation lock: a
\* message, a prompt for the native queue, or the start of a queued prompt.
Reachable(a) == member[a].st = "ready" /\ member[a].intent = "none"
Converse ==
    /\ run = Idle /\ count < cast.count /\ count' = count + 1
    /\ "talk" \in cast.ops /\ Admitted("talk")
    /\ \E a \in Members, pc \in {"send", "queue", "startq"} :
          Reachable(a) /\ run' = [Idle EXCEPT !.op = "talk", !.a = a, !.pc = pc]
    /\ UNCHANGED <<books, cast, member, native, flight, ledger, session, journal, forced,
                   abandoned, faults>>

\* Lifecycle commands keep the runtime lock and save a journal first; after a
\* crash only the same command may go on, a deletion also with force.
JournalPc(j) == CASE j = "retained" -> "ready_all" [] j = "explicit" -> "quiesce"
                  [] j = "revive" -> "revive" [] OTHER -> "prepare"
Quiesced == IF journal = "none" THEN Members \cup {Lead} ELSE Members
BeginLifecycle ==
    /\ run = Idle /\ count < cast.count /\ count' = count + 1
    /\ \E j \in cast.ops \cap Journals :
          /\ \/ journal = j \/ (journal = "archive" /\ j = "retire")
             \/ (journal = "none" /\
                CASE j = "retained" -> session = "open" /\ Settled /\ ~Unstarted /\ ArchiveReady
                  [] j = "explicit" -> session = "open" /\ Settled /\ ~Unstarted
                  [] j = "revive" -> session = "archived"
                  [] OTHER -> session # "deleted")
          /\ journal' = IF j = "explicit" THEN journal ELSE j
          /\ forced' = (forced \/ j \in {"explicit", "retire"})
          /\ run' = [Idle EXCEPT !.op = j, !.pc = JournalPc(j),
                                  !.left = IF j = "explicit" THEN Quiesced ELSE {}]
    /\ UNCHANGED <<books, cast, member, native, flight, ledger, session, abandoned, faults>>

(***************************************************************************)
(* The app server.                                                         *)
(***************************************************************************)
Waiting(c) == run.call = c.do /\ run.a = c.a /\ c.t \in {None, ThreadOf(c.a)}

\* What a call does when it is executed, whoever still waits for it.
Effect(c, t) ==
    CASE c.do = "start" -> [native EXCEPT ![t] = [NoThread EXCEPT !.st = "live", !.of = c.a]]
      [] c.do = "boot" /\ Live(t) -> [native EXCEPT ![t].rollout = TRUE]
      [] c.do = "delete" /\ Live(t) /\ ~Materialized(t) -> [native EXCEPT ![t].st = "gone"]
      [] c.do = "archive" /\ Live(t) ->
            [native EXCEPT ![t].st = "archived", ![t].turn = "none"]
      [] c.do = "unarchive" /\ Archived(t) -> [native EXCEPT ![t].st = "live"]
      [] c.do = "send" /\ Live(t) ->
            [native EXCEPT ![t].input = TRUE, ![t].turn = c.access, ![t].rollout = TRUE]
      [] c.do = "queue" /\ Live(t) ->
            [native EXCEPT ![t].input = TRUE, ![t].queue = c.access, ![t].qid = c.id]
      [] c.do = "startq" /\ Live(t) /\ native[t].queue # "none" /\ native[t].qid = c.id ->
            [native EXCEPT ![t].queue = "none", ![t].turn = c.access, ![t].rollout = TRUE]
      [] OTHER -> native

\* Where the caller goes on with an answer, or having looked itself.
After(do, t, th) ==
    CASE do = "start" -> "bind"
      [] do = "boot" /\ th.rollout -> "ready"
      [] do = "delete" /\ th.st = "gone" -> "deleted"
      [] do = "archive" /\ th.st = "archived" -> "clear"
      [] do = "unarchive" /\ th.st = "live" -> "revived"
      [] do = "send" /\ th.of = Lead -> "goal"
      [] OTHER -> "stop"

Answered(c, t) ==
    LET pc == After(c.do, t, native'[t])
    IN  /\ run' = IF pc = "stop" THEN Idle
                  ELSE [run EXCEPT !.pc = pc, !.call = "none", !.got = IF c.do = "start" THEN t ELSE @]
        /\ ledger' = IF c.do \in {"send", "queue"} /\ native'[t].input /\ ledger[t] = "open"
                     THEN [ledger EXCEPT ![t] = "accepted"] ELSE ledger

Execute ==
    \E c \in flight :
        LET t == IF c.do = "start" THEN CHOOSE n \in Threads : native[n].st = "none" ELSE c.t
        IN  /\ c.do = "start" => \E n \in Threads : native[n].st = "none"
            /\ flight' = flight \ {c} /\ native' = Effect(c, t)
            /\ \/ Waiting(c) /\ Answered(c, t)
               \/ UNCHANGED <<run, ledger>>
            /\ UNCHANGED <<stays, member>>

\* Mutant: a lost answer to thread/archive is taken for success.
GiveUpTrusting ==
    /\ run.call # "none" /\ faults < cast.faults /\ faults' = faults + 1
    /\ run' = CASE run.call = "start" /\ run.op \notin {"fork", "lead"} ->
                     [run EXCEPT !.pc = "find", !.call = "none"]
                [] run.call = "delete" /\ native[ThreadOf(run.a)].st = "gone" ->
                     [run EXCEPT !.pc = "deleted", !.call = "none"]
                [] run.call = "archive" -> [run EXCEPT !.pc = "clear", !.call = "none"]
                [] OTHER -> Idle
    /\ UNCHANGED <<books, cast, member, native, flight, ledger, session, journal, forced,
                   abandoned, count>>

\* The client's call fails without an answer.  A start is looked for, a
\* deletion and an archive are proved by reading the thread.
GiveUp ==
    /\ run.call # "none" /\ faults < cast.faults /\ faults' = faults + 1
    /\ run' = CASE run.call = "start" /\ run.op \notin {"fork", "lead"} ->
                     [run EXCEPT !.pc = "find", !.call = "none"]
                [] run.call = "delete" /\ native[ThreadOf(run.a)].st = "gone" ->
                     [run EXCEPT !.pc = "deleted", !.call = "none"]
                [] run.call = "archive" /\ run.a # Lead /\ Archived(me.thread) ->
                     [run EXCEPT !.pc = "clear", !.call = "none"]
                [] OTHER -> Idle
    /\ UNCHANGED <<books, cast, member, native, flight, ledger, session, journal, forced,
                   abandoned, count>>

\* The process ends, or a read, a save or a deadline fails.
Abort ==
    /\ run # Idle /\ faults < cast.faults /\ faults' = faults + 1 /\ Stop
    /\ UNCHANGED <<books, cast, member, native, flight, ledger, session, journal, forced,
                   abandoned, count>>

\* A thread without a rollout does not survive the app server.
Unload ==
    /\ faults < cast.faults /\ faults' = faults + 1
    /\ \E t \in Threads : /\ Live(t) /\ ~Materialized(t)
                          /\ native' = [native EXCEPT ![t].st = "gone"]
    /\ UNCHANGED <<books, cast, member, flight, ledger, run, session, journal, forced,
                   abandoned, count>>

\* The app server starts the queued prompt when nothing runs.
QueueStarts ==
    /\ \E t \in Threads :
          /\ Live(t) /\ native[t].turn = "none" /\ native[t].queue # "none"
          /\ native' = [native EXCEPT ![t].turn = native[t].queue, ![t].queue = "none",
                                     ![t].rollout = TRUE]
    /\ UNCHANGED <<stays, member, flight, ledger, run>>

EndTurn ==
    /\ \E t \in Threads : /\ native[t].turn # "none"
                          /\ native' = [native EXCEPT ![t].turn = "none"]
    /\ UNCHANGED <<stays, member, flight, ledger, run>>

Next ==
    \/ LoadMember \/ ForgetLegacy \/ RegisterProject \/ StartMember \/ FindStarted
    \/ BindThread \/ Bootstrap \/ MakeReady
    \/ ReserveReplacement \/ KeepRollout \/ DeleteFresh \/ FreshDeleted
    \/ LoadAssign \/ SendAssignment \/ Queue \/ StartQueue \/ CheckAccess \/ UpdateAccess
    \/ LoadRemove \/ ReserveRemoval \/ ClearAttempts \/ RetireMember
    \/ PrepareDelete \/ Sweep \/ Swept \/ QuiesceHold \/ QuiesceQueue \/ QuiesceTurn
    \/ RequireArchiveReady \/ CheckAll \/ RetireNext \/ EndRetirement
    \/ RecoverCreatingThread \/ BindLead \/ SendGoal \/ FindLead \/ RetireLead \/ LeadRetired
    \/ ReviveLead \/ ReviveNext \/ Revived \/ ForkNext \/ ForkBoot
    \/ Add \/ ApplyPreset \/ Begin \/ Converse \/ BeginLifecycle
    \/ Execute \/ GiveUp \/ Abort \/ Unload \/ QueueStarts \/ EndTurn

Spec == Init /\ [][Next]_vars

(***************************************************************************)
(* Properties.                                                             *)
(***************************************************************************)
(* No native thread runs that the roster does not know: a live thread is   *)
(* its member's, or the member still says that its start has an unknown    *)
(* outcome, or a deletion gave the reservation up (runtime.go:1118-1119).  *)
(* So a member never has two threads, whatever answer was lost.            *)
NoOrphan ==
    \A t \in Threads : Live(t) => IF native[t].of = Lead
        THEN Materialized(t) => root.thread = t ELSE LET r == member[native[t].of] IN
        \/ r.thread = t
        \/ r.thread = None /\ r.tried /\ r.st = "creating"
           /\ \A u \in Threads : Live(u) /\ native[u].of = native[t].of => u = t
        \/ native[t].of \in abandoned

(* A retired member is quiet: its thread is archived or deleted, a message *)
(* can still be on its way only after a forced retirement, and a session   *)
(* that is closed has retired every member (archiveAllLocked, removeLocked).*)
RetiredIsQuiet ==
    /\ \A a \in Members : LET r == member[a] IN
          r.st \in {"archived", "removed"} /\ r.thread # None /\ journal # "revive" =>
              /\ ~Live(r.thread)
              /\ forced \/ \A c \in flight : c.do \notin {"send", "queue"} \/ c.t # r.thread
    /\ session # "open" /\ journal = "none" =>
          /\ \A a \in Members : Terminal(member[a])
          /\ \A t \in Threads : Live(t) => ~Materialized(t)
    /\ deleted \subseteq held

(* A turn runs with the access its member has now: access changes only     *)
(* when nothing runs and nothing sent before can still start (UpdateAccess,*)
(* runtime.go:2264-2320).                                                  *)
TurnsKeepAccess ==
    \A t \in Threads : native[t].turn # "none" /\ native[t].of # Lead =>
        /\ member[native[t].of].thread = t
        /\ native[t].turn = member[native[t].of].access

(* A forced deletion retires a member whose thread was confirmed while its *)
(* creation was unfinished (docs/dev-sessions.md:731-733): the update that *)
(* ends its retirement is one the roster accepts.                          *)
ForcedRetires == At("retire") /\ run.op = "retire" => Valid([me EXCEPT !.st = "archived"])
==============================================================================
