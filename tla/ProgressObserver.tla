--------------------------- MODULE ProgressObserver ---------------------------
(***************************************************************************)
(* The progress checks of one session (web/progress_observer.go,           *)
(* progressobserver/state.go, workspacecodex/progress.go).  Once a minute, *)
(* or when a user asks, the portal settles the check it sent earlier,      *)
(* looks at the session's work, sends the observer member a new check and  *)
(* tells the lead about an open concern.                                   *)
(*                                                                         *)
(* One check runs at a time (progressMu and the shared runtime lock); the  *)
(* team's operation lock is held until the notice.  The record is loaded   *)
(* at the beginning and saved whole, so what a check knows is in mem and   *)
(* what survives it in disk.  Times are compared with the time at which    *)
(* the check began: LastCheck is never, fresh or old (an interval ago),    *)
(* and a pending check is late after its deadline.                         *)
(***************************************************************************)
EXTENDS FiniteSets, Naturals

CONSTANTS
    Observers,     \* 1..n, the observer members in roster order
    Keys,          \* keys of concerns
    None,
    MaxTurns,      \* turns of one observer thread
    MaxChecks,     \* checks sent in a behaviour
    Casts          \* what happens around the checks in a behaviour, and its
                   \* bounds on checks and on failures, crashes and operations

Doings == {"team", "configure", "manual", "queue", "pause", "idle", "operation"}

ASSUME ProgressAssumption ==
    /\ IsFiniteSet(Observers) /\ Observers = 1..Cardinality(Observers)
    /\ MaxTurns \in Nat /\ MaxChecks \in Nat
    /\ Casts \subseteq [does : SUBSET Doings, checks : 0..MaxChecks, faults : Nat]

VARIABLES
    cast,          \* never changes
    disk,          \* the saved record
    check,         \* the check that runs: where it is (pc), its copy of the
                   \* record (s), whether a user asked for it (req), it found
                   \* a pending check (had) and saw work going on (active)
    member,        \* observers: absent, ready, leaving (RetireIntent) or retired
    model,         \* their model and effort
    thread,        \* their native threads
    air,           \* checks on their way to an observer
    landed,        \* the turns checks' messages are in
    drawn,         \* check identities used so far
    working,       \* whether development work is going on
    refused,       \* a session operation keeps checks out
    faults

vars == <<cast, disk, check, member, model, thread, air, landed, drawn, working,
          refused, faults>>
world == <<member, model, thread, air, landed, drawn>>
sky   == <<cast, working, refused>>

Checks  == 1..MaxChecks
Outcome(st) == [status |-> st, key |-> None]
Results == [status : {"resolved", "concern"}, key : Keys]
             \cup {Outcome("on_track"), Outcome("unavailable"), Outcome("invalid")}
Pendings == [id : Checks, obs : Observers, model : 0..1, turn : 0..MaxTurns, late : BOOLEAN]
Record  == [paused : BOOLEAN, last : {"never", "fresh", "old"}, pending : Pendings \cup {None},
            concern : Keys \cup {None}, notice : [id : Checks, from : Observers] \cup {None}]
ASSUME NoneAssumption == None \notin Keys \cup Pendings
NoRecord == [paused |-> FALSE, last |-> "never", pending |-> None, concern |-> None,
             notice |-> None]
Quiet == [turn |-> 0, active |-> FALSE, by |-> "none", queued |-> FALSE,
          stopping |-> FALSE, result |-> Outcome("invalid")]
NoCheck == [pc |-> "idle", s |-> NoRecord, req |-> FALSE, had |-> FALSE, active |-> FALSE]

\* What is saved names checks that were drawn, and turns they are in.
TypeOK ==
    /\ disk \in Record
    /\ check \in [pc : {"idle", "settle", "look", "send", "resend", "tell"}, s : Record,
                   req : BOOLEAN, had : BOOLEAN, active : BOOLEAN]
    /\ member \in [Observers -> {"absent", "ready", "leaving", "retired"}]
    /\ model \in [Observers -> 0..1]
    /\ thread \in [Observers -> [turn : 0..MaxTurns, active : BOOLEAN, queued : BOOLEAN,
                     by : {"none", "manual", "check"}, stopping : BOOLEAN, result : Results]]
    /\ air \subseteq Checks \X Observers
    /\ landed \subseteq Checks \X Observers \X (1..MaxTurns)
    /\ drawn \in 0..MaxChecks 
    /\ working \in BOOLEAN /\ refused \in BOOLEAN /\ faults \in 0..cast.faults
    /\ cast \in Casts
    /\ disk.pending # None =>
          /\ disk.pending.id <= drawn
          /\ disk.pending.turn # 0 => <<disk.pending.id, disk.pending.obs, disk.pending.turn>> \in landed

Init ==
    /\ disk = NoRecord /\ check = NoCheck
    /\ member = [o \in Observers |-> IF o = 1 THEN "ready" ELSE "absent"]
    /\ model = [o \in Observers |-> 0] /\ thread = [o \in Observers |-> Quiet]
    /\ air = {} /\ landed = {} /\ drawn = 0
    /\ cast \in Casts
    /\ working = TRUE /\ refused = FALSE /\ faults = 0

Fault == faults < cast.faults /\ faults' = faults + 1

\* progressMember: the first ready observer that nobody is retiring.
Ready  == {o \in Observers : member[o] = "ready"}
Member == CHOOSE o \in Ready : \A x \in Ready : o <= x

-----------------------------------------------------------------------------
(* The record.  Save writes it whole; a failure leaves the old one, or the *)
(* new one whose directory could not be synced, and ends the check.        *)
mem    == check.s
pc     == check.pc
Active == IF pc = "look" THEN working ELSE check.active

Goes(s, next) ==
    check' = IF next = "idle" THEN NoCheck
             ELSE [check EXCEPT !.pc = next, !.s = s, !.active = Active]
Save(s, next) ==
    \/ disk' = s /\ Goes(s, next) /\ UNCHANGED faults
    \/ Fault /\ disk' \in {disk, s} /\ Goes(s, "idle")

\* fail: the reason is saved with whatever the check knows, and it ends.
Fails(s) ==
    /\ Goes(s, "idle")
    /\ \/ disk' = s /\ UNCHANGED faults
       \/ Fault /\ disk' = disk

\* State.Apply and what settleProgressCheck makes of it: an open concern is
\* closed only by a resolution that names it; anything else challenges again.
Challenges(s, r) ==
    \/ r.status = "concern"
    \/ r.status = "on_track" /\ r.key = None /\ s.concern # None
    \/ r.status = "resolved" /\ s.concern \notin {None, r.key}
Closes(s, r) == r.status = "resolved" /\ r.key = s.concern

ApplyKeepingNotice(s, r) ==
    LET concern == IF Closes(s, r) THEN None
                   ELSE IF r.status = "concern" /\ s.concern = None THEN r.key
                   ELSE s.concern
    IN  [s EXCEPT !.pending = None, !.concern = concern,
                  !.notice = IF concern # None /\ Challenges(s, r)
                             THEN [id |-> s.pending.id, from |-> s.pending.obs]
                             ELSE @]
Apply(s, r) ==
    LET concern == IF Closes(s, r) THEN None
                   ELSE IF r.status = "concern" /\ s.concern = None THEN r.key
                   ELSE s.concern
    IN  [s EXCEPT !.pending = None, !.concern = concern,
                  !.notice = IF concern = None THEN None
                             ELSE IF Challenges(s, r)
                             THEN [id |-> s.pending.id, from |-> s.pending.obs]
                             ELSE @]

-----------------------------------------------------------------------------
(* The check: checkProgress *)

\* The tick or the request is admitted, and the roster and the record loaded.
Begin(r) ==
    /\ pc = "idle" /\ ~refused /\ Ready # {}
    /\ r => disk.pending = None /\ drawn < cast.checks
    /\ disk.pending # None => disk.pending.obs = Member
    /\ check' = [pc |-> IF disk.pending = None THEN "look" ELSE "settle", s |-> disk,
                 req |-> r, had |-> disk.pending # None, active |-> FALSE]
    /\ UNCHANGED <<disk, faults, world, sky>>

\* The pending check belongs to an observer that has been retired.
DropRetired ==
    /\ pc = "idle" /\ ~refused /\ Ready # {}
    /\ disk.pending # None /\ disk.pending.obs # Member
    /\ member[disk.pending.obs] = "retired"
    /\ Save([disk EXCEPT !.pending = None, !.notice = None, !.last = "fresh"], "idle")
    /\ UNCHANGED <<world, sky>>

\* Reading a transcript or the activity failed.
ReadFails ==
    /\ pc \in {"settle", "look"} /\ Fault /\ Goes(mem, "idle")
    /\ UNCHANGED <<disk, world, sky>>

\* settleProgressCheck: what the observer's transcript says of the check.
Turns(p) == {t \in 1..MaxTurns : <<p.id, p.obs, t>> \in landed}
Found == IF mem.pending.turn = 0 /\ Turns(mem.pending) # {}
         THEN CHOOSE t \in Turns(mem.pending) : TRUE ELSE mem.pending.turn
Watched == thread[mem.pending.obs]
Known  == [mem EXCEPT !.pending.turn = Found]
Over   == Found # 0 /\ Found = Watched.turn /\ ~Watched.active
Expired == [mem EXCEPT !.pending = None]

SettleHeld ==
    /\ pc = "settle" /\ Found = 0 /\ Watched.active
    /\ Fails(mem) /\ UNCHANGED <<world, sky>>

SettleResult ==
    /\ pc = "settle" /\ Over
    /\ IF Watched.result.status = "invalid" THEN Fails(Expired)
                                            ELSE Save(Apply(Known, Watched.result), "look")
    /\ UNCHANGED <<world, sky>>

SettleInterrupt ==
    /\ pc = "settle" /\ mem.pending.late /\ ~Over
    /\ Found # 0 /\ Found = Watched.turn
    /\ \/ /\ thread' = [thread EXCEPT ![mem.pending.obs].stopping = TRUE]
          /\ Save(Known, "idle")
       \/ Fault /\ disk' \in {disk, Known} /\ Goes(Known, "idle") /\ UNCHANGED thread
    /\ UNCHANGED <<member, model, air, landed, drawn, sky>>

\* What is left of a late check: its turn is no longer the latest, or nobody
\* knows whether it was submitted, and then no other takes its place.
UnknownReplaced == Expired
Unknown == IF Found # 0 THEN Expired ELSE mem
SettleLate ==
    /\ pc = "settle" /\ mem.pending.late /\ ~Over
    /\ Found = 0 => ~Watched.active
    /\ Found # 0 => Found # Watched.turn
    /\ Fails(Unknown) /\ UNCHANGED <<world, sky>>

SettleWait ==
    /\ pc = "settle" /\ ~mem.pending.late /\ ~Over
    /\ Found = 0 => ~Watched.active
    /\ Save(Known, IF Found # 0 THEN "idle" ELSE "look")
    /\ UNCHANGED <<world, sky>>

\* A notice of an observer that is no longer the one is forgotten first.
Looked == IF mem.notice # None /\ mem.notice.from # Member
          THEN [mem EXCEPT !.notice = None] ELSE mem

\* Nothing to look for: paused, or neither due nor with a notice to deliver;
\* or the session is not ready for it.
Skips == ~check.req /\ (\/ Looked.paused /\ Looked.pending = None
                        \/ ~check.had /\ Looked.notice = None /\ Looked.last = "fresh")
LookSkipped ==
    /\ \/ Skips /\ UNCHANGED faults
       \/ Fault
    /\ disk' = Looked /\ Goes(Looked, "idle")
    /\ UNCHANGED <<world, sky>>

Looks(next) == ~Skips /\ disk' = Looked /\ Goes(Looked, next) /\ UNCHANGED sky
Saves(s, next) == ~Skips /\ Save(s, next) /\ UNCHANGED sky

\* A check whose submission is unknown is sent again, under its identity.
Resends == Looked.pending # None /\ Active /\ ~Looked.paused
LookAgain ==
    /\ check.had /\ UNCHANGED world
    /\ \/ Resends /\ model[Member] = Looked.pending.model /\ Looks("resend") /\ UNCHANGED faults
       \/ Resends /\ model[Member] # Looked.pending.model /\ Looks("idle") /\ UNCHANGED faults
       \/ ~Resends /\ Saves(Looked, "tell")

\* The first interval begins when work is first seen.
Unstarted == ~check.req /\ Looked.last = "never"
LookFirst ==
    /\ ~check.had /\ Unstarted /\ UNCHANGED world
    /\ \/ Active /\ Saves([Looked EXCEPT !.last = "fresh"], "tell")
       \/ ~Active /\ Looks("idle") /\ UNCHANGED faults

\* State.Due
Due    == ~Looked.paused /\ Looked.pending = None /\ Looked.last = "old" /\ Active
Wanted == drawn < cast.checks /\ (check.req \/ (~Unstarted /\ Due))

AfterLookDone == "idle"
AfterLook == "tell"
LookEarly ==
    /\ ~check.had /\ ~Wanted /\ ~Unstarted
    /\ Looks(AfterLook) /\ UNCHANGED <<faults, world>>

\* The observer has other work.
LookBusy ==
    /\ ~check.had /\ Wanted /\ thread[Member].active
    /\ Looks(IF check.req THEN "idle" ELSE "tell") /\ UNCHANGED <<faults, world>>

\* A new check, saved before it is sent.
NewCheck ==
    [Looked EXCEPT !.last = "fresh",
        !.pending = [id |-> drawn + 1, obs |-> Member, model |-> model[Member],
                     turn |-> 0, late |-> FALSE]]
LookSend ==
    /\ ~check.had /\ Wanted /\ ~thread[Member].active
    /\ drawn' = drawn + 1
    /\ Saves(NewCheck, "send")
    /\ UNCHANGED <<member, model, thread, air, landed>>

\* refreshProgressInstructions refused or failed: no check.
LookUnrefreshed ==
    /\ ~check.had /\ Wanted /\ ~thread[Member].active
    /\ Fault /\ Looks("idle") /\ UNCHANGED world

-----------------------------------------------------------------------------
(* sendProgressCheck and SendProgressCheck *)
Here  == mem.pending.obs
This  == <<mem.pending.id, Here>>
Sends == pc \in {"send", "resend"} /\ UNCHANGED <<member, model, drawn, sky>>

\* The message is put in the turn that is running, or begins one.
Lands(c, o) ==
    LET t == thread[o]
    IN  /\ t.active \/ t.turn < MaxTurns
        /\ thread' = [thread EXCEPT ![o] =
              IF t.active THEN t
              ELSE [t EXCEPT !.turn = @ + 1, !.active = TRUE, !.by = "check", !.stopping = FALSE]]
        /\ landed' = landed \cup {<<c, o, thread'[o].turn>>}

\* Accepted, with the turn in the answer; an earlier submission of the same
\* identity is found and answered with its own.
SendAnswered ==
    /\ Sends /\ air' = air \ {This}
    /\ \/ /\ Found # 0 /\ UNCHANGED <<thread, landed>>
          /\ Save(Known, "tell")
       \/ /\ Found = 0 /\ Lands(mem.pending.id, Here)
          /\ Save([mem EXCEPT !.pending.turn = thread'[Here].turn], "tell")

\* Queued for an observer that was not loaded: accepted, its turn not known.
SendQueued ==
    /\ Sends /\ Found = 0 /\ air' = air \cup {This}
    /\ Save(mem, "tell") /\ UNCHANGED <<thread, landed>>

\* The outcome is unknown: the message may still be on its way.
SendUnknown ==
    /\ Sends /\ Fault /\ disk' = mem /\ Goes(mem, "idle")
    /\ air' \in {air, IF Found = 0 THEN air \cup {This} ELSE air}
    /\ UNCHANGED <<thread, landed>>

\* The observer has manual work that waits to be retried.  On a first attempt
\* nothing was sent; on a later one the earlier submission stays unknown.
Deferred == IF pc = "send" THEN Expired ELSE mem
SendDeferred ==
    /\ Sends /\ thread[Here].by = "manual" /\ ~thread[Here].active
    /\ Fails(Deferred) /\ UNCHANGED <<thread, air, landed>>

-----------------------------------------------------------------------------
(* The notice, after the team's lock is released: service.Assign with the  *)
(* notice's own identity, which the lead's thread takes once.              *)
Challenging == check.active /\ ~mem.paused /\ mem.notice # None

TellNothing ==
    /\ pc = "tell" /\ ~Challenging /\ Goes(mem, "idle")
    /\ UNCHANGED <<disk, faults, world, sky>>

Tell ==
    /\ pc = "tell" /\ Challenging /\ member[mem.notice.from] = "ready"
    /\ \/ Save([mem EXCEPT !.notice = None], "idle")
       \/ Fault /\ Goes(mem, "idle") /\ UNCHANGED disk
    /\ UNCHANGED <<world, sky>>

TellFails ==
    /\ pc = "tell" /\ Challenging /\ Goes(mem, "idle")
    /\ \/ member[mem.notice.from] # "ready" /\ UNCHANGED faults
       \/ Fault
    /\ UNCHANGED <<disk, world, sky>>

Crash ==
    /\ pc # "idle" /\ Fault /\ check' = NoCheck
    /\ UNCHANGED <<disk, world, sky>>

\* progressAPI: pause or resume, or another interval, which moves the time at
\* which the next check is due.
Settings ==
    /\ "pause" \in cast.does /\ pc = "idle" /\ ~refused /\ Ready # {}
    /\ \E p \in BOOLEAN, l \in {"fresh", "old"} :
          disk' = [disk EXCEPT !.paused = p, !.last = IF @ = "never" THEN @ ELSE l]
    /\ UNCHANGED <<check, faults, world, sky>>

-----------------------------------------------------------------------------
(* The rest of the world *)
\* Time passes between checks.
IntervalPasses ==
    /\ pc = "idle" /\ disk.last = "fresh" /\ disk' = [disk EXCEPT !.last = "old"]
    /\ UNCHANGED <<check, faults, world, sky>>
DeadlinePasses ==
    /\ pc = "idle" /\ disk.pending # None /\ ~disk.pending.late
    /\ disk' = [disk EXCEPT !.pending.late = TRUE]
    /\ UNCHANGED <<check, faults, world, sky>>

Work ==
    /\ "idle" \in cast.does /\ working' = ~working
    /\ UNCHANGED <<disk, check, world, cast, refused, faults>>

\* A lifecycle, recovery or provider operation takes the runtime lock.
Refuse ==
    /\ "operation" \in cast.does /\ pc = "idle" /\ ~refused /\ Fault /\ refused' = TRUE
    /\ UNCHANGED <<disk, check, world, cast, working>>
Allow ==
    /\ refused /\ refused' = FALSE
    /\ UNCHANGED <<disk, check, world, cast, working, faults>>

Elsewhere == UNCHANGED <<disk, check, drawn, sky, faults>>
Unlocked  == pc \in {"idle", "tell"}        \* the team's operation lock

\* Members, from teamruntime: retirement waits until the thread is quiet and
\* every submission to it is settled.
Add(o) ==
    /\ "team" \in cast.does /\ Unlocked /\ member[o] = "absent" /\ \A x \in 1..(o - 1) : member[x] # "absent"
    /\ member' = [member EXCEPT ![o] = "ready"]
    /\ UNCHANGED <<model, thread, air, landed>> /\ Elsewhere
Leave(o) ==
    /\ "team" \in cast.does /\ Unlocked /\ member[o] = "ready" /\ member' = [member EXCEPT ![o] = "leaving"]
    /\ UNCHANGED <<model, thread, air, landed>> /\ Elsewhere
Retire(o) ==
    /\ Unlocked /\ member[o] = "leaving"
    /\ ~thread[o].active /\ ~thread[o].queued /\ \A c \in Checks : <<c, o>> \notin air
    /\ member' = [member EXCEPT ![o] = "retired"]
    /\ UNCHANGED <<model, thread, air, landed>> /\ Elsewhere
Configure(o) ==
    /\ "configure" \in cast.does /\ Unlocked /\ member[o] = "ready" /\ ~thread[o].active
    /\ model' = [model EXCEPT ![o] = 1 - @]
    /\ UNCHANGED <<member, thread, air, landed>> /\ Elsewhere

\* The observer's thread.  A user assigns it work of his own, or queues it
\* behind the turn that runs; a queue is started by the app server itself.
Began(t) == [t EXCEPT !.turn = @ + 1, !.active = TRUE, !.by = "manual", !.stopping = FALSE]
Assign(o) ==
    /\ "manual" \in cast.does /\ Unlocked /\ member[o] = "ready" /\ ~thread[o].active /\ thread[o].turn < MaxTurns
    /\ thread' = [thread EXCEPT ![o] = Began(@)]
    /\ UNCHANGED <<member, model, air, landed>> /\ Elsewhere
Queue(o) ==
    /\ "queue" \in cast.does /\ Unlocked /\ member[o] = "ready" /\ thread[o].active /\ ~thread[o].queued
    /\ thread' = [thread EXCEPT ![o].queued = TRUE]
    /\ UNCHANGED <<member, model, air, landed>> /\ Elsewhere
QueueStarts(o) ==
    /\ thread[o].queued /\ ~thread[o].active /\ thread[o].turn < MaxTurns
    /\ thread' = [thread EXCEPT ![o] = [Began(@) EXCEPT !.queued = FALSE]]
    /\ UNCHANGED <<member, model, air, landed>> /\ Elsewhere

Checked(o) == \E c \in Checks : <<c, o, thread[o].turn>> \in landed
TurnEnds(o) ==
    /\ thread[o].active
    /\ \E r \in IF Checked(o) THEN Results ELSE {Quiet.result} :
          thread' = [thread EXCEPT ![o].active = FALSE, ![o].stopping = FALSE,
                         ![o].result = IF thread[o].stopping THEN Quiet.result ELSE r]
    /\ UNCHANGED <<member, model, air, landed>> /\ Elsewhere

\* A check that was queued, or whose answer was lost, begins its turn once
\* the thread is idle, or never.
Arrives(c, o) ==
    /\ <<c, o>> \in air /\ ~thread[o].active /\ air' = air \ {<<c, o>>} /\ Lands(c, o)
    /\ UNCHANGED <<member, model>> /\ Elsewhere
Lost(c, o) ==
    /\ <<c, o>> \in air /\ air' = air \ {<<c, o>>}
    /\ UNCHANGED <<member, model, thread, landed>> /\ Elsewhere

-----------------------------------------------------------------------------
Settle == SettleHeld \/ SettleResult \/ SettleInterrupt \/ SettleLate \/ SettleWait
Look   == /\ pc = "look"
          /\ \/ LookSkipped \/ LookAgain \/ LookFirst \/ LookEarly
             \/ LookBusy \/ LookSend \/ LookUnrefreshed
Send   == SendAnswered \/ SendQueued \/ SendUnknown \/ SendDeferred
Telling == TellNothing \/ Tell \/ TellFails
Step   == Settle \/ Look \/ Send \/ Telling

Next ==
    \/ Begin(TRUE) \/ Begin(FALSE) \/ DropRetired \/ ReadFails \/ Step \/ Crash \/ Settings
    \/ IntervalPasses \/ DeadlinePasses \/ Work \/ Refuse \/ Allow
    \/ \E o \in Observers :
          \/ Add(o) \/ Leave(o) \/ Retire(o) \/ Configure(o)
          \/ Assign(o) \/ Queue(o) \/ QueueStarts(o) \/ TurnEnds(o)
          \/ \E c \in Checks : Arrives(c, o) \/ Lost(c, o)

Spec == Init /\ [][Next]_vars

\* The ticker fires every minute and gets the mutex in its turn, a check that
\* began goes on, session operations end, time passes whether or not a check
\* runs, and an interrupted turn stops.
FairSpec ==
    /\ Spec /\ SF_vars(Begin(FALSE)) /\ WF_vars(Step) /\ WF_vars(Allow)
    /\ SF_vars(DeadlinePasses)
    /\ \A o \in Observers : WF_vars(TurnEnds(o) /\ thread[o].stopping)

-----------------------------------------------------------------------------
\* An uncertain outcome never permits a replacement: at no time is more than
\* one scheduled check on its way to an observer or in a turn that runs
\* (the pending record outlives crashes, lost answers and the deadline).
Outstanding(c) == \E o \in Observers :
    <<c, o>> \in air \/ (thread[o].active /\ <<c, o, thread[o].turn>> \in landed)
OneCheck == Cardinality({c \in 1..drawn : Outstanding(c)}) <= 1

\* The lead is challenged only about a concern that is still open: a notice
\* of a concern that was resolved meanwhile is withdrawn with it.
NoStaleChallenge ==
    /\ disk.notice # None => disk.concern # None
    /\ (pc = "tell" /\ mem.notice # None) => disk.concern # None

\* An open challenge reaches the lead while development goes on, whether or
\* not another check is due: it is not left behind by a failed delivery.  Only
\* a late check nobody knows the submission of keeps it back.
NoticeDelivered ==
    disk.notice # None ~>
        \/ disk.notice = None \/ disk.paused \/ ~working
        \/ member[disk.notice.from] # "ready"
        \/ disk.pending # None /\ disk.pending.late /\ Turns(disk.pending) = {}

=============================================================================
