------------------------- MODULE BrowserNotifications -------------------------
(***************************************************************************)
(* Browser notifications of one session (web/attention.go,                 *)
(* notifications.go, notifications_store.go).  A worker observes the       *)
(* session from cached activity, reduces what it saw to an event and a     *)
(* baseline, saves both with an outbox of one delivery per browser, and    *)
(* pushes what is due.  Users register browsers, mute the session, look at *)
(* it, send tests; sessions are deleted and made again under their name.   *)
(*                                                                         *)
(* The observation and the push happen outside the store's lock, so the    *)
(* world and the store change between the worker's steps.  A change is     *)
(* saved before it is in memory; when the save fails nobody knows which of *)
(* the two the file holds, and the store refuses everything until the      *)
(* portal starts again.                                                    *)
(***************************************************************************)
EXTENDS FiniteSets, Naturals

CONSTANTS
    Requests,      \* blocking questions, each asked once
    Endpoints,     \* push subscriptions of browsers
    None,
    MaxRegs,       \* registration identities
    MaxTurns,      \* lead turns, each with an identity of its own
    MaxInst,       \* sessions made under the name
    MaxTries,      \* attempts at a delivery
    OutboxLimit,   \* deliveries the store keeps
    BrowserLimit,  \* registrations it keeps
    Casts          \* what happens around the worker, and a bound on it

Doings == {"turns", "peer", "ask", "browser", "mute", "visit", "test", "off", "recreate",
           "hold", "lapse"}

ASSUME NotificationsAssumption ==
    /\ None \notin Requests \cup Endpoints
    /\ {MaxRegs, MaxTurns, MaxInst, MaxTries, OutboxLimit, BrowserLimit} \subseteq Nat
    /\ MaxInst # 0    \* there is a session
    /\ Casts \subseteq [does : SUBSET Doings, faults : Nat, acts : Nat]

VARIABLES
    cast,          \* never changes
    world,         \* the session: which one, whether eligible, lead, peer, requests
    cache,         \* the activity the portal has seen of its lead and peer
    store,         \* browsers, preference, baseline and outbox in memory
    disk,          \* and in the file
    failed,        \* the store is unavailable
    presence,      \* browsers that show the session now
    job,           \* the worker
    off,           \* delivery is switched off for the workspace
    wish,          \* history: what the user was told of the session's preference
    drawn,         \* registration identities are random and never drawn again
    dropped,       \* history: registrations the user was told are removed
    emitted,       \* history: events emitted
    again,         \* history: an event was emitted twice
    faults, acts

vars == <<cast, world, cache, store, disk, failed, presence, job, off, wish, drawn,
          dropped, emitted, again, faults, acts>>

Regs  == 1..MaxRegs
Slots == Regs \X {"session", "test"}
Keys  == (1..MaxTurns) \cup Requests \cup Regs
Event == [inst : 0..MaxInst, kind : {"input", "done", "test"}, key : Keys, rev : Nat]
NoJob == [pc |-> "rest", seen |-> None, slot |-> None, event |-> None, endpoint |-> None]
NoBaseline == [inst |-> 0, eligible |-> FALSE, stale |-> FALSE, lead |-> 0, armed |-> 0,
               completed |-> 0, requests |-> {}, rev |-> 0, event |-> None]
NoBrowser == [st |-> "none", endpoint |-> None, lapsed |-> FALSE]
NoStore == [browsers |-> [r \in Regs |-> NoBrowser],
            pref |-> [inst |-> 0, on |-> TRUE], base |-> NoBaseline,
            outbox |-> [s \in Slots |-> None]]
NoActivity == [turn |-> 0, status |-> "none", requests |-> {}]

ID(e) == <<e.inst, e.kind, e.key>>
Registered(s, r) == s.browsers[r].st # "none"
Pending(s) == {x \in Slots : s.outbox[x] # None}

\* notificationStore.save refuses a state past its limits.
Saveable(s) ==
    /\ Cardinality(Pending(s)) <= OutboxLimit
    /\ Cardinality({r \in Regs : Registered(s, r)}) <= BrowserLimit

TypeOK ==
    /\ cast \in Casts /\ failed \in BOOLEAN /\ off \in BOOLEAN /\ again \in BOOLEAN
    /\ world \in [inst : 1..MaxInst, eligible : BOOLEAN, asked : SUBSET Requests,
                  turn : 0..MaxTurns, turns : 0..MaxTurns, status : {"none", "running", "completed", "failed"},
                  requests : SUBSET Requests, peer : BOOLEAN, bind : {"none", "on", "off"},
                  gone : BOOLEAN]
    /\ job.pc \in {"rest", "reduce", "pick", "look", "recheck", "post"}
    /\ \A s \in {store, disk} :
          /\ s.base.event # None => s.base.event \in Event
          /\ \A x \in Slots : s.outbox[x] # None =>
                /\ s.outbox[x].event \in Event /\ s.outbox[x].tries \in 0..(MaxTries - 1)
                /\ Registered(s, x[1])
          /\ Saveable(s)
    /\ wish \in [1..MaxInst -> {"on", "off", "any"}] /\ drawn \in 0..MaxRegs
    /\ dropped \subseteq 1..drawn

Init ==
    /\ cast \in Casts
    /\ world = [inst |-> 1, eligible |-> TRUE, turn |-> 0, turns |-> 0, status |-> "none",
                requests |-> {}, asked |-> {}, peer |-> FALSE, bind |-> "none", gone |-> FALSE]
    /\ cache = [lead |-> NoActivity, peer |-> FALSE, inst |-> 1, fresh |-> TRUE]
    /\ store = NoStore /\ disk = NoStore /\ failed = FALSE
    /\ presence = [r \in Regs |-> None] /\ job = NoJob /\ off = FALSE
    /\ wish = [i \in 1..MaxInst |-> "on"] /\ drawn = 0 /\ dropped = {} /\ emitted = {} /\ again = FALSE
    /\ faults = 0 /\ acts = 0

Fault == faults < cast.faults /\ faults' = faults + 1
Act(d) == d \in cast.does /\ acts < cast.acts /\ acts' = acts + 1

-----------------------------------------------------------------------------
(* notificationStore.change: the copy is saved, then it is the state.  A   *)
(* save that fails, for whatever reason, fences the store.                 *)
Kept(s) ==
    /\ ~failed /\ (s = store \/ Saveable(s))
    /\ store' = s /\ disk' = s /\ UNCHANGED <<failed, faults>>
Unkept(s) ==
    /\ ~failed /\ s # store /\ failed' = TRUE /\ UNCHANGED store
    /\ IF Saveable(s) THEN Fault /\ disk' \in {disk, s} ELSE UNCHANGED <<disk, faults>>

\* notificationEnabled: on unless this very session was muted.
Enabled(s, inst) == s.pref.inst # inst \/ s.pref.on

-----------------------------------------------------------------------------
(* attention.go *)

\* The lead rests on a completed turn and nobody works or waits.
AllIdle(o) == o.status # "running" /\ ~o.peer
Resting(o) == o.requests = {} /\ AllIdle(o) /\ o.status = "completed"

\* attentionRelevant
Relevant(e, o) ==
    IF e.kind = "done" THEN Resting(o) /\ e.inst = o.inst /\ e.key = o.turn
                       ELSE e.inst = o.inst /\ e.key \in o.requests

\* reduceAttention.  After a gap there is a new baseline: what is going on is
\* known and not news, and an event that is still current stays unread.
Gap(b, o) == b.inst # o.inst \/ ~b.eligible \/ b.stale

RebasedArmed(b, o) == [b EXCEPT !.armed = o.turn, !.completed = 0]
Rebased(b, o) ==
    [b EXCEPT !.armed = IF o.status = "running" THEN o.turn ELSE 0,
              !.completed = IF o.status = "completed" THEN o.turn ELSE 0,
              !.event = IF b.inst = o.inst /\ b.event # None /\ Relevant(b.event, o)
                        THEN b.event ELSE None]
Followed(b, o) ==
    LET c == IF o.turn # b.lead THEN [b EXCEPT !.armed = o.turn, !.event = None] ELSE b
    IN  IF o.turn # 0 /\ o.status = "running" THEN [c EXCEPT !.armed = o.turn] ELSE c

\* The event is dropped when what it was about is over.
Current(b, o) ==
    IF \/ b.event = None
       \/ b.event.kind = "done" /\ Resting(o)
       \/ b.event.inst = o.inst /\ b.event.key \in o.requests
    THEN b ELSE [b EXCEPT !.event = None]

Raised(b, o, kind, key) ==
    [b EXCEPT !.rev = @ + 1,
              !.event = [inst |-> o.inst, kind |-> kind, key |-> key, rev |-> b.rev + 1]]

\* The baselines an observation may lead to, with the emission.  Requests are
\* taken in the order of their digests, which is any.
Reduce(b, o) ==
    LET gap  == Gap(b, o)
        same == [b EXCEPT !.inst = o.inst, !.eligible = o.eligible]
        c    == [Current(IF gap THEN Rebased(b, o) ELSE Followed(b, o), o) EXCEPT
                    !.inst = o.inst, !.eligible = TRUE, !.stale = FALSE,
                    !.lead = o.turn, !.requests = o.requests]
        new  == o.requests \ b.requests
    IN  IF o.gone THEN {[base |-> [b EXCEPT !.eligible = FALSE, !.event = None], emit |-> FALSE]}
        ELSE IF ~o.eligible THEN {[base |-> [same EXCEPT !.event = None, !.armed = 0], emit |-> FALSE]}
        ELSE IF ~o.fresh THEN {[base |-> same, emit |-> FALSE]}
        ELSE IF o.requests # {}
        THEN IF new = {} /\ c.event # None /\ c.event.kind # "done"
             THEN {[base |-> c, emit |-> FALSE]}
             ELSE {IF c.event # None /\ ID(c.event) = <<o.inst, "input", r>>
                   THEN [base |-> c, emit |-> FALSE]
                   ELSE [base |-> Raised(c, o, "input", r), emit |-> ~gap /\ new # {}]
                     : r \in IF new # {} THEN new ELSE o.requests}
        ELSE IF AllIdle(o) /\ o.turn # 0 /\ o.status = "completed"
                /\ c.armed = o.turn /\ c.completed # o.turn
        THEN {[base |-> [Raised(c, o, "done", o.turn) EXCEPT !.completed = o.turn], emit |-> TRUE]}
        ELSE {[base |-> c, emit |-> FALSE]}

-----------------------------------------------------------------------------
(* reconcile: the session is observed, then reduced under the lock.        *)
Seen == [inst |-> world.inst, gone |-> world.gone,
         eligible |-> world.eligible /\ world.bind = "none",
         fresh |-> cache.fresh /\ cache.inst = world.inst, turn |-> cache.lead.turn,
         status |-> cache.lead.status, requests |-> cache.lead.requests, peer |-> cache.peer]

Quiet == UNCHANGED <<cast, world, cache, presence, off, wish, drawn, dropped, acts>>
Past  == UNCHANGED <<emitted, again>>

Observe ==
    /\ job.pc = "rest" /\ ~failed
    /\ job' = [job EXCEPT !.pc = "reduce", !.seen = Seen]
    /\ UNCHANGED <<store, disk, failed, faults>> /\ Quiet /\ Past

\* Deliveries that have lost their browser, time or event are removed.
StandsLong(s, x) ==
    LET d == s.outbox[x]
    IN  /\ d # None /\ ~off /\ s.browsers[x[1]].st = "on"
        /\ d.event.kind # "test" =>
              /\ s.base.eligible /\ s.base.event # None /\ ID(s.base.event) = ID(d.event)
              /\ s.base.inst = d.event.inst /\ Enabled(s, d.event.inst)
Stands(s, x) ==
    LET d == s.outbox[x]
    IN  /\ d # None /\ ~off /\ s.browsers[x[1]].st = "on" /\ ~d.expired
        /\ d.event.kind # "test" =>
              /\ s.base.eligible /\ s.base.event # None /\ ID(s.base.event) = ID(d.event)
              /\ s.base.inst = d.event.inst /\ Enabled(s, d.event.inst)
Pruned(s) == [s EXCEPT !.outbox = [x \in Slots |-> IF Stands(s, x) THEN @[x] ELSE None]]

\* One delivery per browser; a full outbox takes no new one and still replaces.
Admitted(s, e) ==
    LET news  == {x \in Slots : x[2] = "session" /\ s.browsers[x[1]].st = "on"}
        fresh == news \ Pending(s)
        room  == OutboxLimit - Cardinality(Pending(s))
        fits  == IF Cardinality(fresh) <= room THEN Cardinality(fresh) ELSE room
    IN  {[s EXCEPT !.outbox = [x \in Slots |->
            IF x \in (news \ fresh) \cup taken
            THEN [event |-> e, tries |-> 0, due |-> TRUE, expired |-> FALSE] ELSE @[x]]]
           : taken \in {t \in SUBSET fresh : Cardinality(t) = fits}}

\* reconcileNotificationState: registrations past their time, the baseline,
\* the deliveries that are over, and then the new ones.
Lapsed(s) ==
    [s EXCEPT !.browsers = [r \in Regs |->
        IF Registered(s, r) /\ @[r].lapsed THEN [@[r] EXCEPT !.st = "dead"] ELSE @[r]]]
Reconciled(s, o, out) ==
    LET t == Pruned([Lapsed(s) EXCEPT !.base = out.base])
    IN  IF out.emit /\ ~off /\ Enabled(s, o.inst) THEN Admitted(t, out.base.event) ELSE {t}

Reconcile ==
    /\ job.pc = "reduce"
    /\ \E out \in Reduce(store.base, job.seen) : \E s \in Reconciled(store, job.seen, out) :
          LET id == IF out.emit THEN {ID(out.base.event)} ELSE {}
          IN  /\ \/ /\ Kept(s) /\ job' = IF off THEN NoJob ELSE [NoJob EXCEPT !.pc = "pick"]
                 \/ /\ Unkept(s) /\ job' = NoJob
              /\ emitted' = IF disk' = s THEN emitted \cup id ELSE emitted
              /\ again' = (again \/ (disk' = s /\ id \cap emitted # {}))
    /\ Quiet
ReconcileFenced ==
    /\ job.pc = "reduce" /\ failed /\ job' = NoJob
    /\ UNCHANGED <<store, disk, failed, faults>> /\ Quiet /\ Past

-----------------------------------------------------------------------------
(* sendNext *)
Shown(x) == presence[x[1]] # None /\ x[2] = "session"
               /\ presence[x[1]].inst = store.outbox[x].event.inst

\* A browser that shows the session waits; one that showed this event is done.
PickShown(x) ==
    /\ job.pc = "pick" /\ ~failed /\ ~off /\ store.outbox[x] # None /\ store.outbox[x].due
    /\ Shown(x) /\ presence[x[1]].event = ID(store.outbox[x].event)
    /\ LET s == [store EXCEPT !.outbox[x] = None] IN Kept(s) \/ Unkept(s)
    /\ UNCHANGED job /\ Quiet /\ Past

Pick(x) ==
    /\ job.pc = "pick" /\ ~failed /\ ~off /\ store.outbox[x] # None
    /\ store.outbox[x].due /\ ~Shown(x)
    /\ job' = [job EXCEPT !.pc = "look", !.slot = x, !.event = store.outbox[x].event,
                          !.endpoint = store.browsers[x[1]].endpoint]
    /\ UNCHANGED <<store, disk, failed, faults>> /\ Quiet /\ Past

PickNothing ==
    /\ job.pc = "pick"
    /\ failed \/ off \/ \A x \in Slots : store.outbox[x] # None => ~store.outbox[x].due \/ Shown(x)
    /\ job' = NoJob /\ UNCHANGED <<store, disk, failed, faults>> /\ Quiet /\ Past

\* The session is observed again: the event must still be news.
Look ==
    /\ job.pc = "look"
    /\ job' = IF job.event.kind = "test" \/ (~Seen.gone /\ Seen.eligible /\ Seen.fresh /\ Relevant(job.event, Seen))
              THEN [job EXCEPT !.pc = "recheck"] ELSE NoJob
    /\ UNCHANGED <<store, disk, failed, faults>> /\ Quiet /\ Past

\* And the copied job is compared with the store again, under the lock.
Mine(s) == s.outbox[job.slot] # None /\ s.outbox[job.slot].event = job.event
StillRegistered ==
    /\ store.browsers[job.slot[1]].st = "on"
    /\ store.browsers[job.slot[1]].endpoint = job.endpoint
    /\ ~store.browsers[job.slot[1]].lapsed
StillEnabled == job.event.kind = "test" \/ Enabled(store, job.event.inst)
StillWantedAsPicked == ~failed /\ ~off
StillWanted ==
    /\ ~failed /\ ~off /\ Mine(store) /\ StillRegistered /\ ~store.outbox[job.slot].expired
    /\ ~Shown(job.slot) /\ StillEnabled
    /\ job.event.kind # "test" =>
          /\ store.base.eligible /\ store.base.event # None
          /\ ID(store.base.event) = ID(job.event) /\ store.base.inst = job.event.inst
Recheck ==
    /\ job.pc = "recheck"
    /\ job' = IF StillWanted THEN [job EXCEPT !.pc = "post"] ELSE NoJob
    /\ UNCHANGED <<store, disk, failed, faults>> /\ Quiet /\ Past

\* The provider's answer, or none: a failed attempt is repeated later, a
\* subscription that is gone retires its registration.
Settled(s, answer) ==
    LET x == job.slot
        d == s.outbox[x]
        t == [s EXCEPT !.outbox[x] = None]
    IN  IF ~Mine(s) THEN s
        ELSE CASE answer = "gone" -> [t EXCEPT !.browsers[x[1]].st = "dead"]
               [] answer = "retry" /\ d.tries + 1 < MaxTries ->
                     [s EXCEPT !.outbox[x].tries = @ + 1, !.outbox[x].due = FALSE]
               [] OTHER -> t
Post ==
    /\ job.pc = "post"
    /\ \E answer \in {"accepted", "gone", "retry", "refused"} :
          LET s == Settled(store, answer)
          IN  \/ Kept(s)
              \/ Unkept(s)
              \/ failed /\ UNCHANGED <<store, disk, failed, faults>>
    /\ job' = NoJob /\ Quiet /\ Past

Waited(x) ==
    /\ store.outbox[x] # None /\ ~store.outbox[x].due /\ ~failed
    /\ store' = [store EXCEPT !.outbox[x].due = TRUE] /\ disk' = store'
    /\ UNCHANGED <<failed, faults, job>> /\ Quiet /\ Past
Expires(x) ==
    /\ store.outbox[x] # None /\ ~store.outbox[x].expired /\ ~failed
    /\ store' = [store EXCEPT !.outbox[x].expired = TRUE] /\ disk' = store'
    /\ UNCHANGED <<failed, faults, job>> /\ Quiet /\ Past

\* The time of a subscription passes.
Lapse(r) ==
    /\ Act("lapse") /\ ~failed /\ store.browsers[r].st = "on" /\ ~store.browsers[r].lapsed
    /\ store' = [store EXCEPT !.browsers[r].lapsed = TRUE] /\ disk' = store'
    /\ UNCHANGED <<cast, world, cache, presence, off, job, wish, drawn, dropped, failed, faults>>
    /\ Past

-----------------------------------------------------------------------------
(* The interface: browserNotificationsAPI, attentionAPI                    *)
Answers(s) == Kept(s) \/ Unkept(s)
Other == UNCHANGED <<cast, world, cache, presence, off, job>> /\ Past

\* A new subscription, or one the server knows, which keeps its identity.
Register(e) ==
    /\ Act("browser")
    /\ LET known == {r \in Regs : store.browsers[r].endpoint = e}
           new(r) == [store EXCEPT !.browsers[r] = [NoBrowser EXCEPT !.st = "on", !.endpoint = e]]
       IN  \/ \E r \in known : Answers(new(r)) /\ UNCHANGED drawn
           \/ /\ known = {} /\ drawn < MaxRegs /\ drawn' = drawn + 1
              /\ Answers(new(drawn + 1))
    /\ UNCHANGED <<wish, dropped>> /\ Other

Disable(r) ==
    /\ Act("browser") /\ Registered(store, r)
    /\ LET s == [store EXCEPT !.browsers[r] = NoBrowser,
                              !.outbox = [x \in Slots |-> IF x[1] = r THEN None ELSE @[x]]]
       IN  \/ Kept(s) /\ dropped' = dropped \cup {r}
           \/ Unkept(s) /\ UNCHANGED dropped
    /\ UNCHANGED <<wish, drawn>> /\ Other

Test(r) ==
    /\ Act("test") /\ store.browsers[r].st = "on" /\ ~off
    /\ Answers([store EXCEPT !.outbox[<<r, "test">>] =
          [event |-> [inst |-> 0, kind |-> "test", key |-> r, rev |-> acts],
           tries |-> 0, due |-> FALSE, expired |-> FALSE]])
    /\ UNCHANGED <<wish, drawn, dropped>> /\ Other

Prefer(on) ==
    /\ Act("mute") /\ ~world.gone
    /\ LET i == world.inst
           s == [store EXCEPT !.pref = [inst |-> i, on |-> on],
                   !.outbox = [x \in Slots |->
                      IF @[x] # None /\ @[x].event.inst = i THEN None ELSE @[x]]]
       IN  \/ Kept(s) /\ wish' = [wish EXCEPT ![i] = IF on THEN "on" ELSE "off"]
           \/ Unkept(s) /\ wish' = [wish EXCEPT ![i] = "any"]
    /\ UNCHANGED <<drawn, dropped>> /\ Other

\* A page shows the session, and perhaps its event, for a while.
Visit(r) ==
    /\ Act("visit") /\ ~failed /\ ~world.gone /\ store.browsers[r].st = "on" /\ presence[r] = None
    /\ \E e \in {None} \cup (IF store.base.event # None THEN {ID(store.base.event)} ELSE {}) :
          presence' = [presence EXCEPT ![r] = [inst |-> world.inst, event |-> e]]
    /\ UNCHANGED <<cast, world, cache, store, disk, failed, off, job, wish, drawn, dropped, faults>> /\ Past
Leaves(r) ==
    /\ presence[r] # None /\ presence' = [presence EXCEPT ![r] = None]
    /\ UNCHANGED <<cast, world, cache, store, disk, failed, off, job, wish, drawn, dropped, faults, acts>>
    /\ Past

\* bindCreationNotificationPreference: the request's choice is saved before
\* its receipt is ready; a choice made meanwhile stands.
Bind ==
    /\ world.bind # "none" /\ ~world.gone
    /\ LET s == IF store.pref.inst = world.inst THEN store
                ELSE [store EXCEPT !.pref = [inst |-> world.inst, on |-> world.bind = "on"]]
       IN  \/ Kept(s) /\ world' = [world EXCEPT !.bind = "none"]
           \/ Unkept(s) /\ UNCHANGED world
    /\ UNCHANGED <<cast, cache, presence, off, job, wish, drawn, dropped, acts>> /\ Past

-----------------------------------------------------------------------------
(* The session and the portal                                              *)
Turning == UNCHANGED <<cast, cache, store, disk, failed, presence, job, off, wish, drawn, dropped, faults>>
             /\ Past

TurnStarts ==
    /\ ~world.gone /\ Act("turns") /\ world.status # "running" /\ world.turns < MaxTurns
    /\ world' = [world EXCEPT !.turn = world.turns + 1, !.turns = @ + 1, !.status = "running"]
    /\ Turning
TurnEnds ==
    /\ ~world.gone /\ Act("turns") /\ world.status = "running"
    /\ \E st \in {"completed", "failed"} :
          world' = [world EXCEPT !.status = st, !.requests = {}]
    /\ Turning
PeerWorks ==
    /\ ~world.gone /\ Act("peer") /\ world' = [world EXCEPT !.peer = ~@] /\ Turning
Ask(r) ==
    /\ Act("ask") /\ world.status = "running" /\ r \notin world.asked
    /\ world' = [world EXCEPT !.requests = @ \cup {r}, !.asked = @ \cup {r}] /\ Turning
Reply(r) ==
    /\ Act("ask") /\ r \in world.requests
    /\ world' = [world EXCEPT !.requests = @ \ {r}] /\ Turning
Hold ==
    /\ ~world.gone /\ Act("hold") /\ world' = [world EXCEPT !.eligible = ~@] /\ Turning

\* The session is deleted, and another is made under its name: by request
\* with a choice, or from a terminal without one.
Delete ==
    /\ Act("recreate") /\ ~world.gone /\ world' = [world EXCEPT !.gone = TRUE] /\ Turning
Recreate ==
    /\ Act("recreate") /\ world.gone /\ world.inst < MaxInst
    /\ \E choice \in {"none", "on", "off"} :
          /\ world' = [world EXCEPT !.inst = @ + 1, !.turn = 0, !.status = "none", !.gone = FALSE,
                          !.requests = {}, !.peer = FALSE, !.eligible = TRUE, !.bind = choice]
          /\ wish' = [wish EXCEPT ![world.inst + 1] = IF choice = "off" THEN "off" ELSE "on"]
    /\ UNCHANGED <<cast, cache, store, disk, failed, presence, job, off, drawn, dropped, faults>>
    /\ Past

\* The caches of the lead and of the peer are filled one at a time.
Cached ==
    /\ LET lead == [turn |-> world.turn, status |-> world.status, requests |-> world.requests]
       IN  \/ /\ cache.fresh /\ cache.inst = world.inst
              /\ \/ cache' = [cache EXCEPT !.lead = lead]
                 \/ cache' = [cache EXCEPT !.peer = world.peer]
           \/ /\ ~cache.fresh \/ cache.inst # world.inst
              /\ cache' = [lead |-> lead, peer |-> world.peer, inst |-> world.inst, fresh |-> TRUE]
    /\ ~world.gone
    /\ UNCHANGED <<cast, world, store, disk, failed, presence, job, off, wish, drawn, dropped,
                   faults, acts>>
    /\ Past
Disconnected ==
    /\ Fault /\ cache.fresh /\ cache' = [cache EXCEPT !.fresh = FALSE]
    /\ UNCHANGED <<cast, world, store, disk, failed, presence, job, off, wish, drawn, dropped, acts>> /\ Past
\* Nothing was observed for longer than a baseline lasts.
GapPasses ==
    /\ ~failed /\ ~cache.fresh /\ ~store.base.stale /\ store.base.inst # 0
    /\ store' = [store EXCEPT !.base.stale = TRUE] /\ disk' = store'
    /\ UNCHANGED <<failed, job, faults>> /\ Quiet /\ Past
SwitchOff ==
    /\ Act("off") /\ off' = ~off
    /\ UNCHANGED <<cast, world, cache, store, disk, failed, presence, job, wish, drawn, dropped, faults>>
    /\ Past

Restart ==
    /\ failed \/ faults < cast.faults
    /\ faults' = IF failed THEN faults ELSE faults + 1
    /\ store' = disk /\ failed' = FALSE /\ job' = NoJob
    /\ presence' = [r \in Regs |-> None] /\ cache' = [cache EXCEPT !.fresh = FALSE]
    /\ UNCHANGED <<cast, world, disk, off, wish, drawn, dropped, acts>> /\ Past

Worker ==
    \/ Observe \/ Reconcile \/ ReconcileFenced \/ PickNothing \/ Look \/ Recheck \/ Post
    \/ \E x \in Slots : PickShown(x) \/ Pick(x)

Next ==
    \/ Worker
    \/ \E x \in Slots : Waited(x) \/ Expires(x)
    \/ \E e \in Endpoints : Register(e)
    \/ \E r \in Regs : Disable(r) \/ Lapse(r) \/ Test(r) \/ Visit(r) \/ Leaves(r)
    \/ Prefer(TRUE) \/ Prefer(FALSE) \/ Bind
    \/ TurnStarts \/ TurnEnds \/ PeerWorks \/ Hold \/ Delete \/ Recreate
    \/ \E r \in Requests : Ask(r) \/ Reply(r)
    \/ Cached \/ Disconnected \/ GapPasses \/ SwitchOff \/ Restart

Spec == Init /\ [][Next]_vars
\* The worker's ticker goes on, and time passes.
FairSpec ==
    Spec /\ WF_vars(Worker) /\ \A x \in Slots : WF_vars(Expires(x))

-----------------------------------------------------------------------------
\* A question or a completed turn is announced once: neither a gap in the
\* observation, nor a restart, nor another event in between announces it again.
EmittedOnce == ~again

\* No push leaves for a registration whose removal was confirmed, or for a
\* session whose last confirmed choice (in Settings, or of the request that
\* made it) is off, whatever happened between picking the delivery and
\* sending it, and whether or not the store could be saved in between.
NoUnwantedPush ==
    [][(job.pc = "recheck" /\ job'.pc = "post") =>
          /\ job.slot[1] \notin dropped
          /\ job.event.kind # "test" => wish[job.event.inst] # "off"]_vars

\* Nothing stays in the outbox for good: a delivery is accepted, refused,
\* withdrawn, or expires, unless the store is fenced.
OutboxDrains == \A x \in Slots : store.outbox[x] # None ~> (store.outbox[x] = None \/ failed)
=============================================================================
