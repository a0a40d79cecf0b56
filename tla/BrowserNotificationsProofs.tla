---------------------- MODULE BrowserNotificationsProofs ----------------------
(***************************************************************************)
(* An event is announced once, and no push leaves that the user was told   *)
(* would not, proved of BrowserNotifications for every number of browsers, *)
(* questions, turns, sessions, restarts and failed saves.                  *)
(*                                                                         *)
(* The argument for the first: the baseline, the worker's observation and  *)
(* the cache are ever later views of the session.  What one of them has    *)
(* seen and a later one misses is over, and is in no view that is later    *)
(* still; so an announced question is in the baseline or will never be     *)
(* seen again, and an announced turn is the baseline's completed one or    *)
(* was left behind.                                                        *)
(*                                                                         *)
(* For the second: a muted session has no delivery unless another has been *)
(* made under its name since; the worker's second look at the session      *)
(* drops a delivery of an earlier one; and while it looks nobody puts back *)
(* what a choice made meanwhile took out.                                  *)
(***************************************************************************)
EXTENDS BrowserNotifications, TLAPS

-----------------------------------------------------------------------------
(* Types *)
Status   == {"none", "running", "completed", "failed"}
Baseline == [inst : 0..MaxInst, eligible : BOOLEAN, stale : BOOLEAN, lead : 0..MaxTurns,
             armed : 0..MaxTurns, completed : 0..MaxTurns, requests : SUBSET Requests,
             rev : Nat, event : Event \cup {None}]
Browser  == [st : {"none", "on", "dead"}, endpoint : Endpoints \cup {None}, lapsed : BOOLEAN]
Delivery == [event : Event, tries : Nat, due : BOOLEAN, expired : BOOLEAN]
Stores   == [browsers : [Regs -> Browser], pref : [inst : 0..MaxInst, on : BOOLEAN],
             base : Baseline, outbox : [Slots -> Delivery \cup {None}]]
Seens    == [inst : 1..MaxInst, gone : BOOLEAN, eligible : BOOLEAN, fresh : BOOLEAN,
             turn : 0..MaxTurns, status : Status, requests : SUBSET Requests, peer : BOOLEAN]
Worlds   == [inst : 1..MaxInst, eligible : BOOLEAN, asked : SUBSET Requests,
             turn : 0..MaxTurns, turns : 0..MaxTurns, status : Status,
             requests : SUBSET Requests, peer : BOOLEAN, bind : {"none", "on", "off"},
             gone : BOOLEAN]
Caches   == [lead : [turn : 0..MaxTurns, status : Status, requests : SUBSET Requests],
             peer : BOOLEAN, inst : 1..MaxInst, fresh : BOOLEAN]
Jobs     == [pc : {"rest", "reduce", "pick", "look", "recheck", "post"}, seen : Seens \cup {None},
             slot : Slots \cup {None}, event : Event \cup {None}, endpoint : Endpoints \cup {None}]

WorldTypes == world \in Worlds /\ cache \in Caches
StoreTypes == store \in Stores /\ disk \in Stores
JobTypes ==
    /\ job \in Jobs
    /\ job.pc = "reduce" => job.seen \in Seens
    /\ job.pc \in {"look", "recheck", "post"} => job.slot \in Slots /\ job.event \in Event
UserTypes ==
    /\ wish \in [1..MaxInst -> {"on", "off", "any"}]
    /\ drawn \in 0..MaxRegs /\ dropped \subseteq 1..drawn
    /\ acts \in Nat /\ cast \in Casts

-----------------------------------------------------------------------------
(* Once *)
Reducing == job.pc = "reduce"

\* Only what was asked is seen anywhere, and what an earlier view has and a
\* later one misses, the last one misses too.
Asked ==
    /\ disk.base.requests \cup cache.lead.requests \cup world.requests \subseteq world.asked
    /\ Reducing => job.seen.requests \subseteq world.asked
Questions ==
    /\ (disk.base.requests \ cache.lead.requests) \cap world.requests = {}
    /\ Reducing => /\ (disk.base.requests \ job.seen.requests) \cap cache.lead.requests = {}
                   /\ (job.seen.requests \ cache.lead.requests) \cap world.requests = {}

\* The same of turns; and a completed turn stays completed.
Begun ==
    /\ disk.base.lead <= world.turns /\ cache.lead.turn <= world.turns /\ world.turn <= world.turns
    /\ Reducing => job.seen.turn <= world.turns
Turns ==
    /\ disk.base.lead \notin {0, cache.lead.turn} => world.turn # disk.base.lead
    /\ Reducing => /\ disk.base.lead \notin {0, job.seen.turn} => cache.lead.turn # disk.base.lead
                   /\ job.seen.turn \notin {0, cache.lead.turn} => world.turn # job.seen.turn
Completed ==
    /\ (cache.lead.status = "completed" /\ world.turn = cache.lead.turn /\ world.turn # 0)
          => world.status = "completed"
    /\ (Reducing /\ job.seen.status = "completed" /\ cache.lead.turn = job.seen.turn /\ job.seen.turn # 0)
          => cache.lead.status = "completed"

\* An announced question is known, or over.
Over(r) ==
    /\ r \in world.asked /\ r \notin world.requests /\ r \notin cache.lead.requests
    /\ Reducing => r \notin job.seen.requests
AskedOnce ==
    \A i \in 1..MaxInst, r \in Requests :
       <<i, "input", r>> \in emitted => r \in disk.base.requests \/ Over(r)

\* An announced turn is the baseline's, and completed for good, or left.
Ended(t) ==
    /\ world.turn = t => world.status = "completed"
    /\ cache.lead.turn = t => cache.lead.status = "completed"
    /\ (Reducing /\ job.seen.turn = t) => job.seen.status = "completed"
Left(t) == t \notin {world.turn, cache.lead.turn} /\ (Reducing => job.seen.turn # t)
DoneOnce ==
    \A i \in 1..MaxInst, t \in 1..MaxTurns :
       <<i, "done", t>> \in emitted =>
          /\ t <= world.turns
          /\ (disk.base.lead = t /\ disk.base.completed = t /\ Ended(t)) \/ Left(t)

-----------------------------------------------------------------------------
(* Unwanted pushes *)

\* The memory is the file, as long as nothing failed.
Synced == ~failed => store = disk

\* Who was told that a registration is removed has none.
Removed ==
    /\ \A r \in dropped : disk.browsers[r] = NoBrowser
    /\ \A x \in Slots : disk.outbox[x] # None => Registered(disk, x[1])

\* The choice that counts is saved, or is bound before the session is observed.
Muted ==
    /\ disk.pref.inst <= world.inst
    /\ wish[world.inst] = "off" =>
          \/ disk.pref = [inst |-> world.inst, on |-> FALSE]
          \/ disk.pref.inst # world.inst /\ world.bind = "off"
Unbound == (Reducing /\ job.seen.eligible /\ job.seen.inst = world.inst) => world.bind = "none"

\* A delivery is of a session that is or was, and not of a muted one.
Wanted(e) == e.kind # "test" =>
    /\ e.inst <= world.inst
    /\ e.inst = world.inst => wish[world.inst] # "off" /\ world.bind = "none"
Deliveries == \A x \in Slots : disk.outbox[x] # None => Wanted(disk.outbox[x].event)
Observed == Reducing => job.seen.inst <= world.inst

\* After the second look only a removed delivery may be unwanted.
Looked ==
    (job.pc = "recheck" /\ job.event.kind # "test") =>
       /\ job.event.inst \in 1..world.inst
       /\ Mine(disk) => wish[job.event.inst] # "off"

OnceInv ==
    /\ Asked /\ Questions /\ Begun /\ Turns /\ Completed
    /\ AskedOnce /\ DoneOnce /\ EmittedOnce
PushInv == Removed /\ Muted /\ Unbound /\ Observed /\ Deliveries /\ Looked
Types   == WorldTypes /\ StoreTypes /\ JobTypes /\ UserTypes
NoteInv == Types /\ Synced /\ OnceInv /\ PushInv

\* Only an identity that was drawn has a registration.
Known == \A r \in Regs : disk.browsers[r] # NoBrowser => r <= drawn

-----------------------------------------------------------------------------
(* Stores *)

LEMMA WithOutbox ==
    ASSUME NEW s \in Stores, NEW ob \in [Slots -> Delivery \cup {None}]
    PROVE  LET t == [s EXCEPT !.outbox = ob]
           IN  /\ t \in Stores /\ t.outbox = ob /\ t.browsers = s.browsers
               /\ t.pref = s.pref /\ t.base = s.base
BY DEF Stores

LEMMA WithBrowsers ==
    ASSUME NEW s \in Stores, NEW bs \in [Regs -> Browser]
    PROVE  LET t == [s EXCEPT !.browsers = bs]
           IN  /\ t \in Stores /\ t.browsers = bs /\ t.outbox = s.outbox
               /\ t.pref = s.pref /\ t.base = s.base
BY DEF Stores

LEMMA WithBase ==
    ASSUME NEW s \in Stores, NEW b \in Baseline
    PROVE  LET t == [s EXCEPT !.base = b]
           IN  /\ t \in Stores /\ t.base = b /\ t.outbox = s.outbox
               /\ t.pref = s.pref /\ t.browsers = s.browsers
BY DEF Stores

LEMMA WithPref ==
    ASSUME NEW s \in Stores, NEW p \in [inst : 0..MaxInst, on : BOOLEAN]
    PROVE  LET t == [s EXCEPT !.pref = p]
           IN  /\ t \in Stores /\ t.pref = p /\ t.outbox = s.outbox
               /\ t.base = s.base /\ t.browsers = s.browsers
BY DEF Stores

LEMMA StoreParts ==
    ASSUME NEW s \in Stores
    PROVE  /\ s.browsers \in [Regs -> Browser] /\ s.outbox \in [Slots -> Delivery \cup {None}]
           /\ s.base \in Baseline /\ s.pref \in [inst : 0..MaxInst, on : BOOLEAN]
BY DEF Stores

LEMMA NoBrowserTyped ==
    /\ NoBrowser \in Browser /\ NoBrowser.st = "none" /\ NoBrowser.endpoint = None
    /\ NoBrowser.lapsed = FALSE
BY DEF NoBrowser, Browser

LEMMA NoJobTyped == NoJob \in Jobs /\ NoJob.pc = "rest"
BY DEF NoJob, Jobs

\* A change is the state, or the store is fenced.
LEMMA AnswerSteps ==
    ASSUME Types, Synced, NEW s \in Stores, Kept(s) \/ Unkept(s)
    PROVE  StoreTypes' /\ Synced' /\ store = disk /\ disk' \in {disk, s}
BY DEF Types, StoreTypes, Synced, Kept, Unkept

-----------------------------------------------------------------------------
(* What is left alone *)

\* Nothing that decides what is announced changes; the worker may end.
SameViews ==
    /\ UNCHANGED <<world, emitted>> /\ (again' => again) /\ cache'.lead = cache.lead
    /\ disk'.base.requests = disk.base.requests
    /\ disk'.base.lead = disk.base.lead /\ disk'.base.completed = disk.base.completed
    /\ (job'.pc = job.pc /\ job'.seen = job.seen) \/ job'.pc # "reduce"

LEMMA OnceStays ==
    ASSUME OnceInv, SameViews
    PROVE  OnceInv'
<1>1. Reducing' => Reducing /\ job'.seen = job.seen
  BY DEF SameViews, Reducing
<1>2. UNCHANGED <<world, cache.lead, disk.base.requests, disk.base.lead, disk.base.completed,
                  emitted>>
  BY DEF SameViews
<1>3. Asked' /\ Questions'
  BY <1>1, <1>2 DEF OnceInv, Asked, Questions
<1>4. Begun' /\ Turns' /\ Completed'
  BY <1>1, <1>2 DEF OnceInv, Begun, Turns, Completed
<1>5. AskedOnce'
  BY <1>1, <1>2 DEF OnceInv, AskedOnce, Over
<1>6. DoneOnce'
  BY <1>1, <1>2 DEF OnceInv, DoneOnce, Ended, Left
<1>7. EmittedOnce'
  BY DEF OnceInv, EmittedOnce, SameViews
<1> QED
  BY <1>3, <1>4, <1>5, <1>6, <1>7 DEF OnceInv

\* No delivery is put in the outbox but a test.
SameDeliveries(s) ==
    \A x \in Slots : s.outbox[x] # None =>
       \/ disk.outbox[x] # None /\ s.outbox[x].event = disk.outbox[x].event
       \/ s.outbox[x].event.kind = "test"

LEMMA PushStays ==
    ASSUME Types, PushInv, Removed', SameDeliveries(disk'), disk'.pref = disk.pref,
           UNCHANGED <<world, wish>>, job' = job \/ job'.pc \notin {"reduce", "recheck"}
    PROVE  PushInv'
<1>1. Muted'
  BY DEF PushInv, Muted
<1>2. Unbound' /\ Observed'
  BY DEF PushInv, Unbound, Observed, Reducing
<1>3. Deliveries'
  BY DEF PushInv, Deliveries, Wanted, SameDeliveries
<1>4. Looked'
  <2> SUFFICES ASSUME job' = job, job.pc = "recheck", job.event.kind # "test"
               PROVE  /\ job.event.inst \in 1..world.inst
                      /\ Mine(disk') => wish[job.event.inst] # "off"
    BY DEF Looked, Mine
  <2>1. /\ job.event.inst \in 1..world.inst
        /\ Mine(disk) => wish[job.event.inst] # "off"
    BY DEF PushInv, Looked
  <2>2. job.slot \in Slots
    BY DEF Types, JobTypes
  <2>3. Mine(disk') => Mine(disk)
    BY <2>2 DEF Mine, SameDeliveries
  <2> QED
    BY <2>1, <2>3
<1> QED
  BY <1>1, <1>2, <1>3, <1>4 DEF PushInv

LEMMA SameIsSame ==
    ASSUME disk' = disk
    PROVE  SameDeliveries(disk')
BY DEF SameDeliveries

\* A store that differs in browsers, deliveries taken out and times only.
Tame(s) ==
    /\ s \in Stores /\ SameDeliveries(s) /\ s.pref = disk.pref
    /\ s.base.requests = disk.base.requests /\ s.base.lead = disk.base.lead
    /\ s.base.completed = disk.base.completed
    /\ \A r \in dropped : s.browsers[r] = NoBrowser
    /\ \A x \in Slots : s.outbox[x] # None => Registered(s, x[1])

LEMMA DiskTame ==
    ASSUME Types, PushInv
    PROVE  Tame(disk)
BY DEF Types, StoreTypes, PushInv, Removed, Tame, SameDeliveries

LEMMA TameMoved ==
    ASSUME NoteInv, NEW s, Tame(s), disk' \in {disk, s}, StoreTypes', Synced', JobTypes', UserTypes',
           UNCHANGED <<world, cache, wish, emitted, again>>, \A r \in dropped' : disk'.browsers[r] = NoBrowser,
           job' = job \/ job'.pc \notin {"reduce", "recheck"}
    PROVE  NoteInv'
<1>1. Tame(disk) /\ Types /\ OnceInv /\ PushInv
  BY DiskTame DEF NoteInv
<1>2. /\ SameDeliveries(disk') /\ disk'.pref = disk.pref
      /\ disk'.base.requests = disk.base.requests /\ disk'.base.lead = disk.base.lead
      /\ disk'.base.completed = disk.base.completed
      /\ \A x \in Slots : disk'.outbox[x] # None => Registered(disk', x[1])
  BY <1>1 DEF Tame
<1>3. Removed'
  BY <1>2 DEF Removed, Registered
<1>4. PushInv'
  BY <1>1, <1>2, <1>3, PushStays
<1>5. OnceInv'
  BY <1>1, <1>2, OnceStays DEF SameViews
<1>6. Types'
  BY <1>1 DEF Types, WorldTypes
<1> QED
  BY <1>4, <1>5, <1>6 DEF NoteInv

LEMMA TameKept ==
    ASSUME NoteInv, NEW s, Tame(s), disk' \in {disk, s}, StoreTypes', Synced', JobTypes', UserTypes',
           UNCHANGED <<world, cache, wish, dropped, emitted, again>>,
           job' = job \/ job'.pc \notin {"reduce", "recheck"}
    PROVE  NoteInv'
<1>1. Tame(disk)
  BY DiskTame DEF NoteInv
<1>2. \A r \in dropped' : disk'.browsers[r] = NoBrowser
  BY <1>1 DEF Tame
<1> QED
  BY <1>2, TameMoved

-----------------------------------------------------------------------------
(* The session goes on *)

\* Questions are asked once, turns have identities of their own, and a
\* completed turn stays completed.
WorldGoes ==
    /\ world' \in Worlds /\ world.asked \subseteq world'.asked
    /\ world'.requests \subseteq world'.asked
    /\ (world'.requests \ world.requests) \cap world.asked = {}
    /\ world.turns <= world'.turns /\ world'.turn <= world'.turns
    /\ \/ world'.turn = world.turn /\ (world.status = "completed" => world'.status = "completed")
       \/ world'.turn = 0
       \/ world'.turn > world.turns

LEMMA OnceWorld ==
    ASSUME Types, OnceInv, WorldGoes, UNCHANGED <<cache, job, emitted, again>>,
           disk'.base = disk.base
    PROVE  OnceInv'
<1>1. Reducing' = Reducing
  BY DEF Reducing
<1>2. /\ world.turns \in Nat /\ world'.turns \in Nat /\ world'.turn \in Nat
      /\ cache.lead.turn \in Nat /\ disk.base.lead \in Nat
      /\ Reducing => job.seen.turn \in Nat
  BY DEF Types, WorldTypes, StoreTypes, JobTypes, WorldGoes, Worlds, Caches, Stores, Baseline, Seens, Reducing
<1>3. Asked'
  BY <1>1 DEF OnceInv, Asked, WorldGoes
<1>4. Questions'
  BY <1>1 DEF OnceInv, Asked, Questions, WorldGoes
<1>5. Begun'
  BY <1>1, <1>2 DEF OnceInv, Begun, WorldGoes
<1>6. Turns'
  BY <1>1, <1>2 DEF OnceInv, Begun, Turns, WorldGoes
<1>7. Completed'
  BY <1>1, <1>2 DEF OnceInv, Begun, Completed, WorldGoes
<1>8. AskedOnce'
  <2> SUFFICES ASSUME NEW i \in 1..MaxInst, NEW r \in Requests, <<i, "input", r>> \in emitted
               PROVE  r \in disk.base.requests \/ Over(r)'
    BY DEF AskedOnce
  <2>1. r \in disk.base.requests \/ Over(r)
    BY DEF OnceInv, AskedOnce
  <2>2. Over(r) => Over(r)'
    BY <1>1 DEF Over, WorldGoes
  <2> QED
    BY <2>1, <2>2
<1>9. DoneOnce'
  <2> SUFFICES ASSUME NEW i \in 1..MaxInst, NEW t \in 1..MaxTurns, <<i, "done", t>> \in emitted
               PROVE  /\ t <= world'.turns
                      /\ (disk.base.lead = t /\ disk.base.completed = t /\ Ended(t)') \/ Left(t)'
    BY DEF DoneOnce
  <2>1. /\ t <= world.turns
        /\ (disk.base.lead = t /\ disk.base.completed = t /\ Ended(t)) \/ Left(t)
    BY DEF OnceInv, DoneOnce
  <2>2. t \in Nat /\ t # 0 /\ t <= world'.turns
    BY <1>2, <2>1 DEF WorldGoes
  <2>3. Ended(t) => Ended(t)'
    BY <1>1, <1>2, <2>1, <2>2 DEF Ended, WorldGoes
  <2>4. Left(t) => Left(t)'
    BY <1>1, <1>2, <2>1, <2>2 DEF Left, WorldGoes
  <2> QED
    BY <2>1, <2>2, <2>3, <2>4
<1>10. EmittedOnce'
  BY DEF OnceInv, EmittedOnce
<1> QED
  BY <1>3, <1>4, <1>5, <1>6, <1>7, <1>8, <1>9, <1>10 DEF OnceInv

LEMMA WorldTyped ==
    ASSUME Types
    PROVE  /\ world \in Worlds /\ world.turns \in Nat /\ world.turn \in Nat /\ MaxTurns \in Nat
           /\ world.inst \in Nat /\ MaxInst \in Nat
BY NotificationsAssumption DEF Types, WorldTypes, Worlds

LEMMA TurningKeeps ==
    ASSUME NoteInv, WorldGoes, world'.inst = world.inst, world'.bind = world.bind, Turning, acts' \in Nat
    PROVE  NoteInv'
<1>1. UNCHANGED <<cast, cache, store, disk, failed, job, wish, drawn, dropped, emitted, again>>
  BY DEF Turning, Past
<1>2. OnceInv'
  BY <1>1, OnceWorld DEF NoteInv
<1>3. Types' /\ Synced'
  BY <1>1 DEF NoteInv, Types, WorldTypes, StoreTypes, JobTypes, UserTypes, Synced, WorldGoes
<1>4. PushInv'
  <2>1. Removed' /\ Muted' /\ Unbound' /\ Observed'
    BY <1>1 DEF NoteInv, PushInv, Removed, Registered, Muted, Unbound, Observed, Reducing
  <2>2. Deliveries' /\ Looked'
    BY <1>1 DEF NoteInv, PushInv, Deliveries, Wanted, Looked, Mine
  <2> QED
    BY <2>1, <2>2 DEF PushInv
<1> QED
  BY <1>2, <1>3, <1>4 DEF NoteInv

LEMMA ActCounted ==
    ASSUME Types, NEW d, Act(d)
    PROVE  acts' \in Nat
BY DEF Types, UserTypes, Act

LEMMA SessionKeeps ==
    ASSUME NoteInv,
           \/ TurnStarts \/ TurnEnds \/ PeerWorks \/ Hold \/ Delete
           \/ \E r \in Requests : Ask(r) \/ Reply(r)
    PROVE  NoteInv'
<1>1. Turning /\ acts' \in Nat
  BY ActCounted DEF NoteInv, TurnStarts, TurnEnds, PeerWorks, Hold, Delete, Ask, Reply
<1>2. world \in Worlds /\ world.turns \in Nat /\ world.turn \in Nat /\ MaxTurns \in Nat
  BY WorldTyped DEF NoteInv
<1>3. world.requests \subseteq world.asked /\ world.turn <= world.turns
  BY DEF NoteInv, OnceInv, Asked, Begun
<1>4. CASE TurnStarts
  <2> DEFINE n == world.turns + 1
  <2>1. world.turns < MaxTurns /\ world' = [world EXCEPT !.turn = n, !.turns = n, !.status = "running"]
    BY <1>2, <1>4 DEF TurnStarts, Worlds
  <2>2. n \in 0..MaxTurns /\ n > world.turns
    BY <1>2, <2>1
  <2> HIDE DEF n
  <2>3. /\ world' \in Worlds /\ world'.turn = n /\ world'.turns = n /\ world'.inst = world.inst
        /\ world'.bind = world.bind
        /\ world'.requests = world.requests /\ world'.asked = world.asked
    BY <1>2, <2>1, <2>2 DEF Worlds, Status
  <2>4. WorldGoes
    BY <1>2, <1>3, <2>2, <2>3 DEF WorldGoes
  <2> QED
    BY <1>1, <2>3, <2>4, TurningKeeps
<1>5. CASE TurnEnds
  <2>1. PICK st \in {"completed", "failed"} :
           world' = [world EXCEPT !.status = st, !.requests = {}]
    BY <1>5 DEF TurnEnds
  <2>2. world.status = "running"
    BY <1>5 DEF TurnEnds
  <2>3. /\ world' \in Worlds /\ world'.turn = world.turn /\ world'.turns = world.turns
        /\ world'.inst = world.inst /\ world'.bind = world.bind
        /\ world'.requests = {} /\ world'.asked = world.asked
    BY <1>2, <2>1 DEF Worlds, Status
  <2>4. WorldGoes
    BY <1>2, <1>3, <2>2, <2>3 DEF WorldGoes
  <2> QED
    BY <1>1, <2>3, <2>4, TurningKeeps
<1>6. CASE PeerWorks \/ Hold \/ Delete
  <2>1. /\ world' \in Worlds /\ world'.turn = world.turn /\ world'.turns = world.turns
        /\ world'.inst = world.inst /\ world'.bind = world.bind /\ world'.status = world.status
        /\ world'.requests = world.requests /\ world'.asked = world.asked
    BY <1>2, <1>6 DEF Worlds, PeerWorks, Hold, Delete
  <2>2. WorldGoes
    BY <1>2, <1>3, <2>1 DEF WorldGoes
  <2> QED
    BY <1>1, <2>1, <2>2, TurningKeeps
<1>7. ASSUME NEW r \in Requests, Ask(r) \/ Reply(r)
      PROVE  NoteInv'
  <2>1. PICK q \in SUBSET Requests, a \in SUBSET Requests :
           world' = [world EXCEPT !.requests = q, !.asked = a]
    <3>1. world.requests \in SUBSET Requests /\ world.asked \in SUBSET Requests
      BY <1>2 DEF Worlds
    <3>2. CASE Ask(r)
      <4>1. world' = [world EXCEPT !.requests = world.requests \cup {r}, !.asked = world.asked \cup {r}]
        BY <3>2 DEF Ask
      <4> QED
        BY <3>1, <4>1
    <3>3. CASE Reply(r)
      <4>1. world' = [world EXCEPT !.requests = world.requests \ {r}, !.asked = world.asked]
        BY <1>2, <3>3 DEF Reply, Worlds
      <4> QED
        BY <3>1, <4>1
    <3> QED
      BY <1>7, <3>2, <3>3
  <2>2. world' \in Worlds
    BY <1>2, <2>1 DEF Worlds
  <2>3. /\ world'.turn = world.turn /\ world'.turns = world.turns
        /\ world'.inst = world.inst /\ world'.bind = world.bind /\ world'.status = world.status
    BY <1>2, <2>1 DEF Worlds
  <2>4. CASE Ask(r)
    <3>1. world'.requests = world.requests \cup {r} /\ world'.asked = world.asked \cup {r}
          /\ r \notin world.asked
      BY <1>2, <2>4 DEF Worlds, Ask
    <3>2. WorldGoes
      BY <1>2, <1>3, <2>2, <2>3, <3>1 DEF WorldGoes
    <3> QED
      BY <1>1, <2>3, <3>2, TurningKeeps
  <2>5. CASE Reply(r)
    <3>1. world'.requests = world.requests \ {r} /\ world'.asked = world.asked
      BY <1>2, <2>5 DEF Worlds, Reply
    <3>2. WorldGoes
      BY <1>2, <1>3, <2>2, <2>3, <3>1 DEF WorldGoes
    <3> QED
      BY <1>1, <2>3, <3>2, TurningKeeps
  <2> QED
    BY <1>7, <2>4, <2>5
<1> QED
  BY <1>4, <1>5, <1>6, <1>7

\* Another session under the name: no delivery, observation or job is of it.
LEMMA RecreateKeeps ==
    ASSUME NoteInv, Recreate
    PROVE  NoteInv'
<1> DEFINE j == world.inst + 1
<1>1. PICK choice \in {"none", "on", "off"} :
         /\ world' = [world EXCEPT !.inst = j, !.turn = 0, !.status = "none", !.gone = FALSE,
                          !.requests = {}, !.peer = FALSE, !.eligible = TRUE, !.bind = choice]
         /\ wish' = [wish EXCEPT ![j] = IF choice = "off" THEN "off" ELSE "on"]
  BY WorldTyped DEF Recreate, NoteInv, Worlds
<1>2. /\ UNCHANGED <<cast, cache, store, disk, failed, job, drawn, dropped, emitted, again>>
      /\ acts' \in Nat /\ world.inst < MaxInst
  BY ActCounted DEF NoteInv, Recreate, Past
<1>3. world \in Worlds /\ world.inst \in Nat /\ MaxInst \in Nat /\ world.turn \in Nat /\ world.turns \in Nat
  BY WorldTyped DEF NoteInv
<1>4. j \in 1..MaxInst /\ j > world.inst
  BY <1>2, <1>3, WorldTyped DEF NoteInv, Worlds
<1>5. j = world.inst + 1
  OBVIOUS
<1> HIDE DEF j
<1>6. /\ world' \in Worlds /\ world'.inst = j /\ world'.turn = 0 /\ world'.turns = world.turns
      /\ world'.bind = choice /\ world'.requests = {} /\ world'.asked = world.asked
  <2>1. 0 \in 0..MaxTurns
    BY WorldTyped DEF NoteInv
  <2>2. world' \in Worlds
    BY <1>1, <1>3, <1>4, <2>1 DEF Worlds, Status
  <2> QED
    BY <1>1, <1>3, <2>2 DEF Worlds
<1>7. WorldGoes
  BY <1>3, <1>6 DEF WorldGoes
<1>8. OnceInv'
  BY <1>2, <1>7, OnceWorld DEF NoteInv
<1>9. wish \in [1..MaxInst -> {"on", "off", "any"}]
  BY DEF NoteInv, Types, UserTypes
<1>10. Types' /\ Synced'
  <2>1. wish' \in [1..MaxInst -> {"on", "off", "any"}]
    BY <1>1, <1>9
  <2> QED
    BY <1>2, <1>6, <2>1 DEF NoteInv, Types, WorldTypes, StoreTypes, JobTypes, UserTypes, Synced
<1>11. /\ disk.pref.inst \in Nat /\ disk.pref.inst <= world.inst
       /\ Reducing => job.seen.inst \in Nat /\ job.seen.inst <= world.inst
       /\ job.pc = "recheck" => job.event.inst \in Nat
       /\ \A x \in Slots : disk.outbox[x] # None => disk.outbox[x].event.inst \in Nat
  <2>1. disk.pref.inst \in Nat
    BY DEF NoteInv, Types, StoreTypes, Stores
  <2>2. Reducing => job.seen.inst \in Nat
    BY DEF NoteInv, Types, JobTypes, Seens, Reducing
  <2>3. job.pc = "recheck" => job.event.inst \in Nat
    BY DEF NoteInv, Types, JobTypes, Event
  <2>4. \A x \in Slots : disk.outbox[x] # None => disk.outbox[x].event.inst \in Nat
    BY StoreParts DEF NoteInv, Types, StoreTypes, Delivery, Event
  <2> QED
    BY <2>1, <2>2, <2>3, <2>4 DEF NoteInv, PushInv, Muted, Observed
<1>12. PushInv'
  <2>1. Removed'
    BY <1>2 DEF NoteInv, PushInv, Removed, Registered
  <2>2. Muted'
    <3>1. disk.pref.inst <= j /\ disk.pref.inst # j
      BY <1>3, <1>5, <1>11
    <3>2. wish'[j] = "off" => choice = "off"
      BY <1>1, <1>4, <1>9
    <3> QED
      BY <1>2, <1>6, <3>1, <3>2 DEF Muted
  <2>3. Observed' /\ Unbound'
    <3>1. Reducing => job.seen.inst <= j /\ job.seen.inst # j
      BY <1>3, <1>5, <1>11
    <3> QED
      BY <1>2, <1>6, <3>1 DEF Observed, Unbound, Reducing
  <2>4. Deliveries'
    <3> SUFFICES ASSUME NEW x \in Slots, disk.outbox[x] # None, disk.outbox[x].event.kind # "test"
                 PROVE  disk.outbox[x].event.inst <= j /\ disk.outbox[x].event.inst # j
      BY <1>2, <1>6 DEF Deliveries, Wanted
    <3>1. disk.outbox[x].event.inst <= world.inst
      BY DEF NoteInv, PushInv, Deliveries, Wanted
    <3> QED
      BY <1>3, <1>5, <1>11, <3>1
  <2>5. Looked'
    <3> SUFFICES ASSUME job.pc = "recheck", job.event.kind # "test"
                 PROVE  /\ job.event.inst \in 1..j
                        /\ Mine(disk) => wish'[job.event.inst] # "off"
      BY <1>2, <1>6 DEF Looked, Mine
    <3>1. /\ job.event.inst \in 1..world.inst
          /\ Mine(disk) => wish[job.event.inst] # "off"
      BY DEF NoteInv, PushInv, Looked
    <3>2. job.event.inst \in 1..j /\ job.event.inst # j /\ job.event.inst \in 1..MaxInst
      BY <1>3, <1>4, <1>5, <1>11, <3>1
    <3> QED
      BY <1>1, <1>9, <3>1, <3>2
  <2> QED
    BY <2>1, <2>2, <2>3, <2>4, <2>5 DEF PushInv
<1> QED
  BY <1>8, <1>10, <1>12 DEF NoteInv

-----------------------------------------------------------------------------
(* The caches *)
LEMMA CachedKeeps ==
    ASSUME NoteInv, cache' \in Caches,
           \/ cache'.lead = cache.lead
           \/ cache'.lead = [turn |-> world.turn, status |-> world.status, requests |-> world.requests],
           UNCHANGED <<cast, world, store, disk, failed, job, wish, drawn, dropped, acts, emitted, again>>
    PROVE  NoteInv'
<1>1. Types' /\ Synced'
  BY DEF NoteInv, Types, WorldTypes, StoreTypes, JobTypes, UserTypes, Synced
<1>2. PushInv'
  <2>1. Removed' /\ Muted' /\ Unbound' /\ Observed'
    BY DEF NoteInv, PushInv, Removed, Registered, Muted, Unbound, Observed, Reducing
  <2>2. Deliveries' /\ Looked'
    BY DEF NoteInv, PushInv, Deliveries, Wanted, Looked, Mine
  <2> QED
    BY <2>1, <2>2 DEF PushInv
<1>3. CASE cache'.lead = cache.lead
  <2>1. OnceInv'
    BY <1>3, OnceStays DEF NoteInv, SameViews
  <2> QED
    BY <1>1, <1>2, <2>1 DEF NoteInv
<1>4. CASE cache'.lead = [turn |-> world.turn, status |-> world.status, requests |-> world.requests]
  <2>1. cache'.lead.turn = world.turn /\ cache'.lead.status = world.status
        /\ cache'.lead.requests = world.requests
    BY <1>4
  <2>2. Reducing' = Reducing
    BY DEF Reducing
  <2>3. Asked' /\ Questions'
    BY <2>1, <2>2 DEF NoteInv, OnceInv, Asked, Questions
  <2>4. Begun' /\ Turns'
    BY <2>1, <2>2 DEF NoteInv, OnceInv, Begun, Turns
  <2>5. Completed'
    BY <2>1, <2>2 DEF NoteInv, OnceInv, Completed, Turns
  <2>6. AskedOnce'
    BY <2>1, <2>2 DEF NoteInv, OnceInv, AskedOnce, Over
  <2>7. DoneOnce'
    <3> SUFFICES ASSUME NEW i \in 1..MaxInst, NEW t \in 1..MaxTurns, <<i, "done", t>> \in emitted
                 PROVE  (disk.base.lead = t /\ disk.base.completed = t /\ Ended(t)') \/ Left(t)'
      BY DEF NoteInv, OnceInv, DoneOnce
    <3>1. (disk.base.lead = t /\ disk.base.completed = t /\ Ended(t)) \/ Left(t)
      BY DEF NoteInv, OnceInv, DoneOnce
    <3>2. Ended(t) => Ended(t)'
      BY <2>1, <2>2 DEF Ended
    <3>3. Left(t) => Left(t)'
      BY <2>1, <2>2 DEF Left
    <3> QED
      BY <3>1, <3>2, <3>3
  <2>8. EmittedOnce'
    BY DEF NoteInv, OnceInv, EmittedOnce
  <2> QED
    BY <1>1, <1>2, <2>3, <2>4, <2>5, <2>6, <2>7, <2>8 DEF NoteInv, OnceInv
<1> QED
  BY <1>3, <1>4

LEMMA CacheSteps ==
    ASSUME NoteInv, Cached \/ Disconnected
    PROVE  NoteInv'
<1>1. UNCHANGED <<cast, world, store, disk, failed, job, wish, drawn, dropped, acts, emitted, again>>
  BY DEF Cached, Disconnected, Past
<1> DEFINE l == [turn |-> world.turn, status |-> world.status, requests |-> world.requests]
<1>2. cache \in Caches /\ world \in Worlds
  BY DEF NoteInv, Types, WorldTypes
<1>3. l \in [turn : 0..MaxTurns, status : Status, requests : SUBSET Requests]
      /\ world.peer \in BOOLEAN /\ world.inst \in 1..MaxInst
  BY <1>2 DEF Worlds
<1>4. \/ cache' = [cache EXCEPT !.lead = l]
      \/ cache' = [cache EXCEPT !.peer = world.peer]
      \/ cache' = [lead |-> l, peer |-> world.peer, inst |-> world.inst, fresh |-> TRUE]
      \/ cache' = [cache EXCEPT !.fresh = FALSE]
  BY DEF Cached, Disconnected
<1> HIDE DEF l
<1>5. cache' \in Caches
  <2>1. CASE cache' = [cache EXCEPT !.lead = l]
    BY <1>2, <1>3, <2>1 DEF Caches
  <2>2. CASE cache' = [cache EXCEPT !.peer = world.peer]
    BY <1>2, <1>3, <2>2 DEF Caches
  <2>3. CASE cache' = [lead |-> l, peer |-> world.peer, inst |-> world.inst, fresh |-> TRUE]
    BY <1>3, <2>3 DEF Caches
  <2>4. CASE cache' = [cache EXCEPT !.fresh = FALSE]
    BY <1>2, <2>4 DEF Caches
  <2> QED
    BY <1>4, <2>1, <2>2, <2>3, <2>4
<1>6. cache'.lead = cache.lead \/ cache'.lead = l
  BY <1>2, <1>4 DEF Caches
<1> QED
  BY <1>1, <1>5, <1>6, CachedKeeps DEF l

-----------------------------------------------------------------------------
(* The worker's steps that change nothing else *)

LEMMA SeenTyped ==
    ASSUME Types
    PROVE  /\ Seen \in Seens /\ Seen.inst = world.inst /\ Seen.turn = cache.lead.turn
           /\ Seen.status = cache.lead.status /\ Seen.requests = cache.lead.requests
           /\ Seen.eligible => world.bind = "none"
<1>1. /\ cache.fresh \in BOOLEAN /\ cache.peer \in BOOLEAN
      /\ cache.lead.turn \in 0..MaxTurns /\ cache.lead.status \in Status
      /\ cache.lead.requests \in SUBSET Requests
  BY DEF Types, WorldTypes, Caches
<1>2. world.inst \in 1..MaxInst /\ world.gone \in BOOLEAN /\ world.eligible \in BOOLEAN
  BY DEF Types, WorldTypes, Worlds
<1> QED
  BY <1>1, <1>2 DEF Seen, Seens

LEMMA ObserveKeeps ==
    ASSUME NoteInv, Observe
    PROVE  NoteInv'
<1>1. /\ job.pc = "rest" /\ job' = [job EXCEPT !.pc = "reduce", !.seen = Seen]
      /\ UNCHANGED <<cast, world, cache, store, disk, failed, wish, drawn, dropped, acts, emitted, again>>
  BY DEF Observe, Quiet, Past
<1>2. /\ Seen \in Seens /\ Seen.inst = world.inst /\ Seen.turn = cache.lead.turn
      /\ Seen.status = cache.lead.status /\ Seen.requests = cache.lead.requests
      /\ Seen.eligible => world.bind = "none"
  BY SeenTyped DEF NoteInv
<1>3. job' \in Jobs /\ job'.pc = "reduce" /\ job'.seen = Seen
  BY <1>1, <1>2 DEF NoteInv, Types, JobTypes, Jobs
<1>4. Types' /\ Synced'
  BY <1>1, <1>2, <1>3 DEF NoteInv, Types, WorldTypes, StoreTypes, JobTypes, UserTypes, Synced
<1>5. world.inst \in Nat
  BY WorldTyped DEF NoteInv
<1>6. PushInv'
  <2>1. Removed' /\ Muted' /\ Deliveries'
    BY <1>1 DEF NoteInv, PushInv, Removed, Registered, Muted, Deliveries, Wanted
  <2>2. Unbound' /\ Observed' /\ Looked'
    BY <1>1, <1>2, <1>3, <1>5 DEF Unbound, Observed, Looked, Reducing
  <2> QED
    BY <2>1, <2>2 DEF PushInv
<1>7. OnceInv'
  <2>1. /\ job'.seen.requests = cache.lead.requests /\ job'.seen.turn = cache.lead.turn
        /\ job'.seen.status = cache.lead.status
    BY <1>2, <1>3
  <2>2. Asked' /\ Questions'
    BY <1>1, <2>1 DEF NoteInv, OnceInv, Asked, Questions
  <2>3. Begun' /\ Turns' /\ Completed'
    BY <1>1, <2>1 DEF NoteInv, OnceInv, Begun, Turns, Completed
  <2>4. AskedOnce'
    BY <1>1, <2>1 DEF NoteInv, OnceInv, AskedOnce, Over
  <2>5. DoneOnce'
    BY <1>1, <2>1 DEF NoteInv, OnceInv, DoneOnce, Ended, Left
  <2>6. EmittedOnce'
    BY <1>1 DEF NoteInv, OnceInv, EmittedOnce
  <2> QED
    BY <2>2, <2>3, <2>4, <2>5, <2>6 DEF OnceInv
<1> QED
  BY <1>4, <1>6, <1>7 DEF NoteInv

\* The worker goes on to a step that is neither the reduction nor the check.
LEMMA JobMoves ==
    ASSUME NoteInv, JobTypes', job' = job \/ job'.pc \notin {"reduce", "recheck"}, acts' \in Nat,
           UNCHANGED <<cast, world, cache, store, disk, failed, wish, drawn, dropped, emitted, again>>
    PROVE  NoteInv'
<1>1. Tame(disk)
  BY DiskTame DEF NoteInv
<1>2. StoreTypes' /\ Synced' /\ UserTypes'
  BY DEF NoteInv, Types, StoreTypes, UserTypes, Synced
<1> QED
  BY <1>1, <1>2, TameKept

LEMMA WorkerKeeps ==
    ASSUME NoteInv,
           \/ ReconcileFenced \/ PickNothing \/ Recheck
           \/ \E x \in Slots : Pick(x)
    PROVE  NoteInv'
<1>1. UNCHANGED <<cast, world, cache, store, disk, failed, wish, drawn, dropped, acts, emitted, again>>
  BY DEF ReconcileFenced, PickNothing, Recheck, Pick, Quiet, Past
<1>2. acts' \in Nat /\ JobTypes
  BY <1>1 DEF NoteInv, Types, UserTypes
<1>3. CASE job' = NoJob
  <2>1. JobTypes'
    BY <1>3, NoJobTyped DEF JobTypes
  <2> QED
    BY <1>1, <1>2, <1>3, <2>1, NoJobTyped, JobMoves
<1>4. CASE job.pc = "recheck" /\ job' = [job EXCEPT !.pc = "post"]
  <2>1. JobTypes' /\ job'.pc = "post"
    BY <1>2, <1>4 DEF JobTypes, Jobs
  <2> QED
    BY <1>1, <1>2, <2>1, JobMoves
<1>5. ASSUME NEW x \in Slots, Pick(x)
      PROVE  NoteInv'
  <2>1. /\ store.outbox[x] # None
        /\ job' = [job EXCEPT !.pc = "look", !.slot = x, !.event = store.outbox[x].event,
                              !.endpoint = store.browsers[x[1]].endpoint]
    BY <1>5 DEF Pick
  <2>2. store.outbox[x].event \in Event
    BY <2>1, StoreParts DEF NoteInv, Types, StoreTypes, Delivery
  <2>3. store.browsers[x[1]].endpoint \in Endpoints \cup {None}
    <3>1. x[1] \in Regs
      BY DEF Slots
    <3> QED
      BY <3>1, StoreParts DEF NoteInv, Types, StoreTypes, Browser
  <2>4. job' \in Jobs /\ job'.pc = "look" /\ job'.slot = x /\ job'.event = store.outbox[x].event
    BY <1>2, <2>1, <2>2, <2>3 DEF JobTypes, Jobs
  <2>5. JobTypes'
    BY <2>2, <2>4 DEF JobTypes
  <2> QED
    BY <1>1, <1>2, <2>4, <2>5, JobMoves
<1> QED
  BY <1>3, <1>4, <1>5 DEF ReconcileFenced, PickNothing, Recheck

\* The second look lets no delivery pass of a session that is no more, and
\* what is in the outbox of the one that is, is wanted.
LEMMA LookKeeps ==
    ASSUME NoteInv, Look
    PROVE  NoteInv'
<1>1. UNCHANGED <<cast, world, cache, store, disk, failed, wish, drawn, dropped, acts, emitted, again>>
  BY DEF Look, Quiet, Past
<1>2. acts' \in Nat /\ JobTypes /\ job.slot \in Slots /\ job.event \in Event
  BY <1>1 DEF NoteInv, Types, UserTypes, JobTypes, Look
<1>3. CASE job' = NoJob
  <2>1. JobTypes'
    BY <1>3, NoJobTyped DEF JobTypes
  <2> QED
    BY <1>1, <1>2, <1>3, <2>1, NoJobTyped, JobMoves
<1>4. CASE /\ job' = [job EXCEPT !.pc = "recheck"]
           /\ job.event.kind = "test" \/ (Seen.eligible /\ Relevant(job.event, Seen))
  <2>1. job' \in Jobs /\ job'.pc = "recheck" /\ job'.slot = job.slot /\ job'.event = job.event
    BY <1>2, <1>4 DEF JobTypes, Jobs
  <2>2. Types' /\ Synced'
    BY <1>1, <1>2, <2>1 DEF NoteInv, Types, WorldTypes, StoreTypes, JobTypes, UserTypes, Synced
  <2>3. OnceInv'
    BY <1>1, <2>1, OnceStays DEF NoteInv, SameViews
  <2>4. Removed' /\ Muted' /\ Deliveries'
    BY <1>1 DEF NoteInv, PushInv, Removed, Registered, Muted, Deliveries, Wanted
  <2>5. Unbound' /\ Observed'
    BY <2>1 DEF Unbound, Observed, Reducing
  <2>6. ASSUME job.event.kind # "test"
        PROVE  job.event.inst = world.inst
    BY <1>4, <2>6, SeenTyped DEF Relevant, NoteInv
  <2>7. Looked'
    <3> SUFFICES ASSUME job.event.kind # "test"
                 PROVE  /\ job.event.inst \in 1..world.inst
                        /\ Mine(disk) => wish[job.event.inst] # "off"
      BY <1>1, <2>1 DEF Looked, Mine
    <3>1. job.event.inst = world.inst /\ world.inst \in 1..MaxInst /\ world.inst \in Nat
      BY <2>6, WorldTyped DEF NoteInv, Worlds
    <3>2. Mine(disk) => wish[world.inst] # "off"
      BY <1>2, <2>6 DEF Mine, NoteInv, PushInv, Deliveries, Wanted
    <3> QED
      BY <3>1, <3>2
  <2> QED
    BY <2>2, <2>3, <2>4, <2>5, <2>7 DEF NoteInv, PushInv
<1> QED
  BY <1>3, <1>4 DEF Look

-----------------------------------------------------------------------------
(* Changes of the store that announce and admit nothing *)

\* What such a change leaves: deliveries with their events, or none, and the
\* registrations of deliveries.
TakesOut(ob) ==
    /\ ob \in [Slots -> Delivery \cup {None}]
    /\ \A x \in Slots : ob[x] # None =>
          store.outbox[x] # None /\ ob[x].event = store.outbox[x].event

LEMMA TakesOutTame ==
    ASSUME Types, Synced, PushInv, ~failed, NEW ob, TakesOut(ob)
    PROVE  Tame([store EXCEPT !.outbox = ob]) /\ [store EXCEPT !.outbox = ob] \in Stores
<1>1. store = disk /\ store \in Stores
  BY DEF Types, StoreTypes, Synced
<1> DEFINE t == [store EXCEPT !.outbox = ob]
<1>2. /\ t \in Stores /\ t.outbox = ob /\ t.browsers = store.browsers
      /\ t.pref = store.pref /\ t.base = store.base
  BY <1>1, WithOutbox DEF TakesOut
<1> HIDE DEF t
<1>3. SameDeliveries(t)
  BY <1>1, <1>2 DEF SameDeliveries, TakesOut
<1>4. \A r \in dropped : t.browsers[r] = NoBrowser
  BY <1>1, <1>2 DEF PushInv, Removed
<1>5. \A x \in Slots : t.outbox[x] # None => Registered(t, x[1])
  BY <1>1, <1>2 DEF PushInv, Removed, TakesOut, Registered
<1> QED
  BY <1>1, <1>2, <1>3, <1>4, <1>5 DEF Tame, t

\* One delivery is removed, or changed in what it is about in nothing.
LEMMA TakesOne ==
    ASSUME Types, NEW x \in Slots, NEW d \in Delivery \cup {None},
           d # None => store.outbox[x] # None /\ d.event = store.outbox[x].event
    PROVE  TakesOut([store.outbox EXCEPT ![x] = d])
<1>1. store.outbox \in [Slots -> Delivery \cup {None}]
  BY StoreParts DEF Types, StoreTypes
<1> QED
  BY <1>1 DEF TakesOut

LEMMA PickShownKeeps ==
    ASSUME NoteInv, NEW x \in Slots, PickShown(x)
    PROVE  NoteInv'
<1> DEFINE ob == [store.outbox EXCEPT ![x] = None]
           s == [store EXCEPT !.outbox = ob]
<1>1. ~failed /\ (Kept(s) \/ Unkept(s))
      /\ UNCHANGED <<cast, world, cache, job, wish, drawn, dropped, acts, emitted, again>>
  BY DEF PickShown, Quiet, Past
<1>2. Tame(s) /\ s \in Stores
  BY <1>1, TakesOne, TakesOutTame DEF NoteInv
<1> HIDE DEF s
<1>3. StoreTypes' /\ Synced' /\ disk' \in {disk, s}
  BY <1>1, <1>2, AnswerSteps DEF NoteInv
<1>4. JobTypes' /\ UserTypes'
  BY <1>1 DEF NoteInv, Types, JobTypes, UserTypes
<1> QED
  BY <1>1, <1>2, <1>3, <1>4, TameKept

\* A delivery that waited, or expired.
LEMMA TimeKeeps ==
    ASSUME NoteInv, NEW x \in Slots, Waited(x) \/ Expires(x)
    PROVE  NoteInv'
<1>1. /\ ~failed /\ store.outbox[x] # None /\ disk' = store' /\ failed' = failed
      /\ UNCHANGED <<cast, world, cache, job, wish, drawn, dropped, acts, emitted, again>>
  BY DEF Waited, Expires, Quiet, Past
<1>2. store.outbox[x] \in Delivery
  BY <1>1, StoreParts DEF NoteInv, Types, StoreTypes
<1>3. \E d \in Delivery : /\ d.event = store.outbox[x].event
                          /\ store' = [store EXCEPT !.outbox = [store.outbox EXCEPT ![x] = d]]
  <2>1. CASE Waited(x)
    <3> DEFINE d == [store.outbox[x] EXCEPT !.due = TRUE]
    <3>1. d \in Delivery /\ d.event = store.outbox[x].event
      BY <1>2 DEF Delivery
    <3>2. store' = [store EXCEPT !.outbox = [store.outbox EXCEPT ![x] = d]]
      BY <2>1 DEF Waited
    <3> HIDE DEF d
    <3> QED
      BY <3>1, <3>2
  <2>2. CASE Expires(x)
    <3> DEFINE d == [store.outbox[x] EXCEPT !.expired = TRUE]
    <3>1. d \in Delivery /\ d.event = store.outbox[x].event
      BY <1>2 DEF Delivery
    <3>2. store' = [store EXCEPT !.outbox = [store.outbox EXCEPT ![x] = d]]
      BY <2>2 DEF Expires
    <3> HIDE DEF d
    <3> QED
      BY <3>1, <3>2
  <2> QED
    BY <2>1, <2>2
<1>4. PICK d \in Delivery : /\ d.event = store.outbox[x].event
                            /\ store' = [store EXCEPT !.outbox = [store.outbox EXCEPT ![x] = d]]
  BY <1>3
<1>5. TakesOut([store.outbox EXCEPT ![x] = d])
  BY <1>1, <1>4, TakesOne DEF NoteInv
<1>6. Tame(store') /\ store' \in Stores
  BY <1>1, <1>4, <1>5, TakesOutTame DEF NoteInv
<1>7. StoreTypes' /\ Synced'
  BY <1>1, <1>6 DEF StoreTypes, Synced
<1>8. JobTypes' /\ UserTypes'
  BY <1>1 DEF NoteInv, Types, JobTypes, UserTypes
<1>9. disk' = store'
  BY <1>1
<1> QED
  BY <1>1, <1>6, <1>7, <1>8, <1>9, TameKept

\* The registrations change, none that was removed comes back, and none that
\* has a delivery goes.
LEMMA BrowsersTame ==
    ASSUME Types, Synced, PushInv, ~failed, NEW bs \in [Regs -> Browser],
           \A r \in dropped : bs[r] = NoBrowser,
           \A r \in Regs : bs[r].st # "none" \/ bs[r] = store.browsers[r]
    PROVE  LET t == [store EXCEPT !.browsers = bs] IN Tame(t) /\ t \in Stores
<1>1. store = disk /\ store \in Stores
  BY DEF Types, StoreTypes, Synced
<1> DEFINE t == [store EXCEPT !.browsers = bs]
<1>2. /\ t \in Stores /\ t.browsers = bs /\ t.outbox = store.outbox
      /\ t.pref = store.pref /\ t.base = store.base
  BY <1>1, WithBrowsers
<1> HIDE DEF t
<1>3. SameDeliveries(t)
  BY <1>1, <1>2 DEF SameDeliveries
<1>4. \A x \in Slots : x[1] \in Regs
  BY DEF Slots
<1>5. \A x \in Slots : t.outbox[x] # None => Registered(t, x[1])
  BY <1>1, <1>2, <1>4 DEF PushInv, Removed, Registered
<1> QED
  BY <1>1, <1>2, <1>3, <1>5 DEF Tame, t

LEMMA LapseKeeps ==
    ASSUME NoteInv, NEW r \in Regs, Lapse(r)
    PROVE  NoteInv'
<1> DEFINE b == [store.browsers[r] EXCEPT !.lapsed = TRUE]
           bs == [store.browsers EXCEPT ![r] = b]
<1>1. /\ ~failed /\ store.browsers[r].st = "on" /\ failed' = failed /\ disk' = store'
      /\ store' = [store EXCEPT !.browsers = bs]
      /\ UNCHANGED <<cast, world, cache, job, wish, drawn, dropped, emitted, again>>
  BY DEF Lapse, Past
<1>2. acts' \in Nat
  BY ActCounted DEF NoteInv, Lapse
<1>3. store = disk /\ store.browsers \in [Regs -> Browser]
  BY <1>1, StoreParts DEF NoteInv, Types, StoreTypes, Synced
<1>4. b \in Browser /\ b.st = "on"
  BY <1>1, <1>3 DEF Browser
<1> HIDE DEF b
<1>5. bs \in [Regs -> Browser] /\ (\A q \in Regs : bs[q].st # "none" \/ bs[q] = store.browsers[q])
  BY <1>3, <1>4
<1>6. r \notin dropped
  BY <1>1, <1>3, NoBrowserTyped DEF NoteInv, PushInv, Removed
<1>7. \A q \in dropped : bs[q] = NoBrowser
  <2>1. dropped \subseteq Regs
    BY NotificationsAssumption DEF NoteInv, Types, UserTypes, Regs
  <2> QED
    BY <1>3, <1>6, <2>1 DEF NoteInv, PushInv, Removed
<1>8. Tame(store') /\ store' \in Stores
  <2> HIDE DEF bs
  <2> QED
    BY <1>1, <1>5, <1>7, BrowsersTame DEF NoteInv
<1>9. StoreTypes' /\ Synced' /\ JobTypes' /\ UserTypes'
  BY <1>1, <1>2, <1>8 DEF NoteInv, Types, StoreTypes, Synced, JobTypes, UserTypes
<1>10. disk' = store'
  BY <1>1
<1> QED
  BY <1>1, <1>8, <1>9, <1>10, TameKept

LEMMA GapKeeps ==
    ASSUME NoteInv, GapPasses
    PROVE  NoteInv'
<1> DEFINE b == [store.base EXCEPT !.stale = TRUE]
<1>1. /\ ~failed /\ failed' = failed /\ disk' = store' /\ store' = [store EXCEPT !.base = b]
      /\ UNCHANGED <<cast, world, cache, job, wish, drawn, dropped, acts, emitted, again>>
  BY DEF GapPasses, Quiet, Past
<1>2. store = disk /\ store \in Stores /\ store.base \in Baseline
  BY <1>1, StoreParts DEF NoteInv, Types, StoreTypes, Synced
<1>3. /\ b \in Baseline /\ b.requests = store.base.requests /\ b.lead = store.base.lead
      /\ b.completed = store.base.completed
  BY <1>2 DEF Baseline
<1> HIDE DEF b
<1>4. /\ store' \in Stores /\ store'.base = b /\ store'.outbox = store.outbox
      /\ store'.pref = store.pref /\ store'.browsers = store.browsers
  BY <1>1, <1>2, <1>3, WithBase
<1>5. Tame(store')
  BY <1>2, <1>3, <1>4 DEF NoteInv, PushInv, Removed, Tame, SameDeliveries, Registered
<1>6. StoreTypes' /\ Synced' /\ JobTypes' /\ UserTypes'
  BY <1>1, <1>4 DEF NoteInv, Types, StoreTypes, Synced, JobTypes, UserTypes
<1>7. disk' = store'
  BY <1>1
<1> QED
  BY <1>1, <1>5, <1>6, <1>7, TameKept

\* The provider's answer.
LEMMA PostKeeps ==
    ASSUME NoteInv, Post
    PROVE  NoteInv'
<1>1. /\ job' = NoJob
      /\ UNCHANGED <<cast, world, cache, wish, drawn, dropped, acts, emitted, again>>
  BY DEF Post, Quiet, Past
<1>2. JobTypes' /\ UserTypes' /\ job'.pc = "rest"
  BY <1>1, NoJobTyped DEF NoteInv, Types, JobTypes, UserTypes
<1>3. PICK answer \in {"accepted", "gone", "retry", "refused"} :
         LET s == Settled(store, answer)
         IN  \/ Kept(s) \/ Unkept(s)
             \/ failed /\ UNCHANGED <<store, disk, failed, faults>>
  BY DEF Post
<1>4. CASE failed /\ UNCHANGED <<store, disk, failed, faults>>
  <2>1. StoreTypes' /\ Synced' /\ Tame(disk)
    BY <1>4, DiskTame DEF NoteInv, Types, StoreTypes, Synced
  <2> QED
    BY <1>1, <1>2, <1>4, <2>1, TameKept
<1>5. CASE Kept(Settled(store, answer)) \/ Unkept(Settled(store, answer))
  <2> DEFINE x == job.slot
             s == Settled(store, answer)
  <2>1. ~failed /\ store = disk /\ store \in Stores /\ x \in Slots /\ x[1] \in Regs
    BY <1>5 DEF Kept, Unkept, NoteInv, Types, StoreTypes, JobTypes, Synced, Post, Slots
  <2>2. ASSUME Tame(s), s \in Stores
        PROVE  NoteInv'
    <3> HIDE DEF s
    <3>1. StoreTypes' /\ Synced' /\ disk' \in {disk, s}
      BY <1>5, <2>2, AnswerSteps DEF NoteInv, s
    <3> QED
      BY <1>1, <1>2, <2>2, <3>1, TameKept
  <2>3. CASE ~Mine(store)
    <3>1. s = disk
      BY <2>1, <2>3 DEF Settled
    <3> QED
      BY <2>1, <2>2, <3>1, DiskTame DEF NoteInv
  <2>4. CASE Mine(store)
    <3> DEFINE d == store.outbox[x]
               ob == [store.outbox EXCEPT ![x] = None]
               t == [store EXCEPT !.outbox = ob]
    <3>1. d # None /\ d \in Delivery
      BY <2>1, <2>4, StoreParts DEF Mine
    <3>2. TakesOut(ob) /\ Tame(t) /\ t \in Stores
      BY <2>1, TakesOne, TakesOutTame DEF NoteInv
    <3>3. CASE answer = "retry" /\ d.tries + 1 < MaxTries
      <4> DEFINE k == d.tries + 1
                 e == [d EXCEPT !.tries = k, !.due = FALSE]
      <4>1. s = [store EXCEPT !.outbox = [store.outbox EXCEPT ![x] = e]]
        <5> DEFINE u == [store EXCEPT !.outbox = [store.outbox EXCEPT ![x] = [d EXCEPT !.tries = k]]]
        <5>1. s = [store EXCEPT !.outbox[x].tries = @ + 1, !.outbox[x].due = FALSE]
          BY <2>4, <3>3 DEF Settled
        <5>2. s = [u EXCEPT !.outbox[x].due = FALSE]
          BY <5>1
        <5>3. u.outbox = [store.outbox EXCEPT ![x] = [d EXCEPT !.tries = k]]
          BY <2>1 DEF Stores
        <5>4. u.outbox[x] = [d EXCEPT !.tries = k]
          BY <2>1, <5>3, StoreParts
        <5>5. s = [u EXCEPT !.outbox = [u.outbox EXCEPT ![x] = [u.outbox[x] EXCEPT !.due = FALSE]]]
          BY <5>2
        <5>6. [u.outbox[x] EXCEPT !.due = FALSE] = e
          BY <5>4
        <5>7. s = [u EXCEPT !.outbox = [u.outbox EXCEPT ![x] = e]]
          BY <5>5, <5>6
        <5>8. [u.outbox EXCEPT ![x] = e] = [store.outbox EXCEPT ![x] = e]
          BY <2>1, <5>3, StoreParts
        <5> HIDE DEF s, e
        <5> QED
          BY <2>1, <5>7, <5>8 DEF Stores
      <4>2. k \in Nat
        BY <3>1 DEF Delivery
      <4> HIDE DEF k
      <4>3. e \in Delivery /\ e.event = d.event
        BY <3>1, <4>2 DEF Delivery
      <4> HIDE DEF e
      <4>4. TakesOut([store.outbox EXCEPT ![x] = e])
        BY <2>1, <3>1, <4>3, TakesOne DEF NoteInv
      <4>5. Tame(s) /\ s \in Stores
        BY <2>1, <4>1, <4>4, TakesOutTame DEF NoteInv
      <4> QED
        BY <2>2, <4>5
    <3>4. CASE answer = "gone"
      <4> DEFINE b == [store.browsers[x[1]] EXCEPT !.st = "dead"]
                 bs == [store.browsers EXCEPT ![x[1]] = b]
      <4>1. t.browsers = store.browsers /\ t.outbox = ob /\ t.pref = store.pref /\ t.base = store.base
        BY <2>1, <3>2, WithOutbox DEF TakesOut
      <4>2. s = [t EXCEPT !.browsers[x[1]].st = "dead"]
        BY <2>4, <3>4 DEF Settled
      <4> HIDE DEF t, s
      <4>3. s = [t EXCEPT !.browsers = bs]
        BY <2>1, <3>2, <4>1, <4>2 DEF Stores
      <4>4. store.browsers \in [Regs -> Browser]
        BY <2>1, StoreParts
      <4>5. b \in Browser /\ b.st = "dead"
        BY <2>1, <4>4 DEF Browser
      <4> HIDE DEF b
      <4>6. bs \in [Regs -> Browser]
        BY <4>4, <4>5
      <4>7. /\ s \in Stores /\ s.browsers = bs /\ s.outbox = ob /\ s.pref = store.pref
            /\ s.base = store.base
        BY <3>2, <4>1, <4>3, <4>6, WithBrowsers
      <4>8. x[1] \notin dropped
        <5>1. Registered(disk, x[1])
          BY <2>1, <3>1 DEF NoteInv, PushInv, Removed
        <5> QED
          BY <5>1, NoBrowserTyped DEF NoteInv, PushInv, Removed, Registered
      <4>9. \A r \in dropped : s.browsers[r] = NoBrowser
        <5>1. dropped \subseteq Regs
          BY NotificationsAssumption DEF NoteInv, Types, UserTypes, Regs
        <5> QED
          BY <2>1, <4>4, <4>7, <4>8, <5>1 DEF NoteInv, PushInv, Removed
      <4>10. SameDeliveries(s)
        BY <2>1, <3>2, <4>7 DEF SameDeliveries, TakesOut
      <4>11. \A y \in Slots : s.outbox[y] # None => Registered(s, y[1])
        <5> SUFFICES ASSUME NEW y \in Slots, s.outbox[y] # None
                     PROVE  s.browsers[y[1]].st # "none"
          BY DEF Registered
        <5>1. store.browsers[y[1]].st # "none" /\ y[1] \in Regs
          BY <2>1, <3>2, <4>7 DEF NoteInv, PushInv, Removed, Registered, TakesOut, Slots
        <5> QED
          BY <4>4, <4>5, <4>7, <5>1
      <4>12. Tame(s)
        BY <2>1, <4>7, <4>9, <4>10, <4>11 DEF Tame
      <4> QED
        BY <2>2, <4>7, <4>12
    <3>5. CASE ~ (answer = "retry" /\ d.tries + 1 < MaxTries) /\ answer # "gone"
      <4>1. s = t
        BY <2>4, <3>5 DEF Settled
      <4> HIDE DEF s, t
      <4> QED
        BY <2>2, <3>2, <4>1
    <3> QED
      BY <3>3, <3>4, <3>5
  <2> QED
    BY <2>3, <2>4
<1> QED
  BY <1>3, <1>4, <1>5

-----------------------------------------------------------------------------
(* The interface *)

LEMMA DroppedAreRegs ==
    ASSUME Types
    PROVE  /\ dropped \subseteq Regs /\ drawn \in Nat /\ MaxRegs \in Nat
           /\ \A r \in dropped : r <= drawn
BY NotificationsAssumption DEF Types, UserTypes, Regs

LEMMA RegisterKeeps ==
    ASSUME NoteInv, NEW e \in Endpoints, Register(e)
    PROVE  NoteInv'
<1> DEFINE b == [NoBrowser EXCEPT !.st = "on", !.endpoint = e]
           bs(r) == [store.browsers EXCEPT ![r] = b]
           s(r) == [store EXCEPT !.browsers = bs(r)]
<1>1. UNCHANGED <<cast, world, cache, job, wish, dropped, emitted, again>> /\ acts' \in Nat
  BY ActCounted DEF NoteInv, Register, Other, Past
<1>2. b \in Browser /\ b.st = "on"
  BY NoBrowserTyped DEF NoBrowser, Browser
<1>3. \E r \in Regs : /\ Kept(s(r)) \/ Unkept(s(r))
                      /\ drawn' \in 0..MaxRegs /\ drawn' >= drawn
                      /\ r \notin dropped
  <2>1. CASE \E r \in Regs : store.browsers[r].endpoint = e /\ Answers(s(r)) /\ UNCHANGED drawn
    <3>1. PICK r \in Regs : store.browsers[r].endpoint = e /\ Answers(s(r)) /\ UNCHANGED drawn
      BY <2>1
    <3>2. store = disk
      BY <3>1 DEF Answers, Kept, Unkept, NoteInv, Synced
    <3>3. r \notin dropped
      BY <3>1, <3>2, NoBrowserTyped, NotificationsAssumption DEF NoteInv, PushInv, Removed
    <3>4. drawn' \in 0..MaxRegs /\ drawn' >= drawn
      BY <3>1 DEF NoteInv, Types, UserTypes
    <3> QED
      BY <3>1, <3>3, <3>4 DEF Answers
  <2>2. CASE drawn < MaxRegs /\ drawn' = drawn + 1 /\ Answers(s(drawn + 1))
    <3>1. drawn + 1 \in Regs /\ drawn + 1 \notin dropped /\ drawn' \in 0..MaxRegs /\ drawn' >= drawn
      BY <2>2, DroppedAreRegs DEF NoteInv, Regs
    <3> QED
      BY <2>2, <3>1 DEF Answers
  <2> QED
    BY <2>1, <2>2 DEF Register
<1>4. PICK r \in Regs : /\ Kept(s(r)) \/ Unkept(s(r))
                        /\ drawn' \in 0..MaxRegs /\ drawn' >= drawn
                        /\ r \notin dropped
  BY <1>3
<1> HIDE DEF b
<1>5. ~failed /\ store = disk /\ store.browsers \in [Regs -> Browser]
  BY <1>4, StoreParts DEF Kept, Unkept, NoteInv, Synced, Types, StoreTypes
<1>6. /\ bs(r) \in [Regs -> Browser]
      /\ \A q \in Regs : bs(r)[q].st # "none" \/ bs(r)[q] = store.browsers[q]
  BY <1>2, <1>5
<1>7. \A q \in dropped : bs(r)[q] = NoBrowser
  BY <1>4, <1>5, DroppedAreRegs DEF NoteInv, PushInv, Removed
<1> HIDE DEF bs
<1>8. Tame(s(r)) /\ s(r) \in Stores
  BY <1>5, <1>6, <1>7, BrowsersTame DEF NoteInv
<1> HIDE DEF s
<1>9. StoreTypes' /\ Synced' /\ disk' \in {disk, s(r)}
  BY <1>4, <1>8, AnswerSteps DEF NoteInv
<1>10. JobTypes' /\ UserTypes'
  <2>1. dropped \subseteq 1..drawn'
    BY <1>4, DroppedAreRegs DEF NoteInv, Regs
  <2> QED
    BY <1>1, <1>4, <2>1 DEF NoteInv, Types, JobTypes, UserTypes
<1> QED
  BY <1>1, <1>8, <1>9, <1>10, TameKept

LEMMA DisableKeeps ==
    ASSUME NoteInv, Known, NEW r \in Regs, Disable(r)
    PROVE  NoteInv'
<1> DEFINE bs == [store.browsers EXCEPT ![r] = NoBrowser]
           ob == [x \in Slots |-> IF x[1] = r THEN None ELSE store.outbox[x]]
           t == [store EXCEPT !.browsers = bs]
           s == [t EXCEPT !.outbox = ob]
<1>1. UNCHANGED <<cast, world, cache, job, wish, drawn, emitted, again>> /\ acts' \in Nat
  BY ActCounted DEF NoteInv, Disable, Other, Past
<1>2. /\ Registered(store, r)
      /\ \/ Kept(s) /\ dropped' = dropped \cup {r}
         \/ Unkept(s) /\ UNCHANGED dropped
  BY DEF Disable
<1>3. /\ ~failed /\ store = disk /\ store \in Stores /\ store.browsers \in [Regs -> Browser]
      /\ store.outbox \in [Slots -> Delivery \cup {None}]
  BY <1>2, StoreParts DEF Kept, Unkept, NoteInv, Synced, Types, StoreTypes
<1>4. bs \in [Regs -> Browser] /\ ob \in [Slots -> Delivery \cup {None}]
  BY <1>3, NoBrowserTyped
<1>5. bs[r] = NoBrowser /\ \A q \in Regs : q # r => bs[q] = store.browsers[q]
  BY <1>3
<1>6. \A x \in Slots : x[1] \in Regs /\ (ob[x] # None => x[1] # r /\ ob[x] = store.outbox[x])
  BY DEF Slots
<1> HIDE DEF bs, ob
<1>7. t \in Stores /\ t.browsers = bs /\ t.outbox = store.outbox /\ t.pref = store.pref /\ t.base = store.base
  BY <1>3, <1>4, WithBrowsers
<1> HIDE DEF t
<1>8. s \in Stores /\ s.browsers = bs /\ s.outbox = ob /\ s.pref = store.pref /\ s.base = store.base
  BY <1>4, <1>7, WithOutbox
<1> HIDE DEF s
<1>9. \A q \in dropped : s.browsers[q] = NoBrowser
  <2>1. dropped \subseteq Regs /\ \A q \in dropped : store.browsers[q] = NoBrowser
    BY <1>3, DroppedAreRegs DEF NoteInv, PushInv, Removed
  <2> QED
    BY <1>5, <1>8, <2>1
<1>10. SameDeliveries(s)
  BY <1>3, <1>6, <1>8 DEF SameDeliveries
<1>11. \A x \in Slots : s.outbox[x] # None => Registered(s, x[1])
  BY <1>3, <1>5, <1>6, <1>8 DEF NoteInv, PushInv, Removed, Registered
<1>12. Tame(s)
  BY <1>3, <1>8, <1>9, <1>10, <1>11 DEF Tame
<1>13. StoreTypes' /\ Synced' /\ disk' \in {disk, s}
  BY <1>2, <1>8, AnswerSteps DEF NoteInv
<1>14. dropped' \subseteq 1..drawn
  <2>1. store.browsers[r] # NoBrowser
    BY <1>2, NoBrowserTyped DEF Registered
  <2>2. r \in 1..drawn
    BY <1>3, <2>1, DroppedAreRegs DEF Known, Regs, NoteInv
  <2> QED
    BY <1>2, <2>2 DEF NoteInv, Types, UserTypes
<1>15. JobTypes' /\ UserTypes'
  BY <1>1, <1>14 DEF NoteInv, Types, JobTypes, UserTypes
<1>16. \A q \in dropped' : disk'.browsers[q] = NoBrowser
  <2>1. CASE Kept(s) /\ dropped' = dropped \cup {r}
    BY <1>5, <1>8, <1>9, <2>1 DEF Kept
  <2>2. CASE dropped' = dropped
    BY <1>3, <1>9, <1>13, <2>2 DEF NoteInv, PushInv, Removed
  <2> QED
    BY <1>2, <2>1, <2>2
<1> QED
  BY <1>1, <1>12, <1>13, <1>15, <1>16, TameMoved

LEMMA TestKeeps ==
    ASSUME NoteInv, NEW r \in Regs, Test(r)
    PROVE  NoteInv'
<1> DEFINE v == [inst |-> 0, kind |-> "test", key |-> r, rev |-> acts]
           d == [event |-> v, tries |-> 0, due |-> FALSE, expired |-> FALSE]
           y == <<r, "test">>
           ob == [store.outbox EXCEPT ![y] = d]
           s == [store EXCEPT !.outbox = ob]
<1>1. UNCHANGED <<cast, world, cache, job, wish, drawn, dropped, emitted, again>> /\ acts' \in Nat
  BY ActCounted DEF NoteInv, Test, Other, Past
<1>2. store.browsers[r].st = "on" /\ (Kept(s) \/ Unkept(s))
  BY DEF Test, Answers
<1>3. /\ ~failed /\ store = disk /\ store \in Stores
      /\ store.outbox \in [Slots -> Delivery \cup {None}]
  BY <1>2, StoreParts DEF Kept, Unkept, NoteInv, Synced, Types, StoreTypes
<1>4. v \in Event
  BY NotificationsAssumption DEF NoteInv, Types, UserTypes, Event, Keys
<1>5. v.kind = "test"
  OBVIOUS
<1> HIDE DEF v
<1>6. d \in Delivery /\ d.event = v
  BY <1>4 DEF Delivery
<1>7. y \in Slots /\ y[1] = r
  BY DEF Slots
<1> HIDE DEF d, y
<1>8. ob \in [Slots -> Delivery \cup {None}] /\ ob[y] = d /\ \A x \in Slots : x # y => ob[x] = store.outbox[x]
  BY <1>3, <1>6, <1>7
<1> HIDE DEF ob
<1>9. s \in Stores /\ s.browsers = store.browsers /\ s.outbox = ob /\ s.pref = store.pref /\ s.base = store.base
  BY <1>3, <1>8, WithOutbox
<1> HIDE DEF s
<1>10. SameDeliveries(s)
  BY <1>3, <1>5, <1>6, <1>8, <1>9 DEF SameDeliveries
<1>11. \A x \in Slots : s.outbox[x] # None => Registered(s, x[1])
  BY <1>2, <1>3, <1>7, <1>8, <1>9 DEF NoteInv, PushInv, Removed, Registered
<1>12. Tame(s)
  BY <1>3, <1>9, <1>10, <1>11 DEF Tame, NoteInv, PushInv, Removed
<1>13. StoreTypes' /\ Synced' /\ disk' \in {disk, s}
  BY <1>2, <1>9, AnswerSteps DEF NoteInv
<1>14. JobTypes' /\ UserTypes'
  BY <1>1 DEF NoteInv, Types, JobTypes, UserTypes
<1> QED
  BY <1>1, <1>12, <1>13, <1>14, TameKept

LEMMA PageKeeps ==
    ASSUME NoteInv, SwitchOff \/ \E r \in Regs : Visit(r) \/ Leaves(r)
    PROVE  NoteInv'
<1>1. /\ UNCHANGED <<cast, world, cache, store, disk, failed, job, wish, drawn, dropped, emitted, again>>
      /\ acts' \in Nat
  BY ActCounted DEF NoteInv, Types, UserTypes, SwitchOff, Visit, Leaves, Past
<1>2. JobTypes'
  BY <1>1 DEF NoteInv, Types, JobTypes
<1> QED
  BY <1>1, <1>2, JobMoves

LEMMA RestartKeeps ==
    ASSUME NoteInv, Restart
    PROVE  NoteInv'
<1>1. /\ store' = disk /\ job' = NoJob /\ cache' = [cache EXCEPT !.fresh = FALSE]
      /\ UNCHANGED <<cast, world, disk, wish, drawn, dropped, acts, emitted, again>>
  BY DEF Restart, Past
<1>2. cache' \in Caches /\ cache'.lead = cache.lead
  BY <1>1 DEF NoteInv, Types, WorldTypes, Caches
<1>3. Types' /\ Synced'
  BY <1>1, <1>2, NoJobTyped DEF NoteInv, Types, WorldTypes, StoreTypes, JobTypes, UserTypes, Synced
<1>4. OnceInv'
  BY <1>1, <1>2, NoJobTyped, OnceStays DEF NoteInv, SameViews
<1>5. Removed' /\ SameDeliveries(disk')
  BY <1>1, SameIsSame DEF NoteInv, PushInv, Removed, Registered
<1>6. PushInv'
  BY <1>1, <1>5, NoJobTyped, PushStays DEF NoteInv
<1> QED
  BY <1>3, <1>4, <1>6 DEF NoteInv

\* A choice takes the session's deliveries out; when nobody knows whether it
\* was saved, nothing was promised.
LEMMA PreferKeeps ==
    ASSUME NoteInv, NEW on \in BOOLEAN, Prefer(on)
    PROVE  NoteInv'
<1> DEFINE i == world.inst
           p == [inst |-> i, on |-> on]
           ob == [x \in Slots |-> IF store.outbox[x] # None /\ store.outbox[x].event.inst = i
                                  THEN None ELSE store.outbox[x]]
           t == [store EXCEPT !.pref = p]
           s == [t EXCEPT !.outbox = ob]
<1>1. UNCHANGED <<cast, world, cache, job, drawn, dropped, emitted, again>> /\ acts' \in Nat
  BY ActCounted DEF NoteInv, Prefer, Other, Past
<1>2. \/ Kept(s) /\ wish' = [wish EXCEPT ![i] = IF on THEN "on" ELSE "off"]
      \/ Unkept(s) /\ wish' = [wish EXCEPT ![i] = "any"]
  BY DEF Prefer
<1>3. /\ ~failed /\ store = disk /\ store \in Stores
      /\ store.outbox \in [Slots -> Delivery \cup {None}]
  BY <1>2, StoreParts DEF Kept, Unkept, NoteInv, Synced, Types, StoreTypes
<1>4. i \in 1..MaxInst /\ i \in Nat /\ wish \in [1..MaxInst -> {"on", "off", "any"}]
  BY WorldTyped DEF NoteInv, Worlds, Types, UserTypes
<1>5. p \in [inst : 0..MaxInst, on : BOOLEAN] /\ p.inst = i /\ p.on = on
  BY <1>4
<1>6. ob \in [Slots -> Delivery \cup {None}]
  BY <1>3
<1>7. \A x \in Slots : ob[x] # None => ob[x] = store.outbox[x] /\ ob[x].event.inst # i
  OBVIOUS
<1>8. ~on => p = [inst |-> i, on |-> FALSE]
  OBVIOUS
<1> HIDE DEF p, ob
<1>9. t \in Stores /\ t.pref = p /\ t.outbox = store.outbox /\ t.browsers = store.browsers /\ t.base = store.base
  BY <1>3, <1>5, WithPref
<1> HIDE DEF t
<1>10. s \in Stores /\ s.outbox = ob /\ s.pref = p /\ s.browsers = store.browsers /\ s.base = store.base
  BY <1>6, <1>9, WithOutbox
<1> HIDE DEF s, i
<1>11. StoreTypes' /\ Synced' /\ disk' \in {disk, s}
  BY <1>2, <1>10, AnswerSteps DEF NoteInv
<1>12. /\ wish' \in [1..MaxInst -> {"on", "off", "any"}]
       /\ \A j \in 1..MaxInst : j # i => wish'[j] = wish[j]
  BY <1>2, <1>4
<1>13. Types'
  BY <1>1, <1>11, <1>12 DEF NoteInv, Types, WorldTypes, JobTypes, UserTypes
<1>14. disk'.base = disk.base /\ disk'.browsers = disk.browsers
  BY <1>3, <1>10, <1>11
<1>15. OnceInv'
  BY <1>1, <1>14, OnceStays DEF NoteInv, SameViews
<1>16. \A x \in Slots : disk'.outbox[x] # None => disk.outbox[x] # None /\ disk'.outbox[x] = disk.outbox[x]
  BY <1>3, <1>7, <1>10, <1>11
<1>17. \/ wish'[i] # "off"
       \/ /\ disk' = s /\ ~on
          /\ \A x \in Slots : disk'.outbox[x] # None => disk'.outbox[x].event.inst # i
  BY <1>2, <1>4, <1>7, <1>10 DEF Kept
<1>18. Removed'
  BY <1>1, <1>14, <1>16 DEF NoteInv, PushInv, Removed, Registered
<1>19. Muted'
  <2>1. disk'.pref.inst <= world.inst
    BY <1>3, <1>4, <1>5, <1>10, <1>11 DEF NoteInv, PushInv, Muted, i
  <2>2. wish'[i] = "off" => disk'.pref = [inst |-> i, on |-> FALSE]
    BY <1>8, <1>10, <1>17
  <2> QED
    BY <1>1, <2>1, <2>2 DEF Muted, i
<1>20. Unbound' /\ Observed'
  BY <1>1 DEF NoteInv, PushInv, Unbound, Observed, Reducing
<1>21. Deliveries'
  <2> SUFFICES ASSUME NEW x \in Slots, disk'.outbox[x] # None, disk'.outbox[x].event.kind # "test"
               PROVE  LET e == disk'.outbox[x].event
                      IN  /\ e.inst <= world.inst
                          /\ e.inst = world.inst => wish'[world.inst] # "off" /\ world.bind = "none"
    BY <1>1 DEF Deliveries, Wanted
  <2>1. Wanted(disk.outbox[x].event) /\ disk'.outbox[x] = disk.outbox[x]
    BY <1>16 DEF NoteInv, PushInv, Deliveries
  <2> QED
    BY <1>17, <2>1 DEF Wanted, i
<1>22. Looked'
  <2> SUFFICES ASSUME job.pc = "recheck", job.event.kind # "test"
               PROVE  /\ job.event.inst \in 1..world.inst
                      /\ Mine(disk') => wish'[job.event.inst] # "off"
    BY <1>1 DEF Looked, Mine
  <2>1. /\ job.event.inst \in 1..world.inst
        /\ Mine(disk) => wish[job.event.inst] # "off"
    BY DEF NoteInv, PushInv, Looked
  <2>2. job.slot \in Slots
    BY DEF NoteInv, Types, JobTypes
  <2>3. Mine(disk') => Mine(disk)
    BY <1>16, <2>2 DEF Mine
  <2>4. Mine(disk') /\ job.event.inst = i => wish'[i] # "off"
    BY <1>17, <2>2 DEF Mine
  <2>5. job.event.inst \in 1..MaxInst
    BY <1>4, <2>1, WorldTyped DEF NoteInv, i
  <2> QED
    BY <1>12, <2>1, <2>3, <2>4, <2>5
<1> QED
  BY <1>11, <1>13, <1>15, <1>18, <1>19, <1>20, <1>21, <1>22 DEF NoteInv, PushInv

\* The choice of the request that made the session is bound.
LEMMA BindKeeps ==
    ASSUME NoteInv, Bind
    PROVE  NoteInv'
<1> DEFINE c == world.bind = "on"
           p == [inst |-> world.inst, on |-> c]
           s == IF store.pref.inst = world.inst THEN store ELSE [store EXCEPT !.pref = p]
<1>1. UNCHANGED <<cast, cache, job, wish, drawn, dropped, acts, emitted, again>> /\ world.bind # "none"
  BY DEF Bind, Past
<1>2. \/ Kept(s) /\ world' = [world EXCEPT !.bind = "none"]
      \/ Unkept(s) /\ UNCHANGED world
  BY DEF Bind
<1>3. ~failed /\ store = disk /\ store \in Stores
  BY <1>2 DEF Kept, Unkept, NoteInv, Synced, Types, StoreTypes
<1>4. world \in Worlds /\ world.inst \in Nat /\ world.turns \in Nat /\ world.turn \in Nat
  BY WorldTyped DEF NoteInv
<1>5. /\ p \in [inst : 0..MaxInst, on : BOOLEAN] /\ p.inst = world.inst
      /\ world.bind = "off" => p = [inst |-> world.inst, on |-> FALSE]
  <2>1. c \in BOOLEAN
    OBVIOUS
  <2>2. world.bind = "off" => c = FALSE
    OBVIOUS
  <2>3. world.inst \in 0..MaxInst
    BY <1>4 DEF Worlds
  <2> HIDE DEF c
  <2> QED
    BY <2>1, <2>2, <2>3
<1> HIDE DEF c
<1>6. [store EXCEPT !.pref = p] \in Stores /\ [store EXCEPT !.pref = p].pref = p
      /\ [store EXCEPT !.pref = p].outbox = store.outbox
      /\ [store EXCEPT !.pref = p].base = store.base /\ [store EXCEPT !.pref = p].browsers = store.browsers
  BY <1>3, <1>5, WithPref
<1> HIDE DEF p
<1>7. /\ s \in Stores /\ s.outbox = store.outbox /\ s.browsers = store.browsers /\ s.base = store.base
      /\ s.pref = IF store.pref.inst = world.inst THEN store.pref ELSE p
  BY <1>3, <1>6
<1> HIDE DEF s
<1>8. StoreTypes' /\ Synced' /\ disk' \in {disk, s}
  BY <1>2, <1>7, AnswerSteps DEF NoteInv
<1>9. disk'.base = disk.base /\ disk'.browsers = disk.browsers /\ disk'.outbox = disk.outbox
  BY <1>3, <1>7, <1>8
<1>10. /\ world' \in Worlds /\ world'.inst = world.inst /\ world'.asked = world.asked
       /\ world'.requests = world.requests /\ world'.turn = world.turn /\ world'.turns = world.turns
       /\ world'.status = world.status /\ (world'.bind = "none" \/ world' = world)
  BY <1>2, <1>4 DEF Worlds
<1>11. WorldGoes
  <2>1. world.requests \subseteq world.asked /\ world.turn <= world.turns
    BY DEF NoteInv, OnceInv, Asked, Begun
  <2> QED
    BY <1>4, <1>10, <2>1 DEF WorldGoes
<1>12. OnceInv'
  BY <1>1, <1>9, <1>11, OnceWorld DEF NoteInv
<1>13. Types'
  BY <1>1, <1>8, <1>10 DEF NoteInv, Types, WorldTypes, JobTypes, UserTypes
<1>14. Removed'
  BY <1>1, <1>9 DEF NoteInv, PushInv, Removed, Registered
<1>15. Muted'
  <2>1. disk'.pref.inst <= world.inst
    BY <1>3, <1>4, <1>5, <1>7, <1>8 DEF NoteInv, PushInv, Muted
  <2>2. ASSUME wish[world.inst] = "off"
        PROVE  \/ disk'.pref = [inst |-> world.inst, on |-> FALSE]
               \/ disk' = disk /\ world' = world
    <3>1. s.pref = [inst |-> world.inst, on |-> FALSE]
      <4>1. CASE disk.pref = [inst |-> world.inst, on |-> FALSE]
        <5>1. disk.pref.inst = world.inst
          BY <4>1
        <5> QED
          BY <1>3, <1>7, <4>1, <5>1
      <4>2. CASE disk.pref.inst # world.inst /\ world.bind = "off"
        BY <1>3, <1>5, <1>7, <4>2
      <4> QED
        BY <2>2, <4>1, <4>2 DEF NoteInv, PushInv, Muted
    <3>2. disk' = s \/ (disk' = disk /\ world' = world)
      BY <1>2, <1>8 DEF Kept
    <3> QED
      BY <3>1, <3>2
  <2> QED
    BY <1>1, <1>10, <2>1, <2>2 DEF Muted, NoteInv, PushInv
<1>16. Unbound' /\ Observed'
  BY <1>1, <1>10 DEF NoteInv, PushInv, Unbound, Observed, Reducing
<1>17. Deliveries'
  BY <1>1, <1>9, <1>10 DEF NoteInv, PushInv, Deliveries, Wanted
<1>18. Looked'
  BY <1>1, <1>9, <1>10 DEF NoteInv, PushInv, Looked, Mine
<1> QED
  BY <1>8, <1>12, <1>13, <1>14, <1>15, <1>16, <1>17, <1>18 DEF NoteInv, PushInv

-----------------------------------------------------------------------------
(* What an observation is reduced to *)

LEMMA RebasedFacts ==
    ASSUME NEW b \in Baseline, NEW o \in Seens
    PROVE  /\ Rebased(b, o) \in Baseline
           /\ Rebased(b, o).armed = IF o.status = "running" THEN o.turn ELSE 0
           /\ Rebased(b, o).completed = IF o.status = "completed" THEN o.turn ELSE 0
<1> DEFINE a == IF o.status = "running" THEN o.turn ELSE 0
           c == IF o.status = "completed" THEN o.turn ELSE 0
           e == IF b.inst = o.inst /\ b.event # None /\ Relevant(b.event, o) THEN b.event ELSE None
<1>1. MaxTurns \in Nat
  BY NotificationsAssumption
<1>2. a \in 0..MaxTurns /\ c \in 0..MaxTurns
  BY <1>1 DEF Seens
<1>3. e \in Event \cup {None}
  BY DEF Baseline
<1>4. Rebased(b, o) = [b EXCEPT !.armed = a, !.completed = c, !.event = e]
  BY DEF Rebased
<1> HIDE DEF a, c, e
<1>5. Rebased(b, o) \in Baseline /\ Rebased(b, o).armed = a /\ Rebased(b, o).completed = c
  BY <1>2, <1>3, <1>4 DEF Baseline
<1> QED
  BY <1>5 DEF a, c

LEMMA FollowedFacts ==
    ASSUME NEW b \in Baseline, NEW o \in Seens
    PROVE  Followed(b, o) \in Baseline /\ Followed(b, o).completed = b.completed
<1> DEFINE c == IF o.turn # b.lead THEN [b EXCEPT !.armed = o.turn, !.event = None] ELSE b
<1>1. c \in Baseline /\ c.completed = b.completed
  BY DEF Baseline, Seens
<1>2. Followed(b, o) = IF o.turn # 0 /\ o.status = "running" THEN [c EXCEPT !.armed = o.turn] ELSE c
  BY DEF Followed
<1> HIDE DEF c
<1> QED
  BY <1>1, <1>2 DEF Baseline, Seens

LEMMA CurrentFacts ==
    ASSUME NEW b \in Baseline, NEW o \in Seens
    PROVE  /\ Current(b, o) \in Baseline /\ Current(b, o).completed = b.completed
           /\ Current(b, o).armed = b.armed
<1>1. Current(b, o) \in {b, [b EXCEPT !.event = None]}
  BY DEF Current
<1> QED
  BY <1>1 DEF Baseline

\* The baseline before anything is raised.
Moved(b, o) ==
    [Current(IF Gap(b, o) THEN Rebased(b, o) ELSE Followed(b, o), o) EXCEPT
        !.inst = o.inst, !.eligible = TRUE, !.stale = FALSE, !.lead = o.turn, !.requests = o.requests]

LEMMA MovedFacts ==
    ASSUME NEW b \in Baseline, NEW o \in Seens
    PROVE  /\ Moved(b, o) \in Baseline /\ Moved(b, o).lead = o.turn /\ Moved(b, o).requests = o.requests
           /\ (o.status = "completed" /\ b.completed = o.turn) => Moved(b, o).completed = o.turn
           /\ (o.status = "completed" /\ Moved(b, o).armed = o.turn /\ o.turn # 0
               /\ Moved(b, o).completed # o.turn) => b.completed # o.turn
<1> DEFINE a == IF Gap(b, o) THEN Rebased(b, o) ELSE Followed(b, o)
           k == Current(a, o)
<1>1. a \in Baseline
  BY RebasedFacts, FollowedFacts
<1>2. o.status = "completed" => \/ a.completed = o.turn
                                \/ a.completed = b.completed
  BY RebasedFacts, FollowedFacts
<1> HIDE DEF a
<1>3. k \in Baseline /\ k.completed = a.completed /\ k.armed = a.armed
  BY <1>1, CurrentFacts
<1>4. Moved(b, o) = [k EXCEPT !.inst = o.inst, !.eligible = TRUE, !.stale = FALSE,
                              !.lead = o.turn, !.requests = o.requests]
  BY DEF Moved, a
<1> HIDE DEF k
<1>5. o.inst \in 0..MaxInst /\ o.turn \in 0..MaxTurns /\ o.requests \in SUBSET Requests
  BY DEF Seens
<1>6. /\ Moved(b, o) \in Baseline /\ Moved(b, o).lead = o.turn /\ Moved(b, o).requests = o.requests
      /\ Moved(b, o).completed = k.completed /\ Moved(b, o).armed = k.armed
  BY <1>3, <1>4, <1>5 DEF Baseline
<1> QED
  BY <1>2, <1>3, <1>6

LEMMA RaisedFacts ==
    ASSUME NEW b \in Baseline, NEW o \in Seens, NEW kind \in {"input", "done", "test"}, NEW key \in Keys
    PROVE  LET c == Raised(b, o, kind, key)
           IN  /\ c \in Baseline /\ c.lead = b.lead /\ c.requests = b.requests
               /\ c.completed = b.completed /\ c.event \in Event /\ c.event.inst = o.inst
               /\ ID(c.event) = <<o.inst, kind, key>>
<1> DEFINE n == b.rev + 1
           e == [inst |-> o.inst, kind |-> kind, key |-> key, rev |-> n]
<1>1. n \in Nat
  BY DEF Baseline
<1>2. Raised(b, o, kind, key) = [b EXCEPT !.rev = n, !.event = e]
  BY DEF Raised, Baseline
<1> HIDE DEF n
<1>3. o.inst \in 0..MaxInst
  BY DEF Seens
<1>4. e \in Event /\ e.inst = o.inst /\ ID(e) = <<o.inst, kind, key>>
  BY <1>1, <1>3 DEF Event, ID
<1> HIDE DEF e
<1> QED
  BY <1>1, <1>2, <1>4 DEF Baseline

\* The session could be seen.
Fresh(o) == ~o.gone /\ o.eligible /\ o.fresh

\* What is announced: a question the baseline does not know, or the turn that
\* is completed now and was not in the baseline.
News(b, o, out) ==
    /\ out.base.event \in Event /\ out.base.event.inst = o.inst
    /\ \/ \E r \in o.requests \ b.requests : ID(out.base.event) = <<o.inst, "input", r>>
       \/ /\ ID(out.base.event) = <<o.inst, "done", o.turn>> /\ o.turn # 0 /\ o.status = "completed"
          /\ out.base.completed = o.turn /\ b.completed # o.turn

\* A view that is seen replaces the one before, and a completed turn stays
\* completed; one that is not seen leaves it.
Follows(b, o, out) ==
    /\ out.base \in Baseline
    /\ IF Fresh(o)
       THEN /\ out.base.requests = o.requests /\ out.base.lead = o.turn
            /\ (o.status = "completed" /\ b.completed = o.turn) => out.base.completed = o.turn
       ELSE /\ out.base.requests = b.requests /\ out.base.lead = b.lead
            /\ out.base.completed = b.completed /\ ~out.emit
    /\ out.emit => News(b, o, out)

LEMMA ReduceFacts ==
    ASSUME NEW b \in Baseline, NEW o \in Seens, NEW out \in Reduce(b, o)
    PROVE  Follows(b, o, out)
<1> DEFINE gap  == Gap(b, o)
           same == [b EXCEPT !.inst = o.inst, !.eligible = o.eligible]
           c    == Moved(b, o)
           new  == o.requests \ b.requests
<1>1. same \in Baseline /\ same.requests = b.requests /\ same.lead = b.lead /\ same.completed = b.completed
  <2>1. o.inst \in 0..MaxInst
    BY DEF Seens
  <2>2. o.eligible \in BOOLEAN
    BY DEF Seens
  <2> QED
    BY <2>1, <2>2 DEF Baseline
<1>2. /\ c \in Baseline /\ c.lead = o.turn /\ c.requests = o.requests
      /\ (o.status = "completed" /\ b.completed = o.turn) => c.completed = o.turn
      /\ (o.status = "completed" /\ c.armed = o.turn /\ o.turn # 0
          /\ c.completed # o.turn) => b.completed # o.turn
  BY MovedFacts
<1>3. MaxTurns \in Nat /\ MaxInst \in Nat
  BY NotificationsAssumption
<1>4. CASE o.gone
  <2> DEFINE k == [b EXCEPT !.eligible = FALSE, !.event = None]
  <2>1. k \in Baseline /\ k.requests = b.requests /\ k.lead = b.lead /\ k.completed = b.completed
    BY DEF Baseline
  <2>2. out = [base |-> k, emit |-> FALSE]
    BY <1>4 DEF Reduce
  <2> HIDE DEF k
  <2>3. out.base = k /\ ~out.emit
    BY <2>2
  <2> QED
    BY <1>4, <2>1, <2>3 DEF Follows, Fresh
<1>5. CASE ~o.gone /\ ~o.eligible
  <2> DEFINE k == [same EXCEPT !.event = None, !.armed = 0]
  <2>1. out = [base |-> k, emit |-> FALSE]
    BY <1>5 DEF Reduce
  <2> HIDE DEF same
  <2>2. k \in Baseline /\ k.requests = b.requests /\ k.lead = b.lead /\ k.completed = b.completed
    <3>1. 0 \in 0..MaxTurns
      BY <1>3
    <3> QED
      BY <1>1, <3>1 DEF Baseline
  <2> HIDE DEF k
  <2>3. out.base = k /\ ~out.emit
    BY <2>1
  <2> QED
    BY <1>5, <2>2, <2>3 DEF Follows, Fresh
<1>6. CASE ~o.gone /\ o.eligible /\ ~o.fresh
  <2>1. out = [base |-> same, emit |-> FALSE]
    BY <1>6 DEF Reduce
  <2> HIDE DEF same
  <2>2. out.base = same /\ ~out.emit
    BY <2>1
  <2> QED
    BY <1>1, <1>6, <2>2 DEF Follows, Fresh
<1>7. CASE Fresh(o)
  <2>1. \/ out = [base |-> c, emit |-> FALSE]
        \/ \E r \in o.requests : /\ out = [base |-> Raised(c, o, "input", r), emit |-> ~gap /\ new # {}]
                                 /\ new # {} => r \in new
        \/ /\ o.turn # 0 /\ o.status = "completed" /\ c.armed = o.turn /\ c.completed # o.turn
           /\ out = [base |-> [Raised(c, o, "done", o.turn) EXCEPT !.completed = o.turn], emit |-> TRUE]
    <3> HIDE DEF gap
    <3>1. CASE o.requests # {}
      <4>1. ASSUME NEW r \in (IF new # {} THEN new ELSE o.requests),
                   out = IF c.event # None /\ ID(c.event) = <<o.inst, "input", r>>
                         THEN [base |-> c, emit |-> FALSE]
                         ELSE [base |-> Raised(c, o, "input", r), emit |-> ~gap /\ new # {}]
            PROVE  \/ out = [base |-> c, emit |-> FALSE]
                   \/ \E q \in o.requests : /\ out = [base |-> Raised(c, o, "input", q), emit |-> ~gap /\ new # {}]
                                            /\ new # {} => q \in new
        <5>1. r \in o.requests /\ (new # {} => r \in new)
          OBVIOUS
        <5> HIDE DEF c, new
        <5> QED
          BY <4>1, <5>1
      <4>2. \/ out = [base |-> c, emit |-> FALSE]
            \/ \E r \in (IF new # {} THEN new ELSE o.requests) :
                  out = IF c.event # None /\ ID(c.event) = <<o.inst, "input", r>>
                        THEN [base |-> c, emit |-> FALSE]
                        ELSE [base |-> Raised(c, o, "input", r), emit |-> ~gap /\ new # {}]
        BY <1>7, <3>1 DEF Reduce, Fresh, Moved, gap
      <4> QED
        BY <4>1, <4>2
    <3>2. CASE o.requests = {}
      BY <1>7, <3>2 DEF Reduce, Fresh, Moved, gap
    <3> QED
      BY <3>1, <3>2
  <2>2. CASE out = [base |-> c, emit |-> FALSE]
    <3> HIDE DEF c
    <3>1. out.base = c /\ ~out.emit
      BY <2>2
    <3> QED
      BY <1>2, <1>7, <3>1 DEF Follows
  <2>3. ASSUME NEW r \in o.requests, new # {} => r \in new,
               out = [base |-> Raised(c, o, "input", r), emit |-> ~gap /\ new # {}]
        PROVE  Follows(b, o, out)
    <3> DEFINE m == ~gap /\ new # {}
               k == Raised(c, o, "input", r)
    <3>1. out.base = k /\ out.emit = m /\ (m => r \in o.requests \ b.requests)
      BY <2>3
    <3> HIDE DEF m, c
    <3>2. r \in Keys
      BY DEF Seens, Keys
    <3>3. /\ k \in Baseline /\ k.lead = c.lead /\ k.requests = c.requests
          /\ k.completed = c.completed /\ k.event \in Event /\ k.event.inst = o.inst
          /\ ID(k.event) = <<o.inst, "input", r>>
      BY <1>2, <3>2, RaisedFacts
    <3> HIDE DEF k
    <3>4. out.emit => News(b, o, out)
      BY <3>1, <3>3 DEF News
    <3> QED
      BY <1>2, <1>7, <3>1, <3>3, <3>4 DEF Follows
  <2>4. CASE /\ o.turn # 0 /\ o.status = "completed" /\ c.armed = o.turn /\ c.completed # o.turn
             /\ out = [base |-> [Raised(c, o, "done", o.turn) EXCEPT !.completed = o.turn], emit |-> TRUE]
    <3> HIDE DEF c
    <3> DEFINE a == Raised(c, o, "done", o.turn)
               k == [a EXCEPT !.completed = o.turn]
    <3>1. out.base = k
      BY <2>4
    <3>2. o.turn \in Keys /\ o.turn \in 0..MaxTurns
      BY <1>3, <2>4 DEF Seens, Keys
    <3>3. /\ a \in Baseline /\ a.lead = c.lead /\ a.requests = c.requests
          /\ a.completed = c.completed /\ a.event \in Event /\ a.event.inst = o.inst
          /\ ID(a.event) = <<o.inst, "done", o.turn>>
      BY <1>2, <3>2, RaisedFacts
    <3> HIDE DEF a
    <3>4. /\ k \in Baseline /\ k.lead = a.lead /\ k.requests = a.requests
          /\ k.completed = o.turn /\ k.event = a.event
      BY <3>2, <3>3 DEF Baseline
    <3> HIDE DEF k
    <3>5. News(b, o, out)
      BY <1>2, <2>4, <3>1, <3>3, <3>4 DEF News
    <3> QED
      BY <1>2, <1>7, <3>1, <3>3, <3>4, <3>5 DEF Follows
  <2> QED
    BY <2>1, <2>2, <2>3, <2>4
<1> QED
  BY <1>4, <1>5, <1>6, <1>7 DEF Fresh

-----------------------------------------------------------------------------
(* What a reconciliation saves *)

LEMMA LapsedFacts ==
    ASSUME NEW s \in Stores
    PROVE  /\ Lapsed(s) \in Stores /\ Lapsed(s).outbox = s.outbox /\ Lapsed(s).pref = s.pref
           /\ \A r \in Regs : s.browsers[r] = NoBrowser => Lapsed(s).browsers[r] = NoBrowser
<1> DEFINE bs == [r \in Regs |-> IF Registered(s, r) /\ s.browsers[r].lapsed
                                 THEN [s.browsers[r] EXCEPT !.st = "dead"] ELSE s.browsers[r]]
<1>1. Lapsed(s) = [s EXCEPT !.browsers = bs]
  BY DEF Lapsed
<1>2. bs \in [Regs -> Browser]
  <2>1. \A r \in Regs : s.browsers[r] \in Browser /\ [s.browsers[r] EXCEPT !.st = "dead"] \in Browser
    BY StoreParts DEF Browser
  <2> QED
    BY <2>1
<1>3. \A r \in Regs : s.browsers[r] = NoBrowser => bs[r] = NoBrowser
  BY NoBrowserTyped DEF Registered
<1> HIDE DEF bs
<1> QED
  BY <1>1, <1>2, <1>3, WithBrowsers

LEMMA PrunedFacts ==
    ASSUME NEW s \in Stores
    PROVE  /\ Pruned(s) \in Stores /\ Pruned(s).browsers = s.browsers /\ Pruned(s).pref = s.pref
           /\ Pruned(s).base = s.base
           /\ \A x \in Slots : Pruned(s).outbox[x] # None =>
                 s.browsers[x[1]].st = "on" /\ Pruned(s).outbox[x] = s.outbox[x]
<1> DEFINE ob == [x \in Slots |-> IF Stands(s, x) THEN s.outbox[x] ELSE None]
<1>1. Pruned(s) = [s EXCEPT !.outbox = ob]
  BY DEF Pruned
<1>2. ob \in [Slots -> Delivery \cup {None}]
  BY StoreParts
<1>3. \A x \in Slots : ob[x] # None => s.browsers[x[1]].st = "on" /\ ob[x] = s.outbox[x]
  BY DEF Stands
<1> HIDE DEF ob
<1> QED
  BY <1>1, <1>2, <1>3, WithOutbox

LEMMA AdmittedFacts ==
    ASSUME NEW s \in Stores, NEW e \in Event, NEW u \in Admitted(s, e)
    PROVE  /\ u \in Stores /\ u.browsers = s.browsers /\ u.pref = s.pref /\ u.base = s.base
           /\ \A x \in Slots : u.outbox[x] # None =>
                 \/ u.outbox[x] = s.outbox[x]
                 \/ s.browsers[x[1]].st = "on" /\ u.outbox[x].event = e
<1> DEFINE d == [event |-> e, tries |-> 0, due |-> TRUE, expired |-> FALSE]
           news == {x \in Slots : x[2] = "session" /\ s.browsers[x[1]].st = "on"}
           fresh == news \ Pending(s)
           ob(taken) == [x \in Slots |-> IF x \in (news \ fresh) \cup taken THEN d ELSE s.outbox[x]]
<1>1. PICK taken \in SUBSET fresh : u = [s EXCEPT !.outbox = ob(taken)]
  BY DEF Admitted
<1>2. d \in Delivery /\ d.event = e
  BY DEF Delivery
<1> HIDE DEF d
<1>3. ob(taken) \in [Slots -> Delivery \cup {None}]
  BY <1>2, StoreParts
<1>4. \A x \in Slots : \/ ob(taken)[x] = s.outbox[x]
                       \/ s.browsers[x[1]].st = "on" /\ ob(taken)[x].event = e
  BY <1>2
<1> HIDE DEF ob
<1> QED
  BY <1>1, <1>3, <1>4, WithOutbox

\* Deliveries that were there, or the announced event for a session that is on.
LEMMA ReconciledFacts ==
    ASSUME NEW s \in Stores, NEW o \in Seens, NEW out, Follows(s.base, o, out),
           NEW u \in Reconciled(s, o, out)
    PROVE  /\ u \in Stores /\ u.base = out.base /\ u.pref = s.pref
           /\ \A r \in Regs : s.browsers[r] = NoBrowser => u.browsers[r] = NoBrowser
           /\ \A x \in Slots : u.outbox[x] # None =>
                 /\ u.browsers[x[1]].st = "on"
                 /\ \/ u.outbox[x] = s.outbox[x]
                    \/ out.emit /\ Enabled(s, o.inst) /\ u.outbox[x].event = out.base.event
<1> DEFINE l == Lapsed(s)
           w == [l EXCEPT !.base = out.base]
           t == Pruned(w)
<1>1. /\ l \in Stores /\ l.outbox = s.outbox /\ l.pref = s.pref
      /\ \A r \in Regs : s.browsers[r] = NoBrowser => l.browsers[r] = NoBrowser
  BY LapsedFacts
<1>2. u \in (IF out.emit /\ ~off /\ Enabled(s, o.inst) THEN Admitted(t, out.base.event) ELSE {t})
  BY DEF Reconciled
<1> HIDE DEF l
<1>3. /\ w \in Stores /\ w.base = out.base /\ w.outbox = l.outbox /\ w.pref = l.pref
      /\ w.browsers = l.browsers
  BY <1>1, WithBase DEF Follows
<1> HIDE DEF w
<1>4. /\ t \in Stores /\ t.browsers = w.browsers /\ t.pref = w.pref /\ t.base = w.base
      /\ \A x \in Slots : t.outbox[x] # None =>
            w.browsers[x[1]].st = "on" /\ t.outbox[x] = w.outbox[x]
  BY <1>3, PrunedFacts
<1> HIDE DEF t
<1>5. CASE out.emit /\ Enabled(s, o.inst) /\ u \in Admitted(t, out.base.event)
  <2>1. out.base.event \in Event
    BY <1>5 DEF Follows, News
  <2>2. /\ u \in Stores /\ u.browsers = t.browsers /\ u.pref = t.pref /\ u.base = t.base
        /\ \A x \in Slots : u.outbox[x] # None =>
              \/ u.outbox[x] = t.outbox[x]
              \/ t.browsers[x[1]].st = "on" /\ u.outbox[x].event = out.base.event
    BY <1>4, <1>5, <2>1, AdmittedFacts
  <2> QED
    BY <1>1, <1>3, <1>4, <1>5, <2>2
<1>6. CASE u = t
  BY <1>1, <1>3, <1>4, <1>6
<1> QED
  BY <1>2, <1>5, <1>6

-----------------------------------------------------------------------------
(* The observation is saved *)

LEMMA SeenKnown ==
    ASSUME Types, Reducing
    PROVE  /\ job.seen \in Seens /\ job.seen.inst \in 1..MaxInst /\ job.seen.inst \in Nat
           /\ job.seen.turn \in Nat /\ world.turns \in Nat
BY WorldTyped DEF Types, JobTypes, Reducing, Seens

\* A new view: what it misses is over, and what it announces was not.
LEMMA OnceSeen ==
    ASSUME Types, OnceInv, Reducing, NEW out, Follows(disk.base, job.seen, out),
           disk'.base = out.base, job'.pc # "reduce", UNCHANGED <<world, cache>>,
           emitted' = emitted \cup (IF out.emit THEN {ID(out.base.event)} ELSE {}),
           again' = (again \/ (IF out.emit THEN {ID(out.base.event)} ELSE {}) \cap emitted # {})
    PROVE  OnceInv'
<1> DEFINE o == job.seen
           b == disk.base
           k == out.base
           id == ID(out.base.event)
<1>1. ~Reducing'
  BY DEF Reducing
<1>2. o \in Seens /\ o.inst \in 1..MaxInst /\ o.turn \in Nat /\ world.turns \in Nat
  BY SeenKnown
<1>3. \/ k.requests = o.requests /\ k.lead = o.turn
         /\ ((o.status = "completed" /\ b.completed = o.turn) => k.completed = o.turn)
      \/ k.requests = b.requests /\ k.lead = b.lead /\ k.completed = b.completed /\ ~out.emit
  BY DEF Follows
<1>4. out.emit =>
         \/ \E r \in o.requests \ b.requests : id = <<o.inst, "input", r>>
         \/ /\ id = <<o.inst, "done", o.turn>> /\ o.turn # 0 /\ o.status = "completed"
            /\ k.completed = o.turn /\ b.completed # o.turn
  BY DEF Follows, News
<1>5. out.emit => k.requests = o.requests /\ k.lead = o.turn
  BY <1>3
<1>6. disk'.base = k
  OBVIOUS
<1>7. /\ Asked /\ Questions /\ Begun /\ Turns /\ Completed /\ AskedOnce /\ DoneOnce /\ EmittedOnce
  BY DEF OnceInv
<1>8. \A q \in emitted' : q \in emitted \/ (out.emit /\ q = id)
  OBVIOUS
<1> HIDE DEF k, id
<1>9. Asked'
  BY <1>1, <1>3, <1>6, <1>7 DEF Asked
<1>10. Questions'
  BY <1>1, <1>3, <1>6, <1>7 DEF Questions
<1>11. Begun'
  BY <1>1, <1>3, <1>6, <1>7 DEF Begun
<1>12. Turns'
  BY <1>1, <1>3, <1>6, <1>7 DEF Turns
<1>13. Completed'
  BY <1>1, <1>7 DEF Completed
<1>14. AskedOnce'
  <2> SUFFICES ASSUME NEW i \in 1..MaxInst, NEW r \in Requests, <<i, "input", r>> \in emitted'
               PROVE  r \in k.requests \/ Over(r)'
    BY <1>6 DEF AskedOnce
  <2>1. CASE <<i, "input", r>> \in emitted
    <3>1. r \in b.requests \/ Over(r)
      BY <1>7, <2>1 DEF AskedOnce
    <3>2. Over(r) => Over(r)'
      BY <1>1 DEF Over
    <3>3. r \in b.requests /\ r \notin k.requests => Over(r)'
      BY <1>1, <1>3, <1>7 DEF Over, Asked, Questions, Reducing
    <3> QED
      BY <3>1, <3>2, <3>3
  <2>2. CASE out.emit /\ <<i, "input", r>> = id
    BY <1>4, <1>5, <2>2
  <2> QED
    BY <1>8, <2>1, <2>2
<1>15. DoneOnce'
  <2> SUFFICES ASSUME NEW i \in 1..MaxInst, NEW t \in 1..MaxTurns, <<i, "done", t>> \in emitted'
               PROVE  /\ t <= world.turns
                      /\ (k.lead = t /\ k.completed = t /\ Ended(t)') \/ Left(t)'
    BY <1>6 DEF DoneOnce
  <2>1. t \in Nat /\ t # 0
    OBVIOUS
  <2>2. CASE <<i, "done", t>> \in emitted
    <3>1. /\ t <= world.turns
          /\ (b.lead = t /\ b.completed = t /\ Ended(t)) \/ Left(t)
      BY <1>7, <2>2 DEF DoneOnce
    <3>2. CASE Left(t)
      BY <1>1, <3>1, <3>2 DEF Left
    <3>3. CASE b.lead = t /\ b.completed = t /\ Ended(t)
      <4>1. Ended(t)'
        BY <1>1, <3>3 DEF Ended
      <4>2. CASE k.requests = b.requests /\ k.lead = b.lead /\ k.completed = b.completed
        BY <3>1, <3>3, <4>1, <4>2
      <4>3. CASE /\ k.lead = o.turn /\ o.turn = t
                 /\ (o.status = "completed" /\ b.completed = o.turn) => k.completed = o.turn
        <5>1. o.status = "completed"
          BY <3>3, <4>3 DEF Ended
        <5> QED
          BY <3>1, <3>3, <4>1, <4>3, <5>1
      <4>4. CASE o.turn # t
        <5>1. cache.lead.turn # t
          BY <1>7, <2>1, <3>3, <4>4 DEF Turns
        <5>2. world.turn # t
          BY <1>7, <2>1, <3>3, <5>1 DEF Turns
        <5> QED
          BY <1>1, <3>1, <5>1, <5>2 DEF Left
      <4> QED
        BY <1>3, <4>2, <4>3, <4>4
    <3> QED
      BY <3>1, <3>2, <3>3
  <2>3. CASE out.emit /\ <<i, "done", t>> = id
    <3>1. o.turn = t /\ o.status = "completed" /\ k.completed = t /\ k.lead = t
      BY <1>4, <1>5, <2>3
    <3>2. t <= world.turns
      BY <1>7, <3>1 DEF Begun
    <3>3. cache.lead.turn = t => cache.lead.status = "completed"
      BY <1>7, <2>1, <3>1 DEF Completed
    <3>4. world.turn = t => cache.lead.turn = t
      BY <1>7, <2>1, <3>1 DEF Turns
    <3>5. world.turn = t => world.status = "completed"
      BY <1>7, <2>1, <3>3, <3>4 DEF Completed
    <3>6. Ended(t)'
      BY <1>1, <3>3, <3>5 DEF Ended
    <3> QED
      BY <3>1, <3>2, <3>6
  <2> QED
    BY <1>8, <2>2, <2>3
<1>16. EmittedOnce'
  <2>1. out.emit => id \notin emitted
    <3> SUFFICES ASSUME out.emit, id \in emitted
                 PROVE  FALSE
      OBVIOUS
    <3>1. ASSUME NEW r \in o.requests \ b.requests, id = <<o.inst, "input", r>>
          PROVE  FALSE
      <4>1. r \in Requests
        BY <1>2 DEF Seens
      <4> QED
        BY <1>2, <1>7, <3>1, <4>1 DEF AskedOnce, Over
    <3>2. CASE id = <<o.inst, "done", o.turn>> /\ o.turn # 0 /\ b.completed # o.turn
      <4>1. o.turn \in 1..MaxTurns
        BY <1>2, <3>2 DEF Seens
      <4> QED
        BY <1>2, <1>7, <3>2, <4>1 DEF DoneOnce, Left
    <3> QED
      BY <1>4, <3>1, <3>2
  <2>2. ~again
    BY <1>7 DEF EmittedOnce
  <2>3. again' = (again \/ (IF out.emit THEN {id} ELSE {}) \cap emitted # {})
    BY DEF id
  <2>4. (IF out.emit THEN {id} ELSE {}) \cap emitted = {}
    BY <2>1
  <2> QED
    BY <2>2, <2>3, <2>4 DEF EmittedOnce
<1> QED
  BY <1>9, <1>10, <1>11, <1>12, <1>13, <1>14, <1>15, <1>16 DEF OnceInv

\* A delivery is admitted of the session as it was seen: of an earlier one, or
\* of one whose choice is bound and on.
LEMMA ReconcileKeeps ==
    ASSUME NoteInv, Reconcile
    PROVE  NoteInv'
<1> DEFINE o == job.seen
<1>1. Reducing /\ UNCHANGED <<cast, world, cache, off, wish, drawn, dropped, acts>>
  BY DEF Reconcile, Quiet, Reducing
<1>2. PICK out \in Reduce(store.base, o) : \E s \in Reconciled(store, o, out) :
         LET id == IF out.emit THEN {ID(out.base.event)} ELSE {}
         IN  /\ \/ /\ Kept(s) /\ job' = IF off THEN NoJob ELSE [NoJob EXCEPT !.pc = "pick"]
                \/ /\ Unkept(s) /\ job' = NoJob
             /\ emitted' = IF disk' = s THEN emitted \cup id ELSE emitted
             /\ again' = (again \/ (disk' = s /\ id \cap emitted # {}))
  BY DEF Reconcile
<1> DEFINE id == IF out.emit THEN {ID(out.base.event)} ELSE {}
<1>3. PICK s \in Reconciled(store, o, out) :
         /\ \/ /\ Kept(s) /\ job' = IF off THEN NoJob ELSE [NoJob EXCEPT !.pc = "pick"]
            \/ /\ Unkept(s) /\ job' = NoJob
         /\ emitted' = IF disk' = s THEN emitted \cup id ELSE emitted
         /\ again' = (again \/ (disk' = s /\ id \cap emitted # {}))
  BY <1>2
<1>4. /\ store \in Stores /\ store = disk /\ store.base \in Baseline /\ o \in Seens
      /\ o.inst \in 1..MaxInst /\ o.inst \in Nat
  BY <1>1, <1>3, StoreParts, SeenKnown DEF NoteInv, Types, StoreTypes, Synced, Kept, Unkept
<1>5. Follows(store.base, o, out)
  BY <1>4, ReduceFacts
<1>6. /\ s \in Stores /\ s.base = out.base /\ s.pref = store.pref
      /\ \A r \in Regs : store.browsers[r] = NoBrowser => s.browsers[r] = NoBrowser
      /\ \A x \in Slots : s.outbox[x] # None =>
            /\ s.browsers[x[1]].st = "on"
            /\ \/ s.outbox[x] = store.outbox[x]
               \/ out.emit /\ Enabled(store, o.inst) /\ s.outbox[x].event = out.base.event
  BY <1>4, <1>5, ReconciledFacts
<1>7. StoreTypes' /\ Synced' /\ disk' \in {disk, s}
  BY <1>3, <1>6, AnswerSteps DEF NoteInv
<1>8. job' \in Jobs /\ job'.pc \in {"rest", "pick"}
  BY <1>3, NoJobTyped DEF Jobs
<1>9. Types'
  BY <1>1, <1>7, <1>8 DEF NoteInv, Types, WorldTypes, JobTypes, UserTypes
<1>10. OnceInv'
  <2>1. CASE disk' = s
    <3>1. emitted' = emitted \cup id
      BY <1>3, <2>1
    <3>2. again' = (again \/ id \cap emitted # {})
      BY <1>3, <2>1
    <3> QED
      BY <1>1, <1>4, <1>5, <1>6, <1>8, <2>1, <3>1, <3>2, OnceSeen DEF NoteInv
  <2>2. CASE disk' # s
    <3>1. disk' = disk
      BY <1>7, <2>2
    <3>2. emitted' = emitted
      BY <1>3, <2>2
    <3>3. again' => again
      BY <1>3, <2>2
    <3> QED
      BY <1>1, <1>8, <3>1, <3>2, <3>3, OnceStays DEF NoteInv, SameViews
  <2> QED
    BY <2>1, <2>2
<1>11. Removed'
  <2>1. \A r \in dropped' : disk'.browsers[r] = NoBrowser
    BY <1>1, <1>4, <1>6, <1>7, DroppedAreRegs DEF NoteInv, PushInv, Removed
  <2>2. \A x \in Slots : disk'.outbox[x] # None => Registered(disk', x[1])
    BY <1>6, <1>7 DEF NoteInv, PushInv, Removed, Registered
  <2> QED
    BY <2>1, <2>2 DEF Removed, Registered
<1>12. Muted'
  BY <1>1, <1>4, <1>6, <1>7 DEF NoteInv, PushInv, Muted
<1>13. Unbound' /\ Observed' /\ Looked'
  BY <1>8 DEF Unbound, Observed, Looked, Reducing
<1>14. Deliveries'
  <2> SUFFICES ASSUME NEW x \in Slots, disk'.outbox[x] # None
               PROVE  Wanted(disk'.outbox[x].event)
    BY <1>1 DEF Deliveries, Wanted
  <2>1. CASE disk'.outbox[x] = disk.outbox[x]
    BY <2>1 DEF NoteInv, PushInv, Deliveries
  <2>2. CASE out.emit /\ Enabled(store, o.inst) /\ disk'.outbox[x].event = out.base.event
    <3>1. out.base.event.inst = o.inst /\ o.eligible
      BY <1>5, <2>2 DEF Follows, News, Fresh
    <3>2. o.inst <= world.inst
      BY <1>1 DEF NoteInv, PushInv, Observed
    <3>3. o.inst = world.inst => world.bind = "none"
      BY <1>1, <3>1 DEF NoteInv, PushInv, Unbound
    <3>4. o.inst = world.inst => wish[world.inst] # "off"
      <4> SUFFICES ASSUME o.inst = world.inst, wish[world.inst] = "off"
                   PROVE  FALSE
        OBVIOUS
      <4>1. disk.pref = [inst |-> world.inst, on |-> FALSE]
        BY <3>3 DEF NoteInv, PushInv, Muted
      <4>2. disk.pref.inst = world.inst /\ ~disk.pref.on
        BY <4>1
      <4> QED
        BY <1>4, <2>2, <4>2 DEF Enabled
    <3> QED
      BY <2>2, <3>1, <3>2, <3>3, <3>4 DEF Wanted
  <2> QED
    BY <1>4, <1>6, <1>7, <2>1, <2>2
<1> QED
  BY <1>7, <1>9, <1>10, <1>11, <1>12, <1>13, <1>14 DEF NoteInv, PushInv

-----------------------------------------------------------------------------
(* The invariant *)

LEMMA NoteInit ==
    ASSUME Init
    PROVE  NoteInv /\ Known
<1>1. /\ MaxInst \in Nat /\ MaxTurns \in Nat /\ MaxRegs \in Nat
  BY NotificationsAssumption
<1> USE <1>1
<1>2. NoBaseline \in Baseline /\ NoBaseline.requests = {} /\ NoBaseline.lead = 0
  BY DEF NoBaseline, Baseline
<1>3. /\ NoStore \in Stores /\ NoStore.base = NoBaseline /\ NoStore.pref.inst = 0
      /\ \A r \in Regs : NoStore.browsers[r] = NoBrowser
      /\ \A x \in Slots : NoStore.outbox[x] = None
  <2>1. [inst |-> 0, on |-> TRUE] \in [inst : 0..MaxInst, on : BOOLEAN]
    OBVIOUS
  <2> QED
    BY <1>2, <2>1, NoBrowserTyped DEF NoStore, Stores
<1>4. job = NoJob /\ ~Reducing /\ JobTypes
  BY NoJobTyped DEF Init, Reducing, JobTypes
<1>5. 1 \in 1..MaxInst
  BY NotificationsAssumption
<1>6. /\ store = NoStore /\ disk = NoStore /\ wish = [i \in 1..MaxInst |-> "on"] /\ drawn = 0
      /\ dropped = {} /\ emitted = {} /\ again = FALSE /\ acts = 0 /\ cast \in Casts
  BY DEF Init
<1>7. /\ world \in Worlds /\ world.inst = 1 /\ world.requests = {} /\ world.turn = 0 /\ world.turns = 0
      /\ world.asked = {} /\ world.bind = "none"
  BY <1>5 DEF Init, Worlds, Status
<1>8. /\ cache \in Caches /\ cache.lead.turn = 0 /\ cache.lead.requests = {}
      /\ cache.lead.status = "none"
  BY <1>5 DEF Init, Caches, Status, NoActivity
<1>9. Types
  <2>1. UserTypes
    BY <1>6 DEF UserTypes
  <2> QED
    BY <1>3, <1>4, <1>6, <1>7, <1>8, <2>1 DEF Types, WorldTypes, StoreTypes
<1>10. Synced
  BY <1>6 DEF Synced
<1>11. OnceInv
  <2>1. Asked /\ Questions
    BY <1>2, <1>3, <1>4, <1>6, <1>7, <1>8 DEF Asked, Questions
  <2>2. Begun /\ Turns /\ Completed
    BY <1>2, <1>3, <1>4, <1>6, <1>7, <1>8 DEF Begun, Turns, Completed
  <2>3. AskedOnce /\ DoneOnce /\ EmittedOnce
    BY <1>6 DEF AskedOnce, DoneOnce, EmittedOnce
  <2> QED
    BY <2>1, <2>2, <2>3 DEF OnceInv
<1>12. PushInv
  <2>1. Removed /\ Deliveries
    BY <1>3, <1>6 DEF Removed, Deliveries
  <2>2. Muted
    BY <1>3, <1>5, <1>6, <1>7 DEF Muted
  <2>3. Unbound /\ Observed /\ Looked
    BY <1>4, NoJobTyped DEF Unbound, Observed, Looked
  <2> QED
    BY <2>1, <2>2, <2>3 DEF PushInv
<1>13. Known
  BY <1>3, <1>6 DEF Known
<1> QED
  BY <1>9, <1>10, <1>11, <1>12, <1>13 DEF NoteInv

LEMMA NoteNext ==
    ASSUME NoteInv, Known, [Next]_vars
    PROVE  NoteInv'
<1>1. CASE Worker
  <2>1. CASE \E x \in Slots : PickShown(x) \/ Pick(x)
    BY <2>1, PickShownKeeps, WorkerKeeps
  <2> QED
    BY <1>1, <2>1, ObserveKeeps, ReconcileKeeps, WorkerKeeps, LookKeeps, PostKeeps DEF Worker
<1>2. CASE \E x \in Slots : Waited(x) \/ Expires(x)
  BY <1>2, TimeKeeps
<1>3. CASE \E e \in Endpoints : Register(e)
  BY <1>3, RegisterKeeps
<1>4. CASE \E r \in Regs : Disable(r) \/ Lapse(r) \/ Test(r) \/ Visit(r) \/ Leaves(r)
  BY <1>4, DisableKeeps, LapseKeeps, TestKeeps, PageKeeps
<1>5. CASE Prefer(TRUE) \/ Prefer(FALSE) \/ Bind
  BY <1>5, PreferKeeps, BindKeeps
<1>6. CASE \/ TurnStarts \/ TurnEnds \/ PeerWorks \/ Hold \/ Delete
           \/ \E r \in Requests : Ask(r) \/ Reply(r)
  BY <1>6, SessionKeeps
<1>7. CASE Recreate
  BY <1>7, RecreateKeeps
<1>8. CASE Cached \/ Disconnected
  BY <1>8, CacheSteps
<1>9. CASE GapPasses
  BY <1>9, GapKeeps
<1>10. CASE SwitchOff
  BY <1>10, PageKeeps
<1>11. CASE Restart
  BY <1>11, RestartKeeps
<1>12. CASE UNCHANGED vars
  <2>1. /\ UNCHANGED <<cast, world, cache, store, disk, failed, job, wish, drawn, dropped, emitted, again>>
        /\ acts' \in Nat
    BY <1>12 DEF vars, NoteInv, Types, UserTypes
  <2>2. JobTypes'
    BY <2>1 DEF NoteInv, Types, JobTypes
  <2> QED
    BY <2>1, <2>2, JobMoves
<1> QED
  BY <1>1, <1>2, <1>3, <1>4, <1>5, <1>6, <1>7, <1>8, <1>9, <1>10, <1>11, <1>12 DEF Next

\* No registration appears but of an identity that is drawn.
LEMMA KnownStays ==
    ASSUME NoteInv, Known, drawn' = drawn,
           \A r \in Regs : disk.browsers[r] = NoBrowser => disk'.browsers[r] = NoBrowser
    PROVE  Known'
BY DEF Known

LEMMA KnownAnswer ==
    ASSUME NoteInv, Known, NEW s, Kept(s) \/ Unkept(s), drawn' = drawn,
           \A r \in Regs : store.browsers[r] = NoBrowser => s.browsers[r] = NoBrowser
    PROVE  Known'
<1>1. store = disk /\ disk' \in {disk, s}
  BY DEF Kept, Unkept, NoteInv, Synced
<1> QED
  BY <1>1, KnownStays

LEMMA KnownNext ==
    ASSUME NoteInv, Known, [Next]_vars
    PROVE  Known'
<1>1. store \in Stores /\ store.browsers \in [Regs -> Browser]
  BY StoreParts DEF NoteInv, Types, StoreTypes
<1>2. ASSUME UNCHANGED <<disk, drawn>>
      PROVE  Known'
  BY <1>2, KnownStays
<1>3. CASE Reconcile
  <2>1. drawn' = drawn /\ Reducing
    BY <1>3 DEF Reconcile, Quiet, Reducing
  <2>2. PICK out \in Reduce(store.base, job.seen) : \E s \in Reconciled(store, job.seen, out) :
           Kept(s) \/ Unkept(s)
    BY <1>3 DEF Reconcile
  <2>3. PICK s \in Reconciled(store, job.seen, out) : Kept(s) \/ Unkept(s)
    BY <2>2
  <2>4. Follows(store.base, job.seen, out) /\ job.seen \in Seens
    BY <1>1, <2>1, StoreParts, SeenKnown, ReduceFacts DEF NoteInv
  <2>5. \A r \in Regs : store.browsers[r] = NoBrowser => s.browsers[r] = NoBrowser
    BY <1>1, <2>4, ReconciledFacts
  <2> QED
    BY <2>1, <2>3, <2>5, KnownAnswer
<1>4. CASE Post
  <2>1. drawn' = drawn
    BY <1>4 DEF Post, Quiet
  <2>2. PICK answer \in {"accepted", "gone", "retry", "refused"} :
           LET s == Settled(store, answer)
           IN  \/ Kept(s) \/ Unkept(s)
               \/ failed /\ UNCHANGED <<store, disk, failed, faults>>
    BY <1>4 DEF Post
  <2> DEFINE x == job.slot
             s == Settled(store, answer)
  <2>3. CASE UNCHANGED disk
    BY <1>2, <2>1, <2>3
  <2>4. CASE Kept(s) \/ Unkept(s)
    <3>1. store = disk /\ x \in Slots /\ x[1] \in Regs
      BY <1>4, <2>4 DEF Kept, Unkept, NoteInv, Types, JobTypes, Synced, Post, Slots
    <3>2. CASE Mine(store) /\ answer = "gone"
      <4>1. store.browsers[x[1]] # NoBrowser
        BY <3>1, <3>2, NoBrowserTyped DEF Mine, NoteInv, PushInv, Removed, Registered
      <4> DEFINE t == [store EXCEPT !.outbox[x] = None]
      <4>2. s = [t EXCEPT !.browsers[x[1]].st = "dead"]
        BY <3>2 DEF Settled
      <4>3. t.browsers = store.browsers /\ s.browsers = [t.browsers EXCEPT ![x[1]] = [@ EXCEPT !.st = "dead"]]
        BY <1>1, <4>2 DEF Stores
      <4>4. \A r \in Regs : r # x[1] => s.browsers[r] = store.browsers[r]
        <5> HIDE DEF t, s
        <5> QED
          BY <1>1, <4>3
      <4> QED
        BY <2>1, <2>4, <4>1, <4>4, KnownAnswer
    <3>3. CASE ~ (Mine(store) /\ answer = "gone")
      <4>1. s.browsers = store.browsers
        BY <1>1, <3>3 DEF Settled, Stores
      <4> QED
        BY <2>1, <2>4, <4>1, KnownAnswer
    <3> QED
      BY <3>2, <3>3
  <2> QED
    BY <2>2, <2>3, <2>4
<1>5. ASSUME NEW x \in Slots, PickShown(x)
      PROVE  Known'
  <2> DEFINE s == [store EXCEPT !.outbox[x] = None]
  <2>1. s.browsers = store.browsers /\ (Kept(s) \/ Unkept(s)) /\ drawn' = drawn
    BY <1>1, <1>5 DEF PickShown, Quiet, Stores
  <2> QED
    BY <2>1, KnownAnswer
<1>6. ASSUME NEW x \in Slots, Waited(x) \/ Expires(x)
      PROVE  Known'
  <2>1. disk' = store' /\ store'.browsers = store.browsers /\ store = disk /\ drawn' = drawn
    BY <1>1, <1>6 DEF Waited, Expires, Quiet, Stores, NoteInv, Synced
  <2> QED
    BY <2>1, KnownStays
<1>7. CASE GapPasses
  <2>1. disk' = store' /\ store'.browsers = store.browsers /\ store = disk /\ drawn' = drawn
    BY <1>1, <1>7 DEF GapPasses, Quiet, Stores, NoteInv, Synced
  <2> QED
    BY <2>1, KnownStays
<1>8. ASSUME NEW r \in Regs, Test(r)
      PROVE  Known'
  <2> DEFINE s == [store EXCEPT !.outbox[<<r, "test">>] =
                     [event |-> [inst |-> 0, kind |-> "test", key |-> r, rev |-> acts],
                      tries |-> 0, due |-> FALSE, expired |-> FALSE]]
  <2>1. s.browsers = store.browsers /\ (Kept(s) \/ Unkept(s)) /\ drawn' = drawn
    BY <1>1, <1>8 DEF Test, Answers, Stores
  <2> QED
    BY <2>1, KnownAnswer
<1>9. ASSUME NEW on \in BOOLEAN, Prefer(on)
      PROVE  Known'
  <2> DEFINE s == [store EXCEPT !.pref = [inst |-> world.inst, on |-> on],
                     !.outbox = [x \in Slots |->
                        IF @[x] # None /\ @[x].event.inst = world.inst THEN None ELSE @[x]]]
  <2>1. s.browsers = store.browsers
    BY <1>1 DEF Stores
  <2>2. (Kept(s) \/ Unkept(s)) /\ drawn' = drawn
    BY <1>9 DEF Prefer
  <2> QED
    BY <2>1, <2>2, KnownAnswer
<1>10. CASE Bind
  <2> DEFINE s == IF store.pref.inst = world.inst THEN store
                  ELSE [store EXCEPT !.pref = [inst |-> world.inst, on |-> world.bind = "on"]]
  <2>1. s.browsers = store.browsers
    BY <1>1 DEF Stores
  <2>2. (Kept(s) \/ Unkept(s)) /\ drawn' = drawn
    BY <1>10 DEF Bind
  <2> QED
    BY <2>1, <2>2, KnownAnswer
<1>11. ASSUME NEW r \in Regs, Lapse(r)
       PROVE  Known'
  <2>1. disk' = store' /\ store = disk /\ drawn' = drawn /\ store.browsers[r].st = "on"
    BY <1>11 DEF Lapse, NoteInv, Synced
  <2>2. store'.browsers = [store.browsers EXCEPT ![r] = [store.browsers[r] EXCEPT !.lapsed = TRUE]]
    BY <1>1, <1>11 DEF Lapse, Stores
  <2>3. \A q \in Regs : q # r => store'.browsers[q] = store.browsers[q]
    BY <1>1, <2>2
  <2> QED
    BY <2>1, <2>3, NoBrowserTyped, KnownStays
<1>12. ASSUME NEW r \in Regs, Disable(r)
       PROVE  Known'
  <2> DEFINE s == [store EXCEPT !.browsers[r] = NoBrowser,
                                !.outbox = [x \in Slots |-> IF x[1] = r THEN None ELSE @[x]]]
  <2>1. s.browsers = [store.browsers EXCEPT ![r] = NoBrowser]
    BY <1>1 DEF Stores
  <2>2. (Kept(s) \/ Unkept(s)) /\ drawn' = drawn
    BY <1>12 DEF Disable
  <2> HIDE DEF s
  <2>3. \A q \in Regs : store.browsers[q] = NoBrowser => s.browsers[q] = NoBrowser
    BY <1>1, <2>1
  <2> QED
    BY <2>2, <2>3, KnownAnswer
<1>13. ASSUME NEW e \in Endpoints, Register(e)
       PROVE  Known'
  <2> DEFINE b == [NoBrowser EXCEPT !.st = "on", !.endpoint = e]
             s(r) == [store EXCEPT !.browsers[r] = b]
  <2>1. drawn \in Nat /\ MaxRegs \in Nat
    BY DroppedAreRegs DEF NoteInv
  <2>2. ASSUME NEW r \in Regs, Answers(s(r)), drawn' \in Nat, r <= drawn', drawn <= drawn'
        PROVE  Known'
    <3>1. s(r).browsers = [store.browsers EXCEPT ![r] = b]
      BY <1>1 DEF Stores
    <3>2. store = disk /\ disk' \in {disk, s(r)}
      BY <2>2 DEF Answers, Kept, Unkept, NoteInv, Synced
    <3> HIDE DEF s, b
    <3>3. \A q \in Regs : q # r => disk'.browsers[q] = disk.browsers[q]
      BY <1>1, <3>1, <3>2
    <3>4. \A q \in Regs : q \in Nat
      BY <2>1 DEF Regs
    <3> QED
      BY <2>1, <2>2, <3>3, <3>4 DEF Known
  <2>3. CASE \E r \in Regs : store.browsers[r].endpoint = e /\ Answers(s(r)) /\ UNCHANGED drawn
    <3>1. PICK r \in Regs : store.browsers[r].endpoint = e /\ Answers(s(r)) /\ UNCHANGED drawn
      BY <2>3
    <3>2. store = disk
      BY <3>1 DEF Answers, Kept, Unkept, NoteInv, Synced
    <3>3. disk.browsers[r] # NoBrowser
      BY <3>1, <3>2, NoBrowserTyped, NotificationsAssumption
    <3>4. r <= drawn
      BY <3>3 DEF Known
    <3> HIDE DEF s
    <3> QED
      BY <2>1, <2>2, <3>1, <3>4
  <2>4. CASE drawn < MaxRegs /\ drawn' = drawn + 1 /\ Answers(s(drawn + 1))
    <3> HIDE DEF s
    <3>1. drawn + 1 \in Regs /\ drawn' \in Nat /\ drawn <= drawn' /\ drawn + 1 <= drawn'
      BY <2>1, <2>4 DEF Regs
    <3> QED
      BY <2>2, <2>4, <3>1
  <2> QED
    BY <1>13, <2>3, <2>4 DEF Register
<1>14. CASE \/ Observe \/ ReconcileFenced \/ PickNothing \/ Look \/ Recheck \/ \E x \in Slots : Pick(x)
  BY <1>2, <1>14 DEF Observe, ReconcileFenced, PickNothing, Look, Recheck, Pick, Quiet
<1>15. CASE \/ Cached \/ Disconnected \/ SwitchOff \/ Restart \/ UNCHANGED vars
            \/ \E r \in Regs : Visit(r) \/ Leaves(r)
  BY <1>2, <1>15 DEF Cached, Disconnected, SwitchOff, Restart, vars, Visit, Leaves
<1>16. CASE \/ TurnStarts \/ TurnEnds \/ PeerWorks \/ Hold \/ Delete \/ Recreate
            \/ \E r \in Requests : Ask(r) \/ Reply(r)
  BY <1>2, <1>16 DEF TurnStarts, TurnEnds, PeerWorks, Hold, Delete, Recreate, Ask, Reply, Turning
<1> QED
  BY <1>3, <1>4, <1>5, <1>6, <1>7, <1>8, <1>9, <1>10, <1>11, <1>12, <1>13, <1>14, <1>15, <1>16
  DEF Next, Worker

LEMMA NoteAlways == Spec => [](NoteInv /\ Known)
<1>1. Init => NoteInv /\ Known
  BY NoteInit
<1>2. NoteInv /\ Known /\ [Next]_vars => (NoteInv /\ Known)'
  BY NoteNext, KnownNext
<1> QED
  BY <1>1, <1>2, PTL DEF Spec

\* Only the recheck lets a push go, and only when it still finds it wanted.
LEMMA Leaving ==
    ASSUME NoteInv, Next, job.pc = "recheck", job'.pc = "post"
    PROVE  Recheck /\ StillWanted
<1>1. job' # job /\ job' # NoJob
  BY NoJobTyped
<1>2. ~ (\/ Observe \/ Reconcile \/ ReconcileFenced \/ PickNothing \/ Look \/ Post
         \/ \E x \in Slots : PickShown(x) \/ Pick(x))
  BY <1>1 DEF Observe, Reconcile, ReconcileFenced, PickNothing, Look, Post, PickShown, Pick
<1>3. ~ (\/ \E x \in Slots : Waited(x) \/ Expires(x)
         \/ \E e \in Endpoints : Register(e)
         \/ \E r \in Regs : Disable(r) \/ Lapse(r) \/ Test(r) \/ Visit(r) \/ Leaves(r)
         \/ Prefer(TRUE) \/ Prefer(FALSE) \/ Bind)
  BY <1>1 DEF Waited, Expires, Register, Disable, Lapse, Test, Visit, Leaves, Prefer, Bind, Other
<1>4. ~ (\/ TurnStarts \/ TurnEnds \/ PeerWorks \/ Hold \/ Delete \/ Recreate
         \/ \E r \in Requests : Ask(r) \/ Reply(r))
  BY <1>1 DEF TurnStarts, TurnEnds, PeerWorks, Hold, Delete, Recreate, Ask, Reply, Turning
<1>5. ~ (Cached \/ Disconnected \/ GapPasses \/ SwitchOff \/ Restart)
  BY <1>1 DEF Cached, Disconnected, GapPasses, SwitchOff, Restart
<1>6. Recheck
  BY <1>2, <1>3, <1>4, <1>5 DEF Next, Worker
<1> QED
  BY <1>1, <1>6 DEF Recheck

\* A question or a completed turn is announced once, however many sessions,
\* gaps, restarts, and saves that fail lie in between.
THEOREM AnnouncedOnce == Spec => []EmittedOnce
<1>1. NoteInv => EmittedOnce
  BY DEF NoteInv, OnceInv
<1> QED
  BY <1>1, NoteAlways, PTL

\* No push leaves for a registration whose removal was confirmed, nor for a
\* session whose last confirmed choice is off, whatever happened between
\* picking the delivery and sending it.
THEOREM PushesWanted == Spec => NoUnwantedPush
<1> DEFINE Clean == (job.pc = "recheck" /\ job'.pc = "post") =>
                       /\ job.slot[1] \notin dropped
                       /\ job.event.kind # "test" => wish[job.event.inst] # "off"
<1>1. NoteInv /\ [Next]_vars => [Clean]_vars
  <2> SUFFICES ASSUME NoteInv, Next, job.pc = "recheck", job'.pc = "post"
               PROVE  /\ job.slot[1] \notin dropped
                      /\ job.event.kind # "test" => wish[job.event.inst] # "off"
    OBVIOUS
  <2>1. StillWanted
    BY Leaving
  <2>2. store = disk /\ Mine(disk) /\ disk.browsers[job.slot[1]].st = "on"
    BY <2>1 DEF StillWanted, StillRegistered, NoteInv, Synced
  <2>3. job.slot[1] \notin dropped
    BY <2>2, NoBrowserTyped DEF NoteInv, PushInv, Removed
  <2>4. job.event.kind # "test" => wish[job.event.inst] # "off"
    BY <2>2 DEF NoteInv, PushInv, Looked
  <2> QED
    BY <2>3, <2>4
<1> QED
  BY <1>1, NoteAlways, PTL DEF Spec, NoUnwantedPush

=============================================================================
