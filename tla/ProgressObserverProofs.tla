------------------------ MODULE ProgressObserverProofs ------------------------
(***************************************************************************)
(* No check replaces one that may still reach the observer, and no         *)
(* challenge outlives its concern, proved of ProgressObserver for every    *)
(* number of observers, turns, checks, failures and crashes.               *)
(*                                                                         *)
(* The argument: what a check knows is what it last saved, so the saved    *)
(* record is never behind.  A check that is on its way or in a turn that   *)
(* runs is the one the record names as pending; the record gives it up     *)
(* only when its one turn is over, when its observer is retired and so     *)
(* quiet, or before it was ever sent; and only a record that names none    *)
(* takes a new one.                                                        *)
(***************************************************************************)
EXTENDS ProgressObserver, FiniteSetTheorems, WellFoundedInduction, TLAPS

-----------------------------------------------------------------------------
(* The inductive invariant *)
Pcs == {"idle", "settle", "look", "send", "resend", "tell"}
Locked == pc \in {"settle", "look", "send", "resend"}
Turn == 1..MaxTurns

\* A check's copy of the record is the record.
Same == pc # "idle" => mem = disk

\* While the team's lock is held the observer of the pending check stays; a
\* check that is sent is pending, and on its first attempt nobody has it.
Running ==
    /\ Locked => Ready # {} /\ (disk.pending # None => member[disk.pending.obs] = "ready")
    /\ pc \in {"settle", "send", "resend"} => disk.pending # None
    /\ (pc = "look" /\ ~check.had) => disk.pending = None
    /\ pc = "settle" => check.had
    /\ pc = "send" => \A o \in Observers : /\ <<disk.pending.id, o>> \notin air
                                           /\ \A t \in Turn : <<disk.pending.id, o, t>> \notin landed

\* What an observer may still work on is the pending check.
Held == \A c \in Checks : Outstanding(c) => disk.pending # None /\ disk.pending.id = c

\* Only checks that were drawn are anywhere, and in turns that have begun.
Begun ==
    /\ \A c \in Checks, o \in Observers : <<c, o>> \in air => c <= drawn
    /\ \A c \in Checks, o \in Observers, t \in Turn :
          <<c, o, t>> \in landed => c <= drawn /\ t <= thread[o].turn
    /\ \A o \in Observers : thread[o].active => thread[o].turn # 0

\* The pending check is nowhere but with its observer.
Placed ==
    disk.pending # None =>
       \A o \in Observers :
          (<<disk.pending.id, o>> \in air \/ \E t \in Turn : <<disk.pending.id, o, t>> \in landed)
             => o = disk.pending.obs

\* A check is in one turn at most, and in none while it is on its way.
Once ==
    \A c \in Checks, o, x \in Observers, t \in Turn :
       <<c, o, t>> \in landed =>
          /\ <<c, x>> \notin air
          /\ \A u \in Turn : <<c, x, u>> \in landed => x = o /\ u = t

\* A retired observer is quiet for good.
Gone ==
    \A o \in Observers : member[o] = "retired" =>
       ~thread[o].active /\ ~thread[o].queued /\ \A c \in Checks : <<c, o>> \notin air

\* A challenge that waits is about an open concern.
Open == disk.notice # None => disk.concern # None

CheckInv ==
    TypeOK /\ Same /\ Running /\ Held /\ Begun /\ Placed /\ Once /\ Gone /\ Open

-----------------------------------------------------------------------------
(* Operators *)

\* The first ready observer is one: progressMember finds a member when the
\* team has one.
LEMMA MemberReady ==
    ASSUME Ready # {}
    PROVE  Member \in Ready
<1> DEFINE R == OpToRel(<, Nat)
<1>1. Ready \subseteq Nat
  <2>1. Cardinality(Observers) \in Nat /\ Observers = 1..Cardinality(Observers)
    BY ProgressAssumption, FS_CardinalityType
  <2> QED
    BY <2>1 DEF Ready
<1>2. PICK m \in Ready : \A y \in Ready : <<y, m>> \notin R
  <2> HIDE DEF R
  <2> QED
    BY <1>1, NatLessThanWellFounded, WFMin DEF R
<1>3. \A y \in Ready : m <= y
  <2> TAKE y \in Ready
  <2>1. y \in Nat /\ m \in Nat
    BY <1>1
  <2>2. ~ (y < m)
    BY <1>2, <2>1 DEF OpToRel
  <2> QED
    BY <2>1, <2>2
<1> QED
  BY <1>2, <1>3 DEF Member

\* The parts of TypeOK, by who changes them.
RecordTypes ==
    /\ disk \in Record
    /\ check \in [pc : Pcs, s : Record, req : BOOLEAN, had : BOOLEAN, active : BOOLEAN]
    /\ faults \in 0..cast.faults
PendingDrawn ==
    disk.pending # None =>
          /\ disk.pending.id <= drawn
          /\ disk.pending.turn # 0 => <<disk.pending.id, disk.pending.obs, disk.pending.turn>> \in landed
Threads == [turn : 0..MaxTurns, active : BOOLEAN, queued : BOOLEAN,
            by : {"none", "manual", "check"}, stopping : BOOLEAN, result : Results]
WorldTypes ==
    /\ member \in [Observers -> {"absent", "ready", "leaving", "retired"}]
    /\ model \in [Observers -> 0..1]
    /\ thread \in [Observers -> Threads]
    /\ air \subseteq Checks \X Observers
    /\ landed \subseteq Checks \X Observers \X (1..MaxTurns)
    /\ drawn \in 0..MaxChecks
    /\ working \in BOOLEAN /\ refused \in BOOLEAN /\ cast \in Casts

LEMMA TypeParts == TypeOK <=> RecordTypes /\ PendingDrawn /\ WorldTypes
BY DEF TypeOK, RecordTypes, PendingDrawn, WorldTypes, Threads, Pcs

LEMMA NoRecordTyped == NoRecord \in Record /\ NoRecord.pending = None /\ NoRecord.notice = None
BY DEF NoRecord, Record

LEMMA NoCheckTyped ==
    /\ NoCheck \in [pc : Pcs, s : Record, req : BOOLEAN, had : BOOLEAN, active : BOOLEAN]
    /\ NoCheck.pc = "idle"
BY NoRecordTyped DEF NoCheck, Pcs

-----------------------------------------------------------------------------
(* What a step of a check does to the record: it is saved and the check    *)
(* goes on, or the check ends with the old record or the new one.          *)
Steps(s, n) ==
    /\ faults' \in 0..cast.faults
    /\ \/ disk' = s /\ n # "idle" /\ check' = [check EXCEPT !.pc = n, !.s = s, !.active = Active]
       \/ disk' \in {disk, s} /\ check' = NoCheck

LEMMA FaultCounted ==
    ASSUME TypeOK, Fault \/ UNCHANGED faults
    PROVE  faults' \in 0..cast.faults
<1>1. cast.faults \in Nat
  BY ProgressAssumption DEF TypeOK
<1> QED
  BY <1>1 DEF TypeOK, Fault

LEMMA SaveSteps ==
    ASSUME TypeOK, NEW s, NEW n, Save(s, n)
    PROVE  Steps(s, n)
<1>1. faults' \in 0..cast.faults
  BY FaultCounted DEF Save
<1> QED
  BY <1>1 DEF Save, Goes, Steps

LEMMA FailsSteps ==
    ASSUME TypeOK, NEW s, Fails(s)
    PROVE  Steps(s, "idle")
<1>1. faults' \in 0..cast.faults
  BY FaultCounted DEF Fails
<1> QED
  BY <1>1 DEF Fails, Goes, Steps

LEMMA GoesSteps ==
    ASSUME TypeOK, NEW s, NEW n, Goes(s, n), disk' = s \/ (n = "idle" /\ disk' = disk),
           Fault \/ UNCHANGED faults
    PROVE  Steps(s, n)
<1>1. faults' \in 0..cast.faults
  BY FaultCounted
<1> QED
  BY <1>1 DEF Goes, Steps

\* How the pending check of a new record may follow the old one's: the same,
\* with its turn perhaps found; none, when nobody works on it any more; or a
\* new one where there was none.
KeepsPending(s) ==
    /\ s.pending # None /\ disk.pending # None
    /\ s.pending.id = disk.pending.id /\ s.pending.obs = disk.pending.obs
    /\ s.pending.turn # 0 => <<s.pending.id, s.pending.obs, s.pending.turn>> \in landed
    /\ drawn' = drawn
DropsPending(s) ==
    /\ s.pending = None /\ drawn' = drawn
    /\ disk.pending # None => ~Outstanding(disk.pending.id)
DrawsPending(s) ==
    /\ s.pending # None /\ disk.pending = None
    /\ s.pending.id = drawn + 1 /\ drawn' = drawn + 1 /\ s.pending.turn = 0
Follows(s) == KeepsPending(s) \/ DropsPending(s) \/ DrawsPending(s)

\* What the next step of the check relies on.
Prepares(s, n) ==
    /\ n \in {"look", "send", "resend"} =>
          Ready # {} /\ (s.pending # None => member[s.pending.obs] = "ready")
    /\ n = "look" => check.had \/ s.pending = None
    /\ n = "send" => DrawsPending(s)
    /\ n = "resend" => s.pending # None

\* The threads differ in nothing the invariant is about.
ThreadsAlike ==
    /\ thread' \in [Observers -> Threads]
    /\ \A o \in Observers :
          /\ thread'[o].turn = thread[o].turn /\ thread'[o].active = thread[o].active
          /\ thread'[o].queued = thread[o].queued

LEMMA RecordMoved ==
    ASSUME CheckInv, NEW s \in Record, NEW n \in Pcs \ {"settle"}, Steps(s, n), Follows(s), Prepares(s, n),
           s.notice # None => s.concern # None, drawn' \in 0..MaxChecks,
           ThreadsAlike, UNCHANGED <<member, model, air, landed, cast, working, refused>>
    PROVE  CheckInv'
<1>t. RecordTypes /\ PendingDrawn /\ WorldTypes
  BY TypeParts DEF CheckInv
<1>d. drawn \in Nat /\ drawn' \in Nat /\ drawn <= drawn'
  BY <1>t DEF Follows, KeepsPending, DropsPending, DrawsPending, WorldTypes
<1>s. disk' \in {disk, s}
  BY DEF Steps
<1>1. RecordTypes'
  <2>1. Active \in BOOLEAN
    BY <1>t DEF Active, RecordTypes, WorldTypes
  <2>2. check' \in [pc : Pcs, s : Record, req : BOOLEAN, had : BOOLEAN, active : BOOLEAN]
    <3>1. CASE check' = NoCheck
      BY <3>1, NoCheckTyped
    <3>2. CASE check' = [check EXCEPT !.pc = n, !.s = s, !.active = Active]
      BY <3>2, <2>1, <1>t DEF RecordTypes
    <3> QED
      BY <3>1, <3>2 DEF Steps
  <2> QED
    BY <2>2, <1>t DEF RecordTypes, Steps
<1>2. WorldTypes'
  BY <1>t DEF WorldTypes, ThreadsAlike
<1>3. PendingDrawn'
  <2>1. CASE disk' = disk
    BY <2>1, <1>t, <1>d DEF PendingDrawn, RecordTypes, Record, Pendings, Checks
  <2>2. CASE disk' = s
    BY <2>2, <1>t, <1>d DEF PendingDrawn, Follows, KeepsPending, DropsPending, DrawsPending
  <2> QED
    BY <2>1, <2>2, <1>s
<1>4. Same'
  BY NoCheckTyped, <1>t DEF Steps, Same, pc, mem, RecordTypes
<1>5. \A c \in Checks : Outstanding(c)' = Outstanding(c)
  BY DEF Outstanding, ThreadsAlike
<1>6. Held'
  <2> SUFFICES ASSUME NEW c \in Checks, Outstanding(c)
               PROVE  disk'.pending # None /\ disk'.pending.id = c
    BY <1>5 DEF Held
  <2>1. disk.pending # None /\ disk.pending.id = c
    BY DEF CheckInv, Held
  <2> QED
    BY <2>1, <1>s DEF Follows, KeepsPending, DropsPending, DrawsPending
<1>7. Begun'
  BY <1>d, <1>t DEF Begun, CheckInv, Checks, ThreadsAlike
<1>8. Placed'
  <2>1. CASE disk' = disk
    BY <2>1 DEF Placed, CheckInv
  <2>2. CASE disk' = s /\ KeepsPending(s)
    BY <2>2 DEF Placed, CheckInv, KeepsPending
  <2>3. CASE disk' = s /\ DropsPending(s)
    BY <2>3 DEF Placed, DropsPending
  <2>4. CASE disk' = s /\ DrawsPending(s)
    <3>1. s.pending.id \in Checks /\ ~ (s.pending.id <= drawn)
      BY <2>4, <1>d DEF DrawsPending, Record, Pendings, Checks
    <3> QED
      BY <2>4, <3>1 DEF Placed, CheckInv, Begun, Turn
  <2> QED
    BY <2>1, <2>2, <2>3, <2>4, <1>s DEF Follows
<1>9. Once' /\ Gone'
  BY DEF Once, Gone, CheckInv, ThreadsAlike
<1>10. Open'
  BY <1>s DEF Open, CheckInv
<1>11. TypeOK'
  BY <1>1, <1>2, <1>3 DEF TypeOK, RecordTypes, PendingDrawn, WorldTypes, Threads, Pcs
<1>12. Running'
  <2>1. CASE check' = NoCheck
    BY <2>1, NoCheckTyped DEF Running, Locked, pc
  <2>2. CASE disk' = s /\ n # "idle" /\ check' = [check EXCEPT !.pc = n, !.s = s, !.active = Active]
    <3>1. pc' = n /\ check'.had = check.had
      BY <2>2, <1>t DEF pc, RecordTypes
    <3>2. (Locked => Ready # {} /\ (disk.pending # None => member[disk.pending.obs] = "ready"))'
      BY <2>2, <3>1 DEF Prepares, Locked, Ready, Pcs
    <3>3. (pc \in {"settle", "send", "resend"} => disk.pending # None)'
      BY <2>2, <3>1 DEF Prepares, DrawsPending
    <3>4. ((pc = "look" /\ ~check.had) => disk.pending = None)'
      BY <2>2, <3>1 DEF Prepares
    <3>5. ASSUME n = "send"
          PROVE  \A o \in Observers :
                    /\ <<s.pending.id, o>> \notin air
                    /\ \A t \in Turn : <<s.pending.id, o, t>> \notin landed
      <4>1. s.pending.id \in Checks /\ ~ (s.pending.id <= drawn)
        BY <3>5, <1>d DEF Prepares, DrawsPending, Record, Pendings, Checks
      <4> QED
        BY <4>1 DEF CheckInv, Begun, Turn
    <3> QED
      BY <2>2, <3>1, <3>2, <3>3, <3>4, <3>5 DEF Running, Turn, Pcs
  <2> QED
    BY <2>1, <2>2 DEF Steps
<1> QED
  BY <1>4, <1>6, <1>7, <1>8, <1>9, <1>10, <1>11, <1>12 DEF CheckInv

LEMMA RecordKept ==
    ASSUME CheckInv, NEW s \in Record, NEW n \in Pcs \ {"settle"}, Steps(s, n), Follows(s), Prepares(s, n),
           s.notice # None => s.concern # None, drawn' \in 0..MaxChecks,
           UNCHANGED <<member, model, thread, air, landed, cast, working, refused>>
    PROVE  CheckInv'
<1>1. ThreadsAlike
  BY TypeParts DEF CheckInv, WorldTypes, ThreadsAlike
<1> HIDE DEF Steps, Follows, Prepares
<1> QED
  BY <1>1, RecordMoved

\* The check is at rest, and the record changes in nothing the invariant is about.
LEMMA RestKept ==
    ASSUME CheckInv, pc = "idle", check' = check, disk' \in Record,
           disk'.notice = disk.notice, disk'.concern = disk.concern,
           disk'.pending = None <=> disk.pending = None,
           disk.pending # None =>
              /\ disk'.pending.id = disk.pending.id /\ disk'.pending.obs = disk.pending.obs
              /\ disk'.pending.turn = disk.pending.turn,
           faults' \in 0..cast.faults, refused' \in BOOLEAN,
           UNCHANGED <<world, cast, working>>
    PROVE  CheckInv'
<1>1. TypeOK'
  BY DEF CheckInv, TypeOK, world
<1>2. pc' = "idle"
  BY DEF pc
<1>3. Same' /\ Running'
  BY <1>2 DEF Same, Running, Locked
<1>4. Held'
  BY DEF CheckInv, Held, Outstanding, world
<1>5. Begun' /\ Once' /\ Gone'
  BY DEF CheckInv, Begun, Once, Gone, world
<1>6. Placed' /\ Open'
  BY DEF CheckInv, Placed, Open, world
<1> QED
  BY <1>1, <1>3, <1>4, <1>5, <1>6 DEF CheckInv

-----------------------------------------------------------------------------
(* What settling finds *)

LEMMA PendingTyped ==
    ASSUME CheckInv, pc \in {"settle", "send", "resend"}
    PROVE  /\ mem = disk /\ disk \in Record /\ disk.pending # None
           /\ disk.pending.id \in Checks /\ disk.pending.obs \in Observers
           /\ disk.pending.model \in 0..1 /\ disk.pending.turn \in 0..MaxTurns
           /\ disk.pending.late \in BOOLEAN
           /\ disk.pending \in Pendings
<1>1. mem = disk /\ disk.pending # None
  BY DEF CheckInv, Same, Running
<1>2. disk \in Record
  BY DEF CheckInv, TypeOK
<1>3. disk.pending \in Pendings
  BY <1>1, <1>2 DEF Record
<1> QED
  BY <1>1, <1>2, <1>3 DEF Pendings

\* The turn the transcript shows is one the check's message is in, and when it
\* shows none there is none.
LEMMA FoundTurn ==
    ASSUME CheckInv, pc \in {"settle", "send", "resend"}
    PROVE  /\ Found \in 0..MaxTurns
           /\ Found # 0 => <<disk.pending.id, disk.pending.obs, Found>> \in landed
           /\ Found = 0 => \A t \in Turn : <<disk.pending.id, disk.pending.obs, t>> \notin landed
<1>1. mem = disk /\ disk.pending.turn \in 0..MaxTurns /\ disk.pending # None
  BY PendingTyped
<1>2. CASE disk.pending.turn = 0 /\ Turns(disk.pending) # {}
  <2>1. Found \in Turns(disk.pending)
    BY <1>1, <1>2 DEF Found
  <2>2. MaxTurns \in Nat
    BY ProgressAssumption
  <2> QED
    BY <2>1, <2>2 DEF Turns
<1>3. CASE ~ (disk.pending.turn = 0 /\ Turns(disk.pending) # {})
  <2>1. Found = disk.pending.turn
    BY <1>1, <1>3 DEF Found
  <2>2. disk.pending.turn # 0 => <<disk.pending.id, disk.pending.obs, disk.pending.turn>> \in landed
    BY <1>1 DEF CheckInv, TypeOK
  <2> QED
    BY <1>1, <1>3, <2>1, <2>2 DEF Turns, Turn
<1> QED
  BY <1>2, <1>3

\* A check whose one turn is over, or is no longer the latest, is with nobody.
LEMMA SettledIsGone ==
    ASSUME CheckInv, pc = "settle", Found # 0,
           Found # Watched.turn \/ ~Watched.active
    PROVE  ~Outstanding(disk.pending.id)
<1> DEFINE c == disk.pending.id
           b == disk.pending.obs
<1>1. c \in Checks /\ b \in Observers /\ mem = disk
  BY PendingTyped
<1>2. <<c, b, Found>> \in landed /\ Found \in Turn
  BY FoundTurn DEF Turn
<1>3. \A o \in Observers : <<c, o>> \notin air
  BY <1>1, <1>2 DEF CheckInv, Once
<1>4. \A o \in Observers, t \in Turn : <<c, o, t>> \in landed => o = b /\ t = Found
  BY <1>1, <1>2 DEF CheckInv, Once
<1>5. Watched = thread[b]
  BY <1>1 DEF Watched
<1>6. landed \subseteq Checks \X Observers \X Turn
  BY DEF CheckInv, TypeOK, Turn
<1> HIDE DEF c, b
<1>7. \A o \in Observers : ~ (thread[o].active /\ <<c, o, thread[o].turn>> \in landed)
  BY <1>4, <1>5, <1>6
<1> QED
  BY <1>3, <1>7 DEF Outstanding, c

\* A retired observer has no check.
LEMMA RetiredIsGone ==
    ASSUME CheckInv, disk.pending # None, member[disk.pending.obs] = "retired"
    PROVE  ~Outstanding(disk.pending.id)
<1>1. disk.pending.id \in Checks /\ disk.pending.obs \in Observers
  BY DEF CheckInv, TypeOK, Record, Pendings
<1>2. landed \subseteq Checks \X Observers \X Turn
  BY DEF CheckInv, TypeOK, Turn
<1>3. ~thread[disk.pending.obs].active /\ <<disk.pending.id, disk.pending.obs>> \notin air
  BY <1>1 DEF CheckInv, Gone
<1>4. \A o \in Observers :
         (<<disk.pending.id, o>> \in air \/ \E t \in Turn : <<disk.pending.id, o, t>> \in landed)
            => o = disk.pending.obs
  BY DEF CheckInv, Placed
<1> QED
  BY <1>1, <1>2, <1>3, <1>4 DEF Outstanding

\* What is learnt of the turn keeps the record one.
LEMMA KnownRecord ==
    ASSUME CheckInv, pc \in {"settle", "send", "resend"}, NEW t \in 0..MaxTurns
    PROVE  LET s == [mem EXCEPT !.pending.turn = t]
           IN  /\ s \in Record /\ s.pending # None
               /\ s.pending.id = disk.pending.id /\ s.pending.obs = disk.pending.obs
               /\ s.pending.turn = t
               /\ s.notice = disk.notice /\ s.concern = disk.concern
<1> DEFINE p == [disk.pending EXCEPT !.turn = t]
           s == [mem EXCEPT !.pending.turn = t]
<1>1. mem = disk /\ disk \in Record /\ disk.pending \in Pendings
  BY PendingTyped
<1>2. p \in Pendings /\ p.id = disk.pending.id /\ p.obs = disk.pending.obs /\ p.turn = t
  BY <1>1 DEF Pendings
<1>3. p # None
  BY <1>2, NoneAssumption
<1>4. s = [disk EXCEPT !.pending = p]
  BY <1>1 DEF Record
<1> HIDE DEF p
<1>5. [disk EXCEPT !.pending = p] \in Record
  BY <1>1, <1>2 DEF Record
<1>6. [disk EXCEPT !.pending = p].pending = p
  BY <1>1 DEF Record
<1>7. [disk EXCEPT !.pending = p].notice = disk.notice /\ [disk EXCEPT !.pending = p].concern = disk.concern
  BY <1>1 DEF Record
<1> QED
  BY <1>2, <1>3, <1>4, <1>5, <1>6, <1>7

LEMMA ExpiredRecord ==
    ASSUME CheckInv, pc \in {"settle", "send", "resend"}
    PROVE  /\ Expired \in Record /\ Expired.pending = None
           /\ Expired.notice = disk.notice /\ Expired.concern = disk.concern
<1>1. mem = disk /\ disk \in Record
  BY PendingTyped
<1> QED
  BY <1>1 DEF Expired, Record

\* State.Apply leaves no pending check, and no notice without a concern.
LEMMA ApplyRecord ==
    ASSUME NEW s \in Record, NEW r \in Results, s.pending \in Pendings
    PROVE  /\ Apply(s, r) \in Record /\ Apply(s, r).pending = None
           /\ Apply(s, r).notice # None => Apply(s, r).concern # None
<1> DEFINE concern == IF Closes(s, r) THEN None
                      ELSE IF r.status = "concern" /\ s.concern = None THEN r.key
                      ELSE s.concern
           notice == IF concern = None THEN None
                     ELSE IF Challenges(s, r) THEN [id |-> s.pending.id, from |-> s.pending.obs]
                     ELSE s.notice
<1>1. r.status = "concern" => r.key \in Keys
  BY DEF Results, Outcome
<1>2. concern \in Keys \cup {None}
  BY <1>1 DEF Record
<1>3. notice \in [id : Checks, from : Observers] \cup {None} /\ (notice # None => concern # None)
  <2>1. [id |-> s.pending.id, from |-> s.pending.obs] \in [id : Checks, from : Observers]
    BY DEF Pendings
  <2> HIDE DEF concern
  <2> QED
    BY <2>1 DEF Record
<1>4. Apply(s, r) = [s EXCEPT !.pending = None, !.concern = concern, !.notice = notice]
  BY DEF Apply
<1> HIDE DEF concern, notice
<1> QED
  BY <1>2, <1>3, <1>4 DEF Record

-----------------------------------------------------------------------------
(* The steps of a check that only settle and record *)

LEMMA RestTyped ==
    ASSUME CheckInv
    PROVE  /\ disk \in Record /\ drawn \in 0..MaxChecks
           /\ disk.notice # None => disk.concern # None
           /\ disk.pending # None => disk.pending \in Pendings /\ disk.pending.obs \in Observers
BY DEF CheckInv, TypeOK, Open, Record, Pendings

\* A step that saves nothing new, and ends the check.
LEMMA NothingNew ==
    ASSUME CheckInv, NEW n \in {"idle", "tell"}, Steps(disk, n), UNCHANGED <<world, sky>>
    PROVE  CheckInv'
<1>1. Follows(disk)
  BY DEF Follows, KeepsPending, DropsPending, CheckInv, TypeOK, world
<1>2. Prepares(disk, n)
  BY DEF Prepares
<1>3. n \in Pcs \ {"settle"}
  BY DEF Pcs
<1> HIDE DEF Steps
<1> QED
  BY <1>1, <1>2, <1>3, RestTyped, RecordKept DEF world, sky

LEMMA BeginKeeps ==
    ASSUME CheckInv, NEW r \in BOOLEAN, Begin(r)
    PROVE  CheckInv'
<1>1. /\ pc = "idle" /\ Ready # {} /\ (disk.pending # None => disk.pending.obs = Member)
      /\ check' = [pc |-> IF disk.pending = None THEN "look" ELSE "settle", s |-> disk,
                   req |-> r, had |-> disk.pending # None, active |-> FALSE]
      /\ UNCHANGED <<disk, faults, world, sky>>
  BY DEF Begin
<1>2. TypeOK'
  <2>1. check' \in [pc : {"idle", "settle", "look", "send", "resend", "tell"}, s : Record,
                   req : BOOLEAN, had : BOOLEAN, active : BOOLEAN]
    BY <1>1, RestTyped
  <2> QED
    BY <2>1, <1>1 DEF CheckInv, TypeOK, world, sky
<1>3. /\ pc' = IF disk.pending = None THEN "look" ELSE "settle"
      /\ mem' = disk /\ check'.had = (disk.pending # None)
  BY <1>1 DEF pc, mem
<1>4. Same'
  BY <1>1, <1>3 DEF Same
<1>5. Running'
  <2>1. disk.pending # None => member[disk.pending.obs] = "ready"
    BY <1>1, MemberReady DEF Ready
  <2>2. Ready' = Ready
    BY <1>1 DEF Ready, world
  <2> QED
    BY <1>1, <1>3, <2>1, <2>2 DEF Running, Locked, world
<1>6. Held'
  BY <1>1 DEF CheckInv, Held, Outstanding, world
<1>7. Begun' /\ Once'
  BY <1>1 DEF CheckInv, Begun, Once, world
<1>8. Gone' /\ Placed' /\ Open'
  BY <1>1 DEF CheckInv, Gone, Placed, Open, world
<1> QED
  BY <1>2, <1>4, <1>5, <1>6, <1>7, <1>8 DEF CheckInv

LEMMA DropRetiredKeeps ==
    ASSUME CheckInv, DropRetired
    PROVE  CheckInv'
<1> DEFINE s == [disk EXCEPT !.pending = None, !.notice = None, !.last = "fresh"]
<1>1. /\ disk.pending # None /\ member[disk.pending.obs] = "retired"
      /\ Save(s, "idle") /\ UNCHANGED <<world, sky>>
  BY DEF DropRetired
<1>2. s \in Record /\ s.pending = None /\ s.notice = None
  BY RestTyped DEF Record
<1> HIDE DEF s
<1>3. Steps(s, "idle")
  BY <1>1, SaveSteps DEF CheckInv
<1>4. Follows(s)
  BY <1>1, <1>2, RetiredIsGone DEF Follows, DropsPending, world
<1>5. Prepares(s, "idle")
  BY DEF Prepares
<1> QED
  BY <1>1, <1>2, <1>3, <1>4, <1>5, RestTyped, RecordKept DEF Pcs, world, sky

LEMMA ReadFailsKeeps ==
    ASSUME CheckInv, ReadFails
    PROVE  CheckInv'
<1>1. Steps(disk, "idle")
  BY GoesSteps DEF ReadFails, CheckInv, Goes
<1> QED
  BY <1>1, NothingNew DEF ReadFails

LEMMA CrashKeeps ==
    ASSUME CheckInv, Crash
    PROVE  CheckInv'
<1>1. Steps(disk, "idle")
  BY GoesSteps DEF Crash, CheckInv, Goes
<1> QED
  BY <1>1, NothingNew DEF Crash

LEMMA SettleKeeps ==
    ASSUME CheckInv, SettleHeld \/ SettleResult \/ SettleLate \/ SettleWait
    PROVE  CheckInv'
<1>1. pc = "settle" /\ UNCHANGED <<world, sky>>
  BY DEF SettleHeld, SettleResult, SettleLate, SettleWait
<1>2. /\ mem = disk /\ disk \in Record /\ disk.pending \in Pendings /\ disk.pending # None
      /\ disk.pending.obs \in Observers
  BY <1>1, PendingTyped
<1>3. /\ Expired \in Record /\ Expired.pending = None
      /\ Expired.notice = disk.notice /\ Expired.concern = disk.concern
  BY <1>1, ExpiredRecord
<1>4. /\ Known \in Record /\ Known.pending # None
      /\ Known.pending.id = disk.pending.id /\ Known.pending.obs = disk.pending.obs
      /\ Known.pending.turn = Found
      /\ Known.notice = disk.notice /\ Known.concern = disk.concern
  BY <1>1, FoundTurn, KnownRecord DEF Known
<1>5. ASSUME NEW s \in Record, s.pending = None, s.notice # None => s.concern # None,
             NEW n \in {"idle", "look"}, Steps(s, n), ~Outstanding(disk.pending.id)
      PROVE  CheckInv'
  <2>1. Follows(s)
    BY <1>1, <1>5 DEF Follows, DropsPending, world
  <2>2. Prepares(s, n)
    BY <1>1, <1>5 DEF Prepares, CheckInv, Running, Locked
  <2>3. n \in Pcs \ {"settle"}
    BY DEF Pcs
  <2> HIDE DEF Steps
  <2> QED
    BY <1>1, <1>5, <2>1, <2>2, <2>3, RestTyped, RecordKept DEF world, sky
<1>6. CASE SettleHeld
  <2>1. Steps(disk, "idle")
    BY <1>2, <1>6, FailsSteps DEF SettleHeld, CheckInv
  <2> QED
    BY <1>1, <2>1, NothingNew
<1>7. CASE SettleResult
  <2>1. Found # 0 /\ ~Watched.active
    BY <1>7 DEF SettleResult, Over
  <2>2. ~Outstanding(disk.pending.id)
    BY <1>1, <2>1, SettledIsGone
  <2>3. CASE Watched.result.status = "invalid"
    <3>1. Steps(Expired, "idle")
      BY <1>7, <2>3, FailsSteps DEF SettleResult, CheckInv
    <3> QED
      BY <1>3, <1>5, <2>2, <3>1, RestTyped
  <2>4. CASE Watched.result.status # "invalid"
    <3>1. Steps(Apply(Known, Watched.result), "look")
      BY <1>7, <2>4, SaveSteps DEF SettleResult, CheckInv
    <3>2. Watched.result \in Results
      BY <1>2 DEF Watched, CheckInv, TypeOK
    <3>3. Known.pending \in Pendings
      BY <1>4 DEF Record
    <3> QED
      BY <1>4, <1>5, <2>2, <3>1, <3>2, <3>3, ApplyRecord
  <2> QED
    BY <2>3, <2>4
<1>8. CASE SettleLate
  <2>1. CASE Found = 0
    <3>1. Steps(disk, "idle")
      BY <1>2, <1>8, <2>1, FailsSteps DEF SettleLate, Unknown, CheckInv
    <3> QED
      BY <1>1, <3>1, NothingNew
  <2>2. CASE Found # 0
    <3>1. Steps(Expired, "idle")
      BY <1>8, <2>2, FailsSteps DEF SettleLate, Unknown, CheckInv
    <3>2. ~Outstanding(disk.pending.id)
      BY <1>1, <1>8, <2>2, SettledIsGone DEF SettleLate
    <3> QED
      BY <1>3, <1>5, <3>1, <3>2, RestTyped
  <2> QED
    BY <2>1, <2>2
<1>9. CASE SettleWait
  <2> DEFINE n == IF Found # 0 THEN "idle" ELSE "look"
  <2>1. Steps(Known, n)
    BY <1>9, SaveSteps DEF SettleWait, CheckInv
  <2>2. Follows(Known)
    BY <1>1, <1>2, <1>4, FoundTurn DEF Follows, KeepsPending, world
  <2>3. Prepares(Known, n)
    BY <1>1, <1>4 DEF Prepares, CheckInv, Running, Locked
  <2>4. n \in Pcs \ {"settle"}
    BY DEF Pcs
  <2> HIDE DEF n, Steps
  <2> QED
    BY <1>1, <1>4, <2>1, <2>2, <2>3, <2>4, RestTyped, RecordKept DEF world, sky
<1> QED
  BY <1>6, <1>7, <1>8, <1>9

-----------------------------------------------------------------------------
(* Looking at the work *)

LEMMA LookedRecord ==
    ASSUME CheckInv, pc = "look"
    PROVE  /\ mem = disk /\ Ready # {} /\ Member \in Observers /\ member[Member] = "ready"
           /\ Looked \in Record /\ Looked.pending = disk.pending
           /\ Looked.concern = disk.concern
           /\ Looked.notice # None => Looked.concern # None
<1>1. mem = disk /\ Ready # {}
  BY DEF CheckInv, Same, Running, Locked
<1>2. Member \in Observers /\ member[Member] = "ready"
  BY <1>1, MemberReady DEF Ready
<1> QED
  BY <1>1, <1>2, RestTyped DEF Looked, Record

\* What it saved is what it looked at, and perhaps the time.
LEMMA LookedKept ==
    ASSUME CheckInv, pc = "look", NEW s \in Record, s.pending = disk.pending,
           s.notice # None => s.concern # None,
           NEW n \in {"idle", "resend", "tell"}, n = "resend" => s.pending # None,
           Steps(s, n), UNCHANGED <<world, sky>>
    PROVE  CheckInv'
<1>1. Follows(s)
  BY DEF Follows, KeepsPending, DropsPending, CheckInv, TypeOK, world
<1>2. Prepares(s, n)
  BY DEF Prepares, CheckInv, Running, Locked
<1>3. n \in Pcs \ {"settle"}
  BY DEF Pcs
<1> HIDE DEF Steps
<1> QED
  BY <1>1, <1>2, <1>3, RestTyped, RecordKept DEF world, sky

LEMMA NewCheckRecord ==
    ASSUME CheckInv, pc = "look", drawn + 1 \in Checks
    PROVE  /\ NewCheck \in Record /\ NewCheck.pending # None
           /\ NewCheck.pending.id = drawn + 1 /\ NewCheck.pending.obs = Member
           /\ NewCheck.pending.turn = 0
           /\ NewCheck.notice = Looked.notice /\ NewCheck.concern = Looked.concern
<1> DEFINE p == [id |-> drawn + 1, obs |-> Member, model |-> model[Member],
                 turn |-> 0, late |-> FALSE]
<1>1. model[Member] \in 0..1 /\ Member \in Observers
  BY LookedRecord DEF CheckInv, TypeOK
<1>2. p \in Pendings /\ p.id = drawn + 1 /\ p.obs = Member /\ p.turn = 0
  BY <1>1, ProgressAssumption DEF Pendings
<1>3. p # None
  BY <1>2, NoneAssumption
<1>4. NewCheck = [Looked EXCEPT !.last = "fresh", !.pending = p]
  BY DEF NewCheck
<1> HIDE DEF p
<1> QED
  BY <1>2, <1>3, <1>4, LookedRecord DEF Record

LEMMA LookKeeps ==
    ASSUME CheckInv, Look
    PROVE  CheckInv'
<1>1. pc = "look"
  BY DEF Look
<1>2. /\ mem = disk /\ Member \in Observers /\ member[Member] = "ready" /\ Ready # {}
      /\ Looked \in Record /\ Looked.pending = disk.pending /\ Looked.concern = disk.concern
      /\ Looked.notice # None => Looked.concern # None
  BY <1>1, LookedRecord
<1>3. ASSUME NEW n \in {"idle", "resend", "tell"}, n = "resend" => Looked.pending # None,
             Looks(n) \/ Saves(Looked, n), Fault \/ UNCHANGED faults \/ Saves(Looked, n),
             UNCHANGED world
      PROVE  CheckInv'
  <2>1. CASE Looks(n) /\ (Fault \/ UNCHANGED faults)
    <3>1. Steps(Looked, n)
      BY <2>1, GoesSteps DEF Looks, CheckInv
    <3> QED
      BY <1>1, <1>2, <1>3, <2>1, <3>1, LookedKept DEF Looks
  <2>2. CASE Saves(Looked, n)
    <3>1. Steps(Looked, n)
      BY <2>2, SaveSteps DEF Saves, CheckInv
    <3> QED
      BY <1>1, <1>2, <1>3, <2>2, <3>1, LookedKept DEF Saves
  <2> QED
    BY <1>3, <2>1, <2>2
<1>4. CASE LookSkipped
  <2>1. Steps(Looked, "idle")
    BY <1>4, GoesSteps DEF LookSkipped, CheckInv
  <2> QED
    BY <1>1, <1>2, <1>4, <2>1, LookedKept DEF LookSkipped
<1>5. CASE LookAgain
  <2>1. UNCHANGED world
    BY <1>5 DEF LookAgain
  <2>2. CASE Resends /\ Looks("resend") /\ UNCHANGED faults
    BY <1>3, <2>1, <2>2 DEF Resends
  <2>3. CASE Looks("idle") /\ UNCHANGED faults
    BY <1>3, <2>1, <2>3
  <2>4. CASE Saves(Looked, "tell")
    BY <1>3, <2>1, <2>4
  <2> QED
    BY <1>5, <2>2, <2>3, <2>4 DEF LookAgain
<1>6. CASE LookFirst
  <2>1. UNCHANGED world
    BY <1>6 DEF LookFirst
  <2>2. CASE Looks("idle") /\ UNCHANGED faults
    BY <1>3, <2>1, <2>2
  <2>3. CASE Saves([Looked EXCEPT !.last = "fresh"], "tell")
    <3> DEFINE s == [Looked EXCEPT !.last = "fresh"]
    <3>1. s \in Record /\ s.pending = disk.pending /\ s.notice = Looked.notice /\ s.concern = Looked.concern
      BY <1>2 DEF Record
    <3> HIDE DEF s
    <3>2. Steps(s, "tell")
      BY <2>3, SaveSteps DEF Saves, CheckInv, s
    <3> QED
      BY <1>1, <1>2, <2>1, <2>3, <3>1, <3>2, LookedKept DEF Saves
  <2> QED
    BY <1>6, <2>2, <2>3 DEF LookFirst
<1>7. CASE LookEarly
  BY <1>3, <1>7 DEF LookEarly, AfterLook
<1>8. CASE LookBusy
  <2>1. CASE check.req
    BY <1>3, <1>8, <2>1 DEF LookBusy
  <2>2. CASE ~check.req
    BY <1>3, <1>8, <2>2 DEF LookBusy
  <2> QED
    BY <2>1, <2>2
<1>9. CASE LookUnrefreshed
  BY <1>3, <1>9 DEF LookUnrefreshed
<1>10. CASE LookSend
  <2>1. /\ ~check.had /\ drawn < cast.checks /\ drawn' = drawn + 1 /\ Saves(NewCheck, "send")
        /\ UNCHANGED <<member, model, thread, air, landed, sky>>
    BY <1>10 DEF LookSend, Wanted, Saves
  <2>2. cast.checks \in 0..MaxChecks /\ MaxChecks \in Nat
    BY ProgressAssumption DEF CheckInv, TypeOK
  <2>3. drawn + 1 \in Checks /\ drawn' \in 0..MaxChecks
    BY <2>1, <2>2, RestTyped DEF Checks
  <2>4. Steps(NewCheck, "send")
    BY <2>1, SaveSteps DEF Saves, CheckInv
  <2>5. disk.pending = None
    BY <1>1, <2>1 DEF CheckInv, Running
  <2>6. /\ NewCheck \in Record /\ NewCheck.pending # None
        /\ NewCheck.pending.id = drawn + 1 /\ NewCheck.pending.obs = Member
        /\ NewCheck.pending.turn = 0
        /\ NewCheck.notice = Looked.notice /\ NewCheck.concern = Looked.concern
    BY <1>1, <2>3, NewCheckRecord
  <2>7. DrawsPending(NewCheck)
    BY <2>1, <2>5, <2>6 DEF DrawsPending
  <2>8. Prepares(NewCheck, "send")
    BY <1>2, <2>6, <2>7 DEF Prepares
  <2> QED
    BY <1>2, <2>1, <2>3, <2>4, <2>6, <2>7, <2>8, RecordKept DEF Follows, Pcs, sky
<1> QED
  BY <1>4, <1>5, <1>6, <1>7, <1>8, <1>9, <1>10 DEF Look

-----------------------------------------------------------------------------
(* The notice, and the record between checks *)

LEMMA TellingKeeps ==
    ASSUME CheckInv, Telling
    PROVE  CheckInv'
<1>1. pc = "tell" /\ mem = disk /\ UNCHANGED <<world, sky>>
  BY DEF Telling, TellNothing, Tell, TellFails, CheckInv, Same
<1>2. CASE Goes(mem, "idle") /\ disk' = disk /\ (Fault \/ UNCHANGED faults)
  <2>1. Steps(disk, "idle")
    BY <1>1, <1>2, GoesSteps DEF CheckInv
  <2> QED
    BY <1>1, <2>1, NothingNew
<1>3. CASE Save([mem EXCEPT !.notice = None], "idle")
  <2> DEFINE s == [mem EXCEPT !.notice = None]
  <2>1. s \in Record /\ s.pending = disk.pending /\ s.notice = None
    BY <1>1, RestTyped DEF Record
  <2> HIDE DEF s
  <2>2. Steps(s, "idle")
    BY <1>3, SaveSteps DEF CheckInv, s
  <2>3. Follows(s)
    BY <1>1, <2>1 DEF Follows, KeepsPending, DropsPending, CheckInv, TypeOK, world
  <2>4. Prepares(s, "idle")
    BY DEF Prepares
  <2> QED
    BY <1>1, <2>1, <2>2, <2>3, <2>4, RestTyped, RecordKept DEF Pcs, world, sky
<1> QED
  BY <1>2, <1>3 DEF Telling, TellNothing, Tell, TellFails

LEMMA BetweenKeeps ==
    ASSUME CheckInv, Settings \/ IntervalPasses \/ DeadlinePasses \/ Refuse
    PROVE  CheckInv'
<1>1. pc = "idle" /\ check' = check /\ UNCHANGED <<world, cast, working>>
  BY DEF Settings, IntervalPasses, DeadlinePasses, Refuse, sky
<1>2. faults' \in 0..cast.faults
  BY FaultCounted DEF CheckInv, Settings, IntervalPasses, DeadlinePasses, Refuse
<1>3. refused' \in BOOLEAN
  BY DEF CheckInv, TypeOK, Settings, IntervalPasses, DeadlinePasses, Refuse, sky
<1>4. CASE Settings \/ IntervalPasses \/ Refuse
  <2>1. \/ disk' = disk
        \/ \E p \in BOOLEAN, l \in {"never", "fresh", "old"} : disk' = [disk EXCEPT !.paused = p, !.last = l]
    <3>1. disk \in Record
      BY RestTyped
    <3>2. CASE Settings
      <4>1. PICK p \in BOOLEAN, l \in {"fresh", "old"} :
               disk' = [disk EXCEPT !.paused = p, !.last = IF @ = "never" THEN @ ELSE l]
        BY <3>2 DEF Settings
      <4>2. CASE disk.last = "never"
        BY <4>1, <4>2, <3>1 DEF Record
      <4>3. CASE disk.last # "never"
        BY <4>1, <4>3, <3>1 DEF Record
      <4> QED
        BY <4>2, <4>3
    <3>3. CASE IntervalPasses
      <4>1. disk.paused \in BOOLEAN /\ disk' = [disk EXCEPT !.paused = disk.paused, !.last = "old"]
        BY <3>1, <3>3 DEF Record, IntervalPasses
      <4> QED
        BY <4>1
    <3> QED
      BY <1>4, <3>2, <3>3 DEF Refuse
  <2>2. disk' \in Record /\ disk'.pending = disk.pending /\ disk'.notice = disk.notice
        /\ disk'.concern = disk.concern
    BY <2>1, RestTyped DEF Record
  <2> QED
    BY <1>1, <1>2, <1>3, <2>2, RestKept
<1>5. CASE DeadlinePasses
  <2> DEFINE p == [disk.pending EXCEPT !.late = TRUE]
  <2>1. disk.pending # None /\ disk' = [disk EXCEPT !.pending.late = TRUE]
    BY <1>5 DEF DeadlinePasses
  <2>2. disk.pending \in Pendings /\ disk \in Record
    BY <2>1, RestTyped
  <2>3. p \in Pendings /\ p.id = disk.pending.id /\ p.obs = disk.pending.obs /\ p.turn = disk.pending.turn
    BY <2>2 DEF Pendings
  <2>4. p # None
    BY <2>3, NoneAssumption
  <2>5. disk' = [disk EXCEPT !.pending = p]
    BY <2>1, <2>2 DEF Record
  <2> HIDE DEF p
  <2>6. disk' \in Record /\ disk'.pending = p /\ disk'.notice = disk.notice /\ disk'.concern = disk.concern
    BY <2>2, <2>3, <2>5 DEF Record
  <2> QED
    BY <1>1, <1>2, <1>3, <2>1, <2>3, <2>4, <2>6, RestKept
<1> QED
  BY <1>4, <1>5

LEMMA AroundKeeps ==
    ASSUME CheckInv, Work \/ Allow \/ UNCHANGED vars
    PROVE  CheckInv'
<1>1. /\ working' \in BOOLEAN /\ refused' \in BOOLEAN
      /\ UNCHANGED <<disk, check, world, cast, faults>>
  BY DEF Work, Allow, vars, world, CheckInv, TypeOK
<1>2. TypeOK'
  BY <1>1 DEF CheckInv, TypeOK, world
<1>3. Same' /\ Running'
  BY <1>1 DEF CheckInv, Same, Running, Locked, Ready, pc, mem, world
<1>4. Held'
  BY <1>1 DEF CheckInv, Held, Outstanding, world
<1>5. Begun' /\ Once'
  BY <1>1 DEF CheckInv, Begun, Once, world
<1>6. Gone' /\ Placed' /\ Open'
  BY <1>1 DEF CheckInv, Gone, Placed, Open, world
<1> QED
  BY <1>2, <1>3, <1>4, <1>5, <1>6 DEF CheckInv

-----------------------------------------------------------------------------
(* The team and the threads *)

\* Threads go on, members come and go, checks get lost: nothing reaches an
\* observer that was not with it before.
ThreadsGoOn ==
    /\ thread' \in [Observers -> Threads]
    /\ \A o \in Observers :
          /\ thread'[o].turn >= thread[o].turn
          /\ (thread'[o].active /\ thread'[o].turn = thread[o].turn) => thread[o].active

LEMMA WorldKept ==
    ASSUME CheckInv, Elsewhere, landed' = landed, air' \subseteq air, ThreadsGoOn,
           member' \in [Observers -> {"absent", "ready", "leaving", "retired"}],
           model' \in [Observers -> 0..1], Locked => member' = member, Gone'
    PROVE  CheckInv'
<1>1. UNCHANGED <<disk, check, drawn, cast, working, refused, faults>>
  BY DEF Elsewhere, sky
<1>2. TypeOK'
  <2>1. WorldTypes /\ RecordTypes /\ PendingDrawn
    BY TypeParts DEF CheckInv
  <2>2. WorldTypes'
    BY <1>1, <2>1 DEF WorldTypes, ThreadsGoOn
  <2>3. RecordTypes' /\ PendingDrawn'
    BY <1>1, <2>1 DEF RecordTypes, PendingDrawn
  <2> QED
    BY <2>2, <2>3 DEF TypeOK, RecordTypes, PendingDrawn, WorldTypes, Threads, Pcs
<1>3. Same' /\ Open' /\ Placed'
  BY <1>1 DEF CheckInv, Same, Open, Placed, pc, mem
<1>4. Running'
  <2>1. pc' = pc /\ Locked' = Locked
    BY <1>1 DEF pc, Locked
  <2>2. Locked => Ready' = Ready
    BY DEF Ready
  <2> QED
    BY <1>1, <2>1, <2>2 DEF CheckInv, Running
<1>5. Begun'
  <2>1. \A o \in Observers : thread[o].turn \in Nat /\ thread'[o].turn \in Nat
    BY TypeParts DEF CheckInv, WorldTypes, ThreadsGoOn, Threads
  <2> QED
    BY <1>1, <2>1 DEF CheckInv, Begun, Turn, ThreadsGoOn
<1>6. Once'
  BY DEF CheckInv, Once
<1>7. Held'
  <2> SUFFICES ASSUME NEW c \in Checks, Outstanding(c)'
               PROVE  Outstanding(c)
    BY <1>1 DEF CheckInv, Held
  <2>1. PICK o \in Observers :
           <<c, o>> \in air' \/ (thread'[o].active /\ <<c, o, thread'[o].turn>> \in landed)
    BY DEF Outstanding
  <2>2. CASE <<c, o>> \in air'
    BY <2>2 DEF Outstanding
  <2>3. CASE thread'[o].active /\ <<c, o, thread'[o].turn>> \in landed
    <3>1. thread'[o].turn \in Turn
      BY <2>3 DEF CheckInv, TypeOK, Turn
    <3>2. thread'[o].turn <= thread[o].turn
      BY <2>3, <3>1 DEF CheckInv, Begun
    <3>3. thread[o].turn \in Nat /\ thread'[o].turn \in Nat
      BY TypeParts DEF CheckInv, WorldTypes, ThreadsGoOn, Threads
    <3>4. thread'[o].turn >= thread[o].turn
      BY DEF ThreadsGoOn
    <3>5. thread'[o].turn = thread[o].turn
      BY <3>2, <3>3, <3>4
    <3> QED
      BY <2>3, <3>5 DEF Outstanding, ThreadsGoOn
  <2> QED
    BY <2>1, <2>2, <2>3
<1> QED
  BY <1>2, <1>3, <1>4, <1>5, <1>6, <1>7 DEF CheckInv

LEMMA SameThreads ==
    ASSUME CheckInv, thread' = thread
    PROVE  ThreadsGoOn
BY TypeParts DEF CheckInv, WorldTypes, Threads, ThreadsGoOn

\* The thread of one observer becomes t.
LEMMA OneThread ==
    ASSUME CheckInv, NEW o \in Observers, NEW t \in Threads, thread' = [thread EXCEPT ![o] = t],
           t.turn >= thread[o].turn, (t.active /\ t.turn = thread[o].turn) => thread[o].active
    PROVE  ThreadsGoOn
<1>1. thread \in [Observers -> Threads]
  BY TypeParts DEF CheckInv, WorldTypes
<1>2. \A x \in Observers : thread[x].turn \in Nat
  BY <1>1 DEF Threads
<1> QED
  BY <1>1, <1>2 DEF ThreadsGoOn

LEMMA TeamKeeps ==
    ASSUME CheckInv, NEW o \in Observers, Add(o) \/ Leave(o) \/ Retire(o) \/ Configure(o)
    PROVE  CheckInv'
<1>1. ~Locked /\ Elsewhere /\ UNCHANGED <<thread, air, landed>>
  BY DEF Add, Leave, Retire, Configure, Unlocked, Locked
<1>2. /\ member' \in [Observers -> {"absent", "ready", "leaving", "retired"}]
      /\ model' \in [Observers -> 0..1]
  BY DEF Add, Leave, Retire, Configure, CheckInv, TypeOK
<1>3. Gone'
  <2>1. CASE Retire(o)
    BY <1>1, <2>1 DEF Retire, CheckInv, Gone, TypeOK
  <2>2. CASE Add(o)
    BY <1>1, <2>2 DEF Add, CheckInv, Gone, TypeOK
  <2>3. CASE Leave(o)
    BY <1>1, <2>3 DEF Leave, CheckInv, Gone, TypeOK
  <2>4. CASE Configure(o)
    BY <1>1, <2>4 DEF Configure, CheckInv, Gone
  <2> QED
    BY <2>1, <2>2, <2>3, <2>4
<1> QED
  BY <1>1, <1>2, <1>3, SameThreads, WorldKept

LEMMA LostKeeps ==
    ASSUME CheckInv, NEW c \in Checks, NEW o \in Observers, Lost(c, o)
    PROVE  CheckInv'
<1>1. Elsewhere /\ UNCHANGED <<member, model, thread, landed>> /\ air' \subseteq air
  BY DEF Lost
<1>2. member \in [Observers -> {"absent", "ready", "leaving", "retired"}] /\ model \in [Observers -> 0..1]
  BY DEF CheckInv, TypeOK
<1>3. Gone'
  BY <1>1 DEF CheckInv, Gone
<1> QED
  BY <1>1, <1>2, <1>3, SameThreads, WorldKept

LEMMA BeganThread ==
    ASSUME NEW t \in Threads, t.turn < MaxTurns
    PROVE  Began(t) \in Threads /\ Began(t).turn = t.turn + 1 /\ Began(t).queued = t.queued
<1>1. t.turn \in 0..MaxTurns /\ MaxTurns \in Nat
  BY ProgressAssumption DEF Threads
<1>2. t.turn + 1 \in 0..MaxTurns
  BY <1>1
<1> DEFINE n == t.turn + 1
<1>3. Began(t) = [t EXCEPT !.turn = n, !.active = TRUE, !.by = "manual", !.stopping = FALSE]
  BY DEF Began
<1> HIDE DEF n
<1>4. [t EXCEPT !.turn = n, !.active = TRUE, !.by = "manual", !.stopping = FALSE] \in Threads
  BY <1>2 DEF Threads, n
<1>5. Began(t).turn = n /\ Began(t).queued = t.queued
  BY <1>3 DEF Threads
<1> QED
  BY <1>3, <1>4, <1>5 DEF n

LEMMA ThreadKeeps ==
    ASSUME CheckInv, NEW o \in Observers, Assign(o) \/ Queue(o) \/ QueueStarts(o) \/ TurnEnds(o)
    PROVE  CheckInv'
<1>1. Elsewhere /\ UNCHANGED <<member, model, air, landed>>
  BY DEF Assign, Queue, QueueStarts, TurnEnds
<1>2. member \in [Observers -> {"absent", "ready", "leaving", "retired"}] /\ model \in [Observers -> 0..1]
  BY DEF CheckInv, TypeOK
<1>3. thread \in [Observers -> Threads] /\ thread[o] \in Threads
  BY TypeParts DEF CheckInv, WorldTypes
<1>4. thread[o].turn \in Nat /\ MaxTurns \in Nat
  BY <1>3, ProgressAssumption DEF Threads
<1>5. ASSUME NEW t \in Threads, thread' = [thread EXCEPT ![o] = t], t.turn >= thread[o].turn,
             (t.active /\ t.turn = thread[o].turn) => thread[o].active,
             (t.active \/ t.queued) => (thread[o].active \/ thread[o].queued \/ member[o] = "ready")
      PROVE  CheckInv'
  <2>1. ThreadsGoOn
    BY <1>5, OneThread
  <2>2. Gone'
    BY <1>1, <1>3, <1>5 DEF CheckInv, Gone
  <2> QED
    BY <1>1, <1>2, <2>1, <2>2, WorldKept
<1>6. CASE Assign(o)
  <2> DEFINE t == Began(thread[o])
  <2>1. /\ thread' = [thread EXCEPT ![o] = t]
        /\ member[o] = "ready" /\ thread[o].turn < MaxTurns
    BY <1>6 DEF Assign
  <2>2. t \in Threads /\ t.turn = thread[o].turn + 1
    BY <1>3, <1>4, <2>1, BeganThread
  <2>3. t.turn >= thread[o].turn /\ (t.turn = thread[o].turn => thread[o].active)
    BY <1>4, <2>1, <2>2
  <2> HIDE DEF t
  <2> QED
    BY <1>5, <2>1, <2>2, <2>3
<1>7. CASE Queue(o)
  <2> DEFINE t == [thread[o] EXCEPT !.queued = TRUE]
  <2>1. thread' = [thread EXCEPT ![o] = t] /\ member[o] = "ready" /\ thread[o].active
    BY <1>7, <1>3 DEF Queue
  <2>2. t \in Threads /\ t.turn = thread[o].turn
    BY <1>3 DEF Threads
  <2>3. t.turn >= thread[o].turn /\ (t.turn = thread[o].turn => thread[o].active)
    BY <1>4, <2>1, <2>2
  <2> HIDE DEF t
  <2> QED
    BY <1>5, <2>1, <2>2, <2>3
<1>8. CASE QueueStarts(o)
  <2> DEFINE n == Began(thread[o])
             t == [n EXCEPT !.queued = FALSE]
  <2>1. thread' = [thread EXCEPT ![o] = t] /\ thread[o].queued /\ thread[o].turn < MaxTurns
    BY <1>8 DEF QueueStarts
  <2>2. n \in Threads /\ n.turn = thread[o].turn + 1
    BY <1>3, <1>4, <2>1, BeganThread
  <2> HIDE DEF n
  <2>3. t \in Threads /\ t.turn = thread[o].turn + 1
    BY <2>2 DEF Threads
  <2>4. t.turn >= thread[o].turn /\ (t.turn = thread[o].turn => thread[o].active)
    BY <1>4, <2>3
  <2> HIDE DEF t
  <2> QED
    BY <1>5, <2>1, <2>3, <2>4
<1>9. CASE TurnEnds(o)
  <2>1. PICK r \in IF Checked(o) THEN Results ELSE {Quiet.result} :
           thread' = [thread EXCEPT ![o].active = FALSE, ![o].stopping = FALSE,
                         ![o].result = IF thread[o].stopping THEN Quiet.result ELSE r]
    BY <1>9 DEF TurnEnds
  <2>2. Quiet.result \in Results
    BY DEF Quiet, Results, Outcome
  <2> DEFINE q == IF thread[o].stopping THEN Quiet.result ELSE r
             t == [thread[o] EXCEPT !.active = FALSE, !.stopping = FALSE, !.result = q]
  <2>3. q \in Results
    BY <2>1, <2>2
  <2>4. thread' = [thread EXCEPT ![o] = t]
    BY <1>3, <2>1
  <2> HIDE DEF q
  <2>5. t \in Threads /\ t.turn = thread[o].turn /\ ~t.active /\ t.queued = thread[o].queued
    BY <1>3, <2>3 DEF Threads
  <2>6. thread[o].active
    BY <1>9 DEF TurnEnds
  <2>7. t.turn >= thread[o].turn
    BY <1>4, <2>5
  <2> HIDE DEF t
  <2> QED
    BY <1>5, <2>4, <2>5, <2>6, <2>7
<1> QED
  BY <1>6, <1>7, <1>8, <1>9

-----------------------------------------------------------------------------
(* Sending *)

\* The message of the pending check, in no turn so far, is put in one.
LEMMA LandsKeeps ==
    ASSUME CheckInv, disk.pending # None,
           NEW c \in Checks, c = disk.pending.id, NEW b \in Observers, b = disk.pending.obs,
           Lands(c, b), \A t \in Turn : <<c, b, t>> \notin landed, air' = air \ {<<c, b>>},
           member[b] # "retired", UNCHANGED <<member, drawn>>,
           disk'.pending # None, disk'.pending.id = c, disk'.pending.obs = b
    PROVE  /\ thread' \in [Observers -> Threads] /\ thread'[b].turn \in Turn
           /\ landed' = landed \cup {<<c, b, thread'[b].turn>>}
           /\ landed' \subseteq Checks \X Observers \X Turn
           /\ Held' /\ Begun' /\ Placed' /\ Once' /\ Gone'
<1> DEFINE u == thread[b]
           n == [u EXCEPT !.turn = @ + 1, !.active = TRUE, !.by = "check", !.stopping = FALSE]
           v == IF u.active THEN u ELSE n
<1>t. /\ thread \in [Observers -> Threads] /\ air \subseteq Checks \X Observers
      /\ landed \subseteq Checks \X Observers \X Turn /\ drawn \in 0..MaxChecks
  BY TypeParts DEF CheckInv, WorldTypes, Turn
<1>1. /\ u.active \/ u.turn < MaxTurns
      /\ thread' = [thread EXCEPT ![b] = v]
      /\ landed' = landed \cup {<<c, b, thread'[b].turn>>}
  BY DEF Lands
<1>2. u \in Threads /\ u.turn \in 0..MaxTurns /\ MaxTurns \in Nat
  BY <1>t, ProgressAssumption DEF Threads
<1>3. v \in Threads /\ v.active /\ v.turn \in Turn /\ v.turn >= u.turn
      /\ v.turn \in {u.turn, u.turn + 1} /\ (v.turn = u.turn => u.active) /\ v.queued = u.queued
  <2>1. CASE u.active
    <3>1. u.turn # 0
      BY <2>1 DEF CheckInv, Begun
    <3>2. v = u
      BY <2>1
    <3> QED
      BY <2>1, <3>1, <3>2, <1>2 DEF Turn
  <2>2. CASE ~u.active
    <3> DEFINE m == u.turn + 1
    <3>1. m \in Turn /\ m \in 0..MaxTurns /\ m > u.turn
      BY <1>1, <1>2, <2>2 DEF Turn
    <3>2. v = [u EXCEPT !.turn = m, !.active = TRUE, !.by = "check", !.stopping = FALSE]
      BY <2>2
    <3>3. m = u.turn + 1 /\ m # u.turn
      BY <1>2
    <3> HIDE DEF m
    <3>4. [u EXCEPT !.turn = m, !.active = TRUE, !.by = "check", !.stopping = FALSE] \in Threads
      BY <1>2, <3>1 DEF Threads
    <3>5. v.turn = m /\ v.active /\ v.queued = u.queued
      BY <1>2, <3>2 DEF Threads
    <3>6. m >= u.turn
      BY <1>2, <3>3
    <3> HIDE DEF v
    <3> QED
      BY <3>1, <3>2, <3>3, <3>4, <3>5, <3>6
  <2> QED
    BY <2>1, <2>2
<1> HIDE DEF v
<1>4. thread' \in [Observers -> Threads] /\ thread'[b] = v
  BY <1>t, <1>1, <1>3
<1>5. \A o \in Observers : o # b => thread'[o] = thread[o]
  BY <1>t, <1>1
<1>6. landed' = landed \cup {<<c, b, v.turn>>}
  BY <1>1, <1>4
<1>7. landed' \subseteq Checks \X Observers \X Turn
  BY <1>t, <1>3, <1>6
<1>8. \A o \in Observers : (<<c, o>> \in air \/ \E t \in Turn : <<c, o, t>> \in landed) => o = b
  BY DEF CheckInv, Placed
<1>9. \A o \in Observers : <<c, o>> \notin air'
  BY <1>8
<1>10. \A o \in Observers, t \in Turn : <<c, o, t>> \notin landed
  BY <1>8
<1>11. Held'
  <2> SUFFICES ASSUME NEW k \in Checks, Outstanding(k)', k # c
               PROVE  FALSE
    BY DEF Held
  <2>1. ~Outstanding(k)
    BY DEF CheckInv, Held
  <2>2. PICK o \in Observers :
           <<k, o>> \in air' \/ (thread'[o].active /\ <<k, o, thread'[o].turn>> \in landed')
    BY DEF Outstanding
  <2>3. <<k, o>> \notin air'
    BY <2>1 DEF Outstanding
  <2>4. thread'[o].active /\ <<k, o, thread'[o].turn>> \in landed
    BY <1>6, <2>2, <2>3
  <2>5. CASE o # b
    BY <1>5, <2>1, <2>4, <2>5 DEF Outstanding
  <2>6. CASE o = b
    <3>1. <<k, b, v.turn>> \in landed
      BY <1>4, <2>4, <2>6
    <3>2. v.turn <= u.turn
      BY <1>3, <3>1 DEF CheckInv, Begun
    <3>3. v.turn = u.turn
      BY <1>2, <1>3, <3>2 DEF Turn
    <3> QED
      BY <1>3, <2>1, <3>1, <3>3 DEF Outstanding
  <2> QED
    BY <2>5, <2>6
<1>12. Begun'
  <2>1. c <= drawn
    BY DEF CheckInv, TypeOK
  <2>2. \A k \in Checks, o \in Observers, t \in Turn :
           <<k, o, t>> \in landed' => k <= drawn /\ t <= thread'[o].turn
    <3> SUFFICES ASSUME NEW k \in Checks, NEW o \in Observers, NEW t \in Turn, <<k, o, t>> \in landed'
                 PROVE  k <= drawn /\ t <= thread'[o].turn
      OBVIOUS
    <3>1. CASE <<k, o, t>> \in landed
      <4>1. k <= drawn /\ t <= thread[o].turn
        BY <3>1 DEF CheckInv, Begun
      <4>2. CASE o = b
        BY <1>2, <1>3, <1>4, <4>1, <4>2 DEF Turn
      <4>3. CASE o # b
        BY <1>5, <4>1, <4>3
      <4> QED
        BY <4>2, <4>3
    <3>2. CASE <<k, o, t>> = <<c, b, v.turn>>
      BY <1>2, <1>3, <1>4, <2>1, <3>2 DEF Turn
    <3> QED
      BY <1>6, <3>1, <3>2
  <2>3. \A o \in Observers : thread'[o].active => thread'[o].turn # 0
    BY <1>3, <1>4, <1>5 DEF CheckInv, Begun, Turn
  <2> QED
    BY <2>2, <2>3 DEF CheckInv, Begun
<1>13. Placed'
  BY <1>6, <1>8, <1>9 DEF Placed
<1>14. Once'
  <2> SUFFICES ASSUME NEW k \in Checks, NEW o \in Observers, NEW x \in Observers, NEW t \in Turn,
                      <<k, o, t>> \in landed'
               PROVE  /\ <<k, x>> \notin air'
                      /\ \A w \in Turn : <<k, x, w>> \in landed' => x = o /\ w = t
    BY DEF Once
  <2>1. CASE k = c
    BY <1>6, <1>9, <1>10, <2>1
  <2>2. CASE k # c
    BY <1>6, <2>2 DEF CheckInv, Once
  <2> QED
    BY <2>1, <2>2
<1>15. Gone'
  BY <1>5 DEF CheckInv, Gone
<1> QED
  BY <1>3, <1>4, <1>6, <1>7, <1>11, <1>12, <1>13, <1>14, <1>15

LEMMA ArrivesKeeps ==
    ASSUME CheckInv, NEW c \in Checks, NEW o \in Observers, Arrives(c, o)
    PROVE  CheckInv'
<1>1. /\ <<c, o>> \in air /\ air' = air \ {<<c, o>>} /\ Lands(c, o)
      /\ UNCHANGED <<member, model, disk, check, drawn, cast, working, refused, faults>>
  BY DEF Arrives, Elsewhere, sky
<1>2. disk.pending # None /\ disk.pending.id = c
  BY <1>1 DEF CheckInv, Held, Outstanding
<1>3. disk.pending.obs = o
  BY <1>1, <1>2 DEF CheckInv, Placed
<1>4. \A t \in Turn : <<c, o, t>> \notin landed
  BY <1>1 DEF CheckInv, Once
<1>5. member[o] # "retired"
  BY <1>1 DEF CheckInv, Gone
<1>6. /\ thread' \in [Observers -> Threads]
      /\ landed' = landed \cup {<<c, o, thread'[o].turn>>}
      /\ landed' \subseteq Checks \X Observers \X Turn
      /\ Held' /\ Begun' /\ Placed' /\ Once' /\ Gone'
  BY <1>1, <1>2, <1>3, <1>4, <1>5, LandsKeeps
<1>7. TypeOK'
  <2>1. WorldTypes /\ RecordTypes /\ PendingDrawn
    BY TypeParts DEF CheckInv
  <2>2. WorldTypes'
    BY <1>1, <1>6, <2>1 DEF WorldTypes, Turn
  <2>3. RecordTypes' /\ PendingDrawn'
    BY <1>1, <1>6, <2>1 DEF RecordTypes, PendingDrawn
  <2> QED
    BY <2>2, <2>3 DEF TypeOK, RecordTypes, PendingDrawn, WorldTypes, Threads, Pcs
<1>8. Same' /\ Open'
  BY <1>1 DEF CheckInv, Same, Open, pc, mem
<1>9. pc # "send"
  BY <1>1, <1>2 DEF CheckInv, Running
<1>10. Running'
  BY <1>1, <1>9 DEF CheckInv, Running, Locked, Ready, pc
<1> QED
  BY <1>6, <1>7, <1>8, <1>10 DEF CheckInv

\* A step of sending that puts the message in no turn: it may be on its way
\* now, if it was in no turn before.
LEMMA SentKept ==
    ASSUME CheckInv, pc \in {"send", "resend"}, NEW s \in Record, NEW n \in {"idle", "tell"}, Steps(s, n),
           KeepsPending(s), s.notice = disk.notice, s.concern = disk.concern,
           air' \subseteq air \cup {This}, Found # 0 => air' \subseteq air,
           UNCHANGED <<member, model, thread, landed, sky>>
    PROVE  CheckInv'
<1> DEFINE c == disk.pending.id
           b == disk.pending.obs
<1>1. /\ mem = disk /\ disk.pending # None /\ c \in Checks /\ b \in Observers
  BY PendingTyped
<1>2. This = <<c, b>>
  BY <1>1 DEF This, Here
<1>3. disk' \in {disk, s} /\ drawn' = drawn
  BY DEF Steps, KeepsPending
<1>4. /\ disk' \in Record /\ disk'.pending # None
      /\ disk'.pending.id = c /\ disk'.pending.obs = b
      /\ disk'.notice = disk.notice /\ disk'.concern = disk.concern
      /\ disk'.pending.turn # 0 => <<c, b, disk'.pending.turn>> \in landed
  <2>1. disk.pending.turn # 0 => <<c, b, disk.pending.turn>> \in landed
    BY <1>1 DEF CheckInv, TypeOK
  <2> QED
    BY <1>1, <1>3, <2>1, RestTyped DEF KeepsPending
<1>5. check' \in [pc : Pcs, s : Record, req : BOOLEAN, had : BOOLEAN, active : BOOLEAN]
      /\ pc' \in {"idle", "tell"} /\ (pc' # "idle" => mem' = disk')
  <2>1. /\ check \in [pc : Pcs, s : Record, req : BOOLEAN, had : BOOLEAN, active : BOOLEAN]
        /\ Active \in BOOLEAN
    BY TypeParts DEF CheckInv, RecordTypes, WorldTypes, Active
  <2>2. CASE check' = NoCheck
    BY <2>2, NoCheckTyped DEF pc
  <2>3. CASE disk' = s /\ check' = [check EXCEPT !.pc = n, !.s = s, !.active = Active]
    BY <2>1, <2>3 DEF pc, mem, Pcs
  <2> QED
    BY <2>2, <2>3 DEF Steps
<1> HIDE DEF c, b
<1>6. TypeOK'
  <2>1. WorldTypes /\ RecordTypes /\ PendingDrawn
    BY TypeParts DEF CheckInv
  <2>2. air' \subseteq Checks \X Observers
    BY <1>1, <1>2, <2>1 DEF WorldTypes
  <2>3. WorldTypes'
    BY <1>3, <2>1, <2>2 DEF WorldTypes, sky
  <2>4. RecordTypes'
    BY <1>4, <1>5, <2>1 DEF RecordTypes, Steps, sky
  <2>5. PendingDrawn'
    <3>1. c <= drawn
      BY <1>1, <2>1 DEF PendingDrawn, c
    <3> QED
      BY <1>3, <1>4, <3>1 DEF PendingDrawn
  <2> QED
    BY <2>3, <2>4, <2>5 DEF TypeOK, RecordTypes, PendingDrawn, WorldTypes, Threads, Pcs
<1>7. Same' /\ Running'
  BY <1>5 DEF Same, Running, Locked
<1>8. Held'
  <2> SUFFICES ASSUME NEW k \in Checks, Outstanding(k)', k # c
               PROVE  FALSE
    BY <1>4 DEF Held
  <2>1. Outstanding(k)
    BY <1>2 DEF Outstanding
  <2> QED
    BY <2>1 DEF CheckInv, Held, c
<1>9. Begun'
  <2>1. c <= drawn
    BY <1>1 DEF CheckInv, TypeOK, c
  <2> QED
    BY <1>2, <1>3, <2>1 DEF CheckInv, Begun
<1>10. \A o \in Observers : (<<c, o>> \in air \/ \E t \in Turn : <<c, o, t>> \in landed) => o = b
  BY <1>1 DEF CheckInv, Placed, c, b
<1>11. Placed'
  BY <1>2, <1>4, <1>10 DEF Placed
<1>12. Once'
  <2>1. Found = 0 => \A t \in Turn : <<c, b, t>> \notin landed
    BY FoundTurn DEF c, b
  <2>2. CASE Found # 0
    BY <2>2 DEF CheckInv, Once
  <2>3. CASE Found = 0
    <3> SUFFICES ASSUME NEW k \in Checks, NEW o \in Observers, NEW x \in Observers, NEW t \in Turn,
                        <<k, o, t>> \in landed
                 PROVE  /\ <<k, x>> \notin air'
                        /\ \A w \in Turn : <<k, x, w>> \in landed => x = o /\ w = t
      BY DEF Once
    <3>1. /\ <<k, x>> \notin air
          /\ \A w \in Turn : <<k, x, w>> \in landed => x = o /\ w = t
      BY DEF CheckInv, Once
    <3>2. k # c
      BY <1>10, <2>1, <2>3
    <3> QED
      BY <1>2, <3>1, <3>2
  <2> QED
    BY <2>2, <2>3
<1>13. Gone'
  <2>1. member[b] = "ready"
    BY <1>1 DEF CheckInv, Running, Locked, b
  <2> QED
    BY <1>2, <2>1 DEF CheckInv, Gone
<1>14. Open'
  BY <1>4 DEF CheckInv, Open
<1> QED
  BY <1>6, <1>7, <1>8, <1>9, <1>11, <1>12, <1>13, <1>14 DEF CheckInv

\* The message is put in a turn, and the answer names it.
LEMMA AnsweredKeeps ==
    ASSUME CheckInv, pc \in {"send", "resend"}, Found = 0, Lands(mem.pending.id, Here),
           air' = air \ {This}, Save([mem EXCEPT !.pending.turn = thread'[Here].turn], "tell"),
           UNCHANGED <<member, model, drawn, sky>>
    PROVE  CheckInv'
<1> DEFINE c == disk.pending.id
           b == disk.pending.obs
           s == [mem EXCEPT !.pending.turn = thread'[Here].turn]
<1>1. /\ mem = disk /\ disk.pending # None /\ c \in Checks /\ b \in Observers
  BY PendingTyped
<1>2. This = <<c, b>> /\ Here = b /\ mem.pending.id = c
  BY <1>1 DEF This, Here
<1>3. Steps(s, "tell")
  BY SaveSteps DEF CheckInv
<1>4. disk' \in {disk, s}
  BY <1>3 DEF Steps
<1>5. \A t \in Turn : <<c, b, t>> \notin landed
  BY FoundTurn
<1>6. member[b] # "retired"
  BY <1>1 DEF CheckInv, Running, Locked
<1>7. thread'[b].turn \in 0..MaxTurns
  <2>1. thread \in [Observers -> Threads] /\ thread[b].turn \in 0..MaxTurns /\ MaxTurns \in Nat
    BY <1>1, TypeParts, ProgressAssumption DEF CheckInv, WorldTypes, Threads
  <2>2. /\ thread[b].active \/ thread[b].turn < MaxTurns
        /\ thread'[b] = IF thread[b].active THEN thread[b]
                        ELSE [thread[b] EXCEPT !.turn = @ + 1, !.active = TRUE, !.by = "check", !.stopping = FALSE]
    BY <1>1, <1>2, <2>1 DEF Lands
  <2>3. CASE thread[b].active
    BY <2>1, <2>2, <2>3
  <2>4. CASE ~thread[b].active
    <3>1. thread[b] \in Threads
      BY <1>1, <2>1
    <3>2. thread'[b].turn = thread[b].turn + 1
      BY <2>2, <2>4, <3>1 DEF Threads
    <3> QED
      BY <2>1, <2>2, <2>4, <3>2
  <2> QED
    BY <2>3, <2>4
<1>8. /\ s \in Record /\ s.pending # None /\ s.pending.id = c /\ s.pending.obs = b
      /\ s.pending.turn = thread'[b].turn /\ s.notice = disk.notice /\ s.concern = disk.concern
  BY <1>2, <1>7, KnownRecord
<1> HIDE DEF c, b, s
<1>9. /\ disk' \in Record /\ disk'.pending # None /\ disk'.pending.id = c /\ disk'.pending.obs = b
      /\ disk'.notice = disk.notice /\ disk'.concern = disk.concern
  BY <1>1, <1>4, <1>8, RestTyped DEF c, b
<1>10. /\ thread' \in [Observers -> Threads]
       /\ landed' = landed \cup {<<c, b, thread'[b].turn>>}
       /\ landed' \subseteq Checks \X Observers \X Turn
       /\ Held' /\ Begun' /\ Placed' /\ Once' /\ Gone'
  <2>1. c = disk.pending.id /\ b = disk.pending.obs
    BY DEF c, b
  <2> QED
    BY <1>1, <1>2, <1>5, <1>6, <1>9, <2>1, LandsKeeps
<1>11. check' \in [pc : Pcs, s : Record, req : BOOLEAN, had : BOOLEAN, active : BOOLEAN]
      /\ pc' \in {"idle", "tell"} /\ (pc' # "idle" => mem' = disk')
  <2>1. /\ check \in [pc : Pcs, s : Record, req : BOOLEAN, had : BOOLEAN, active : BOOLEAN]
        /\ Active \in BOOLEAN
    BY TypeParts DEF CheckInv, RecordTypes, WorldTypes, Active
  <2>2. CASE check' = NoCheck
    BY <2>2, NoCheckTyped DEF pc
  <2>3. CASE disk' = s /\ check' = [check EXCEPT !.pc = "tell", !.s = s, !.active = Active]
    BY <1>8, <2>1, <2>3 DEF pc, mem, Pcs
  <2> QED
    BY <1>3, <2>2, <2>3 DEF Steps
<1>12. TypeOK'
  <2>1. WorldTypes /\ RecordTypes /\ PendingDrawn
    BY TypeParts DEF CheckInv
  <2>2. WorldTypes'
    BY <1>10, <2>1 DEF WorldTypes, Turn, sky
  <2>3. RecordTypes'
    BY <1>3, <1>9, <1>11, <2>1 DEF RecordTypes, Steps, sky
  <2>4. PendingDrawn'
    <3>1. c <= drawn /\ (disk.pending.turn # 0 => <<c, b, disk.pending.turn>> \in landed)
      BY <1>1, <2>1 DEF PendingDrawn, c, b
    <3>2. disk'.pending.turn # 0 => <<c, b, disk'.pending.turn>> \in landed'
      BY <1>4, <1>8, <1>10, <3>1
    <3> QED
      BY <1>9, <3>1, <3>2 DEF PendingDrawn
  <2> QED
    BY <2>2, <2>3, <2>4 DEF TypeOK, RecordTypes, PendingDrawn, WorldTypes, Threads, Pcs
<1>13. Same' /\ Running'
  BY <1>11 DEF Same, Running, Locked
<1>14. Open'
  BY <1>9 DEF CheckInv, Open
<1> QED
  BY <1>10, <1>12, <1>13, <1>14 DEF CheckInv

LEMMA SendKeeps ==
    ASSUME CheckInv, Send
    PROVE  CheckInv'
<1>1. pc \in {"send", "resend"} /\ UNCHANGED <<member, model, drawn, sky>>
  BY DEF Send, SendAnswered, SendQueued, SendUnknown, SendDeferred, Sends
<1>2. mem = disk /\ disk \in Record /\ disk.pending # None
  BY <1>1, PendingTyped
<1>3. KeepsPending(disk)
  BY <1>1, <1>2 DEF KeepsPending, CheckInv, TypeOK
<1>4. CASE SendAnswered
  <2>1. CASE Found # 0 /\ UNCHANGED <<thread, landed>> /\ Save(Known, "tell") /\ air' = air \ {This}
    <3>1. /\ Known \in Record /\ Known.pending # None
          /\ Known.pending.id = disk.pending.id /\ Known.pending.obs = disk.pending.obs
          /\ Known.pending.turn = Found
          /\ Known.notice = disk.notice /\ Known.concern = disk.concern
      BY <1>1, FoundTurn, KnownRecord DEF Known
    <3>2. KeepsPending(Known)
      BY <1>1, <1>2, <3>1, FoundTurn DEF KeepsPending
    <3>3. Steps(Known, "tell")
      BY <2>1, SaveSteps DEF CheckInv
    <3> QED
      BY <1>1, <2>1, <3>1, <3>2, <3>3, SentKept
  <2>2. CASE /\ Found = 0 /\ Lands(mem.pending.id, Here) /\ air' = air \ {This}
             /\ Save([mem EXCEPT !.pending.turn = thread'[Here].turn], "tell")
    BY <1>1, <2>2, AnsweredKeeps
  <2> QED
    BY <1>4, <2>1, <2>2 DEF SendAnswered
<1>5. CASE SendQueued
  <2>1. Steps(disk, "tell")
    BY <1>2, <1>5, SaveSteps DEF SendQueued, CheckInv
  <2> QED
    BY <1>1, <1>2, <1>3, <1>5, <2>1, SentKept DEF SendQueued
<1>6. CASE SendUnknown
  <2>1. Steps(disk, "idle")
    BY <1>2, <1>6, GoesSteps DEF SendUnknown, CheckInv
  <2> QED
    BY <1>1, <1>2, <1>3, <1>6, <2>1, SentKept DEF SendUnknown
<1>7. CASE SendDeferred
  <2>1. UNCHANGED <<world, sky>>
    BY <1>1, <1>7 DEF SendDeferred, world
  <2>2. CASE pc = "resend"
    <3>1. Steps(disk, "idle")
      BY <1>2, <1>7, <2>2, FailsSteps DEF SendDeferred, Deferred, CheckInv
    <3> QED
      BY <2>1, <3>1, NothingNew
  <2>3. CASE pc = "send"
    <3>1. Steps(Expired, "idle")
      BY <1>7, <2>3, FailsSteps DEF SendDeferred, Deferred, CheckInv
    <3>2. landed \subseteq Checks \X Observers \X Turn
      BY DEF CheckInv, TypeOK, Turn
    <3>3. ~Outstanding(disk.pending.id)
      BY <2>3, <3>2 DEF CheckInv, Running, Outstanding
    <3>4. /\ Expired \in Record /\ Expired.pending = None
          /\ Expired.notice = disk.notice /\ Expired.concern = disk.concern
      BY <1>1, ExpiredRecord
    <3>5. Follows(Expired)
      BY <1>1, <3>3, <3>4 DEF Follows, DropsPending
    <3>6. Prepares(Expired, "idle")
      BY DEF Prepares
    <3> QED
      BY <2>1, <3>1, <3>4, <3>5, <3>6, RestTyped, RecordKept DEF Pcs, world, sky
  <2> QED
    BY <1>1, <2>2, <2>3
<1> QED
  BY <1>4, <1>5, <1>6, <1>7 DEF Send

LEMMA InterruptKeeps ==
    ASSUME CheckInv, SettleInterrupt
    PROVE  CheckInv'
<1>1. pc = "settle" /\ UNCHANGED <<member, model, air, landed, drawn, sky>>
  BY DEF SettleInterrupt
<1>2. mem = disk /\ disk.pending # None /\ disk.pending.obs \in Observers
  BY <1>1, PendingTyped
<1>3. /\ Known \in Record /\ Known.pending # None
      /\ Known.pending.id = disk.pending.id /\ Known.pending.obs = disk.pending.obs
      /\ Known.pending.turn = Found
      /\ Known.notice = disk.notice /\ Known.concern = disk.concern
  BY <1>1, FoundTurn, KnownRecord DEF Known
<1>4. Follows(Known)
  BY <1>1, <1>2, <1>3, FoundTurn DEF Follows, KeepsPending
<1>5. Prepares(Known, "idle")
  BY DEF Prepares
<1>6. Steps(Known, "idle")
  <2>1. CASE Save(Known, "idle")
    BY <2>1, SaveSteps DEF CheckInv
  <2>2. CASE Fault /\ disk' \in {disk, Known} /\ Goes(Known, "idle")
    BY <2>2, FaultCounted DEF Goes, Steps, CheckInv
  <2> QED
    BY <2>1, <2>2 DEF SettleInterrupt
<1>7. ThreadsAlike
  <2>1. thread \in [Observers -> Threads]
    BY TypeParts DEF CheckInv, WorldTypes
  <2>2. CASE thread' = thread
    BY <2>1, <2>2 DEF ThreadsAlike
  <2>3. CASE thread' = [thread EXCEPT ![mem.pending.obs].stopping = TRUE]
    <3> DEFINE b == disk.pending.obs
               t == [thread[b] EXCEPT !.stopping = TRUE]
    <3>1. thread' = [thread EXCEPT ![b] = t]
      BY <1>2, <2>3
    <3>2. thread[b] \in Threads
      BY <1>2, <2>1
    <3>3. t \in Threads
      BY <3>2 DEF Threads
    <3>4. t.turn = thread[b].turn /\ t.active = thread[b].active /\ t.queued = thread[b].queued
      BY <3>2 DEF Threads
    <3> HIDE DEF t
    <3> QED
      BY <1>2, <2>1, <3>1, <3>3, <3>4 DEF ThreadsAlike
  <2> QED
    BY <2>2, <2>3 DEF SettleInterrupt
<1> QED
  BY <1>1, <1>3, <1>4, <1>5, <1>6, <1>7, RestTyped, RecordMoved DEF Pcs, sky

-----------------------------------------------------------------------------
(* The theorems *)

LEMMA CheckInit ==
    ASSUME Init
    PROVE  CheckInv
<1>1. cast.faults \in Nat /\ MaxTurns \in Nat /\ MaxChecks \in Nat
  BY ProgressAssumption DEF Init
<1>2. Quiet \in Threads
  BY <1>1 DEF Quiet, Threads, Results, Outcome
<1>3. RecordTypes
  BY <1>1, NoRecordTyped, NoCheckTyped DEF Init, RecordTypes
<1>4. WorldTypes
  <2>1. thread \in [Observers -> Threads]
    BY <1>2 DEF Init
  <2>2. /\ member \in [Observers -> {"absent", "ready", "leaving", "retired"}]
        /\ model \in [Observers -> 0..1]
    BY DEF Init
  <2>3. /\ air = {} /\ landed = {} /\ drawn = 0 /\ cast \in Casts
        /\ working = TRUE /\ refused = FALSE
    BY DEF Init
  <2>4. working \in BOOLEAN /\ refused \in BOOLEAN
    BY <2>3
  <2>5. drawn \in 0..MaxChecks
    BY <1>1, <2>3
  <2> QED
    BY <2>1, <2>2, <2>3, <2>4, <2>5 DEF WorldTypes
<1>5. PendingDrawn
  BY NoRecordTyped DEF Init, PendingDrawn
<1>6. TypeOK
  BY <1>3, <1>4, <1>5, TypeParts
<1>7. pc = "idle" /\ disk.pending = None /\ disk.notice = None
  BY NoRecordTyped, NoCheckTyped DEF Init, pc
<1>8. Same /\ Running /\ Placed /\ Open
  BY <1>7 DEF Same, Running, Locked, Placed, Open
<1>9. \A o \in Observers : ~thread[o].active /\ ~thread[o].queued
  BY DEF Init, Quiet
<1>10. Held /\ Begun /\ Once /\ Gone
  BY <1>9 DEF Init, Held, Outstanding, Begun, Once, Gone
<1> QED
  BY <1>6, <1>8, <1>10 DEF CheckInv

LEMMA CheckNext ==
    ASSUME CheckInv, [Next]_vars
    PROVE  CheckInv'
<1>1. CASE Begin(TRUE) \/ Begin(FALSE)
  BY <1>1, BeginKeeps
<1>2. CASE DropRetired \/ ReadFails \/ Crash
  BY <1>2, DropRetiredKeeps, ReadFailsKeeps, CrashKeeps
<1>3. CASE Step
  <2>1. CASE Settle
    BY <2>1, SettleKeeps, InterruptKeeps DEF Settle
  <2>2. CASE Look \/ Send \/ Telling
    BY <2>2, LookKeeps, SendKeeps, TellingKeeps
  <2> QED
    BY <1>3, <2>1, <2>2 DEF Step
<1>4. CASE Settings \/ IntervalPasses \/ DeadlinePasses \/ Refuse
  BY <1>4, BetweenKeeps
<1>5. CASE Work \/ Allow \/ UNCHANGED vars
  BY <1>5, AroundKeeps
<1>6. ASSUME NEW o \in Observers, Add(o) \/ Leave(o) \/ Retire(o) \/ Configure(o)
      PROVE  CheckInv'
  BY <1>6, TeamKeeps
<1>7. ASSUME NEW o \in Observers, Assign(o) \/ Queue(o) \/ QueueStarts(o) \/ TurnEnds(o)
      PROVE  CheckInv'
  BY <1>7, ThreadKeeps
<1>8. ASSUME NEW o \in Observers, NEW c \in Checks, Arrives(c, o) \/ Lost(c, o)
      PROVE  CheckInv'
  BY <1>8, ArrivesKeeps, LostKeeps
<1> QED
  BY <1>1, <1>2, <1>3, <1>4, <1>5, <1>6, <1>7, <1>8 DEF Next

LEMMA CheckAlways == Spec => []CheckInv
BY CheckInit, CheckNext, PTL DEF Spec

\* What two observers could be working on would both be the pending check.
LEMMA HeldIsOne ==
    ASSUME CheckInv
    PROVE  OneCheck
<1> DEFINE S == {c \in 1..drawn : Outstanding(c)}
<1>1. \A c \in 1..drawn : c \in Checks
  BY ProgressAssumption DEF CheckInv, TypeOK, Checks
<1>2. S \subseteq {disk.pending.id}
  BY <1>1 DEF CheckInv, Held
<1>3. IsFiniteSet({disk.pending.id}) /\ Cardinality({disk.pending.id}) = 1
  BY FS_Singleton
<1>4. Cardinality(S) <= 1
  BY <1>2, <1>3, FS_Subset
<1> QED
  BY <1>4 DEF OneCheck

\* An uncertain outcome never permits a replacement (checkProgress and
\* SendProgressCheck): whatever is retired, lost, interrupted or crashed, at
\* most one check can still reach an observer.
THEOREM OneCheckAlways == Spec => []OneCheck
BY CheckAlways, HeldIsOne, PTL

\* No challenge outlives its concern: what is told to the lead, and what waits
\* to be told, is about a concern the record still has open (State.Apply).
THEOREM NoStaleAlways == Spec => []NoStaleChallenge
<1>1. CheckInv => NoStaleChallenge
  BY DEF CheckInv, Open, Same, NoStaleChallenge
<1> QED
  BY <1>1, CheckAlways, PTL

=============================================================================
