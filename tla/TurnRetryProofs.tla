-------------------------- MODULE TurnRetryProofs --------------------------
(***************************************************************************)
(* Type correctness of TurnRetry.  The first part says what each operation *)
(* on the record returns: a record, whose pending attempt is none, the one *)
(* it had, or the fresh one.  The second part says that saving and         *)
(* releasing keep the lock holder's variables typed, and then goes through *)
(* the actions.  The parts after it, on what becomes of an attempt, on its *)
(* calls, on the quota of the calls and on what is over staying over,      *)
(* build on both.                                                          *)
(***************************************************************************)
EXTENDS TurnRetry, FiniteSetTheorems, TLAPS

\* A pending attempt q is what an operation left of p: none, or the same attempt
\* for the same failure with the same result.
Kept(p, q) == (q.id = 0 /\ q.result = 0) \/ (q.id = p.id /\ q.failure = p.failure /\ q.result = p.result)

\* A pending attempt scheduled for the failure of a turn, not answered yet.
Fresh(q, id, turn) == q.id = id /\ q.failure = turn /\ q.result = 0

\* State.Cancel returns a record, drops or keeps the pending attempt, and keeps
\* it exactly when it is uncertain.
LEMMA CancelType ==
    ASSUME NEW s \in Records
    PROVE  /\ Cancel(s) \in Records
           /\ Cancel(s).Pending \in {NoPending, s.Pending}
           /\ \A i : Keeps(s, i) => Keeps(Cancel(s), i)
           /\ Uncertain(Cancel(s)) <=> Uncertain(s)
  BY DEF Cancel, Records, Uncertain, HasPending, Keeps, PendingType, NoPending, Phases

\* State.Enroll leaves the pending attempt alone.
LEMMA EnrollType ==
    ASSUME NEW s \in Records, NEW o \in Observations
    PROVE  Enroll(s, o) \in Records /\ Enroll(s, o).Pending = s.Pending
  BY DEF Enroll, Records, Observations

\* State.Now moves only the clock.
LEMMA ClockedType ==
    ASSUME NEW s \in Records, NEW wall \in Nat
    PROVE  Clocked(s, wall) \in Records /\ Clocked(s, wall).Pending = s.Pending
             /\ Clocked(s, wall).Phase = s.Phase
  BY DEF Clocked, Records, MaxOf

\* State.InvalidateSettings cancels; an uncertain attempt survives it.
LEMMA InvalidateType ==
    ASSUME NEW s \in Records, NEW t \in Nat
    PROVE  /\ InvalidateSettings(s, t) \in Records
           /\ InvalidateSettings(s, t).Pending \in {NoPending, s.Pending}
           /\ \A i : Keeps(s, i) => Keeps(InvalidateSettings(s, t), i)
  <1> DEFINE e == [s EXCEPT !.Epoch = @ + 1]
  <1>1. e \in Records /\ e.Pending = s.Pending /\ e.Phase = s.Phase
    <2>1. s.Epoch \in Nat /\ s.Epoch + 1 \in Nat
      BY DEF Records
    <2>2. \A n \in Nat : [s EXCEPT !.Epoch = n] \in Records
      BY DEF Records
    <2> QED BY <2>1, <2>2 DEF Records
  <1>2. /\ Cancel(e) \in Records
        /\ Cancel(e).Pending \in {NoPending, e.Pending}
        /\ \A i : Keeps(e, i) => Keeps(Cancel(e), i)
    BY <1>1, CancelType
  <1>3. \A i : Keeps(s, i) => Keeps(e, i)
    BY <1>1 DEF Keeps, Uncertain, HasPending
  <1> DEFINE c == Cancel(e)
             r == [c EXCEPT !.Handled = IF t # 0 THEN t ELSE @]
  <1>4. InvalidateSettings(s, t) = r
    BY DEF InvalidateSettings
  <1> HIDE DEF e, c
  <1>5. r \in Records /\ r.Pending = c.Pending /\ r.Phase = c.Phase
    BY <1>2 DEF Records, c
  <1> QED BY <1>1, <1>2, <1>3, <1>4, <1>5 DEF Keeps, Uncertain, HasPending, c

\* Stop keeps the pending attempt, and an uncertain one stays uncertain.
LEMMA StopType ==
    ASSUME NEW s \in Records
    PROVE  /\ Stop(s) \in Records
           /\ Stop(s).Pending = s.Pending
           /\ \A i : Keeps(s, i) => Keeps(Stop(s), i)
  <1> DEFINE h == [s EXCEPT !.Handled = CASE ~HasPending(s)         -> @
                                   [] HasPending(s) /\ s.Pending.result # 0 -> s.Pending.result
                                   [] OTHER                  -> s.Pending.failure]
             r == [Cancel(h) EXCEPT !.Pending = h.Pending]
  <1>1. h \in Records /\ h.Pending = s.Pending /\ h.Phase = s.Phase
    BY DEF Records, PendingType, HasPending
  <1>2. /\ Cancel(h) \in Records
        /\ \A i : Keeps(h, i) => Keeps(Cancel(h), i)
    BY <1>1, CancelType
  <1>3. Stop(s) = IF s.Cancelled THEN s ELSE r
    BY DEF Stop, CancelKeepingPending
  <1> HIDE DEF h
  <1>4. r \in Records /\ r.Pending = s.Pending /\ r.Phase = Cancel(h).Phase
    BY <1>1, <1>2 DEF Records
  <1> QED BY <1>1, <1>2, <1>3, <1>4 DEF Keeps, Uncertain, HasPending

\* RetryNow touches neither the pending attempt nor the phase.
LEMMA RetryNowType ==
    ASSUME NEW s \in Records, NEW wall \in Nat
    PROVE  /\ RetryNow(s, wall) \in Records
           /\ RetryNow(s, wall).Pending = s.Pending
           /\ RetryNow(s, wall).Phase = s.Phase
  BY DEF RetryNow, Clocked, Records, MaxOf, HasPending

\* Scheduling leaves no pending attempt or the fresh one.
LEMMA ScheduleType ==
    ASSUME NEW s \in Records, NEW o \in Observations, NEW d, NEW proven \in BOOLEAN,
           NEW id \in Nat, NEW jitter \in Nat
    PROVE  /\ Schedule(s, o, d, proven, id, jitter) \in Records
           /\ Schedule(s, o, d, proven, id, jitter).Pending.id \in {0, id}
           /\ LET q == Schedule(s, o, d, proven, id, jitter).Pending
              IN  q = NoPending \/ Fresh(q, id, o.turn)
  <1> DEFINE continuing == HasPending(s) /\ s.Pending.result = o.turn /\ ~s.Cancelled
             class      == ClassOf(o.code)
             base       == IF continuing
                      THEN [s EXCEPT !.Handled = o.turn, !.Class = class]
                      ELSE [s EXCEPT !.Handled = o.turn, !.Class = class,
                                     !.Chain = o.turn, !.Capacity = 0, !.Cancelled = FALSE]
             pending == [id |-> id, failure |-> o.turn, epoch |-> s.Epoch,
                         charged |-> 0, result |-> 0]
             due == IF class = "capacity" THEN s.ClockMS + CapacityDelay(base.Capacity) + jitter
                                          ELSE s.ClockMS
             r(p) == [base EXCEPT !.Phase = p, !.Pending = NoPending, !.DeadlineMS = 0]
             q == [base EXCEPT !.Pending = pending, !.Phase = "scheduled", !.DeadlineMS = due]
  <1>1. class \in Classes /\ o.turn \in Nat
    BY DEF ClassOf, Classes, Observations
  <1>2. base \in Records
    <2> HIDE DEF class
    <2> QED BY <1>1 DEF Records
  <1>3. pending \in PendingType /\ NoPending \in PendingType
    BY <1>1 DEF PendingType, NoPending, Records
  <1>4. due \in Nat
    <2>1. base.Capacity \in Nat /\ s.ClockMS \in Nat
      BY <1>2 DEF Records
    <2>2. CapacityDelay(base.Capacity) \in Nat
      <3> HIDE DEF base
      <3> QED BY <2>1, RecordAssumption DEF CapacityDelay
    <2> HIDE DEF base, class
    <2> QED BY <2>1, <2>2
  <1> HIDE DEF base, pending, due
  <1>5. \A p \in Phases : r(p) \in Records /\ r(p).Pending = NoPending
    BY <1>2, <1>3 DEF Records
  <1>6. q \in Records /\ q.Pending = pending
    BY <1>2, <1>3, <1>4 DEF Records, Phases
  <1>7. Schedule(s, o, d, proven, id, jitter) \in {r("blocked"), r("exhausted"), q}
    BY DEF Schedule, base, pending, due
  <1>8. pending.id = id /\ Fresh(pending, id, o.turn) /\ NoPending.id = 0
    BY DEF pending, Fresh, NoPending
  <1> HIDE DEF r, q
  <1>9. r("blocked").Pending = NoPending /\ r("exhausted").Pending = NoPending
          /\ r("blocked") \in Records /\ r("exhausted") \in Records
    BY <1>5 DEF Phases
  <1> QED BY <1>6, <1>7, <1>8, <1>9

\* A terminal turn leaves no attempt, the present one or the fresh one.
LEMMA ObserveTerminalType ==
    ASSUME NEW s \in Records, NEW o \in Observations, NEW d, NEW proven \in BOOLEAN,
           NEW id \in Nat, NEW jitter \in Nat
    PROVE  /\ ObserveTerminal(s, o, d, proven, id, jitter) \in Records
           /\ ObserveTerminal(s, o, d, proven, id, jitter).Pending.id \in {0, s.Pending.id, id}
           /\ LET q == ObserveTerminal(s, o, d, proven, id, jitter).Pending
              IN  Kept(s.Pending, q) \/ Fresh(q, id, o.turn)
  <1> DEFINE done == [s EXCEPT !.Handled = IF o.turn # 0 THEN o.turn ELSE @,
                         !.Phase = "idle", !.Pending = NoPending,
                         !.DeadlineMS = 0, !.Class = "none"]
             ended == [s EXCEPT !.Handled = o.turn, !.Phase = "blocked",
                                !.DeadlineMS = 0, !.Cancelled = TRUE]
             noted == [s EXCEPT !.Handled = o.turn]
             off   == [s EXCEPT !.Class = ClassOf(o.code), !.Cancelled = TRUE,
                                !.DeadlineMS = 0, !.Phase = "cancelled",
                                !.Handled = o.turn]
             next  == Schedule(s, o, d, proven, id, jitter)
  <1>1. o.turn \in Nat /\ ClassOf(o.code) \in Classes
    BY DEF Observations, ClassOf, Classes
  <1>2. ObserveTerminal(s, o, d, proven, id, jitter) \in {done, ended, noted, off, next, s}
    BY DEF ObserveTerminal
  <1>3. done \in Records /\ done.Pending = NoPending /\ NoPending.id = 0
    BY <1>1 DEF Records, Phases, Classes, NoPending, PendingType
  <1>4. ended \in Records /\ noted \in Records /\ ended.Pending = s.Pending /\ noted.Pending = s.Pending
    BY <1>1 DEF Records, Phases
  <1>5. off \in Records /\ off.Pending = s.Pending
    BY <1>1 DEF Records, Phases
  <1>6. /\ next \in Records /\ next.Pending.id \in {0, id}
        /\ next.Pending = NoPending \/ Fresh(next.Pending, id, o.turn)
    BY ScheduleType
  <1>7. Kept(s.Pending, s.Pending) /\ Kept(s.Pending, NoPending)
    BY DEF Kept, NoPending
  <1> HIDE DEF done, ended, noted, off, next
  <1> QED BY <1>2, <1>3, <1>4, <1>5, <1>6, <1>7

\* State.Observe leaves no attempt, the present one or the fresh one.
LEMMA ObserveType ==
    ASSUME NEW s0 \in Records, NEW o \in Observations, NEW d, NEW proven \in BOOLEAN,
           NEW id \in Nat, NEW jitter \in Nat, NEW wall \in Nat
    PROVE  /\ Observe(s0, o, wall, d, proven, id, jitter) \in Records
           /\ Observe(s0, o, wall, d, proven, id, jitter).Pending.id \in {0, s0.Pending.id, id}
           /\ LET q == Observe(s0, o, wall, d, proven, id, jitter).Pending
              IN  Kept(s0.Pending, q) \/ Fresh(q, id, o.turn)
  <1> DEFINE s  == Clocked(s0, wall)
             s1 == IF HasPending(s) /\ s.Pending.result = 0 /\ o.turn \notin {0, s.Pending.failure}
                   THEN Cancel(s) ELSE s
             s2 == IF HasPending(s1) /\ s1.Pending.result \notin {0, o.turn}
                   THEN Cancel(s1) ELSE s1
             t  == ObserveTerminal(s2, o, d, proven, id, jitter)
  <1>1. s \in Records /\ s.Pending = s0.Pending
    BY ClockedType
  <1>2. s1 \in Records /\ s1.Pending \in {NoPending, s0.Pending}
    <2>1. Cancel(s) \in Records /\ Cancel(s).Pending \in {NoPending, s.Pending}
      BY <1>1, CancelType
    <2> HIDE DEF s
    <2> QED BY <1>1, <2>1
  <1>3. s2 \in Records /\ s2.Pending \in {NoPending, s0.Pending}
    <2>1. Cancel(s1) \in Records /\ Cancel(s1).Pending \in {NoPending, s1.Pending}
      BY <1>2, CancelType
    <2> HIDE DEF s1
    <2> QED BY <1>2, <2>1
  <1>4. /\ t \in Records /\ t.Pending.id \in {0, s0.Pending.id, id}
        /\ Kept(s0.Pending, t.Pending) \/ Fresh(t.Pending, id, o.turn)
    <2> HIDE DEF s2
    <2>1. /\ t \in Records /\ t.Pending.id \in {0, s2.Pending.id, id}
          /\ Kept(s2.Pending, t.Pending) \/ Fresh(t.Pending, id, o.turn)
      BY <1>3, ObserveTerminalType
    <2>2. NoPending.id = 0 /\ (t.Pending.id = 0 \/ s2.Pending.id = s0.Pending.id \/ s2.Pending.id = 0)
      BY <1>3 DEF NoPending
    <2>3. Kept(s2.Pending, t.Pending) => Kept(s0.Pending, t.Pending) \/ Kept(NoPending, t.Pending)
      BY <1>3
    <2>4. Kept(NoPending, t.Pending) => Kept(s0.Pending, t.Pending)
      BY DEF Kept, NoPending
    <2> QED BY <2>1, <2>2, <2>3, <2>4
  <1>5. Enroll(s, o) \in Records /\ Enroll(s, o).Pending = s.Pending
    BY <1>1, EnrollType
  <1>6. Observe(s0, o, wall, d, proven, id, jitter) \in {Enroll(s, o), s, s1, t}
    BY DEF Observe
  <1> HIDE DEF s, s1, s2, t
  <1>7. Kept(s0.Pending, s0.Pending) /\ Kept(s0.Pending, NoPending) /\ NoPending.id = 0
    BY DEF Kept, NoPending
  <1> QED BY <1>1, <1>2, <1>4, <1>5, <1>6, <1>7

\* State.ReserveUnsubmitted keeps the attempt and its phase, or gives it up.
LEMMA ReserveType ==
    ASSUME NEW s \in Records, NEW wall \in Nat
    PROVE  LET r == ReserveUnsubmitted(s, wall) IN
           /\ r \in Records
           /\ r.Pending.id \in {0, s.Pending.id}
           /\ Kept(s.Pending, r.Pending)
           /\ HasPending(r) => r.Phase = s.Phase
  <1> DEFINE c    == Clocked(s, wall)
             kept == {x \in LiveCharges(c, c.ClockMS) : x.id # c.Pending.id}
             charge == [id |-> c.Pending.id, at |-> c.ClockMS, accepted |-> FALSE]
             over == [c EXCEPT !.Cyber = kept, !.Phase = "exhausted",
                               !.DeadlineMS = 0, !.Pending = NoPending]
             more == kept \cup {charge}
             held == [c EXCEPT !.Cyber = more, !.Pending.charged = c.ClockMS]
  <1>1. c \in Records /\ c.Pending = s.Pending /\ c.Phase = s.Phase
    BY ClockedType
  <1> HIDE DEF c
  <1>2. kept \subseteq Charges /\ charge \in Charges
    BY <1>1 DEF Records, LiveCharges, Charges, PendingType
  <1>3. over \in Records /\ over.Pending.id = 0 /\ over.Pending.result = 0
    <2> HIDE DEF kept
    <2> QED BY <1>1, <1>2 DEF Records, Phases, NoPending, PendingType
  <1>4. /\ held \in Records /\ held.Pending.id = c.Pending.id /\ held.Phase = c.Phase
        /\ held.Pending.failure = c.Pending.failure /\ held.Pending.result = c.Pending.result
    <2>1. more \subseteq Charges
      BY <1>2
    <2> HIDE DEF more
    <2> QED BY <1>1, <2>1 DEF Records, PendingType
  <1>5. ReserveUnsubmitted(s, wall) \in {s, over, held}
    BY DEF ReserveUnsubmitted, c
  <1> HIDE DEF over, held
  <1> QED BY <1>1, <1>3, <1>4, <1>5 DEF HasPending, Kept

\* State.Begin leaves an attempt that is being submitted, or none.
LEMMA BeginType ==
    ASSUME NEW s \in Records, NEW wall \in Nat
    PROVE  LET r == Begin(s, wall) IN
           /\ r \in Records
           /\ r.Pending.id \in {0, s.Pending.id}
           /\ Kept(s.Pending, r.Pending)
           /\ HasPending(r) => r.Phase = "submitting"
  <1> DEFINE r == ReserveUnsubmitted(Clocked(s, wall), wall)
             b == [r EXCEPT !.Phase = "submitting", !.DeadlineMS = 0,
                            !.Capacity = IF s.Class = "capacity" THEN @ + 1 ELSE @]
  <1>1. r \in Records /\ r.Pending.id \in {0, s.Pending.id} /\ Kept(s.Pending, r.Pending)
    <2> DEFINE c == Clocked(s, wall)
    <2>1. c \in Records /\ c.Pending = s.Pending
      BY ClockedType
    <2> HIDE DEF c
    <2>2. LET q == ReserveUnsubmitted(c, wall) IN
             q \in Records /\ q.Pending.id \in {0, c.Pending.id} /\ Kept(c.Pending, q.Pending)
      BY <2>1, ReserveType
    <2> QED BY <2>1, <2>2 DEF c
  <1>2. Begin(s, wall) = IF ~HasPending(r) THEN r ELSE b
    BY DEF Begin
  <1> HIDE DEF r
  <1>3. b \in Records /\ b.Pending = r.Pending /\ b.Phase = "submitting"
    <2>1. r.Capacity \in Nat /\ r.Capacity + 1 \in Nat
      BY <1>1 DEF Records
    <2> QED BY <1>1, <2>1 DEF Records, Phases
  <1> QED BY <1>1, <1>2, <1>3 DEF HasPending

\* State.Accepted binds the turn to the attempt it was given.
LEMMA AcceptedType ==
    ASSUME NEW s0 \in Records, NEW turn \in Nat, NEW wall \in Nat, NEW fits \in BOOLEAN
    PROVE  LET r == Accepted(s0, turn, wall, fits) IN
           /\ r \in Records
           /\ r.Pending.id = s0.Pending.id
           /\ r.Pending.failure = s0.Pending.failure
           /\ r.Pending.result = turn
  <1> DEFINE mine   == {c \in s0.Cyber : c.id = s0.Pending.id}
             anchor == {c \in mine : ~c.accepted}
             t == MaxOf(wall, s0.ClockMS)
             moved == {[c EXCEPT !.at = MaxOf(@, t), !.accepted = TRUE] : c \in anchor}
             cyber == (s0.Cyber \ anchor) \cup moved
             charged == MaxOf(s0.Pending.charged, t)
             a == [Clocked(s0, wall) EXCEPT !.Cyber = cyber, !.Pending.charged = charged]
             s == IF s0.Class = "cybersecurity" /\ anchor # {} THEN a ELSE s0
             bound == [s EXCEPT !.Pending.result = turn]
             full == [bound EXCEPT !.Handled = turn, !.Phase = "blocked",
                                   !.Cancelled = TRUE, !.DeadlineMS = 0]
             ended == [bound EXCEPT !.Phase = "cancelled", !.Handled = turn]
             running == [bound EXCEPT !.Phase = "running"]
  <1>1. Clocked(s0, wall) \in Records /\ Clocked(s0, wall).Pending = s0.Pending
          /\ Clocked(s0, wall).Cyber = s0.Cyber
    BY ClockedType DEF Clocked, Records
  <1>2. t \in Nat /\ charged \in Nat
    BY DEF MaxOf, Records, PendingType
  <1>3. cyber \subseteq Charges
    <2>1. \A c \in Charges : [c EXCEPT !.at = MaxOf(@, t), !.accepted = TRUE] \in Charges
      BY <1>2 DEF Charges, MaxOf
    <2>2. s0.Cyber \subseteq Charges
      BY DEF Records
    <2> QED BY <2>1, <2>2
  <1> HIDE DEF cyber, charged
  <1>4. a \in Records /\ a.Pending.id = s0.Pending.id /\ a.Pending.failure = s0.Pending.failure
    BY <1>1, <1>2, <1>3 DEF Records, PendingType
  <1>5. s \in Records /\ s.Pending.id = s0.Pending.id /\ s.Pending.failure = s0.Pending.failure
    BY <1>4
  <1>6. Accepted(s0, turn, wall, fits) \in {full, bound, ended, running}
    BY <1>1 DEF Accepted, cyber, charged
  <1> HIDE DEF s
  <1>7. /\ bound \in Records /\ bound.Pending.id = s0.Pending.id /\ bound.Pending.result = turn
        /\ bound.Pending.failure = s0.Pending.failure
    BY <1>5 DEF Records, PendingType
  <1> HIDE DEF bound
  <1>8. /\ full \in Records /\ ended \in Records /\ running \in Records
        /\ full.Pending = bound.Pending /\ ended.Pending = bound.Pending
        /\ running.Pending = bound.Pending
    BY <1>7 DEF Records, Phases
  <1> QED BY <1>6, <1>7, <1>8

\* The never-submitted proof keeps the attempt or, once cancelled, drops it.
LEMMA NeverSubmittedType ==
    ASSUME NEW s \in Records
    PROVE  /\ NeverSubmitted(s) \in Records
           /\ HasPending(NeverSubmitted(s)) => NeverSubmitted(s) = s
           /\ NeverSubmitted(s).Pending.id \in {0, s.Pending.id}
  BY DEF NeverSubmitted, Records, Phases, NoPending, PendingType, HasPending

\* An unknown outcome keeps the attempt, uncertain.
LEMMA OutcomeUnknownType ==
    ASSUME NEW s \in Records
    PROVE  /\ OutcomeUnknown(s) \in Records
           /\ OutcomeUnknown(s).Pending = s.Pending
           /\ \A i : Keeps(s, i) => Keeps(OutcomeUnknown(s), i)
  BY DEF OutcomeUnknown, Records, Phases, Keeps, Uncertain, HasPending

----------------------------------------------------------------------------

\* SessionPolicy.Decide leaves a well-typed policy.
LEMMA JoinedType ==
    ASSUME NEW p \in Policies, NEW s \in Records
    PROVE  Joined(p, s) \in Policies
  <1> DEFINE b == [turn |-> s.Baseline, active |-> s.BaselineActive]
             c == [p.choice EXCEPT !.capacityBaseline = b, !.cybersecurityBaseline = b,
                                   !.suppressed = {}]
             j == [p EXCEPT !.entry = TRUE, !.choice.capacityBaseline = b,
                            !.choice.cybersecurityBaseline = b, !.choice.suppressed = {}]
  <1>1. b \in Enrollments
    BY DEF Records, Enrollments
  <1> HIDE DEF b
  <1>2. p.choice \in Decisions
    BY DEF Policies
  <1>3. c \in Decisions
    BY <1>1, <1>2 DEF Decisions
  <1>4. j = [p EXCEPT !.entry = TRUE, !.choice = c]
    BY <1>2 DEF Policies, Decisions
  <1>5. j \in Policies
    <2> HIDE DEF c, j
    <2> QED BY <1>3, <1>4 DEF Policies
  <1> QED BY <1>5 DEF Joined, b

\* Checkpoint leaves a well-typed summary.
LEMMA SummaryType ==
    ASSUME NEW v0 \in Summaries, NEW s \in Records, NEW fresh \in BOOLEAN
    PROVE  SummaryOf(v0, s, fresh) \in Summaries
  <1> DEFINE n == [NoSummary EXCEPT !.chain = s.Chain,
                                    !.quality = IF fresh THEN "exact" ELSE "unavailable"]
             v == IF v0.chain = s.Chain /\ v0.quality # "none" THEN v0 ELSE n
             gap == /\ v.pending # 0 /\ v.last # v.pending /\ s.Pending.id # v.pending
                    /\ v.quality = "exact"
             w == [v EXCEPT !.quality = IF gap THEN "partial" ELSE @,
                            !.pending = IF HasPending(s) THEN s.Pending.id ELSE @]
             x == [w EXCEPT !.count = @ + 1, !.last = s.Pending.id,
                            !.quality = IF @ = "unavailable" THEN "partial" ELSE @]
  <1>1. n \in Summaries /\ s.Pending.id \in Nat
    BY DEF Summaries, NoSummary, Qualities, Records, PendingType
  <1>2. v \in Summaries
    BY <1>1
  <1> HIDE DEF v
  <1>3. w \in Summaries
    BY <1>1, <1>2 DEF Summaries, Qualities
  <1> HIDE DEF w
  <1>4. x \in Summaries
    <2>1. w.count + 1 \in Nat
      BY <1>3 DEF Summaries
    <2> QED BY <1>1, <1>3, <2>1 DEF Summaries, Qualities
  <1>5. SummaryOf(v0, s, fresh) \in {x, w}
    BY DEF SummaryOf, w, v
  <1> QED BY <1>3, <1>4, <1>5

\* SessionPolicy.Checkpoint leaves a well-typed policy.
LEMMA CheckpointType ==
    ASSUME NEW p \in Policies, NEW s \in Records, NEW fresh \in BOOLEAN
    PROVE  Checkpoint(p, s, fresh) \in Policies
  <1> DEFINE f(v) == IF HasPending(s) /\ s.Pending.result # 0
                       /\ v.chain = s.Chain /\ v.pending = s.Pending.id
                     THEN [v EXCEPT !.result = s.Pending.result] ELSE v
             sup == {f(v) : v \in p.choice.suppressed}
             sum == IF /\ p.summary.quality = "none" \/ p.summary.chain # s.Chain
                       /\ ~fresh /\ s.Phase \in {"idle", "cancelled"} /\ ~HasPending(s)
                    THEN p.summary ELSE SummaryOf(p.summary, s, fresh)
             c == [p.choice EXCEPT !.suppressed = sup]
             k == [p EXCEPT !.choice.suppressed = sup, !.summary = sum]
  <1>1. p.choice \in Decisions /\ p.summary \in Summaries
    BY DEF Policies
  <1>2. sup \subseteq Suppressions
    <2>1. s.Pending.result \in Nat
      BY DEF Records, PendingType
    <2>2. \A v \in Suppressions : f(v) \in Suppressions
      BY <2>1 DEF Suppressions
    <2>3. p.choice.suppressed \subseteq Suppressions
      BY <1>1 DEF Decisions
    <2> QED BY <2>2, <2>3
  <1>3. sum \in Summaries
    BY <1>1, SummaryType
  <1>4. Checkpoint(p, s, fresh) \in {p, k}
    BY DEF Checkpoint
  <1> HIDE DEF sup, sum
  <1>5. c \in Decisions
    BY <1>1, <1>2 DEF Decisions
  <1>6. k = [p EXCEPT !.choice = c, !.summary = sum]
    BY <1>1 DEF Policies, Decisions
  <1>7. k \in Policies
    <2> HIDE DEF c, k
    <2> QED BY <1>3, <1>5, <1>6 DEF Policies
  <1> QED BY <1>4, <1>7

\* PreparePolicy leaves a well-typed policy.
LEMMA PreparePolicyType ==
    ASSUME NEW p \in Policies, NEW s \in Records, latest \in Observations, incarnation \in Nat,
           NEW capacity \in BOOLEAN, NEW cybersecurity \in BOOLEAN, NEW bootstrap \in BOOLEAN
    PROVE  PreparePolicy(p, s, capacity, cybersecurity, bootstrap) \in Policies
  <1> DEFINE keep(class) == bootstrap /\ Inherits(s, class)
             watermark == [turn |-> s.Baseline, active |-> s.BaselineActive]
             baseline(class, changed, prior) ==
                IF keep(class) THEN watermark
                ELSE IF bootstrap \/ changed \/ ~p.entry THEN BaselineNow ELSE prior
             b1 == baseline("capacity", capacity # p.choice.capacity, p.choice.capacityBaseline)
             b2 == baseline("cybersecurity", cybersecurity # p.choice.cybersecurity,
                            p.choice.cybersecurityBaseline)
             sup == IF s.Chain # 0 /\ HasPending(s) /\ Off(s.Class, capacity, cybersecurity)
                    THEN Suppress(p.choice.suppressed, s) ELSE p.choice.suppressed
             choice == [capacity |-> capacity, cybersecurity |-> cybersecurity,
                        capacityBaseline |-> b1, cybersecurityBaseline |-> b2, suppressed |-> sup]
             r == [p EXCEPT !.present = TRUE, !.inc = incarnation, !.entry = TRUE, !.choice = choice]
  <1>1. /\ p.choice.capacityBaseline \in Enrollments
        /\ p.choice.cybersecurityBaseline \in Enrollments
        /\ p.choice.suppressed \subseteq Suppressions
    BY DEF Policies, Decisions
  <1>2. watermark \in Enrollments /\ BaselineNow \in Enrollments
    BY DEF Enrollments, Records, BaselineNow, Observations
  <1>3. b1 \in Enrollments /\ b2 \in Enrollments
    BY <1>1, <1>2
  <1>4. sup \subseteq Suppressions
    BY <1>1 DEF Suppress, Suppressions, Records, PendingType
  <1> HIDE DEF b1, b2, sup
  <1>5. choice \in Decisions
    BY <1>3, <1>4 DEF Decisions
  <1> HIDE DEF choice
  <1>6. r \in Policies
    BY <1>5 DEF Policies
  <1>7. PreparePolicy(p, s, capacity, cybersecurity, bootstrap) = r
    BY DEF PreparePolicy, choice, b1, b2, sup
  <1> QED BY <1>6, <1>7

----------------------------------------------------------------------------
\* The constants the specification starts from.
LEMMA Constants ==
    /\ New \in Records /\ NoPending \in PendingType
    /\ NoObservation \in Observations /\ NoDecision \in Decisions
    /\ NoPolicy \in Policies /\ New.Pending.id = 0
  <1>1. NoPending \in PendingType /\ NoObservation \in Observations
    BY DEF NoPending, PendingType, NoObservation, Observations, Statuses, Codes
  <1>2. New \in Records
    BY <1>1 DEF New, Records, Phases, Classes
  <1>3. NoDecision \in Decisions
    BY DEF NoDecision, Decisions, NoEnrollment, Enrollments
  <1>4. NoSummary \in Summaries
    BY DEF NoSummary, Summaries, Qualities
  <1>5. New.Pending.id = 0
    BY DEF New, NoPending
  <1> QED BY <1>1, <1>2, <1>3, <1>4, <1>5 DEF NoPolicy, Policies

\* What an action of the lock holder changes.
HolderOK == /\ disk \in Records /\ mem \in Records
            /\ disk.Pending.id \in Ids \cup {0} /\ mem.Pending.id \in Ids \cup {0}
            /\ pc \in Points /\ op \in Ops
            /\ obs \in Observations /\ dec \in Decisions
            /\ receipts \subseteq Nat

\* Transaction.Save of a record keeps the saved one well typed.
LEMMA WriteType ==
    ASSUME HolderOK, NEW s \in Records, s.Pending.id \in Ids \cup {0}, Write(s)
    PROVE  disk' \in Records /\ disk'.Pending.id \in Ids \cup {0} /\ receipts' \subseteq Nat
  BY DEF Write, HolderOK, Recorded, Records, PendingType

\* Transaction.Close forgets the holder and keeps the saved record.
LEMMA ReleaseType ==
    ASSUME disk' \in Records, disk'.Pending.id \in Ids \cup {0}, receipts' \subseteq Nat, Release
    PROVE  HolderOK'
  BY Constants DEF Release, HolderOK, Points, Ops

\* Save, then on to the next point or out, keeps the holder well typed.
LEMMA SaveType ==
    ASSUME HolderOK, NEW s \in Records, s.Pending.id \in Ids \cup {0},
           NEW next \in Points, Save(s, next)
    PROVE  HolderOK'
  <1>1. disk' \in Records /\ disk'.Pending.id \in Ids \cup {0} /\ receipts' \subseteq Nat
    BY WriteType DEF Save
  <1>2. CASE Release
    BY <1>1, <1>2, ReleaseType
  <1>3. CASE mem' = s /\ pc' = next /\ UNCHANGED <<op, obs, dec>>
    BY <1>1, <1>3 DEF HolderOK
  <1> QED BY <1>2, <1>3 DEF Save

\* Everything else.
RestOK == /\ latest \in Observations /\ policy \in Policies
          /\ incarnation \in Nat
          /\ ledger \in [Ids -> LedgerStates] /\ turnOf \in [Ids -> Nat]
          /\ nextId \in Nat \ {0} /\ nextTurn \in Nat \ {0} /\ moves \in Nat
          /\ sent \in Seq(Sends) /\ barred \subseteq Nat
          /\ old \subseteq Nat \X Classes

\* TypeOK, split by who changes it.
LEMMA TypeParts == TypeOK <=> HolderOK /\ RestOK
  BY DEF TypeOK, HolderOK, RestOK

\* The chain an intervention ends is a turn.
LEMMA EndedType == ASSUME NEW s \in Records PROVE Ended(s) \subseteq Nat
  BY DEF Ended, Records

\* The failures an opt-in finds over are turns with a class.
LEMMA OverType ==
    ASSUME latest \in Observations, NEW c \in SUBSET Classes
    PROVE  Over(c) \subseteq Nat \X Classes
  BY DEF Over, Observations

\* A checkpoint whose failure is ignored keeps the policy well typed.
LEMMA OptionalCheckpointType ==
    ASSUME policy \in Policies, NEW s \in Records, OptionalCheckpoint(s)
    PROVE  policy' \in Policies
  BY CheckpointType DEF OptionalCheckpoint

\* The initial state is well typed.
LEMMA TypeInit == Init => TypeOK
  BY Constants, TurnRetryAssumption DEF Init, TypeOK, Points, Ops, LedgerStates

\* The reconciliation actions.
LEMMA TypeReconcile ==
    ASSUME TypeOK, Reconcile PROVE TypeOK'
  <1> SUFFICES HolderOK' /\ RestOK'
    BY DEF TypeOK, HolderOK, RestOK
  <1>0. HolderOK /\ RestOK /\ AfterReconcile \in Points
    BY TypeParts DEF AfterReconcile, Points
  <1>1. CASE ReconcileOnly
    <2>1. Bound(disk) \in Records /\ Bound(disk).Pending = disk.Pending
      BY <1>0 DEF HolderOK, RestOK, Bound, Records
    <2> QED BY <1>0, <1>1, <2>1
          DEF ReconcileOnly, Acquire, HolderOK, RestOK, Points, Ops, native, ghosts
  <1>2. CASE ReconcileFound
    <2>1. PICK wall \in Times, fits \in BOOLEAN :
             LET s == Accepted(mem, turnOf[mem.Pending.id], wall, fits)
             IN  /\ Save(s, AfterReconcile)
                 /\ IF op = "step" THEN OptionalCheckpoint(s) ELSE policy' = policy
      BY <1>2 DEF ReconcileFound
    <2> DEFINE t == turnOf[mem.Pending.id]
               s == Accepted(mem, t, wall, fits)
    <2>2. t \in Nat
      BY <1>2, <1>0 DEF ReconcileFound, CanAccept, HasPending, RestOK, HolderOK
    <2>3. s \in Records /\ s.Pending.id = mem.Pending.id
      <3>1. mem \in Records /\ wall \in Nat
        BY <1>0, TurnRetryAssumption DEF HolderOK
      <3> HIDE DEF t
      <3> QED BY <2>2, <3>1, AcceptedType
    <2> HIDE DEF s, t
    <2>4. Save(s, AfterReconcile) /\ IF op = "step" THEN OptionalCheckpoint(s) ELSE policy' = policy
      BY <2>1 DEF s, t
    <2>5. HolderOK'
      BY <1>0, <2>3, <2>4, SaveType DEF HolderOK
    <2>6. policy' \in Policies
      BY <1>0, <2>3, <2>4, OptionalCheckpointType DEF RestOK
    <2> QED BY <1>0, <1>2, <2>5, <2>6 DEF ReconcileFound, RestOK, native
  <1>3. CASE ReconcileNever
    <2> DEFINE next == AfterNever(NeverSubmitted(mem))
    <2>1. Save(NeverSubmitted(mem), next)
      BY <1>3 DEF ReconcileNever
    <2>2. next \in Points
      BY <1>0 DEF Points, AfterNever
    <2>3. NeverSubmitted(mem) \in Records /\ NeverSubmitted(mem).Pending.id \in Ids \cup {0}
      BY <1>0, NeverSubmittedType DEF HolderOK
    <2> HIDE DEF next
    <2>4. HolderOK'
      BY <1>0, <2>1, <2>2, <2>3, SaveType
    <2> QED BY <1>0, <1>3, <2>4 DEF ReconcileNever, RestOK, native, LedgerStates
  <1>4. CASE ReconcileUnknown
    <2>1. OutcomeUnknown(mem) \in Records /\ OutcomeUnknown(mem).Pending.id \in Ids \cup {0}
      BY <1>0, OutcomeUnknownType DEF HolderOK
    <2>2. HolderOK'
      BY <1>0, <1>4, <2>1, SaveType DEF ReconcileUnknown
    <2> QED BY <1>0, <1>4, <2>2 DEF ReconcileUnknown, RestOK, native
  <1> QED BY <1>1, <1>2, <1>3, <1>4 DEF Reconcile

\* The worker's own steps.
LEMMA TypeStep ==
    ASSUME TypeOK, Step PROVE TypeOK'
  <1> SUFFICES HolderOK' /\ RestOK'
    BY DEF TypeOK, HolderOK, RestOK
  <1>0. HolderOK /\ RestOK
    BY TypeParts
  <1>a. /\ mem \in Records /\ disk \in Records /\ mem.Pending.id \in Ids \cup {0}
        /\ latest \in Observations /\ obs \in Observations /\ policy \in Policies
        /\ incarnation \in Nat /\ Times \subseteq Nat /\ Jitters \subseteq Nat
    BY <1>0, TurnRetryAssumption DEF HolderOK, RestOK
  <1>b. /\ Joined(policy, mem) \in Policies
        /\ Checkpoint(policy, mem, FALSE) \in Policies
        /\ Checkpoint(Joined(policy, mem), mem, FALSE) \in Policies
    BY <1>a, JoinedType, CheckpointType
  <1>c. Bound(mem) \in Records /\ Bound(mem).Pending = mem.Pending
    BY <1>a DEF Bound, Records
  <1>d. "free" \in Points /\ "observe" \in Points /\ "check" \in Points /\ "dispatch" \in Points
    BY DEF Points
  <1>1. CASE StepLock
    <2>1. Bound(disk) \in Records /\ Bound(disk).Pending = disk.Pending
      BY <1>a DEF Bound, Records
    <2> QED BY <1>0, <1>1, <2>1
          DEF StepLock, Acquire, HolderOK, RestOK, Points, Ops, native, ghosts
  <1>2. CASE CheckHeld
    <2>1. HolderOK'
      BY <1>0, <1>2, <1>a, <1>d, SaveType DEF CheckHeld
    <2> QED BY <1>0, <1>2, <1>b, <2>1 DEF CheckHeld, RestOK, native
  <1>3. CASE NoCapacity
    <2> DEFINE s == [mem EXCEPT !.Handled = mem.Pending.failure, !.Phase = "blocked",
                                !.Cancelled = TRUE, !.DeadlineMS = 0]
    <2>1. s \in Records /\ s.Pending = mem.Pending
      BY <1>a DEF Records, PendingType, Phases
    <2>2. Save(s, "free")
      BY <1>3 DEF NoCapacity
    <2> HIDE DEF s
    <2>3. HolderOK'
      BY <1>0, <1>a, <1>d, <2>1, <2>2, SaveType
    <2> QED BY <1>0, <1>3, <1>b, <2>3 DEF NoCapacity, RestOK, native
  <1>4. CASE UnsubmittedDisallowed
    <2> DEFINE s == [Cancel(mem) EXCEPT !.Phase = "cancelled"]
    <2>1. Cancel(mem) \in Records /\ Cancel(mem).Pending \in {NoPending, mem.Pending}
      BY <1>a, CancelType
    <2>2. s \in Records /\ s.Pending.id \in Ids \cup {0}
      BY <1>a, <2>1 DEF Records, Phases, NoPending
    <2>3. Save(s, "free")
      BY <1>4 DEF UnsubmittedDisallowed
    <2> HIDE DEF s
    <2>4. HolderOK'
      BY <1>0, <1>d, <2>2, <2>3, SaveType
    <2> QED BY <1>0, <1>4, <1>b, <2>4 DEF UnsubmittedDisallowed, RestOK, native
  <1>5. CASE UnsubmittedRenew
    <2>1. PICK wall \in Times :
             Save(ReserveUnsubmitted(mem, wall),
                  IF HasPending(ReserveUnsubmitted(mem, wall)) THEN "dispatch" ELSE "free")
      BY <1>5 DEF UnsubmittedRenew
    <2> DEFINE s == ReserveUnsubmitted(mem, wall)
               next == IF HasPending(s) THEN "dispatch" ELSE "free"
    <2>2. s \in Records /\ s.Pending.id \in {0, mem.Pending.id}
      BY <1>a, ReserveType
    <2>3. next \in Points /\ Save(s, next)
      BY <1>d, <2>1
    <2> HIDE DEF s, next
    <2>4. HolderOK'
      BY <1>0, <1>a, <2>2, <2>3, SaveType
    <2> QED BY <1>0, <1>5, <1>b, <2>4 DEF UnsubmittedRenew, RestOK, native
  <1>6. CASE Decide
    <2>1. CASE disk' = disk /\ Release /\ policy' = Joined(policy, mem) /\ receipts' = receipts
      <3>1. HolderOK'
        BY <1>0, <2>1, ReleaseType DEF HolderOK
      <3> QED BY <1>0, <1>6, <1>b, <2>1, <3>1 DEF Decide, RestOK, native, ghosts
    <2>2. CASE /\ policy' = Checkpoint(Joined(policy, mem), mem, FALSE)
               /\ dec' = Joined(policy, mem).choice /\ pc' = "allow"
               /\ UNCHANGED <<disk, mem, op, obs>> /\ receipts' = receipts
      <3>1. dec' \in Decisions
        BY <1>b, <2>2 DEF Policies
      <3> QED BY <1>0, <1>6, <1>b, <2>2, <3>1 DEF Decide, HolderOK, RestOK, Points, native, ghosts
    <2> QED BY <1>6, <2>1, <2>2 DEF Decide, ghosts
  <1>7. CASE AllowOrCancel
    <2> DEFINE s == CancelKeepingPending(mem)
    <2>1. s \in Records /\ s.Pending = mem.Pending
      <3>1. Cancel(mem) \in Records
        BY <1>a, CancelType
      <3> QED BY <1>a, <3>1 DEF CancelKeepingPending, Records
    <2> HIDE DEF s
    <2>2. CASE Save(s, "observe") /\ OptionalCheckpoint(s)
      <3>1. HolderOK' /\ policy' \in Policies
        BY <1>0, <1>a, <1>d, <2>1, <2>2, SaveType, OptionalCheckpointType
      <3> QED BY <1>0, <1>7, <3>1 DEF AllowOrCancel, RestOK, native
    <2>3. CASE pc' = "observe" /\ UNCHANGED <<disk, mem, op, obs, dec, policy, receipts>>
      BY <1>0, <1>7, <1>d, <2>3 DEF AllowOrCancel, HolderOK, RestOK, native
    <2> QED BY <1>7, <2>2, <2>3 DEF AllowOrCancel, s
  <1>8. CASE ReadNative
    <2>1. CASE mem.Enrolled
      BY <1>0, <1>8, <1>a, <1>b, <2>1 DEF ReadNative, HolderOK, RestOK, Points, native
    <2>2. CASE ~mem.Enrolled
      <3> DEFINE s == Enroll(mem, latest)
      <3>1. s \in Records /\ s.Pending = mem.Pending
        BY <1>a, EnrollType
      <3>2. /\ Write(s) /\ old' = old \cup Over(Retried) /\ obs' = latest
            /\ pc' = "enroll" /\ mem' = s /\ UNCHANGED <<op, dec, policy>>
        BY <1>8, <2>2 DEF ReadNative
      <3> HIDE DEF s
      <3>3. disk' \in Records /\ disk'.Pending.id \in Ids \cup {0} /\ receipts' \subseteq Nat
        BY <1>0, <1>a, <3>1, <3>2, WriteType
      <3>4. Over(Retried) \subseteq Nat \X Classes
        BY <1>a, OverType DEF Retried
      <3>5. HolderOK'
        BY <1>0, <1>a, <3>1, <3>2, <3>3 DEF HolderOK, Points
      <3>6. RestOK'
        BY <1>0, <1>8, <3>2, <3>4 DEF RestOK, ReadNative, native
      <3> QED BY <3>5, <3>6
    <2> QED BY <2>1, <2>2
  <1>9. CASE EnrollAgain
    <2> DEFINE t == [Bound(mem) EXCEPT !.Baseline = latest.turn, !.BaselineActive = FALSE]
               s == IF latest # obs /\ (op = "step" \/ latest.turn # 0) THEN t ELSE Bound(mem)
    <2>1. t \in Records /\ t.Pending = mem.Pending
      BY <1>a, <1>c DEF Records, Observations
    <2>2. s \in Records /\ s.Pending = mem.Pending
      BY <1>c, <2>1
    <2>3. Save(s, "free")
      BY <1>9 DEF EnrollAgain
    <2> HIDE DEF s
    <2>4. HolderOK'
      BY <1>0, <1>a, <1>d, <2>2, <2>3, SaveType
    <2>5. Over(Retried) \subseteq Nat \X Classes
      BY <1>a, OverType DEF Retried
    <2> QED BY <1>0, <1>9, <2>4, <2>5 DEF EnrollAgain, RestOK, native
  <1>10. CASE Unproven
    <2> DEFINE s == [mem EXCEPT !.Phase = "blocked", !.Handled = obs.turn]
               t == [mem EXCEPT !.Phase = "blocked"]
    <2>1. s \in Records /\ s.Pending = mem.Pending /\ t \in Records /\ t.Pending = mem.Pending
      BY <1>a DEF Records, Phases, Observations
    <2>2. Save(s, "free") \/ Save(t, "free")
      BY <1>10 DEF Unproven
    <2> HIDE DEF s, t
    <2>3. HolderOK'
      BY <1>0, <1>a, <1>d, <2>1, <2>2, SaveType
    <2> QED BY <1>0, <1>10, <2>3 DEF Unproven, RestOK, native
  <1>11. CASE Settle
    <2>1. PICK wall \in Times, jitter \in Jitters :
             LET s == Observe(mem, obs, wall, dec, Proves(mem, obs, dec), nextId, jitter)
                 fresh == s.Chain # mem.Chain
             IN  /\ s.Pending.id = nextId => nextId \in Ids
                 /\ nextId' = IF s.Pending.id = nextId THEN nextId + 1 ELSE nextId
                 /\ \/ /\ Save(s, "check")
                       /\ policy' = IF Valid(s) THEN Checkpoint(policy, s, fresh) ELSE policy
                    \/ Save(s, "free") /\ policy' = policy
      BY <1>11 DEF Settle
    <2> DEFINE s == Observe(mem, obs, wall, dec, Proves(mem, obs, dec), nextId, jitter)
               fresh == s.Chain # mem.Chain
    <2>2. nextId \in Nat \ {0}
      BY <1>0 DEF RestOK
    <2>3. s \in Records /\ s.Pending.id \in {0, mem.Pending.id, nextId}
      <3>1. Proves(mem, obs, dec) \in BOOLEAN
        BY DEF Proves
      <3>2. wall \in Nat /\ jitter \in Nat
        BY <1>a
      <3> QED BY <1>a, <2>2, <3>1, <3>2, ObserveType
    <2> HIDE DEF s
    <2>4. /\ s.Pending.id = nextId => nextId \in Ids
          /\ nextId' \in {nextId, nextId + 1}
          /\ Save(s, "check") \/ Save(s, "free")
          /\ policy' \in {policy, Checkpoint(policy, s, fresh)}
      BY <2>1 DEF s
    <2>5. Checkpoint(policy, s, fresh) \in Policies
      BY <1>a, <2>3, CheckpointType
    <2>6. HolderOK'
      BY <1>0, <1>a, <1>d, <2>3, <2>4, SaveType
    <2>7. policy' \in Policies /\ nextId' \in Nat \ {0}
      BY <1>a, <2>2, <2>4, <2>5
    <2> QED BY <1>0, <1>11, <2>6, <2>7 DEF Settle, RestOK, native
  <1>12. CASE NotDue
    <2>1. HolderOK'
      BY <1>0, <1>12, ReleaseType DEF NotDue, HolderOK, ghosts
    <2> QED BY <1>0, <1>12, <2>1 DEF NotDue, RestOK, native, ghosts
  <1>13. CASE CheckDue
    <2>1. PICK wall \in Times : mem' = Clocked(mem, wall)
      BY <1>13 DEF CheckDue
    <2>2. mem' \in Records /\ mem'.Pending = mem.Pending
      BY <1>a, <2>1, ClockedType
    <2> QED BY <1>0, <1>13, <2>2 DEF CheckDue, HolderOK, RestOK, Points, native, ghosts
  <1>14. CASE BeginAttempt
    <2>1. PICK wall \in Times :
             Save(Begin(mem, wall), IF HasPending(Begin(mem, wall)) THEN "dispatch" ELSE "free")
      BY <1>14 DEF BeginAttempt
    <2> DEFINE s == Begin(mem, wall)
               next == IF HasPending(s) THEN "dispatch" ELSE "free"
    <2>2. s \in Records /\ s.Pending.id \in {0, mem.Pending.id}
      BY <1>a, BeginType
    <2>3. next \in Points /\ Save(s, next)
      BY <1>d, <2>1
    <2> HIDE DEF s, next
    <2>4. HolderOK'
      BY <1>0, <1>a, <2>2, <2>3, SaveType
    <2> QED BY <1>0, <1>14, <2>4 DEF BeginAttempt, RestOK, native
  <1>15. CASE Prepare
    BY <1>0, <1>15 DEF Prepare, HolderOK, RestOK, Points, LedgerStates, native, ghosts
  <1>16. CASE DispatchRefused
    <2> DEFINE s == [mem EXCEPT !.Phase = "blocked", !.Pending = NoPending]
    <2>1. s \in Records /\ s.Pending.id = 0
      <3>1. mem \in Records
        BY <1>a
      <3>2. NoPending \in PendingType /\ NoPending.id = 0 /\ "blocked" \in Phases
        BY DEF NoPending, PendingType, Phases
      <3>3. s \in Records
        BY <3>1, <3>2 DEF Records
      <3>4. s.Pending = NoPending
        BY <3>1 DEF Records
      <3> QED BY <3>2, <3>3, <3>4
    <2>2. Save(s, "free")
      BY <1>16 DEF DispatchRefused
    <2> HIDE DEF s
    <2>3. HolderOK'
      BY <1>0, <1>d, <2>1, <2>2, SaveType
    <2> QED BY <1>0, <1>16, <2>3 DEF DispatchRefused, RestOK, LedgerStates, native
  <1>17. CASE Send
    <2> DEFINE x == [id |-> mem.Pending.id, failure |-> mem.Pending.failure,
                     chain |-> mem.Chain, class |-> mem.Class, at |-> mem.Pending.charged]
    <2>1. x \in Sends
      BY <1>a DEF Sends, Records, PendingType
    <2>2. sent' = Append(sent, x)
      BY <1>17 DEF Send
    <2> HIDE DEF x
    <2>3. HolderOK'
      BY <1>0, <1>17 DEF Send, HolderOK, Points
    <2>4. sent' \in Seq(Sends)
      BY <1>0, <2>1, <2>2 DEF RestOK
    <2>5. ledger' \in [Ids -> LedgerStates]
      BY <1>0, <1>17 DEF Send, RestOK, LedgerStates
    <2> QED BY <1>0, <1>17, <2>3, <2>4, <2>5 DEF Send, RestOK, native
  <1>18. CASE Reply
    <2>1. PICK wall \in Times, fits \in BOOLEAN :
             LET s == Accepted(mem, turnOf[mem.Pending.id], wall, fits)
             IN  Save(s, "free") /\ OptionalCheckpoint(s)
      BY <1>18 DEF Reply
    <2> DEFINE t == turnOf[mem.Pending.id]
               s == Accepted(mem, t, wall, fits)
    <2>2. t \in Nat
      BY <1>0, <1>18 DEF Reply, CanAccept, HasPending, RestOK, HolderOK
    <2> HIDE DEF t
    <2>3. s \in Records /\ s.Pending.id = mem.Pending.id
      <3>1. wall \in Nat
        BY <1>a
      <3> QED BY <1>a, <2>2, <3>1, AcceptedType
    <2> HIDE DEF s
    <2>4. Save(s, "free") /\ OptionalCheckpoint(s)
      BY <2>1 DEF s, t
    <2>5. HolderOK' /\ policy' \in Policies
      BY <1>0, <1>a, <1>d, <2>3, <2>4, SaveType, OptionalCheckpointType
    <2> QED BY <1>0, <1>18, <2>5 DEF Reply, RestOK, native
  <1>19. CASE ReplyUnknown
    <2>1. OutcomeUnknown(mem) \in Records /\ OutcomeUnknown(mem).Pending = mem.Pending
      BY <1>a, OutcomeUnknownType
    <2>2. HolderOK'
      BY <1>0, <1>19, <1>a, <1>d, <2>1, SaveType DEF ReplyUnknown
    <2> QED BY <1>0, <1>19, <2>2 DEF ReplyUnknown, RestOK, native
  <1> QED BY <1>1, <1>2, <1>3, <1>4, <1>5, <1>6, <1>7, <1>8, <1>9, <1>10, <1>11, <1>12,
             <1>13, <1>14, <1>15, <1>16, <1>17, <1>18, <1>19 DEF Step


\* The operations that compete for the lock, and the policy transaction.
LEMMA TypeCompeting ==
    ASSUME TypeOK, Competing PROVE TypeOK'
  <1> SUFFICES HolderOK' /\ RestOK'
    BY DEF TypeOK, HolderOK, RestOK
  <1>0. HolderOK /\ RestOK
    BY TypeParts
  <1>a. /\ mem \in Records /\ disk \in Records
        /\ mem.Pending.id \in Ids \cup {0} /\ disk.Pending.id \in Ids \cup {0}
        /\ latest \in Observations /\ policy \in Policies
        /\ incarnation \in Nat /\ Times \subseteq Nat /\ moves + 1 \in Nat
    BY <1>0, TurnRetryAssumption DEF HolderOK, RestOK
  <1>b. /\ Cancel(disk) \in Records /\ Cancel(disk).Pending.id \in Ids \cup {0}
        /\ Ended(disk) \subseteq Nat /\ Ended(mem) \subseteq Nat
    BY <1>a, CancelType, EndedType DEF NoPending
  <1>c. \A c \in SUBSET Classes : Over(c) \subseteq Nat \X Classes
    BY <1>a, OverType
  <1>1. CASE BoundaryChanged
    <2>1. HolderOK'
      BY <1>0, <1>1, <1>b, WriteType, ReleaseType DEF BoundaryChanged
    <2> QED BY <1>0, <1>1, <1>b, <2>1 DEF BoundaryChanged, RestOK, native
  <1>2. CASE ActionLock
    BY <1>0, <1>2 DEF ActionLock, Acquire, HolderOK, RestOK, Points, Ops, native, ghosts
  <1>3. CASE Act
    <2>1. PICK wall \in Times :
             LET s == IF op = "stop" THEN Stop(mem) ELSE RetryNow(mem, wall)
             IN  Save(s, "free") /\ OptionalCheckpoint(s)
      BY <1>3 DEF Act
    <2> DEFINE s == IF op = "stop" THEN Stop(mem) ELSE RetryNow(mem, wall)
    <2>2. s \in Records /\ s.Pending = mem.Pending
      BY <1>a, StopType, RetryNowType
    <2> HIDE DEF s
    <2>3. HolderOK' /\ policy' \in Policies
      BY <1>0, <1>a, <2>1, <2>2, SaveType, OptionalCheckpointType DEF s, Points
    <2> QED BY <1>0, <1>3, <1>a, <1>b, <2>3 DEF Act, Move, RestOK, native
  <1>4. CASE ManagedAdmission
    <2> DEFINE c == Cancel(disk)
               e == Enroll(c, latest)
               w == IF Uncertain(c) \/ ~SameBoundary(c) THEN c ELSE Bound(c)
    <2>1. e \in Records /\ e.Pending = c.Pending
      BY <1>a, <1>b, EnrollType
    <2>2. w \in Records /\ w.Pending = c.Pending
      BY <1>a, <1>b DEF Bound, Records
    <2>3. CASE Write(w) /\ Release /\ old' = old
      <3> HIDE DEF w
      <3>1. HolderOK'
        BY <1>0, <1>b, <2>2, <2>3, WriteType, ReleaseType
      <3> QED BY <1>0, <1>4, <1>a, <1>b, <2>3, <3>1 DEF ManagedAdmission, Move, RestOK, native
    <2>4. CASE /\ Write(e) /\ old' = old \cup Over(Retried)
               /\ op' = "admit" /\ pc' = "enroll" /\ obs' = latest /\ dec' = dec /\ mem' = e
      <3> HIDE DEF e
      <3>1. disk' \in Records /\ disk'.Pending.id \in Ids \cup {0} /\ receipts' \subseteq Nat
        BY <1>0, <1>b, <2>1, <2>4, WriteType
      <3>2. HolderOK'
        BY <1>0, <1>a, <1>b, <2>1, <2>4, <3>1 DEF HolderOK, Points, Ops
      <3>3. Over(Retried) \subseteq Nat \X Classes
        BY <1>c DEF Retried
      <3> QED BY <1>0, <1>4, <1>a, <1>b, <2>4, <3>2, <3>3 DEF ManagedAdmission, Move, RestOK, native
    <2> QED BY <1>4, <2>3, <2>4 DEF ManagedAdmission
  <1>5. CASE StartThread
    <2>1. Enroll(disk, NoObservation) \in Records
          /\ Enroll(disk, NoObservation).Pending = disk.Pending
      BY <1>a, EnrollType, Constants
    <2>2. HolderOK'
      BY <1>0, <1>5, <1>a, <2>1, WriteType, ReleaseType DEF StartThread
    <2> QED BY <1>0, <1>5, <2>2 DEF StartThread, RestOK, native
  <1>6. CASE CancelAdmission
    <2>1. HolderOK'
      BY <1>0, <1>6, <1>b, WriteType, ReleaseType DEF CancelAdmission
    <2> QED BY <1>0, <1>6, <1>a, <1>b, <2>1 DEF CancelAdmission, Move, RestOK, native
  <1>7. CASE UpdateThreadSettings
    <2> DEFINE t == latest.turn
               s == InvalidateSettings(disk, t)
    <2>1. Write(s) /\ Release
      BY <1>7 DEF UpdateThreadSettings
    <2>2. t \in Nat
      BY <1>a DEF Observations
    <2> HIDE DEF t
    <2>3. s \in Records /\ s.Pending \in {NoPending, disk.Pending}
      BY <1>a, <2>2, InvalidateType
    <2> HIDE DEF s
    <2>4. s.Pending.id \in Ids \cup {0}
      BY <1>a, <2>3 DEF NoPending
    <2>5. HolderOK'
      BY <1>0, <2>1, <2>3, <2>4, WriteType, ReleaseType
    <2> QED BY <1>0, <1>7, <1>a, <1>b, <2>5 DEF UpdateThreadSettings, Move, RestOK, native
  <1>8. CASE CancelSession
    <2> DEFINE c == Cancel(disk)
               i == c.Pending.id
    <2>1. PICK s : Write(s) /\ s \in Records /\ s.Pending.id \in Ids \cup {0}
      <3>1. CASE Write(c)
        BY <1>b, <3>1
      <3>2. CASE Write(NeverSubmitted(c))
        <4>1. NeverSubmitted(c) \in Records /\ NeverSubmitted(c).Pending.id \in Ids \cup {0}
          BY <1>b, NeverSubmittedType
        <4> QED BY <3>2, <4>1
      <3>3. CASE /\ CanAccept(c, turnOf[i])
                 /\ \E wall \in Times, fits \in BOOLEAN : Write(Accepted(c, turnOf[i], wall, fits))
        <4>1. PICK wall \in Times, fits \in BOOLEAN : Write(Accepted(c, turnOf[i], wall, fits))
          BY <3>3
        <4>2. turnOf[i] \in Nat /\ wall \in Nat
          <5>1. i \in Ids
            BY <1>b, <3>3 DEF CanAccept, HasPending
          <5> QED BY <1>0, <1>a, <5>1 DEF RestOK
        <4>3. /\ Accepted(c, turnOf[i], wall, fits) \in Records
              /\ Accepted(c, turnOf[i], wall, fits).Pending.id = i
          <5> HIDE DEF c, i
          <5>1. c \in Records /\ i = c.Pending.id
            BY <1>b DEF c, i
          <5> QED BY <4>2, <5>1, AcceptedType
        <4> QED BY <1>b, <4>1, <4>3
      <3> QED BY <1>8, <3>1, <3>2, <3>3 DEF CancelSession
    <2>2. HolderOK'
      BY <1>0, <1>8, <2>1, WriteType, ReleaseType DEF CancelSession
    <2>3. ledger' \in [Ids -> LedgerStates]
      BY <1>0, <1>8 DEF CancelSession, RestOK, LedgerStates
    <2> QED BY <1>0, <1>8, <1>a, <1>b, <2>2, <2>3 DEF CancelSession, Move, RestOK, native
  <1>9. CASE BootstrapPolicy
    <2>1. policy' \in Policies
      BY <1>9, <1>a, PreparePolicyType, Constants DEF BootstrapPolicy
    <2>2. {c \in Retried : ~Inherits(disk, c)} \in SUBSET Classes
      BY DEF Retried
    <2>3. HolderOK'
      BY <1>0, <1>9 DEF BootstrapPolicy, HolderOK, holder
    <2> QED BY <1>0, <1>9, <1>c, <2>1, <2>2, <2>3 DEF BootstrapPolicy, RestOK, native
  <1>10. CASE SetPolicy
    <2>1. PICK capacity, cybersecurity \in BOOLEAN :
             /\ policy' = PreparePolicy(policy, disk, capacity, cybersecurity, FALSE)
             /\ barred' = IF HasPending(disk) /\ Off(disk.Class, capacity, cybersecurity)
                          THEN barred \cup Ended(disk) ELSE barred
             /\ old' = old \cup Over({c \in Retried :
                             DecisionEnabled(policy'.choice, c) /\ ~DecisionEnabled(policy.choice, c)})
      BY <1>10 DEF SetPolicy
    <2>2. policy' \in Policies
      BY <1>a, <2>1, PreparePolicyType
    <2>3. {c \in Retried : DecisionEnabled(policy'.choice, c) /\ ~DecisionEnabled(policy.choice, c)}
            \in SUBSET Classes
      BY DEF Retried
    <2>4. barred' \subseteq Nat /\ old' \subseteq Nat \X Classes
      BY <1>0, <1>b, <1>c, <2>1, <2>3 DEF RestOK
    <2>5. HolderOK'
      BY <1>0, <1>10 DEF SetPolicy, HolderOK, holder
    <2> QED BY <1>0, <1>10, <1>a, <2>2, <2>4, <2>5 DEF SetPolicy, Move, RestOK, native
  <1> QED BY <1>1, <1>2, <1>3, <1>4, <1>5, <1>6, <1>7, <1>8, <1>9, <1>10 DEF Competing

\* The native thread, and an abandoned operation.
LEMMA TypeNative ==
    ASSUME TypeOK, Native \/ Abort PROVE TypeOK'
  <1> SUFFICES HolderOK' /\ RestOK'
    BY DEF TypeOK, HolderOK, RestOK
  <1>0. HolderOK /\ RestOK
    BY TypeParts
  <1>a. StartTurn => latest' \in Observations
    BY <1>0 DEF StartTurn, RestOK, Observations, Statuses, Codes
  <1>1. CASE NativeStart
    BY <1>0, <1>a, <1>1 DEF NativeStart, HolderOK, RestOK, holder, ghosts
  <1>2. CASE NativeFinish
    <2>1. PICK o \in Outcomes : latest' = [latest EXCEPT !.status = o[1], !.code = o[2]]
      BY <1>2 DEF NativeFinish
    <2>2. o[1] \in Statuses /\ o[2] \in Codes
      BY TurnRetryAssumption
    <2>3. latest' \in Observations
      BY <1>0, <2>1, <2>2 DEF RestOK, Observations
    <2> QED BY <1>0, <1>2, <2>3 DEF NativeFinish, HolderOK, RestOK, holder, ghosts
  <1>3. CASE Deliver
    BY <1>0, <1>a, <1>3 DEF Deliver, HolderOK, RestOK, LedgerStates, holder, ghosts
  <1>4. CASE Lose
    BY <1>0, <1>4 DEF Lose, HolderOK, RestOK, LedgerStates, holder, native, ghosts
  <1>5. CASE Reincarnate
    BY <1>0, <1>5 DEF Reincarnate, Move, HolderOK, RestOK, holder, native, ghosts
  <1>6. CASE Abort
    <2>1. HolderOK'
      BY <1>0, <1>6, ReleaseType DEF Abort, HolderOK, ghosts
    <2> QED BY <1>0, <1>6, <2>1 DEF Abort, RestOK, native, ghosts
  <1> QED BY <1>1, <1>2, <1>3, <1>4, <1>5, <1>6 DEF Native

\* Every reachable state is well typed, for every limit, window, backoff table
\* and bound: in particular a record never holds an attempt identity outside
\* the ones handed out.
THEOREM TypeCorrect == Spec => []TypeOK
  <1>1. Init => TypeOK
    BY TypeInit
  <1>2. TypeOK /\ [Next]_vars => TypeOK'
    <2> SUFFICES ASSUME TypeOK, [Next]_vars PROVE TypeOK'
      OBVIOUS
    <2>1. CASE UNCHANGED vars
      BY <2>1 DEF vars, holder, native, ghosts, TypeOK
    <2> QED BY <2>1, TypeStep, TypeReconcile, TypeCompeting, TypeNative DEF Next
  <1> QED BY <1>1, <1>2, PTL DEF Spec

(***************************************************************************)
(* NoLostReceipt for every value of the constants.  The invariant is about *)
(* the saved record, but what is saved next is the lock holder's copy, so  *)
(* the induction also needs what is known of `mem` at each point: that it  *)
(* still names an outstanding attempt, that there is none at the points    *)
(* where the holder may replace or drop the pending attempt, and that an   *)
(* attempt is saved as uncertain before it can leave.  The part after it   *)
(* builds AtMostOneContinuation on it.                                     *)
(***************************************************************************)

\* Points a holder reaches only once nothing is outstanding.
QuietPoints == {"decide", "allow", "observe", "enroll", "settle", "check",
                "begin", "unsubmitted", "dispatch", "send"}

Out == {"attempted", "lost", "accepted"}

HeldReceipt == pc # "free" => \A i \in Ids : Outstanding(i) => Keeps(mem, i)
Quiet       == pc \in QuietPoints => \A i \in Ids : ~Outstanding(i)
InHand      == /\ pc = "reconcile" => /\ HasPending(mem)
                                      /\ mem.Phase \in {"submitting", "reconciling", "scheduled"}
               /\ pc = "unsubmitted" => Uncertain(mem)
               /\ pc \in {"dispatch", "send", "await"} => Uncertain(mem) /\ mem = disk

Core == NoLostReceipt /\ HeldReceipt /\ Quiet /\ InHand

\* The inductive invariant.
ReceiptInv == TypeOK /\ Core

\* No attempt leaves the client in this step, and what it saves still keeps or
\* settles every outstanding one.
NothingLeaves == \A i \in Ids : ledger'[i] \in Out => ledger[i] \in Out
Accounts(s) == \A i \in Ids : Outstanding(i) => Keeps(s, i) \/ i \in Recorded(s)

\* Saving an accounting record keeps the saved and the held record accounting.
LEMMA SaveCore ==
    ASSUME Core, NEW s, NEW next, Save(s, next), NothingLeaves, Accounts(s)
    PROVE  /\ NoLostReceipt' /\ HeldReceipt'
           /\ \A i \in Ids : Outstanding(i)' => Outstanding(i)
           /\ pc' = "free" \/ (pc' = next /\ mem' = s /\ disk' = s)
  <1>1. receipts \subseteq receipts'
    BY DEF Save, Write
  <1>2. \A i \in Ids : Outstanding(i)' => Outstanding(i)
    BY <1>1 DEF NothingLeaves, Out, Outstanding
  <1>3. CASE Valid(s)
    <2>1. disk' = s /\ receipts' = receipts \cup Recorded(s)
      BY <1>3 DEF Save, Write
    <2>2. \A i \in Ids : Outstanding(i)' => Keeps(s, i)
      BY <1>2, <2>1 DEF Outstanding, Accounts
    <2>3. NoLostReceipt'
      BY <2>1, <2>2 DEF NoLostReceipt, Keeps, Uncertain, HasPending
    <2>4. pc' = "free" \/ (pc' = next /\ mem' = s)
      BY DEF Save, Release
    <2> QED BY <1>2, <2>1, <2>2, <2>3, <2>4 DEF HeldReceipt, Keeps, Uncertain, HasPending
  <1>4. CASE ~Valid(s)
    <2>1. disk' = disk /\ pc' = "free"
      BY <1>4 DEF Save, Write, Release
    <2>2. NoLostReceipt'
      BY <1>2, <2>1 DEF NoLostReceipt, Core, Keeps, Uncertain, HasPending
    <2> QED BY <1>2, <2>1, <2>2 DEF HeldReceipt
  <1> QED BY <1>3, <1>4

\* The case of an operation that saves and ends.
LEMMA FreeCore ==
    ASSUME Core, NEW s, Write(s), Release, NothingLeaves, Accounts(s)
    PROVE  Core'
  <1>1. Save(s, "free")
    BY DEF Save
  <1>2. pc' = "free"
    BY DEF Release
  <1> QED BY <1>1, <1>2, SaveCore DEF Core, Quiet, InHand, QuietPoints

\* A Save that ends the operation is a Write and a Release.
LEMMA SaveFree == ASSUME NEW s, Save(s, "free") PROVE Write(s) /\ Release
  BY DEF Save

\* An accepted receipt settles the attempt that the holder has in hand.
LEMMA AcceptedAccounts ==
    ASSUME NEW s0 \in Records, NEW turn \in Nat, NEW wall \in Nat, NEW fits \in BOOLEAN,
           turn # 0, \A i \in Ids : Outstanding(i) => Keeps(s0, i)
    PROVE  Accounts(Accepted(s0, turn, wall, fits))
  <1> DEFINE r == Accepted(s0, turn, wall, fits)
  <1>1. r.Pending.id = s0.Pending.id /\ r.Pending.result = turn
    BY AcceptedType
  <1> HIDE DEF r
  <1>2. Accounts(r)
    BY <1>1 DEF Accounts, Recorded, Keeps
  <1> QED BY <1>2 DEF r

\* An operation that takes the lock starts from the saved record.
LEMMA AcquireCore ==
    ASSUME TypeOK, Core, NEW o, NEW s, NEW next, Acquire(o, s, next),
           s.Pending = disk.Pending, s.Phase = disk.Phase,
           next \in {"reconcile", "act", "decide"},
           next = "reconcile" => Uncertain(disk),
           next = "decide" => ~Uncertain(disk)
    PROVE  Core'
  <1>1. /\ disk' = disk /\ mem' = s /\ pc' = next
        /\ ledger' = ledger /\ receipts' = receipts
    BY DEF Acquire, ghosts
  <1>2. NoLostReceipt'
    BY <1>1 DEF Core, NoLostReceipt, Outstanding, Keeps, Uncertain, HasPending
  <1>3. HeldReceipt'
    BY <1>1 DEF Core, NoLostReceipt, HeldReceipt, Outstanding, Keeps, Uncertain, HasPending
  <1>4. Quiet'
    BY <1>1 DEF Core, NoLostReceipt, Quiet, QuietPoints, Outstanding, Keeps
  <1>5. InHand'
    BY <1>1 DEF InHand, Uncertain, HasPending
  <1> QED BY <1>2, <1>3, <1>4, <1>5 DEF Core

\* The steps that leave the record, the ledger and the receipts alone and move
\* a holder between quiet points.
LEMMA QuietMove ==
    ASSUME Core, disk' = disk, ledger' = ledger, receipts' = receipts,
           pc \in QuietPoints, pc' \in {"allow", "observe", "settle"}
    PROVE  Core'
  <1>1. NoLostReceipt'
    BY DEF Core, NoLostReceipt, Outstanding, Keeps, Uncertain, HasPending
  <1>2. \A i \in Ids : ~Outstanding(i)'
    BY DEF Core, Quiet, Outstanding
  <1> QED BY <1>1, <1>2 DEF Core, HeldReceipt, Quiet, InHand

\* The lock is released without a Save.
LEMMA ReleaseCore ==
    ASSUME Core, disk' = disk, ledger' = ledger, receipts' = receipts, Release
    PROVE  Core'
  BY DEF Core, NoLostReceipt, HeldReceipt, Quiet, QuietPoints, InHand, Release,
         Outstanding, Keeps, Uncertain, HasPending

\* At a quiet point every record accounts for the outstanding attempts.
LEMMA QuietAccounts == ASSUME Core, pc \in QuietPoints, NEW s PROVE Accounts(s)
  BY DEF Core, Quiet, Accounts

\* An unchanged ledger lets nothing leave.
LEMMA SameLedger == ledger' = ledger => NothingLeaves
  BY DEF NothingLeaves

\* Retiring an attempt in the ledger lets nothing leave.
LEMMA RetiredLedger ==
    ASSUME ledger \in [Ids -> LedgerStates], NEW i,
           ledger' = [ledger EXCEPT ![i] = "absent"]
    PROVE  NothingLeaves
  BY DEF NothingLeaves, Out

\* Reconciliation.
LEMMA CoreReconcile ==
    ASSUME TypeOK, Core, Reconcile PROVE Core'
  <1>0. /\ mem \in Records /\ disk \in Records /\ Times \subseteq Nat
        /\ mem.Pending.id \in Ids \cup {0}
        /\ turnOf \in [Ids -> Nat] /\ ledger \in [Ids -> LedgerStates]
    BY TurnRetryAssumption DEF TypeOK
  <1>a. pc = "reconcile" => \A i \in Ids : Outstanding(i) => Keeps(mem, i)
    BY DEF Core, HeldReceipt
  <1>b. AfterReconcile \in {"free", "act"}
    BY DEF AfterReconcile
  <1>1. CASE ReconcileOnly
    <2>1. Bound(disk).Pending = disk.Pending /\ Bound(disk).Phase = disk.Phase
      BY <1>0 DEF Bound, Records
    <2> QED BY <1>1, <2>1, AcquireCore DEF ReconcileOnly
  <1>2. CASE ReconcileFound
    <2> DEFINE t == turnOf[mem.Pending.id]
    <2>1. PICK wall \in Times, fits \in BOOLEAN : Save(Accepted(mem, t, wall, fits), AfterReconcile)
      BY <1>2 DEF ReconcileFound
    <2>2. t \in Nat /\ t # 0 /\ wall \in Nat
      BY <1>0, <1>2 DEF ReconcileFound, CanAccept, HasPending
    <2> HIDE DEF t
    <2> DEFINE s == Accepted(mem, t, wall, fits)
    <2>3. Accounts(s)
      BY <1>0, <1>2, <1>a, <2>2, AcceptedAccounts DEF ReconcileFound
    <2> HIDE DEF s
    <2>4. NothingLeaves
      BY <1>2, SameLedger DEF ReconcileFound
    <2>5. Save(s, AfterReconcile)
      BY <2>1 DEF s
    <2> QED BY <1>b, <2>3, <2>4, <2>5, SaveCore DEF Core, Quiet, InHand, QuietPoints
  <1>3. CASE ReconcileNever
    <2> DEFINE s == NeverSubmitted(mem)
               next == AfterNever(s)
    <2>1. pc = "reconcile" /\ Save(s, next)
      BY <1>3 DEF ReconcileNever
    <2>2. \A i \in Ids : ~Outstanding(i)
      BY <1>3, <1>a DEF ReconcileNever, Outstanding, Keeps
    <2>3. Accounts(s)
      BY <2>2 DEF Accounts
    <2>4. NothingLeaves
      BY <1>0, <1>3, RetiredLedger DEF ReconcileNever
    <2>5. next = "unsubmitted" => Uncertain(s)
      <3>1. HasPending(mem) /\ mem.Phase \in {"submitting", "reconciling", "scheduled"}
        BY <2>1 DEF Core, InHand
      <3>2. HasPending(s) => s = mem
        <4>1. mem.Cancelled => s.Pending = NoPending
          BY <1>0 DEF NeverSubmitted, Records
        <4>2. ~mem.Cancelled => s = mem
          BY DEF NeverSubmitted
        <4> QED BY <4>1, <4>2 DEF HasPending, NoPending
      <3> HIDE DEF s
      <3>3. next = "unsubmitted" => HasPending(s) /\ s.Phase # "scheduled"
        BY <1>b DEF AfterNever
      <3> QED BY <3>1, <3>2, <3>3 DEF Uncertain
    <2>6. next \in {"free", "act", "begin", "unsubmitted"}
      BY <1>b DEF AfterNever
    <2> HIDE DEF s, next
    <2>7. /\ NoLostReceipt' /\ HeldReceipt'
          /\ \A i \in Ids : Outstanding(i)' => Outstanding(i)
          /\ pc' = "free" \/ (pc' = next /\ mem' = s)
      BY <2>1, <2>3, <2>4, SaveCore
    <2> QED BY <2>2, <2>5, <2>6, <2>7 DEF Core, Quiet, InHand, Uncertain, HasPending
  <1>4. CASE ReconcileUnknown
    <2> DEFINE s == OutcomeUnknown(mem)
    <2>1. pc = "reconcile" /\ Save(s, AfterReconcile)
      BY <1>4 DEF ReconcileUnknown
    <2>2. Accounts(s)
      BY <1>0, <1>a, <2>1, OutcomeUnknownType DEF Accounts
    <2> HIDE DEF s
    <2>3. NothingLeaves
      BY <1>4, SameLedger DEF ReconcileUnknown
    <2> QED BY <1>b, <2>1, <2>2, <2>3, SaveCore DEF Core, Quiet, InHand, QuietPoints
  <1> QED BY <1>1, <1>2, <1>3, <1>4 DEF Reconcile

\* The worker's own steps.
LEMMA CoreStep ==
    ASSUME TypeOK, Core, Step PROVE Core'
  <1>0. /\ mem \in Records /\ disk \in Records /\ Times \subseteq Nat
        /\ mem.Pending.id \in Ids \cup {0}
        /\ turnOf \in [Ids -> Nat] /\ ledger \in [Ids -> LedgerStates]
    BY TurnRetryAssumption DEF TypeOK
  <1>a. \A s : Save(s, "free") /\ pc \in QuietPoints /\ NothingLeaves => Core'
    BY SaveFree, FreeCore, QuietAccounts
  <1>b. pc \in {"dispatch", "send", "await"} => Uncertain(mem) /\ mem = disk
    BY DEF Core, InHand
  <1>1. CASE StepLock
    <2>1. Bound(disk).Pending = disk.Pending /\ Bound(disk).Phase = disk.Phase
      BY <1>0 DEF Bound, Records
    <2> QED BY <1>1, <2>1, AcquireCore DEF StepLock
  <1>2. CASE CheckHeld
    BY <1>2, <1>a, SameLedger DEF CheckHeld, QuietPoints
  <1>3. CASE NoCapacity
    BY <1>3, <1>a, SameLedger DEF NoCapacity, QuietPoints
  <1>4. CASE UnsubmittedDisallowed
    BY <1>4, <1>a, SameLedger DEF UnsubmittedDisallowed, QuietPoints
  <1>5. CASE UnsubmittedRenew
    <2>1. PICK wall \in Times :
             Save(ReserveUnsubmitted(mem, wall),
                  IF HasPending(ReserveUnsubmitted(mem, wall)) THEN "dispatch" ELSE "free")
      BY <1>5 DEF UnsubmittedRenew
    <2> DEFINE s == ReserveUnsubmitted(mem, wall)
               next == IF HasPending(s) THEN "dispatch" ELSE "free"
    <2>2. pc = "unsubmitted" /\ pc \in QuietPoints /\ NothingLeaves
      BY <1>5, SameLedger DEF UnsubmittedRenew, QuietPoints
    <2>3. next = "dispatch" => Uncertain(s)
      <3>1. HasPending(s) => s.Phase = mem.Phase
        BY <1>0, ReserveType
      <3>2. Uncertain(mem)
        BY <2>2 DEF Core, InHand
      <3> QED BY <3>1, <3>2 DEF Uncertain
    <2>4. next \in {"dispatch", "free"} /\ Save(s, next)
      BY <2>1
    <2> HIDE DEF s, next
    <2>5. /\ NoLostReceipt' /\ HeldReceipt'
          /\ \A i \in Ids : Outstanding(i)' => Outstanding(i)
          /\ pc' = "free" \/ (pc' = next /\ mem' = s /\ disk' = s)
      BY <2>2, <2>4, QuietAccounts, SaveCore
    <2>6. \A i \in Ids : ~Outstanding(i)
      BY <2>2 DEF Core, Quiet
    <2> QED BY <2>3, <2>4, <2>5, <2>6 DEF Core, Quiet, InHand, Uncertain, HasPending
  <1>6. CASE Decide
    <2>1. ledger' = ledger /\ receipts' = receipts /\ pc = "decide" /\ pc \in QuietPoints
      BY <1>6 DEF Decide, ghosts, QuietPoints
    <2>2. CASE disk' = disk /\ Release
      BY <2>1, <2>2, ReleaseCore
    <2>3. CASE disk' = disk /\ pc' = "allow"
      BY <2>1, <2>3, QuietMove
    <2> QED BY <1>6, <2>2, <2>3 DEF Decide
  <1>7. CASE AllowOrCancel
    <2>1. NothingLeaves /\ pc \in QuietPoints /\ ledger' = ledger
      BY <1>7, SameLedger DEF AllowOrCancel, QuietPoints
    <2>2. CASE Save(CancelKeepingPending(mem), "observe")
      <3> DEFINE s == CancelKeepingPending(mem)
      <3> HIDE DEF s
      <3>1. /\ NoLostReceipt' /\ HeldReceipt'
            /\ \A i \in Ids : Outstanding(i)' => Outstanding(i)
            /\ pc' \in {"free", "observe"}
        BY <2>1, <2>2, QuietAccounts, SaveCore DEF s
      <3>2. \A i \in Ids : ~Outstanding(i)
        BY <2>1 DEF Core, Quiet
      <3> QED BY <3>1, <3>2 DEF Core, Quiet, InHand
    <2>3. CASE pc' = "observe" /\ disk' = disk /\ receipts' = receipts
      BY <2>1, <2>3, QuietMove
    <2> QED BY <1>7, <2>2, <2>3 DEF AllowOrCancel
  <1>8. CASE ReadNative
    <2>1. NothingLeaves /\ pc \in QuietPoints /\ ledger' = ledger
      BY <1>8, SameLedger DEF ReadNative, QuietPoints
    <2>2. CASE mem.Enrolled
      BY <1>8, <2>1, <2>2, QuietMove DEF ReadNative
    <2>3. CASE ~mem.Enrolled
      <3>1. Write(Enroll(mem, latest)) /\ pc' = "enroll"
        BY <1>8, <2>3 DEF ReadNative
      <3>2. \A i \in Ids : ~Outstanding(i)'
        BY <2>1, <3>1 DEF Core, Quiet, Outstanding, Write
      <3> QED BY <3>1, <3>2 DEF Core, NoLostReceipt, HeldReceipt, Quiet, InHand
    <2> QED BY <2>2, <2>3
  <1>9. CASE EnrollAgain
    BY <1>9, <1>a, SameLedger DEF EnrollAgain, QuietPoints
  <1>10. CASE Unproven
    BY <1>10, <1>a, SameLedger DEF Unproven, QuietPoints
  <1>11. CASE Settle
    <2>1. PICK s : Save(s, "check") \/ Save(s, "free")
      BY <1>11 DEF Settle
    <2>2. NothingLeaves /\ pc \in QuietPoints
      BY <1>11, SameLedger DEF Settle, QuietPoints
    <2>3. CASE Save(s, "free")
      BY <1>a, <2>2, <2>3
    <2>4. CASE Save(s, "check")
      <3>1. /\ NoLostReceipt' /\ HeldReceipt'
            /\ \A i \in Ids : Outstanding(i)' => Outstanding(i)
            /\ pc' \in {"free", "check"}
        BY <2>2, <2>4, QuietAccounts, SaveCore
      <3>2. \A i \in Ids : ~Outstanding(i)
        BY <2>2 DEF Core, Quiet
      <3> QED BY <3>1, <3>2 DEF Core, Quiet, InHand
    <2> QED BY <2>1, <2>3, <2>4
  <1>12. CASE NotDue
    BY <1>12, ReleaseCore DEF NotDue, ghosts
  <1>13. CASE CheckDue
    <2>1. PICK wall \in Times : Due(mem, wall, dec) /\ mem' = Clocked(mem, wall)
      BY <1>13 DEF CheckDue
    <2>2. /\ pc = "check" /\ pc \in QuietPoints /\ pc' = "reconcile"
          /\ disk' = disk /\ ledger' = ledger /\ receipts' = receipts
      BY <1>13 DEF CheckDue, QuietPoints, ghosts
    <2>3. HasPending(mem) /\ mem.Phase = "scheduled"
      BY <2>1 DEF Due
    <2>4. mem'.Pending = mem.Pending /\ mem'.Phase = mem.Phase
      BY <1>0, <2>1, ClockedType
    <2>5. \A i \in Ids : ~Outstanding(i)'
      BY <2>2 DEF Core, Quiet, Outstanding
    <2>6. InHand'
      BY <2>2, <2>3, <2>4 DEF InHand, HasPending
    <2> QED BY <2>2, <2>5, <2>6 DEF Core, NoLostReceipt, HeldReceipt, Quiet
  <1>14. CASE BeginAttempt
    <2>1. PICK wall \in Times :
             Save(Begin(mem, wall), IF HasPending(Begin(mem, wall)) THEN "dispatch" ELSE "free")
      BY <1>14 DEF BeginAttempt
    <2> DEFINE s == Begin(mem, wall)
               next == IF HasPending(s) THEN "dispatch" ELSE "free"
    <2>2. pc \in QuietPoints /\ NothingLeaves
      BY <1>14, SameLedger DEF BeginAttempt, QuietPoints
    <2>3. next = "dispatch" => Uncertain(s)
      BY <1>0, BeginType DEF Uncertain
    <2>4. next \in {"dispatch", "free"} /\ Save(s, next)
      BY <2>1
    <2> HIDE DEF s, next
    <2>5. /\ NoLostReceipt' /\ HeldReceipt'
          /\ \A i \in Ids : Outstanding(i)' => Outstanding(i)
          /\ pc' = "free" \/ (pc' = next /\ mem' = s /\ disk' = s)
      BY <2>2, <2>4, QuietAccounts, SaveCore
    <2>6. \A i \in Ids : ~Outstanding(i)
      BY <2>2 DEF Core, Quiet
    <2> QED BY <2>3, <2>4, <2>5, <2>6 DEF Core, Quiet, InHand, Uncertain, HasPending
  <1>15. CASE Prepare
    <2>1. /\ pc = "dispatch" /\ pc' = "send" /\ pc \in QuietPoints
          /\ disk' = disk /\ mem' = mem /\ receipts' = receipts
      BY <1>15 DEF Prepare, QuietPoints, ghosts
    <2>2. \A i \in Ids : ~Outstanding(i)'
      BY <1>0, <1>15, <2>1 DEF Prepare, Core, Quiet, Outstanding
    <2>3. InHand'
      BY <1>b, <2>1 DEF InHand, Uncertain, HasPending
    <2> QED BY <2>2, <2>3 DEF Core, NoLostReceipt, HeldReceipt, Quiet
  <1>16. CASE DispatchRefused
    <2>1. NothingLeaves /\ pc \in QuietPoints
      BY <1>0, <1>16, RetiredLedger DEF DispatchRefused, QuietPoints
    <2> QED BY <1>16, <1>a, <2>1 DEF DispatchRefused
  <1>17. CASE Send
    <2>1. /\ pc = "send" /\ pc' = "await" /\ pc \in QuietPoints
          /\ disk' = disk /\ mem' = mem /\ receipts' = receipts
          /\ ledger' = [ledger EXCEPT ![mem.Pending.id] = "attempted"]
      BY <1>17 DEF Send, QuietPoints
    <2>2. \A i \in Ids : Outstanding(i)' => i = mem.Pending.id
      BY <1>0, <2>1 DEF Core, Quiet, Outstanding
    <2>3. Uncertain(mem) /\ mem = disk
      BY <1>b, <2>1
    <2>4. \A i \in Ids : Outstanding(i)' => Keeps(mem, i)
      BY <2>2, <2>3 DEF Keeps
    <2>5. NoLostReceipt' /\ HeldReceipt'
      BY <2>1, <2>3, <2>4 DEF NoLostReceipt, HeldReceipt, Keeps, Uncertain, HasPending
    <2> QED BY <2>1, <2>3, <2>5 DEF Core, Quiet, QuietPoints, InHand, Uncertain, HasPending
  <1>18. CASE Reply
    <2> DEFINE t == turnOf[mem.Pending.id]
    <2>1. PICK wall \in Times, fits \in BOOLEAN : Save(Accepted(mem, t, wall, fits), "free")
      BY <1>18 DEF Reply
    <2>2. t \in Nat /\ t # 0 /\ wall \in Nat
      BY <1>0, <1>18 DEF Reply, CanAccept, HasPending
    <2> HIDE DEF t
    <2> DEFINE s == Accepted(mem, t, wall, fits)
    <2>3. \A i \in Ids : Outstanding(i) => Keeps(mem, i)
      BY <1>18 DEF Reply, Core, HeldReceipt
    <2>4. Accounts(s)
      BY <1>0, <2>2, <2>3, AcceptedAccounts
    <2> HIDE DEF s
    <2>5. NothingLeaves
      BY <1>18, SameLedger DEF Reply
    <2> QED BY <2>1, <2>4, <2>5, SaveFree, FreeCore DEF s
  <1>19. CASE ReplyUnknown
    <2> DEFINE s == OutcomeUnknown(mem)
    <2>1. Accounts(s)
      BY <1>0, <1>19, OutcomeUnknownType DEF Accounts, ReplyUnknown, Core, HeldReceipt
    <2>2. NothingLeaves /\ Save(s, "free")
      BY <1>19, SameLedger DEF ReplyUnknown
    <2> HIDE DEF s
    <2> QED BY <2>1, <2>2, SaveFree, FreeCore
  <1> QED BY <1>1, <1>2, <1>3, <1>4, <1>5, <1>6, <1>7, <1>8, <1>9, <1>10, <1>11, <1>12,
             <1>13, <1>14, <1>15, <1>16, <1>17, <1>18, <1>19 DEF Step

\* The operations that compete for the lock.
LEMMA CoreCompeting ==
    ASSUME TypeOK, Core, Competing PROVE Core'
  <1>0. /\ mem \in Records /\ disk \in Records /\ Times \subseteq Nat
        /\ disk.Pending.id \in Ids \cup {0} /\ latest \in Observations
        /\ turnOf \in [Ids -> Nat] /\ ledger \in [Ids -> LedgerStates]
    BY TurnRetryAssumption DEF TypeOK
  <1>a. Accounts(disk)
    BY DEF Core, NoLostReceipt, Accounts
  <1>b. /\ Cancel(disk) \in Records
        /\ \A i \in Ids : Outstanding(i) => Keeps(Cancel(disk), i)
    BY <1>0, CancelType DEF Core, NoLostReceipt
  <1>c. Accounts(Cancel(disk))
    BY <1>b DEF Accounts
  <1>1. CASE BoundaryChanged
    BY <1>1, <1>c, FreeCore, SameLedger DEF BoundaryChanged
  <1>2. CASE ActionLock
    BY <1>2, AcquireCore DEF ActionLock
  <1>3. CASE Act
    <2>1. PICK wall \in Times :
             Save(IF op = "stop" THEN Stop(mem) ELSE RetryNow(mem, wall), "free")
      BY <1>3 DEF Act
    <2> DEFINE s == IF op = "stop" THEN Stop(mem) ELSE RetryNow(mem, wall)
    <2>2. \A i : Keeps(mem, i) => Keeps(Stop(mem), i)
      BY <1>0, StopType
    <2>3. \A i : Keeps(mem, i) => Keeps(RetryNow(mem, wall), i)
      <3>1. RetryNow(mem, wall).Pending = mem.Pending /\ RetryNow(mem, wall).Phase = mem.Phase
        BY <1>0, RetryNowType
      <3> QED BY <3>1 DEF Keeps, Uncertain, HasPending
    <2>4. Accounts(s)
      BY <1>3, <2>2, <2>3 DEF Act, Core, HeldReceipt, Accounts
    <2> HIDE DEF s
    <2>5. Write(s) /\ Release
      BY <2>1, SaveFree DEF s
    <2>6. NothingLeaves
      BY <1>3, SameLedger DEF Act
    <2> QED BY <2>4, <2>5, <2>6, FreeCore
  <1>4. CASE ManagedAdmission
    <2> DEFINE c == Cancel(disk)
               w == IF Uncertain(c) \/ ~SameBoundary(c) THEN c ELSE Bound(c)
               e == Enroll(c, latest)
    <2>1. NothingLeaves /\ ledger' = ledger
      BY <1>4, SameLedger DEF ManagedAdmission
    <2>2. CASE Write(w) /\ Release
      <3>1. w.Pending = c.Pending /\ w.Phase = c.Phase
        BY <1>b DEF Bound, Records
      <3>2. Accounts(w)
        BY <1>b, <3>1 DEF Accounts, Keeps, Uncertain, HasPending
      <3> HIDE DEF w
      <3> QED BY <2>1, <2>2, <3>2, FreeCore
    <2>3. CASE Write(e) /\ pc' = "enroll" /\ ~Uncertain(c)
      <3>1. \A i \in Ids : ~Outstanding(i)
        BY <1>b, <2>3 DEF Keeps
      <3>2. \A i \in Ids : ~Outstanding(i)'
        BY <2>1, <2>3, <3>1 DEF Outstanding, Write
      <3> QED BY <2>3, <3>2 DEF Core, NoLostReceipt, HeldReceipt, Quiet, InHand
    <2> QED BY <1>4, <2>2, <2>3 DEF ManagedAdmission
  <1>5. CASE StartThread
    <2> DEFINE e == Enroll(disk, NoObservation)
    <2>1. e.Pending = disk.Pending /\ e.Phase = disk.Phase
      BY <1>0 DEF Enroll, Records
    <2>2. Accounts(e)
      BY <2>1 DEF Core, NoLostReceipt, Accounts, Keeps, Uncertain, HasPending
    <2>3. NothingLeaves /\ Write(e) /\ Release
      BY <1>5, SameLedger DEF StartThread
    <2> HIDE DEF e
    <2> QED BY <2>2, <2>3, FreeCore
  <1>6. CASE CancelAdmission
    BY <1>6, <1>c, FreeCore, SameLedger DEF CancelAdmission
  <1>7. CASE UpdateThreadSettings
    <2> DEFINE t == latest.turn
               s == InvalidateSettings(disk, t)
    <2>1. Write(s) /\ Release /\ NothingLeaves
      BY <1>7, SameLedger DEF UpdateThreadSettings
    <2>2. t \in Nat
      BY <1>0 DEF Observations
    <2> HIDE DEF t
    <2>3. \A i : Keeps(disk, i) => Keeps(s, i)
      BY <1>0, <2>2, InvalidateType
    <2> HIDE DEF s
    <2>4. Accounts(s)
      BY <2>3 DEF Core, NoLostReceipt, Accounts
    <2> QED BY <2>1, <2>4, FreeCore
  <1>8. CASE CancelSession
    <2> DEFINE c == Cancel(disk)
               i == c.Pending.id
    <2>1. Release /\ NothingLeaves
      BY <1>0, <1>8, RetiredLedger, SameLedger DEF CancelSession
    <2>2. CASE Write(c)
      BY <1>c, <2>1, <2>2, FreeCore
    <2>3. CASE ledger[i] \in {"absent", "prepared"} /\ Write(NeverSubmitted(c))
      <3>1. Accounts(NeverSubmitted(c))
        BY <1>b, <2>3 DEF Accounts, Outstanding, Keeps
      <3> QED BY <2>1, <2>3, <3>1, FreeCore
    <2>4. CASE /\ CanAccept(c, turnOf[i])
               /\ \E wall \in Times, fits \in BOOLEAN : Write(Accepted(c, turnOf[i], wall, fits))
      <3> DEFINE t == turnOf[i]
      <3>1. PICK wall \in Times, fits \in BOOLEAN : Write(Accepted(c, t, wall, fits))
        BY <2>4
      <3>2. i \in Ids
        <4>1. c.Pending \in {NoPending, disk.Pending}
          BY <1>0, CancelType
        <4> QED BY <1>0, <2>4, <4>1 DEF CanAccept, HasPending, NoPending
      <3>3. t \in Nat /\ t # 0 /\ wall \in Nat
        BY <1>0, <2>4, <3>2 DEF CanAccept
      <3>4. c \in Records /\ \A j \in Ids : Outstanding(j) => Keeps(c, j)
        BY <1>b
      <3>5. Write(Accepted(c, t, wall, fits))
        BY <3>1
      <3> HIDE DEF c, t, i
      <3>6. Accounts(Accepted(c, t, wall, fits))
        BY <3>3, <3>4, AcceptedAccounts
      <3> QED BY <2>1, <3>5, <3>6, FreeCore
    <2> QED BY <1>8, <2>2, <2>3, <2>4 DEF CancelSession
  <1>9. CASE BootstrapPolicy \/ SetPolicy
    BY <1>9 DEF BootstrapPolicy, SetPolicy, holder, Core, NoLostReceipt, HeldReceipt, Quiet,
         InHand, Outstanding, Keeps, Uncertain, HasPending
  <1> QED BY <1>1, <1>2, <1>3, <1>4, <1>5, <1>6, <1>7, <1>8, <1>9 DEF Competing

\* The native thread: a call in flight arrives or is lost, nothing else.
LEMMA CoreNative ==
    ASSUME TypeOK, Core, Native \/ Abort PROVE Core'
  <1>1. CASE Abort
    BY <1>1, ReleaseCore DEF Abort, ghosts
  <1>2. CASE Native
    <2>0. ledger \in [Ids -> LedgerStates]
      BY DEF TypeOK
    <2>1. UNCHANGED <<disk, mem, pc, receipts>>
      BY <1>2 DEF Native, NativeStart, NativeFinish, Deliver, Lose, Reincarnate, holder, ghosts
    <2>2. \A i \in Ids : ledger'[i] \in Out <=> ledger[i] \in Out
      BY <1>2, <2>0 DEF Native, NativeStart, NativeFinish, Deliver, Lose, Reincarnate, Out
    <2>3. \A i \in Ids : Outstanding(i)' <=> Outstanding(i)
      BY <2>1, <2>2 DEF Outstanding, Out
    <2> QED BY <2>1, <2>3 DEF Core, NoLostReceipt, HeldReceipt, Quiet, InHand, Keeps,
               Uncertain, HasPending
  <1> QED BY <1>1, <1>2

\* The invariant is inductive.
LEMMA ReceiptStep ==
    ASSUME ReceiptInv, [Next]_vars PROVE ReceiptInv'
  <1>1. TypeOK /\ Core
    BY DEF ReceiptInv
  <1>2. CASE UNCHANGED vars
    BY <1>1, <1>2 DEF vars, holder, native, ghosts, TypeOK, ReceiptInv, Core, NoLostReceipt,
       HeldReceipt, Quiet, InHand, Outstanding, Keeps, Uncertain, HasPending
  <1>3. CASE Next
    <2>1. TypeOK'
      BY <1>1, <1>3, TypeStep, TypeReconcile, TypeCompeting, TypeNative DEF Next
    <2>2. Core'
      BY <1>1, <1>3, CoreStep, CoreReconcile, CoreCompeting, CoreNative DEF Next
    <2> QED BY <2>1, <2>2 DEF ReceiptInv
  <1> QED BY <1>2, <1>3

\* An attempt that may have reached the native thread is never forgotten: it is
\* settled by a saved receipt or still the record's uncertain attempt, whatever
\* was cancelled, stopped, reconfigured, superseded or crashed since.  Cancel,
\* Stop, InvalidateSettings and CancelSession are the operations that could
\* drop it, and Observe, Begin and Enroll the ones that could replace it.
THEOREM ReceiptsKept == Spec => []NoLostReceipt
  <1>1. Init => ReceiptInv
    <2> SUFFICES ASSUME Init PROVE ReceiptInv
      OBVIOUS
    <2>1. TypeOK
      BY TypeInit
    <2> QED BY <2>1 DEF Init, ReceiptInv, Core, NoLostReceipt, HeldReceipt, Quiet, QuietPoints,
               InHand, Outstanding
  <1>2. ReceiptInv /\ [Next]_vars => ReceiptInv'
    BY ReceiptStep
  <1>3. ReceiptInv => NoLostReceipt
    BY DEF ReceiptInv, Core
  <1> QED BY <1>1, <1>2, <1>3, PTL DEF Spec

----------------------------------------------------------------------------
(***************************************************************************)
(* One continuation per failure.  A call is made for the pending attempt's *)
(* failure, so the induction follows that failure through the record: no   *)
(* call was ever made for it under another identity (Linked), and none     *)
(* under its own while the holder may still dispatch it (Unsent).  What    *)
(* makes a newly scheduled failure new is the order of things: when the    *)
(* holder reads the native thread every earlier call is settled, a settled *)
(* call has started a turn of its own, and that turn came after the        *)
(* failure it continues (Answered, Settled, Ahead).                        *)
(***************************************************************************)

\* What is known of a pending attempt, given the calls made, the submission
\* ledger and the number of the next turn.
Linked(p, calls, book, bound) ==
    /\ p.result # 0 => p.id \in Ids /\ book[p.id] = "accepted"
    /\ p.id # 0 => /\ p.failure < bound
                   /\ \A n \in DOMAIN calls : calls[n].failure = p.failure => calls[n].id = p.id

Tied     == /\ Linked(disk.Pending, sent, ledger, nextTurn)
            /\ Linked(mem.Pending, sent, ledger, nextTurn)
Answered == \A n \in DOMAIN sent :
               /\ sent[n].id \in Ids /\ ledger[sent[n].id] \in Out
               /\ sent[n].failure < nextTurn
               /\ ledger[sent[n].id] = "accepted" => sent[n].failure < latest.turn
Settled  == \A i \in receipts : i \in Ids /\ ledger[i] = "accepted"
Unsent   == pc \in {"begin", "unsubmitted", "dispatch", "send"} =>
               mem.Pending.id \in Ids /\ ledger[mem.Pending.id] \notin Out
Ahead    == pc = "settle" => \A n \in DOMAIN sent : sent[n].failure < obs.turn
Dated    == obs.turn < nextTurn /\ latest.turn < nextTurn

\* The inductive invariant, on top of ReceiptInv.
OnceInv == Tied /\ Answered /\ Settled /\ Unsent /\ Ahead /\ Dated /\ AtMostOneContinuation

\* What is left of an attempt is linked as it was.
LEMMA LinkedKept ==
    ASSUME NEW p, NEW q, NEW calls, NEW book, NEW bound, Linked(p, calls, book, bound), Kept(p, q)
    PROVE  Linked(q, calls, book, bound)
  BY DEF Linked, Kept

\* So is an attempt that gets the result the ledger knows of.
LEMMA LinkedAccepted ==
    ASSUME NEW p, NEW q, NEW calls, NEW book, NEW bound, Linked(p, calls, book, bound),
           q.id = p.id, q.failure = p.failure, p.id \in Ids, book[p.id] = "accepted"
    PROVE  Linked(q, calls, book, bound)
  BY DEF Linked

\* An attempt for a failure that no call was made for is linked.
LEMMA LinkedFresh ==
    ASSUME NEW q, NEW calls, NEW book, NEW bound, NEW id, NEW turn,
           Fresh(q, id, turn), turn < bound, \A n \in DOMAIN calls : calls[n].failure # turn
    PROVE  Linked(q, calls, book, bound)
  BY DEF Linked, Fresh

\* Links outlast what a ledger may learn and turns that start.
LEMMA LinkedLater ==
    ASSUME NEW p \in PendingType, NEW calls, NEW book, NEW bound \in Nat,
           Linked(p, calls, book, bound), NEW later, NEW more \in Nat, bound <= more,
           \A i \in Ids : book[i] = "accepted" => later[i] = "accepted"
    PROVE  Linked(p, calls, later, more)
  <1>1. p.failure \in Nat
    BY DEF PendingType
  <1> QED BY <1>1 DEF Linked

\* The ledger's entries of attempts that have left stay as they are.
Steady == \A i \in Ids : ledger[i] \in Out => ledger'[i] = ledger[i]

LEMMA SteadyLinks ==
    ASSUME NEW p, Steady, Linked(p, sent, ledger, nextTurn)
    PROVE  Linked(p, sent, ledger', nextTurn)
  BY DEF Linked, Steady, Out

\* A step that makes no call, while the native thread stands still: what it
\* saves and holds must be linked, and what it records have a result.
LEMMA HoldOnce ==
    ASSUME TypeOK, OnceInv, Steady, sent' = sent, latest' = latest, nextTurn' = nextTurn,
           Linked(disk'.Pending, sent, ledger, nextTurn),
           Linked(mem'.Pending, sent, ledger, nextTurn),
           \A i \in receipts' : i \in receipts \/ (disk'.Pending.result # 0 /\ i = disk'.Pending.id),
           obs' \in {obs, latest, NoObservation},
           Unsent', Ahead'
    PROVE  OnceInv'
  <1>1. Tied'
    BY SteadyLinks DEF Tied
  <1>2. Answered'
    BY DEF OnceInv, Answered, Steady
  <1>3. Settled'
    BY DEF OnceInv, Settled, Steady, Linked, Out
  <1>4. Dated'
    BY DEF OnceInv, Dated, TypeOK, NoObservation
  <1>5. AtMostOneContinuation'
    BY DEF OnceInv, AtMostOneContinuation
  <1> QED BY <1>1, <1>2, <1>3, <1>4, <1>5 DEF OnceInv

\* The same for a step that saves a linked record.
LEMMA SaveOnce ==
    ASSUME TypeOK, OnceInv, Steady, sent' = sent, latest' = latest, nextTurn' = nextTurn,
           NEW s, NEW next, Save(s, next), Linked(s.Pending, sent, ledger, nextTurn),
           next \in {"free", "act", "observe", "check", "begin", "unsubmitted", "dispatch"},
           next \in {"begin", "unsubmitted", "dispatch"} =>
              s.Pending.id \in Ids /\ ledger'[s.Pending.id] \notin Out
    PROVE  OnceInv'
  <1>1. disk' \in {s, disk} /\ Linked(disk'.Pending, sent, ledger, nextTurn)
    BY DEF Save, Write, OnceInv, Tied
  <1>2. \/ pc' = "free" /\ mem' = disk' /\ obs' = NoObservation
        \/ pc' = next /\ mem' = s /\ obs' = obs
    BY DEF Save, Release
  <1>3. Linked(mem'.Pending, sent, ledger, nextTurn)
    BY <1>1, <1>2
  <1>4. \A i \in receipts' : i \in receipts \/ (disk'.Pending.result # 0 /\ i = disk'.Pending.id)
    <2>1. CASE Valid(s)
      BY <2>1 DEF Save, Write, Recorded
    <2>2. CASE ~Valid(s)
      BY <2>2 DEF Save, Write
    <2> QED BY <2>1, <2>2
  <1>5. Unsent' /\ Ahead'
    BY <1>2 DEF Unsent, Ahead
  <1> QED BY <1>1, <1>2, <1>3, <1>4, <1>5, HoldOnce

\* A Write followed by a Release is a Save that ends the operation.
LEMMA FreeOnce ==
    ASSUME TypeOK, OnceInv, Steady, sent' = sent, latest' = latest, nextTurn' = nextTurn,
           NEW s, Write(s) /\ Release, Linked(s.Pending, sent, ledger, nextTurn)
    PROVE  OnceInv'
  <1>1. Save(s, "free")
    BY DEF Save
  <1> QED BY <1>1, SaveOnce

\* A step that saves nothing and holds the attempt it held or the saved one.
LEMMA MoveOnce ==
    ASSUME TypeOK, OnceInv, Steady, sent' = sent, latest' = latest, nextTurn' = nextTurn,
           disk' = disk, receipts' = receipts, mem'.Pending \in {mem.Pending, disk.Pending},
           obs' \in {obs, latest, NoObservation}, Unsent', Ahead'
    PROVE  OnceInv'
  <1>1. Linked(disk'.Pending, sent, ledger, nextTurn) /\ Linked(mem'.Pending, sent, ledger, nextTurn)
    BY DEF OnceInv, Tied
  <1> QED BY <1>1, HoldOnce

\* An unchanged ledger is steady, and so is one in which an attempt that has
\* not left is entered or retired.
LEMMA SameSteady == ledger' = ledger => Steady
  BY DEF Steady

LEMMA EnteredSteady ==
    ASSUME ledger \in [Ids -> LedgerStates], NEW i \in Ids, NEW x, ledger[i] \notin Out,
           ledger' = [ledger EXCEPT ![i] = x]
    PROVE  Steady
  BY DEF Steady

\* Reconciliation: a receipt is saved only for an attempt the ledger accepted,
\* and an attempt goes back to dispatch only if it never left.
LEMMA OnceReconcile ==
    ASSUME TypeOK, OnceInv, Reconcile PROVE OnceInv'
  <1>0. /\ mem \in Records /\ disk \in Records /\ Times \subseteq Nat
        /\ mem.Pending.id \in Ids \cup {0}
        /\ turnOf \in [Ids -> Nat] /\ ledger \in [Ids -> LedgerStates]
    BY TurnRetryAssumption DEF TypeOK
  <1>a. Linked(mem.Pending, sent, ledger, nextTurn)
    BY DEF OnceInv, Tied
  <1>b. AfterReconcile \in {"free", "act"}
    BY DEF AfterReconcile
  <1>1. CASE ReconcileOnly
    <2>1. Bound(disk).Pending = disk.Pending
      BY <1>0 DEF Bound, Records
    <2>2. /\ sent' = sent /\ latest' = latest /\ nextTurn' = nextTurn /\ disk' = disk
          /\ receipts' = receipts /\ ledger' = ledger /\ obs' = obs
          /\ mem'.Pending = disk.Pending /\ pc' = "reconcile"
      BY <1>1, <2>1 DEF ReconcileOnly, Acquire, native, ghosts
    <2>3. Unsent' /\ Ahead'
      BY <2>2 DEF Unsent, Ahead
    <2> QED BY <2>2, <2>3, MoveOnce, SameSteady
  <1>2. CASE ReconcileFound
    <2> DEFINE t == turnOf[mem.Pending.id]
    <2>1. PICK wall \in Times, fits \in BOOLEAN : Save(Accepted(mem, t, wall, fits), AfterReconcile)
      BY <1>2 DEF ReconcileFound
    <2>2. /\ t \in Nat /\ wall \in Nat
          /\ mem.Pending.id \in Ids /\ ledger[mem.Pending.id] = "accepted"
      BY <1>0, <1>2 DEF ReconcileFound, CanAccept, HasPending
    <2> HIDE DEF t
    <2> DEFINE s == Accepted(mem, t, wall, fits)
    <2>3. s.Pending.id = mem.Pending.id /\ s.Pending.failure = mem.Pending.failure
      <3>1. mem \in Records /\ t \in Nat /\ wall \in Nat /\ fits \in BOOLEAN
        BY <1>0, <2>2
      <3> QED BY ONLY <3>1, AcceptedType
    <2>4. Save(s, AfterReconcile)
      BY <2>1
    <2> HIDE DEF s
    <2>5. Linked(s.Pending, sent, ledger, nextTurn)
      BY <1>a, <2>2, <2>3, LinkedAccepted
    <2>6. /\ sent' = sent /\ latest' = latest /\ nextTurn' = nextTurn /\ Steady
      BY <1>2, SameSteady DEF ReconcileFound, native
    <2> QED BY <1>b, <2>4, <2>5, <2>6, SaveOnce
  <1>3. CASE ReconcileNever
    <2> DEFINE s == NeverSubmitted(mem)
               next == AfterNever(s)
    <2>1. Save(s, next)
      BY <1>3 DEF ReconcileNever
    <2>2. next \in {"free", "act", "begin", "unsubmitted"}
      BY <1>b DEF AfterNever
    <2>3. next \in {"begin", "unsubmitted"} => HasPending(s)
      <3> HIDE DEF s
      <3> QED BY <1>b DEF AfterNever
    <2>4. HasPending(s) => s = mem
      BY <1>0, NeverSubmittedType
    <2>5. Kept(mem.Pending, s.Pending)
      BY <1>0 DEF NeverSubmitted, Records, NoPending, Kept
    <2>6. /\ sent' = sent /\ latest' = latest /\ nextTurn' = nextTurn
          /\ ledger[mem.Pending.id] \notin Out
          /\ ledger' = [ledger EXCEPT ![mem.Pending.id] = "absent"]
      BY <1>3 DEF ReconcileNever, native, Out
    <2>7. Steady
      BY <1>0, <2>6 DEF Steady
    <2>8. HasPending(s) => s.Pending.id \in Ids /\ ledger'[s.Pending.id] \notin Out
      BY <1>0, <2>4, <2>6 DEF HasPending, Out
    <2> HIDE DEF s, next
    <2>9. Linked(s.Pending, sent, ledger, nextTurn)
      BY <1>a, <2>5, LinkedKept
    <2> QED BY <2>1, <2>2, <2>3, <2>6, <2>7, <2>8, <2>9, SaveOnce
  <1>4. CASE ReconcileUnknown
    <2> DEFINE s == OutcomeUnknown(mem)
    <2>1. s.Pending = mem.Pending
      BY <1>0, OutcomeUnknownType
    <2>2. Save(s, AfterReconcile) /\ sent' = sent /\ latest' = latest /\ nextTurn' = nextTurn /\ Steady
      BY <1>4, SameSteady DEF ReconcileUnknown, native
    <2> HIDE DEF s
    <2> QED BY <1>a, <1>b, <2>1, <2>2, SaveOnce
  <1> QED BY <1>1, <1>2, <1>3, <1>4 DEF Reconcile

\* The call itself: the failure it continues has had none.
LEMMA OnceSend ==
    ASSUME TypeOK, Core, OnceInv, Send PROVE OnceInv'
  <1> DEFINE p == mem.Pending
             k == Len(sent) + 1
             x == [id |-> p.id, failure |-> p.failure, chain |-> mem.Chain,
                   class |-> mem.Class, at |-> p.charged]
  <1>0. ledger \in [Ids -> LedgerStates] /\ sent \in Seq(Sends)
    BY DEF TypeOK
  <1>1. /\ pc = "send" /\ pc' = "await" /\ disk' = disk /\ mem' = mem /\ receipts' = receipts
        /\ latest' = latest /\ nextTurn' = nextTurn /\ obs' = obs
        /\ ledger' = [ledger EXCEPT ![p.id] = "attempted"] /\ sent' = Append(sent, x)
    BY DEF Send, native
  <1>2. p.id \in Ids /\ ledger[p.id] \notin Out /\ p.id # 0
    BY <1>1 DEF OnceInv, Unsent, Core, InHand, Uncertain, HasPending
  <1>3. mem = disk
    BY <1>1 DEF Core, InHand
  <1>4. Linked(p, sent, ledger, nextTurn)
    BY DEF OnceInv, Tied
  <1>5. x.id = p.id /\ x.failure = p.failure
    OBVIOUS
  <1> HIDE DEF x
  <1>6. /\ DOMAIN sent' = DOMAIN sent \cup {k} /\ k \notin DOMAIN sent
        /\ sent'[k] = x /\ \A n \in DOMAIN sent : sent'[n] = sent[n]
    BY <1>0, <1>1
  <1> HIDE DEF k
  <1>7. \A n \in DOMAIN sent : sent[n].failure # p.failure /\ sent[n].id # p.id
    BY <1>2, <1>4 DEF Linked, OnceInv, Answered
  <1>8. /\ ledger'[p.id] = "attempted"
        /\ \A i \in Ids : i # p.id => ledger'[i] = ledger[i]
    BY <1>0, <1>1, <1>2
  <1>9. AtMostOneContinuation'
    BY <1>5, <1>6, <1>7 DEF OnceInv, AtMostOneContinuation
  <1>10. Answered'
    <2>1. ASSUME NEW n \in DOMAIN sent
          PROVE  /\ sent'[n].id \in Ids /\ ledger'[sent'[n].id] \in Out
                 /\ sent'[n].failure < nextTurn'
                 /\ ledger'[sent'[n].id] = "accepted" => sent'[n].failure < latest'.turn
      <3>1. /\ sent[n].id \in Ids /\ ledger[sent[n].id] \in Out /\ sent[n].failure < nextTurn
            /\ ledger[sent[n].id] = "accepted" => sent[n].failure < latest.turn
        BY DEF OnceInv, Answered
      <3>2. sent'[n] = sent[n] /\ ledger'[sent[n].id] = ledger[sent[n].id]
        BY <1>6, <1>7, <1>8, <3>1
      <3> QED BY <1>1, <3>1, <3>2
    <2>2. /\ sent'[k].id \in Ids /\ ledger'[sent'[k].id] = "attempted"
          /\ sent'[k].failure < nextTurn'
      BY <1>1, <1>2, <1>4, <1>5, <1>6, <1>8 DEF Linked
    <2> QED BY <1>6, <2>1, <2>2 DEF Answered, Out
  <1>11. Settled'
    BY <1>1, <1>2, <1>8 DEF OnceInv, Settled, Out
  <1>12. Tied'
    <2>1. p.result = 0 /\ p.failure < nextTurn
      BY <1>2, <1>4 DEF Linked, Out
    <2>2. \A n \in DOMAIN sent' : sent'[n].failure = p.failure => sent'[n].id = p.id
      BY <1>5, <1>6, <1>7
    <2>3. Linked(p, sent', ledger', nextTurn')
      BY <1>1, <2>1, <2>2 DEF Linked
    <2>4. mem'.Pending = p /\ disk'.Pending = p
      BY <1>1, <1>3
    <2> QED BY <2>3, <2>4 DEF Tied
  <1>13. Unsent' /\ Ahead' /\ Dated'
    BY <1>1 DEF Unsent, Ahead, Dated, OnceInv
  <1> QED BY <1>9, <1>10, <1>11, <1>12, <1>13 DEF OnceInv

\* The native thread: a turn that a call starts is later than the failure the
\* call continues.
LEMMA OnceNative ==
    ASSUME TypeOK, OnceInv, Native \/ Abort PROVE OnceInv'
  <1>0. /\ mem \in Records /\ disk \in Records /\ latest \in Observations /\ nextTurn \in Nat
        /\ ledger \in [Ids -> LedgerStates] /\ sent \in Seq(Sends)
    BY DEF TypeOK
  <1>1. CASE Abort
    <2>1. /\ sent' = sent /\ latest' = latest /\ nextTurn' = nextTurn /\ disk' = disk
          /\ receipts' = receipts /\ ledger' = ledger /\ obs' = NoObservation
          /\ mem' = disk /\ pc' = "free"
      BY <1>1 DEF Abort, Release, native, ghosts
    <2>2. Unsent' /\ Ahead'
      BY <2>1 DEF Unsent, Ahead
    <2> QED BY <2>1, <2>2, MoveOnce, SameSteady
  <1>2. CASE Native
    <2>1. UNCHANGED <<disk, mem, pc, obs, sent, receipts>>
      BY <1>2 DEF Native, NativeStart, NativeFinish, Deliver, Lose, Reincarnate, holder, ghosts
    <2>2. /\ nextTurn' \in Nat /\ nextTurn <= nextTurn'
          /\ \/ latest'.turn = latest.turn
             \/ latest'.turn = nextTurn /\ nextTurn' = nextTurn + 1
      <3>1. CASE NativeStart \/ Deliver
        BY <1>0, <3>1 DEF NativeStart, Deliver, StartTurn
      <3>2. CASE NativeFinish
        BY <1>0, <3>2 DEF NativeFinish, Observations
      <3>3. CASE Lose \/ Reincarnate
        BY <1>0, <3>3 DEF Lose, Reincarnate, native
      <3> QED BY <1>2, <3>1, <3>2, <3>3 DEF Native
    <2>3. /\ \A i \in Ids : ledger'[i] \in Out <=> ledger[i] \in Out
          /\ \A i \in Ids : ledger[i] = "accepted" => ledger'[i] = "accepted"
          /\ \A i \in Ids : ledger'[i] = "accepted" =>
                ledger[i] = "accepted" \/ latest'.turn = nextTurn
      <3>1. CASE NativeStart \/ NativeFinish \/ Reincarnate
        BY <3>1 DEF NativeStart, NativeFinish, Reincarnate
      <3>2. CASE Lose
        BY <1>0, <3>2 DEF Lose, Out
      <3>3. CASE Deliver
        <4>1. latest'.turn = nextTurn
          BY <3>3 DEF Deliver, StartTurn
        <4> QED BY <1>0, <3>3, <4>1 DEF Deliver, Out
      <3> QED BY <1>2, <3>1, <3>2, <3>3 DEF Native
    <2>4. Tied'
      <3>1. disk.Pending \in PendingType /\ mem.Pending \in PendingType
        BY <1>0 DEF Records
      <3> QED BY <1>0, <2>1, <2>2, <2>3, <3>1, LinkedLater DEF OnceInv, Tied
    <2>5. latest.turn \in Nat /\ obs.turn \in Nat /\ latest.turn < nextTurn /\ obs.turn < nextTurn
      BY <1>0 DEF TypeOK, Observations, OnceInv, Dated
    <2>6. Answered'
      <3> SUFFICES ASSUME NEW n \in DOMAIN sent
                   PROVE  /\ sent[n].id \in Ids /\ ledger'[sent[n].id] \in Out
                          /\ sent[n].failure < nextTurn'
                          /\ ledger'[sent[n].id] = "accepted" => sent[n].failure < latest'.turn
        BY <2>1 DEF Answered
      <3>1. /\ sent[n].id \in Ids /\ ledger[sent[n].id] \in Out /\ sent[n].failure < nextTurn
            /\ ledger[sent[n].id] = "accepted" => sent[n].failure < latest.turn
        BY DEF OnceInv, Answered
      <3>2. sent[n].failure \in Nat
        <4>1. sent[n] \in Sends
          BY <1>0
        <4> QED BY <4>1 DEF Sends
      <3> QED BY <1>0, <2>2, <2>3, <2>5, <3>1, <3>2
    <2>7. Settled' /\ Unsent' /\ Ahead' /\ AtMostOneContinuation'
      BY <2>1, <2>3 DEF OnceInv, Settled, Unsent, Ahead, AtMostOneContinuation
    <2>8. Dated'
      BY <1>0, <2>1, <2>2, <2>5 DEF Dated
    <2> QED BY <2>4, <2>6, <2>7, <2>8 DEF OnceInv
  <1> QED BY <1>1, <1>2

\* The worker's own steps but for the call: a failure is scheduled only once
\* every earlier call is settled, hence before the turn that was read.
LEMMA OnceStep ==
    ASSUME TypeOK, Core, OnceInv, Step PROVE OnceInv'
  <1>0. /\ mem \in Records /\ disk \in Records /\ Times \subseteq Nat /\ Jitters \subseteq Nat
        /\ mem.Pending.id \in Ids \cup {0} /\ obs \in Observations /\ latest \in Observations
        /\ turnOf \in [Ids -> Nat] /\ ledger \in [Ids -> LedgerStates]
        /\ nextId \in Nat /\ nextTurn \in Nat /\ sent \in Seq(Sends)
    BY TurnRetryAssumption DEF TypeOK
  <1>a. Linked(mem.Pending, sent, ledger, nextTurn) /\ Linked(disk.Pending, sent, ledger, nextTurn)
    BY DEF OnceInv, Tied
  <1>b. ASSUME NEW s, NEW next \in {"free", "observe", "check"}, Save(s, next),
               Kept(mem.Pending, s.Pending), Steady,
               sent' = sent, latest' = latest, nextTurn' = nextTurn
        PROVE  OnceInv'
    BY <1>a, <1>b, LinkedKept, SaveOnce
  <1>c. Kept(mem.Pending, mem.Pending) /\ Kept(mem.Pending, NoPending)
    BY DEF Kept, NoPending
  <1>1. CASE StepLock
    <2>1. Bound(disk).Pending = disk.Pending
      BY <1>0 DEF Bound, Records
    <2>2. /\ sent' = sent /\ latest' = latest /\ nextTurn' = nextTurn /\ disk' = disk
          /\ receipts' = receipts /\ ledger' = ledger /\ obs' = obs
          /\ mem'.Pending = disk.Pending /\ pc' \in {"reconcile", "decide"}
      BY <1>1, <2>1 DEF StepLock, Acquire, native, ghosts
    <2>3. Unsent' /\ Ahead'
      BY <2>2 DEF Unsent, Ahead
    <2> QED BY <2>2, <2>3, MoveOnce, SameSteady
  <1>2. CASE CheckHeld
    <2>1. Save(mem, "free") /\ sent' = sent /\ latest' = latest /\ nextTurn' = nextTurn /\ Steady
      BY <1>2, SameSteady DEF CheckHeld, native
    <2> QED BY <1>b, <1>c, <2>1
  <1>3. CASE NoCapacity
    <2> DEFINE s == [mem EXCEPT !.Handled = mem.Pending.failure, !.Phase = "blocked",
                                !.Cancelled = TRUE, !.DeadlineMS = 0]
    <2>1. s.Pending = mem.Pending
      BY <1>0 DEF Records
    <2>2. Save(s, "free") /\ sent' = sent /\ latest' = latest /\ nextTurn' = nextTurn /\ Steady
      BY <1>3, SameSteady DEF NoCapacity, native
    <2> HIDE DEF s
    <2> QED BY <1>b, <1>c, <2>1, <2>2
  <1>4. CASE UnsubmittedDisallowed
    <2> DEFINE s == [Cancel(mem) EXCEPT !.Phase = "cancelled"]
    <2>1. Cancel(mem) \in Records /\ Cancel(mem).Pending \in {NoPending, mem.Pending}
      BY <1>0, CancelType
    <2>2. s.Pending = Cancel(mem).Pending
      <3> DEFINE c == Cancel(mem)
      <3> HIDE DEF c
      <3>1. c \in Records => [c EXCEPT !.Phase = "cancelled"].Pending = c.Pending
        BY DEF Records
      <3> QED BY <2>1, <3>1 DEF c
    <2>3. Save(s, "free") /\ sent' = sent /\ latest' = latest /\ nextTurn' = nextTurn /\ Steady
      BY <1>4, SameSteady DEF UnsubmittedDisallowed, native
    <2> HIDE DEF s
    <2>4. Kept(mem.Pending, s.Pending)
      BY <1>c, <2>1, <2>2
    <2> QED BY <1>b, <2>3, <2>4
  <1>5. CASE UnsubmittedRenew
    <2>1. PICK wall \in Times :
             Save(ReserveUnsubmitted(mem, wall),
                  IF HasPending(ReserveUnsubmitted(mem, wall)) THEN "dispatch" ELSE "free")
      BY <1>5 DEF UnsubmittedRenew
    <2> DEFINE s == ReserveUnsubmitted(mem, wall)
               next == IF HasPending(s) THEN "dispatch" ELSE "free"
    <2>2. s.Pending.id \in {0, mem.Pending.id} /\ Kept(mem.Pending, s.Pending)
      <3>1. mem \in Records /\ wall \in Nat
        BY <1>0
      <3> QED BY ONLY <3>1, ReserveType
    <2>3. Save(s, next)
      BY <2>1
    <2>4. next = "dispatch" => s.Pending.id = mem.Pending.id
      BY <2>2 DEF HasPending
    <2>5. next \in {"dispatch", "free"}
      OBVIOUS
    <2>6. /\ pc = "unsubmitted" /\ sent' = sent /\ latest' = latest /\ nextTurn' = nextTurn
          /\ ledger' = ledger /\ Steady
      BY <1>5, SameSteady DEF UnsubmittedRenew, native
    <2>7. mem.Pending.id \in Ids /\ ledger'[mem.Pending.id] \notin Out
      BY <2>6 DEF OnceInv, Unsent
    <2> HIDE DEF s, next
    <2>8. Linked(s.Pending, sent, ledger, nextTurn)
      BY <1>a, <2>2, LinkedKept
    <2> QED BY <2>3, <2>4, <2>5, <2>6, <2>7, <2>8, SaveOnce
  <1>6. CASE Decide
    <2>1. /\ sent' = sent /\ latest' = latest /\ nextTurn' = nextTurn
          /\ receipts' = receipts /\ Steady
          /\ disk' = disk /\ mem' \in {mem, disk} /\ obs' \in {obs, NoObservation}
          /\ pc' \in {"allow", "free"}
      BY <1>6, SameSteady DEF Decide, Release, native, ghosts
    <2>2. Unsent' /\ Ahead'
      BY <2>1 DEF Unsent, Ahead
    <2> QED BY <2>1, <2>2, MoveOnce
  <1>7. CASE AllowOrCancel
    <2>1. sent' = sent /\ latest' = latest /\ nextTurn' = nextTurn /\ Steady
      BY <1>7, SameSteady DEF AllowOrCancel, native
    <2>2. CASE Save(CancelKeepingPending(mem), "observe")
      <3> DEFINE s == CancelKeepingPending(mem)
      <3>1. Cancel(mem) \in Records
        BY <1>0, CancelType
      <3>2. s.Pending = mem.Pending
        BY <3>1 DEF CancelKeepingPending, Records
      <3> HIDE DEF s
      <3> QED BY <1>b, <1>c, <2>1, <2>2, <3>2 DEF s
    <2>3. CASE pc' = "observe" /\ UNCHANGED <<disk, mem, obs, receipts>>
      <3>1. Unsent' /\ Ahead'
        BY <2>3 DEF Unsent, Ahead
      <3> QED BY <2>1, <2>3, <3>1, MoveOnce
    <2> QED BY <1>7, <2>2, <2>3 DEF AllowOrCancel
  <1>8. CASE ReadNative
    <2>1. /\ pc = "observe" /\ sent' = sent /\ latest' = latest /\ nextTurn' = nextTurn
          /\ ledger' = ledger /\ Steady /\ obs' = latest
      BY <1>8, SameSteady DEF ReadNative, native
    <2>2. CASE mem.Enrolled
      <3>1. pc' = "settle" /\ UNCHANGED <<disk, mem, receipts>>
        BY <1>8, <2>2 DEF ReadNative
      <3>2. \A n \in DOMAIN sent : sent[n].failure < latest.turn
        <4> SUFFICES ASSUME NEW n \in DOMAIN sent PROVE sent[n].failure < latest.turn
          OBVIOUS
        <4> DEFINE i == sent[n].id
        <4>1. /\ i \in Ids /\ ledger[i] \in Out
              /\ ledger[i] = "accepted" => sent[n].failure < latest.turn
          BY DEF OnceInv, Answered
        <4>2. i \in receipts
          BY <2>1, <4>1 DEF Core, Quiet, QuietPoints, Outstanding, Out
        <4>3. ledger[i] = "accepted"
          BY <4>2 DEF OnceInv, Settled
        <4> QED BY <4>1, <4>3
      <3>3. Unsent' /\ Ahead'
        BY <2>1, <3>1, <3>2 DEF Unsent, Ahead
      <3> QED BY <2>1, <3>1, <3>3, MoveOnce
    <2>3. CASE ~mem.Enrolled
      <3> DEFINE s == Enroll(mem, latest)
      <3>1. Write(s) /\ mem' = s /\ pc' = "enroll"
        BY <1>8, <2>3 DEF ReadNative
      <3>2. s.Pending = mem.Pending
        BY <1>0, EnrollType
      <3> HIDE DEF s
      <3>3. disk' \in {s, disk}
        BY <3>1 DEF Write
      <3>4. /\ Linked(disk'.Pending, sent, ledger, nextTurn)
            /\ Linked(mem'.Pending, sent, ledger, nextTurn)
        BY <1>a, <3>1, <3>2, <3>3
      <3>5. \A i \in receipts' : i \in receipts \/ (disk'.Pending.result # 0 /\ i = disk'.Pending.id)
        BY <3>1 DEF Write, Recorded
      <3>6. Unsent' /\ Ahead'
        BY <3>1 DEF Unsent, Ahead
      <3> QED BY <2>1, <3>4, <3>5, <3>6, HoldOnce
    <2> QED BY <2>2, <2>3
  <1>9. CASE EnrollAgain
    <2>1. PICK s : Save(s, "free") /\ s.Pending = mem.Pending
      <3> DEFINE b == Bound(mem)
                 e == [b EXCEPT !.Baseline = latest.turn, !.BaselineActive = FALSE]
      <3>1. b \in Records /\ b.Pending = mem.Pending
        BY <1>0 DEF Bound, Records, TypeOK
      <3>2. Save(e, "free") \/ Save(b, "free")
        BY <1>9 DEF EnrollAgain
      <3> HIDE DEF b
      <3>3. e.Pending = mem.Pending
        BY <3>1 DEF Records
      <3> QED BY <3>1, <3>2, <3>3
    <2>2. sent' = sent /\ latest' = latest /\ nextTurn' = nextTurn /\ Steady
      BY <1>9, SameSteady DEF EnrollAgain, native
    <2> QED BY <1>b, <1>c, <2>1, <2>2
  <1>10. CASE Unproven
    <2> DEFINE s == [mem EXCEPT !.Phase = "blocked", !.Handled = obs.turn]
               t == [mem EXCEPT !.Phase = "blocked"]
    <2>1. s.Pending = mem.Pending /\ t.Pending = mem.Pending
      BY <1>0 DEF Records
    <2>2. Save(s, "free") \/ Save(t, "free")
      BY <1>10 DEF Unproven
    <2>3. sent' = sent /\ latest' = latest /\ nextTurn' = nextTurn /\ Steady
      BY <1>10, SameSteady DEF Unproven, native
    <2> HIDE DEF s, t
    <2> QED BY <1>b, <1>c, <2>1, <2>2, <2>3
  <1>11. CASE Settle
    <2>1. PICK wall \in Times, jitter \in Jitters :
             LET s == Observe(mem, obs, wall, dec, Proves(mem, obs, dec), nextId, jitter)
             IN  Save(s, "check") \/ Save(s, "free")
      BY <1>11 DEF Settle
    <2> DEFINE s == Observe(mem, obs, wall, dec, Proves(mem, obs, dec), nextId, jitter)
    <2>2. Kept(mem.Pending, s.Pending) \/ Fresh(s.Pending, nextId, obs.turn)
      <3> DEFINE v == Proves(mem, obs, dec)
      <3>1. /\ mem \in Records /\ obs \in Observations /\ v \in BOOLEAN
            /\ nextId \in Nat /\ wall \in Nat /\ jitter \in Nat
        BY <1>0 DEF Proves
      <3> HIDE DEF v
      <3>2. LET q == Observe(mem, obs, wall, dec, v, nextId, jitter).Pending
            IN  Kept(mem.Pending, q) \/ Fresh(q, nextId, obs.turn)
        BY ONLY <3>1, ObserveType
      <3> QED BY <3>2 DEF v
    <2>3. Save(s, "check") \/ Save(s, "free")
      BY <2>1
    <2> HIDE DEF s
    <2>4. /\ pc = "settle" /\ sent' = sent /\ latest' = latest /\ nextTurn' = nextTurn /\ Steady
      BY <1>11, SameSteady DEF Settle, native
    <2>5. \A n \in DOMAIN sent : sent[n].failure # obs.turn
      <3> SUFFICES ASSUME NEW n \in DOMAIN sent PROVE sent[n].failure # obs.turn
        OBVIOUS
      <3>1. sent[n].failure < obs.turn
        BY <2>4 DEF OnceInv, Ahead
      <3>2. sent[n] \in Sends
        BY <1>0
      <3>3. sent[n].failure \in Nat /\ obs.turn \in Nat
        BY <1>0, <3>2 DEF Sends, Observations
      <3> QED BY <3>1, <3>3
    <2>6. obs.turn < nextTurn
      BY DEF OnceInv, Dated
    <2>7. Linked(s.Pending, sent, ledger, nextTurn)
      BY <1>a, <2>2, <2>5, <2>6, LinkedKept, LinkedFresh
    <2> QED BY <2>3, <2>4, <2>7, SaveOnce
  <1>12. CASE NotDue
    <2>1. /\ sent' = sent /\ latest' = latest /\ nextTurn' = nextTurn /\ Steady
          /\ receipts' = receipts /\ disk' = disk /\ mem' = disk /\ obs' = NoObservation
          /\ pc' = "free"
      BY <1>12, SameSteady DEF NotDue, Release, native, ghosts
    <2>2. Unsent' /\ Ahead'
      BY <2>1 DEF Unsent, Ahead
    <2> QED BY <2>1, <2>2, MoveOnce
  <1>13. CASE CheckDue
    <2>1. PICK wall \in Times : mem' = Clocked(mem, wall)
      BY <1>13 DEF CheckDue
    <2>2. mem'.Pending = mem.Pending
      BY <1>0, <2>1, ClockedType
    <2>3. /\ sent' = sent /\ latest' = latest /\ nextTurn' = nextTurn /\ Steady
          /\ receipts' = receipts /\ disk' = disk /\ obs' = obs /\ pc' = "reconcile"
      BY <1>13, SameSteady DEF CheckDue, native, ghosts
    <2>4. Unsent' /\ Ahead'
      BY <2>3 DEF Unsent, Ahead
    <2> QED BY <2>2, <2>3, <2>4, MoveOnce
  <1>14. CASE BeginAttempt
    <2>1. PICK wall \in Times :
             Save(Begin(mem, wall), IF HasPending(Begin(mem, wall)) THEN "dispatch" ELSE "free")
      BY <1>14 DEF BeginAttempt
    <2> DEFINE s == Begin(mem, wall)
               next == IF HasPending(s) THEN "dispatch" ELSE "free"
    <2>2. s.Pending.id \in {0, mem.Pending.id} /\ Kept(mem.Pending, s.Pending)
      <3>1. mem \in Records /\ wall \in Nat
        BY <1>0
      <3> QED BY ONLY <3>1, BeginType
    <2>3. Save(s, next)
      BY <2>1
    <2>4. next = "dispatch" => s.Pending.id = mem.Pending.id
      BY <2>2 DEF HasPending
    <2>5. next \in {"dispatch", "free"}
      OBVIOUS
    <2>6. /\ pc = "begin" /\ sent' = sent /\ latest' = latest /\ nextTurn' = nextTurn
          /\ ledger' = ledger /\ Steady
      BY <1>14, SameSteady DEF BeginAttempt, native
    <2>7. mem.Pending.id \in Ids /\ ledger'[mem.Pending.id] \notin Out
      BY <2>6 DEF OnceInv, Unsent
    <2> HIDE DEF s, next
    <2>8. Linked(s.Pending, sent, ledger, nextTurn)
      BY <1>a, <2>2, LinkedKept
    <2> QED BY <2>3, <2>4, <2>5, <2>6, <2>7, <2>8, SaveOnce
  <1>15. CASE Prepare
    <2>1. /\ pc = "dispatch" /\ pc' = "send"
          /\ sent' = sent /\ latest' = latest /\ nextTurn' = nextTurn
          /\ receipts' = receipts /\ disk' = disk /\ mem' = mem /\ obs' = obs
          /\ ledger' = [ledger EXCEPT ![mem.Pending.id] = "prepared"]
      BY <1>15 DEF Prepare, native, ghosts
    <2>2. mem.Pending.id \in Ids /\ ledger[mem.Pending.id] \notin Out
      BY <2>1 DEF OnceInv, Unsent
    <2>3. Steady
      BY <1>0, <2>1, <2>2, EnteredSteady
    <2>4. Unsent' /\ Ahead'
      BY <1>0, <2>1, <2>2 DEF Unsent, Ahead, Out
    <2> QED BY <2>1, <2>3, <2>4, MoveOnce
  <1>16. CASE DispatchRefused
    <2> DEFINE s == [mem EXCEPT !.Phase = "blocked", !.Pending = NoPending]
    <2>1. s.Pending = NoPending
      BY <1>0 DEF Records
    <2>2. /\ Save(s, "free") /\ sent' = sent /\ latest' = latest /\ nextTurn' = nextTurn
          /\ pc \in {"dispatch", "send"}
          /\ ledger' = [ledger EXCEPT ![mem.Pending.id] = "absent"]
      BY <1>16 DEF DispatchRefused, native
    <2>3. mem.Pending.id \in Ids /\ ledger[mem.Pending.id] \notin Out
      BY <2>2 DEF OnceInv, Unsent
    <2>4. Steady
      BY <1>0, <2>2, <2>3, EnteredSteady
    <2> HIDE DEF s
    <2> QED BY <1>b, <1>c, <2>1, <2>2, <2>4
  <1>17. CASE Send
    BY <1>17, OnceSend
  <1>18. CASE Reply
    <2> DEFINE t == turnOf[mem.Pending.id]
    <2>1. PICK wall \in Times, fits \in BOOLEAN : Save(Accepted(mem, t, wall, fits), "free")
      BY <1>18 DEF Reply
    <2>2. /\ t \in Nat /\ wall \in Nat
          /\ mem.Pending.id \in Ids /\ ledger[mem.Pending.id] = "accepted"
      BY <1>0, <1>18 DEF Reply, CanAccept, HasPending
    <2> HIDE DEF t
    <2> DEFINE s == Accepted(mem, t, wall, fits)
    <2>3. s.Pending.id = mem.Pending.id /\ s.Pending.failure = mem.Pending.failure
      <3>1. mem \in Records /\ t \in Nat /\ wall \in Nat /\ fits \in BOOLEAN
        BY <1>0, <2>2
      <3> QED BY ONLY <3>1, AcceptedType
    <2>4. Save(s, "free")
      BY <2>1
    <2> HIDE DEF s
    <2>5. Linked(s.Pending, sent, ledger, nextTurn)
      BY <1>a, <2>2, <2>3, LinkedAccepted
    <2>6. sent' = sent /\ latest' = latest /\ nextTurn' = nextTurn /\ Steady
      BY <1>18, SameSteady DEF Reply, native
    <2> QED BY <2>4, <2>5, <2>6, SaveOnce
  <1>19. CASE ReplyUnknown
    <2> DEFINE s == OutcomeUnknown(mem)
    <2>1. s.Pending = mem.Pending
      BY <1>0, OutcomeUnknownType
    <2>2. Save(s, "free") /\ sent' = sent /\ latest' = latest /\ nextTurn' = nextTurn /\ Steady
      BY <1>19, SameSteady DEF ReplyUnknown, native
    <2> HIDE DEF s
    <2> QED BY <1>b, <1>c, <2>1, <2>2
  <1> QED BY <1>1, <1>2, <1>3, <1>4, <1>5, <1>6, <1>7, <1>8, <1>9, <1>10, <1>11, <1>12,
             <1>13, <1>14, <1>15, <1>16, <1>17, <1>18, <1>19 DEF Step

\* The operations that compete for the lock, all of which start from the saved
\* record and none of which makes a call.
LEMMA OnceCompeting ==
    ASSUME TypeOK, OnceInv, Competing PROVE OnceInv'
  <1>0. /\ mem \in Records /\ disk \in Records /\ Times \subseteq Nat
        /\ disk.Pending.id \in Ids \cup {0} /\ latest \in Observations
        /\ turnOf \in [Ids -> Nat] /\ ledger \in [Ids -> LedgerStates]
    BY TurnRetryAssumption DEF TypeOK
  <1>a. Linked(mem.Pending, sent, ledger, nextTurn) /\ Linked(disk.Pending, sent, ledger, nextTurn)
    BY DEF OnceInv, Tied
  <1>b. sent' = sent /\ latest' = latest /\ nextTurn' = nextTurn
    BY DEF Competing, BoundaryChanged, ActionLock, Acquire, Act, ManagedAdmission, StartThread,
           CancelAdmission, UpdateThreadSettings, CancelSession, BootstrapPolicy, SetPolicy,
           native, ghosts
  <1>c. /\ Cancel(disk) \in Records
        /\ Cancel(disk).Pending.id \in Ids \cup {0}
        /\ Linked(Cancel(disk).Pending, sent, ledger, nextTurn)
    <2>1. Cancel(disk) \in Records /\ Cancel(disk).Pending \in {NoPending, disk.Pending}
      BY <1>0, CancelType
    <2>2. Linked(NoPending, sent, ledger, nextTurn) /\ NoPending.id = 0
      BY DEF Linked, NoPending
    <2> QED BY <1>0, <1>a, <2>1, <2>2
  <1>1. CASE BoundaryChanged
    BY <1>1, <1>b, <1>c, FreeOnce, SameSteady DEF BoundaryChanged
  <1>2. CASE ActionLock
    <2>1. /\ disk' = disk /\ receipts' = receipts /\ ledger' = ledger /\ obs' = obs
          /\ mem' = disk /\ pc' \in {"reconcile", "act"}
      BY <1>2 DEF ActionLock, Acquire, ghosts
    <2>2. Unsent' /\ Ahead'
      BY <2>1 DEF Unsent, Ahead
    <2> QED BY <1>b, <2>1, <2>2, MoveOnce, SameSteady
  <1>3. CASE Act
    <2>1. PICK wall \in Times :
             Save(IF op = "stop" THEN Stop(mem) ELSE RetryNow(mem, wall), "free")
      BY <1>3 DEF Act
    <2> DEFINE s == IF op = "stop" THEN Stop(mem) ELSE RetryNow(mem, wall)
    <2>2. s.Pending = mem.Pending
      BY <1>0, StopType, RetryNowType
    <2>3. Steady /\ Save(s, "free")
      BY <1>3, <2>1, SameSteady DEF Act
    <2> HIDE DEF s
    <2> QED BY <1>a, <1>b, <2>2, <2>3, SaveOnce
  <1>4. CASE ManagedAdmission
    <2> DEFINE c == Cancel(disk)
               w == IF Uncertain(c) \/ ~SameBoundary(c) THEN c ELSE Bound(c)
               e == Enroll(c, latest)
    <2>1. Steady
      BY <1>4, SameSteady DEF ManagedAdmission
    <2>2. CASE Write(w) /\ Release
      <3>1. w.Pending = c.Pending
        BY <1>c DEF Bound, Records
      <3> HIDE DEF w
      <3> QED BY <1>b, <1>c, <2>1, <2>2, <3>1, FreeOnce
    <2>3. CASE Write(e) /\ pc' = "enroll" /\ obs' = latest /\ mem' = e
      <3>1. e.Pending = c.Pending
        BY <1>0, <1>c, EnrollType
      <3> HIDE DEF e, c
      <3>2. disk' \in {e, disk}
        BY <2>3 DEF Write
      <3>3. /\ Linked(disk'.Pending, sent, ledger, nextTurn)
            /\ Linked(mem'.Pending, sent, ledger, nextTurn)
        BY <1>a, <1>c, <2>3, <3>1, <3>2 DEF c
      <3>4. \A i \in receipts' : i \in receipts \/ (disk'.Pending.result # 0 /\ i = disk'.Pending.id)
        BY <2>3 DEF Write, Recorded
      <3>5. Unsent' /\ Ahead'
        BY <2>3 DEF Unsent, Ahead
      <3> QED BY <1>b, <2>1, <2>3, <3>3, <3>4, <3>5, HoldOnce
    <2> QED BY <1>4, <2>2, <2>3 DEF ManagedAdmission
  <1>5. CASE StartThread
    <2> DEFINE e == Enroll(disk, NoObservation)
    <2>1. e.Pending = disk.Pending
      BY <1>0 DEF Enroll, Records
    <2>2. Steady /\ Write(e) /\ Release
      BY <1>5, SameSteady DEF StartThread
    <2> HIDE DEF e
    <2> QED BY <1>a, <1>b, <2>1, <2>2, FreeOnce
  <1>6. CASE CancelAdmission
    BY <1>6, <1>b, <1>c, FreeOnce, SameSteady DEF CancelAdmission
  <1>7. CASE UpdateThreadSettings
    <2> DEFINE t == latest.turn
               s == InvalidateSettings(disk, t)
    <2>1. Write(s) /\ Release /\ Steady
      BY <1>7, SameSteady DEF UpdateThreadSettings
    <2>2. t \in Nat
      BY <1>0 DEF Observations
    <2> HIDE DEF t
    <2>3. s.Pending \in {NoPending, disk.Pending}
      BY <1>0, <2>2, InvalidateType
    <2> HIDE DEF s
    <2>4. Linked(s.Pending, sent, ledger, nextTurn)
      BY <1>a, <2>3 DEF Linked, NoPending
    <2> QED BY <1>b, <2>1, <2>4, FreeOnce
  <1>8. CASE CancelSession
    <2> DEFINE c == Cancel(disk)
               i == c.Pending.id
    <2>1. Release
      BY <1>8 DEF CancelSession
    <2>2. CASE Write(c) /\ ledger' = ledger
      <3>1. Steady
        BY <2>2, SameSteady
      <3> QED BY <1>b, <1>c, <2>1, <2>2, <3>1, FreeOnce
    <2>3. CASE /\ ledger[i] \in {"absent", "prepared"} /\ Write(NeverSubmitted(c))
               /\ ledger' = [ledger EXCEPT ![i] = "absent"]
      <3>1. Steady
        BY <1>0, <2>3 DEF Steady, Out
      <3>2. Kept(c.Pending, NeverSubmitted(c).Pending)
        <4>1. c \in Records
          BY <1>c
        <4> HIDE DEF c
        <4> QED BY <4>1 DEF NeverSubmitted, Records, NoPending, Kept
      <3>3. Linked(NeverSubmitted(c).Pending, sent, ledger, nextTurn)
        BY <1>c, <3>2, LinkedKept
      <3> QED BY <1>b, <2>1, <2>3, <3>1, <3>3, FreeOnce
    <2>4. CASE /\ ledger[i] = "accepted" /\ CanAccept(c, turnOf[i]) /\ ledger' = ledger
               /\ \E wall \in Times, fits \in BOOLEAN : Write(Accepted(c, turnOf[i], wall, fits))
      <3> DEFINE t == turnOf[i]
      <3>1. PICK wall \in Times, fits \in BOOLEAN : Write(Accepted(c, t, wall, fits))
        BY <2>4
      <3>2. i \in Ids
        BY <1>c, <2>4 DEF CanAccept, HasPending
      <3>3. t \in Nat /\ wall \in Nat
        BY <1>0, <3>2
      <3>4. c \in Records /\ Linked(c.Pending, sent, ledger, nextTurn) /\ i = c.Pending.id
        BY <1>c
      <3> HIDE DEF c, t, i
      <3> DEFINE s == Accepted(c, t, wall, fits)
      <3>5. s.Pending.id = c.Pending.id /\ s.Pending.failure = c.Pending.failure
        <4>1. c \in Records /\ t \in Nat /\ wall \in Nat /\ fits \in BOOLEAN
          BY <3>3, <3>4
        <4> QED BY ONLY <4>1, AcceptedType
      <3>6. Write(s) /\ Steady
        BY <2>4, <3>1, SameSteady
      <3> HIDE DEF s
      <3>7. Linked(s.Pending, sent, ledger, nextTurn)
        BY <2>4, <3>2, <3>4, <3>5, LinkedAccepted
      <3> QED BY <1>b, <2>1, <3>6, <3>7, FreeOnce
    <2> QED BY <1>8, <2>2, <2>3, <2>4 DEF CancelSession
  <1>9. CASE BootstrapPolicy \/ SetPolicy
    <2>1. /\ disk' = disk /\ mem' = mem /\ obs' = obs /\ pc' = pc
          /\ receipts' = receipts /\ ledger' = ledger
      BY <1>9 DEF BootstrapPolicy, SetPolicy, holder
    <2>2. Unsent' /\ Ahead'
      BY <1>b, <2>1 DEF Unsent, Ahead, OnceInv
    <2> QED BY <1>b, <2>1, <2>2, MoveOnce, SameSteady
  <1> QED BY <1>1, <1>2, <1>3, <1>4, <1>5, <1>6, <1>7, <1>8, <1>9 DEF Competing

\* The invariant of the calls holds at the start, and every step keeps it.
LEMMA OnceInit == Init => ReceiptInv /\ OnceInv
  <1> SUFFICES ASSUME Init PROVE ReceiptInv /\ OnceInv
    OBVIOUS
  <1>1. TypeOK
    BY TypeInit
  <1>2. ReceiptInv
    BY <1>1 DEF Init, ReceiptInv, Core, NoLostReceipt, HeldReceipt, Quiet, QuietPoints,
       InHand, Outstanding
  <1>3. DOMAIN sent = {} /\ receipts = {} /\ pc = "free"
    BY DEF Init
  <1>4. /\ disk.Pending = NoPending /\ mem.Pending = NoPending
        /\ obs.turn = 0 /\ latest.turn = 0 /\ nextTurn = 1
    BY DEF Init, New, NoObservation
  <1>5. Linked(NoPending, sent, ledger, nextTurn)
    BY DEF Linked, NoPending
  <1> QED BY <1>2, <1>3, <1>4, <1>5 DEF OnceInv, Tied, Answered, Settled, Unsent, Ahead, Dated,
             AtMostOneContinuation

LEMMA OnceNext ==
    ASSUME ReceiptInv, OnceInv, [Next]_vars PROVE ReceiptInv' /\ OnceInv'
  <1>1. TypeOK /\ Core
    BY DEF ReceiptInv
  <1>2. ReceiptInv'
    BY ReceiptStep
  <1>3. CASE UNCHANGED vars
    <2>1. UNCHANGED <<disk, mem, pc, obs, latest, nextTurn, ledger, sent, receipts>>
      BY <1>3 DEF vars, holder, native, ghosts
    <2> QED BY <1>2, <2>1 DEF OnceInv, Tied, Linked, Answered, Settled, Unsent, Ahead, Dated,
               AtMostOneContinuation
  <1>4. CASE Next
    BY <1>1, <1>2, <1>4, OnceStep, OnceReconcile, OnceCompeting, OnceNative DEF Next
  <1> QED BY <1>3, <1>4

\* One failed turn is continued by at most one outbound call, for every limit,
\* window, backoff table and bound: however often the attempt is retried,
\* reconciled, renewed, cancelled or re-observed, and wherever a crash strikes,
\* Begin and ReserveUnsubmitted are reached only for an attempt that provably
\* never left, and Observe schedules only failures that came after every call.
THEOREM ContinuedOnce == Spec => []AtMostOneContinuation
  <1> DEFINE Inv == ReceiptInv /\ OnceInv
  <1>1. Init => Inv
    BY OnceInit
  <1>2. Inv /\ [Next]_vars => Inv'
    BY OnceNext
  <1>3. Inv => AtMostOneContinuation
    BY DEF OnceInv
  <1> QED BY <1>1, <1>2, <1>3, PTL DEF Spec

----------------------------------------------------------------------------
(***************************************************************************)
(* The quota.  Every cybersecurity call that may still count has a charge  *)
(* under its identity, in the saved record and in the holder's copy, dated *)
(* no earlier than the call, and the record's clock is never behind a call *)
(* (Charged).  A new call leaves under a reservation made at the clock it  *)
(* is dated with, with at most CyberLimit charges in the record, its own   *)
(* among them (Reserved).  Since no two calls share an identity, the calls *)
(* of a window are no more than the charges.                               *)
(***************************************************************************)
Counts(x) == x.class = "cybersecurity"

\* What a record knows of the calls that were made.
Charged(s, calls) ==
    /\ IsFiniteSet(s.Cyber)
    /\ \A n \in DOMAIN calls : Counts(calls[n]) =>
          /\ calls[n].at <= s.ClockMS
          /\ calls[n].at + Window > s.ClockMS =>
                \E c \in s.Cyber : c.id = calls[n].id /\ c.at >= calls[n].at

\* A record whose pending attempt may be called for.
Reservation(s) ==
    s.Class = "cybersecurity" =>
        /\ Cardinality(s.Cyber) <= CyberLimit
        /\ s.Pending.charged = s.ClockMS
        /\ \E c \in s.Cyber : c.id = s.Pending.id /\ c.at = s.ClockMS

Booked   == Charged(disk, sent) /\ Charged(mem, sent)
Reserved == pc \in {"dispatch", "send"} => Reservation(mem)
SentOnce == \A m, n \in DOMAIN sent : sent[m].id = sent[n].id => m = n

\* The inductive invariant, on top of ReceiptInv and OnceInv.
QuotaInv == Booked /\ Reserved /\ SentOnce /\ QuotaRespected

\* t carries the charges of s on, but for those of attempt i.
Carried(s, t, i) ==
    /\ IsFiniteSet(s.Cyber) => IsFiniteSet(t.Cyber)
    /\ s.ClockMS <= t.ClockMS
    /\ \A c \in s.Cyber : c.at + Window > t.ClockMS /\ c.id # i =>
          \E e \in t.Cyber : e.id = c.id /\ e.at >= c.at

\* t has the charges of s, at the same time or later.
SameCharges(s, t) == t.Cyber = s.Cyber /\ t.ClockMS \in Nat /\ s.ClockMS <= t.ClockMS

LEMMA CarriedCharged ==
    ASSUME NEW s \in Records, NEW t \in Records, NEW calls \in Seq(Sends), NEW i,
           Charged(s, calls), Carried(s, t, i), \A n \in DOMAIN calls : calls[n].id # i
    PROVE  Charged(t, calls)
  <1>0. s.ClockMS \in Nat /\ t.ClockMS \in Nat /\ Window \in Nat
    BY RecordAssumption DEF Records
  <1>1. ASSUME NEW n \in DOMAIN calls, Counts(calls[n])
        PROVE  /\ calls[n].at <= t.ClockMS
               /\ calls[n].at + Window > t.ClockMS =>
                     \E c \in t.Cyber : c.id = calls[n].id /\ c.at >= calls[n].at
    <2>1. calls[n].at \in Nat /\ calls[n].at <= s.ClockMS /\ s.ClockMS <= t.ClockMS
      <3>1. calls[n] \in Sends
        OBVIOUS
      <3> QED BY <1>1, <3>1 DEF Sends, Charged, Carried
    <2>2. ASSUME calls[n].at + Window > t.ClockMS
          PROVE  \E c \in t.Cyber : c.id = calls[n].id /\ c.at >= calls[n].at
      <3>1. PICK c \in s.Cyber : c.id = calls[n].id /\ c.at >= calls[n].at
        BY <1>0, <1>1, <2>1, <2>2 DEF Charged
      <3>2. c.at \in Nat
        BY DEF Records, Charges
      <3>3. PICK e \in t.Cyber : e.id = c.id /\ e.at >= c.at
        BY <1>0, <2>1, <2>2, <3>1, <3>2 DEF Carried
      <3>4. e.at \in Nat
        BY DEF Records, Charges
      <3> QED BY <2>1, <3>1, <3>2, <3>3, <3>4
    <2> QED BY <1>0, <2>1, <2>2
  <1> QED BY <1>1 DEF Charged, Carried

LEMMA SameChain ==
    ASSUME NEW s, NEW t, NEW u, s.ClockMS \in Nat, SameCharges(s, t), SameCharges(t, u)
    PROVE  SameCharges(s, u)
  BY DEF SameCharges

LEMMA SameSelf == ASSUME NEW s \in Records PROVE SameCharges(s, s) /\ s.ClockMS \in Nat
  BY DEF SameCharges, Records

LEMMA SameCarried ==
    ASSUME NEW s \in Records, NEW t \in Records, SameCharges(s, t)
    PROVE  Carried(s, t, 0)
  BY DEF SameCharges, Carried, Records, Charges

\* So they account for the same calls.
LEMMA SameCharged ==
    ASSUME NEW s \in Records, NEW t, NEW calls \in Seq(Sends), SameCharges(s, t), Charged(s, calls)
    PROVE  Charged(t, calls)
  <1>0. s.ClockMS \in Nat /\ t.ClockMS \in Nat /\ Window \in Nat
    BY RecordAssumption DEF SameCharges, Records
  <1>1. \A n \in DOMAIN calls : calls[n].at \in Nat
    <2>1. \A n \in DOMAIN calls : calls[n] \in Sends
      OBVIOUS
    <2> QED BY <2>1 DEF Sends
  <1> QED BY <1>0, <1>1 DEF SameCharges, Charged

\* Identities of calls are those of attempts.
LEMMA SentIds == OnceInv => \A n \in DOMAIN sent : sent[n].id # 0
  BY TurnRetryAssumption DEF OnceInv, Answered, Ids

----------------------------------------------------------------------------
\* What the operations do with charges and clock.
LEMMA CancelCharges ==
    ASSUME NEW s \in Records PROVE SameCharges(s, Cancel(s)) /\ Cancel(s).Class = s.Class
  BY DEF SameCharges, Cancel, Records

LEMMA ClockedCharges ==
    ASSUME NEW s \in Records, NEW wall \in Nat
    PROVE  SameCharges(s, Clocked(s, wall)) /\ Clocked(s, wall).Class = s.Class
  BY DEF SameCharges, Clocked, MaxOf, Records

LEMMA EnrollCharges ==
    ASSUME NEW s \in Records, NEW o \in Observations PROVE SameCharges(s, Enroll(s, o))
  BY DEF SameCharges, Enroll, Records

LEMMA KeepingCharges ==
    ASSUME NEW s \in Records PROVE SameCharges(s, CancelKeepingPending(s))
  <1>1. Cancel(s) \in Records /\ SameCharges(s, Cancel(s))
    BY CancelType, CancelCharges
  <1> QED BY <1>1 DEF CancelKeepingPending, SameCharges, Records

LEMMA InvalidateCharges ==
    ASSUME NEW s \in Records, NEW t \in Nat PROVE SameCharges(s, InvalidateSettings(s, t))
  <1> DEFINE e == [s EXCEPT !.Epoch = @ + 1]
             c == Cancel(e)
  <1>1. e \in Records /\ SameCharges(s, e)
    BY DEF SameCharges, Records
  <1> HIDE DEF e
  <1>2. c \in Records /\ SameCharges(e, c)
    BY <1>1, CancelType, CancelCharges
  <1>3. InvalidateSettings(s, t) = [c EXCEPT !.Handled = IF t # 0 THEN t ELSE @]
    BY DEF InvalidateSettings, e
  <1> HIDE DEF c
  <1> QED BY <1>1, <1>2, <1>3 DEF SameCharges, Records

LEMMA StopCharges ==
    ASSUME NEW s \in Records PROVE SameCharges(s, Stop(s))
  <1> DEFINE h == CASE ~HasPending(s) -> s.Handled
                    [] HasPending(s) /\ s.Pending.result # 0 -> s.Pending.result
                    [] OTHER -> s.Pending.failure
             e == [s EXCEPT !.Handled = h]
  <1>1. h \in Nat
    BY DEF Records, PendingType
  <1>2. Stop(s) = IF s.Cancelled THEN s ELSE CancelKeepingPending(e)
    BY DEF Stop
  <1> HIDE DEF h
  <1>3. e \in Records /\ SameCharges(s, e)
    BY <1>1 DEF SameCharges, Records
  <1> HIDE DEF e
  <1>4. SameCharges(e, CancelKeepingPending(e))
    BY <1>3, KeepingCharges
  <1>5. SameCharges(s, CancelKeepingPending(e))
    BY <1>3, <1>4, SameSelf, SameChain
  <1> QED BY <1>2, <1>5, SameSelf

LEMMA RetryNowCharges ==
    ASSUME NEW s \in Records, NEW wall \in Nat PROVE SameCharges(s, RetryNow(s, wall))
  <1>1. Clocked(s, wall) \in Records /\ SameCharges(s, Clocked(s, wall))
    BY ClockedType, ClockedCharges
  <1> QED BY <1>1 DEF RetryNow, SameCharges, Records

LEMMA ObserveTerminalCharges ==
    ASSUME NEW s \in Records, NEW o, NEW d, NEW proven \in BOOLEAN, NEW id, NEW jitter
    PROVE  SameCharges(s, ObserveTerminal(s, o, d, proven, id, jitter))
  <1>1. SameCharges(s, Schedule(s, o, d, proven, id, jitter))
    <2> DEFINE class == ClassOf(o.code)
               base == IF HasPending(s) /\ s.Pending.result = o.turn /\ ~s.Cancelled
                       THEN [s EXCEPT !.Handled = o.turn, !.Class = class]
                       ELSE [s EXCEPT !.Handled = o.turn, !.Class = class,
                                      !.Chain = o.turn, !.Capacity = 0, !.Cancelled = FALSE]
               halted(p) == [base EXCEPT !.Phase = p, !.Pending = NoPending, !.DeadlineMS = 0]
               next == [base EXCEPT
                  !.Pending = [id |-> id, failure |-> o.turn, epoch |-> s.Epoch,
                               charged |-> 0, result |-> 0],
                  !.Phase = "scheduled",
                  !.DeadlineMS = IF class = "capacity"
                                 THEN s.ClockMS + CapacityDelay(base.Capacity) + jitter
                                 ELSE s.ClockMS]
    <2>1. Schedule(s, o, d, proven, id, jitter) \in {halted("blocked"), halted("exhausted"), next}
      BY DEF Schedule
    <2>2. /\ base.Cyber = s.Cyber /\ base.ClockMS = s.ClockMS
          /\ DOMAIN base = DOMAIN s
      BY DEF Records
    <2>3. "Cyber" \in DOMAIN base /\ "ClockMS" \in DOMAIN base
      BY <2>2 DEF Records
    <2> HIDE DEF base
    <2>4. s.ClockMS \in Nat /\ s.ClockMS <= s.ClockMS
      BY DEF Records
    <2>5. \A p : halted(p).Cyber = s.Cyber /\ halted(p).ClockMS = s.ClockMS
      BY <2>2, <2>3
    <2>6. next.Cyber = s.Cyber /\ next.ClockMS = s.ClockMS
      BY <2>2, <2>3
    <2> HIDE DEF halted, next
    <2> QED BY <2>1, <2>4, <2>5, <2>6 DEF SameCharges
  <1> QED BY <1>1 DEF ObserveTerminal, SameCharges, Records

LEMMA ObserveCharges ==
    ASSUME NEW s0 \in Records, NEW o \in Observations, NEW d, NEW proven \in BOOLEAN,
           NEW id \in Nat, NEW jitter \in Nat, NEW wall \in Nat
    PROVE  SameCharges(s0, Observe(s0, o, wall, d, proven, id, jitter))
  <1> DEFINE s  == Clocked(s0, wall)
             s1 == IF HasPending(s) /\ s.Pending.result = 0 /\ o.turn \notin {0, s.Pending.failure}
                   THEN Cancel(s) ELSE s
             s2 == IF HasPending(s1) /\ s1.Pending.result \notin {0, o.turn}
                   THEN Cancel(s1) ELSE s1
             t  == ObserveTerminal(s2, o, d, proven, id, jitter)
  <1>1. s \in Records /\ SameCharges(s0, s)
    BY ClockedType, ClockedCharges
  <1> HIDE DEF s
  <1>2. s1 \in Records /\ SameCharges(s, s1)
    <2>1. Cancel(s) \in Records /\ SameCharges(s, Cancel(s))
      BY <1>1, CancelType, CancelCharges
    <2> QED BY <1>1, <2>1 DEF SameCharges, Records
  <1> HIDE DEF s1
  <1>3. s2 \in Records /\ SameCharges(s1, s2)
    <2>1. Cancel(s1) \in Records /\ SameCharges(s1, Cancel(s1))
      BY <1>2, CancelType, CancelCharges
    <2> QED BY <1>2, <2>1 DEF SameCharges, Records
  <1> HIDE DEF s2
  <1>4. SameCharges(s2, t)
    BY <1>3, ObserveTerminalCharges
  <1>5. SameCharges(s, Enroll(s, o))
    BY <1>1, EnrollCharges
  <1>6. Observe(s0, o, wall, d, proven, id, jitter) \in {Enroll(s, o), s, s1, t}
    BY DEF Observe, s, s1, s2
  <1> HIDE DEF t
  <1>7. SameCharges(s0, Enroll(s, o)) /\ SameCharges(s0, s1)
    BY <1>1, <1>2, <1>5, SameSelf, SameChain
  <1>8. SameCharges(s0, s2)
    BY <1>3, <1>7, SameSelf, SameChain
  <1>9. SameCharges(s0, t)
    BY <1>4, <1>8, SameSelf, SameChain
  <1> QED BY <1>1, <1>6, <1>7, <1>9

\* A charge is reserved at the record's clock; those that expired and the
\* attempt's own are the only ones that go.
LEMMA ReserveCharges ==
    ASSUME NEW s \in Records, NEW wall \in Nat, IsFiniteSet(s.Cyber)
    PROVE  LET r == ReserveUnsubmitted(s, wall) IN
           /\ Carried(s, r, s.Pending.id)
           /\ HasPending(r) => Reservation(r)
  <1> DEFINE c    == Clocked(s, wall)
             kept == {x \in LiveCharges(c, c.ClockMS) : x.id # c.Pending.id}
             charge == [id |-> c.Pending.id, at |-> c.ClockMS, accepted |-> FALSE]
             over == [c EXCEPT !.Cyber = kept, !.Phase = "exhausted",
                               !.DeadlineMS = 0, !.Pending = NoPending]
             more == kept \cup {charge}
             held == [c EXCEPT !.Cyber = more, !.Pending.charged = c.ClockMS]
  <1>1. /\ c \in Records /\ c.Pending = s.Pending /\ c.Cyber = s.Cyber /\ c.Class = s.Class
        /\ s.ClockMS <= c.ClockMS /\ c.ClockMS \in Nat /\ s.Cyber \subseteq Charges
    BY ClockedType, ClockedCharges DEF SameCharges, Records
  <1> HIDE DEF c
  <1>2. /\ kept \subseteq s.Cyber /\ IsFiniteSet(kept) /\ Cardinality(kept) \in Nat
        /\ \A x \in s.Cyber : x.at + Window > c.ClockMS /\ x.id # s.Pending.id => x \in kept
    <2>1. kept \subseteq s.Cyber /\ \A x \in s.Cyber :
             x.at + Window > c.ClockMS /\ x.id # s.Pending.id => x \in kept
      BY <1>1 DEF LiveCharges
    <2> HIDE DEF kept
    <2> QED BY <2>1, FS_Subset, FS_CardinalityType
  <1>3. charge.id = s.Pending.id /\ charge.at = c.ClockMS
    BY <1>1
  <1> HIDE DEF kept, charge
  <1>4. \A x \in s.Cyber : x.at \in Nat
    BY <1>1 DEF Charges
  <1>5. Carried(s, over, s.Pending.id) /\ ~HasPending(over)
    <2>1. over.Cyber = kept /\ over.ClockMS = c.ClockMS /\ over.Pending = NoPending
      BY <1>1 DEF Records
    <2> HIDE DEF over
    <2> QED BY <1>1, <1>2, <1>4, <2>1 DEF Carried, HasPending, NoPending
  <1>6. Carried(s, held, s.Pending.id)
    <2>1. held.Cyber = more /\ held.ClockMS = c.ClockMS
      BY <1>1 DEF Records
    <2>2. IsFiniteSet(more) /\ kept \subseteq more
      BY <1>2, FS_AddElement
    <2> HIDE DEF held, more
    <2> QED BY <1>1, <1>2, <1>4, <2>1, <2>2 DEF Carried
  <1>7. ASSUME ~(Cardinality(kept) >= CyberLimit) PROVE Reservation(held)
    <2>1. /\ held.Cyber = more /\ held.ClockMS = c.ClockMS
          /\ held.Pending.id = s.Pending.id /\ held.Pending.charged = c.ClockMS
      BY <1>1 DEF Records, PendingType
    <2>2. Cardinality(more) <= Cardinality(kept) + 1 /\ Cardinality(more) \in Nat
      <3>1. Cardinality(more) = IF charge \in kept THEN Cardinality(kept) ELSE Cardinality(kept) + 1
        BY <1>2, FS_AddElement
      <3> QED BY <1>2, <3>1
    <2>3. Cardinality(more) <= CyberLimit
      BY <1>2, <1>7, <2>2, RecordAssumption
    <2>4. charge \in more
      OBVIOUS
    <2> HIDE DEF held, more
    <2> QED BY <1>3, <2>1, <2>3, <2>4 DEF Reservation
  <1>8. CASE s.Class # "cybersecurity"
    <2>1. ReserveUnsubmitted(s, wall) = s
      BY <1>8 DEF ReserveUnsubmitted
    <2>2. Carried(s, s, s.Pending.id)
      BY <1>4, SameSelf DEF Carried, Records
    <2> QED BY <1>8, <2>1, <2>2 DEF Reservation
  <1>9. CASE s.Class = "cybersecurity"
    <2>1. ReserveUnsubmitted(s, wall) = IF Cardinality(kept) >= CyberLimit THEN over ELSE held
      BY <1>9 DEF ReserveUnsubmitted, c, kept, charge
    <2> HIDE DEF over, held
    <2> QED BY <1>5, <1>6, <1>7, <2>1
  <1> QED BY <1>8, <1>9

\* Begin reserves for the attempt it starts.
LEMMA BeginCharges ==
    ASSUME NEW s \in Records, NEW wall \in Nat, IsFiniteSet(s.Cyber)
    PROVE  LET r == Begin(s, wall) IN
           /\ Carried(s, r, s.Pending.id)
           /\ HasPending(r) => Reservation(r)
  <1> DEFINE c == Clocked(s, wall)
             r == ReserveUnsubmitted(c, wall)
             b == [r EXCEPT !.Phase = "submitting", !.DeadlineMS = 0,
                            !.Capacity = IF s.Class = "capacity" THEN @ + 1 ELSE @]
  <1>1. c \in Records /\ c.Pending = s.Pending /\ SameCharges(s, c)
    BY ClockedType, ClockedCharges
  <1>2. Begin(s, wall) = IF ~HasPending(r) THEN r ELSE b
    BY DEF Begin
  <1> HIDE DEF c
  <1>3. r \in Records
    BY <1>1, ReserveType
  <1>4. Carried(c, r, s.Pending.id) /\ (HasPending(r) => Reservation(r))
    BY <1>1, ReserveCharges DEF SameCharges
  <1> HIDE DEF r
  <1>5. Carried(s, r, s.Pending.id)
    BY <1>1, <1>3, <1>4 DEF Carried, SameCharges, Records
  <1>6. /\ b.Cyber = r.Cyber /\ b.ClockMS = r.ClockMS /\ b.Pending = r.Pending
        /\ b.Class = r.Class
    BY <1>3 DEF Records
  <1> HIDE DEF b
  <1> QED BY <1>2, <1>4, <1>5, <1>6 DEF Carried, Reservation, HasPending

\* A receipt moves the charge of its attempt forward and drops none.
LEMMA AcceptedCharges ==
    ASSUME NEW s0 \in Records, NEW turn \in Nat, NEW wall \in Nat, NEW fits \in BOOLEAN
    PROVE  Carried(s0, Accepted(s0, turn, wall, fits), 0)
  <1> DEFINE mine   == {c \in s0.Cyber : c.id = s0.Pending.id}
             anchor == {c \in mine : ~c.accepted}
             t == MaxOf(wall, s0.ClockMS)
             move == [c \in anchor |-> [c EXCEPT !.at = MaxOf(@, t), !.accepted = TRUE]]
             moved == {[c EXCEPT !.at = MaxOf(@, t), !.accepted = TRUE] : c \in anchor}
             cyber == (s0.Cyber \ anchor) \cup moved
             charged == MaxOf(s0.Pending.charged, t)
             k == Clocked(s0, wall)
             a == [k EXCEPT !.Cyber = cyber, !.Pending.charged = charged]
             s == IF s0.Class = "cybersecurity" /\ anchor # {} THEN a ELSE s0
             bound == [s EXCEPT !.Pending.result = turn]
             full == [bound EXCEPT !.Handled = turn, !.Phase = "blocked",
                                   !.Cancelled = TRUE, !.DeadlineMS = 0]
             ended == [bound EXCEPT !.Phase = "cancelled", !.Handled = turn]
             running == [bound EXCEPT !.Phase = "running"]
  <1>1. /\ k \in Records /\ k.Cyber = s0.Cyber /\ k.Pending = s0.Pending
        /\ k.ClockMS \in Nat /\ s0.ClockMS <= k.ClockMS
    BY ClockedType, ClockedCharges DEF SameCharges
  <1>2. s0.ClockMS \in Nat /\ t \in Nat /\ s0.Cyber \subseteq Charges /\ anchor \subseteq s0.Cyber
    BY DEF MaxOf, Records
  <1>3. IsFiniteSet(s0.Cyber) => IsFiniteSet(cyber)
    <2> SUFFICES ASSUME IsFiniteSet(s0.Cyber) PROVE IsFiniteSet(cyber)
      OBVIOUS
    <2>1. IsFiniteSet(anchor) /\ IsFiniteSet(s0.Cyber \ anchor)
      BY <1>2, FS_Subset
    <2>2. move \in Surjection(anchor, moved)
      BY DEF Surjection
    <2> HIDE DEF move, moved, anchor
    <2>3. IsFiniteSet(moved)
      BY <2>1, <2>2, FS_Surjection
    <2> QED BY <2>1, <2>3, FS_Union
  <1>4. \A c \in s0.Cyber : \E e \in cyber : e.id = c.id /\ e.at >= c.at
    <2> SUFFICES ASSUME NEW c \in s0.Cyber PROVE \E e \in cyber : e.id = c.id /\ e.at >= c.at
      OBVIOUS
    <2>1. c.at \in Nat /\ c \in Charges
      BY <1>2 DEF Charges
    <2>2. CASE c \in anchor
      <3> DEFINE e == [c EXCEPT !.at = MaxOf(@, t), !.accepted = TRUE]
      <3>1. e \in cyber
        BY <2>2
      <3>2. e.id = c.id /\ e.at >= c.at
        BY <1>2, <2>1 DEF Charges, MaxOf
      <3> QED BY <3>1, <3>2
    <2>3. CASE c \notin anchor
      <3>1. c \in cyber
        BY <2>3
      <3> HIDE DEF cyber
      <3> QED BY <2>1, <3>1
    <2> QED BY <2>2, <2>3
  <1> HIDE DEF cyber, charged
  <1>5. Accepted(s0, turn, wall, fits) \in {full, bound, ended, running}
    BY <1>1 DEF Accepted, cyber, charged
  <1> HIDE DEF k, t, anchor
  <1>6. s \in {a, s0} /\ a.Cyber = cyber /\ a.ClockMS = k.ClockMS
    BY <1>1 DEF Records
  <1>7. DOMAIN a = DOMAIN k /\ DOMAIN k = DOMAIN s0
    BY <1>1 DEF Records
  <1> HIDE DEF a
  <1>8. DOMAIN s = DOMAIN s0 /\ Carried(s0, s, 0)
    <2>1. Carried(s0, s0, 0)
      BY SameSelf, SameCarried
    <2>2. Carried(s0, a, 0)
      BY <1>1, <1>3, <1>4, <1>6 DEF Carried
    <2> QED BY <1>6, <1>7, <2>1, <2>2
  <1>9. {"Cyber", "ClockMS", "Pending"} \subseteq DOMAIN s0
    BY DEF Records
  <1> HIDE DEF s
  <1>10. \A r \in {full, bound, ended, running} : r.Cyber = s.Cyber /\ r.ClockMS = s.ClockMS
    BY <1>8, <1>9
  <1> HIDE DEF full, bound, ended, running
  <1> QED BY <1>5, <1>8, <1>10 DEF Carried

----------------------------------------------------------------------------
\* A step that makes no call and saves a record that accounts for all of them.
LEMMA SaveQuota ==
    ASSUME QuotaInv, sent' = sent, NEW s, NEW next, Save(s, next), Charged(s, sent),
           next # "send", next = "dispatch" => Reservation(s)
    PROVE  QuotaInv'
  <1>1. disk' \in {s, disk}
    BY DEF Save, Write
  <1>2. \/ pc' = "free" /\ mem' = disk'
        \/ pc' = next /\ mem' = s
    BY DEF Save, Release
  <1>3. Charged(disk', sent') /\ Charged(mem', sent')
    BY <1>1, <1>2 DEF QuotaInv, Booked
  <1>4. Reserved'
    BY <1>2 DEF Reserved, Reservation
  <1>5. SentOnce' /\ QuotaRespected'
    BY DEF QuotaInv, SentOnce, QuotaRespected, CyberSends
  <1> QED BY <1>3, <1>4, <1>5 DEF QuotaInv, Booked

\* The same for a record that has the charges of the one the step began with.
LEMMA SameQuota ==
    ASSUME TypeOK, QuotaInv, sent' = sent, NEW r \in {mem, disk}, NEW s, NEW next,
           Save(s, next), SameCharges(r, s), next \notin {"send", "dispatch"}
    PROVE  QuotaInv'
  <1>1. r \in Records /\ Charged(r, sent) /\ sent \in Seq(Sends)
    BY DEF TypeOK, QuotaInv, Booked
  <1>2. Charged(s, sent)
    BY <1>1, SameCharged
  <1> QED BY <1>2, SaveQuota

\* A record with the charges of the one the step began with, saved and kept.
LEMMA HoldQuota ==
    ASSUME TypeOK, QuotaInv, sent' = sent, NEW r \in {mem, disk}, NEW s,
           Write(s), mem' = s, SameCharges(r, s), pc' \notin {"send", "dispatch"}
    PROVE  QuotaInv'
  <1>1. r \in Records /\ Charged(r, sent) /\ sent \in Seq(Sends)
    BY DEF TypeOK, QuotaInv, Booked
  <1>2. Charged(s, sent)
    BY <1>1, SameCharged
  <1>3. disk' \in {s, disk}
    BY DEF Write
  <1> QED BY <1>2, <1>3 DEF QuotaInv, Booked, Reserved, SentOnce, QuotaRespected, CyberSends

LEMMA FreeQuota ==
    ASSUME TypeOK, QuotaInv, sent' = sent, NEW r \in {mem, disk}, NEW s,
           Write(s), Release, SameCharges(r, s)
    PROVE  QuotaInv'
  <1>1. Save(s, "free")
    BY DEF Save
  <1> QED BY <1>1, SameQuota

\* A step that makes no call and saves nothing.
LEMMA MoveQuota ==
    ASSUME TypeOK, QuotaInv, sent' = sent, disk' = disk, NEW r \in {mem, disk},
           SameCharges(r, mem'), pc' \notin {"send", "dispatch"}
    PROVE  QuotaInv'
  <1>1. r \in Records /\ Charged(r, sent) /\ sent \in Seq(Sends)
    BY DEF TypeOK, QuotaInv, Booked
  <1>2. Charged(mem', sent)
    BY <1>1, SameCharged
  <1> QED BY <1>2 DEF QuotaInv, Booked, Reserved, SentOnce, QuotaRespected, CyberSends

LEMMA ReleaseQuota ==
    ASSUME TypeOK, QuotaInv, sent' = sent, disk' = disk, Release PROVE QuotaInv'
  <1>1. mem' = disk /\ pc' = "free" /\ SameCharges(disk, disk)
    BY SameSelf DEF Release, TypeOK
  <1> QED BY <1>1, MoveQuota

\* Taking the lock, at any point but those of a dispatch.
LEMMA AcquireQuota ==
    ASSUME TypeOK, QuotaInv, NEW o, NEW s, NEW next, Acquire(o, s, next),
           s \in {disk, Bound(disk)}, next \notin {"send", "dispatch"}
    PROVE  QuotaInv'
  <1>1. disk' = disk /\ sent' = sent /\ mem' = s /\ pc' = next
    BY DEF Acquire, ghosts
  <1>2. SameCharges(disk, s)
    <2>1. disk \in Records
      BY DEF TypeOK
    <2>2. SameCharges(disk, Bound(disk))
      BY <2>1 DEF Bound, SameCharges, Records
    <2> QED BY <2>1, <2>2, SameSelf
  <1> QED BY <1>1, <1>2, MoveQuota

\* A receipt is saved with its charge.
LEMMA ReceiptQuota ==
    ASSUME TypeOK, OnceInv, QuotaInv, sent' = sent, NEW r \in Records, Charged(r, sent),
           NEW turn \in Nat, NEW wall \in Nat, NEW fits \in BOOLEAN,
           NEW next, Save(Accepted(r, turn, wall, fits), next), next \notin {"send", "dispatch"}
    PROVE  QuotaInv'
  <1> DEFINE s == Accepted(r, turn, wall, fits)
  <1>1. s \in Records
    BY AcceptedType
  <1>2. Carried(r, s, 0)
    BY AcceptedCharges
  <1>3. Save(s, next)
    OBVIOUS
  <1> HIDE DEF s
  <1>4. Charged(s, sent)
    BY <1>1, <1>2, SentIds, CarriedCharged DEF TypeOK
  <1> QED BY <1>3, <1>4, SaveQuota

LEMMA QuotaReconcile ==
    ASSUME TypeOK, OnceInv, QuotaInv, Reconcile PROVE QuotaInv'
  <1>0. /\ mem \in Records /\ disk \in Records /\ Times \subseteq Nat /\ Charged(mem, sent)
        /\ mem.Pending.id \in Ids \cup {0} /\ turnOf \in [Ids -> Nat]
    BY TurnRetryAssumption DEF TypeOK, QuotaInv, Booked
  <1>b. AfterReconcile \notin {"send", "dispatch"}
    BY DEF AfterReconcile
  <1>1. CASE ReconcileOnly
    BY <1>1, AcquireQuota DEF ReconcileOnly
  <1>2. CASE ReconcileFound
    <2> DEFINE t == turnOf[mem.Pending.id]
    <2>1. PICK wall \in Times, fits \in BOOLEAN : Save(Accepted(mem, t, wall, fits), AfterReconcile)
      BY <1>2 DEF ReconcileFound
    <2>2. t \in Nat /\ wall \in Nat /\ sent' = sent
      BY <1>0, <1>2 DEF ReconcileFound, CanAccept, HasPending
    <2> HIDE DEF t
    <2> QED BY <1>0, <1>b, <2>1, <2>2, ReceiptQuota
  <1>3. CASE ReconcileNever
    <2> DEFINE s == NeverSubmitted(mem)
               next == AfterNever(s)
    <2>1. Save(s, next) /\ sent' = sent
      BY <1>3 DEF ReconcileNever
    <2>2. next \notin {"send", "dispatch"}
      BY <1>b DEF AfterNever
    <2>3. SameCharges(mem, s)
      BY <1>0 DEF NeverSubmitted, SameCharges, Records
    <2> HIDE DEF s, next
    <2> QED BY <2>1, <2>2, <2>3, SameQuota
  <1>4. CASE ReconcileUnknown
    <2>1. SameCharges(mem, OutcomeUnknown(mem))
      BY <1>0 DEF OutcomeUnknown, SameCharges, Records
    <2>2. Save(OutcomeUnknown(mem), AfterReconcile) /\ sent' = sent
      BY <1>4 DEF ReconcileUnknown
    <2> QED BY <1>b, <2>1, <2>2, SameQuota
  <1> QED BY <1>1, <1>2, <1>3, <1>4 DEF Reconcile

\* The worker's own steps but for the call.  An attempt reserves anew each time
\* it may be sent, and none is sent without.
LEMMA QuotaStep ==
    ASSUME TypeOK, OnceInv, QuotaInv, Step, ~Send PROVE QuotaInv'
  <1>0. /\ mem \in Records /\ disk \in Records /\ Times \subseteq Nat /\ Jitters \subseteq Nat
        /\ obs \in Observations /\ latest \in Observations /\ turnOf \in [Ids -> Nat]
        /\ nextId \in Nat /\ sent \in Seq(Sends)
    BY TurnRetryAssumption DEF TypeOK
  <1>a. Charged(mem, sent) /\ IsFiniteSet(mem.Cyber)
    BY DEF QuotaInv, Booked, Charged
  <1>b. ASSUME NEW s, SameCharges(mem, s), sent' = sent,
               NEW next \in {"free", "observe", "check"}, Save(s, next)
        PROVE  QuotaInv'
    BY <1>b, SameQuota
  <1>c. ASSUME NEW s \in Records, Carried(mem, s, mem.Pending.id), sent' = sent,
               pc \in {"unsubmitted", "begin"}, HasPending(s) => Reservation(s),
               Save(s, IF HasPending(s) THEN "dispatch" ELSE "free")
        PROVE  QuotaInv'
    <2>1. \A n \in DOMAIN sent : sent[n].id # mem.Pending.id
      BY <1>c DEF OnceInv, Unsent, Answered
    <2>2. Charged(s, sent)
      BY <1>0, <1>a, <1>c, <2>1, CarriedCharged
    <2> DEFINE next == IF HasPending(s) THEN "dispatch" ELSE "free"
    <2>3. next # "send" /\ (next = "dispatch" => Reservation(s)) /\ Save(s, next)
      BY <1>c
    <2> HIDE DEF next
    <2> QED BY <1>c, <2>2, <2>3, SaveQuota
  <1>1. CASE StepLock
    BY <1>1, AcquireQuota DEF StepLock
  <1>2. CASE CheckHeld
    BY <1>0, <1>2, <1>b, SameSelf DEF CheckHeld
  <1>3. CASE NoCapacity
    <2> DEFINE s == [mem EXCEPT !.Handled = mem.Pending.failure, !.Phase = "blocked",
                                !.Cancelled = TRUE, !.DeadlineMS = 0]
    <2>1. SameCharges(mem, s)
      BY <1>0 DEF Records, SameCharges
    <2>2. Save(s, "free") /\ sent' = sent
      BY <1>3 DEF NoCapacity
    <2> HIDE DEF s
    <2> QED BY <1>b, <2>1, <2>2
  <1>4. CASE UnsubmittedDisallowed
    <2> DEFINE c == Cancel(mem)
               s == [c EXCEPT !.Phase = "cancelled"]
    <2>1. c \in Records /\ SameCharges(mem, c)
      BY <1>0, CancelType, CancelCharges
    <2>2. Save(s, "free") /\ sent' = sent
      BY <1>4 DEF UnsubmittedDisallowed
    <2> HIDE DEF c
    <2>3. SameCharges(mem, s)
      BY <2>1 DEF Records, SameCharges
    <2> HIDE DEF s
    <2> QED BY <1>b, <2>2, <2>3
  <1>5. CASE UnsubmittedRenew
    <2>1. PICK wall \in Times :
             Save(ReserveUnsubmitted(mem, wall),
                  IF HasPending(ReserveUnsubmitted(mem, wall)) THEN "dispatch" ELSE "free")
      BY <1>5 DEF UnsubmittedRenew
    <2> DEFINE s == ReserveUnsubmitted(mem, wall)
    <2>2. /\ s \in Records /\ Carried(mem, s, mem.Pending.id)
          /\ HasPending(s) => Reservation(s)
      <3>1. mem \in Records /\ wall \in Nat /\ IsFiniteSet(mem.Cyber)
        BY <1>0, <1>a
      <3> QED BY ONLY <3>1, ReserveType, ReserveCharges
    <2>3. Save(s, IF HasPending(s) THEN "dispatch" ELSE "free")
      BY <2>1
    <2>4. pc \in {"unsubmitted", "begin"} /\ sent' = sent
      BY <1>5 DEF UnsubmittedRenew
    <2> HIDE DEF s
    <2> QED BY <1>c, <2>2, <2>3, <2>4
  <1>6. CASE Decide
    <2>1. sent' = sent /\ disk' = disk /\ mem' \in {mem, disk} /\ pc' \in {"allow", "free"}
      BY <1>6 DEF Decide, Release, ghosts
    <2>2. SameCharges(mem', mem') /\ mem' \in {mem, disk}
      BY <1>0, <2>1, SameSelf
    <2> QED BY <2>1, <2>2, MoveQuota
  <1>7. CASE AllowOrCancel
    <2>1. sent' = sent
      BY <1>7 DEF AllowOrCancel
    <2>2. CASE Save(CancelKeepingPending(mem), "observe")
      <3>1. SameCharges(mem, CancelKeepingPending(mem))
        BY <1>0, KeepingCharges
      <3> QED BY <1>b, <2>1, <2>2, <3>1
    <2>3. CASE pc' = "observe" /\ UNCHANGED <<disk, mem>>
      BY <1>0, <2>1, <2>3, SameSelf, MoveQuota
    <2> QED BY <1>7, <2>2, <2>3 DEF AllowOrCancel
  <1>8. CASE ReadNative
    <2>1. sent' = sent
      BY <1>8 DEF ReadNative
    <2>2. CASE mem.Enrolled
      <3>1. pc' = "settle" /\ UNCHANGED <<disk, mem>>
        BY <1>8, <2>2 DEF ReadNative
      <3> QED BY <1>0, <2>1, <3>1, SameSelf, MoveQuota
    <2>3. CASE ~mem.Enrolled
      <3> DEFINE s == Enroll(mem, latest)
      <3>1. Write(s) /\ mem' = s /\ pc' = "enroll"
        BY <1>8, <2>3 DEF ReadNative
      <3>2. SameCharges(mem, s)
        BY <1>0, EnrollCharges
      <3> HIDE DEF s
      <3> QED BY <2>1, <3>1, <3>2, HoldQuota
    <2> QED BY <2>2, <2>3
  <1>9. CASE EnrollAgain
    <2> DEFINE b == Bound(mem)
               e == [b EXCEPT !.Baseline = latest.turn, !.BaselineActive = FALSE]
    <2>1. SameCharges(mem, b) /\ DOMAIN b = DOMAIN mem
      BY <1>0 DEF Bound, SameCharges, Records
    <2>2. (Save(b, "free") \/ Save(e, "free")) /\ sent' = sent
      BY <1>9 DEF EnrollAgain
    <2> HIDE DEF b
    <2>3. SameCharges(mem, e)
      BY <1>0, <2>1 DEF SameCharges, Records
    <2> HIDE DEF e
    <2> QED BY <1>b, <2>1, <2>2, <2>3
  <1>10. CASE Unproven
    <2> DEFINE s1 == [mem EXCEPT !.Phase = "blocked", !.Handled = obs.turn]
               s2 == [mem EXCEPT !.Phase = "blocked"]
    <2>1. SameCharges(mem, s1) /\ SameCharges(mem, s2)
      BY <1>0 DEF SameCharges, Records
    <2>2. (Save(s1, "free") \/ Save(s2, "free")) /\ sent' = sent
      BY <1>10 DEF Unproven
    <2> HIDE DEF s1, s2
    <2> QED BY <1>b, <2>1, <2>2
  <1>11. CASE Settle
    <2>1. PICK wall \in Times, jitter \in Jitters :
             LET s == Observe(mem, obs, wall, dec, Proves(mem, obs, dec), nextId, jitter)
             IN  Save(s, "check") \/ Save(s, "free")
      BY <1>11 DEF Settle
    <2> DEFINE v == Proves(mem, obs, dec)
               s == Observe(mem, obs, wall, dec, v, nextId, jitter)
    <2>2. SameCharges(mem, s)
      <3>1. /\ mem \in Records /\ obs \in Observations /\ v \in BOOLEAN
            /\ nextId \in Nat /\ wall \in Nat /\ jitter \in Nat
        BY <1>0 DEF Proves
      <3> HIDE DEF v
      <3> QED BY ONLY <3>1, ObserveCharges
    <2>3. (Save(s, "check") \/ Save(s, "free")) /\ sent' = sent
      BY <1>11, <2>1 DEF Settle
    <2> HIDE DEF s
    <2> QED BY <1>b, <2>2, <2>3
  <1>12. CASE NotDue
    BY <1>12, ReleaseQuota DEF NotDue, ghosts
  <1>13. CASE CheckDue
    <2>1. PICK wall \in Times : mem' = Clocked(mem, wall)
      BY <1>13 DEF CheckDue
    <2>2. SameCharges(mem, mem')
      BY <1>0, <2>1, ClockedCharges
    <2>3. sent' = sent /\ disk' = disk /\ pc' = "reconcile"
      BY <1>13 DEF CheckDue, ghosts
    <2> QED BY <2>2, <2>3, MoveQuota
  <1>14. CASE BeginAttempt
    <2>1. PICK wall \in Times :
             Save(Begin(mem, wall), IF HasPending(Begin(mem, wall)) THEN "dispatch" ELSE "free")
      BY <1>14 DEF BeginAttempt
    <2> DEFINE s == Begin(mem, wall)
    <2>2. /\ s \in Records /\ Carried(mem, s, mem.Pending.id)
          /\ HasPending(s) => Reservation(s)
      <3>1. mem \in Records /\ wall \in Nat /\ IsFiniteSet(mem.Cyber)
        BY <1>0, <1>a
      <3> QED BY ONLY <3>1, BeginType, BeginCharges
    <2>3. Save(s, IF HasPending(s) THEN "dispatch" ELSE "free")
      BY <2>1
    <2>4. pc \in {"unsubmitted", "begin"} /\ sent' = sent
      BY <1>14 DEF BeginAttempt
    <2> HIDE DEF s
    <2> QED BY <1>c, <2>2, <2>3, <2>4
  <1>15. CASE Prepare
    <2>1. pc = "dispatch" /\ sent' = sent /\ UNCHANGED <<disk, mem>>
      BY <1>15 DEF Prepare, ghosts
    <2>2. Reservation(mem)
      BY <2>1 DEF QuotaInv, Reserved
    <2> QED BY <2>1, <2>2 DEF QuotaInv, Booked, Reserved, SentOnce, QuotaRespected, CyberSends
  <1>16. CASE DispatchRefused
    <2> DEFINE s == [mem EXCEPT !.Phase = "blocked", !.Pending = NoPending]
    <2>1. SameCharges(mem, s)
      BY <1>0 DEF SameCharges, Records
    <2>2. Save(s, "free") /\ sent' = sent
      BY <1>16 DEF DispatchRefused
    <2> HIDE DEF s
    <2> QED BY <1>b, <2>1, <2>2
  <1>17. CASE Reply
    <2> DEFINE t == turnOf[mem.Pending.id]
    <2>1. PICK wall \in Times, fits \in BOOLEAN : Save(Accepted(mem, t, wall, fits), "free")
      BY <1>17 DEF Reply
    <2>2. t \in Nat /\ wall \in Nat /\ sent' = sent
      <3>1. mem.Pending.id \in Ids
        BY <1>17 DEF Reply, CanAccept, HasPending, TypeOK
      <3> QED BY <1>0, <1>17, <3>1 DEF Reply
    <2> HIDE DEF t
    <2> QED BY <1>0, <1>a, <2>1, <2>2, ReceiptQuota
  <1>18. CASE ReplyUnknown
    <2>1. SameCharges(mem, OutcomeUnknown(mem))
      BY <1>0 DEF OutcomeUnknown, SameCharges, Records
    <2>2. Save(OutcomeUnknown(mem), "free") /\ sent' = sent
      BY <1>18 DEF ReplyUnknown
    <2> QED BY <1>b, <2>1, <2>2
  <1> QED BY <1>1, <1>2, <1>3, <1>4, <1>5, <1>6, <1>7, <1>8, <1>9, <1>10, <1>11, <1>12,
             <1>13, <1>14, <1>15, <1>16, <1>17, <1>18 DEF Step

\* The call itself: it is dated with the clock of the record, no call is later,
\* and the calls of its window have a charge each, under different identities.
LEMMA QuotaSend ==
    ASSUME TypeOK, Core, OnceInv, QuotaInv, Send PROVE QuotaInv'
  <1> DEFINE p == mem.Pending
             k == Len(sent) + 1
             x == [id |-> p.id, failure |-> p.failure, chain |-> mem.Chain,
                   class |-> mem.Class, at |-> p.charged]
  <1>0. /\ sent \in Seq(Sends) /\ mem \in Records /\ mem.ClockMS \in Nat /\ Window \in Nat \ {0}
        /\ CyberLimit \in Nat
    BY RecordAssumption DEF TypeOK, Records
  <1>1. /\ pc = "send" /\ pc' = "await" /\ disk' = disk /\ mem' = mem /\ mem = disk
        /\ sent' = Append(sent, x)
    BY DEF Send, Core, InHand
  <1>2. \A n \in DOMAIN sent : sent[n].id # p.id
    BY <1>1 DEF OnceInv, Unsent, Answered
  <1>3. x.id = p.id /\ x.class = mem.Class /\ x.at = p.charged
    OBVIOUS
  <1> HIDE DEF x
  <1>4. /\ DOMAIN sent' = DOMAIN sent \cup {k} /\ k \notin DOMAIN sent
        /\ sent'[k] = x /\ \A n \in DOMAIN sent : sent'[n] = sent[n]
    BY <1>0, <1>1
  <1> HIDE DEF k
  <1>5. \A n \in DOMAIN sent : sent[n].at \in Nat
    <2>1. \A n \in DOMAIN sent : sent[n] \in Sends
      BY <1>0
    <2> QED BY <2>1 DEF Sends
  <1>6. SentOnce'
    BY <1>2, <1>3, <1>4 DEF QuotaInv, SentOnce
  <1>7. Reservation(mem)
    BY <1>1 DEF QuotaInv, Reserved
  <1>8. Counts(x) => x.at = mem.ClockMS
    BY <1>3, <1>7 DEF Counts, Reservation
  <1>9. Charged(mem, sent')
    <2>1. Charged(mem, sent)
      BY DEF QuotaInv, Booked
    <2>2. ASSUME Counts(x)
          PROVE  x.at <= mem.ClockMS /\ \E c \in mem.Cyber : c.id = x.id /\ c.at >= x.at
      BY <1>0, <1>3, <1>7, <1>8, <2>2 DEF Reservation, Counts
    <2> QED BY <1>4, <2>1, <2>2 DEF Charged
  <1>10. ASSUME NEW n \in CyberSends'
         PROVE  Cardinality({m \in CyberSends' : /\ sent'[m].at <= sent'[n].at
                                                 /\ sent'[m].at + Window > sent'[n].at}) <= CyberLimit
    <2> DEFINE now == sent'[n].at
               W == {m \in CyberSends' : sent'[m].at <= now /\ sent'[m].at + Window > now}
    <2>1. CyberSends' \subseteq DOMAIN sent'
      BY DEF CyberSends
    <2>2. CASE n \in DOMAIN sent /\ k \notin W
      <3>1. n \in CyberSends /\ now = sent[n].at
        BY <1>4, <2>2 DEF CyberSends
      <3>2. W = {m \in CyberSends : sent[m].at <= sent[n].at /\ sent[m].at + Window > sent[n].at}
        BY <1>4, <2>2, <3>1 DEF CyberSends
      <3> QED BY <3>1, <3>2 DEF QuotaInv, QuotaRespected
    <2>3. CASE n = k \/ k \in W
      <3>1. now = mem.ClockMS /\ mem.Class = "cybersecurity"
        <4>1. Counts(x)
          BY <1>3, <1>4, <2>3 DEF CyberSends, Counts
        <4>2. CASE n = k
          BY <1>3, <1>4, <1>8, <4>1, <4>2 DEF Counts
        <4>3. CASE n # k
          <5>1. n \in DOMAIN sent /\ Counts(sent[n]) /\ now = sent[n].at
            BY <1>4, <2>1, <4>3 DEF CyberSends, Counts
          <5>2. x.at <= now
            BY <1>4, <2>3, <4>3
          <5>3. sent[n].at <= mem.ClockMS
            BY <5>1 DEF QuotaInv, Booked, Charged
          <5> QED BY <1>0, <1>3, <1>5, <1>8, <4>1, <5>1, <5>2, <5>3 DEF Counts
        <4> QED BY <4>2, <4>3
      <3>2. \A m \in W : \E c \in mem.Cyber : c.id = sent'[m].id
        <4> SUFFICES ASSUME NEW m \in W PROVE \E c \in mem.Cyber : c.id = sent'[m].id
          OBVIOUS
        <4>1. m \in DOMAIN sent' /\ Counts(sent'[m]) /\ sent'[m].at + Window > mem.ClockMS
          BY <3>1 DEF CyberSends, Counts
        <4> QED BY <1>9, <4>1 DEF Charged
      <3> DEFINE own == [m \in W |-> CHOOSE c \in mem.Cyber : c.id = sent'[m].id]
      <3>3. \A m \in W : own[m] \in mem.Cyber /\ own[m].id = sent'[m].id
        BY <3>2
      <3>4. \A m \in W : m \in DOMAIN sent'
        BY <2>1
      <3> HIDE DEF W
      <3>5. DOMAIN own = W /\ own = [m \in W |-> own[m]]
        OBVIOUS
      <3> HIDE DEF own
      <3>6. own \in [W -> mem.Cyber]
        BY <3>3, <3>5
      <3>7. own \in Injection(W, mem.Cyber)
        <4>1. \A a, b \in W : own[a] = own[b] => a = b
          BY <1>6, <3>3, <3>4 DEF SentOnce
        <4> QED BY <3>6, <4>1 DEF Injection, IsInjective
      <3>8. IsFiniteSet(mem.Cyber) /\ Cardinality(mem.Cyber) <= CyberLimit
        BY <1>7, <1>9, <3>1 DEF Charged, Reservation
      <3>9. IsFiniteSet(W) /\ Cardinality(W) <= Cardinality(mem.Cyber)
        BY <3>7, <3>8, FS_Injection
      <3>10. Cardinality(W) \in Nat /\ Cardinality(mem.Cyber) \in Nat
        BY <3>8, <3>9, FS_CardinalityType
      <3>11. Cardinality(W) <= CyberLimit
        BY <1>0, <3>8, <3>9, <3>10
      <3> QED BY <3>11 DEF W
    <2> QED BY <1>4, <2>1, <2>2, <2>3
  <1>11. QuotaRespected'
    BY <1>10 DEF QuotaRespected
  <1>12. Reserved' /\ Booked'
    BY <1>1, <1>9 DEF Reserved, Booked
  <1> QED BY <1>6, <1>11, <1>12 DEF QuotaInv

\* The operations that compete for the lock leave every charge in place.
LEMMA QuotaCompeting ==
    ASSUME TypeOK, OnceInv, QuotaInv, Competing PROVE QuotaInv'
  <1>0. /\ mem \in Records /\ disk \in Records /\ Times \subseteq Nat
        /\ disk.Pending.id \in Ids \cup {0} /\ latest \in Observations
        /\ turnOf \in [Ids -> Nat] /\ Charged(disk, sent) /\ sent \in Seq(Sends)
    BY TurnRetryAssumption DEF TypeOK, QuotaInv, Booked
  <1>b. sent' = sent
    BY DEF Competing, BoundaryChanged, ActionLock, Acquire, Act, ManagedAdmission, StartThread,
           CancelAdmission, UpdateThreadSettings, CancelSession, BootstrapPolicy, SetPolicy, ghosts
  <1>c. /\ Cancel(disk) \in Records /\ SameCharges(disk, Cancel(disk))
        /\ Cancel(disk).Pending.id \in Ids \cup {0}
    <2>1. Cancel(disk) \in Records /\ Cancel(disk).Pending \in {NoPending, disk.Pending}
      BY <1>0, CancelType
    <2> QED BY <1>0, <2>1, CancelCharges DEF NoPending
  <1>d. ASSUME NEW s, SameCharges(disk, s), Write(s), Release PROVE QuotaInv'
    BY <1>b, <1>d, FreeQuota
  <1>1. CASE BoundaryChanged
    BY <1>1, <1>c, <1>d DEF BoundaryChanged
  <1>2. CASE ActionLock
    BY <1>2, AcquireQuota DEF ActionLock
  <1>3. CASE Act
    <2>1. PICK wall \in Times :
             Save(IF op = "stop" THEN Stop(mem) ELSE RetryNow(mem, wall), "free")
      BY <1>3 DEF Act
    <2>2. SameCharges(mem, Stop(mem)) /\ SameCharges(mem, RetryNow(mem, wall))
      BY <1>0, StopCharges, RetryNowCharges
    <2> DEFINE s == IF op = "stop" THEN Stop(mem) ELSE RetryNow(mem, wall)
    <2>3. SameCharges(mem, s) /\ Save(s, "free")
      BY <2>1, <2>2
    <2> HIDE DEF s
    <2> QED BY <1>b, <2>3, SameQuota
  <1>4. CASE ManagedAdmission
    <2> DEFINE c == Cancel(disk)
               w == IF Uncertain(c) \/ ~SameBoundary(c) THEN c ELSE Bound(c)
               e == Enroll(c, latest)
    <2>1. CASE Write(w) /\ Release
      <3>1. SameCharges(disk, c) /\ c \in Records
        BY <1>c
      <3>2. SameCharges(disk, w)
        <4> HIDE DEF c
        <4> QED BY <3>1 DEF Bound, Records, SameCharges
      <3> HIDE DEF w
      <3> QED BY <1>d, <2>1, <3>2
    <2>2. CASE Write(e) /\ pc' = "enroll" /\ mem' = e
      <3>1. SameCharges(disk, e)
        <4>1. SameCharges(c, e)
          BY <1>0, <1>c, EnrollCharges
        <4>2. SameCharges(disk, c) /\ disk.ClockMS \in Nat
          BY <1>0, <1>c, SameSelf
        <4> HIDE DEF c, e
        <4> QED BY <4>1, <4>2, SameChain
      <3> HIDE DEF e
      <3> QED BY <1>b, <2>2, <3>1, HoldQuota
    <2> QED BY <1>4, <2>1, <2>2 DEF ManagedAdmission
  <1>5. CASE StartThread
    <2>1. NoObservation \in Observations
      BY Constants
    <2>2. SameCharges(disk, Enroll(disk, NoObservation))
      BY <1>0, <2>1, EnrollCharges
    <2> QED BY <1>5, <1>d, <2>2 DEF StartThread
  <1>6. CASE CancelAdmission
    BY <1>6, <1>c, <1>d DEF CancelAdmission
  <1>7. CASE UpdateThreadSettings
    <2>1. latest.turn \in Nat
      BY <1>0 DEF Observations
    <2>2. SameCharges(disk, InvalidateSettings(disk, latest.turn))
      BY <1>0, <2>1, InvalidateCharges
    <2> QED BY <1>7, <1>d, <2>2 DEF UpdateThreadSettings
  <1>8. CASE CancelSession
    <2> DEFINE c == Cancel(disk)
               i == c.Pending.id
    <2>1. Release
      BY <1>8 DEF CancelSession
    <2>2. CASE Write(c)
      BY <1>c, <1>d, <2>1, <2>2
    <2>3. CASE Write(NeverSubmitted(c))
      <3>1. SameCharges(disk, c) /\ c \in Records
        BY <1>c
      <3> HIDE DEF c
      <3>2. SameCharges(disk, NeverSubmitted(c))
        BY <3>1 DEF NeverSubmitted, Records, SameCharges
      <3> QED BY <1>d, <2>1, <2>3, <3>2
    <2>4. CASE /\ CanAccept(c, turnOf[i])
               /\ \E wall \in Times, fits \in BOOLEAN : Write(Accepted(c, turnOf[i], wall, fits))
      <3> DEFINE t == turnOf[i]
      <3>1. PICK wall \in Times, fits \in BOOLEAN : Write(Accepted(c, t, wall, fits))
        BY <2>4
      <3>2. i \in Ids
        BY <1>c, <2>4 DEF CanAccept, HasPending
      <3>3. t \in Nat /\ wall \in Nat
        BY <1>0, <3>2
      <3>4. c \in Records /\ Charged(c, sent)
        BY <1>0, <1>c, SameCharged
      <3> HIDE DEF c, t, i
      <3>5. Save(Accepted(c, t, wall, fits), "free")
        BY <2>1, <3>1 DEF Save
      <3> QED BY <1>b, <3>3, <3>4, <3>5, ReceiptQuota
    <2> QED BY <1>8, <2>2, <2>3, <2>4 DEF CancelSession
  <1>9. CASE BootstrapPolicy \/ SetPolicy
    <2>1. disk' = disk /\ mem' = mem /\ pc' = pc
      BY <1>9 DEF BootstrapPolicy, SetPolicy, holder
    <2> QED BY <1>b, <2>1 DEF QuotaInv, Booked, Reserved, SentOnce, QuotaRespected, CyberSends
  <1> QED BY <1>1, <1>2, <1>3, <1>4, <1>5, <1>6, <1>7, <1>8, <1>9 DEF Competing

LEMMA QuotaInit == Init => QuotaInv
  <1> SUFFICES ASSUME Init PROVE QuotaInv
    OBVIOUS
  <1>1. /\ DOMAIN sent = {} /\ pc = "free" /\ disk.Cyber = {} /\ mem.Cyber = {}
    BY DEF Init, New
  <1>2. IsFiniteSet({})
    BY FS_EmptySet
  <1> QED BY <1>1, <1>2 DEF QuotaInv, Booked, Charged, Reserved, SentOnce, QuotaRespected, CyberSends

LEMMA QuotaNext ==
    ASSUME ReceiptInv, OnceInv, QuotaInv, [Next]_vars PROVE QuotaInv'
  <1>1. TypeOK /\ Core
    BY DEF ReceiptInv
  <1>2. ReceiptInv' /\ OnceInv'
    BY OnceNext
  <1>3. CASE UNCHANGED vars
    <2>1. UNCHANGED <<disk, mem, pc, sent>>
      BY <1>3 DEF vars, holder, ghosts
    <2> QED BY <1>2, <2>1 DEF QuotaInv, Booked, Reserved, SentOnce, QuotaRespected, CyberSends
  <1>4. CASE Native
    <2>1. UNCHANGED <<disk, mem, pc, sent>>
      BY <1>4 DEF Native, NativeStart, NativeFinish, Deliver, Lose, Reincarnate, holder, ghosts
    <2> QED BY <1>2, <2>1 DEF QuotaInv, Booked, Reserved, SentOnce, QuotaRespected, CyberSends
  <1>5. CASE Abort
    BY <1>1, <1>2, <1>5, ReleaseQuota DEF Abort, ghosts
  <1> QED BY <1>1, <1>2, <1>3, <1>4, <1>5, QuotaStep, QuotaSend, QuotaReconcile, QuotaCompeting DEF Next

\* Counting back one window from any cybersecurity call, at most CyberLimit
\* were made, for every limit, window and bound: a charge is saved before the
\* call it admits (ReserveUnsubmitted), goes forward with the receipt and never
\* back (Accepted), and is dropped only once its window is over or its attempt
\* is renewed, which proves that it made no call; the clock the record keeps
\* (Now) makes that so whatever the wall clock does.
THEOREM QuotaKept == Spec => []QuotaRespected
  <1> DEFINE Inv == ReceiptInv /\ OnceInv /\ QuotaInv
  <1>1. Init => Inv
    BY OnceInit, QuotaInit
  <1>2. Inv /\ [Next]_vars => Inv'
    BY OnceNext, QuotaNext
  <1>3. Inv => QuotaRespected
    BY DEF QuotaInv
  <1> QED BY <1>1, <1>2, <1>3, PTL DEF Spec

----------------------------------------------------------------------------
(***************************************************************************)
(* What is over stays over: NoSendAfterEnd and NoOldFailureContinued.      *)
(* A chain that was ended is the record's chain, cancelled or suppressed   *)
(* by the policy, or an earlier one (Shut); chains only get later, because *)
(* the turn that starts one is later than the turn handled last (Order).   *)
(* A failure that was over when its class was opted in is at the watermark *)
(* of the record or of the class, or an earlier turn (Past); an attempt    *)
(* for such a failure, or of a class that is off, belongs to a chain that  *)
(* the policy suppresses (Live).  The rest is about what the holder knows: *)
(* that its decision and its observation are not out of date where they    *)
(* are used.                                                               *)
(***************************************************************************)
Stopped(d) == {v.chain : v \in d.suppressed}

SameChoice(d, e) ==
    /\ d.capacity = e.capacity /\ d.cybersecurity = e.cybersecurity
    /\ d.capacityBaseline = e.capacityBaseline
    /\ d.cybersecurityBaseline = e.cybersecurityBaseline
    /\ Stopped(d) = Stopped(e)

BaselineOf(d, class) ==
    IF class = "cybersecurity" THEN d.cybersecurityBaseline ELSE d.capacityBaseline

\* Turn x[1] is at the watermark of the record or of class x[2].
Begun(r, t) == r.Enrolled /\ r.Baseline = t /\ ~r.BaselineActive
Spent(r, d, x) == Begun(r, x[1]) \/ BaselineOf(d, x[2]) = [turn |-> x[1], active |-> FALSE]

Order(r, now, book, turns, next) ==
    /\ r.Chain <= r.Handled /\ r.Handled <= now
    /\ HasPending(r) => /\ r.Pending.id \in Ids /\ r.Pending.id < next
                        /\ r.Enrolled /\ r.Chain # 0
                        /\ r.Chain <= r.Pending.failure /\ r.Pending.failure <= now
                        /\ book[r.Pending.id] = "accepted" => r.Chain <= turns[r.Pending.id]
    /\ r.Pending.result # 0 => r.Chain <= r.Pending.result /\ r.Pending.result <= now

Shut(r, ends, choice) ==
    \A c \in ends : c <= r.Chain /\ (c = r.Chain => r.Cancelled \/ c \in Stopped(choice))

Live(r, past, choice) ==
    /\ HasPending(r) /\ ~r.Cancelled
    /\ ~DecisionEnabled(choice, r.Class) \/ <<r.Pending.failure, r.Class>> \in past
    => r.Chain \in Stopped(choice)

Past(r, past, choice, now) ==
    \A x \in past : /\ x[1] <= now.turn
                    /\ x[1] = now.turn => now.status # "inProgress" /\ Spent(r, choice, x)

\* A record fits the rest of the state, with attempts numbered below next.
FitsUpTo(r, next) ==
    /\ Order(r, latest.turn, ledger, turnOf, next)
    /\ Shut(r, barred, policy.choice)
    /\ Live(r, old, policy.choice)
    /\ Past(r, old, policy.choice, latest)
Fits(r) == FitsUpTo(r, nextId)

Fitting == Fits(disk) /\ Fits(mem)
Sane    == Valid(disk) /\ Valid(mem)
Issued  == /\ \A i \in Ids : i >= nextId => ledger[i] \notin Out
           /\ \A i \in Ids : turnOf[i] <= latest.turn
Seen    == /\ obs.turn <= latest.turn
           /\ latest.turn = 0 => latest.status = "none"
           /\ obs.turn = 0 => obs.status = "none"
           /\ pc = "enroll" =>
                 /\ mem.Enrolled /\ ~HasPending(mem) /\ mem.Baseline = obs.turn
                 /\ mem.BaselineActive = (obs.status = "inProgress")
           /\ pc = "settle" =>
                 /\ mem.Enrolled /\ mem.Handled <= obs.turn
                 /\ \A x \in old : x[1] = obs.turn => Spent(mem, policy.choice, x)
Rest    == pc = "free" => mem = disk
Decided == dec = NoDecision \/ (pc # "free" /\ SameChoice(dec, policy.choice))
Listed  == /\ policy.present => policy.entry
           /\ ~policy.present => /\ ~policy.choice.capacity /\ ~policy.choice.cybersecurity
                                 /\ Stopped(policy.choice) = {}
Sending == pc \in {"dispatch", "send"} =>
              mem.Chain \notin barred /\ <<mem.Pending.failure, mem.Class>> \notin old

\* The inductive invariant, on top of ReceiptInv and OnceInv.
OverInv == Fitting /\ Sane /\ Issued /\ Seen /\ Rest /\ Decided /\ Listed /\ Sending

\* s carries the chain of r on: at most, it ends it, drops the attempt, or
\* learns of turn t.
Carry(r, s, t) ==
    /\ s.Chain = r.Chain
    /\ r.Cancelled => s.Cancelled
    /\ r.Enrolled => s.Enrolled /\ s.Baseline = r.Baseline /\ s.BaselineActive = r.BaselineActive
    /\ \/ s.Handled \in {r.Handled, t}
       \/ HasPending(r) /\ s.Handled = r.Pending.failure
       \/ r.Pending.result # 0 /\ s.Handled = r.Pending.result
    /\ HasPending(s) => /\ s.Pending.id = r.Pending.id /\ s.Pending.failure = r.Pending.failure
                        /\ s.Cancelled \/ s.Class = r.Class
    /\ s.Pending.result \in {0, r.Pending.result, t}

LEMMA CarryChain ==
    ASSUME NEW r, NEW s, NEW u, NEW t, Carry(r, s, t), Carry(s, u, t) PROVE Carry(r, u, t)
  BY DEF Carry, HasPending

LEMMA CarrySelf == ASSUME NEW r, NEW t PROVE Carry(r, r, t)
  BY DEF Carry, HasPending

\* What carries a fitting record on fits.
LEMMA CarryFits ==
    ASSUME NEW r \in Records, NEW s \in Records, NEW t \in Nat, Carry(r, s, t), Fits(r),
           r.Chain <= t, t <= latest.turn, latest \in Observations
    PROVE  Fits(s)
  <1>0. /\ latest.turn \in Nat
        /\ r.Chain \in Nat /\ r.Handled \in Nat /\ r.Pending.failure \in Nat /\ r.Pending.result \in Nat
        /\ s.Chain \in Nat /\ s.Handled \in Nat /\ s.Pending.failure \in Nat /\ s.Pending.result \in Nat
    BY DEF Records, PendingType, Observations
  <1>1. Order(s, latest.turn, ledger, turnOf, nextId)
    BY <1>0 DEF Fits, FitsUpTo, Order, Carry, HasPending
  <1>2. Shut(s, barred, policy.choice)
    BY DEF Fits, FitsUpTo, Shut, Carry
  <1>3. Live(s, old, policy.choice)
    BY DEF Fits, FitsUpTo, Live, Carry, HasPending
  <1>4. Past(s, old, policy.choice, latest)
    BY DEF Fits, FitsUpTo, Past, Carry, Spent, Begun
  <1> QED BY <1>1, <1>2, <1>3, <1>4 DEF Fits, FitsUpTo

----------------------------------------------------------------------------
\* The operations that carry the chain on.
LEMMA CancelCarry ==
    ASSUME NEW r \in Records, NEW t
    PROVE  Carry(r, Cancel(r), t) /\ Cancel(r).Cancelled /\ Cancel(r).Chain = r.Chain
  BY DEF Cancel, Carry, HasPending, NoPending, Records

LEMMA ClockedCarry ==
    ASSUME NEW r \in Records, NEW t, NEW wall \in Nat PROVE Carry(r, Clocked(r, wall), t)
  BY DEF Clocked, Carry, HasPending, Records

LEMMA EnrollCarry ==
    ASSUME NEW r \in Records, NEW t, NEW o PROVE Carry(r, Enroll(r, o), t)
  BY DEF Enroll, Carry, HasPending, Records

LEMMA BoundCarry ==
    ASSUME NEW r \in Records, NEW t PROVE Carry(r, Bound(r), t)
  BY DEF Bound, Carry, HasPending, Records

LEMMA KeepingCarry ==
    ASSUME NEW r \in Records, NEW t
    PROVE  Carry(r, CancelKeepingPending(r), t) /\ CancelKeepingPending(r).Cancelled
  <1>1. Cancel(r) \in Records /\ Carry(r, Cancel(r), t) /\ Cancel(r).Cancelled
    BY CancelType, CancelCarry
  <1> DEFINE c == Cancel(r)
             s == [c EXCEPT !.Pending = r.Pending]
  <1>2. CancelKeepingPending(r) = s
    BY DEF CancelKeepingPending
  <1>3. c \in Records /\ Carry(r, c, t) /\ c.Cancelled
    BY <1>1
  <1> HIDE DEF c
  <1>4. /\ s.Pending = r.Pending /\ s.Chain = c.Chain /\ s.Cancelled /\ s.Handled = c.Handled
        /\ s.Enrolled = c.Enrolled /\ s.Baseline = c.Baseline
        /\ s.BaselineActive = c.BaselineActive
    BY <1>3 DEF Records
  <1> HIDE DEF s
  <1> QED BY <1>2, <1>3, <1>4 DEF Carry, HasPending

LEMMA InvalidateCarry ==
    ASSUME NEW r \in Records, NEW t \in Nat
    PROVE  /\ Carry(r, InvalidateSettings(r, t), t)
           /\ InvalidateSettings(r, t).Cancelled
  <1> DEFINE e == [r EXCEPT !.Epoch = @ + 1]
             c == Cancel(e)
             s == [c EXCEPT !.Handled = IF t # 0 THEN t ELSE @]
  <1>1. e \in Records /\ Carry(r, e, t)
    BY DEF Carry, Records, HasPending
  <1>2. InvalidateSettings(r, t) = s
    BY DEF InvalidateSettings
  <1> HIDE DEF e
  <1>3. c \in Records /\ Carry(e, c, t) /\ c.Cancelled
    BY <1>1, CancelType, CancelCarry
  <1> HIDE DEF c
  <1>4. Carry(r, c, t)
    BY <1>1, <1>3, CarryChain
  <1>5. /\ s.Pending = c.Pending /\ s.Chain = c.Chain /\ s.Cancelled /\ s.Handled \in {c.Handled, t}
        /\ s.Enrolled = c.Enrolled /\ s.Baseline = c.Baseline
        /\ s.BaselineActive = c.BaselineActive
    BY <1>3 DEF Records
  <1> HIDE DEF s
  <1> QED BY <1>2, <1>4, <1>5 DEF Carry, HasPending

LEMMA StopCarry ==
    ASSUME NEW r \in Records, NEW t PROVE Carry(r, Stop(r), t) /\ Stop(r).Cancelled
  <1> DEFINE h == CASE ~HasPending(r) -> r.Handled
                    [] HasPending(r) /\ r.Pending.result # 0 -> r.Pending.result
                    [] OTHER -> r.Pending.failure
             e == [r EXCEPT !.Handled = h]
  <1>1. Stop(r) = IF r.Cancelled THEN r ELSE CancelKeepingPending(e)
    BY DEF Stop
  <1>2. /\ h \in Nat
        /\ \/ h = r.Handled \/ (HasPending(r) /\ h = r.Pending.failure)
           \/ (r.Pending.result # 0 /\ h = r.Pending.result)
    BY DEF Records, PendingType
  <1> HIDE DEF h
  <1>3. e \in Records /\ Carry(r, e, t)
    BY <1>2 DEF Carry, Records, HasPending
  <1> HIDE DEF e
  <1>4. Carry(r, CancelKeepingPending(e), t) /\ CancelKeepingPending(e).Cancelled
    BY <1>3, KeepingCarry, CarryChain
  <1> QED BY <1>1, <1>4, CarrySelf

LEMMA RetryNowCarry ==
    ASSUME NEW r \in Records, NEW t, NEW wall \in Nat PROVE Carry(r, RetryNow(r, wall), t)
  <1>1. Clocked(r, wall) \in Records /\ Carry(r, Clocked(r, wall), t)
    BY ClockedType, ClockedCarry
  <1> DEFINE c == Clocked(r, wall)
             s == [c EXCEPT !.DeadlineMS = MaxOf(wall, r.ClockMS)]
  <1>2. RetryNow(r, wall) \in {r, s}
    BY DEF RetryNow
  <1>3. c \in Records /\ Carry(r, c, t)
    BY <1>1
  <1> HIDE DEF c
  <1>4. Carry(c, s, t)
    BY <1>3 DEF Carry, HasPending, Records
  <1> HIDE DEF s
  <1> QED BY <1>2, <1>3, <1>4, CarryChain, CarrySelf

LEMMA ReserveCarry ==
    ASSUME NEW r \in Records, NEW t, NEW wall \in Nat
    PROVE  LET s == ReserveUnsubmitted(r, wall) IN
           Carry(r, s, t) /\ s.Cancelled = r.Cancelled /\ s.Class = r.Class
  <1> DEFINE c == Clocked(r, wall)
             kept == {x \in LiveCharges(c, c.ClockMS) : x.id # c.Pending.id}
             more == kept \cup {[id |-> c.Pending.id, at |-> c.ClockMS, accepted |-> FALSE]}
             full == [c EXCEPT !.Cyber = kept, !.Phase = "exhausted",
                               !.DeadlineMS = 0, !.Pending = NoPending]
             held == [c EXCEPT !.Cyber = more, !.Pending.charged = c.ClockMS]
  <1>1. ReserveUnsubmitted(r, wall) \in {r, full, held}
    BY DEF ReserveUnsubmitted
  <1>2. c \in Records /\ Carry(r, c, t) /\ c.Cancelled = r.Cancelled /\ c.Class = r.Class
    BY ClockedType, ClockedCarry DEF Clocked, Records
  <1> HIDE DEF kept, more, c
  <1>3. Carry(c, full, t) /\ full.Cancelled = c.Cancelled /\ full.Class = c.Class
    BY <1>2 DEF Carry, HasPending, NoPending, Records
  <1>4. Carry(c, held, t) /\ held.Cancelled = c.Cancelled /\ held.Class = c.Class
    BY <1>2 DEF Carry, HasPending, Records, PendingType
  <1> HIDE DEF full, held
  <1> QED BY <1>1, <1>2, <1>3, <1>4, CarryChain, CarrySelf

LEMMA BeginCarry ==
    ASSUME NEW r \in Records, NEW t, NEW wall \in Nat
    PROVE  LET s == Begin(r, wall) IN
           Carry(r, s, t) /\ s.Cancelled = r.Cancelled /\ s.Class = r.Class
  <1> DEFINE c == Clocked(r, wall)
             v == ReserveUnsubmitted(c, wall)
             b == [v EXCEPT !.Phase = "submitting", !.DeadlineMS = 0,
                            !.Capacity = IF r.Class = "capacity" THEN @ + 1 ELSE @]
  <1>1. Begin(r, wall) \in {v, b}
    BY DEF Begin
  <1>2. c \in Records /\ Carry(r, c, t) /\ c.Cancelled = r.Cancelled /\ c.Class = r.Class
    BY ClockedType, ClockedCarry DEF Clocked, Records
  <1> HIDE DEF c
  <1>3. v \in Records /\ Carry(c, v, t) /\ v.Cancelled = c.Cancelled /\ v.Class = c.Class
    BY <1>2, ReserveType, ReserveCarry
  <1> HIDE DEF v
  <1>4. Carry(v, b, t) /\ b.Cancelled = v.Cancelled /\ b.Class = v.Class
    BY <1>3 DEF Carry, HasPending, Records
  <1> HIDE DEF b
  <1> QED BY <1>1, <1>2, <1>3, <1>4, CarryChain

LEMMA AcceptedCarry ==
    ASSUME NEW r \in Records, NEW t \in Nat, NEW wall \in Nat, NEW fits \in BOOLEAN
    PROVE  Carry(r, Accepted(r, t, wall, fits), t)
  <1> DEFINE mine   == {c \in r.Cyber : c.id = r.Pending.id}
             anchor == {c \in mine : ~c.accepted}
             now == MaxOf(wall, r.ClockMS)
             k == Clocked(r, wall)
             cyber == (k.Cyber \ anchor) \cup
                         {[c EXCEPT !.at = MaxOf(@, now), !.accepted = TRUE] : c \in anchor}
             charged == MaxOf(k.Pending.charged, now)
             a == [k EXCEPT !.Cyber = cyber, !.Pending.charged = charged]
             s == IF r.Class = "cybersecurity" /\ anchor # {} THEN a ELSE r
             bound == [s EXCEPT !.Pending.result = t]
             full == [bound EXCEPT !.Handled = t, !.Phase = "blocked",
                                   !.Cancelled = TRUE, !.DeadlineMS = 0]
             ended == [bound EXCEPT !.Phase = "cancelled", !.Handled = t]
             running == [bound EXCEPT !.Phase = "running"]
  <1>1. k \in Records /\ Carry(r, k, t)
    BY ClockedType, ClockedCarry
  <1>2. Accepted(r, t, wall, fits) \in {full, bound, ended, running}
    BY <1>1 DEF Accepted, Records
  <1> HIDE DEF k, cyber, charged, anchor
  <1>3. a.Pending.id = k.Pending.id /\ DOMAIN a.Pending = DOMAIN k.Pending /\ DOMAIN a = DOMAIN k
    BY <1>1 DEF Records, PendingType
  <1>4. Carry(k, a, t)
    BY <1>1 DEF Carry, HasPending, Records, PendingType
  <1>5. /\ DOMAIN r = DOMAIN New /\ DOMAIN r.Pending = DOMAIN NoPending
        /\ DOMAIN k = DOMAIN New /\ DOMAIN k.Pending = DOMAIN NoPending
    BY <1>1 DEF Records, PendingType, New, NoPending
  <1> HIDE DEF a
  <1>6. Carry(r, s, t) /\ DOMAIN s = DOMAIN New /\ DOMAIN s.Pending = DOMAIN NoPending
    BY <1>1, <1>3, <1>4, <1>5, CarryChain, CarrySelf
  <1> HIDE DEF s
  <1>7. /\ bound.Chain = s.Chain /\ bound.Cancelled = s.Cancelled /\ bound.Enrolled = s.Enrolled
        /\ bound.Baseline = s.Baseline /\ bound.BaselineActive = s.BaselineActive
        /\ bound.Handled = s.Handled /\ bound.Class = s.Class /\ bound.Pending.id = s.Pending.id
        /\ bound.Pending.failure = s.Pending.failure /\ bound.Pending.result = t
        /\ DOMAIN bound = DOMAIN New
    BY <1>6 DEF New, NoPending
  <1> HIDE DEF bound
  <1>8. Carry(s, bound, t)
    BY <1>7 DEF Carry, HasPending
  <1>9. Carry(bound, full, t)
    BY <1>7 DEF Carry, HasPending, New
  <1>10. Carry(bound, ended, t)
    BY <1>7 DEF Carry, HasPending, New
  <1>11. Carry(bound, running, t)
    BY <1>7 DEF Carry, HasPending, New
  <1> HIDE DEF full, ended, running
  <1> QED BY <1>2, <1>6, <1>8, <1>9, <1>10, <1>11, CarryChain

LEMMA NeverCarry ==
    ASSUME NEW r \in Records, NEW t PROVE Carry(r, NeverSubmitted(r), t)
  BY DEF NeverSubmitted, Carry, HasPending, NoPending, Records

LEMMA UnknownCarry ==
    ASSUME NEW r \in Records, NEW t PROVE Carry(r, OutcomeUnknown(r), t)
  BY DEF OutcomeUnknown, Carry, HasPending, Records

\* The holder's own edits of the record.
LEMMA EditCarry ==
    ASSUME NEW r \in Records, NEW t, NEW h \in Nat, NEW phase,
           h \in {r.Handled, t} \/ (HasPending(r) /\ h = r.Pending.failure)
    PROVE  /\ Carry(r, [r EXCEPT !.Phase = phase], t)
           /\ Carry(r, [r EXCEPT !.Phase = phase, !.Handled = h], t)
           /\ Carry(r, [r EXCEPT !.Handled = h], t)
           /\ Carry(r, [r EXCEPT !.Handled = h, !.Phase = phase,
                                 !.Cancelled = TRUE, !.DeadlineMS = 0], t)
           /\ Carry(r, [r EXCEPT !.Phase = phase, !.Pending = NoPending], t)
  BY DEF Carry, HasPending, NoPending, Records

\* s is what Observe leaves of r when it schedules, or would schedule, an
\* attempt for the failed turn of o.
Renewed(r, s, o, d, id) ==
    /\ o.status = "failed"
    /\ DecisionEnabled(d, s.Class)
    /\ BaselineOf(d, s.Class) # [turn |-> o.turn, active |-> FALSE]
    /\ ~Begun(r, o.turn) /\ o.turn # r.Handled
    /\ s.Handled = o.turn
    /\ s.Enrolled = r.Enrolled /\ s.Baseline = r.Baseline /\ s.BaselineActive = r.BaselineActive
    /\ HasPending(s) => s.Pending.id = id /\ s.Pending.failure = o.turn
    /\ s.Pending.result = 0
    /\ \/ s.Chain = r.Chain /\ (r.Cancelled => s.Cancelled) /\ HasPending(r)
       \/ s.Chain = o.turn

LEMMA ScheduleRenews ==
    ASSUME NEW r \in Records, NEW o, NEW d, NEW proven \in BOOLEAN, NEW id, NEW jitter
    PROVE  LET s == Schedule(r, o, d, proven, id, jitter) IN
           /\ s.Handled = o.turn /\ s.Class = ClassOf(o.code)
           /\ s.Enrolled = r.Enrolled /\ s.Baseline = r.Baseline
           /\ s.BaselineActive = r.BaselineActive
           /\ HasPending(s) => s.Pending.id = id /\ s.Pending.failure = o.turn
           /\ s.Pending.result = 0
           /\ \/ s.Chain = r.Chain /\ s.Cancelled = r.Cancelled /\ HasPending(r)
              \/ s.Chain = o.turn
  <1> DEFINE class == ClassOf(o.code)
             base == IF HasPending(r) /\ r.Pending.result = o.turn /\ ~r.Cancelled
                     THEN [r EXCEPT !.Handled = o.turn, !.Class = class]
                     ELSE [r EXCEPT !.Handled = o.turn, !.Class = class,
                                    !.Chain = o.turn, !.Capacity = 0, !.Cancelled = FALSE]
             halted(p) == [base EXCEPT !.Phase = p, !.Pending = NoPending, !.DeadlineMS = 0]
             next == [base EXCEPT
                !.Pending = [id |-> id, failure |-> o.turn, epoch |-> r.Epoch,
                             charged |-> 0, result |-> 0],
                !.Phase = "scheduled",
                !.DeadlineMS = IF class = "capacity"
                               THEN r.ClockMS + CapacityDelay(base.Capacity) + jitter
                               ELSE r.ClockMS]
             s == Schedule(r, o, d, proven, id, jitter)
  <1>1. s \in {halted("blocked"), halted("exhausted"), next}
    BY DEF Schedule
  <1>2. /\ base.Handled = o.turn /\ base.Class = class /\ base.Enrolled = r.Enrolled
        /\ base.Baseline = r.Baseline /\ base.BaselineActive = r.BaselineActive
        /\ \/ base.Chain = r.Chain /\ base.Cancelled = r.Cancelled /\ HasPending(r)
           \/ base.Chain = o.turn
        /\ DOMAIN base = DOMAIN New
    BY DEF Records, New
  <1> HIDE DEF base, class
  <1>3. \A p : /\ halted(p).Pending = NoPending /\ halted(p).Handled = base.Handled
               /\ halted(p).Class = base.Class /\ halted(p).Enrolled = base.Enrolled
               /\ halted(p).Baseline = base.Baseline
               /\ halted(p).BaselineActive = base.BaselineActive
               /\ halted(p).Chain = base.Chain /\ halted(p).Cancelled = base.Cancelled
    BY <1>2 DEF New
  <1>4. /\ next.Pending.id = id /\ next.Pending.failure = o.turn /\ next.Pending.result = 0
        /\ next.Handled = base.Handled
        /\ next.Class = base.Class /\ next.Enrolled = base.Enrolled
        /\ next.Baseline = base.Baseline /\ next.BaselineActive = base.BaselineActive
        /\ next.Chain = base.Chain /\ next.Cancelled = base.Cancelled
    BY <1>2 DEF New
  <1> HIDE DEF s, halted, next
  <1>5. s.Pending = NoPending \/ (s.Pending.id = id /\ s.Pending.failure = o.turn /\ s.Pending.result = 0)
    BY <1>1, <1>3, <1>4
  <1>6. /\ s.Handled = base.Handled /\ s.Class = base.Class /\ s.Enrolled = base.Enrolled
        /\ s.Baseline = base.Baseline /\ s.BaselineActive = base.BaselineActive
        /\ s.Chain = base.Chain /\ s.Cancelled = base.Cancelled
    BY <1>1, <1>3, <1>4
  <1>7. s.Pending.result = 0 /\ (HasPending(s) => s.Pending.id = id /\ s.Pending.failure = o.turn)
    BY <1>5 DEF HasPending, NoPending
  <1>8. /\ s.Handled = o.turn /\ s.Class = ClassOf(o.code)
        /\ s.Enrolled = r.Enrolled /\ s.Baseline = r.Baseline /\ s.BaselineActive = r.BaselineActive
        /\ \/ s.Chain = r.Chain /\ s.Cancelled = r.Cancelled /\ HasPending(r)
           \/ s.Chain = o.turn
    BY <1>2, <1>6 DEF class
  <1> QED BY <1>7, <1>8 DEF s

LEMMA ObserveTerminalOver ==
    ASSUME NEW r \in Records, NEW o \in Observations, NEW d, NEW proven \in BOOLEAN,
           NEW id, NEW jitter
    PROVE  LET s == ObserveTerminal(r, o, d, proven, id, jitter) IN
           \/ Carry(r, s, o.turn)
           \/ o.status = "failed" /\ Eligible(d, r, o) /\ s = Schedule(r, o, d, proven, id, jitter)
  <1> DEFINE s == ObserveTerminal(r, o, d, proven, id, jitter)
             other == [r EXCEPT !.Handled = IF o.turn # 0 THEN o.turn ELSE @,
                                !.Phase = "idle", !.Pending = NoPending,
                                !.DeadlineMS = 0, !.Class = "none"]
             blocked == [r EXCEPT !.Handled = o.turn, !.Phase = "blocked",
                                  !.DeadlineMS = 0, !.Cancelled = TRUE]
             handled == [r EXCEPT !.Handled = o.turn]
             ended == [r EXCEPT !.Class = ClassOf(o.code), !.Cancelled = TRUE,
                                !.DeadlineMS = 0, !.Phase = "cancelled", !.Handled = o.turn]
  <1>1. \/ s \in {other, blocked, handled, ended, r}
        \/ o.status = "failed" /\ Eligible(d, r, o) /\ s = Schedule(r, o, d, proven, id, jitter)
    BY DEF ObserveTerminal
  <1>2. Carry(r, other, o.turn)
    BY DEF Carry, HasPending, NoPending, Records
  <1>3. Carry(r, blocked, o.turn)
    BY DEF Carry, HasPending, Records
  <1>4. Carry(r, handled, o.turn)
    BY DEF Carry, HasPending, Records
  <1>5. Carry(r, ended, o.turn)
    BY DEF Carry, HasPending, Records
  <1> HIDE DEF s, other, blocked, handled, ended
  <1>6. \/ Carry(r, s, o.turn)
        \/ o.status = "failed" /\ Eligible(d, r, o) /\ s = Schedule(r, o, d, proven, id, jitter)
    BY <1>1, <1>2, <1>3, <1>4, <1>5, CarrySelf
  <1> QED BY <1>6 DEF s

\* State.Observe carries the chain on, or starts an attempt for a failure that
\* is neither handled nor at a watermark.
LEMMA ObserveOver ==
    ASSUME NEW r \in Records, NEW o \in Observations, NEW d, NEW proven \in BOOLEAN,
           NEW id \in Nat, NEW jitter \in Nat, NEW wall \in Nat, r.Enrolled
    PROVE  LET s == Observe(r, o, wall, d, proven, id, jitter) IN
           Carry(r, s, o.turn) \/ Renewed(r, s, o, d, id)
  <1> DEFINE c  == Clocked(r, wall)
             s1 == IF HasPending(c) /\ c.Pending.result = 0 /\ o.turn \notin {0, c.Pending.failure}
                   THEN Cancel(c) ELSE c
             s2 == IF HasPending(s1) /\ s1.Pending.result \notin {0, o.turn}
                   THEN Cancel(s1) ELSE s1
             u  == ObserveTerminal(s2, o, d, proven, id, jitter)
             s  == Observe(r, o, wall, d, proven, id, jitter)
  <1>1. /\ c \in Records /\ Carry(r, c, o.turn)
        /\ c.Enrolled /\ c.Handled = r.Handled
    BY ClockedType, ClockedCarry DEF Clocked, Records
  <1> HIDE DEF c
  <1>2. s1 \in Records /\ Carry(c, s1, o.turn) /\ s1.Handled = r.Handled
    <2>1. Cancel(c) \in Records /\ Carry(c, Cancel(c), o.turn)
      BY <1>1, CancelType, CancelCarry
    <2>2. c.Pending.result = 0 => Cancel(c).Handled = c.Handled
      BY <1>1 DEF Cancel, Records
    <2> QED BY <1>1, <2>1, <2>2, CarrySelf
  <1> HIDE DEF s1
  <1>3. s2 \in Records /\ Carry(s1, s2, o.turn)
    <2>1. Cancel(s1) \in Records /\ Carry(s1, Cancel(s1), o.turn)
      BY <1>2, CancelType, CancelCarry
    <2> QED BY <1>2, <2>1, CarrySelf
  <1> HIDE DEF s2
  <1>4. Carry(r, s1, o.turn) /\ Carry(r, s2, o.turn)
    BY <1>1, <1>2, <1>3, CarryChain
  <1>5. \/ s \in {c, s1}
        \/ s = u /\ o.turn # s1.Handled /\ ~(o.turn = s1.Baseline /\ ~s1.BaselineActive)
    BY <1>1 DEF Observe, c, s1, s2
  <1>6. ASSUME s = u, o.turn # s1.Handled, ~(o.turn = s1.Baseline /\ ~s1.BaselineActive)
        PROVE  Carry(r, s, o.turn) \/ Renewed(r, s, o, d, id)
    <2>1. CASE Carry(s2, u, o.turn)
      BY <1>4, <1>6, <2>1, CarryChain
    <2>2. CASE o.status = "failed" /\ Eligible(d, s2, o) /\ u = Schedule(s2, o, d, proven, id, jitter)
      <3> HIDE DEF s, u
      <3>1. /\ u.Handled = o.turn /\ u.Class = ClassOf(o.code)
            /\ u.Enrolled = s2.Enrolled /\ u.Baseline = s2.Baseline
            /\ u.BaselineActive = s2.BaselineActive
            /\ HasPending(u) => u.Pending.id = id /\ u.Pending.failure = o.turn
            /\ u.Pending.result = 0
            /\ \/ u.Chain = s2.Chain /\ u.Cancelled = s2.Cancelled /\ HasPending(s2)
               \/ u.Chain = o.turn
        BY <1>3, <2>2, ScheduleRenews
      <3>2. /\ DecisionEnabled(d, u.Class)
            /\ BaselineOf(d, u.Class) # [turn |-> o.turn, active |-> FALSE]
        BY <2>2, <3>1 DEF Eligible, BaselineOf
      <3>3. ~Begun(r, o.turn) /\ o.turn # r.Handled
        BY <1>2, <1>4, <1>6 DEF Begun, Carry
      <3>4. /\ u.Enrolled = r.Enrolled /\ u.Baseline = r.Baseline
            /\ u.BaselineActive = r.BaselineActive
            /\ \/ u.Chain = r.Chain /\ (r.Cancelled => u.Cancelled) /\ HasPending(r)
               \/ u.Chain = o.turn
        BY <1>1, <1>3, <1>4, <3>1 DEF Carry, HasPending, Records
      <3> QED BY <1>6, <2>2, <3>1, <3>2, <3>3, <3>4 DEF Renewed
    <2> QED BY <1>3, <2>1, <2>2, ObserveTerminalOver
  <1> HIDE DEF s, u
  <1>7. Carry(r, s, o.turn) \/ Renewed(r, s, o, d, id)
    BY <1>1, <1>4, <1>5, <1>6
  <1> QED BY <1>7 DEF s

\* An attempt for a new failure fits: its chain is later than any that was
\* ended, and its failure was not over when its class was opted in.
LEMMA RenewedFits ==
    ASSUME NEW r \in Records, NEW s \in Records, NEW o \in Observations, NEW d, NEW id \in Nat,
           NEW next \in Nat, Renewed(r, s, o, d, id), Fits(r), SameChoice(d, policy.choice),
           latest \in Observations, o.turn <= latest.turn, r.Handled <= o.turn,
           o.turn = 0 => o.status = "none", r.Enrolled, barred \subseteq Nat,
           \A x \in old : x[1] = o.turn => Spent(r, policy.choice, x),
           HasPending(s) => id \in Ids /\ id < next /\ ledger[id] # "accepted"
    PROVE  FitsUpTo(s, next)
  <1>0. /\ latest.turn \in Nat /\ o.turn \in Nat /\ r.Chain \in Nat /\ r.Handled \in Nat
        /\ s.Chain \in Nat /\ s.Handled \in Nat
    BY DEF Records, Observations
  <1>1. r.Chain <= r.Handled /\ (HasPending(r) => r.Chain # 0)
    BY DEF Fits, FitsUpTo, Order
  <1>2. r.Chain < o.turn
    BY <1>0, <1>1 DEF Renewed
  <1>3. Order(s, latest.turn, ledger, turnOf, next)
    BY <1>0, <1>1, <1>2 DEF Order, Renewed, HasPending
  <1>4. Shut(s, barred, policy.choice)
    <2> SUFFICES ASSUME NEW c \in barred
                 PROVE  c <= s.Chain /\ (c = s.Chain => s.Cancelled \/ c \in Stopped(policy.choice))
      BY DEF Shut
    <2>1. /\ c \in Nat /\ c <= r.Chain
          /\ c = r.Chain => r.Cancelled \/ c \in Stopped(policy.choice)
      BY DEF Fits, FitsUpTo, Shut
    <2> QED BY <1>0, <1>2, <2>1 DEF Renewed
  <1>5. /\ DecisionEnabled(policy.choice, s.Class)
        /\ BaselineOf(policy.choice, s.Class) # [turn |-> o.turn, active |-> FALSE]
    BY DEF Renewed, SameChoice, DecisionEnabled, BaselineOf
  <1>6. <<o.turn, s.Class>> \notin old
    <2> SUFFICES ASSUME <<o.turn, s.Class>> \in old PROVE FALSE
      OBVIOUS
    <2>1. Spent(r, policy.choice, <<o.turn, s.Class>>)
      OBVIOUS
    <2> QED BY <1>5, <2>1 DEF Spent, Renewed
  <1>7. Live(s, old, policy.choice)
    BY <1>5, <1>6 DEF Live, Renewed
  <1>8. Past(s, old, policy.choice, latest)
    BY DEF Fits, FitsUpTo, Past, Renewed, Spent, Begun
  <1> QED BY <1>3, <1>4, <1>7, <1>8 DEF FitsUpTo

----------------------------------------------------------------------------
\* What is saved validates where the record before it did.
LEMMA MarkedValid ==
    ASSUME NEW r \in Records, Valid(r)
    PROVE  /\ Valid(Cancel(r)) /\ Valid(NeverSubmitted(r)) /\ Valid(Bound(r))
           /\ \A o : Valid(Enroll(r, o))
           /\ \A wall : Valid(Clocked(r, wall))
           /\ \A t, b : Valid([r EXCEPT !.Baseline = t, !.BaselineActive = b])
           /\ \A h : Valid([r EXCEPT !.Handled = h])
           /\ \A n \in Nat : n >= r.Epoch => Valid([r EXCEPT !.Epoch = n])
  <1>1. Valid(Cancel(r))
    BY DEF Valid, Cancel, Uncertain, HasPending, NoPending, Records
  <1>2. Valid(NeverSubmitted(r))
    BY DEF Valid, NeverSubmitted, HasPending, NoPending, Records
  <1>3. Valid(Bound(r))
    BY DEF Valid, Bound, HasPending, Records
  <1>4. \A o : Valid(Enroll(r, o))
    BY DEF Valid, Enroll, HasPending, Records
  <1>5. \A wall : Valid(Clocked(r, wall))
    BY DEF Valid, Clocked, HasPending, Records
  <1>6. /\ \A t, b : Valid([r EXCEPT !.Baseline = t, !.BaselineActive = b])
        /\ \A h : Valid([r EXCEPT !.Handled = h])
    BY DEF Valid, HasPending, Records
  <1>7. \A n \in Nat : n >= r.Epoch => Valid([r EXCEPT !.Epoch = n])
    BY DEF Valid, HasPending, Records, PendingType
  <1> QED BY <1>1, <1>2, <1>3, <1>4, <1>5, <1>6, <1>7

LEMMA KeepingValid ==
    ASSUME NEW r \in Records, Valid(r) PROVE Valid(CancelKeepingPending(r))
  <1> DEFINE c == Cancel(r)
             s == [c EXCEPT !.Pending = r.Pending]
  <1>1. /\ c \in Records /\ c.Cyber = r.Cyber /\ c.Epoch = r.Epoch /\ c.Class = r.Class
        /\ c.Phase = "cancelled" \/ (Uncertain(r) /\ c.Phase = r.Phase)
    BY CancelType DEF Cancel, Records
  <1>2. CancelKeepingPending(r) = s
    BY DEF CancelKeepingPending
  <1> HIDE DEF c
  <1>3. /\ s.Pending = r.Pending /\ s.Cyber = r.Cyber /\ s.Epoch = r.Epoch /\ s.Class = r.Class
        /\ s.Phase = c.Phase
    BY <1>1 DEF Records
  <1> HIDE DEF s
  <1> QED BY <1>1, <1>2, <1>3 DEF Valid, HasPending, Uncertain

LEMMA StopValid ==
    ASSUME NEW r \in Records, Valid(r) PROVE Valid(Stop(r))
  <1> DEFINE h == CASE ~HasPending(r) -> r.Handled
                    [] HasPending(r) /\ r.Pending.result # 0 -> r.Pending.result
                    [] OTHER -> r.Pending.failure
             e == [r EXCEPT !.Handled = h]
  <1>1. Stop(r) = IF r.Cancelled THEN r ELSE CancelKeepingPending(e)
    BY DEF Stop
  <1>2. h \in Nat
    BY DEF Records, PendingType
  <1> HIDE DEF h
  <1>3. e \in Records /\ Valid(e)
    BY <1>2, MarkedValid DEF Records
  <1> HIDE DEF e
  <1> QED BY <1>1, <1>3, KeepingValid

LEMMA InvalidateValid ==
    ASSUME NEW r \in Records, Valid(r), NEW t \in Nat PROVE Valid(InvalidateSettings(r, t))
  <1> DEFINE e == [r EXCEPT !.Epoch = r.Epoch + 1]
             c == Cancel(e)
             h == IF t # 0 THEN t ELSE c.Handled
  <1>1. e \in Records /\ Valid(e)
    <2>1. r.Epoch + 1 \in Nat /\ r.Epoch + 1 >= r.Epoch
      BY DEF Records
    <2> QED BY <2>1, MarkedValid DEF Records
  <1>2. InvalidateSettings(r, t) = [c EXCEPT !.Handled = h]
    BY DEF InvalidateSettings
  <1> HIDE DEF e
  <1>3. c \in Records /\ Valid(c)
    BY <1>1, CancelType, MarkedValid
  <1> HIDE DEF c, h
  <1> QED BY <1>2, <1>3, MarkedValid

----------------------------------------------------------------------------
\* What a checkpoint leaves of the policy.
Alike(p, q) == p.present = q.present /\ p.entry = q.entry /\ SameChoice(p.choice, q.choice)

LEMMA AlikeSelf == ASSUME NEW p PROVE Alike(p, p)
  BY DEF Alike, SameChoice

LEMMA CheckpointAlike ==
    ASSUME NEW p \in Policies, NEW s, NEW fresh PROVE Alike(Checkpoint(p, s, fresh), p)
  <1> DEFINE stops == {IF HasPending(s) /\ s.Pending.result # 0
                             /\ v.chain = s.Chain /\ v.pending = s.Pending.id
                       THEN [v EXCEPT !.result = s.Pending.result] ELSE v : v \in p.choice.suppressed}
  <1>1. p.choice \in Decisions /\ p.choice.suppressed \subseteq Suppressions
    BY DEF Policies, Decisions
  <1>2. {v.chain : v \in stops} = Stopped(p.choice)
    <2> DEFINE kept(v) == IF HasPending(s) /\ s.Pending.result # 0
                             /\ v.chain = s.Chain /\ v.pending = s.Pending.id
                          THEN [v EXCEPT !.result = s.Pending.result] ELSE v
    <2>1. \A v \in Suppressions : kept(v).chain = v.chain
      BY DEF Suppressions
    <2>2. \A v \in p.choice.suppressed : kept(v).chain = v.chain
      BY <1>1, <2>1
    <2>3. stops = {kept(v) : v \in p.choice.suppressed}
      OBVIOUS
    <2> HIDE DEF kept, stops
    <2> QED BY <2>2, <2>3 DEF Stopped
  <1> HIDE DEF stops
  <1>3. CASE s.Chain = 0 \/ s.Class = "none"
    BY <1>3, AlikeSelf DEF Checkpoint
  <1>4. CASE ~(s.Chain = 0 \/ s.Class = "none")
    <2> DEFINE q == Checkpoint(p, s, fresh)
    <2>1. \E m : q = [p EXCEPT !.choice.suppressed = stops, !.summary = m]
      BY <1>4 DEF Checkpoint, stops
    <2> HIDE DEF q
    <2>2. /\ q.present = p.present /\ q.entry = p.entry
          /\ q.choice = [p.choice EXCEPT !.suppressed = stops]
      BY <2>1 DEF Policies
    <2>3. /\ q.choice.capacity = p.choice.capacity
          /\ q.choice.cybersecurity = p.choice.cybersecurity
          /\ q.choice.capacityBaseline = p.choice.capacityBaseline
          /\ q.choice.cybersecurityBaseline = p.choice.cybersecurityBaseline
          /\ q.choice.suppressed = stops
      BY <1>1, <2>2 DEF Decisions
    <2> QED BY <1>2, <2>2, <2>3 DEF Alike, SameChoice, Stopped, q
  <1> QED BY <1>3, <1>4

LEMMA OptionalAlike ==
    ASSUME NEW s, policy \in Policies, OptionalCheckpoint(s) PROVE Alike(policy', policy)
  BY AlikeSelf, CheckpointAlike DEF OptionalCheckpoint

LEMMA JoinedSame == ASSUME NEW s, CanDecide(s), OverInv PROVE Joined(policy, s) = policy
  BY DEF CanDecide, OverInv, Listed, Joined

----------------------------------------------------------------------------
\* A record fits what a step leaves of the rest of the state.
FitsThen(s) ==
    /\ Order(s, latest'.turn, ledger', turnOf', nextId')
    /\ Shut(s, barred', policy'.choice)
    /\ Live(s, old', policy'.choice)
    /\ Past(s, old', policy'.choice, latest')

LEMMA FittingThen == ASSUME FitsThen(disk'), FitsThen(mem') PROVE Fitting'
  BY DEF FitsThen, Fitting, Fits, FitsUpTo

\* Steps that leave the native thread alone, in which no attempt is accepted
\* and none leaves that has not been issued.
SameBook ==
    \A i \in Ids : /\ ledger'[i] = "accepted" => ledger[i] = "accepted"
                   /\ i >= nextId /\ ledger'[i] \in Out => ledger[i] \in Out

Calm == /\ latest' = latest /\ turnOf' = turnOf
        /\ nextId' \in Nat /\ nextId <= nextId'
        /\ Alike(policy', policy)
        /\ SameBook

LEMMA RetiredBook ==
    ASSUME ledger \in [Ids -> LedgerStates], NEW i, NEW x \in {"absent", "prepared"},
           ledger' = ledger \/ ledger' = [ledger EXCEPT ![i] = x]
    PROVE  SameBook
  BY DEF SameBook, Out

LEMMA AlikeCalm ==
    ASSUME TypeOK, latest' = latest, turnOf' = turnOf, nextId' = nextId,
           Alike(policy', policy), SameBook
    PROVE  Calm
  BY DEF Calm, TypeOK

LEMMA CalmOrder ==
    ASSUME Calm, NEW s, Order(s, latest.turn, ledger, turnOf, nextId')
    PROVE  Order(s, latest'.turn, ledger', turnOf', nextId')
  <1>1. ASSUME s.Pending.id \in Ids, ledger'[s.Pending.id] = "accepted"
        PROVE  ledger[s.Pending.id] = "accepted"
    BY <1>1 DEF Calm, SameBook
  <1>2. latest' = latest /\ turnOf' = turnOf
    BY DEF Calm
  <1> QED BY <1>1, <1>2 DEF Order

\* A record that fits goes on to, where nothing more is over.
LEMMA CalmFits ==
    ASSUME TypeOK, Calm, barred' = barred, old' = old, NEW s \in Records,
           Fits(s) \/ FitsUpTo(s, nextId')
    PROVE  FitsThen(s)
  <1>0. nextId \in Nat /\ s.Pending.id \in Nat
    BY DEF TypeOK, Records, PendingType
  <1>1. Order(s, latest.turn, ledger, turnOf, nextId')
    BY <1>0 DEF Fits, FitsUpTo, Order, Calm
  <1>2. Order(s, latest'.turn, ledger', turnOf', nextId')
    BY <1>1, CalmOrder
  <1>3. Shut(s, barred', policy'.choice)
    BY DEF Fits, FitsUpTo, Shut, Calm, Alike, SameChoice
  <1>4. Live(s, old', policy'.choice)
    BY DEF Fits, FitsUpTo, Live, Calm, Alike, SameChoice, DecisionEnabled
  <1>5. Past(s, old', policy'.choice, latest')
    BY DEF Fits, FitsUpTo, Past, Calm, Alike, SameChoice, Spent, BaselineOf
  <1> QED BY <1>2, <1>3, <1>4, <1>5 DEF FitsThen

\* When a chain ends, the record that ends it still fits.
LEMMA EndFits ==
    ASSUME TypeOK, Calm, old' = old, NEW s \in Records, Fits(s), s.Cancelled,
           barred' = barred \/ barred' = barred \cup ({s.Chain} \ {0})
    PROVE  FitsThen(s)
  <1>0. nextId \in Nat /\ s.Pending.id \in Nat /\ s.Chain \in Nat
    BY DEF TypeOK, Records, PendingType
  <1>1. Order(s, latest.turn, ledger, turnOf, nextId')
    BY <1>0 DEF Fits, FitsUpTo, Order, Calm
  <1>2. Order(s, latest'.turn, ledger', turnOf', nextId')
    BY <1>1, CalmOrder
  <1>3. Shut(s, barred', policy'.choice)
    BY <1>0 DEF Fits, FitsUpTo, Shut
  <1>4. Live(s, old', policy'.choice)
    BY DEF Live
  <1>5. Past(s, old', policy'.choice, latest')
    BY DEF Fits, FitsUpTo, Past, Calm, Alike, SameChoice, Spent, BaselineOf
  <1> QED BY <1>2, <1>3, <1>4, <1>5 DEF FitsThen

\* What is left to show of a calm step is about the record and its holder.
LEMMA HoldOver ==
    ASSUME TypeOK, OverInv, Calm, FitsThen(disk'), FitsThen(mem'), Valid(disk'), Valid(mem'),
           Rest', Decided', Seen', Sending'
    PROVE  OverInv'
  <1>1. Issued'
    <2>1. /\ nextId \in Nat /\ nextId' \in Nat /\ nextId <= nextId' /\ Ids \subseteq Nat
          /\ latest' = latest /\ turnOf' = turnOf
      BY TurnRetryAssumption DEF TypeOK, Calm, Ids
    <2>2. ASSUME NEW i \in Ids, i >= nextId', ledger'[i] \in Out PROVE FALSE
      <3>1. i >= nextId
        BY <2>1, <2>2
      <3>2. ledger[i] \in Out
        BY <2>2, <3>1 DEF Calm, SameBook
      <3> QED BY <3>1, <3>2 DEF OverInv, Issued
    <2> QED BY <2>1, <2>2 DEF OverInv, Issued
  <1>2. Listed'
    BY DEF OverInv, Listed, Calm, Alike, SameChoice
  <1>3. Fitting' /\ Sane'
    BY FittingThen DEF Sane
  <1> QED BY <1>1, <1>2, <1>3 DEF OverInv

\* What a decision and an observation are worth after the step.
LEMMA FreeKnows ==
    ASSUME TypeOK, OverInv, Calm, pc' = "free", mem' = disk', obs' = NoObservation, dec' = NoDecision
    PROVE  Rest' /\ Decided' /\ Seen' /\ Sending'
  <1>1. Seen'
    <2>1. NoObservation.turn = 0 /\ NoObservation.status = "none"
      BY DEF NoObservation
    <2>2. latest.turn \in Nat
      BY DEF TypeOK, Observations
    <2> QED BY <2>1, <2>2 DEF OverInv, Seen, Calm
  <1> QED BY <1>1 DEF Rest, Decided, Sending

LEMMA MoveKnows ==
    ASSUME OverInv, Calm, pc' \notin {"free", "enroll", "settle"}, obs' = obs, dec' = dec
    PROVE  Rest' /\ Decided' /\ Seen'
  <1>1. Decided'
    BY DEF OverInv, Decided, Calm, Alike, SameChoice
  <1>2. Seen'
    BY DEF OverInv, Seen, Calm
  <1> QED BY <1>1, <1>2 DEF Rest

\* A step that saves a record that fits.
LEMMA SaveOver ==
    ASSUME TypeOK, OverInv, Calm, barred' = barred, old' = old,
           NEW s \in Records, Fits(s) \/ FitsUpTo(s, nextId'),
           NEW next, Save(s, next), next \notin {"enroll", "settle", "send"},
           next = "dispatch" => s.Chain \notin barred /\ <<s.Pending.failure, s.Class>> \notin old
    PROVE  OverInv'
  <1>1. FitsThen(s) /\ FitsThen(disk) /\ Valid(disk)
    BY CalmFits DEF OverInv, Fitting, Sane, TypeOK
  <1>2. CASE Valid(s) /\ next # "free"
    <2>1. disk' = s /\ mem' = s /\ pc' = next /\ obs' = obs /\ dec' = dec
      BY <1>2 DEF Save, Write
    <2>2. Rest' /\ Decided' /\ Seen'
      BY <1>2, <2>1, MoveKnows
    <2>3. Sending'
      BY <2>1 DEF Sending
    <2> QED BY <1>1, <1>2, <2>1, <2>2, <2>3, HoldOver
  <1>3. CASE ~(Valid(s) /\ next # "free")
    <2>1. /\ (disk' = s /\ Valid(s)) \/ disk' = disk
          /\ mem' = disk' /\ pc' = "free" /\ obs' = NoObservation /\ dec' = NoDecision
      BY <1>3 DEF Save, Write, Release
    <2> QED BY <1>1, <2>1, FreeKnows, HoldOver
  <1> QED BY <1>2, <1>3

LEMMA FreeOver ==
    ASSUME TypeOK, OverInv, Calm, barred' = barred, old' = old,
           NEW s \in Records, Fits(s), Write(s), Release
    PROVE  OverInv'
  <1>1. Save(s, "free")
    BY DEF Save
  <1> QED BY <1>1, SaveOver

\* A step that ends a chain, saved as ended.
LEMMA EndOver ==
    ASSUME TypeOK, OverInv, Calm, old' = old, NEW s \in Records, Fits(s), Valid(s), s.Cancelled,
           barred' = barred \/ barred' = barred \cup ({s.Chain} \ {0}),
           Write(s), Release
    PROVE  OverInv'
  <1>1. /\ disk' = s /\ mem' = s /\ pc' = "free" /\ obs' = NoObservation /\ dec' = NoDecision
    BY DEF Write, Release
  <1>2. FitsThen(s)
    BY EndFits
  <1> QED BY <1>1, <1>2, FreeKnows, HoldOver

\* A step that saves nothing: the holder goes on with what it holds.
LEMMA MoveOver ==
    ASSUME TypeOK, OverInv, Calm, barred' = barred, old' = old, disk' = disk,
           NEW s \in Records, Fits(s), Valid(s), mem' = s,
           Rest', Decided', Seen', Sending'
    PROVE  OverInv'
  <1>1. FitsThen(s) /\ FitsThen(disk) /\ Valid(disk)
    BY CalmFits DEF OverInv, Fitting, Sane, TypeOK
  <1> QED BY <1>1, HoldOver

LEMMA ReleaseOver ==
    ASSUME TypeOK, OverInv, Calm, barred' = barred, old' = old, disk' = disk, Release
    PROVE  OverInv'
  <1>1. mem' = disk /\ pc' = "free" /\ obs' = NoObservation /\ dec' = NoDecision
    BY DEF Release
  <1>2. Fits(disk) /\ Valid(disk) /\ disk \in Records
    BY DEF OverInv, Fitting, Sane, TypeOK
  <1> QED BY <1>1, <1>2, FreeKnows, MoveOver

\* An attempt that the policy or the holder's decision allows continues a chain
\* and a failure that are not over.
LEMMA AllowedOpen ==
    ASSUME NEW r, NEW d, Fits(r), HasPending(r), Allows(d, r), SameChoice(d, policy.choice)
    PROVE  r.Chain \notin barred /\ <<r.Pending.failure, r.Class>> \notin old
  <1>1. r.Chain \notin Stopped(policy.choice) /\ ~r.Cancelled
    BY DEF Allows, SameChoice, Stopped
  <1>2. r.Chain \notin barred
    BY <1>1 DEF Fits, FitsUpTo, Shut
  <1>3. <<r.Pending.failure, r.Class>> \notin old
    BY <1>1 DEF Fits, FitsUpTo, Live
  <1> QED BY <1>2, <1>3

\* Taking the lock.
LEMMA AcquireOver ==
    ASSUME TypeOK, OverInv, NEW o, NEW s, NEW next, Acquire(o, s, next),
           s \in {disk, Bound(disk)}, next \notin {"free", "enroll", "settle", "send", "dispatch"}
    PROVE  OverInv'
  <1>0. disk \in Records /\ Fits(disk) /\ Valid(disk) /\ disk.Handled \in Nat
        /\ latest \in Observations /\ disk.Chain \in Nat
    BY DEF TypeOK, OverInv, Fitting, Sane, Records
  <1>1. /\ disk' = disk /\ mem' = s /\ pc' = next /\ obs' = obs /\ dec' = dec
        /\ policy' = policy /\ latest' = latest /\ turnOf' = turnOf /\ ledger' = ledger
        /\ nextId' = nextId /\ barred' = barred /\ old' = old
    BY DEF Acquire, native, ghosts
  <1>2. Calm
    BY <1>1, AlikeSelf, AlikeCalm DEF SameBook
  <1>3. s \in Records /\ Fits(s) /\ Valid(s)
    <2>1. Bound(disk) \in Records
      BY <1>0 DEF Bound, Records, TypeOK
    <2>2. Carry(disk, Bound(disk), disk.Handled) /\ Valid(Bound(disk))
      BY <1>0, BoundCarry, MarkedValid
    <2>3. disk.Chain <= disk.Handled /\ disk.Handled <= latest.turn
      BY <1>0 DEF Fits, FitsUpTo, Order
    <2>4. Fits(Bound(disk))
      BY <1>0, <2>1, <2>2, <2>3, CarryFits
    <2> QED BY <1>0, <2>1, <2>2, <2>4
  <1>4. Rest' /\ Decided' /\ Seen' /\ Sending'
    BY <1>1, <1>2, MoveKnows DEF Sending
  <1> QED BY <1>1, <1>2, <1>3, <1>4, MoveOver

\* What the holder's copy or the saved record is carried on to fits, if nothing
\* was learned or a receipt was.
LEMMA OwnFits ==
    ASSUME TypeOK, OverInv, NEW r \in {mem, disk}, NEW s \in Records, Carry(r, s, r.Handled)
    PROVE  Fits(s)
  <1>1. /\ r \in Records /\ Fits(r) /\ r.Handled \in Nat /\ latest \in Observations
    BY DEF TypeOK, OverInv, Fitting, Records
  <1>2. r.Chain <= r.Handled /\ r.Handled <= latest.turn
    BY <1>1 DEF Fits, FitsUpTo, Order
  <1> QED BY <1>1, <1>2, CarryFits

LEMMA ReceiptFits ==
    ASSUME TypeOK, OverInv, NEW r \in Records, Fits(r), HasPending(r),
           ledger[r.Pending.id] = "accepted", NEW wall \in Nat, NEW fits \in BOOLEAN
    PROVE  /\ Accepted(r, turnOf[r.Pending.id], wall, fits) \in Records
           /\ Fits(Accepted(r, turnOf[r.Pending.id], wall, fits))
  <1> DEFINE t == turnOf[r.Pending.id]
  <1>1. r.Pending.id \in Ids /\ r.Chain <= t
    BY DEF Fits, FitsUpTo, Order
  <1>2. t \in Nat /\ t <= latest.turn /\ latest \in Observations
    BY <1>1 DEF TypeOK, OverInv, Issued
  <1> HIDE DEF t
  <1>3. Accepted(r, t, wall, fits) \in Records /\ Carry(r, Accepted(r, t, wall, fits), t)
    BY <1>2, AcceptedType, AcceptedCarry
  <1>4. Fits(Accepted(r, t, wall, fits))
    BY <1>1, <1>2, <1>3, CarryFits
  <1> QED BY <1>3, <1>4 DEF t

LEMMA OverReconcile ==
    ASSUME TypeOK, OverInv, Reconcile PROVE OverInv'
  <1>0. /\ mem \in Records /\ Times \subseteq Nat /\ policy \in Policies
        /\ ledger \in [Ids -> LedgerStates] /\ Fits(mem)
    BY TurnRetryAssumption DEF TypeOK, OverInv, Fitting
  <1>b. AfterReconcile \in {"act", "free"}
    BY DEF AfterReconcile
  <1>1. CASE ReconcileOnly
    BY <1>1, AcquireOver DEF ReconcileOnly
  <1>2. CASE ReconcileFound
    <2> DEFINE t == turnOf[mem.Pending.id]
    <2>1. PICK wall \in Times, fits \in BOOLEAN :
             /\ Save(Accepted(mem, t, wall, fits), AfterReconcile)
             /\ OptionalCheckpoint(Accepted(mem, t, wall, fits)) \/ policy' = policy
      BY <1>2 DEF ReconcileFound
    <2>2. /\ latest' = latest /\ turnOf' = turnOf /\ nextId' = nextId /\ ledger' = ledger
          /\ barred' = barred /\ old' = old
      BY <1>2 DEF ReconcileFound, native
    <2>3. Alike(policy', policy)
      BY <1>0, <2>1, OptionalAlike, AlikeSelf
    <2>4. Calm
      BY <2>2, <2>3, AlikeCalm DEF SameBook
    <2>5. HasPending(mem) /\ ledger[mem.Pending.id] = "accepted" /\ wall \in Nat
      BY <1>0, <1>2 DEF ReconcileFound, CanAccept
    <2> DEFINE s == Accepted(mem, t, wall, fits)
    <2>6. s \in Records /\ Fits(s)
      BY <1>0, <2>5, ReceiptFits
    <2>7. Save(s, AfterReconcile)
      BY <2>1
    <2> HIDE DEF s
    <2> QED BY <1>b, <2>2, <2>4, <2>6, <2>7, SaveOver
  <1>3. CASE ReconcileNever
    <2> DEFINE s == NeverSubmitted(mem)
               next == AfterNever(s)
    <2>1. /\ Save(s, next) /\ latest' = latest /\ turnOf' = turnOf /\ nextId' = nextId
          /\ policy' = policy /\ barred' = barred /\ old' = old
          /\ ledger' = [ledger EXCEPT ![mem.Pending.id] = "absent"]
      BY <1>3 DEF ReconcileNever, native
    <2>2. next \in {"act", "free", "begin", "unsubmitted"}
      BY <1>b DEF AfterNever
    <2>3. s \in Records /\ Fits(s)
      BY <1>0, NeverSubmittedType, NeverCarry, OwnFits
    <2>4. Calm
      BY <1>0, <2>1, RetiredBook, AlikeSelf, AlikeCalm
    <2> HIDE DEF s, next
    <2> QED BY <2>1, <2>2, <2>3, <2>4, SaveOver
  <1>4. CASE ReconcileUnknown
    <2> DEFINE s == OutcomeUnknown(mem)
    <2>1. /\ Save(s, AfterReconcile) /\ latest' = latest /\ turnOf' = turnOf /\ nextId' = nextId
          /\ policy' = policy /\ barred' = barred /\ old' = old /\ ledger' = ledger
      BY <1>4 DEF ReconcileUnknown, native
    <2>2. s \in Records /\ Fits(s)
      BY <1>0, OutcomeUnknownType, UnknownCarry, OwnFits
    <2>3. Calm
      BY <2>1, AlikeSelf, AlikeCalm DEF SameBook
    <2> HIDE DEF s
    <2> QED BY <1>b, <2>1, <2>2, <2>3, SaveOver
  <1> QED BY <1>1, <1>2, <1>3, <1>4 DEF Reconcile

----------------------------------------------------------------------------
\* A receipt for an uncertain attempt is always saved.
LEMMA AcceptedValid ==
    ASSUME NEW r \in Records, Valid(r), Uncertain(r), IsFiniteSet(r.Cyber),
           NEW turn \in Nat, NEW wall \in Nat, NEW fits \in BOOLEAN
    PROVE  Valid(Accepted(r, turn, wall, fits))
  <1> DEFINE mine   == {c \in r.Cyber : c.id = r.Pending.id}
             anchor == {c \in mine : ~c.accepted}
             t == MaxOf(wall, r.ClockMS)
             f(c) == [c EXCEPT !.at = MaxOf(@, t), !.accepted = TRUE]
             g(c) == IF c \in anchor THEN f(c) ELSE c
             cyber == (r.Cyber \ anchor) \cup {f(c) : c \in anchor}
             k == Clocked(r, wall)
             a == [k EXCEPT !.Cyber = (@ \ anchor) \cup {f(c) : c \in anchor},
                            !.Pending.charged = MaxOf(@, t)]
             s == IF r.Class = "cybersecurity" /\ anchor # {} THEN a ELSE r
             bound == [s EXCEPT !.Pending.result = turn]
             full == [bound EXCEPT !.Handled = turn, !.Phase = "blocked",
                                   !.Cancelled = TRUE, !.DeadlineMS = 0]
             ended == [bound EXCEPT !.Phase = "cancelled", !.Handled = turn]
             running == [bound EXCEPT !.Phase = "running"]
             v == Accepted(r, turn, wall, fits)
  <1>1. v \in {full, bound, ended, running}
    BY DEF Accepted, Clocked, Records
  <1>2. /\ t \in Nat /\ r.Cyber \subseteq Charges /\ anchor \subseteq r.Cyber
        /\ r.Pending.charged \in Nat
    BY DEF MaxOf, Records, PendingType
  <1> HIDE DEF t
  <1>3. \A c \in anchor : /\ f(c).id = c.id /\ f(c).at = MaxOf(c.at, t) /\ f(c).at >= c.at
                          /\ c.at \in Nat /\ f(c).at \in Nat
    BY <1>2 DEF Charges, MaxOf
  <1>4. \A c, d \in r.Cyber : c.id = d.id => c = d
    BY DEF Valid
  <1>5. Cardinality(cyber) <= CyberLimit + 1
    <2> DEFINE h == [c \in r.Cyber |-> g(c)]
    <2>1. h \in Surjection(r.Cyber, cyber)
      BY <1>2 DEF Surjection
    <2> HIDE DEF cyber, h
    <2>2. IsFiniteSet(cyber) /\ Cardinality(cyber) <= Cardinality(r.Cyber)
      BY <2>1, FS_Surjection
    <2>3. /\ Cardinality(cyber) \in Nat /\ Cardinality(r.Cyber) \in Nat /\ CyberLimit \in Nat
          /\ Cardinality(r.Cyber) <= CyberLimit + 1
      BY <2>2, FS_CardinalityType, RecordAssumption DEF Valid
    <2> QED BY <2>2, <2>3
  <1>6. \A c \in cyber : c.at > 0
    <2> SUFFICES ASSUME NEW c \in cyber PROVE c.at > 0
      OBVIOUS
    <2>1. CASE c \in r.Cyber
      BY <2>1 DEF Valid
    <2>2. CASE c \notin r.Cyber
      <3>1. PICK d \in anchor : c = f(d)
        BY <2>2
      <3>2. d.at > 0
        BY <1>2 DEF Valid
      <3> HIDE DEF anchor, f
      <3> QED BY <1>3, <3>1, <3>2
    <2> QED BY <2>1, <2>2
  <1>7. \A c, d \in cyber : c.id = d.id => c = d
    <2>1. ASSUME NEW c \in cyber PROVE \E b \in r.Cyber : c = g(b) /\ c.id = b.id
      <3>1. CASE c \in r.Cyber \ anchor
        BY <3>1
      <3>2. CASE c \notin r.Cyber \ anchor
        <4>1. PICK b \in anchor : c = f(b)
          BY <3>2
        <4>2. c.id = b.id /\ b \in r.Cyber
          BY <1>2, <1>3, <4>1
        <4>3. c = g(b)
          BY <4>1
        <4> QED BY <4>2, <4>3
      <3> QED BY <3>1, <3>2
    <2> HIDE DEF g, cyber
    <2> QED BY <1>4, <2>1
  <1>8. r.Class = "cybersecurity" => r.Pending.charged # 0
    BY DEF Valid, Uncertain
  <1>9. r.Pending.charged # 0 => \E c \in mine : c.at = r.Pending.charged
    BY DEF Valid, Uncertain
  <1>10. ASSUME r.Class = "cybersecurity", anchor # {}
         PROVE  \E c \in cyber : c.id = r.Pending.id /\ c.at = MaxOf(r.Pending.charged, t)
    <2>1. PICK c \in mine : c.at = r.Pending.charged
      BY <1>8, <1>9, <1>10
    <2>2. \A d \in mine : d = c
      BY <1>4, <2>1
    <2>3. c \in anchor
      BY <1>10, <2>2
    <2>4. f(c) \in cyber /\ f(c).id = c.id /\ f(c).at = MaxOf(c.at, t)
      BY <1>3, <2>3
    <2> HIDE DEF f, cyber
    <2> QED BY <2>1, <2>4
  <1>11. /\ k \in Records /\ k.Cyber = r.Cyber /\ k.Pending = r.Pending /\ k.Epoch = r.Epoch
         /\ k.Class = r.Class /\ k.Phase = r.Phase
    BY ClockedType DEF Clocked, Records
  <1> HIDE DEF k
  <1>12. /\ a.Cyber = cyber /\ a.Epoch = r.Epoch /\ a.Class = r.Class /\ a.Phase = r.Phase
         /\ a.Pending.id = r.Pending.id /\ a.Pending.failure = r.Pending.failure
         /\ a.Pending.epoch = r.Pending.epoch
         /\ a.Pending.charged = MaxOf(r.Pending.charged, t)
         /\ DOMAIN a = DOMAIN New /\ DOMAIN a.Pending = DOMAIN NoPending
    BY <1>11 DEF Records, PendingType, New, NoPending
  <1>13. MaxOf(r.Pending.charged, t) # 0 => r.Pending.charged # 0 \/ t # 0
    BY DEF MaxOf
  <1> HIDE DEF f, g, cyber, a
  <1>14. /\ Cardinality(s.Cyber) <= CyberLimit + 1
         /\ \A c \in s.Cyber : c.at > 0
         /\ \A c, d \in s.Cyber : c.id = d.id => c = d
         /\ s.Pending.id = r.Pending.id /\ s.Pending.failure = r.Pending.failure
         /\ s.Pending.epoch = r.Pending.epoch /\ s.Epoch = r.Epoch /\ s.Class = r.Class
         /\ s.Phase = r.Phase
         /\ DOMAIN s = DOMAIN New /\ DOMAIN s.Pending = DOMAIN NoPending
    BY <1>5, <1>6, <1>7, <1>12 DEF Valid, Records, PendingType, New, NoPending
  <1>15. s.Pending.charged # 0 =>
            \E c \in s.Cyber : c.id = s.Pending.id /\ c.at = s.Pending.charged
    BY <1>9, <1>10, <1>12
  <1>16. r.Class = "cybersecurity" => s.Pending.charged # 0
    BY <1>2, <1>8, <1>12 DEF MaxOf
  <1> HIDE DEF s
  <1>17. /\ bound.Cyber = s.Cyber /\ bound.Epoch = s.Epoch /\ bound.Class = s.Class
         /\ bound.Phase = s.Phase /\ bound.Pending.id = s.Pending.id
         /\ bound.Pending.failure = s.Pending.failure /\ bound.Pending.epoch = s.Pending.epoch
         /\ bound.Pending.charged = s.Pending.charged /\ DOMAIN bound = DOMAIN New
    BY <1>14 DEF New, NoPending
  <1> HIDE DEF bound
  <1>18. \A x \in {full, ended, running} :
            /\ x.Cyber = bound.Cyber /\ x.Epoch = bound.Epoch /\ x.Class = bound.Class
            /\ x.Pending = bound.Pending /\ x.Phase \in {"blocked", "cancelled", "running"}
    BY <1>17 DEF New
  <1> HIDE DEF full, ended, running, v
  <1>19. /\ v.Cyber = s.Cyber /\ v.Epoch = r.Epoch /\ v.Class = r.Class
         /\ v.Pending.id = r.Pending.id
         /\ v.Pending.failure = r.Pending.failure /\ v.Pending.epoch = r.Pending.epoch
         /\ v.Pending.charged = s.Pending.charged /\ v.Phase # "scheduled"
    <2>1. r.Phase # "scheduled"
      BY DEF Uncertain
    <2> QED BY <1>1, <1>14, <1>17, <1>18, <2>1
  <1>20. r.Pending.epoch <= r.Epoch /\ r.Pending.failure # 0
    BY DEF Valid, Uncertain
  <1>21. Valid(v)
    BY <1>14, <1>15, <1>16, <1>19, <1>20 DEF Valid, HasPending
  <1> QED BY <1>21 DEF v

\* A thread whose turn is not in progress is enrolled with that turn as its
\* watermark, which is why the turn may be over from then on.
LEMMA EnrollFits ==
    ASSUME TypeOK, Calm, old' = old \cup Over(Retried), NEW u \in Records, Fits(u),
           NEW s \in Records, ~HasPending(s), s.Pending = u.Pending, s.Chain = u.Chain,
           s.Handled = u.Handled, s.Cancelled = u.Cancelled,
           barred' = barred \/ (u.Cancelled /\ barred' = barred \cup ({u.Chain} \ {0})),
           latest.status # "inProgress" => Begun(s, latest.turn)
    PROVE  FitsThen(s)
  <1>0. /\ latest.turn \in Nat /\ s.Chain \in Nat /\ u.Chain \in Nat
        /\ latest' = latest /\ turnOf' = turnOf
    BY DEF TypeOK, Observations, Records, Calm
  <1>1. Order(s, latest'.turn, ledger', turnOf', nextId')
    BY <1>0 DEF Fits, FitsUpTo, Order
  <1>2. Shut(s, barred', policy'.choice)
    BY <1>0 DEF Fits, FitsUpTo, Shut, Calm, Alike, SameChoice
  <1>3. Live(s, old', policy'.choice)
    BY DEF Live
  <1>4. Past(s, old', policy'.choice, latest')
    <2> SUFFICES ASSUME NEW x \in old'
                 PROVE  /\ x[1] <= latest.turn
                        /\ x[1] = latest.turn => /\ latest.status # "inProgress"
                                                 /\ Spent(s, policy'.choice, x)
      BY <1>0 DEF Past
    <2>1. CASE x \in old
      BY <2>1 DEF Fits, FitsUpTo, Past, Spent
    <2>2. CASE x \in Over(Retried)
      <3>1. x[1] = latest.turn /\ latest.status # "inProgress"
        BY <2>2 DEF Over
      <3> QED BY <1>0, <3>1 DEF Spent
    <2> QED BY <2>1, <2>2
  <1> QED BY <1>1, <1>2, <1>3, <1>4 DEF FitsThen

\* Reading the native thread for the record: an enrolled one is observed, the
\* first read of another one enrolls it.
LEMMA OverRead ==
    ASSUME TypeOK, OnceInv, OverInv, ReadNative PROVE OverInv'
  <1>0. /\ mem \in Records /\ disk \in Records /\ policy \in Policies /\ latest \in Observations
        /\ Fits(mem) /\ Valid(mem) /\ Valid(disk) /\ pc = "observe"
        /\ latest' = latest /\ turnOf' = turnOf /\ nextId' = nextId /\ ledger' = ledger
        /\ barred' = barred /\ latest.turn \in Nat
        /\ mem.Handled \in Nat /\ mem.Handled <= latest.turn
    BY DEF TypeOK, OverInv, Fitting, Sane, ReadNative, native, Observations, Records,
           Fits, FitsUpTo, Order
  <1>1. CASE mem.Enrolled
    <2>1. /\ obs' = latest /\ policy' = Checkpoint(policy, mem, FALSE) /\ pc' = "settle"
          /\ disk' = disk /\ mem' = mem /\ dec' = dec /\ old' = old
      BY <1>1 DEF ReadNative
    <2>2. Alike(policy', policy)
      BY <1>0, <2>1, CheckpointAlike
    <2>3. Calm
      BY <1>0, <2>2, AlikeCalm DEF SameBook
    <2>4. Decided'
      BY <1>0, <2>1, <2>2 DEF OverInv, Decided, Alike, SameChoice
    <2>5. Seen'
      <3>1. \A x \in old : x[1] = latest.turn => Spent(mem, policy.choice, x)
        BY <1>0 DEF Fits, FitsUpTo, Past
      <3>2. \A x \in old : x[1] = latest.turn => Spent(mem, policy'.choice, x)
        BY <2>2, <3>1 DEF Spent, BaselineOf, Alike, SameChoice
      <3>3. latest.turn = 0 => latest.status = "none"
        BY DEF OverInv, Seen
      <3>4. \A x \in old' : x[1] = obs'.turn => Spent(mem, policy.choice, x)'
        BY <2>1, <3>2 DEF Spent, Begun
      <3>5. mem'.Enrolled /\ mem'.Handled <= obs'.turn /\ obs'.turn <= latest'.turn
        BY <1>0, <1>1, <2>1
      <3> QED BY <1>0, <2>1, <3>3, <3>4, <3>5 DEF Seen
    <2> QED BY <1>0, <2>1, <2>3, <2>4, <2>5, MoveOver DEF Rest, Sending
  <1>2. CASE ~mem.Enrolled
    <2> DEFINE s == Enroll(mem, latest)
    <2>1. /\ Write(s) /\ old' = old \cup Over(Retried)
          /\ obs' = latest /\ pc' = "enroll" /\ mem' = s /\ dec' = dec /\ policy' = policy
      BY <1>2 DEF ReadNative
    <2>2. Calm
      BY <1>0, <2>1, AlikeSelf, AlikeCalm DEF SameBook
    <2>3. s \in Records /\ Valid(s)
      BY <1>0, EnrollType, MarkedValid
    <2>4. ~HasPending(mem)
      BY <1>0, <1>2 DEF Fits, FitsUpTo, Order
    <2>5. /\ s.Pending = mem.Pending /\ s.Chain = mem.Chain /\ s.Handled = mem.Handled
          /\ s.Cancelled = mem.Cancelled /\ s.Enrolled /\ s.Baseline = latest.turn
          /\ s.BaselineActive = (latest.status = "inProgress")
      BY <1>0, <1>2 DEF Enroll, Records
    <2> HIDE DEF s
    <2>6. ~HasPending(s)
      BY <2>4, <2>5 DEF HasPending
    <2>7. FitsThen(s)
      BY <1>0, <2>1, <2>2, <2>3, <2>5, <2>6, EnrollFits DEF Begun
    <2>8. disk' = s
      BY <2>1, <2>3 DEF Write
    <2>9. Decided'
      BY <1>0, <2>1 DEF OverInv, Decided
    <2>10. Seen'
      BY <1>0, <2>1, <2>5, <2>6 DEF OverInv, Seen
    <2> QED BY <2>1, <2>2, <2>3, <2>7, <2>8, <2>9, <2>10, HoldOver DEF Rest, Sending
  <1> QED BY <1>1, <1>2

\* The second read: whatever happened since the first, the watermark it leaves
\* is the thread's latest turn, or that turn is in progress.
LEMMA OverEnroll ==
    ASSUME TypeOK, OverInv, EnrollAgain PROVE OverInv'
  <1> DEFINE b == Bound(mem)
             w == [b EXCEPT !.Baseline = latest.turn, !.BaselineActive = FALSE]
             s == IF latest # obs /\ (op = "step" \/ latest.turn # 0) THEN w ELSE b
  <1>0. /\ mem \in Records /\ latest \in Observations /\ obs \in Observations
        /\ Fits(mem) /\ Valid(mem) /\ pc = "enroll"
        /\ latest' = latest /\ turnOf' = turnOf /\ nextId' = nextId /\ ledger' = ledger
        /\ barred' = barred /\ policy' = policy /\ latest.turn \in Nat /\ obs.turn \in Nat
        /\ old' = old \cup Over(Retried)
        /\ Save(s, "free")
    BY DEF TypeOK, OverInv, Fitting, Sane, EnrollAgain, native, Observations
  <1>1. Calm
    BY <1>0, AlikeSelf, AlikeCalm DEF SameBook
  <1>2. b \in Records /\ Valid(b)
    BY <1>0, MarkedValid DEF Bound, Records, TypeOK
  <1>3. w \in Records /\ Valid(w)
    <2> HIDE DEF b
    <2> QED BY <1>0, <1>2, MarkedValid DEF Records
  <1>4. /\ b.Pending = mem.Pending /\ b.Chain = mem.Chain /\ b.Handled = mem.Handled
        /\ b.Cancelled = mem.Cancelled /\ b.Enrolled = mem.Enrolled
        /\ b.Baseline = mem.Baseline /\ b.BaselineActive = mem.BaselineActive
    BY <1>0 DEF Bound, Records
  <1> HIDE DEF b
  <1>5. /\ w.Pending = b.Pending /\ w.Chain = b.Chain /\ w.Handled = b.Handled
        /\ w.Cancelled = b.Cancelled /\ w.Enrolled = b.Enrolled
        /\ w.Baseline = latest.turn /\ w.BaselineActive = FALSE
    BY <1>2 DEF Records
  <1> HIDE DEF w
  <1>6. /\ mem.Enrolled /\ ~HasPending(mem) /\ mem.Baseline = obs.turn
        /\ mem.BaselineActive = (obs.status = "inProgress")
        /\ obs.turn <= latest.turn /\ (latest.turn = 0 => latest.status = "none")
        /\ obs.turn = 0 => obs.status = "none"
    BY <1>0 DEF OverInv, Seen
  <1>7. /\ s \in Records /\ Valid(s) /\ ~HasPending(s) /\ s.Pending = mem.Pending
        /\ s.Chain = mem.Chain /\ s.Handled = mem.Handled /\ s.Cancelled = mem.Cancelled
    BY <1>2, <1>3, <1>4, <1>5, <1>6 DEF HasPending
  <1>8. latest.status # "inProgress" => Begun(s, latest.turn)
    <2> SUFFICES ASSUME latest.status # "inProgress" PROVE Begun(s, latest.turn)
      OBVIOUS
    <2>1. CASE s = w
      BY <1>4, <1>5, <1>6, <2>1 DEF Begun
    <2>2. CASE latest = obs /\ s = b
      BY <1>4, <1>6, <2>2 DEF Begun
    <2>3. CASE latest.turn = 0 /\ s = b
      <3>1. obs.turn = 0 /\ latest.turn = 0 /\ obs.status = "none"
        BY <1>0, <1>6, <2>3
      <3>2. mem.BaselineActive = FALSE
        BY <1>6, <3>1
      <3>3. b.BaselineActive = FALSE /\ b.Enrolled /\ b.Baseline = latest.turn
        BY <1>4, <1>6, <3>1, <3>2
      <3> QED BY <2>3, <3>3 DEF Begun
    <2> QED BY <2>1, <2>2, <2>3
  <1> HIDE DEF s
  <1>9. FitsThen(s)
    BY <1>0, <1>1, <1>7, <1>8, EnrollFits
  <1>10. /\ disk' = s /\ mem' = s /\ pc' = "free" /\ obs' = NoObservation /\ dec' = NoDecision
    BY <1>0, <1>7 DEF Save, Write, Release
  <1> QED BY <1>1, <1>7, <1>9, <1>10, FreeKnows, HoldOver

\* Observing: the record carries its chain on, or a new failure is continued.
LEMMA OverSettle ==
    ASSUME TypeOK, OverInv, Settle PROVE OverInv'
  <1>1. PICK wall \in Times, jitter \in Jitters :
           LET s == Observe(mem, obs, wall, dec, Proves(mem, obs, dec), nextId, jitter)
               fresh == s.Chain # mem.Chain
           IN  /\ s.Pending.id = nextId => nextId \in Ids
               /\ nextId' = IF s.Pending.id = nextId THEN nextId + 1 ELSE nextId
               /\ \/ /\ Save(s, "check")
                     /\ policy' = IF Valid(s) THEN Checkpoint(policy, s, fresh) ELSE policy
                  \/ Save(s, "free") /\ policy' = policy
    BY DEF Settle
  <1> DEFINE v == Proves(mem, obs, dec)
             s == Observe(mem, obs, wall, dec, v, nextId, jitter)
             fresh == s.Chain # mem.Chain
  <1>2. /\ mem \in Records /\ obs \in Observations /\ v \in BOOLEAN /\ latest \in Observations
        /\ nextId \in Nat /\ wall \in Nat /\ jitter \in Nat /\ policy \in Policies
        /\ obs.turn \in Nat /\ obs.turn <= latest.turn /\ latest.turn \in Nat
        /\ mem.Chain \in Nat /\ mem.Handled \in Nat /\ barred \subseteq Nat
    BY TurnRetryAssumption DEF TypeOK, Observations, Records, Proves, OverInv, Seen
  <1>3. /\ pc = "settle" /\ latest' = latest /\ turnOf' = turnOf /\ ledger' = ledger
        /\ barred' = barred /\ old' = old
    BY DEF Settle, native
  <1>4. /\ mem.Enrolled /\ mem.Handled <= obs.turn /\ Fits(mem)
        /\ \A x \in old : x[1] = obs.turn => Spent(mem, policy.choice, x)
        /\ obs.turn = 0 => obs.status = "none"
    BY <1>3 DEF OverInv, Seen, Fitting
  <1>5. mem.Chain <= obs.turn
    BY <1>2, <1>4 DEF Fits, FitsUpTo, Order
  <1>6. Alike(policy', policy)
    BY <1>1, <1>2, AlikeSelf, CheckpointAlike
  <1>7. /\ s.Pending.id = nextId => nextId \in Ids
        /\ nextId' = IF s.Pending.id = nextId THEN nextId + 1 ELSE nextId
        /\ Save(s, "check") \/ Save(s, "free")
    BY <1>1
  <1> HIDE DEF v
  <1>8. s \in Records /\ (Carry(mem, s, obs.turn) \/ Renewed(mem, s, obs, dec, nextId))
    BY <1>2, <1>4, ObserveType, ObserveOver
  <1> HIDE DEF s
  <1>9. nextId' \in Nat /\ nextId <= nextId'
    BY <1>2, <1>7
  <1>10. Calm
    BY <1>3, <1>6, <1>9 DEF Calm, SameBook
  <1>11. Fits(s) \/ FitsUpTo(s, nextId')
    <2>1. CASE Carry(mem, s, obs.turn)
      BY <1>2, <1>4, <1>5, <1>8, <2>1, CarryFits
    <2>2. CASE Renewed(mem, s, obs, dec, nextId)
      <3>1. DecisionEnabled(dec, s.Class)
        BY <2>2 DEF Renewed
      <3>2. dec # NoDecision
        BY <3>1 DEF DecisionEnabled, NoDecision
      <3>3. SameChoice(dec, policy.choice)
        BY <3>2 DEF OverInv, Decided
      <3>4. ASSUME HasPending(s)
            PROVE  nextId \in Ids /\ nextId < nextId' /\ ledger[nextId] # "accepted"
        <4>1. s.Pending.id = nextId
          BY <2>2, <3>4 DEF Renewed
        <4>2. nextId \in Ids /\ nextId < nextId'
          BY <1>2, <1>7, <4>1
        <4>3. ledger[nextId] \notin Out
          BY <1>2, <4>2 DEF OverInv, Issued
        <4> QED BY <4>2, <4>3 DEF Out
      <3> QED BY <1>2, <1>4, <1>8, <1>9, <2>2, <3>3, <3>4, RenewedFits
    <2> QED BY <1>8, <2>1, <2>2
  <1> QED BY <1>3, <1>7, <1>8, <1>10, <1>11, SaveOver

LEMMA OverStep ==
    ASSUME TypeOK, OnceInv, OverInv, Step PROVE OverInv'
  <1>0. /\ mem \in Records /\ disk \in Records /\ Times \subseteq Nat /\ policy \in Policies
        /\ obs \in Observations /\ latest \in Observations /\ turnOf \in [Ids -> Nat]
        /\ ledger \in [Ids -> LedgerStates] /\ nextId \in Nat
        /\ Fits(mem) /\ Valid(mem) /\ mem.Handled \in Nat /\ mem.Pending.failure \in Nat
    BY TurnRetryAssumption DEF TypeOK, OverInv, Fitting, Sane, Records, PendingType
  <1>a. ASSUME latest' = latest, turnOf' = turnOf, nextId' = nextId, ledger' = ledger,
               Alike(policy', policy)
        PROVE  Calm
    BY <1>a, AlikeCalm DEF SameBook
  <1>b. ASSUME Calm, barred' = barred, old' = old,
               NEW s \in Records, Carry(mem, s, mem.Handled),
               NEW next \in {"free", "observe", "check"}, Save(s, next)
        PROVE  OverInv'
    <2>1. Fits(s)
      BY <1>b, OwnFits
    <2> QED BY <1>b, <2>1, SaveOver
  <1>c. ASSUME Calm, barred' = barred, old' = old, NEW d, SameChoice(d, policy.choice),
               HasPending(mem), Allows(d, mem),
               NEW s \in Records, Carry(mem, s, mem.Handled), s.Class = mem.Class,
               Save(s, IF HasPending(s) THEN "dispatch" ELSE "free")
        PROVE  OverInv'
    <2>1. Fits(s)
      BY <1>c, OwnFits
    <2>2. mem.Chain \notin barred /\ <<mem.Pending.failure, mem.Class>> \notin old
      BY <1>0, <1>c, AllowedOpen
    <2>3. s.Chain = mem.Chain /\ (HasPending(s) => s.Pending.failure = mem.Pending.failure)
      BY <1>c DEF Carry
    <2> DEFINE next == IF HasPending(s) THEN "dispatch" ELSE "free"
    <2>4. /\ next \notin {"enroll", "settle", "send"} /\ Save(s, next)
          /\ next = "dispatch" => s.Chain \notin barred /\ <<s.Pending.failure, s.Class>> \notin old
      BY <1>c, <2>2, <2>3
    <2> HIDE DEF next
    <2> QED BY <1>c, <2>1, <2>4, SaveOver
  <1>d. pc \in {"begin", "unsubmitted", "dispatch", "send"} => HasPending(mem) /\ mem.Pending.id \in Ids
    BY DEF OnceInv, Unsent, HasPending, Ids
  <1>1. CASE StepLock
    BY <1>1, AcquireOver DEF StepLock
  <1>2. CASE CheckHeld
    <2>1. /\ latest' = latest /\ turnOf' = turnOf /\ nextId' = nextId /\ ledger' = ledger
          /\ barred' = barred /\ old' = old /\ policy' = policy /\ Save(mem, "free")
      BY <1>2, JoinedSame DEF CheckHeld, native
    <2> QED BY <1>0, <1>a, <1>b, <2>1, AlikeSelf, CarrySelf
  <1>3. CASE NoCapacity
    <2> DEFINE s == [mem EXCEPT !.Handled = mem.Pending.failure, !.Phase = "blocked",
                                !.Cancelled = TRUE, !.DeadlineMS = 0]
    <2>1. /\ latest' = latest /\ turnOf' = turnOf /\ nextId' = nextId /\ ledger' = ledger
          /\ barred' = barred /\ old' = old /\ policy' = policy /\ Save(s, "free")
          /\ HasPending(mem)
      BY <1>3, <1>d, JoinedSame DEF NoCapacity, native
    <2>2. s \in Records /\ Carry(mem, s, mem.Handled)
      BY <1>0, <2>1, EditCarry DEF Records, Phases
    <2> HIDE DEF s
    <2> QED BY <1>a, <1>b, <2>1, <2>2, AlikeSelf
  <1>4. CASE UnsubmittedDisallowed
    <2> DEFINE c == Cancel(mem)
               s == [c EXCEPT !.Phase = "cancelled"]
    <2>1. /\ latest' = latest /\ turnOf' = turnOf /\ nextId' = nextId /\ ledger' = ledger
          /\ barred' = barred /\ old' = old /\ policy' = policy /\ Save(s, "free")
      BY <1>4, JoinedSame DEF UnsubmittedDisallowed, native
    <2>2. c \in Records /\ Carry(mem, c, mem.Handled)
      BY <1>0, CancelType, CancelCarry
    <2> HIDE DEF c
    <2>3. s \in Records
      BY <2>2 DEF Records, Phases
    <2>4. Carry(c, s, mem.Handled)
      BY <2>2 DEF Carry, HasPending, Records
    <2> HIDE DEF s
    <2>5. Carry(mem, s, mem.Handled)
      BY <2>2, <2>4, CarryChain
    <2> QED BY <1>a, <1>b, <2>1, <2>3, <2>5, AlikeSelf
  <1>5. CASE UnsubmittedRenew
    <2>1. PICK wall \in Times :
             Save(ReserveUnsubmitted(mem, wall),
                  IF HasPending(ReserveUnsubmitted(mem, wall)) THEN "dispatch" ELSE "free")
      BY <1>5 DEF UnsubmittedRenew
    <2> DEFINE s == ReserveUnsubmitted(mem, wall)
    <2>2. /\ latest' = latest /\ turnOf' = turnOf /\ nextId' = nextId /\ ledger' = ledger
          /\ barred' = barred /\ old' = old /\ policy' = policy
          /\ Allows(policy.choice, mem) /\ HasPending(mem)
      BY <1>5, <1>d, JoinedSame DEF UnsubmittedRenew, native
    <2>3. s \in Records /\ Carry(mem, s, mem.Handled) /\ s.Class = mem.Class
      <3>1. mem \in Records /\ wall \in Nat
        BY <1>0
      <3> QED BY ONLY <3>1, ReserveType, ReserveCarry
    <2>4. Save(s, IF HasPending(s) THEN "dispatch" ELSE "free")
      BY <2>1
    <2> HIDE DEF s
    <2>5. SameChoice(policy.choice, policy.choice)
      BY DEF SameChoice
    <2> QED BY <1>a, <1>c, <2>2, <2>3, <2>4, <2>5, AlikeSelf
  <1>6. CASE Decide
    <2>1. /\ latest' = latest /\ turnOf' = turnOf /\ nextId' = nextId /\ ledger' = ledger
          /\ barred' = barred /\ old' = old /\ disk' = disk
          /\ Joined(policy, mem) = policy /\ pc = "decide"
      BY <1>6, JoinedSame DEF Decide, native, ghosts, Release
    <2>2. CASE /\ policy' = Checkpoint(policy, mem, FALSE) /\ dec' = policy.choice
               /\ pc' = "allow" /\ mem' = mem /\ obs' = obs
      <3>1. Alike(policy', policy)
        BY <1>0, <2>2, CheckpointAlike
      <3>2. Decided'
        BY <2>2, <3>1 DEF Decided, Alike, SameChoice
      <3>3. Calm
        BY <1>a, <2>1, <3>1
      <3>4. Seen'
        BY <2>1, <2>2 DEF OverInv, Seen
      <3> QED BY <1>0, <2>1, <2>2, <3>2, <3>3, <3>4, MoveOver DEF Rest, Sending
    <2>3. CASE policy' = policy /\ Release
      BY <1>a, <2>1, <2>3, AlikeSelf, ReleaseOver
    <2> QED BY <1>6, <2>1, <2>2, <2>3 DEF Decide
  <1>7. CASE AllowOrCancel
    <2>1. /\ latest' = latest /\ turnOf' = turnOf /\ nextId' = nextId /\ ledger' = ledger
          /\ barred' = barred /\ old' = old
      BY <1>7 DEF AllowOrCancel, native
    <2> DEFINE s == CancelKeepingPending(mem)
    <2>2. CASE Save(s, "observe") /\ OptionalCheckpoint(s)
      <3>1. s \in Records /\ Carry(mem, s, mem.Handled)
        BY <1>0, KeepingCarry, CancelType DEF CancelKeepingPending, Records
      <3>2. Alike(policy', policy)
        BY <1>0, <2>2, OptionalAlike
      <3> HIDE DEF s
      <3> QED BY <1>a, <1>b, <2>1, <2>2, <3>1, <3>2
    <2>3. CASE pc' = "observe" /\ UNCHANGED <<disk, mem, op, obs, dec, policy, receipts>>
      <3>1. Calm
        BY <1>a, <2>1, <2>3, AlikeSelf
      <3>2. Rest' /\ Decided' /\ Seen' /\ Sending'
        BY <2>3, <3>1, MoveKnows DEF Sending
      <3> QED BY <1>0, <2>1, <2>3, <3>1, <3>2, MoveOver
    <2> QED BY <1>7, <2>2, <2>3 DEF AllowOrCancel
  <1>8. CASE ReadNative
    BY <1>8, OverRead
  <1>9. CASE EnrollAgain
    BY <1>9, OverEnroll
  <1>10. CASE Unproven
    <2> DEFINE s1 == [mem EXCEPT !.Phase = "blocked", !.Handled = obs.turn]
               s2 == [mem EXCEPT !.Phase = "blocked"]
    <2>1. /\ latest' = latest /\ turnOf' = turnOf /\ nextId' = nextId /\ ledger' = ledger
          /\ barred' = barred /\ old' = old /\ policy' = policy /\ pc = "settle"
          /\ Save(s1, "free") \/ Save(s2, "free")
      BY <1>10 DEF Unproven, native
    <2>2. /\ obs.turn \in Nat /\ obs.turn <= latest.turn /\ mem.Handled <= obs.turn
          /\ mem.Chain \in Nat
      BY <1>0, <2>1 DEF Observations, OverInv, Seen, Records
    <2>3. /\ s1 \in Records /\ Carry(mem, s1, obs.turn)
          /\ s2 \in Records /\ Carry(mem, s2, obs.turn)
      BY <1>0, <2>2, EditCarry DEF Records, Phases
    <2>4. mem.Chain <= obs.turn
      BY <1>0, <2>2 DEF Fits, FitsUpTo, Order
    <2> HIDE DEF s1, s2
    <2>5. Fits(s1) /\ Fits(s2)
      BY <1>0, <2>2, <2>3, <2>4, CarryFits
    <2>6. Calm
      BY <1>a, <2>1, AlikeSelf
    <2> QED BY <2>1, <2>3, <2>5, <2>6, SaveOver
  <1>11. CASE Settle
    BY <1>11, OverSettle
  <1>12. CASE NotDue
    BY <1>12, <1>a, AlikeSelf, ReleaseOver DEF NotDue, native, ghosts
  <1>13. CASE CheckDue
    <2>1. PICK wall \in Times : mem' = Clocked(mem, wall)
      BY <1>13 DEF CheckDue
    <2>2. /\ latest' = latest /\ turnOf' = turnOf /\ nextId' = nextId /\ ledger' = ledger
          /\ barred' = barred /\ old' = old /\ policy' = policy
          /\ disk' = disk /\ pc' = "reconcile" /\ obs' = obs /\ dec' = dec
      BY <1>13 DEF CheckDue, native, ghosts
    <2>3. wall \in Nat /\ Clocked(mem, wall) \in Records /\ Carry(mem, Clocked(mem, wall), mem.Handled)
      BY <1>0, ClockedType, ClockedCarry
    <2>4. Fits(Clocked(mem, wall)) /\ Valid(Clocked(mem, wall))
      BY <1>0, <2>3, OwnFits, MarkedValid
    <2>5. Calm
      BY <1>a, <2>2, AlikeSelf
    <2>6. Rest' /\ Decided' /\ Seen' /\ Sending'
      BY <2>2, <2>5, MoveKnows DEF Sending
    <2> QED BY <2>1, <2>2, <2>3, <2>4, <2>5, <2>6, MoveOver
  <1>14. CASE BeginAttempt
    <2>1. PICK wall \in Times :
             /\ Due(mem, wall, dec)
             /\ Save(Begin(mem, wall), IF HasPending(Begin(mem, wall)) THEN "dispatch" ELSE "free")
      BY <1>14 DEF BeginAttempt
    <2> DEFINE s == Begin(mem, wall)
    <2>2. /\ latest' = latest /\ turnOf' = turnOf /\ nextId' = nextId /\ ledger' = ledger
          /\ barred' = barred /\ old' = old /\ policy' = policy
          /\ Allows(dec, mem) /\ HasPending(mem)
      BY <1>14, <2>1 DEF BeginAttempt, Due, native
    <2>3. s \in Records /\ Carry(mem, s, mem.Handled) /\ s.Class = mem.Class
      <3>1. mem \in Records /\ wall \in Nat
        BY <1>0
      <3> QED BY ONLY <3>1, BeginType, BeginCarry
    <2>4. Save(s, IF HasPending(s) THEN "dispatch" ELSE "free")
      BY <2>1
    <2>5. dec # NoDecision
      BY <2>2 DEF Allows, DecisionEnabled, NoDecision
    <2>6. SameChoice(dec, policy.choice)
      BY <2>5 DEF OverInv, Decided
    <2> HIDE DEF s
    <2> QED BY <1>a, <1>c, <2>2, <2>3, <2>4, <2>6, AlikeSelf
  <1>15. CASE Prepare
    <2>1. /\ latest' = latest /\ turnOf' = turnOf /\ nextId' = nextId
          /\ ledger' = [ledger EXCEPT ![mem.Pending.id] = "prepared"]
          /\ barred' = barred /\ old' = old /\ policy' = policy /\ disk' = disk /\ mem' = mem
          /\ pc = "dispatch" /\ pc' = "send" /\ obs' = obs /\ dec' = dec
      BY <1>15 DEF Prepare, native, ghosts
    <2>2. Calm
      BY <1>0, <2>1, RetiredBook, AlikeSelf, AlikeCalm
    <2>3. Rest' /\ Decided' /\ Seen'
      BY <2>1, <2>2, MoveKnows
    <2>4. Sending'
      BY <2>1 DEF OverInv, Sending
    <2> QED BY <1>0, <2>1, <2>2, <2>3, <2>4, MoveOver
  <1>16. CASE DispatchRefused
    <2> DEFINE s == [mem EXCEPT !.Phase = "blocked", !.Pending = NoPending]
    <2>1. /\ latest' = latest /\ turnOf' = turnOf /\ nextId' = nextId
          /\ ledger' = [ledger EXCEPT ![mem.Pending.id] = "absent"]
          /\ barred' = barred /\ old' = old /\ policy' = policy /\ Save(s, "free")
      BY <1>16 DEF DispatchRefused, native
    <2>2. s \in Records /\ Carry(mem, s, mem.Handled)
      BY <1>0, EditCarry, Constants DEF Records, Phases
    <2>3. Calm
      BY <1>0, <2>1, RetiredBook, AlikeSelf, AlikeCalm
    <2> HIDE DEF s
    <2> QED BY <1>b, <2>1, <2>2, <2>3
  <1>17. CASE Send
    <2>1. /\ latest' = latest /\ turnOf' = turnOf /\ nextId' = nextId
          /\ ledger' = [ledger EXCEPT ![mem.Pending.id] = "attempted"]
          /\ barred' = barred /\ old' = old /\ policy' = policy /\ disk' = disk /\ mem' = mem
          /\ pc = "send" /\ pc' = "await" /\ obs' = obs /\ dec' = dec
      BY <1>17 DEF Send, native
    <2>2. mem.Pending.id \in Ids /\ mem.Pending.id < nextId
      BY <1>0, <1>d, <2>1 DEF Fits, FitsUpTo, Order
    <2>3. SameBook
      BY <1>0, <2>1, <2>2 DEF SameBook, Out, Ids
    <2>4. Calm
      BY <2>1, <2>3, AlikeSelf, AlikeCalm
    <2>5. Rest' /\ Decided' /\ Seen' /\ Sending'
      BY <2>1, <2>4, MoveKnows DEF Sending
    <2> QED BY <1>0, <2>1, <2>4, <2>5, MoveOver
  <1>18. CASE Reply
    <2> DEFINE t == turnOf[mem.Pending.id]
    <2>1. PICK wall \in Times, fits \in BOOLEAN :
             /\ Save(Accepted(mem, t, wall, fits), "free")
             /\ OptionalCheckpoint(Accepted(mem, t, wall, fits))
      BY <1>18 DEF Reply
    <2>2. /\ latest' = latest /\ turnOf' = turnOf /\ nextId' = nextId /\ ledger' = ledger
          /\ barred' = barred /\ old' = old
          /\ HasPending(mem) /\ ledger[mem.Pending.id] = "accepted" /\ wall \in Nat
      BY <1>0, <1>18 DEF Reply, native, CanAccept
    <2>3. Calm
      BY <1>0, <1>a, <2>1, <2>2, OptionalAlike
    <2> DEFINE s == Accepted(mem, t, wall, fits)
    <2>4. s \in Records /\ Fits(s)
      BY <1>0, <2>2, ReceiptFits
    <2>5. Save(s, "free")
      BY <2>1
    <2> HIDE DEF s
    <2> QED BY <2>2, <2>3, <2>4, <2>5, SaveOver
  <1>19. CASE ReplyUnknown
    <2> DEFINE s == OutcomeUnknown(mem)
    <2>1. /\ latest' = latest /\ turnOf' = turnOf /\ nextId' = nextId /\ ledger' = ledger
          /\ barred' = barred /\ old' = old /\ policy' = policy /\ Save(s, "free")
      BY <1>19 DEF ReplyUnknown, native
    <2>2. s \in Records /\ Carry(mem, s, mem.Handled)
      BY <1>0, OutcomeUnknownType, UnknownCarry
    <2> HIDE DEF s
    <2> QED BY <1>a, <1>b, <2>1, <2>2, AlikeSelf
  <1> QED BY <1>1, <1>2, <1>3, <1>4, <1>5, <1>6, <1>7, <1>8, <1>9, <1>10, <1>11, <1>12,
             <1>13, <1>14, <1>15, <1>16, <1>17, <1>18, <1>19 DEF Step

----------------------------------------------------------------------------
\* The policy transaction.
Prepares(q, p, s, capacity, cybersecurity, bootstrap) ==
    /\ q.present /\ q.entry
    /\ q.choice.capacity = capacity /\ q.choice.cybersecurity = cybersecurity
    /\ bootstrap \/ capacity # p.choice.capacity => q.choice.capacityBaseline = BaselineNow
    /\ bootstrap \/ cybersecurity # p.choice.cybersecurity =>
          q.choice.cybersecurityBaseline = BaselineNow
    /\ ~bootstrap /\ capacity = p.choice.capacity /\ p.entry =>
          q.choice.capacityBaseline = p.choice.capacityBaseline
    /\ ~bootstrap /\ cybersecurity = p.choice.cybersecurity /\ p.entry =>
          q.choice.cybersecurityBaseline = p.choice.cybersecurityBaseline
    /\ s.Chain # 0 /\ HasPending(s) /\ Off(s.Class, capacity, cybersecurity) =>
          q.choice.suppressed = Suppress(p.choice.suppressed, s)
    /\ ~(HasPending(s) /\ Off(s.Class, capacity, cybersecurity)) =>
          q.choice.suppressed = p.choice.suppressed

LEMMA Prepared ==
    ASSUME NEW p \in Policies, NEW s, NEW capacity \in BOOLEAN, NEW cybersecurity \in BOOLEAN,
           NEW bootstrap \in BOOLEAN, ~bootstrap \/ ~HasPending(s) \/ s.Cancelled
    PROVE  Prepares(PreparePolicy(p, s, capacity, cybersecurity, bootstrap),
                    p, s, capacity, cybersecurity, bootstrap)
  <1> DEFINE keep(class) == bootstrap /\ Inherits(s, class)
             watermark == [turn |-> s.Baseline, active |-> s.BaselineActive]
             baseline(class, changed, prior) ==
                IF keep(class) THEN watermark
                ELSE IF bootstrap \/ changed \/ ~p.entry THEN BaselineNow ELSE prior
             b1 == baseline("capacity", capacity # p.choice.capacity, p.choice.capacityBaseline)
             b2 == baseline("cybersecurity", cybersecurity # p.choice.cybersecurity,
                            p.choice.cybersecurityBaseline)
             sup == IF s.Chain # 0 /\ HasPending(s) /\ Off(s.Class, capacity, cybersecurity)
                    THEN Suppress(p.choice.suppressed, s) ELSE p.choice.suppressed
             choice == [capacity |-> capacity, cybersecurity |-> cybersecurity,
                        capacityBaseline |-> b1, cybersecurityBaseline |-> b2, suppressed |-> sup]
             r == [p EXCEPT !.present = TRUE, !.inc = incarnation, !.entry = TRUE, !.choice = choice]
             q == PreparePolicy(p, s, capacity, cybersecurity, bootstrap)
  <1>1. q = r
    BY DEF PreparePolicy
  <1>2. r.present = TRUE /\ r.entry = TRUE /\ r.choice = choice
    <2> HIDE DEF choice
    <2> QED BY DEF Policies
  <1>3. /\ bootstrap \/ capacity # p.choice.capacity => b1 = BaselineNow
        /\ bootstrap \/ cybersecurity # p.choice.cybersecurity => b2 = BaselineNow
        /\ ~bootstrap /\ capacity = p.choice.capacity /\ p.entry =>
              b1 = p.choice.capacityBaseline
        /\ ~bootstrap /\ cybersecurity = p.choice.cybersecurity /\ p.entry =>
              b2 = p.choice.cybersecurityBaseline
    <2>1. ~keep("capacity") /\ ~keep("cybersecurity")
      BY DEF Inherits
    <2> HIDE DEF keep
    <2> QED BY <2>1
  <1> HIDE DEF b1, b2, q, r
  <1>4. /\ q.present /\ q.entry
        /\ q.choice.capacity = capacity /\ q.choice.cybersecurity = cybersecurity
        /\ q.choice.capacityBaseline = b1 /\ q.choice.cybersecurityBaseline = b2
        /\ q.choice.suppressed = sup
    BY <1>1, <1>2
  <1>5. Prepares(q, p, s, capacity, cybersecurity, bootstrap)
    BY <1>3, <1>4 DEF Prepares
  <1> QED BY <1>5 DEF q

\* The watermark of now is the latest turn, unless that is still in progress.
LEMMA SpentNow ==
    ASSUME NEW r, NEW d, NEW x, BaselineOf(d, x[2]) = BaselineNow,
           x[1] = latest.turn, latest.status # "inProgress"
    PROVE  Spent(r, d, x)
  BY DEF Spent, BaselineNow

\* A policy transaction leaves the record alone: what is left to show is that
\* the record fits the new policy.
LEMMA PolicyOver ==
    ASSUME TypeOK, OverInv, pc = "free", UNCHANGED <<disk, holder, native, ledger, nextId>>,
           policy'.present, policy'.entry, FitsThen(disk)
    PROVE  OverInv'
  <1>1. mem = disk /\ dec = NoDecision
    BY DEF OverInv, Rest, Decided
  <1>2. /\ disk' = disk /\ mem' = mem /\ pc' = pc /\ obs' = obs /\ dec' = dec
        /\ latest' = latest /\ turnOf' = turnOf /\ ledger' = ledger /\ nextId' = nextId
    BY DEF holder, native
  <1>3. Fitting' /\ Sane' /\ Rest' /\ Decided'
    BY <1>1, <1>2, FittingThen DEF OverInv, Sane, Rest, Decided
  <1>4. Issued' /\ Seen'
    BY <1>2 DEF OverInv, Issued, Seen
  <1>5. Listed' /\ Sending'
    BY <1>2 DEF Listed, Sending
  <1> QED BY <1>3, <1>4, <1>5 DEF OverInv

\* The first policy of a session: until then nothing was allowed, so there is
\* no attempt that could still be sent.
LEMMA OverBootstrap ==
    ASSUME TypeOK, OverInv, BootstrapPolicy PROVE OverInv'
  <1>0. /\ disk \in Records /\ Fits(disk) /\ latest \in Observations /\ pc = "free"
        /\ UNCHANGED <<disk, holder, native, ledger, nextId>>
        /\ latest' = latest /\ turnOf' = turnOf /\ ledger' = ledger /\ nextId' = nextId
        /\ barred' = barred /\ old \subseteq Nat \X Classes /\ latest.turn \in Nat
        /\ policy' = PreparePolicy(NoPolicy, disk, TRUE, TRUE, TRUE)
        /\ old' = old \cup Over({c \in Retried : ~Inherits(disk, c)})
    BY DEF TypeOK, OverInv, Fitting, BootstrapPolicy, SamePolicyScope, native, Observations
  <1>1. ~policy.choice.capacity /\ ~policy.choice.cybersecurity /\ Stopped(policy.choice) = {}
    BY DEF OverInv, Listed, BootstrapPolicy
  <1>2. ~HasPending(disk) \/ disk.Cancelled
    <2>1. ~DecisionEnabled(policy.choice, disk.Class)
      BY <1>1 DEF DecisionEnabled
    <2> QED BY <1>0, <1>1, <2>1 DEF Fits, FitsUpTo, Live
  <1>4. /\ policy'.present /\ policy'.entry
        /\ policy'.choice.capacityBaseline = BaselineNow
        /\ policy'.choice.cybersecurityBaseline = BaselineNow
    <2> DEFINE q == PreparePolicy(NoPolicy, disk, TRUE, TRUE, TRUE)
    <2>1. NoPolicy \in Policies
      BY Constants
    <2>2. Prepares(q, NoPolicy, disk, TRUE, TRUE, TRUE)
      BY <1>2, <2>1, Prepared
    <2> HIDE DEF q
    <2>3. /\ q.present /\ q.entry
          /\ q.choice.capacityBaseline = BaselineNow
          /\ q.choice.cybersecurityBaseline = BaselineNow
      BY <2>2 DEF Prepares
    <2> QED BY <1>0, <2>3 DEF q
  <1>5. Order(disk, latest'.turn, ledger', turnOf', nextId')
    BY <1>0 DEF Fits, FitsUpTo, Order
  <1>6. Shut(disk, barred', policy'.choice)
    BY <1>0, <1>1 DEF Fits, FitsUpTo, Shut
  <1>7. Live(disk, old', policy'.choice)
    BY <1>2 DEF Live
  <1>8. Past(disk, old', policy'.choice, latest')
    <2> SUFFICES ASSUME NEW x \in old'
                 PROVE  /\ x[1] <= latest.turn
                        /\ x[1] = latest.turn => /\ latest.status # "inProgress"
                                                 /\ Spent(disk, policy'.choice, x)
      BY <1>0 DEF Past
    <2>1. /\ x[1] <= latest.turn
          /\ x[1] = latest.turn => latest.status # "inProgress"
      <3>1. CASE x \in old
        BY <1>0, <3>1 DEF Fits, FitsUpTo, Past
      <3>2. CASE x \in Over({c \in Retried : ~Inherits(disk, c)})
        BY <1>0, <3>2 DEF Over
      <3> QED BY <1>0, <3>1, <3>2
    <2>2. BaselineOf(policy'.choice, x[2]) = BaselineNow
      BY <1>4 DEF BaselineOf
    <2> QED BY <2>1, <2>2, SpentNow
  <1> QED BY <1>0, <1>4, <1>5, <1>6, <1>7, <1>8, PolicyOver DEF FitsThen

\* A changed preference: the chain of a class switched off is suppressed, and
\* the watermark of a class switched on is the thread's latest turn.
LEMMA OverSetPolicy ==
    ASSUME TypeOK, OverInv, SetPolicy PROVE OverInv'
  <1>1. PICK capacity \in BOOLEAN, cybersecurity \in BOOLEAN :
           /\ policy' = PreparePolicy(policy, disk, capacity, cybersecurity, FALSE)
           /\ barred' = IF HasPending(disk) /\ Off(disk.Class, capacity, cybersecurity)
                        THEN barred \cup Ended(disk) ELSE barred
           /\ old' = old \cup Over({c \in Retried :
                       DecisionEnabled(policy'.choice, c) /\ ~DecisionEnabled(policy.choice, c)})
    BY DEF SetPolicy
  <1> DEFINE new == {c \in Retried : DecisionEnabled(policy'.choice, c)
                                     /\ ~DecisionEnabled(policy.choice, c)}
             off == HasPending(disk) /\ Off(disk.Class, capacity, cybersecurity)
  <1>2. /\ disk \in Records /\ Fits(disk) /\ latest \in Observations /\ pc = "free"
        /\ UNCHANGED <<disk, holder, native, ledger, nextId>>
        /\ latest' = latest /\ turnOf' = turnOf /\ ledger' = ledger /\ nextId' = nextId
        /\ old \subseteq Nat \X Classes /\ latest.turn \in Nat
        /\ policy \in Policies /\ policy.entry /\ disk.Chain \in Nat
        /\ disk.Class \in Classes
    BY DEF TypeOK, OverInv, Fitting, SetPolicy, SamePolicyScope, native, Observations, Listed, Records
  <1>3. /\ policy'.present /\ policy'.entry
        /\ policy'.choice.capacity = capacity /\ policy'.choice.cybersecurity = cybersecurity
        /\ capacity # policy.choice.capacity => policy'.choice.capacityBaseline = BaselineNow
        /\ cybersecurity # policy.choice.cybersecurity =>
              policy'.choice.cybersecurityBaseline = BaselineNow
        /\ capacity = policy.choice.capacity =>
              policy'.choice.capacityBaseline = policy.choice.capacityBaseline
        /\ cybersecurity = policy.choice.cybersecurity =>
              policy'.choice.cybersecurityBaseline = policy.choice.cybersecurityBaseline
        /\ disk.Chain # 0 /\ off =>
              policy'.choice.suppressed = Suppress(policy.choice.suppressed, disk)
        /\ ~off => policy'.choice.suppressed = policy.choice.suppressed
    <2> DEFINE q == PreparePolicy(policy, disk, capacity, cybersecurity, FALSE)
    <2>1. Prepares(q, policy, disk, capacity, cybersecurity, FALSE)
      BY <1>2, Prepared
    <2> HIDE DEF q
    <2>2. /\ q.present /\ q.entry
          /\ q.choice.capacity = capacity /\ q.choice.cybersecurity = cybersecurity
          /\ capacity # policy.choice.capacity => q.choice.capacityBaseline = BaselineNow
          /\ cybersecurity # policy.choice.cybersecurity =>
                q.choice.cybersecurityBaseline = BaselineNow
          /\ capacity = policy.choice.capacity =>
                q.choice.capacityBaseline = policy.choice.capacityBaseline
          /\ cybersecurity = policy.choice.cybersecurity =>
                q.choice.cybersecurityBaseline = policy.choice.cybersecurityBaseline
          /\ disk.Chain # 0 /\ off => q.choice.suppressed = Suppress(policy.choice.suppressed, disk)
          /\ ~off => q.choice.suppressed = policy.choice.suppressed
      BY <1>2, <2>1 DEF Prepares
    <2> QED BY <1>1, <2>2 DEF q
  <1>4. HasPending(disk) => disk.Chain # 0
    BY <1>2 DEF Fits, FitsUpTo, Order
  <1>5. /\ off => disk.Chain \in Stopped(policy'.choice)
        /\ disk.Chain \in Stopped(policy.choice) => disk.Chain \in Stopped(policy'.choice)
    <2>1. ASSUME off PROVE disk.Chain \in Stopped(policy'.choice)
      <3> DEFINE v == [chain |-> disk.Chain, pending |-> disk.Pending.id,
                       result |-> disk.Pending.result]
      <3>1. policy'.choice.suppressed = Suppress(policy.choice.suppressed, disk)
        BY <1>3, <1>4, <2>1
      <3>2. v \in policy'.choice.suppressed
        BY <3>1 DEF Suppress
      <3>3. v.chain = disk.Chain
        OBVIOUS
      <3> HIDE DEF v
      <3> QED BY <3>2, <3>3 DEF Stopped
    <2>2. ASSUME ~off PROVE policy'.choice.suppressed = policy.choice.suppressed
      BY <1>3, <2>2
    <2> HIDE DEF off
    <2> QED BY <2>1, <2>2 DEF Stopped
  <1>6. Order(disk, latest'.turn, ledger', turnOf', nextId')
    BY <1>2 DEF Fits, FitsUpTo, Order
  <1>7. Shut(disk, barred', policy'.choice)
    <2> SUFFICES ASSUME NEW c \in barred'
                 PROVE  /\ c <= disk.Chain
                        /\ c = disk.Chain => disk.Cancelled \/ c \in Stopped(policy'.choice)
      BY DEF Shut
    <2>1. CASE c \in barred
      BY <1>2, <1>5, <2>1 DEF Fits, FitsUpTo, Shut
    <2>2. CASE c \notin barred
      <3>1. off /\ c = disk.Chain
        BY <1>1, <2>2 DEF Ended
      <3> QED BY <1>2, <1>5, <3>1
    <2> QED BY <2>1, <2>2
  <1>8. Live(disk, old', policy'.choice)
    <2> SUFFICES ASSUME HasPending(disk), ~disk.Cancelled,
                        \/ ~DecisionEnabled(policy'.choice, disk.Class)
                        \/ <<disk.Pending.failure, disk.Class>> \in old'
                 PROVE  disk.Chain \in Stopped(policy'.choice)
      BY DEF Live
    <2>1. /\ ~DecisionEnabled(policy.choice, disk.Class) => disk.Chain \in Stopped(policy.choice)
          /\ <<disk.Pending.failure, disk.Class>> \in old => disk.Chain \in Stopped(policy.choice)
      BY <1>2 DEF Fits, FitsUpTo, Live
    <2>2. CASE ~DecisionEnabled(policy'.choice, disk.Class)
      <3>1. disk.Class = "none" \/ off
        BY <1>2, <1>3, <2>2 DEF DecisionEnabled, Off, Classes
      <3>2. disk.Class = "none" => ~DecisionEnabled(policy.choice, disk.Class)
        BY DEF DecisionEnabled
      <3> QED BY <1>5, <2>1, <3>1, <3>2
    <2>3. CASE <<disk.Pending.failure, disk.Class>> \in Over(new)
      <3>1. disk.Class \in new
        BY <2>3 DEF Over
      <3> QED BY <1>5, <2>1, <3>1
    <2> QED BY <1>1, <1>5, <2>1, <2>2, <2>3
  <1>9. Past(disk, old', policy'.choice, latest')
    <2> SUFFICES ASSUME NEW x \in old'
                 PROVE  /\ x[1] <= latest.turn
                        /\ x[1] = latest.turn => /\ latest.status # "inProgress"
                                                 /\ Spent(disk, policy'.choice, x)
      BY <1>2 DEF Past
    <2>1. BaselineOf(policy'.choice, x[2]) \in {BaselineNow, BaselineOf(policy.choice, x[2])}
      BY <1>3 DEF BaselineOf
    <2>2. CASE x \in old
      <3>1. /\ x[1] <= latest.turn
            /\ x[1] = latest.turn => latest.status # "inProgress" /\ Spent(disk, policy.choice, x)
        BY <1>2, <2>2 DEF Fits, FitsUpTo, Past
      <3>2. CASE BaselineOf(policy'.choice, x[2]) = BaselineNow
        BY <3>1, <3>2, SpentNow
      <3>3. CASE BaselineOf(policy'.choice, x[2]) = BaselineOf(policy.choice, x[2])
        BY <3>1, <3>3 DEF Spent
      <3> QED BY <2>1, <3>2, <3>3
    <2>3. CASE x \in Over(new)
      <3>1. x[1] = latest.turn /\ latest.status # "inProgress" /\ x[2] \in new
        BY <2>3 DEF Over
      <3>2. BaselineOf(policy'.choice, x[2]) = BaselineNow
        <4>1. DecisionEnabled(policy'.choice, x[2]) /\ ~DecisionEnabled(policy.choice, x[2])
          BY <3>1
        <4>2. /\ x[2] = "capacity" => capacity # policy.choice.capacity
              /\ x[2] = "cybersecurity" => cybersecurity # policy.choice.cybersecurity
              /\ x[2] \in {"capacity", "cybersecurity"}
          BY <1>3, <4>1 DEF DecisionEnabled
        <4> QED BY <1>3, <4>2 DEF BaselineOf
      <3> QED BY <1>2, <3>1, <3>2, SpentNow
    <2> QED BY <1>1, <2>2, <2>3
  <1> QED BY <1>2, <1>3, <1>6, <1>7, <1>8, <1>9, PolicyOver DEF FitsThen

----------------------------------------------------------------------------
LEMMA OverCompeting ==
    ASSUME TypeOK, QuotaInv, OverInv, Competing PROVE OverInv'
  <1>0. /\ mem \in Records /\ disk \in Records /\ Times \subseteq Nat /\ policy \in Policies
        /\ latest \in Observations /\ turnOf \in [Ids -> Nat] /\ latest.turn \in Nat
        /\ ledger \in [Ids -> LedgerStates] /\ incarnation \in Nat
        /\ Fits(mem) /\ Valid(mem) /\ Fits(disk) /\ Valid(disk)
        /\ disk.Handled \in Nat /\ disk.Chain \in Nat
    BY TurnRetryAssumption DEF TypeOK, OverInv, Fitting, Sane, Records, Observations
  <1>a. ASSUME latest' = latest, turnOf' = turnOf, nextId' = nextId, ledger' = ledger,
               Alike(policy', policy)
        PROVE  Calm
    BY <1>a, AlikeCalm DEF SameBook
  <1> DEFINE c == Cancel(disk)
  <1>b. /\ c \in Records /\ Carry(disk, c, disk.Handled) /\ c.Cancelled /\ c.Chain = disk.Chain
        /\ Valid(c) /\ Fits(c) /\ IsFiniteSet(c.Cyber)
    <2>1. Cancel(disk) \in Records /\ Carry(disk, Cancel(disk), disk.Handled)
          /\ Cancel(disk).Cancelled /\ Cancel(disk).Chain = disk.Chain /\ Valid(Cancel(disk))
      BY <1>0, CancelType, CancelCarry, MarkedValid
    <2>2. Fits(Cancel(disk))
      BY <2>1, OwnFits
    <2>3. Cancel(disk).Cyber = disk.Cyber /\ IsFiniteSet(disk.Cyber)
      BY <1>0, CancelCharges DEF SameCharges, QuotaInv, Booked, Charged
    <2> QED BY <2>1, <2>2, <2>3
  <1>c. Ended(disk) = {disk.Chain} \ {0} /\ Ended(mem) = {mem.Chain} \ {0}
    BY DEF Ended
  <1>d. ASSUME Calm, old' = old, barred' = barred \cup Ended(disk), NEW s \in Records,
               Fits(s), Valid(s), s.Cancelled, s.Chain = disk.Chain, Write(s), Release
        PROVE  OverInv'
    BY <1>c, <1>d, EndOver
  <1>1. CASE BoundaryChanged
    <2>1. /\ latest' = latest /\ turnOf' = turnOf /\ nextId' = nextId /\ ledger' = ledger
          /\ policy' = policy /\ old' = old /\ barred' = barred \cup Ended(disk)
          /\ Write(c) /\ Release
      BY <1>1 DEF BoundaryChanged, native
    <2> HIDE DEF c
    <2> QED BY <1>a, <1>b, <1>d, <2>1, AlikeSelf
  <1>2. CASE ActionLock
    BY <1>2, AcquireOver DEF ActionLock
  <1>3. CASE Act
    <2>1. PICK wall \in Times :
             LET s == IF op = "stop" THEN Stop(mem) ELSE RetryNow(mem, wall)
             IN  Save(s, "free") /\ OptionalCheckpoint(s)
      BY <1>3 DEF Act
    <2>2. /\ latest' = latest /\ turnOf' = turnOf /\ nextId' = nextId /\ ledger' = ledger
          /\ old' = old /\ barred' = IF op = "stop" THEN barred \cup Ended(mem) ELSE barred
      BY <1>3 DEF Act, native
    <2>3. Calm
      BY <1>0, <1>a, <2>1, <2>2, OptionalAlike
    <2>4. CASE op = "stop"
      <3> DEFINE s == Stop(mem)
      <3>1. s \in Records /\ Carry(mem, s, mem.Handled) /\ s.Cancelled /\ Valid(s)
        BY <1>0, StopType, StopCarry, StopValid
      <3>2. Write(s) /\ Release
        BY <2>1, <2>4, SaveFree
      <3> HIDE DEF s
      <3>3. Fits(s) /\ s.Chain = mem.Chain
        BY <3>1, OwnFits DEF Carry
      <3> QED BY <1>c, <2>2, <2>3, <2>4, <3>1, <3>2, <3>3, EndOver
    <2>5. CASE op # "stop"
      <3> DEFINE s == RetryNow(mem, wall)
      <3>1. s \in Records /\ Carry(mem, s, mem.Handled) /\ Save(s, "free")
        BY <1>0, <2>1, <2>5, RetryNowType, RetryNowCarry
      <3> HIDE DEF s
      <3> QED BY <2>2, <2>3, <2>5, <3>1, OwnFits, SaveOver
    <2> QED BY <2>4, <2>5
  <1>4. CASE ManagedAdmission
    <2> DEFINE w == IF Uncertain(c) \/ ~SameBoundary(c) THEN c ELSE Bound(c)
               e == Enroll(c, latest)
    <2>1. /\ latest' = latest /\ turnOf' = turnOf /\ nextId' = nextId /\ ledger' = ledger
          /\ policy' = policy /\ barred' = barred \cup Ended(disk) /\ pc = "free"
      BY <1>4 DEF ManagedAdmission, native
    <2>2. Calm
      BY <1>a, <2>1, AlikeSelf
    <2>3. CASE Write(w) /\ Release /\ old' = old
      <3> HIDE DEF c
      <3>1. Bound(c) \in Records /\ Carry(c, Bound(c), disk.Handled) /\ Valid(Bound(c))
        BY <1>0, <1>b, BoundCarry, MarkedValid DEF Bound, Records
      <3>2. /\ w \in Records /\ Carry(c, w, disk.Handled) /\ Valid(w)
        BY <1>b, <3>1, CarrySelf
      <3> HIDE DEF w
      <3>3. Carry(disk, w, disk.Handled) /\ w.Cancelled /\ w.Chain = disk.Chain
        BY <1>b, <3>2, CarryChain DEF Carry
      <3>4. Fits(w)
        BY <3>2, <3>3, OwnFits
      <3> QED BY <1>d, <2>1, <2>2, <2>3, <3>2, <3>3, <3>4
    <2>4. CASE /\ ~c.Enrolled /\ Write(e) /\ old' = old \cup Over(Retried) /\ pc' = "enroll"
               /\ obs' = latest /\ dec' = dec /\ mem' = e
      <3> HIDE DEF c
      <3>1. e \in Records /\ Valid(e)
        BY <1>0, <1>b, EnrollType, MarkedValid
      <3>2. ~HasPending(c)
        BY <1>b, <2>4 DEF Fits, FitsUpTo, Order
      <3>3. /\ e.Pending = c.Pending /\ e.Chain = c.Chain /\ e.Handled = c.Handled
            /\ e.Cancelled = c.Cancelled /\ e.Enrolled /\ e.Baseline = latest.turn
            /\ e.BaselineActive = (latest.status = "inProgress")
        BY <1>b, <2>4 DEF Enroll, Records
      <3> HIDE DEF e
      <3>4. ~HasPending(e)
        BY <3>2, <3>3 DEF HasPending
      <3>5. disk' = e
        BY <2>4, <3>1 DEF Write
      <3>6. barred' = barred \cup ({c.Chain} \ {0})
        BY <1>b, <1>c, <2>1
      <3>7. latest.status # "inProgress" => Begun(e, latest.turn)
        BY <3>3 DEF Begun
      <3>8. FitsThen(e)
        BY <1>b, <2>2, <2>4, <3>1, <3>3, <3>4, <3>6, <3>7, EnrollFits
      <3>9. Decided'
        BY <2>1, <2>4 DEF OverInv, Decided
      <3>10. Seen'
        BY <1>0, <2>1, <2>4, <3>3, <3>4 DEF OverInv, Seen
      <3> QED BY <2>2, <2>4, <3>1, <3>5, <3>8, <3>9, <3>10, HoldOver DEF Rest, Sending
    <2> QED BY <1>4, <2>3, <2>4 DEF ManagedAdmission
  <1>5. CASE StartThread
    <2> DEFINE s == Enroll(disk, NoObservation)
    <2>1. /\ latest' = latest /\ turnOf' = turnOf /\ nextId' = nextId /\ ledger' = ledger
          /\ policy' = policy /\ barred' = barred /\ old' = old /\ Write(s) /\ Release
      BY <1>5 DEF StartThread, native
    <2>2. s \in Records /\ Carry(disk, s, disk.Handled)
      BY <1>0, Constants, EnrollType, EnrollCarry
    <2> HIDE DEF s
    <2> QED BY <1>a, <2>1, <2>2, AlikeSelf, OwnFits, FreeOver
  <1>6. CASE CancelAdmission
    <2>1. /\ latest' = latest /\ turnOf' = turnOf /\ nextId' = nextId /\ ledger' = ledger
          /\ policy' = policy /\ old' = old /\ barred' = barred \cup Ended(disk)
          /\ Write(c) /\ Release
      BY <1>6 DEF CancelAdmission, native
    <2> HIDE DEF c
    <2> QED BY <1>a, <1>b, <1>d, <2>1, AlikeSelf
  <1>7. CASE UpdateThreadSettings
    <2> DEFINE s == InvalidateSettings(disk, latest.turn)
    <2>1. /\ latest' = latest /\ turnOf' = turnOf /\ nextId' = nextId /\ ledger' = ledger
          /\ policy' = policy /\ old' = old /\ barred' = barred \cup Ended(disk)
          /\ Write(s) /\ Release
      BY <1>7 DEF UpdateThreadSettings, native
    <2>2. s \in Records /\ Carry(disk, s, latest.turn) /\ s.Cancelled /\ Valid(s)
      BY <1>0, InvalidateType, InvalidateCarry, InvalidateValid
    <2> HIDE DEF s
    <2>3. disk.Chain <= disk.Handled /\ disk.Handled <= latest.turn
      BY <1>0 DEF Fits, FitsUpTo, Order
    <2>4. Fits(s) /\ s.Chain = disk.Chain
      BY <1>0, <2>2, <2>3, CarryFits DEF Carry
    <2> QED BY <1>a, <1>d, <2>1, <2>2, <2>4, AlikeSelf
  <1>8. CASE CancelSession
    <2> DEFINE i == c.Pending.id
               t == turnOf[i]
    <2>1. /\ latest' = latest /\ turnOf' = turnOf /\ nextId' = nextId
          /\ policy' = policy /\ old' = old /\ barred' = barred \cup Ended(disk) /\ Release
          /\ ledger' = ledger \/ ledger' = [ledger EXCEPT ![i] = "absent"]
      BY <1>8 DEF CancelSession, native
    <2>2. Calm
      BY <1>0, <2>1, RetiredBook, AlikeSelf, AlikeCalm
    <2>3. CASE Write(c)
      <3> HIDE DEF c
      <3> QED BY <1>b, <1>d, <2>1, <2>2, <2>3
    <2>4. CASE Write(NeverSubmitted(c))
      <3> HIDE DEF c
      <3> DEFINE s == NeverSubmitted(c)
      <3>1. s \in Records /\ Carry(c, s, disk.Handled) /\ Valid(s)
        BY <1>b, NeverSubmittedType, NeverCarry, MarkedValid
      <3> HIDE DEF s
      <3>2. Carry(disk, s, disk.Handled) /\ s.Cancelled /\ s.Chain = disk.Chain
        BY <1>b, <3>1, CarryChain DEF Carry
      <3> QED BY <1>d, <2>1, <2>2, <2>4, <3>1, <3>2, OwnFits DEF s
    <2>5. CASE /\ Uncertain(c) /\ ledger[i] = "accepted"
               /\ \E wall \in Times, fits \in BOOLEAN : Write(Accepted(c, t, wall, fits))
      <3>1. PICK wall \in Times, fits \in BOOLEAN : Write(Accepted(c, t, wall, fits))
        BY <2>5
      <3> HIDE DEF c
      <3>2. HasPending(c) /\ wall \in Nat /\ Fits(c)
        BY <1>0, <1>b, <2>5 DEF Uncertain
      <3>3. t \in Nat
        BY <1>0, <3>2 DEF Fits, FitsUpTo, Order
      <3> DEFINE s == Accepted(c, t, wall, fits)
      <3>4. s \in Records /\ Fits(s)
        BY <1>b, <2>5, <3>2, ReceiptFits
      <3> HIDE DEF t
      <3>5. Carry(c, s, t) /\ Valid(s)
        BY <1>b, <2>5, <3>2, <3>3, AcceptedCarry, AcceptedValid
      <3> HIDE DEF s
      <3>6. s.Cancelled /\ s.Chain = disk.Chain
        BY <1>b, <3>5 DEF Carry
      <3> QED BY <1>d, <2>1, <2>2, <3>1, <3>4, <3>5, <3>6 DEF s
    <2> QED BY <1>8, <2>3, <2>4, <2>5 DEF CancelSession
  <1>9. CASE BootstrapPolicy \/ SetPolicy
    BY <1>9, OverBootstrap, OverSetPolicy
  <1> QED BY <1>1, <1>2, <1>3, <1>4, <1>5, <1>6, <1>7, <1>8, <1>9 DEF Competing

\* A later turn is over for no class yet, and an accepted attempt continues its
\* chain with it.
LEMMA LaterFits ==
    ASSUME TypeOK, NEW r \in Records, Fits(r),
           policy' = policy, barred' = barred, old' = old, nextId' = nextId,
           latest'.turn \in Nat, latest.turn <= latest'.turn,
           latest'.turn = latest.turn => latest.status = "inProgress",
           \A i \in Ids : ledger'[i] = "accepted" =>
              (ledger[i] = "accepted" /\ turnOf'[i] = turnOf[i]) \/ turnOf'[i] = latest'.turn
    PROVE  FitsThen(r)
  <1>0. /\ latest.turn \in Nat /\ r.Chain \in Nat /\ r.Handled \in Nat
        /\ r.Pending.failure \in Nat /\ r.Pending.result \in Nat
        /\ old \subseteq Nat \X Classes
    BY DEF TypeOK, Observations, Records, PendingType
  <1>1. Order(r, latest'.turn, ledger', turnOf', nextId')
    <2>1. /\ r.Chain <= r.Handled /\ r.Handled <= latest'.turn
          /\ r.Chain <= latest'.turn
          /\ r.Pending.result # 0 => r.Chain <= r.Pending.result /\ r.Pending.result <= latest'.turn
      BY <1>0 DEF Fits, FitsUpTo, Order
    <2>2. ASSUME HasPending(r)
          PROVE  /\ r.Pending.id \in Ids /\ r.Pending.id < nextId' /\ r.Enrolled /\ r.Chain # 0
                 /\ r.Chain <= r.Pending.failure /\ r.Pending.failure <= latest'.turn
                 /\ ledger'[r.Pending.id] = "accepted" => r.Chain <= turnOf'[r.Pending.id]
      BY <1>0, <2>1, <2>2 DEF Fits, FitsUpTo, Order
    <2> QED BY <2>1, <2>2 DEF Order
  <1>2. Shut(r, barred', policy'.choice) /\ Live(r, old', policy'.choice)
    BY DEF Fits, FitsUpTo
  <1>3. Past(r, old', policy'.choice, latest')
    <2> SUFFICES ASSUME NEW x \in old PROVE x[1] <= latest'.turn /\ x[1] # latest'.turn
      BY DEF Past
    <2>1. /\ x[1] \in Nat /\ x[1] <= latest.turn
          /\ x[1] = latest.turn => latest.status # "inProgress"
      BY <1>0 DEF Fits, FitsUpTo, Past
    <2> QED BY <1>0, <2>1
  <1> QED BY <1>1, <1>2, <1>3 DEF FitsThen

LEMMA OverNative ==
    ASSUME TypeOK, OnceInv, OverInv, Native \/ Abort PROVE OverInv'
  <1>0. /\ mem \in Records /\ disk \in Records /\ latest \in Observations /\ nextTurn \in Nat
        /\ ledger \in [Ids -> LedgerStates] /\ turnOf \in [Ids -> Nat] /\ latest.turn \in Nat
        /\ Fits(mem) /\ Valid(mem) /\ Fits(disk) /\ Valid(disk)
        /\ latest.turn < nextTurn /\ obs \in Observations /\ obs.turn \in Nat
    BY DEF TypeOK, OverInv, Fitting, Sane, Observations, OnceInv, Dated
  <1>1. CASE Abort
    <2>1. /\ latest' = latest /\ turnOf' = turnOf /\ nextId' = nextId /\ ledger' = ledger
          /\ policy' = policy /\ old' = old /\ barred' = barred /\ disk' = disk /\ Release
      BY <1>1 DEF Abort, native, ghosts
    <2>2. Calm
      BY <2>1, AlikeSelf, AlikeCalm DEF SameBook
    <2> QED BY <2>1, <2>2, ReleaseOver
  <1>2. CASE Native
    <2>1. /\ disk' = disk /\ mem' = mem /\ pc' = pc /\ obs' = obs /\ dec' = dec
          /\ policy' = policy /\ barred' = barred /\ old' = old /\ nextId' = nextId
      BY <1>2 DEF Native, NativeStart, NativeFinish, Deliver, Lose, Reincarnate, holder, ghosts
    <2>2. Sane' /\ Rest' /\ Decided' /\ Listed' /\ Sending'
      BY <2>1 DEF OverInv, Sane, Rest, Decided, Listed, Sending
    <2>3. CASE Lose \/ Reincarnate
      <3>1. /\ latest' = latest /\ turnOf' = turnOf
            /\ \A i \in Ids : /\ ledger'[i] \in {ledger[i], "lost"}
                              /\ ledger'[i] \in Out => ledger[i] \in Out
        BY <1>0, <2>3 DEF Lose, Reincarnate, native, Out
      <3>2. Calm
        <4>1. SameBook
          <5> SUFFICES ASSUME NEW i \in Ids
                       PROVE  /\ ledger'[i] = "accepted" => ledger[i] = "accepted"
                              /\ i >= nextId /\ ledger'[i] \in Out => ledger[i] \in Out
            BY DEF SameBook
          <5>1. ledger'[i] = ledger[i] \/ ledger'[i] = "lost"
            BY <3>1
          <5> QED BY <3>1, <5>1
        <4>2. Alike(policy', policy)
          BY <2>1, AlikeSelf
        <4> QED BY <2>1, <3>1, <4>1, <4>2, AlikeCalm
      <3>3. Seen'
        BY <2>1, <3>1 DEF OverInv, Seen
      <3> QED BY <1>0, <2>1, <2>2, <3>2, <3>3, MoveOver
    <2>4. CASE NativeStart \/ NativeFinish \/ Deliver
      <3>1. /\ latest'.turn \in Nat /\ latest.turn <= latest'.turn
            /\ latest'.turn = latest.turn => latest.status = "inProgress"
            /\ latest'.turn # 0
        <4>1. CASE NativeStart \/ Deliver
          <5>1. latest'.turn = nextTurn
            BY <4>1 DEF NativeStart, Deliver, StartTurn
          <5> QED BY <1>0, <5>1
        <4>2. CASE NativeFinish
          <5>1. latest'.turn = latest.turn /\ latest.status = "inProgress"
            BY <1>0, <4>2 DEF NativeFinish, Observations
          <5>2. latest.turn # 0
            BY <5>1 DEF OverInv, Seen
          <5> QED BY <1>0, <5>1, <5>2
        <4> QED BY <2>4, <4>1, <4>2
      <3>2. /\ \A i \in Ids : ledger'[i] = "accepted" =>
                  (ledger[i] = "accepted" /\ turnOf'[i] = turnOf[i]) \/ turnOf'[i] = latest'.turn
            /\ \A i \in Ids : ledger'[i] \in Out => ledger[i] \in Out
            /\ \A i \in Ids : turnOf'[i] = turnOf[i] \/ turnOf'[i] = latest'.turn
        <4>1. CASE NativeStart \/ NativeFinish
          BY <4>1 DEF NativeStart, NativeFinish
        <4>2. CASE Deliver
          <5>1. latest'.turn = nextTurn
            BY <4>2 DEF Deliver, StartTurn
          <5>2. PICK i \in Ids : /\ ledger[i] = "attempted"
                                 /\ ledger' = [ledger EXCEPT ![i] = "accepted"]
                                 /\ turnOf' = [turnOf EXCEPT ![i] = nextTurn]
            BY <4>2 DEF Deliver
          <5> QED BY <1>0, <5>1, <5>2 DEF Out
        <4> QED BY <2>4, <4>1, <4>2
      <3>3. FitsThen(disk) /\ FitsThen(mem)
        BY <1>0, <2>1, <3>1, <3>2, LaterFits
      <3>4. Issued'
        <4>1. \A i \in Ids : turnOf[i] \in Nat /\ turnOf[i] <= latest.turn
          BY <1>0 DEF OverInv, Issued
        <4>2. \A i \in Ids : turnOf'[i] <= latest'.turn
          BY <1>0, <3>1, <3>2, <4>1
        <4> QED BY <2>1, <3>2, <4>2 DEF OverInv, Issued
      <3>5. Seen'
        <4>1. obs.turn <= latest'.turn
          BY <1>0, <3>1 DEF OverInv, Seen
        <4> QED BY <2>1, <3>1, <4>1 DEF OverInv, Seen
      <3> QED BY <2>1, <2>2, <3>3, <3>4, <3>5, FittingThen DEF OverInv
    <2> QED BY <1>2, <2>3, <2>4 DEF Native
  <1> QED BY <1>1, <1>2

LEMMA OverInit == Init => OverInv
  <1> SUFFICES ASSUME Init PROVE OverInv
    OBVIOUS
  <1>1. /\ disk = New /\ mem = New /\ pc = "free" /\ obs = NoObservation /\ dec = NoDecision
        /\ policy = NoPolicy /\ latest = NoObservation /\ nextId = 1 /\ barred = {} /\ old = {}
        /\ ledger = [i \in Ids |-> "absent"] /\ turnOf = [i \in Ids |-> 0]
    BY DEF Init
  <1>2. /\ New.Chain = 0 /\ New.Handled = 0 /\ New.Pending.id = 0 /\ New.Pending.result = 0
        /\ New.Cyber = {} /\ New.Phase = "idle"
    BY DEF New, NoPending
  <1>3. /\ NoObservation.turn = 0 /\ NoObservation.status = "none"
    BY DEF NoObservation
  <1>4. Fits(New)
    BY <1>1, <1>2, <1>3 DEF Fits, FitsUpTo, Order, Shut, Live, Past, HasPending
  <1>5. Valid(New)
    <2>1. Cardinality({}) = 0 /\ CyberLimit \in Nat
      BY FS_EmptySet, RecordAssumption
    <2>2. Cardinality({}) <= CyberLimit + 1
      BY <2>1
    <2> QED BY <1>2, <2>2 DEF Valid, HasPending
  <1>6. Issued
    BY <1>1, <1>3 DEF Issued, Out
  <1>7. Seen /\ Rest /\ Decided /\ Sending
    BY <1>1, <1>3 DEF Seen, Rest, Decided, Sending
  <1>8. Listed
    BY <1>1 DEF Listed, NoPolicy, NoDecision, Stopped
  <1> QED BY <1>1, <1>4, <1>5, <1>6, <1>7, <1>8 DEF OverInv, Fitting, Sane

LEMMA OverNext ==
    ASSUME ReceiptInv, OnceInv, QuotaInv, OverInv, [Next]_vars PROVE OverInv'
  <1>1. TypeOK
    BY DEF ReceiptInv
  <1>2. CASE UNCHANGED vars
    <2>1. UNCHANGED <<disk, mem, pc, obs, dec, policy, latest, turnOf, ledger, nextId, barred, old>>
      BY <1>2 DEF vars, holder, native, ghosts
    <2>2. Fitting'
      BY <2>1 DEF OverInv, Fitting, Fits, FitsUpTo
    <2> QED BY <2>1, <2>2 DEF OverInv, Sane, Issued, Seen, Rest, Decided, Listed, Sending
  <1>3. CASE Next
    BY <1>1, <1>3, OverStep, OverReconcile, OverCompeting, OverNative DEF Next
  <1> QED BY <1>2, <1>3

\* The only call made is the holder's, for a chain and a failure that are open.
LEMMA SentOpen ==
    ASSUME TypeOK, OverInv, [Next]_vars, NEW n \in DOMAIN sent' \ DOMAIN sent
    PROVE  /\ sent'[n].chain \notin barred
           /\ <<sent'[n].failure, sent'[n].class>> \notin old
  <1>1. CASE Send
    <2> DEFINE x == [id |-> mem.Pending.id, failure |-> mem.Pending.failure,
                     chain |-> mem.Chain, class |-> mem.Class, at |-> mem.Pending.charged]
    <2>1. sent' = Append(sent, x) /\ pc = "send" /\ sent \in Seq(Sends)
      BY <1>1 DEF Send, TypeOK
    <2>2. x.chain = mem.Chain /\ x.failure = mem.Pending.failure /\ x.class = mem.Class
      OBVIOUS
    <2> HIDE DEF x
    <2>3. sent'[n] = x
      BY <2>1
    <2> QED BY <2>1, <2>2, <2>3 DEF OverInv, Sending
  <1>2. CASE ~Send
    <2>1. sent' = sent
      <3>1. CASE UNCHANGED vars
        BY <3>1 DEF vars, ghosts
      <3>2. CASE Step
        BY <1>2, <3>2 DEF Step, StepLock, Acquire, CheckHeld, NoCapacity, UnsubmittedDisallowed,
           UnsubmittedRenew, Decide, AllowOrCancel, ReadNative, EnrollAgain, Unproven, Settle,
           NotDue, CheckDue, BeginAttempt, Prepare, DispatchRefused, Reply, ReplyUnknown, ghosts
      <3>3. CASE Reconcile
        BY <3>3 DEF Reconcile, ReconcileOnly, Acquire, ReconcileFound, ReconcileNever,
           ReconcileUnknown, ghosts
      <3>4. CASE Competing
        BY <3>4 DEF Competing, BoundaryChanged, ActionLock, Acquire, Act, ManagedAdmission,
           StartThread, CancelAdmission, UpdateThreadSettings, CancelSession, BootstrapPolicy,
           SetPolicy, ghosts
      <3>5. CASE Native \/ Abort
        BY <3>5 DEF Native, NativeStart, NativeFinish, Deliver, Lose, Reincarnate, Abort, ghosts
      <3> QED BY <3>1, <3>2, <3>3, <3>4, <3>5 DEF Next
    <2> QED BY <2>1
  <1> QED BY <1>1, <1>2

\* A chain that was ended is never continued again, whoever ended it and for
\* every limit, backoff table and bound: Stop, a cancelled admission, changed
\* settings, a lifecycle stop and a new incarnation mark the record cancelled
\* (Cancel), a preference switched off suppresses its chain (PreparePolicy),
\* and Observe starts later chains only.
THEOREM EndedStaysEnded == Spec => NoSendAfterEnd
  <1> DEFINE Inv == ReceiptInv /\ OnceInv /\ QuotaInv /\ OverInv
  <1>1. Init => Inv
    BY OnceInit, QuotaInit, OverInit
  <1>2. Inv /\ [Next]_vars => Inv'
    BY OnceNext, QuotaNext, OverNext
  <1>3. Inv /\ [Next]_vars => [\A n \in DOMAIN sent' \ DOMAIN sent : sent'[n].chain \notin barred]_vars
    BY SentOpen DEF ReceiptInv
  <1> QED BY <1>1, <1>2, <1>3, PTL DEF Spec, NoSendAfterEnd

\* A failure that was over before its class was opted in is never continued,
\* for every limit, backoff table and bound: each enrollment, and each
\* preference switched on, leaves the turn it finds as the watermark that
\* Observe and Eligible compare with, the second read of an enrollment covers
\* a turn that ended between the two, and an attempt made before its class was
\* switched off belongs to a chain the policy suppresses.
THEOREM OldStaysOld == Spec => NoOldFailureContinued
  <1> DEFINE Inv == ReceiptInv /\ OnceInv /\ QuotaInv /\ OverInv
  <1>1. Init => Inv
    BY OnceInit, QuotaInit, OverInit
  <1>2. Inv /\ [Next]_vars => Inv'
    BY OnceNext, QuotaNext, OverNext
  <1>3. Inv /\ [Next]_vars =>
           [\A n \in DOMAIN sent' \ DOMAIN sent :
               <<sent'[n].failure, sent'[n].class>> \notin old]_vars
    BY SentOpen DEF ReceiptInv
  <1> QED BY <1>1, <1>2, <1>3, PTL DEF Spec, NoOldFailureContinued

=============================================================================
