---------------------------- MODULE RetryRecord ----------------------------
(***************************************************************************)
(* The durable automatic-retry record of one conversation thread           *)
(* (portal/internal/turnretry/state.go) and the operations the package     *)
(* defines on it, as operators from a record to the record the method      *)
(* leaves behind.  TurnRetry.tla says when each one runs.                  *)
(*                                                                         *)
(* Turns and attempt identities are naturals; 0 stands for the empty       *)
(* string, so a Pending whose id is 0 is the nil pointer of the code.      *)
(* Display-only fields (reason, attempt) are left out, and the settings    *)
(* evidence (snapshots, binding, managed turn) is reduced to the epoch     *)
(* its proofs carry: whether a proof exists, or fits the record, is an     *)
(* input of the operators below.                                           *)
(***************************************************************************)
EXTENDS Integers, FiniteSets, Sequences

CONSTANTS CyberLimit,   \* cybersecurity sends allowed in one window
          Window,       \* length of the quota window (300000 ms in the code)
          Delays        \* the backoff table of CapacityDelay, a sequence

ASSUME RecordAssumption ==
    /\ CyberLimit \in Nat \ {0}
    /\ Window \in Nat \ {0}
    /\ Delays \in Seq(Nat) /\ Delays # <<>>

Phases  == {"idle", "scheduled", "submitting", "reconciling", "running",
            "cancelled", "exhausted", "blocked"}
Classes == {"none", "capacity", "cybersecurity"}

\* Native turn outcomes as retryBackend.Observe reports them.
Codes    == {"none", "serverOverloaded", "cyberPolicy", "other"}
Statuses == {"none", "inProgress", "completed", "interrupted", "failed"}
Observations == [turn : Nat, status : Statuses, code : Codes]
NoObservation == [turn |-> 0, status |-> "none", code |-> "none"]

PendingType == [id : Nat, failure : Nat, epoch : Nat, charged : Nat, result : Nat]
NoPending   == [id |-> 0, failure |-> 0, epoch |-> 0, charged |-> 0, result |-> 0]
Charges     == [id : Nat, at : Nat, accepted : BOOLEAN]

Records == [Epoch : Nat, Boundary : Nat,
            Enrolled : BOOLEAN, Baseline : Nat, BaselineActive : BOOLEAN,
            Handled : Nat, Chain : Nat, Class : Classes, Phase : Phases,
            Capacity : Nat, DeadlineMS : Nat, ClockMS : Nat,
            Cyber : SUBSET Charges, Cancelled : BOOLEAN, Pending : PendingType]

New == [Epoch |-> 1, Boundary |-> 0,
        Enrolled |-> FALSE, Baseline |-> 0, BaselineActive |-> FALSE,
        Handled |-> 0, Chain |-> 0, Class |-> "none", Phase |-> "idle",
        Capacity |-> 0, DeadlineMS |-> 0, ClockMS |-> 0,
        Cyber |-> {}, Cancelled |-> FALSE, Pending |-> NoPending]

----------------------------------------------------------------------------
\* Small helpers of state.go.

MaxOf(a, b) == IF a >= b THEN a ELSE b

HasPending(s) == s.Pending.id # 0
Uncertain(s)  == HasPending(s) /\ s.Phase \in {"submitting", "reconciling"}

ClassOf(code) == CASE code = "serverOverloaded" -> "capacity"
                   [] code = "cyberPolicy"      -> "cybersecurity"
                   [] OTHER                     -> "none"

\* State.Now: the record's clock never runs backwards.
Clocked(s, wall) == [s EXCEPT !.ClockMS = MaxOf(wall, @)]

\* Mutant of LiveCharges: a charge expires one tick early.
LiveChargesShort(s, clock) == {c \in s.Cyber : c.at + Window > clock + 1}

\* Charges still inside the window at `clock`.
LiveCharges(s, clock) == {c \in s.Cyber : c.at + Window > clock}

\* CapacityDelay without its jitter: the last entry repeats.
CapacityDelay(attempt) ==
    Delays[IF attempt + 1 <= Len(Delays) THEN attempt + 1 ELSE Len(Delays)]

\* What Save insists on (validate, restricted to the modelled fields).
Valid(s) ==
    /\ Cardinality(s.Cyber) <= CyberLimit + 1
    /\ \A c \in s.Cyber : c.at > 0
    /\ \A c, d \in s.Cyber : c.id = d.id => c = d
    /\ HasPending(s) =>
          /\ s.Pending.epoch <= s.Epoch
          /\ s.Pending.failure # 0
          /\ s.Pending.charged # 0 =>
                \E c \in s.Cyber : c.id = s.Pending.id /\ c.at = s.Pending.charged
          /\ s.Class = "cybersecurity" /\ s.Phase \in {"submitting", "reconciling", "running"}
                => s.Pending.charged # 0
    /\ s.Phase = "scheduled" => HasPending(s) /\ s.DeadlineMS > 0

----------------------------------------------------------------------------
\* Enrollment and cancellation.

Enroll(s, o) ==
    IF s.Enrolled THEN s
    ELSE [s EXCEPT !.Enrolled = TRUE, !.Baseline = o.turn,
                   !.BaselineActive = (o.status = "inProgress")]

\* Mutant of Cancel: a possibly submitted attempt is dropped as well.
CancelForgets(s) ==
    [s EXCEPT !.Cancelled = TRUE, !.DeadlineMS = 0, !.Phase = "cancelled", !.Pending = NoPending]

\* A possibly submitted attempt survives its own cancellation.
Cancel(s) ==
    LET marked == [s EXCEPT !.Cancelled = TRUE, !.DeadlineMS = 0,
                            !.Handled = IF HasPending(s) /\ s.Pending.result # 0
                                        THEN s.Pending.result ELSE @]
    IN  IF Uncertain(s) THEN marked
        ELSE [marked EXCEPT !.Phase = "cancelled", !.Pending = NoPending]

\* Cancellation that keeps the owning attempt readable for its receipt: the
\* tail shared by Stop and by the disabled branch of Step.
CancelKeepingPending(s) == [Cancel(s) EXCEPT !.Pending = s.Pending]

\* Settings intent: a new epoch, and the current turn is consumed.
InvalidateSettings(s, turn) ==
    LET c == Cancel([s EXCEPT !.Epoch = @ + 1])
    IN  [c EXCEPT !.Handled = IF turn # 0 THEN turn ELSE @]

\* Mutant of Stop: an attempt that was not submitted yet goes on.
StopSubmitted(s) == IF s.Cancelled \/ ~Uncertain(s) THEN s ELSE CancelKeepingPending(s)

\* policy.go Stop: only called when the record is not already cancelled.
Stop(s) ==
    IF s.Cancelled THEN s
    ELSE CancelKeepingPending(
           [s EXCEPT !.Handled = CASE ~HasPending(s)         -> @
                                   [] HasPending(s) /\ s.Pending.result # 0 -> s.Pending.result
                                   [] OTHER                  -> s.Pending.failure])

\* policy.go RetryNow: shortens a saved deadline, nothing else.
RetryNow(s, wall) ==
    IF s.Cancelled \/ s.Phase # "scheduled" \/ ~HasPending(s)
          \/ s.DeadlineMS <= MaxOf(wall, s.ClockMS)
    THEN s
    ELSE [Clocked(s, wall) EXCEPT !.DeadlineMS = MaxOf(wall, s.ClockMS)]

----------------------------------------------------------------------------
\* The session's decision (policy.go).

Enrollments  == [turn : Nat, active : BOOLEAN]
Suppressions == [chain : Nat, pending : Nat, result : Nat]
Decisions    == [capacity : BOOLEAN, cybersecurity : BOOLEAN,
                 capacityBaseline : Enrollments, cybersecurityBaseline : Enrollments,
                 suppressed : SUBSET Suppressions]

DecisionEnabled(d, class) ==
    \/ class = "capacity" /\ d.capacity
    \/ class = "cybersecurity" /\ d.cybersecurity

Allows(d, s) ==
    /\ DecisionEnabled(d, s.Class)
    /\ ~s.Cancelled
    /\ \A v \in d.suppressed :
          /\ v.chain # s.Chain
          /\ HasPending(s) /\ v.pending # 0 => v.pending # s.Pending.id

Eligible(d, s, o) ==
    LET class    == ClassOf(o.code)
        baseline == IF class = "cybersecurity" THEN d.cybersecurityBaseline
                                               ELSE d.capacityBaseline
    IN  /\ DecisionEnabled(d, class)
        /\ o.turn = baseline.turn => baseline.active
        /\ \A v \in d.suppressed :
              /\ o.turn # v.chain
              /\ v.result # 0 => o.turn # v.result
              /\ HasPending(s) /\ s.Pending.result = o.turn =>
                    v.chain # s.Chain /\ v.pending # s.Pending.id

----------------------------------------------------------------------------
\* State.Observe, from its innermost branch outwards.

\* The tail after a supported, eligible failure: schedule an attempt, or stop
\* for want of proof or quota.  `proven` says whether Proof(o.turn) # nil and
\* `id` is the fresh attempt identity.
Schedule(s, o, d, proven, id, jitter) ==
    LET continuing == HasPending(s) /\ s.Pending.result = o.turn /\ ~s.Cancelled
        class      == ClassOf(o.code)
        base       == IF continuing
                      THEN [s EXCEPT !.Handled = o.turn, !.Class = class]
                      ELSE [s EXCEPT !.Handled = o.turn, !.Class = class,
                                     !.Chain = o.turn, !.Capacity = 0, !.Cancelled = FALSE]
        halted(p)  == [base EXCEPT !.Phase = p, !.Pending = NoPending, !.DeadlineMS = 0]
    IN  CASE ~proven -> halted("blocked")
          [] proven /\ class = "cybersecurity"
                /\ Cardinality(LiveCharges(s, s.ClockMS)) >= CyberLimit -> halted("exhausted")
          [] OTHER ->
               [base EXCEPT
                  !.Pending = [id |-> id, failure |-> o.turn, epoch |-> s.Epoch,
                               charged |-> 0, result |-> 0],
                  !.Phase = "scheduled",
                  !.DeadlineMS = IF class = "capacity"
                                 THEN s.ClockMS + CapacityDelay(base.Capacity) + jitter
                                 ELSE s.ClockMS]

\* A terminal turn that is neither handled nor the consumed baseline.
ObserveTerminal(s, o, d, proven, id, jitter) ==
    LET mine == HasPending(s) /\ s.Pending.result = o.turn
    IN  CASE o.status # "failed" ->
               [s EXCEPT !.Handled = IF o.turn # 0 THEN o.turn ELSE @,
                         !.Phase = "idle", !.Pending = NoPending,
                         !.DeadlineMS = 0, !.Class = "none"]
          [] o.status = "failed" /\ ClassOf(o.code) = "none" ->
               IF mine THEN [s EXCEPT !.Handled = o.turn, !.Phase = "blocked",
                                      !.DeadlineMS = 0, !.Cancelled = TRUE]
                       ELSE [s EXCEPT !.Handled = o.turn]
          [] o.status = "failed" /\ ClassOf(o.code) # "none" /\ ~Eligible(d, s, o) ->
               IF mine THEN [s EXCEPT !.Class = ClassOf(o.code), !.Cancelled = TRUE,
                                      !.DeadlineMS = 0, !.Phase = "cancelled",
                                      !.Handled = o.turn]
                       ELSE s
          [] OTHER -> Schedule(s, o, d, proven, id, jitter)

Observe(s0, o, wall, d, proven, id, jitter) ==
    LET s  == Clocked(s0, wall)
        \* an undispatched attempt for another failure is superseded
        s1 == IF HasPending(s) /\ s.Pending.result = 0 /\ o.turn \notin {0, s.Pending.failure}
              THEN Cancel(s) ELSE s
        \* so is a running one once a different turn has ended
        s2 == IF HasPending(s1) /\ s1.Pending.result \notin {0, o.turn}
              THEN Cancel(s1) ELSE s1
    IN  CASE ~s.Enrolled -> Enroll(s, o)
          [] s.Enrolled /\ (Uncertain(s) \/ (s.Cancelled /\ HasPending(s))) -> s
          [] s.Enrolled /\ ~Uncertain(s) /\ ~(s.Cancelled /\ HasPending(s)) ->
               IF \/ o.status = "inProgress"
                  \/ o.turn = s1.Handled
                  \/ o.turn = s1.Baseline /\ ~s1.BaselineActive
               THEN s1
               ELSE ObserveTerminal(s2, o, d, proven, id, jitter)

----------------------------------------------------------------------------
\* Quota, dispatch and receipts.

\* Reserve a charge for a send of the pending attempt; at the limit the
\* attempt is given up instead.
ReserveUnsubmitted(s, wall) ==
    IF s.Class # "cybersecurity" THEN s
    ELSE LET c    == Clocked(s, wall)
             kept == {x \in LiveCharges(c, c.ClockMS) : x.id # c.Pending.id}
         IN  IF Cardinality(kept) >= CyberLimit
             THEN [c EXCEPT !.Cyber = kept, !.Phase = "exhausted",
                            !.DeadlineMS = 0, !.Pending = NoPending]
             ELSE [c EXCEPT !.Cyber = kept \cup
                               {[id |-> c.Pending.id, at |-> c.ClockMS, accepted |-> FALSE]},
                            !.Pending.charged = c.ClockMS]

\* The guard of Begin, evaluated by Step before and by Begin itself.
Due(s, wall, d) ==
    /\ s.Phase = "scheduled" /\ HasPending(s) /\ Allows(d, s)
    /\ MaxOf(wall, s.ClockMS) >= s.DeadlineMS

\* Mutant of Begin: the capacity counter runs the wrong way.
BeginDown(s, wall) ==
    LET r == ReserveUnsubmitted(Clocked(s, wall), wall)
    IN  IF ~HasPending(r) THEN r
        ELSE [r EXCEPT !.Phase = "submitting", !.DeadlineMS = 0,
                       !.Capacity = IF s.Class = "capacity" THEN @ - 1 ELSE @]

Begin(s, wall) ==
    LET r == ReserveUnsubmitted(Clocked(s, wall), wall)
    IN  IF ~HasPending(r) THEN r
        ELSE [r EXCEPT !.Phase = "submitting", !.DeadlineMS = 0,
                       !.Capacity = IF s.Class = "capacity" THEN @ + 1 ELSE @]

\* Accepted refuses a receipt with no attempt, another result, or no charge.
CanAccept(s, turn) ==
    /\ HasPending(s) /\ turn # 0
    /\ s.Pending.result \in {0, turn}
    /\ s.Class = "cybersecurity" => \E c \in s.Cyber : c.id = s.Pending.id

\* Record the receipt and anchor its charge at the time it became known.
\* `fits` says whether the result's snapshot could be retained.
Accepted(s0, turn, wall, fits) ==
    LET mine   == {c \in s0.Cyber : c.id = s0.Pending.id}
        anchor == {c \in mine : ~c.accepted}
        s == IF s0.Class = "cybersecurity" /\ anchor # {}
             THEN LET t == MaxOf(wall, s0.ClockMS)
                  IN [Clocked(s0, wall) EXCEPT
                        !.Cyber = (@ \ anchor) \cup
                            {[c EXCEPT !.at = MaxOf(@, t), !.accepted = TRUE] : c \in anchor},
                        !.Pending.charged = MaxOf(@, t)]
             ELSE s0
        already == s.Pending.result = turn /\ s.Handled = turn
        bound   == [s EXCEPT !.Pending.result = turn]
    IN  CASE ~already /\ ~fits ->
               [bound EXCEPT !.Handled = turn, !.Phase = "blocked",
                             !.Cancelled = TRUE, !.DeadlineMS = 0]
          [] already /\ s.Phase = "blocked" -> bound
          [] OTHER -> IF s.Cancelled THEN [bound EXCEPT !.Phase = "cancelled", !.Handled = turn]
                                     ELSE [bound EXCEPT !.Phase = "running"]

\* reconcile's positive never-submitted proof.
NeverSubmitted(s) ==
    IF s.Cancelled THEN [s EXCEPT !.Phase = "cancelled", !.Pending = NoPending] ELSE s

\* reconcile's and dispatch's unknown outcome.
OutcomeUnknown(s) == [s EXCEPT !.Phase = "reconciling"]
=============================================================================
