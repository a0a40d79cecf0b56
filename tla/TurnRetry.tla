----------------------------- MODULE TurnRetry -----------------------------
(***************************************************************************)
(* Automatic continuation of one failed conversation turn: the controller  *)
(* of portal/internal/turnretry, the managed admission that competes with  *)
(* it (portal/internal/workspacecodex/turn_retry.go), the browser actions  *)
(* and the policy transaction (portal/internal/web/turn_retry*.go).        *)
(*                                                                         *)
(* Every operation on the record holds the thread's admission lock (an     *)
(* flock) from start to end, so at most one is in progress: `pc` is the    *)
(* point its holder has reached and `mem` the holder's copy of the record. *)
(* Steps are cut where something durable or external happens: a Save, a    *)
(* policy write, a call of the native app-server.  Abort may strike at     *)
(* every cut: a crash, a timeout and an error return all release the lock  *)
(* and forget `mem`.  The native thread, its submission ledger and its     *)
(* turns move on their own, without the lock.                              *)
(*                                                                         *)
(* The wall clock is read as an arbitrary member of Times at each use, so  *)
(* it may stand still or jump backwards between any two reads.             *)
(***************************************************************************)
EXTENDS RetryRecord

CONSTANTS Times,      \* readings of the wall clock
          Jitters,    \* the random part of the backoff
          Outcomes,   \* how native turns end: <<status, code>>
          MaxId,      \* bound on attempt identities
          MaxTurn,    \* bound on native turns
          MaxMoves    \* bound on interventions from outside the worker

ASSUME TurnRetryAssumption ==
    /\ Times \subseteq Nat \ {0}
    /\ Jitters \subseteq Nat
    /\ Outcomes \subseteq (Statuses \ {"none", "inProgress"}) \X Codes
    /\ MaxId \in Nat
    /\ MaxTurn \in Nat
    /\ MaxMoves \in Nat

VARIABLES
    disk,         \* the saved record
    mem,          \* Transaction.State of the lock holder
    pc,           \* where the lock holder is, "free" when there is none
    op,           \* which operation holds the lock
    obs,          \* the holder's native observation
    dec,          \* the holder's policy decision
    policy,       \* the session policy sidecar, for this thread
    incarnation,  \* session.ObservationIdentity
    latest,       \* the native thread's latest turn
    ledger,       \* the native client's submission ledger
    turnOf,       \* the turn an accepted attempt started
    nextId, nextTurn,
    moves,        \* interventions so far
    sent,         \* history: every outbound call made, in order
    receipts,     \* history: attempts whose receipt was saved
    barred,       \* history: chains a user action or a policy change ended
    old           \* history: <<turn, class>> over before it was opted in

holder == <<mem, pc, op, obs, dec>>
native == <<latest, turnOf, nextTurn>>
ghosts == <<sent, receipts, barred, old>>
vars == <<disk, holder, policy, incarnation, native, ledger, nextId, moves, ghosts>>

Ids == 1..MaxId

Points == {"free", "reconcile", "unsubmitted", "decide", "allow", "observe",
           "enroll", "settle", "check", "begin", "dispatch", "send", "await", "act"}
Ops == {"none", "step", "only", "stop", "now", "admit"}

\* What the ledger knows of an attempt.  "attempted" may or may not arrive.
LedgerStates == {"absent", "prepared", "attempted", "lost", "accepted"}

Qualities == {"none", "exact", "partial", "unavailable"}
Summaries == [chain : Nat, count : Nat, quality : Qualities, last : Nat, pending : Nat]
NoSummary == [chain |-> 0, count |-> 0, quality |-> "none", last |-> 0, pending |-> 0]

NoEnrollment == [turn |-> 0, active |-> FALSE]
NoDecision == [capacity |-> FALSE, cybersecurity |-> FALSE,
               capacityBaseline |-> NoEnrollment, cybersecurityBaseline |-> NoEnrollment,
               suppressed |-> {}]

\* `entry` says whether the sidecar lists this thread; `inc` is its scope.
Policies == [present : BOOLEAN, inc : Nat, entry : BOOLEAN,
             choice : Decisions, summary : Summaries]
NoPolicy == [present |-> FALSE, inc |-> 0, entry |-> FALSE,
             choice |-> NoDecision, summary |-> NoSummary]

Sends == [id : Nat, failure : Nat, chain : Nat, class : Classes, at : Nat]

Init ==
    /\ disk = New /\ mem = New
    /\ pc = "free" /\ op = "none"
    /\ obs = NoObservation /\ dec = NoDecision
    /\ policy = NoPolicy
    /\ incarnation = 1
    /\ latest = NoObservation
    /\ ledger = [i \in Ids |-> "absent"]
    /\ turnOf = [i \in Ids |-> 0]
    /\ nextId = 1 /\ nextTurn = 1 /\ moves = 0
    /\ sent = <<>> /\ receipts = {} /\ barred = {} /\ old = {}

----------------------------------------------------------------------------
\* The policy sidecar (policy.go, summary.go).

\* SessionPolicy.Decide: a thread enrolled by managed admission joins the
\* sidecar with the watermark of its record.
CanDecide(s) == policy.present /\ policy.inc = s.Boundary /\ (policy.entry \/ s.Enrolled)

Joined(p, s) ==
    IF p.entry THEN p
    ELSE LET baseline == [turn |-> s.Baseline, active |-> s.BaselineActive]
         IN  [p EXCEPT !.entry = TRUE,
                       !.choice.capacityBaseline = baseline,
                       !.choice.cybersecurityBaseline = baseline,
                       !.choice.suppressed = {}]

\* The confirmed-start summary that Checkpoint leaves.
SummaryOf(v0, s, fresh) ==
    LET v == IF v0.chain = s.Chain /\ v0.quality # "none" THEN v0
             ELSE [NoSummary EXCEPT !.chain = s.Chain,
                                    !.quality = IF fresh THEN "exact" ELSE "unavailable"]
        gap == /\ v.pending # 0 /\ v.last # v.pending /\ s.Pending.id # v.pending
               /\ v.quality = "exact"
        w == [v EXCEPT !.quality = IF gap THEN "partial" ELSE @,
                       !.pending = IF HasPending(s) THEN s.Pending.id ELSE @]
    IN  IF HasPending(s) /\ s.Pending.result # 0 /\ w.last # s.Pending.id
        THEN [w EXCEPT !.count = @ + 1, !.last = s.Pending.id,
                       !.quality = IF @ = "unavailable" THEN "partial" ELSE @]
        ELSE w

\* SessionPolicy.Checkpoint.  Without an entry for the thread it is refused.
CanCheckpoint(s) ==
    /\ policy.present /\ policy.inc = s.Boundary
    /\ policy.entry \/ s.Chain = 0 \/ s.Class = "none"

Checkpoint(p, s, fresh) ==
    IF s.Chain = 0 \/ s.Class = "none" THEN p
    ELSE [p EXCEPT
            !.choice.suppressed =
               {IF HasPending(s) /\ s.Pending.result # 0
                     /\ v.chain = s.Chain /\ v.pending = s.Pending.id
                THEN [v EXCEPT !.result = s.Pending.result] ELSE v : v \in @},
            !.summary = IF /\ @.quality = "none" \/ @.chain # s.Chain
                           /\ ~fresh /\ s.Phase \in {"idle", "cancelled"} /\ ~HasPending(s)
                        THEN @ ELSE SummaryOf(@, s, fresh)]

\* A Checkpoint whose failure the caller ignores.
OptionalCheckpoint(s) ==
    policy' \in {policy} \cup (IF CanCheckpoint(s) THEN {Checkpoint(policy, s, FALSE)} ELSE {})

----------------------------------------------------------------------------
\* Saving and releasing.

\* Transaction.Save of record s, then on to point `next`; a record that does
\* not validate is not written and the operation returns the error.
Recorded(s) == IF s.Pending.result # 0 THEN {s.Pending.id} ELSE {}

Release == pc' = "free" /\ op' = "none" /\ mem' = disk' /\ obs' = NoObservation /\ dec' = NoDecision

Write(s) ==
    /\ disk' = IF Valid(s) THEN s ELSE disk
    /\ receipts' = IF Valid(s) THEN receipts \cup Recorded(s) ELSE receipts

Save(s, next) ==
    /\ Write(s)
    /\ IF Valid(s) /\ next # "free"
       THEN mem' = s /\ pc' = next /\ UNCHANGED <<op, obs, dec>>
       ELSE Release

\* The chain an intervention ends, for the history.
Ended(s) == {s.Chain} \ {0}

Retried == Classes \ {"none"}

\* A turn already over when its classes are opted in, for the history.
Over(classes) == IF latest.status \in {"none", "inProgress"} THEN {} ELSE {latest.turn} \X classes

\* Someone other than the worker acts.
Move == moves < MaxMoves /\ moves' = moves + 1

\* Transaction.Close without a Save.
Abort ==
    /\ pc # "free"
    /\ disk' = disk /\ Release
    /\ UNCHANGED <<policy, incarnation, native, ledger, nextId, ghosts, moves>>

\* Taking the admission lock loads the record.
Acquire(o, s, next) ==
    /\ pc = "free"
    /\ op' = o /\ mem' = s /\ pc' = next
    /\ UNCHANGED <<disk, obs, dec, policy, incarnation, native, ledger, nextId, ghosts, moves>>

\* checkBoundary: the first reader binds the incarnation.
SameBoundary(s) == s.Boundary \in {0, incarnation}
Bound(s) == [s EXCEPT !.Boundary = incarnation]

\* A record of another incarnation is cancelled by whoever opens it.
BoundaryChanged ==
    /\ pc = "free"
    /\ ~SameBoundary(disk)
    /\ Write(Cancel(disk)) /\ Release
    /\ barred' = barred \cup Ended(disk)
    /\ UNCHANGED <<policy, incarnation, native, ledger, nextId, sent, old, moves>>

----------------------------------------------------------------------------
\* Controller.reconcile: settle an attempt whose outcome is not known, or
\* prove once more that a scheduled one was never submitted.

AfterReconcile == IF op \in {"stop", "now"} THEN "act" ELSE "free"

ReconcileFound ==
    /\ pc = "reconcile"
    /\ ledger[mem.Pending.id] = "accepted"
    /\ CanAccept(mem, turnOf[mem.Pending.id])
    /\ \E wall \in Times, fits \in BOOLEAN :
         LET s == Accepted(mem, turnOf[mem.Pending.id], wall, fits)
         IN  /\ Save(s, AfterReconcile)
             /\ IF op = "step" THEN OptionalCheckpoint(s) ELSE policy' = policy
    /\ UNCHANGED <<incarnation, native, ledger, nextId, sent, barred, old, moves>>

\* Where the holder of a never-submitted attempt goes on.
AfterNever(s) ==
    IF op # "step" THEN AfterReconcile
    ELSE IF ~HasPending(s) THEN "free"
    ELSE IF s.Phase = "scheduled" THEN "begin" ELSE "unsubmitted"

\* Mutant of ReconcileNever: an attempt that has left the client, with nothing
\* heard of it since, passes for never submitted.
ReconcileNeverHeard ==
    /\ pc = "reconcile"
    /\ ledger[mem.Pending.id] # "accepted"
    /\ ledger' = [ledger EXCEPT ![mem.Pending.id] = "absent"]
    /\ Save(NeverSubmitted(mem), AfterNever(NeverSubmitted(mem)))
    /\ UNCHANGED <<policy, incarnation, native, nextId, sent, barred, old, moves>>

\* DiscardPreparedSendWithOptions retires a prepared entry as it proves it.
ReconcileNever ==
    /\ pc = "reconcile"
    /\ ledger[mem.Pending.id] \in {"absent", "prepared"}
    /\ ledger' = [ledger EXCEPT ![mem.Pending.id] = "absent"]
    /\ Save(NeverSubmitted(mem), AfterNever(NeverSubmitted(mem)))
    /\ UNCHANGED <<policy, incarnation, native, nextId, sent, barred, old, moves>>

ReconcileUnknown ==
    /\ pc = "reconcile"
    /\ Save(OutcomeUnknown(mem), AfterReconcile)
    /\ UNCHANGED <<policy, incarnation, native, ledger, nextId, sent, barred, old, moves>>

\* Controller.ReconcileOnly, and the ReconcileLocked of a Stop or Retry now.
ReconcileOnly ==
    /\ SameBoundary(disk) /\ Uncertain(disk)
    /\ Acquire("only", Bound(disk), "reconcile")

----------------------------------------------------------------------------
\* Controller.Step.

StepLock ==
    /\ policy.present /\ policy.inc = incarnation   \* else Step is not reached
    /\ SameBoundary(disk)
    /\ Acquire("step", Bound(disk), IF Uncertain(disk) THEN "reconcile" ELSE "decide")

\* Backend.Check.  Holding for want of permission is always possible.
CheckPasses(p) ==
    /\ p.epoch = disk.Epoch
    /\ latest.turn = p.failure /\ latest.status = "failed"

CheckHeld ==
    /\ pc \in {"check", "unsubmitted"}
    /\ pc = "unsubmitted" => CanDecide(mem) /\ Allows(Joined(policy, mem).choice, mem)
    /\ policy' = IF pc = "unsubmitted" THEN Joined(policy, mem) ELSE policy
    /\ Save(mem, "free")
    /\ UNCHANGED <<incarnation, native, ledger, nextId, sent, barred, old, moves>>

\* preflightAccepted: the receipt would not fit the evidence budget.
NoCapacity ==
    /\ pc \in {"begin", "unsubmitted"}
    /\ pc = "unsubmitted" => /\ CanDecide(mem) /\ Allows(Joined(policy, mem).choice, mem)
                             /\ CheckPasses(mem.Pending)
    /\ policy' = IF pc = "unsubmitted" THEN Joined(policy, mem) ELSE policy
    /\ Save([mem EXCEPT !.Handled = mem.Pending.failure, !.Phase = "blocked",
                        !.Cancelled = TRUE, !.DeadlineMS = 0], "free")
    /\ UNCHANGED <<incarnation, native, ledger, nextId, sent, barred, old, moves>>

\* A proven-unsubmitted attempt whose chain is no longer allowed.
UnsubmittedDisallowed ==
    /\ pc = "unsubmitted"
    /\ CanDecide(mem)
    /\ policy' = Joined(policy, mem)
    /\ ~Allows(policy'.choice, mem)
    /\ Save([Cancel(mem) EXCEPT !.Phase = "cancelled"], "free")
    /\ UNCHANGED <<incarnation, native, ledger, nextId, sent, barred, old, moves>>

\* The same identity may be sent, under a renewed reservation.
UnsubmittedRenew ==
    /\ pc = "unsubmitted"
    /\ CanDecide(mem)
    /\ policy' = Joined(policy, mem)
    /\ Allows(policy'.choice, mem)
    /\ CheckPasses(mem.Pending)
    /\ \E wall \in Times :
         LET s == ReserveUnsubmitted(mem, wall)
         IN  Save(s, IF HasPending(s) THEN "dispatch" ELSE "free")
    /\ UNCHANGED <<incarnation, native, ledger, nextId, sent, barred, old, moves>>

\* Read the decision, then checkpoint an accepted attempt before it can be
\* replaced.  The checkpoint may fail after the thread has joined.
Decide ==
    /\ pc = "decide"
    /\ CanDecide(mem)
    /\ LET joined == Joined(policy, mem)
       IN  \/ /\ policy' = Checkpoint(joined, mem, FALSE)
              /\ dec' = joined.choice
              /\ pc' = "allow"
              /\ UNCHANGED <<disk, mem, op, obs>>
           \/ /\ policy' = joined
              /\ disk' = disk /\ Release
    /\ UNCHANGED <<incarnation, native, ledger, nextId, ghosts, moves>>

\* A chain the decision no longer allows is cancelled, its attempt kept.
AllowOrCancel ==
    /\ pc = "allow"
    /\ IF HasPending(mem) /\ ~mem.Cancelled /\ ~Allows(dec, mem)
       THEN LET s == CancelKeepingPending(mem)
            IN  Save(s, "observe") /\ OptionalCheckpoint(s)
       ELSE pc' = "observe" /\ UNCHANGED <<disk, mem, op, obs, dec, policy, receipts>>
    /\ UNCHANGED <<incarnation, native, ledger, nextId, sent, barred, old, moves>>

\* Read the native thread; a first read enrolls it.
ReadNative ==
    /\ pc = "observe"
    /\ IF mem.Enrolled
       THEN /\ obs' = latest
            /\ policy' = Checkpoint(policy, mem, FALSE)
            /\ pc' = "settle"
            /\ UNCHANGED <<disk, mem, op, dec, receipts, old>>
       ELSE /\ Write(Enroll(mem, latest)) /\ old' = old \cup Over(Retried)
            /\ obs' = latest /\ pc' = "enroll"
            /\ mem' = Enroll(mem, latest)
            /\ UNCHANGED <<op, dec, policy>>
    /\ UNCHANGED <<incarnation, native, ledger, nextId, sent, barred, moves>>

\* Mutant of EnrollAgain: the baseline is read once.
EnrollOnce ==
    /\ pc = "enroll"
    /\ Save(Bound(mem), "free")
    /\ old' = old \cup Over(Retried)
    /\ UNCHANGED <<policy, incarnation, native, ledger, nextId, sent, barred, moves>>

\* The second read around a durable baseline (Step and captureRetry).
EnrollAgain ==
    /\ pc = "enroll"
    /\ Save(IF latest # obs /\ (op = "step" \/ latest.turn # 0)
            THEN [Bound(mem) EXCEPT !.Baseline = latest.turn, !.BaselineActive = FALSE]
            ELSE Bound(mem), "free")
    /\ old' = old \cup Over(Retried)
    /\ UNCHANGED <<policy, incarnation, native, ledger, nextId, sent, barred, moves>>

\* When Step asks AdvanceProof, and when it asks Prove.
Advances(s, o) == o.status \in {"inProgress", "failed"} /\ o.turn # s.Handled
Proves(s, o, d) ==
    /\ o.status = "failed" /\ Eligible(d, s, o)
    /\ o.turn # s.Handled /\ (o.turn # s.Baseline \/ s.BaselineActive)

\* The settings of the failed turn are not proved.  Only a definite absence
\* consumes the failure; Prove's other errors leave it to a later pass.
Unproven ==
    /\ pc = "settle"
    /\ obs.status = "failed" /\ Advances(mem, obs)
    /\ \/ Save([mem EXCEPT !.Phase = "blocked", !.Handled = obs.turn], "free")
       \/ /\ Proves(mem, obs, dec)
          /\ Save([mem EXCEPT !.Phase = "blocked"], "free")
    /\ UNCHANGED <<policy, incarnation, native, ledger, nextId, sent, barred, old, moves>>

\* Observe and Save, then the checkpoint that a fresh chain starts from; its
\* failure ends the step.
Settle ==
    /\ pc = "settle"
    /\ \E wall \in Times, jitter \in Jitters :
         LET s == Observe(mem, obs, wall, dec, Proves(mem, obs, dec), nextId, jitter)
             fresh == s.Chain # mem.Chain
         IN  /\ s.Pending.id = nextId => nextId \in Ids
             /\ nextId' = IF s.Pending.id = nextId THEN nextId + 1 ELSE nextId
             /\ \/ /\ Save(s, "check")
                   /\ policy' = IF Valid(s) THEN Checkpoint(policy, s, fresh) ELSE policy
                \/ Save(s, "free") /\ policy' = policy
    /\ UNCHANGED <<incarnation, native, ledger, sent, barred, old, moves>>

\* Not due, or due and past Backend.Check.
NotDue ==
    /\ pc = "check"
    /\ \E wall \in Times : ~Due(mem, wall, dec)
    /\ disk' = disk /\ Release
    /\ UNCHANGED <<policy, incarnation, native, ledger, nextId, ghosts, moves>>

CheckDue ==
    /\ pc = "check"
    /\ \E wall \in Times : Due(mem, wall, dec) /\ mem' = Clocked(mem, wall)
    /\ CheckPasses(mem.Pending)
    /\ pc' = "reconcile"
    /\ UNCHANGED <<disk, op, obs, dec, policy, incarnation, native, ledger, nextId, ghosts, moves>>

BeginAttempt ==
    /\ pc = "begin"
    /\ \E wall \in Times :
         /\ Due(mem, wall, dec)
         /\ LET s == Begin(mem, wall)
            IN  Save(s, IF HasPending(s) THEN "dispatch" ELSE "free")
    /\ UNCHANGED <<policy, incarnation, native, ledger, nextId, sent, barred, old, moves>>

----------------------------------------------------------------------------
\* Controller.dispatch around the native client's ContinueFailedTurn.

Prepare ==
    /\ pc = "dispatch"
    /\ ledger' = [ledger EXCEPT ![mem.Pending.id] = "prepared"]
    /\ pc' = "send"
    /\ UNCHANGED <<disk, mem, op, obs, dec, policy, incarnation, native, nextId, ghosts, moves>>

\* Refused before it left, and proved so: terminal for this failure.
DispatchRefused ==
    /\ pc \in {"dispatch", "send"}
    /\ ledger' = [ledger EXCEPT ![mem.Pending.id] = "absent"]
    /\ Save([mem EXCEPT !.Phase = "blocked", !.Pending = NoPending], "free")
    /\ UNCHANGED <<policy, incarnation, native, nextId, sent, barred, old, moves>>

Send ==
    /\ pc = "send"
    /\ ledger' = [ledger EXCEPT ![mem.Pending.id] = "attempted"]
    /\ sent' = Append(sent, [id |-> mem.Pending.id, failure |-> mem.Pending.failure,
                             chain |-> mem.Chain, class |-> mem.Class, at |-> mem.Pending.charged])
    /\ pc' = "await"
    /\ UNCHANGED <<disk, mem, op, obs, dec, policy, incarnation, native, nextId, receipts, barred, old, moves>>

Reply ==
    /\ pc = "await"
    /\ ledger[mem.Pending.id] = "accepted"
    /\ CanAccept(mem, turnOf[mem.Pending.id])
    /\ \E wall \in Times, fits \in BOOLEAN :
         LET s == Accepted(mem, turnOf[mem.Pending.id], wall, fits)
         IN  Save(s, "free") /\ OptionalCheckpoint(s)
    /\ UNCHANGED <<incarnation, native, ledger, nextId, sent, barred, old, moves>>

ReplyUnknown ==
    /\ pc = "await"
    /\ Save(OutcomeUnknown(mem), "free")
    /\ UNCHANGED <<policy, incarnation, native, ledger, nextId, sent, barred, old, moves>>

----------------------------------------------------------------------------
\* The operations that compete with the worker for the lock.

\* retryProvider.activityAction: Stop and Retry now, with a current token.
ActionLock ==
    /\ policy.present /\ policy.inc = incarnation /\ policy.entry
    /\ disk.Chain # 0 /\ disk.Boundary = incarnation
    /\ \E o \in {"stop", "now"} :
         /\ o = "now" => HasPending(disk)
         /\ Acquire(o, disk, IF Uncertain(disk) THEN "reconcile" ELSE "act")

Act ==
    /\ Move
    /\ pc = "act"
    /\ \E wall \in Times :
         LET s == IF op = "stop" THEN Stop(mem) ELSE RetryNow(mem, wall)
         IN  Save(s, "free") /\ OptionalCheckpoint(s)
    /\ barred' = IF op = "stop" THEN barred \cup Ended(mem) ELSE barred
    /\ UNCHANGED <<incarnation, native, ledger, nextId, sent, old>>

\* captureRetry for a managed send or queue entry: cancel first, refuse while
\* an automatic attempt is uncertain, and enroll before the native send.
ManagedAdmission ==
    /\ Move
    /\ pc = "free"
    /\ LET c == Cancel(disk) IN
         IF Uncertain(c) \/ c.Enrolled \/ ~SameBoundary(c)
         THEN /\ Write(IF Uncertain(c) \/ ~SameBoundary(c) THEN c ELSE Bound(c))
              /\ Release /\ old' = old
         ELSE /\ Write(Enroll(c, latest)) /\ old' = old \cup Over(Retried)
              /\ op' = "admit" /\ pc' = "enroll" /\ obs' = latest /\ dec' = dec
              /\ mem' = Enroll(c, latest)
    /\ barred' = barred \cup Ended(disk)
    /\ UNCHANGED <<policy, incarnation, native, ledger, nextId, sent>>

\* StartThreadWithSettings: a new managed thread has no earlier turn.
StartThread ==
    /\ pc = "free"
    /\ latest.turn = 0 /\ ~disk.Enrolled
    /\ Write(Enroll(disk, NoObservation)) /\ Release
    /\ UNCHANGED <<policy, incarnation, native, ledger, nextId, sent, barred, old, moves>>

\* Interrupt, queue start, activation, a changed binding, a stopped caller.
CancelAdmission ==
    /\ Move
    /\ pc = "free"
    /\ Write(Cancel(disk)) /\ Release
    /\ barred' = barred \cup Ended(disk)
    /\ UNCHANGED <<policy, incarnation, native, ledger, nextId, sent, old>>

UpdateThreadSettings ==
    /\ Move
    /\ pc = "free"
    /\ Write(InvalidateSettings(disk, latest.turn)) /\ Release
    /\ barred' = barred \cup Ended(disk)
    /\ UNCHANGED <<policy, incarnation, native, ledger, nextId, sent, old>>

\* Store.CancelSession on stop or archive, with the loaded client's backend.
CancelSession ==
    /\ Move
    /\ pc = "free"
    /\ LET c == Cancel(disk)
           i == c.Pending.id
       IN  IF ~Uncertain(c) THEN Write(c) /\ ledger' = ledger
           ELSE \/ /\ ledger[i] = "accepted" /\ CanAccept(c, turnOf[i])
                   /\ \E wall \in Times, fits \in BOOLEAN :
                        Write(Accepted(c, turnOf[i], wall, fits))
                   /\ ledger' = ledger
                \/ /\ ledger[i] \in {"absent", "prepared"}
                   /\ ledger' = [ledger EXCEPT ![i] = "absent"]
                   /\ Write(NeverSubmitted(c))
                \/ Write(c) /\ ledger' = ledger
    /\ Release
    /\ barred' = barred \cup Ended(disk)
    /\ UNCHANGED <<policy, incarnation, native, nextId, sent, old>>

----------------------------------------------------------------------------
\* transactRetryPolicy holds the session's runtime lock exclusively, so no
\* admission is in progress.

BaselineNow == [turn |-> latest.turn, active |-> latest.status = "inProgress"]
Off(class, capacity, cybersecurity) ==
    \/ class = "capacity" /\ ~capacity
    \/ class = "cybersecurity" /\ ~cybersecurity

\* PreparePolicy's suppression of a chain whose class is being turned off.
\* A second identity is kept; a third refuses the change.
Suppress(stops, s) ==
    {v \in stops : (v.chain = s.Chain \/ v.pending = s.Pending.id) /\ v.chain # s.Chain}
      \cup {[chain |-> s.Chain, pending |-> s.Pending.id, result |-> s.Pending.result]}

\* Bootstrap leaves a chain the record already owns eligible.
Inherits(s, class) == s.Chain # 0 /\ HasPending(s) /\ ~s.Cancelled /\ s.Class = class

PreparePolicy(p, s, capacity, cybersecurity, bootstrap) ==
    LET keep(class) == bootstrap /\ Inherits(s, class)
        watermark == [turn |-> s.Baseline, active |-> s.BaselineActive]
        baseline(class, changed, prior) ==
            IF keep(class) THEN watermark
            ELSE IF bootstrap \/ changed \/ ~p.entry THEN BaselineNow ELSE prior
        choice == [capacity |-> capacity, cybersecurity |-> cybersecurity,
                   capacityBaseline |->
                      baseline("capacity", capacity # p.choice.capacity, p.choice.capacityBaseline),
                   cybersecurityBaseline |->
                      baseline("cybersecurity", cybersecurity # p.choice.cybersecurity,
                               p.choice.cybersecurityBaseline),
                   suppressed |->
                      IF s.Chain # 0 /\ HasPending(s) /\ Off(s.Class, capacity, cybersecurity)
                      THEN Suppress(p.choice.suppressed, s) ELSE p.choice.suppressed]
    IN  [p EXCEPT !.present = TRUE, !.inc = incarnation, !.entry = TRUE, !.choice = choice]

SamePolicyScope == SameBoundary(disk) /\ pc = "free"

BootstrapPolicy ==
    /\ SamePolicyScope /\ ~policy.present
    /\ policy' = PreparePolicy(NoPolicy, disk, TRUE, TRUE, TRUE)
    /\ old' = old \cup Over({c \in Retried : ~Inherits(disk, c)})
    /\ UNCHANGED <<disk, holder, incarnation, native, ledger, nextId, sent, receipts, barred, moves>>

SetPolicy ==
    /\ Move
    /\ SamePolicyScope /\ policy.present /\ policy.inc = incarnation
    /\ \E capacity, cybersecurity \in BOOLEAN :
         /\ <<capacity, cybersecurity>> # <<policy.choice.capacity, policy.choice.cybersecurity>>
         /\ policy' = PreparePolicy(policy, disk, capacity, cybersecurity, FALSE)
         /\ Cardinality(policy'.choice.suppressed) <= 2
         /\ barred' = IF HasPending(disk) /\ Off(disk.Class, capacity, cybersecurity)
                      THEN barred \cup Ended(disk) ELSE barred
         /\ old' = old \cup Over({c \in Retried :
                         DecisionEnabled(policy'.choice, c) /\ ~DecisionEnabled(policy.choice, c)})
    /\ UNCHANGED <<disk, holder, incarnation, native, ledger, nextId, sent, receipts>>

----------------------------------------------------------------------------
\* The native app-server and the session around it (external).

StartTurn == latest' = [turn |-> nextTurn, status |-> "inProgress", code |-> "none"]

\* A user's, a team member's or a queued input starts a turn of its own.
NativeStart ==
    /\ latest.status # "inProgress" /\ nextTurn <= MaxTurn
    /\ StartTurn /\ nextTurn' = nextTurn + 1
    /\ UNCHANGED <<disk, holder, policy, incarnation, turnOf, ledger, nextId, ghosts, moves>>

NativeFinish ==
    /\ latest.status = "inProgress"
    /\ \E o \in Outcomes :
         latest' = [latest EXCEPT !.status = o[1], !.code = o[2]]
    /\ UNCHANGED <<disk, holder, policy, incarnation, turnOf, nextTurn, ledger, nextId, ghosts, moves>>

\* An attempt that left the client arrives, sooner or later, or never does.
Deliver ==
    /\ latest.status # "inProgress" /\ nextTurn <= MaxTurn
    /\ \E i \in Ids :
         /\ ledger[i] = "attempted"
         /\ ledger' = [ledger EXCEPT ![i] = "accepted"]
         /\ turnOf' = [turnOf EXCEPT ![i] = nextTurn]
    /\ StartTurn /\ nextTurn' = nextTurn + 1
    /\ UNCHANGED <<disk, holder, policy, incarnation, nextId, ghosts, moves>>

Lose ==
    /\ \E i \in Ids : ledger[i] = "attempted" /\ ledger' = [ledger EXCEPT ![i] = "lost"]
    /\ UNCHANGED <<disk, holder, policy, incarnation, native, nextId, ghosts, moves>>

\* The session is rebuilt under its runtime lock.
Reincarnate ==
    /\ Move
    /\ pc = "free" /\ incarnation = 1
    /\ incarnation' = 2
    /\ UNCHANGED <<disk, holder, policy, native, ledger, nextId, ghosts>>

----------------------------------------------------------------------------
Step == \/ StepLock \/ CheckHeld \/ NoCapacity \/ UnsubmittedDisallowed \/ UnsubmittedRenew
        \/ Decide \/ AllowOrCancel \/ ReadNative \/ EnrollAgain \/ Unproven \/ Settle
        \/ NotDue \/ CheckDue \/ BeginAttempt
        \/ Prepare \/ DispatchRefused \/ Send \/ Reply \/ ReplyUnknown

Reconcile == ReconcileOnly \/ ReconcileFound \/ ReconcileNever \/ ReconcileUnknown

Competing == \/ BoundaryChanged \/ ActionLock \/ Act \/ ManagedAdmission \/ StartThread
             \/ CancelAdmission \/ UpdateThreadSettings \/ CancelSession
             \/ BootstrapPolicy \/ SetPolicy

Native == NativeStart \/ NativeFinish \/ Deliver \/ Lose \/ Reincarnate

Next == Step \/ Reconcile \/ Competing \/ Native \/ Abort

Spec == Init /\ [][Next]_vars

----------------------------------------------------------------------------
\* Properties.

\* Every variable has its type; in particular a record only ever names attempt
\* identities that NewID handed out, however it was cancelled or reloaded.
TypeOK ==
    /\ disk \in Records /\ mem \in Records
    /\ {disk.Pending.id, mem.Pending.id} \subseteq Ids \cup {0}
    /\ pc \in Points /\ op \in Ops
    /\ obs \in Observations /\ latest \in Observations
    /\ dec \in Decisions /\ policy \in Policies
    /\ incarnation \in Nat
    /\ ledger \in [Ids -> LedgerStates] /\ turnOf \in [Ids -> Nat]
    /\ nextId \in Nat \ {0} /\ nextTurn \in Nat \ {0} /\ moves \in Nat
    /\ sent \in Seq(Sends) /\ receipts \subseteq Nat /\ barred \subseteq Nat
    /\ old \subseteq Nat \X Classes

\* Whatever crashed, was cancelled, stopped, reconfigured or superseded since,
\* an attempt that may have reached the native thread is either settled by
\* a saved receipt or still the record's uncertain pending attempt: Cancel
\* must not drop it and no new one may take its place (state.go Cancel,
\* Observe; captureRetry's refusal).
Outstanding(i) == ledger[i] \in {"attempted", "lost", "accepted"} /\ i \notin receipts
Keeps(s, i) == s.Pending.id = i /\ Uncertain(s)
NoLostReceipt == \A i \in Ids : Outstanding(i) => Keeps(disk, i)

\* One failed turn is continued by at most one outbound call, however often
\* the call is retried, reconciled, renewed or re-observed (the never-submitted
\* proof, the attempt identity and the receipts together).
AtMostOneContinuation ==
    \A m, n \in DOMAIN sent : sent[m].failure = sent[n].failure => m = n

\* Counting back one window from any cybersecurity call, at most CyberLimit
\* calls were made, on the record's own clock: crashes between reservation
\* and receipt, renewed reservations and clock jumps cannot free a charge
\* (ReserveUnsubmitted, Accepted, Now).
CyberSends == {n \in DOMAIN sent : sent[n].class = "cybersecurity"}
QuotaRespected ==
    \A n \in CyberSends :
        Cardinality({m \in CyberSends : /\ sent[m].at <= sent[n].at
                                        /\ sent[m].at + Window > sent[n].at}) <= CyberLimit

\* A chain ended by Stop, manual input, a settings change, a lifecycle stop, a
\* new incarnation or a preference switched off is never continued again, not
\* even after the preference is switched back on.
NoSendAfterEnd ==
    [][\A n \in DOMAIN sent' \ DOMAIN sent : sent'[n].chain \notin barred]_vars

\* A failure that was over before its thread was enrolled, or before its class
\* was switched on, is never continued: not by the first worker pass, not by
\* a manual admission that enrolls the thread, not by a race of the two
\* enrollment reads, not by switching a preference off and on.
NoOldFailureContinued ==
    [][\A n \in DOMAIN sent' \ DOMAIN sent :
            <<sent'[n].failure, sent'[n].class>> \notin old]_vars

=============================================================================
