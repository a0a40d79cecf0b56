------------------------ MODULE LifecycleOperations ------------------------
(***************************************************************************)
(* Archive, revive and delete of one session as the portal runs them       *)
(* (web/server.go, operation_state.go, operation_store.go,                 *)
(* archive_preparation.go, archive_worker.go, lifecycle_target.go).        *)
(*                                                                         *)
(* The browser's confirmation becomes a durable receipt bound to the       *)
(* tracking directory it showed.  A goroutine then runs dev-session, which *)
(* keeps a journal of its own until it is done; archives may run in a unit *)
(* that outlives the portal.  An archive of mode "archived" is prepared    *)
(* first: readiness is checked, the lead conversation repairs what blocks  *)
(* it, and it is checked again.  A display worker reconciles the receipt   *)
(* with journal, unit and directory.  Handlers, display worker, goroutine, *)
(* command and terminal run side by side; a receipt changes only if it is  *)
(* still the one that was read.                                            *)
(***************************************************************************)
EXTENDS Naturals, FiniteSets

CONSTANTS
    MaxOps,       \* bound: operation identities drawn
    MaxIno,       \* bound: tracking directories the name ever has
    MaxAttempt,   \* bound: attempts of one receipt
    MaxJobs,      \* bound: goroutines at once
    MaxRound,     \* bound: repair rounds of one operation
    MaxStuck,     \* checks without progress before preparation gives up
    MaxFailures,  \* failed deliveries before preparation gives up
    Casts         \* what may happen in a behaviour

ASSUME LifecycleAssumption ==
    /\ {MaxOps, MaxIno, MaxAttempt, MaxJobs, MaxRound, MaxStuck, MaxFailures} \subseteq Nat \ {0}
    /\ \A c \in Casts : /\ c.asks \subseteq {"archive", "prepared", "delete", "revive"}
                        /\ c.terminal \subseteq {"archive", "delete", "revive", "create"}
                        /\ c.supervised \in BOOLEAN /\ c.attempts \in 1..MaxAttempt
                        /\ c.ops \in 1..MaxOps
                        /\ c.faults \in Nat  \* crashes, restarts, failed saves

VARIABLES
    cast,      \* never changes
    dir,       \* the session's tracking directory
    journal,   \* the lifecycle journal dev-session keeps for it
    removed,   \* operations with a completed removal marker
    procs,     \* dev-session processes and exited units, queued until they have the lock
    op,        \* s.operations[slug]
    opFile,    \* the receipt as a restart reads it
    calls,     \* what the display worker and a handler have read and not applied
    jobs,      \* runLifecycleJob goroutines
    side,      \* s.archivePreparations[slug]
    sideFile,
    turns,     \* repair turns of the lead, by operation and round
    closing,
    drawn,     \* operation identities drawn
    done,      \* history: effects on tracking directories
    revoked,   \* history: preparations canceled
    stranded,  \* history: attempts whose end could not be saved
    missed,    \* history: attempts the last restart left alone
    faults

outside == <<dir, journal, removed, procs, done>>
receipts == <<op, opFile, calls>>
sidecar == <<side, sideFile>>
ledger == <<revoked, stranded, missed>>
vars == <<cast, dir, journal, removed, procs, op, opFile, calls, jobs, side, sideFile,
          turns, closing, drawn, done, revoked, stranded, missed, faults>>

Kinds == {"archive", "delete", "revive"}
Jids == 0..MaxOps
Modes == {"complete", "archived"}

NoTarget == [loc |-> "none", ino |-> 0]
Targets == [loc : {"none", "work", "archive"}, ino : 0..MaxIno]
NoEvidence == [part |-> "none", ino |-> 0]
NoJournal == [kind |-> "none", jid |-> 0, mode |-> "complete", ino |-> 0, at |-> "none"]
NoOp == [st |-> "none", kind |-> "none", mode |-> "complete", jid |-> 0,
         adopted |-> FALSE, attempt |-> 0, expected |-> FALSE, ev |-> NoEvidence,
         target |-> NoTarget, jt |-> NoTarget]
NoSide == [st |-> "none", jid |-> 0, attempt |-> 0, target |-> NoTarget, round |-> 0,
           msg |-> FALSE, stuck |-> 0, failures |-> 0]
NoCall == [what |-> "none", rec |-> NoOp, fresh |-> TRUE]

Ops == [st : {"none", "running", "paused", "failed", "complete"},
        kind : Kinds \cup {"none"}, mode : Modes, jid : Jids, adopted : BOOLEAN,
        attempt : 0..MaxAttempt, expected : BOOLEAN,
        ev : [part : {"none", "prelude", "ordinary"}, ino : 0..MaxIno],
        target : Targets, jt : Targets]
Sides == [st : {"none", "checking", "lead_fixing_blockers", "rechecking", "paused",
                "archiving", "failed", "canceled"},
          jid : Jids, attempt : 0..MaxAttempt, target : Targets, round : 0..MaxRound,
          msg : BOOLEAN, stuck : 0..MaxStuck, failures : Nat]

\* What the portal reads of a journal: its command, identity, mode and target,
\* and how far it is.
Journals == [kind : Kinds \cup {"none"}, jid : Jids, mode : Modes,
             ino : 0..MaxIno, at : {"none", "services", "prepared", "moved"}]

Attempts == Jids \X BOOLEAN \X (0..MaxAttempt)

\* validateLifecycleOperation: a restart refuses a store with another record.
Valid(rec) == rec.st # "none" => /\ rec.kind # "none"
                                 /\ rec.expected => rec.jid # 0
                                 /\ ~rec.adopted => rec.target # NoTarget

(* Every variable has its shape, and a restart accepts the stored receipt. *)
TypeOK ==
    /\ dir \in [root : {"none", "work", "archive"}, ino : 0..MaxIno, mode : Modes \cup {"active"}]
    /\ journal \in Journals
    /\ removed \subseteq Jids
    /\ procs \subseteq [by : {"job", "unit", "terminal"}, of : Attempts, jid : Jids,
                        kind : Kinds, mode : Modes, target : Targets,
                        st : {"queued", "running", "ok", "bad"}]
    /\ op \in Ops /\ opFile \in Ops /\ Valid(op) /\ Valid(opFile)
    /\ calls \in [{"display", "handler"} ->
                     [what : {"none", "refresh", "start"}, rec : Ops, fresh : BOOLEAN]]
    /\ jobs \subseteq [rec : Ops, result : Ops, ok : BOOLEAN, of : Attempts,
                       pc : {"prepare", "ready", "blocked", "repair", "fail", "check",
                             "launch", "wait", "outcome", "save"}]
    /\ side \in Sides /\ sideFile \in Sides
    /\ turns \in [Jids \X (1..MaxRound) -> {"none", "running", "done", "bad"}]
    /\ closing \in BOOLEAN /\ drawn \in Jids /\ faults \in Nat

Init ==
    /\ cast \in Casts
    /\ \E root \in {"work", "archive"} :
          dir = [root |-> root, ino |-> 1,
                 mode |-> IF root = "work" THEN "active" ELSE "complete"]
    /\ journal = NoJournal /\ removed = {} /\ procs = {}
    /\ op = NoOp /\ opFile = NoOp /\ calls = [w \in {"display", "handler"} |-> NoCall]
    /\ jobs = {} /\ side = NoSide /\ sideFile = NoSide
    /\ turns = [t \in Jids \X (1..MaxRound) |-> "none"]
    /\ closing = FALSE /\ drawn = 0 /\ done = {} /\ revoked = {}
    /\ stranded = {} /\ missed = {} /\ faults = 0

(***************************************************************************)
(* Saving.  A change of the receipt makes every earlier reading stale.     *)
(***************************************************************************)
Fault == faults < cast.faults /\ faults' = faults + 1
Stale(c) == [w \in DOMAIN c |-> [c[w] EXCEPT !.fresh = (c[w] = NoCall)]]

\* replaceLifecycleOperationLocked
Replace(rec, rest) == /\ op' = rec /\ opFile' = rec /\ calls' = Stale(rest) /\ UNCHANGED faults
NotReplaced(rec, rest) == /\ Fault /\ opFile' \in {opFile, rec} /\ calls' = rest /\ UNCHANGED op

\* What names a receipt's attempt, its job and its unit.
Attempt(rec) == <<rec.jid, rec.adopted, rec.attempt>>

\* saveArchivePreparationLocked
SideSaved(p) == side' = p /\ sideFile' = p /\ UNCHANGED faults
SideNotSaved(p) == Fault /\ sideFile' \in {sideFile, p} /\ UNCHANGED side

Active(p) == p.st \in {"checking", "lead_fixing_blockers", "rechecking", "paused"}
SideMatches(p, rec) ==
    /\ rec.kind = "archive" /\ rec.mode = "archived" /\ ~rec.expected /\ ~rec.adopted
    /\ p.jid = rec.jid /\ p.attempt = rec.attempt /\ p.target = rec.target

(***************************************************************************)
(* Journals and targets.                                                   *)
(***************************************************************************)
Pending == journal # NoJournal
Target == [loc |-> dir.root, ino |-> dir.ino]
EvidenceOf(j) == [part |-> IF j.at = "services" THEN "prelude" ELSE "ordinary",
                  ino |-> j.ino]

\* lifecycleJournalEvidenceMatches: a prelude may become its ordinary journal.
EvidenceMatches(rec, j) ==
    LET tgt == IF rec.jt # NoTarget THEN rec.jt ELSE rec.target IN
    /\ j.at = "services" /\ rec.ev.part # "prelude" =>
          ~rec.expected /\ rec.ev = NoEvidence
    /\ \/ rec.ev = EvidenceOf(j)
       \/ rec.ev.part # "prelude" /\ rec.ev = NoEvidence
       \/ /\ rec.ev.part = "prelude" /\ j.at # "services"
          /\ rec.kind = "archive" /\ j.kind = "archive"
          /\ rec.jid = j.jid /\ rec.mode = j.mode
          /\ tgt # NoTarget /\ dir.root # "none" /\ dir.ino = tgt.ino

\* applyProgressOptions
WithProgress(rec, j) == [rec EXCEPT !.jid = j.jid, !.expected = TRUE, !.ev = EvidenceOf(j),
                                    !.mode = IF j.kind = "archive" THEN j.mode ELSE @]

\* bindLifecycleJournalTarget
BindTarget(rec) == IF rec.jt = NoTarget /\ dir.root # "none"
                   THEN [rec EXCEPT !.jt = Target] ELSE rec

\* Mutant of Succeeded: the name is proof enough.
SucceededByName(rec) ==
    \/ rec.kind = "delete" /\ dir.root = "none"
    \/ rec.kind = "archive" /\ dir.root = "archive"
    \/ rec.kind = "revive" /\ dir.root = "work"

\* lifecycleOperationSucceeded: the effect on the very directory, or the marker
\* of the very removal.
Succeeded(rec) ==
    LET tgt == IF ~rec.adopted THEN rec.target
               ELSE IF rec.ev # NoEvidence THEN rec.jt ELSE NoTarget
    IN IF dir.root = "none" THEN rec.kind = "delete" /\ rec.jid \in removed
       ELSE /\ rec.kind # "delete" /\ tgt # NoTarget /\ dir.ino = tgt.ino
            /\ \/ rec.kind = "archive" /\ dir.root = "archive" /\ dir.mode = rec.mode
               \/ rec.kind = "revive" /\ dir.root = "work"

\* archiveWorker
Unit(rec) == {p \in procs : p.by = "unit" /\ p.of = Attempt(rec)}
Supervised(rec) == cast.supervised /\ rec.kind = "archive"
WorkerState(rec) ==
    IF ~Supervised(rec) \/ rec.st \in {"none", "complete"} \/ Unit(rec) = {} THEN rec.st
    ELSE LET p == CHOOSE p \in Unit(rec) : TRUE
         IN CASE p.st = "ok" -> "complete" [] p.st = "bad" -> "failed" [] OTHER -> "running"

\* Mutant of Proposal: only receipts are looked at.
ProposalOfReceipt(rec) ==
    [rec EXCEPT !.st = IF rec.st \in {"paused", "failed"} /\ ~Pending /\ Succeeded(rec)
                       THEN "complete" ELSE @]

\* proposeLifecycleOperation
Proposal(rec) ==
    LET seen == [rec EXCEPT !.st = WorkerState(rec)]
        same == rec.st # "none" /\ rec.kind = journal.kind /\ rec.jid = journal.jid
        follow == BindTarget(WithProgress(seen, journal))
        adopt == BindTarget(WithProgress([NoOp EXCEPT !.st = "paused", !.adopted = TRUE,
                                              !.kind = journal.kind], journal))
    IN IF rec.st # "none" /\ SideMatches(side, rec) /\ Active(side)
       THEN [rec EXCEPT !.st = "running"]
       ELSE IF Pending
       THEN IF ~same THEN adopt
            ELSE IF ~EvidenceMatches(seen, journal) THEN seen
            ELSE IF follow.st = "complete" THEN [follow EXCEPT !.st = "paused"] ELSE follow
       ELSE IF seen.st \in {"paused", "failed"}
       THEN [seen EXCEPT !.st = IF Succeeded(seen) THEN "complete" ELSE "failed"]
       ELSE seen

(***************************************************************************)
(* The display worker: read, prove, and change the receipt if it is still  *)
(* the one that was read.                                                  *)
(***************************************************************************)
RefreshRead ==
    /\ calls["display"] = NoCall /\ ~closing
    /\ \E rec \in ({Proposal(op)} \cup (IF Proposal(op).st = "complete" THEN {NoOp} ELSE {}))
               \ {op} :
          calls' = [calls EXCEPT !["display"] = [what |-> "refresh", rec |-> rec,
                                                 fresh |-> TRUE]]
    /\ UNCHANGED <<cast, outside, op, opFile, jobs, sidecar, turns, closing, drawn, ledger, faults>>

\* removeLifecycleOperationLocked drops the sidecar of a finished archive.
WithoutOp(rest) ==
    /\ Replace(NoOp, rest)
    /\ IF op.kind = "archive" /\ op.st = "complete" /\ side.jid = op.jid
       THEN side' = NoSide /\ sideFile' = NoSide ELSE UNCHANGED sidecar

\* acceptLifecycleReconciliation
RefreshAccept ==
    LET c == calls["display"]
        rest == [calls EXCEPT !["display"] = NoCall] IN
    /\ c # NoCall
    /\ \/ /\ ~c.fresh \/ c.rec = op
          /\ calls' = rest /\ UNCHANGED <<op, opFile, sidecar, faults>>
       \/ /\ c.fresh /\ c.rec # op /\ c.rec # NoOp
          /\ Replace(c.rec, rest) \/ NotReplaced(c.rec, rest)
          /\ UNCHANGED sidecar
       \/ /\ c.fresh /\ c.rec = NoOp /\ op # NoOp
          /\ \/ WithoutOp(rest)
             \/ NotReplaced(NoOp, rest) /\ UNCHANGED sidecar
    /\ UNCHANGED <<cast, outside, jobs, turns, closing, drawn, ledger>>

(***************************************************************************)
(* The browser.                                                            *)
(***************************************************************************)
KindOf(ask) == IF ask = "prepared" THEN "archive" ELSE ask
ModeOf(ask) == IF ask = "prepared" THEN "archived" ELSE "complete"
Fits(kind) == \/ kind = "archive" /\ dir.root = "work"
              \/ kind = "revive" /\ dir.root = "archive"
              \/ kind = "delete" /\ dir.root # "none"

\* startArchive, startRevive, deleteSession and the first half of
\* startLifecycleOperation.  Confirming anew may replace a failed request that
\* no journal has accepted.
AskRead(ask) ==
    /\ calls["handler"] = NoCall /\ ~closing /\ ask \in cast.asks /\ drawn < cast.ops
    /\ ~Pending /\ Fits(KindOf(ask))
    /\ op.st \in {"none", "complete"} \/ (op.st = "failed" /\ ~op.expected)
    /\ drawn' = drawn + 1
    /\ calls' = [calls EXCEPT !["handler"] = [what |-> "start", fresh |-> TRUE,
          rec |-> [NoOp EXCEPT !.st = "running", !.kind = KindOf(ask), !.mode = ModeOf(ask),
                               !.jid = drawn + 1, !.attempt = 1, !.target = Target]]]
    /\ UNCHANGED <<cast, outside, op, opFile, jobs, sidecar, turns, closing, ledger, faults>>

\* prepareLifecycleRetry
CanRetry(rec) ==
    IF Pending THEN rec.kind = journal.kind /\ rec.jid = journal.jid
                    /\ EvidenceMatches(rec, journal)
    ELSE ~rec.expected /\ rec.target = Target

\* retryLifecycleOperation, once its own reconciliation has changed nothing.
RetryRead ==
    LET rec == IF Pending THEN WithProgress(op, journal) ELSE op IN
    /\ calls["handler"] = NoCall /\ ~closing /\ op.attempt < cast.attempts
    /\ op.st \in {"failed", "paused"} /\ Proposal(op) = op /\ CanRetry(op)
    /\ calls' = [calls EXCEPT !["handler"] = [what |-> "start", fresh |-> TRUE,
                    rec |-> [rec EXCEPT !.st = "running", !.attempt = @ + 1]]]
    /\ UNCHANGED <<cast, outside, op, opFile, jobs, sidecar, turns, closing, drawn, ledger, faults>>

\* The goroutine's first step reads the receipt in place: taken to be still the
\* one it was started for.
Job(rec) == [rec |-> rec, result |-> rec, ok |-> FALSE, of |-> Attempt(rec),
             pc |-> IF SideMatches(side', rec) /\ rec.mode = "archived"
                    THEN "prepare" ELSE "check"]

\* beginArchivePreparation keeps the delivery of the attempt before.
Begun(rec) ==
    LET p == [NoSide EXCEPT !.st = "checking", !.jid = rec.jid, !.attempt = rec.attempt,
                            !.target = rec.target]
    IN IF side.jid = rec.jid /\ side.target = rec.target
       THEN [p EXCEPT !.msg = side.msg, !.round = side.round] ELSE p

\* The second half of startLifecycleOperation: sidecar first, receipt second.
StartInstall ==
    LET c == calls["handler"]
        rec == c.rec
        rest == [calls EXCEPT !["handler"] = NoCall]
        prepares == rec.kind = "archive" /\ rec.mode = "archived" /\ ~rec.expected
    IN /\ c # NoCall /\ Cardinality(jobs) < MaxJobs
       /\ \/ /\ ~c.fresh \/ closing
             /\ calls' = rest /\ UNCHANGED <<op, opFile, jobs, sidecar, faults>>
          \/ /\ c.fresh /\ ~closing
             /\ IF prepares THEN side' = Begun(rec) /\ sideFile' = Begun(rec)
                ELSE UNCHANGED sidecar
             /\ \/ Replace(rec, rest) /\ jobs' = jobs \cup {Job(rec)}
                \/ NotReplaced(rec, rest) /\ UNCHANGED jobs
          \/ /\ c.fresh /\ ~closing /\ prepares /\ SideNotSaved(Begun(rec))
             /\ calls' = rest /\ UNCHANGED <<op, opFile, jobs>>
       /\ UNCHANGED <<cast, outside, turns, closing, drawn, ledger>>

\* dismissLifecycleOperation, once its own reconciliation has changed nothing.
Dismiss ==
    /\ ~closing /\ op.st \in {"failed", "complete"} /\ Proposal(op) = op
    /\ \/ WithoutOp(calls)
       \/ NotReplaced(NoOp, calls) /\ UNCHANGED sidecar
    /\ UNCHANGED <<cast, outside, jobs, turns, closing, drawn, ledger>>

\* cancelArchivePreparation
Cancel ==
    LET p == [side EXCEPT !.st = "canceled"]
        rec == [op EXCEPT !.st = "failed"] IN
    /\ op.st # "none" /\ SideMatches(side, op) /\ Active(side)
    /\ \/ /\ side' = p /\ sideFile' = p /\ revoked' = revoked \cup {Attempt(op)}
          /\ \/ Replace(rec, calls) /\ UNCHANGED stranded
             \/ NotReplaced(rec, calls) /\ stranded' = stranded \cup {Attempt(op)}
       \/ SideNotSaved(p) /\ UNCHANGED <<op, opFile, calls, revoked, stranded>>
    /\ UNCHANGED <<cast, outside, jobs, turns, closing, drawn, missed>>

(***************************************************************************)
(* runLifecycleJob: preparation.                                           *)
(***************************************************************************)
Go(j, pc) == jobs' = (jobs \ {j}) \cup {[j EXCEPT !.pc = pc]}

\* Mutant of InHand: the state of the preparation is not looked at.
InHandCanceled(j) == SideMatches(side, j.rec)
InHand(j) == SideMatches(side, j.rec) /\ Active(side)

\* withArchivePreparationAdmission
Admitted(j) ==
    /\ InHand(j) /\ ~closing /\ op.st = "running" /\ SideMatches(side, op)
    /\ ~Pending /\ dir.root = "work" /\ Target = side.target

\* updateArchivePreparation.  Where a failed save ends the job, the preparation
\* stays active and nobody is on it.
Update(j, p, pc) == InHand(j) /\ SideSaved(p) /\ Go(j, pc) /\ UNCHANGED stranded
Left(j, p) == /\ InHand(j) /\ SideNotSaved(p) /\ Go(j, "outcome")
              /\ stranded' = stranded \cup {Attempt(j.rec)}

\* A save within the admission: its failure is one of the preparation.
Admit(j, p, pc) == /\ Admitted(j) /\ UNCHANGED stranded
                   /\ \/ SideSaved(p) /\ Go(j, pc)
                      \/ SideNotSaved(p) /\ Go(j, "fail")

\* The archive-check command and its verdict.
Stuck == IF side.stuck < MaxStuck THEN side.stuck + 1 ELSE MaxStuck

PrepCheck(j) ==
    /\ j \in jobs /\ j.pc = "prepare" /\ ~side.msg /\ Admitted(j)
    /\ \E stuck \in {0} \cup (IF side.round = 0 THEN {} ELSE {Stuck}) :
          LET p == [side EXCEPT !.stuck = stuck] IN
          \/ stuck = 0 /\ Update(j, p, "ready")
          \/ Update(j, p, IF stuck >= MaxStuck THEN "fail" ELSE "blocked")
          \/ Left(j, p)
    /\ UNCHANGED <<cast, outside, receipts, turns, closing, drawn, revoked, missed>>

PrepReady(j) ==
    LET p == [side EXCEPT !.st = "archiving"] IN
    /\ j \in jobs /\ j.pc = "ready"
    /\ Update(j, p, "check") \/ Left(j, p)
    /\ UNCHANGED <<cast, outside, receipts, turns, closing, drawn, revoked, missed>>

\* The message's identity is that of its operation and round.
PrepCompose(j) ==
    /\ j \in jobs /\ j.pc = "blocked" /\ side.round < MaxRound
    /\ Admit(j, [side EXCEPT !.round = @ + 1, !.msg = TRUE,
                             !.st = "lead_fixing_blockers"], "prepare")
    /\ UNCHANGED <<cast, outside, receipts, turns, closing, drawn, revoked, missed>>

Turn(p) == <<p.jid, p.round>>
Accepted(p) == IF turns[Turn(p)] = "none" THEN [turns EXCEPT ![Turn(p)] = "running"] ELSE turns

\* ReconcileSendWithOptions, SendWithOptions if it was never accepted, and the
\* delivery noted, all under the message lock that Cancel takes too.
PrepRepair(j) ==
    /\ j \in jobs /\ j.pc = "prepare" /\ side.msg
    /\ Admit(j, [side EXCEPT !.st = "lead_fixing_blockers"], "repair")
    /\ turns' = Accepted(side)
    /\ UNCHANGED <<cast, outside, receipts, closing, drawn, revoked, missed>>

\* The state of the turn: polled again, rechecked when it is complete.
PrepTurn(j) ==
    LET polled == [side EXCEPT !.failures = 0]
        p == IF turns[Turn(side)] = "done"
             THEN [polled EXCEPT !.msg = FALSE, !.st = "rechecking"] ELSE polled IN
    /\ j \in jobs /\ j.pc = "repair" /\ InHand(j) /\ turns[Turn(side)] # "bad"
    /\ Update(j, p, "prepare") \/ (p # side /\ Left(j, p))
    /\ UNCHANGED <<cast, outside, receipts, turns, closing, drawn, revoked, missed>>

\* The answer was lost, whether or not the message was accepted.
PrepUnknown(j) ==
    LET p == [side EXCEPT !.failures = @ + 1] IN
    /\ j \in jobs /\ j.pc = "prepare" /\ side.msg /\ Admitted(j) /\ Fault
    /\ turns' \in {turns, Accepted(side)}
    /\ \/ /\ side' = p /\ sideFile' = p /\ UNCHANGED stranded
          /\ Go(j, IF p.failures < MaxFailures THEN "prepare" ELSE "fail")
       \/ /\ UNCHANGED side /\ sideFile' \in {sideFile, p} /\ Go(j, "outcome")
          /\ stranded' = stranded \cup {Attempt(j.rec)}
    /\ UNCHANGED <<cast, outside, receipts, closing, drawn, revoked, missed>>

\* Canceled, replaced, overtaken or closing; or the check, the delivery or the
\* turn failed, or waits for the operator.
PrepRefused(j) ==
    /\ j \in jobs /\ j.pc \in {"prepare", "ready", "blocked", "repair"}
    /\ j.pc = "ready" => ~InHand(j)
    /\ Go(j, "fail")
    /\ UNCHANGED <<cast, outside, receipts, sidecar, turns, closing, drawn, ledger, faults>>

\* The failure is noted unless the preparation is not this job's any more.
PrepFail(j) ==
    LET p == [side EXCEPT !.st = "failed"] IN
    /\ j \in jobs /\ j.pc = "fail"
    /\ \/ ~closing /\ (Update(j, p, "outcome") \/ Left(j, p))
       \/ (~InHand(j) \/ closing) /\ Go(j, "outcome") /\ UNCHANGED <<sidecar, stranded, faults>>
    /\ UNCHANGED <<cast, outside, receipts, turns, closing, drawn, revoked, missed>>

(***************************************************************************)
(* runLifecycleJob: the command and its outcome.                           *)
(***************************************************************************)
\* executeLifecycleOperation: journal and target once more.
ExecCheck(j) ==
    LET rec == j.rec
        own == Pending /\ journal.kind = rec.kind /\ journal.jid = rec.jid
               /\ EvidenceMatches(rec, journal)
    IN /\ j \in jobs /\ j.pc = "check"
       /\ IF IF rec.expected THEN own ELSE ~Pending /\ rec.target = Target
          THEN Go(j, "launch") ELSE Go(j, "outcome")
       /\ UNCHANGED <<cast, outside, receipts, sidecar, turns, closing, drawn, ledger, faults>>

Command(rec, by, of) == [by |-> by, of |-> of, jid |-> rec.jid, kind |-> rec.kind,
                         mode |-> rec.mode, target |-> NoTarget, st |-> "queued"]

\* The command is started.  A unit takes the name of the receipt in place, is
\* refused while one of that name is there, and may have been started though
\* that was not seen.
Launch(j) ==
    LET unit == Command(j.rec, "unit", Attempt(op))
        starts == op.kind = "archive" /\ Unit(op) = {}
        follow == (jobs \ {j}) \cup {[j EXCEPT !.pc = "wait", !.of = Attempt(op)]}
    IN /\ j \in jobs /\ j.pc = "launch"
       /\ \/ /\ ~Supervised(j.rec) /\ Go(j, "wait") /\ UNCHANGED faults
             /\ procs' = procs \cup {Command(j.rec, "job", j.of)}
          \/ /\ Supervised(j.rec) /\ starts /\ jobs' = follow /\ UNCHANGED faults
             /\ procs' = procs \cup {unit}
          \/ /\ Supervised(j.rec) /\ ~starts /\ Go(j, "outcome") /\ UNCHANGED <<procs, faults>>
          \/ /\ Supervised(j.rec) /\ starts /\ Fault /\ Go(j, "outcome")
             /\ procs' \in {procs, procs \cup {unit}}
       /\ UNCHANGED <<cast, dir, journal, removed, done, receipts, sidecar, turns, closing,
                      drawn, ledger>>

\* The process it started.
Mine(j) == {p \in procs : \E by \in {"job", "unit"} :
                             p = [Command(j.rec, by, j.of) EXCEPT !.st = p.st]}

\* Units that ended stay for the reconciliation; the portal stops waiting for
\* one without stopping it.
Wait(j) ==
    /\ j \in jobs /\ j.pc = "wait"
    /\ \E p \in Mine(j) :
          \/ /\ p.st \in {"ok", "bad"} /\ UNCHANGED faults
             /\ jobs' = (jobs \ {j}) \cup {[j EXCEPT !.pc = "outcome", !.ok = (p.st = "ok")]}
             /\ procs' = IF p.by = "job" THEN procs \ {p} ELSE procs
          \/ /\ p.by = "unit" /\ Fault /\ Go(j, "outcome") /\ UNCHANGED procs
    /\ UNCHANGED <<cast, dir, journal, removed, done, receipts, sidecar, turns, closing,
                   drawn, ledger>>

\* What the journal says of a command that failed.
Outcome(j) ==
    LET failed == [j.rec EXCEPT !.st = "failed"]
        known == Pending /\ journal.kind = failed.kind /\ journal.jid = failed.jid
                 /\ EvidenceMatches(failed, journal)
        result == IF j.ok THEN [j.rec EXCEPT !.st = "complete"]
                  ELSE IF known THEN BindTarget(WithProgress(failed, journal)) ELSE failed
    IN /\ j \in jobs /\ j.pc = "outcome"
       /\ jobs' = (jobs \ {j}) \cup {[j EXCEPT !.pc = "save", !.result = result]}
       /\ UNCHANGED <<cast, outside, receipts, sidecar, turns, closing, drawn, ledger, faults>>

\* A failed command's journal evidence is not the receipt's any more.
Contradicts(j) ==
    /\ ~j.ok /\ op.expected /\ op.ev # NoEvidence /\ op.ev # j.result.ev
    /\ op.ev.part # "prelude" \/ op.ev # j.rec.ev

\* The result is saved if the receipt is still of this attempt, and never
\* takes back journal evidence the display worker has pinned meanwhile.
SaveOutcome(j) ==
    LET rec == j.result
        current == op.st # "none" /\ Attempt(op) = Attempt(rec)
        revokes == SideMatches(side, rec) /\ (side.st = "canceled" \/ (closing /\ side.st = "paused"))
    IN /\ j \in jobs /\ j.pc = "save" /\ jobs' = jobs \ {j}
       /\ IF revokes \/ ~current THEN UNCHANGED <<op, opFile, calls, faults>>
          ELSE \/ ~Contradicts(j) /\ Replace(rec, calls)
               \/ /\ op' = [op EXCEPT !.st = "failed"] /\ calls' = Stale(calls)
                  /\ IF Contradicts(j) THEN UNCHANGED <<opFile, faults>>
                     ELSE Fault /\ opFile' \in {opFile, rec}
       /\ UNCHANGED <<cast, outside, sidecar, turns, closing, drawn, ledger>>

(***************************************************************************)
(* dev-session, the lead conversation and the terminal.                    *)
(***************************************************************************)
Set(p, st) == procs' = (procs \ {p}) \cup (IF p.by = "terminal" /\ st \in {"ok", "bad"}
                                           THEN {} ELSE {[p EXCEPT !.st = st]})

\* authorized_archive_worker?, revalidate_lifecycle_access!: a command of the
\* portal needs the stored receipt it was started for, and a unit its very name.
Authorized(p) ==
    p.by # "terminal" =>
        /\ opFile.st \in {"running", "paused", "failed"}
        /\ opFile.kind = p.kind /\ opFile.jid = p.jid
        /\ p.by = "unit" => Attempt(opFile) = p.of

\* The directory a new journal may be about: the one the receipt names, or the
\* one there was when the terminal command was entered.
Meant(p) == IF p.by = "terminal" THEN p.target ELSE opFile.target

\* Under the session's lock: continue the journal of this operation or, on the
\* directory it was meant for, begin one.
ProcStart(p) ==
    /\ p \in procs /\ p.st = "queued" /\ \A q \in procs : q.st # "running"
    /\ Authorized(p)
    /\ \/ /\ Pending /\ journal.kind = p.kind /\ journal.jid = p.jid
          /\ Set(p, "running") /\ UNCHANGED journal
       \/ /\ ~Pending /\ Fits(p.kind) /\ Meant(p) = Target /\ Set(p, "running")
          /\ \E at \in {"prepared"} \cup (IF p.kind = "archive" THEN {"services"} ELSE {}) :
                journal' = [kind |-> p.kind, jid |-> p.jid, mode |-> p.mode,
                            ino |-> dir.ino, at |-> at]
    /\ UNCHANGED <<cast, dir, removed, done, receipts, jobs, sidecar, turns, closing, drawn,
                   ledger, faults>>

Moved(j) == CASE j.kind = "archive" -> [dir EXCEPT !.root = "archive", !.mode = j.mode]
              [] j.kind = "revive" -> [dir EXCEPT !.root = "work", !.mode = "active"]
              [] OTHER -> [dir EXCEPT !.root = "none"]

ProcStep(p) ==
    /\ p \in procs /\ p.st = "running"
    /\ \/ /\ journal.at = "services" /\ journal' = [journal EXCEPT !.at = "prepared"]
          /\ UNCHANGED <<dir, removed, procs, done>>
       \/ /\ journal.at = "prepared" /\ journal' = [journal EXCEPT !.at = "moved"]
          /\ dir' = Moved(journal) /\ UNCHANGED <<removed, procs, done>>
       \/ /\ journal.at = "moved" /\ journal' = NoJournal /\ Set(p, "ok")
          /\ removed' = IF p.kind = "delete" THEN removed \cup {journal.jid} ELSE removed
          /\ done' = done \cup {[kind |-> p.kind, jid |-> journal.jid, ino |-> journal.ino]}
          /\ UNCHANGED dir
    /\ UNCHANGED <<cast, receipts, jobs, sidecar, turns, closing, drawn, ledger, faults>>

\* It refuses, fails or is killed; a journal it began stays.
ProcDie(p) ==
    /\ p \in procs /\ p.st \in {"queued", "running"} /\ Set(p, "bad")
    /\ UNCHANGED <<cast, dir, journal, removed, done, receipts, jobs, sidecar, turns, closing,
                   drawn, ledger, faults>>

LeadFinishes(t) ==
    /\ turns[t] = "running" /\ \E st \in {"done", "bad"} : turns' = [turns EXCEPT ![t] = st]
    /\ UNCHANGED <<cast, outside, receipts, jobs, sidecar, closing, drawn, ledger, faults>>

\* Without an operation of its own the command continues the journal it finds.
Terminal(kind) ==
    LET resumes == Pending /\ journal.kind = kind IN
    /\ kind \in cast.terminal /\ \A p \in procs : p.by # "terminal"
    /\ resumes \/ (~Pending /\ Fits(kind) /\ drawn < cast.ops)
    /\ drawn' = IF resumes THEN drawn ELSE drawn + 1
    /\ procs' = procs \cup {[by |-> "terminal", of |-> <<0, FALSE, 0>>, kind |-> kind,
                             jid |-> IF resumes THEN journal.jid ELSE drawn + 1,
                             mode |-> IF resumes THEN journal.mode ELSE "complete",
                             target |-> IF resumes THEN NoTarget ELSE Target,
                             st |-> "queued"]}
    /\ UNCHANGED <<cast, dir, journal, removed, done, receipts, jobs, sidecar, turns, closing,
                   ledger, faults>>

TerminalCreate ==
    /\ "create" \in cast.terminal /\ dir.root = "none" /\ ~Pending /\ dir.ino < MaxIno
    /\ dir' = [root |-> "work", ino |-> dir.ino + 1, mode |-> "active"]
    /\ UNCHANGED <<cast, journal, removed, procs, done, receipts, jobs, sidecar, turns, closing,
                   drawn, ledger, faults>>

(***************************************************************************)
(* Restarts.                                                               *)
(***************************************************************************)
\* Close and parkArchivePreparations, which only logs what it cannot save.
Close ==
    LET p == [side EXCEPT !.st = "paused"]
        rec == [op EXCEPT !.st = "failed"] IN
    /\ ~closing /\ closing' = TRUE /\ Fault
    /\ \/ Active(side) /\ side' = p /\ sideFile' = p
       \/ Active(side) /\ sideFile' \in {sideFile, p} /\ UNCHANGED side
       \/ ~Active(side) /\ UNCHANGED sidecar
    /\ IF Active(side) /\ op.st # "none" /\ SideMatches(side, op)
       THEN \/ op' = rec /\ opFile' = rec /\ calls' = Stale(calls)
            \/ opFile' \in {opFile, rec} /\ UNCHANGED <<op, calls>>
       ELSE UNCHANGED <<op, opFile, calls>>
    /\ UNCHANGED <<cast, outside, jobs, turns, drawn, ledger>>

\* The operation context is canceled: the jobs' own commands are stopped.
Canceled(j) ==
    /\ closing /\ j \in jobs /\ j.pc \notin {"fail", "outcome", "save"} /\ Go(j, "outcome")
    /\ procs' = procs \ {p \in Mine(j) : p.by = "job"}
    /\ UNCHANGED <<cast, dir, journal, removed, done, receipts, sidecar, turns, closing, drawn,
                   ledger, faults>>

\* Mutant of Loaded: a receipt is taken up as it was left.
LoadedAsLeft(rec) == rec

\* load: no goroutine survives a restart.
Loaded(rec) == IF rec.st = "running" THEN [rec EXCEPT !.st = "paused"] ELSE rec

\* load, then resumeArchivePreparations.
Restart ==
    LET rec == Loaded(opFile)
        candidate == /\ rec.st \notin {"none", "complete"} /\ SideMatches(sideFile, rec)
                     /\ rec.kind = "archive" /\ rec.mode = "archived" /\ ~rec.expected
        owed == candidate /\ Active(sideFile)
        resumes == owed /\ ~Pending
        again == IF resumes THEN [rec EXCEPT !.st = "running"] ELSE rec
    IN /\ side' = IF candidate THEN sideFile ELSE NoSide
       /\ op' = again /\ opFile' = IF resumes THEN again ELSE opFile
       /\ jobs' = IF resumes THEN {Job(again)} ELSE {}
       /\ calls' = [w \in DOMAIN calls |-> NoCall] /\ closing' = FALSE
       /\ procs' = {p \in procs : p.by # "job"}
       /\ stranded' = {} /\ missed' = IF owed /\ Pending THEN {Attempt(rec)} ELSE {}
       /\ UNCHANGED <<cast, dir, journal, removed, done, sideFile, turns, drawn, revoked>>

Down == closing /\ jobs = {} /\ Restart /\ UNCHANGED faults
Crash == Fault /\ Restart

JobStep(j) == \/ PrepCheck(j) \/ PrepReady(j) \/ PrepCompose(j) \/ PrepRepair(j)
              \/ PrepTurn(j) \/ PrepUnknown(j) \/ PrepRefused(j) \/ PrepFail(j)
              \/ ExecCheck(j) \/ Launch(j) \/ Wait(j) \/ Outcome(j) \/ SaveOutcome(j)
              \/ Canceled(j)

Next ==
    \/ RefreshRead \/ RefreshAccept \/ RetryRead \/ StartInstall \/ Dismiss \/ Cancel
    \/ \E ask \in cast.asks : AskRead(ask)
    \/ \E j \in jobs : JobStep(j)
    \/ \E p \in procs : ProcStart(p) \/ ProcStep(p) \/ ProcDie(p)
    \/ \E t \in DOMAIN turns : LeadFinishes(t)
    \/ \E kind \in Kinds : Terminal(kind)
    \/ TerminalCreate \/ Close \/ Down \/ Crash

Spec == Init /\ [][Next]_vars
FairSpec == Spec /\ WF_vars(RefreshRead) /\ WF_vars(RefreshAccept)
                 /\ WF_vars(\E j \in jobs : JobStep(j)) /\ WF_vars(Down)
                 /\ WF_vars(\E p \in procs : ProcStart(p) \/ ProcStep(p) \/ ProcDie(p))

(***************************************************************************)
(* Properties.                                                             *)
(***************************************************************************)
\* A receipt that says complete is right: its own operation finished, or the
\* directory it was confirmed for was archived or revived.  A replacement
\* under the same name, a late result or a restart never completes it.
CompleteIsTrue ==
    \A rec \in {op, opFile} : rec.st = "complete" =>
        \E e \in done : /\ e.kind = rec.kind
                        /\ \/ e.jid = rec.jid
                           \/ rec.kind # "delete" /\ e.ino \in {rec.target.ino, rec.jt.ino}

\* A receipt that says running is worked on: by one job of its attempt, or by
\* its unit, until the portal closes.  The exceptions are a preparation whose
\* cancellation or failure could not be saved, shown as running until a restart
\* or a new cancel, and one the last restart left alone (PreparationsResume).
Attended ==
    /\ \A j, k \in jobs : Attempt(j.rec) = Attempt(k.rec) /\ ~j.rec.adopted => j = k
    /\ op.st = "running" /\ ~closing =>
          \/ \E j \in jobs : Attempt(j.rec) = Attempt(op)
          \/ Unit(op) # {}
          \/ Attempt(op) \in stranded \cup missed

\* "The portal owns preparation and resumes its durable record after restart"
\* (docs/session-archive-recovery.md:55): a preparation shown as running is
\* worked on, at the latest when no journal stands in its way.
PreparationsResume ==
    op.st = "running" /\ SideMatches(side, op) /\ Active(side) /\ ~Pending =>
        \/ \E j \in jobs : Attempt(j.rec) = Attempt(op)
        \/ Attempt(op) \in stranded

\* "The unit identity must match the retained portal authorization"
\* (docs/session-archive-recovery.md:312): a unit runs the operation of the
\* receipt it is named after.  runSupervisedArchive reads the receipt in place
\* again (archive_worker.go:76-81), so that a late launch may break this.
UnitsNamed == \A p \in procs : p.by = "unit" => p.jid = p.of[1]

\* Once a preparation is canceled its archival does not start, as long as no
\* unit has got another receipt's name.
CanceledNeverArchives ==
    UnitsNamed => \A p \in procs : p.by # "terminal" => p.of \notin revoked

\* A journal that needs finishing becomes visible: some receipt names it,
\* unless a preparation nobody works on hides it (see Attended).
PendingShown ==
    \A jid \in Jids \ {0} :
        (journal.jid = jid) ~>
            (journal.jid # jid \/ op.jid = jid \/ Attempt(op) \in stranded \cup missed)
=============================================================================
