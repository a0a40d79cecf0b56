--------------------- MODULE LifecycleOperationsProofs ---------------------
(***************************************************************************)
(* Proofs about LifecycleOperations, for every number of operations,       *)
(* directories, attempts and rounds and every set of casts.                *)
(*                                                                         *)
(* 1. The receipts keep their shape, and one that says complete is right.  *)
(* A receipt is copied a lot: into readings, into jobs and their results,  *)
(* to the disk and back.  So the invariant speaks of every copy.  A copy   *)
(* that may one day prove its completion by the place of its directory     *)
(* must know how that directory got there: by an operation of its own kind *)
(* that has finished, or whose journal is still there (Traced).            *)
(*                                                                         *)
(* 2. A receipt that says running is worked on.  An attempt is drawn once, *)
(* so that whatever carries its number is of the receipt that has it.      *)
(*                                                                         *)
(* 3. What is canceled is not started.  A job that may still start its     *)
(* command has the receipt of its attempt to itself.                       *)
(***************************************************************************)
EXTENDS LifecycleOperations, TLAPS

(***************************************************************************)
(* Shapes.                                                                 *)
(***************************************************************************)
Worlds == [root : {"none", "work", "archive"}, ino : 0..MaxIno, mode : Modes \cup {"active"}]
Procs == [by : {"job", "unit", "terminal"}, of : Attempts, jid : Jids, kind : Kinds,
          mode : Modes, target : Targets, st : {"queued", "running", "ok", "bad"}]
Calls == [what : {"none", "refresh", "start"}, rec : Ops, fresh : BOOLEAN]
Jobs == [rec : Ops, result : Ops, ok : BOOLEAN, of : Attempts,
         pc : {"prepare", "ready", "blocked", "repair", "fail", "check",
               "launch", "wait", "outcome", "save"}]

\* A receipt with an identity: a valid one, or none at all.
Sound(rec) == /\ rec \in Ops
              /\ rec.st = "none" => rec = NoOp
              /\ rec.st # "none" => /\ rec.kind \in Kinds /\ rec.jid # 0
                                    /\ ~rec.adopted => rec.target # NoTarget
                                    /\ rec.adopted => rec.expected

OutsideShape == /\ dir \in Worlds /\ dir.ino # 0
                /\ journal \in Journals
                /\ Pending => journal.kind \in Kinds /\ journal.jid # 0 /\ journal.at # "none"
                /\ removed \subseteq Jids
                /\ procs \subseteq Procs /\ \A p \in procs : p.jid # 0
ReceiptShape == /\ Sound(op) /\ Sound(opFile)
                /\ calls \in [{"display", "handler"} -> Calls]
                /\ \A w \in {"display", "handler"} : Sound(calls[w].rec)
                /\ calls["handler"] = NoCall \/ calls["handler"].rec.st = "running"
JobShape == /\ jobs \subseteq Jobs
            /\ \A j \in jobs : Sound(j.rec) /\ Sound(j.result) /\ j.rec.st = "running"
SideShape == /\ side \in Sides /\ sideFile \in Sides
             /\ turns \in [Jids \X (1..MaxRound) -> {"none", "running", "done", "bad"}]
RestShape == /\ closing \in BOOLEAN /\ drawn \in Jids /\ faults \in Nat
             /\ cast \in Casts

Shape == OutsideShape /\ ReceiptShape /\ JobShape /\ SideShape /\ RestShape

\* The shapes give the type invariant.
LEMMA ShapeGivesType == Shape => TypeOK
  <1> SUFFICES ASSUME Shape PROVE TypeOK
    OBVIOUS
  <1>1. dir \in Worlds /\ journal \in Journals /\ removed \subseteq Jids /\ procs \subseteq Procs
    BY DEF Shape, OutsideShape
  <1>2. op \in Ops /\ opFile \in Ops /\ Valid(op) /\ Valid(opFile)
    BY DEF Shape, ReceiptShape, Sound, Valid, Kinds
  <1>3. calls \in [{"display", "handler"} -> Calls] /\ jobs \subseteq Jobs
    BY DEF Shape, ReceiptShape, JobShape
  <1> QED
    BY <1>1, <1>2, <1>3 DEF Shape, SideShape, RestShape, TypeOK, Worlds, Procs, Calls, Jobs

\* The bounds are natural numbers, and a cast stays within them.
LEMMA Bounds ==
    /\ MaxOps \in Nat /\ MaxIno \in Nat /\ MaxAttempt \in Nat /\ MaxRound \in Nat
    /\ MaxStuck \in Nat /\ MaxFailures \in Nat /\ MaxIno # 0 /\ MaxAttempt # 0
    /\ \A c \in Casts : /\ c.ops \in 1..MaxOps /\ c.attempts \in 1..MaxAttempt
                        /\ c.asks \subseteq {"archive", "prepared", "delete", "revive"}
                        /\ c.faults \in Nat /\ c.supervised \in BOOLEAN
  BY LifecycleAssumption

LEMMA NoOpSound == Sound(NoOp) /\ NoCall \in Calls /\ Sound(NoCall.rec)
  BY Bounds DEF Sound, Ops, NoOp, NoTarget, NoEvidence, Targets, Jids, Kinds, Modes, NoCall, Calls

LEMMA NoSideShape == NoSide \in Sides
  BY Bounds DEF NoSide, Sides, NoTarget, Targets, Jids

LEMMA TargetShape ==
    ASSUME OutsideShape
    PROVE  /\ Target \in Targets /\ (dir.root # "none" => Target # NoTarget)
           /\ Target.ino = dir.ino /\ NoTarget \in Targets
  BY Bounds DEF OutsideShape, Target, Targets, NoTarget, Worlds

\* What may be changed in a receipt without making it another's.
LEMMA StateKept ==
    ASSUME NEW rec, Sound(rec), rec.st # "none",
           NEW st \in {"running", "paused", "failed", "complete"}
    PROVE  LET r == [rec EXCEPT !.st = st] IN
           /\ Sound(r) /\ r.st = st /\ r.kind = rec.kind /\ r.jid = rec.jid
           /\ r.adopted = rec.adopted /\ r.target = rec.target /\ r.jt = rec.jt
           /\ r.attempt = rec.attempt /\ r.mode = rec.mode /\ r.expected = rec.expected
           /\ r.ev = rec.ev
  BY DEF Sound, Ops

LEMMA EvidenceShape ==
    ASSUME OutsideShape
    PROVE  EvidenceOf(journal) \in [part : {"none", "prelude", "ordinary"}, ino : 0..MaxIno]
  BY DEF OutsideShape, EvidenceOf, Journals

LEMMA ProgressKept ==
    ASSUME NEW rec, Sound(rec), rec.st # "none", OutsideShape, Pending, rec.jid = journal.jid
    PROVE  LET r == WithProgress(rec, journal) IN
           /\ Sound(r) /\ r.st = rec.st /\ r.kind = rec.kind /\ r.jid = rec.jid
           /\ r.adopted = rec.adopted /\ r.target = rec.target /\ r.jt = rec.jt
           /\ r.attempt = rec.attempt /\ r.expected = TRUE
  <1>1. EvidenceOf(journal) \in [part : {"none", "prelude", "ordinary"}, ino : 0..MaxIno]
    BY EvidenceShape
  <1>2. journal.jid \in Jids /\ journal.mode \in Modes
    BY DEF OutsideShape, Journals
  <1> DEFINE r == WithProgress(rec, journal)
  <1>3. r \in Ops
    BY <1>1, <1>2 DEF WithProgress, Sound, Ops
  <1>4. /\ r.st = rec.st /\ r.kind = rec.kind /\ r.jid = rec.jid
        /\ r.adopted = rec.adopted /\ r.target = rec.target /\ r.jt = rec.jt
        /\ r.attempt = rec.attempt /\ r.expected = TRUE
    BY <1>1, <1>2 DEF WithProgress, Sound, Ops
  <1> HIDE DEF r
  <1>5. Sound(r)
    BY <1>3, <1>4 DEF Sound
  <1> QED
    BY <1>4, <1>5 DEF r

(***************************************************************************)
(* What the copies of a receipt know.                                      *)
(***************************************************************************)
Dest(kind) == IF kind = "archive" THEN "archive" ELSE "work"
Subject(rec) == IF rec.adopted THEN rec.jt ELSE rec.target

\* The operation of this identity finished; one of this kind did on this directory.
Finished(rec) == \E e \in done : e.kind = rec.kind /\ e.jid = rec.jid
Effected(kind, ino) == \E e \in done : e.kind = kind /\ e.ino = ino

\* A directory where the operation would have put it was put there by one of
\* its kind, whose journal may still be there.
Traced(rec) ==
    /\ Subject(rec).ino <= dir.ino
    /\ rec.kind \in {"archive", "revive"} /\ Subject(rec).ino = dir.ino
       /\ dir.root = Dest(rec.kind) =>
          \/ Effected(rec.kind, dir.ino)
          \/ journal.kind = rec.kind /\ journal.ino = dir.ino

Proven(rec) == \E e \in done : /\ e.kind = rec.kind
                               /\ \/ e.jid = rec.jid
                                  \/ rec.kind # "delete" /\ e.ino \in {rec.target.ino, rec.jt.ino}

Faithful(rec) == Traced(rec) /\ (rec.st = "complete" => Proven(rec))

\* Journals are about the directory there is, one process at a time works on
\* one, and what ended well is in the history.
WorldTrue ==
    /\ Pending => journal.ino = dir.ino
    /\ \A e \in done : e.ino # 0
    /\ \A jid \in removed : \E e \in done : e.kind = "delete" /\ e.jid = jid
    /\ \A p \in procs : p.st = "running" =>
                           Pending /\ journal.kind = p.kind /\ journal.jid = p.jid
    /\ \A p, q \in procs : p.st = "running" /\ q.st = "running" => p = q
    /\ \A p \in procs : p.st = "ok" => Finished(p)
    /\ \A p \in procs : p.by = "unit" =>
                           /\ p.kind = "archive"
                           /\ p.st \in {"running", "ok"} => p.jid = p.of[1]

GoodRec(rec) == Sound(rec) /\ Faithful(rec)
GoodJob(j) == /\ GoodRec(j.rec) /\ GoodRec(j.result) /\ j.rec.st = "running"
              /\ j.ok => Finished(j.rec)

ReceiptsTrue == /\ Faithful(op) /\ Faithful(opFile)
                /\ \A w \in {"display", "handler"} : Faithful(calls[w].rec)
JobsTrue == \A j \in jobs : GoodJob(j)
CopiesTrue == ReceiptsTrue /\ JobsTrue

CompleteInv == Shape /\ WorldTrue /\ CopiesTrue

LEMMA CompleteInvGives == CompleteInv => TypeOK /\ CompleteIsTrue
  <1> SUFFICES ASSUME CompleteInv PROVE CompleteIsTrue
    BY ShapeGivesType DEF CompleteInv
  <1> QED
    BY DEF CompleteInv, CopiesTrue, ReceiptsTrue, Faithful, Proven, CompleteIsTrue

LEMMA NoOpFaithful == OutsideShape => Faithful(NoOp)
  BY Bounds DEF OutsideShape, Worlds, Faithful, Traced, Subject, NoOp, NoTarget

\* Steps that leave directory, journal and history alone.
LEMMA SameWorld ==
    ASSUME UNCHANGED <<dir, journal, done>>
    PROVE  /\ \A rec : Faithful(rec) => Faithful(rec)'
           /\ \A rec : Finished(rec) => Finished(rec)'
  BY DEF Faithful, Traced, Proven, Finished, Effected

LEMMA SameOutside ==
    ASSUME OutsideShape, WorldTrue, UNCHANGED outside
    PROVE  OutsideShape' /\ WorldTrue'
  BY DEF OutsideShape, WorldTrue, outside, Pending, Finished

\* Nothing but its state, its attempt and its evidence can be changed.
LEMMA FaithfulKept ==
    ASSUME NEW rec, NEW r, Faithful(rec), r.kind = rec.kind, r.jid = rec.jid,
           r.adopted = rec.adopted, r.target = rec.target, r.jt = rec.jt,
           r.st = "complete" => rec.st = "complete" \/ Proven(r)
    PROVE  Faithful(r)
  BY DEF Faithful, Traced, Subject, Proven

\* The target a journal is bound to is the one the journal is about.
LEMMA BoundKept ==
    ASSUME NEW rec, Sound(rec), rec.st # "none", Faithful(rec), OutsideShape, WorldTrue,
           Pending, rec.kind = journal.kind
    PROVE  LET r == BindTarget(rec) IN
           /\ Sound(r) /\ Faithful(r)
           /\ r.st = rec.st /\ r.kind = rec.kind /\ r.jid = rec.jid /\ r.attempt = rec.attempt
           /\ r.adopted = rec.adopted /\ r.expected = rec.expected
  <1> DEFINE r == BindTarget(rec)
  <1>1. CASE ~(rec.jt = NoTarget /\ dir.root # "none")
    BY <1>1 DEF BindTarget
  <1>2. CASE rec.jt = NoTarget /\ dir.root # "none"
    <2>1. r = [rec EXCEPT !.jt = Target]
      BY <1>2 DEF BindTarget
    <2>2. Target \in Targets /\ Target.ino = dir.ino
      BY TargetShape
    <2>3. /\ r \in Ops /\ r.st = rec.st /\ r.kind = rec.kind /\ r.jid = rec.jid
          /\ r.attempt = rec.attempt /\ r.adopted = rec.adopted /\ r.target = rec.target
          /\ r.jt = Target /\ r.expected = rec.expected
      BY <2>1, <2>2 DEF Sound, Ops
    <2>4. Sound(r)
      BY <2>3 DEF Sound
    <2>5. Proven(rec) => Proven(r)
      BY <2>3, <1>2 DEF Proven, NoTarget, WorldTrue
    <2>6. Traced(r)
      BY <2>3, <2>2 DEF Traced, Subject, Faithful, WorldTrue, OutsideShape, Worlds
    <2> QED
      BY <2>3, <2>4, <2>5, <2>6 DEF Faithful
  <1> QED
    BY <1>1, <1>2

(***************************************************************************)
(* What the display worker proposes is faithful.                           *)
(***************************************************************************)
LEMMA WorkerStateSays ==
    ASSUME NEW rec, Sound(rec), rec.st # "none", WorldTrue, OutsideShape
    PROVE  /\ WorkerState(rec) \in {"running", "paused", "failed", "complete"}
           /\ WorkerState(rec) = "complete" => rec.st = "complete" \/ Finished(rec)
  <1>1. CASE ~Supervised(rec) \/ rec.st \in {"none", "complete"} \/ Unit(rec) = {}
    <2>1. WorkerState(rec) = rec.st
      BY <1>1 DEF WorkerState
    <2> QED
      BY <2>1 DEF Sound, Ops
  <1>2. CASE ~(~Supervised(rec) \/ rec.st \in {"none", "complete"} \/ Unit(rec) = {})
    <2> DEFINE p == CHOOSE p \in Unit(rec) : TRUE
    <2>1. p \in Unit(rec)
      BY <1>2
    <2> HIDE DEF p
    <2>2. WorkerState(rec) = CASE p.st = "ok" -> "complete" [] p.st = "bad" -> "failed"
                               [] OTHER -> "running"
      BY <1>2 DEF WorkerState, p
    <2>3. p \in procs /\ p.by = "unit" /\ p.of = Attempt(rec)
      BY <2>1 DEF Unit
    <2>4. p.st = "ok" => Finished(rec)
      <3> SUFFICES ASSUME p.st = "ok" PROVE Finished(rec)
        OBVIOUS
      <3>1. p.kind = rec.kind
        BY <1>2, <2>3 DEF WorldTrue, Supervised
      <3>2. p.jid = rec.jid
        BY <2>3 DEF WorldTrue, Attempt
      <3> QED
        BY <2>3, <3>1, <3>2 DEF WorldTrue, Finished
    <2>5. p.st \in {"queued", "running", "ok", "bad"}
      BY <2>3 DEF OutsideShape, Procs
    <2> QED
      BY <2>2, <2>4, <2>5
  <1> QED
    BY <1>1, <1>2

LEMMA SucceededProves ==
    ASSUME NEW rec, Sound(rec), Faithful(rec), rec.st # "none", WorldTrue, OutsideShape,
           ~Pending, Succeeded(rec)
    PROVE  Proven(rec)
  <1>1. CASE dir.root = "none"
    <2>1. rec.kind = "delete" /\ rec.jid \in removed
      BY <1>1 DEF Succeeded
    <2> QED
      BY <2>1 DEF WorldTrue, Proven
  <1>2. CASE dir.root # "none"
    <2> DEFINE tgt == IF ~rec.adopted THEN rec.target
                      ELSE IF rec.ev # NoEvidence THEN rec.jt ELSE NoTarget
    <2>1. /\ rec.kind # "delete" /\ tgt # NoTarget /\ dir.ino = tgt.ino
          /\ \/ rec.kind = "archive" /\ dir.root = "archive"
             \/ rec.kind = "revive" /\ dir.root = "work"
      BY <1>2 DEF Succeeded
    <2>2. tgt = Subject(rec)
      BY <2>1 DEF Subject
    <2>3. Effected(rec.kind, dir.ino) \/ journal.kind = rec.kind
      BY <2>1, <2>2 DEF Faithful, Traced, Dest
    <2>4. journal.kind = "none"
      BY DEF Pending, NoJournal
    <2> QED
      BY <2>1, <2>2, <2>3, <2>4 DEF Effected, Proven, Subject
  <1> QED
    BY <1>1, <1>2

LEMMA ProposalFaithful ==
    ASSUME NEW rec, Sound(rec), Faithful(rec), WorldTrue, OutsideShape
    PROVE  Sound(Proposal(rec)) /\ Faithful(Proposal(rec))
  <1> DEFINE seen == [rec EXCEPT !.st = WorkerState(rec)]
             same == rec.st # "none" /\ rec.kind = journal.kind /\ rec.jid = journal.jid
             follow == BindTarget(WithProgress(seen, journal))
             blank == [NoOp EXCEPT !.st = "paused", !.adopted = TRUE, !.kind = journal.kind]
             adopt == BindTarget(WithProgress(blank, journal))
  <1>1. CASE rec.st # "none" /\ SideMatches(side, rec) /\ Active(side)
    <2>1. Proposal(rec) = [rec EXCEPT !.st = "running"]
      BY <1>1 DEF Proposal
    <2> QED
      BY <2>1, <1>1, StateKept, FaithfulKept
  <1>2. ASSUME rec.st # "none"
        PROVE  /\ Sound(seen) /\ Faithful(seen) /\ seen.st = WorkerState(rec)
               /\ seen.kind = rec.kind /\ seen.jid = rec.jid /\ seen.st # "none"
    <2>1. /\ WorkerState(rec) \in {"running", "paused", "failed", "complete"}
          /\ WorkerState(rec) = "complete" => rec.st = "complete" \/ Finished(rec)
      BY <1>2, WorkerStateSays
    <2>2. /\ Sound(seen) /\ seen.st = WorkerState(rec) /\ seen.kind = rec.kind
          /\ seen.jid = rec.jid /\ seen.adopted = rec.adopted /\ seen.target = rec.target
          /\ seen.jt = rec.jt
      BY <1>2, <2>1, StateKept, ZenonT(60)
    <2> HIDE DEF seen
    <2>3. Finished(rec) => Proven(seen)
      BY <2>2 DEF Finished, Proven
    <2> QED
      BY <2>1, <2>2, <2>3, FaithfulKept
  <1>3. ASSUME rec.st = "none" PROVE seen = rec
    <2>1. WorkerState(rec) = rec.st
      BY <1>3 DEF WorkerState
    <2> QED
      BY <2>1 DEF Sound, Ops
  <1>4. ASSUME Pending
        PROVE  Sound(adopt) /\ Faithful(adopt)
    <2>1. /\ blank.st = "paused" /\ blank.adopted /\ blank.kind = journal.kind
          /\ blank \in Ops /\ blank.jt = NoTarget /\ blank.ev = NoEvidence
          /\ blank.target = NoTarget
      BY <1>4, NoOpSound DEF Sound, OutsideShape, Ops, NoOp
    <2> DEFINE next == WithProgress(blank, journal)
    <2>2. EvidenceOf(journal) \in [part : {"none", "prelude", "ordinary"}, ino : 0..MaxIno]
      BY EvidenceShape
    <2>3. journal.jid \in Jids /\ journal.mode \in Modes /\ journal.jid # 0
          /\ journal.kind \in Kinds
      BY <1>4 DEF OutsideShape, Journals
    <2> HIDE DEF blank
    <2>4. /\ next \in Ops /\ next.st = "paused" /\ next.adopted /\ next.kind = journal.kind
          /\ next.jid = journal.jid /\ next.jt = NoTarget /\ next.expected = TRUE
      BY <2>1, <2>2, <2>3 DEF WithProgress, Ops
    <2> HIDE DEF next
    <2>5. Sound(next)
      BY <2>3, <2>4 DEF Sound
    <2>6. Faithful(next)
      BY <2>4 DEF Faithful, Traced, Subject, NoTarget, OutsideShape, Worlds
    <2> QED
      BY <1>4, <2>4, <2>5, <2>6, BoundKept DEF next
  <1>5. ASSUME Pending, same
        PROVE  Sound(follow) /\ Faithful(follow) /\ follow.st # "none"
    <2> DEFINE next == WithProgress(seen, journal)
    <2>1. /\ Sound(seen) /\ Faithful(seen) /\ seen.kind = rec.kind /\ seen.jid = rec.jid
          /\ seen.st # "none"
      BY <1>2, <1>5
    <2> HIDE DEF seen
    <2>2. /\ Sound(next) /\ next.st = seen.st /\ next.kind = seen.kind /\ next.jid = seen.jid
          /\ next.adopted = seen.adopted /\ next.target = seen.target /\ next.jt = seen.jt
      BY <1>5, <2>1, ProgressKept
    <2> HIDE DEF next
    <2>3. Faithful(next)
      BY <2>1, <2>2, FaithfulKept
    <2> QED
      BY <1>5, <2>1, <2>2, <2>3, BoundKept DEF next
  <1>6. CASE ~(rec.st # "none" /\ SideMatches(side, rec) /\ Active(side)) /\ Pending
    <2>1. Proposal(rec) = IF ~same THEN adopt
                          ELSE IF ~EvidenceMatches(seen, journal) THEN seen
                          ELSE IF follow.st = "complete"
                               THEN [follow EXCEPT !.st = "paused"] ELSE follow
      BY <1>6 DEF Proposal
    <2> HIDE DEF adopt, follow, seen
    <2>2. CASE ~same
      BY <1>4, <1>6, <2>1, <2>2
    <2>3. CASE same /\ ~EvidenceMatches(seen, journal)
      BY <1>2, <2>1, <2>3
    <2>4. CASE same /\ EvidenceMatches(seen, journal) /\ follow.st = "complete"
      <3> DEFINE q == [follow EXCEPT !.st = "paused"]
      <3>1. Proposal(rec) = q
        BY <2>1, <2>4
      <3>2. /\ Sound(q) /\ q.st = "paused" /\ q.kind = follow.kind /\ q.jid = follow.jid
            /\ q.adopted = follow.adopted /\ q.target = follow.target /\ q.jt = follow.jt
        BY <1>5, <1>6, <2>4, StateKept, ZenonT(60)
      <3> HIDE DEF q
      <3> QED
        BY <1>5, <1>6, <2>4, <3>1, <3>2, FaithfulKept
    <2>5. CASE same /\ EvidenceMatches(seen, journal) /\ follow.st # "complete"
      BY <1>5, <1>6, <2>1, <2>5
    <2> QED
      BY <2>2, <2>3, <2>4, <2>5
  <1>7. CASE ~(rec.st # "none" /\ SideMatches(side, rec) /\ Active(side)) /\ ~Pending
    <2>1. Proposal(rec) = IF seen.st \in {"paused", "failed"}
                          THEN [seen EXCEPT !.st = IF Succeeded(seen) THEN "complete"
                                                   ELSE "failed"]
                          ELSE seen
      BY <1>7 DEF Proposal
    <2>2. CASE rec.st = "none"
      BY <1>3, <2>1, <2>2
    <2>3. CASE rec.st # "none"
      <3>1. /\ Sound(seen) /\ Faithful(seen) /\ seen.st # "none"
        BY <1>2, <2>3
      <3> HIDE DEF seen
      <3>2. CASE Succeeded(seen) /\ seen.st \in {"paused", "failed"}
        <4> DEFINE r == [seen EXCEPT !.st = "complete"]
        <4>1. /\ Sound(r) /\ r.st = "complete" /\ r.kind = seen.kind /\ r.jid = seen.jid
              /\ r.adopted = seen.adopted /\ r.target = seen.target /\ r.jt = seen.jt
          BY <3>1, StateKept
        <4>2. Proposal(rec) = r
          BY <2>1, <3>2
        <4> HIDE DEF r
        <4>3. Proven(seen)
          BY <1>7, <3>1, <3>2, SucceededProves
        <4>4. Proven(r)
          BY <4>1, <4>3 DEF Proven
        <4> QED
          BY <3>1, <4>1, <4>2, <4>4, FaithfulKept
      <3>3. CASE ~Succeeded(seen) /\ seen.st \in {"paused", "failed"}
        <4> DEFINE q == [seen EXCEPT !.st = "failed"]
        <4>1. Proposal(rec) = q
          BY <2>1, <3>3
        <4>2. /\ Sound(q) /\ q.st = "failed" /\ q.kind = seen.kind /\ q.jid = seen.jid
              /\ q.adopted = seen.adopted /\ q.target = seen.target /\ q.jt = seen.jt
          BY <3>1, StateKept, ZenonT(60)
        <4> HIDE DEF q
        <4> QED
          BY <3>1, <4>1, <4>2, FaithfulKept
      <3>4. CASE seen.st \notin {"paused", "failed"}
        BY <2>1, <3>1, <3>4
      <3> QED
        BY <3>2, <3>3, <3>4
    <2> QED
      BY <2>2, <2>3
  <1> QED
    BY <1>1, <1>6, <1>7

(***************************************************************************)
(* Receipts and jobs in a step that leaves directories alone.              *)
(***************************************************************************)
GoodCalls(c) ==
    /\ c \in [{"display", "handler"} -> Calls]
    /\ \A w \in {"display", "handler"} : GoodRec(c[w].rec)
    /\ c["handler"] = NoCall \/ c["handler"].rec.st = "running"

LEMMA NewReceipts ==
    ASSUME UNCHANGED <<dir, journal, done>>, NEW o, NEW f, NEW c,
           op' = o, opFile' = f, calls' = c, GoodRec(o), GoodRec(f), GoodCalls(c)
    PROVE  ReceiptShape' /\ ReceiptsTrue'
  <1>1. Faithful(o)' /\ Faithful(f)' /\ \A w \in {"display", "handler"} : Faithful(c[w].rec)'
    BY SameWorld DEF GoodRec, GoodCalls
  <1>2. ReceiptsTrue'
    BY <1>1 DEF ReceiptsTrue
  <1>3. ReceiptShape'
    BY DEF ReceiptShape, GoodRec, GoodCalls
  <1> QED
    BY <1>2, <1>3

LEMMA NewJobs ==
    ASSUME UNCHANGED <<dir, journal, done>>, NEW js, jobs' = js, js \subseteq Jobs,
           \A j \in js : GoodJob(j)
    PROVE  JobShape' /\ JobsTrue'
  <1>1. \A j \in js : GoodJob(j)'
    BY SameWorld DEF GoodJob, GoodRec
  <1> QED
    BY <1>1 DEF JobShape, JobsTrue, GoodJob, GoodRec

LEMMA StaleGood ==
    ASSUME NEW c, GoodCalls(c)
    PROVE  GoodCalls(Stale(c))
  <1>1. \A w \in {"display", "handler"} :
           /\ Stale(c)[w] \in Calls /\ Stale(c)[w].rec = c[w].rec
           /\ c[w] = NoCall => Stale(c)[w] = NoCall
    <2> TAKE w \in {"display", "handler"}
    <2> DEFINE b == (c[w] = NoCall)
    <2>1. b \in BOOLEAN /\ (c[w] = NoCall => b = TRUE)
      OBVIOUS
    <2>2. Stale(c)[w] = [c[w] EXCEPT !.fresh = b] /\ c[w] \in Calls
      BY DEF GoodCalls, Stale
    <2> HIDE DEF b
    <2>3. Stale(c)[w] \in Calls /\ Stale(c)[w].rec = c[w].rec
      BY <2>1, <2>2 DEF Calls
    <2>4. c[w] = NoCall => Stale(c)[w] = NoCall
      <3> SUFFICES ASSUME c[w] = NoCall PROVE Stale(c)[w] = NoCall
        OBVIOUS
      <3>1. Stale(c)[w] = [NoCall EXCEPT !.fresh = TRUE]
        BY <2>1, <2>2
      <3> QED
        BY <3>1 DEF NoCall
    <2> QED
      BY <2>3, <2>4
  <1>2. Stale(c) \in [{"display", "handler"} -> Calls]
    BY <1>1 DEF GoodCalls, Stale
  <1> QED
    BY <1>1, <1>2 DEF GoodCalls

LEMMA CallsGood == CompleteInv => GoodCalls(calls) /\ GoodRec(op) /\ GoodRec(opFile)
  BY DEF CompleteInv, Shape, ReceiptShape, CopiesTrue, ReceiptsTrue, GoodCalls, GoodRec

LEMMA CallEnds ==
    ASSUME NEW w \in {"display", "handler"}, NEW c, GoodCalls(c), OutsideShape
    PROVE  GoodCalls([c EXCEPT ![w] = NoCall])
  BY NoOpSound, NoOpFaithful DEF GoodCalls, GoodRec, NoCall

LEMMA CallBegins ==
    ASSUME NEW w \in {"display", "handler"}, NEW c, GoodCalls(c),
           NEW what \in {"refresh", "start"}, NEW rec, GoodRec(rec),
           w = "handler" => rec.st = "running"
    PROVE  GoodCalls([c EXCEPT ![w] = [what |-> what, rec |-> rec, fresh |-> TRUE]])
  BY DEF GoodCalls, GoodRec, Sound, Calls

\* A receipt put in place, with or without success.
LEMMA ReplaceGood ==
    ASSUME CompleteInv, UNCHANGED <<dir, journal, done>>, NEW rec, GoodRec(rec), NEW rest,
           GoodCalls(rest), Replace(rec, rest) \/ NotReplaced(rec, rest)
    PROVE  ReceiptShape' /\ ReceiptsTrue' /\ faults' \in Nat
  <1>1. GoodCalls(Stale(rest)) /\ GoodRec(op) /\ GoodRec(opFile)
    BY StaleGood, CallsGood
  <1>2. faults \in Nat
    BY DEF CompleteInv, Shape, RestShape
  <1>3. CASE Replace(rec, rest)
    BY <1>1, <1>2, <1>3, NewReceipts DEF Replace
  <1>4. CASE NotReplaced(rec, rest)
    <2>1. op' = op /\ calls' = rest /\ (opFile' = opFile \/ opFile' = rec)
      BY <1>4 DEF NotReplaced
    <2> QED
      BY <1>1, <1>2, <1>4, <2>1, NewReceipts DEF NotReplaced, Fault
  <1> QED
    BY <1>3, <1>4

LEMMA SameReceipts ==
    ASSUME CompleteInv, UNCHANGED <<dir, journal, done, op, opFile, calls>>
    PROVE  ReceiptShape' /\ ReceiptsTrue'
  BY CallsGood, NewReceipts

LEMMA SameJobs ==
    ASSUME CompleteInv, UNCHANGED <<dir, journal, done, jobs>>
    PROVE  JobShape' /\ JobsTrue'
  BY NewJobs DEF CompleteInv, CopiesTrue, JobsTrue, Shape, JobShape

\* A job moves on.
LEMMA JobGoes ==
    ASSUME CompleteInv, UNCHANGED <<dir, journal, done>>, NEW j \in jobs, NEW k,
           jobs' = (jobs \ {j}) \cup {k}, k \in Jobs, GoodJob(k)
    PROVE  JobShape' /\ JobsTrue'
  <1> DEFINE js == (jobs \ {j}) \cup {k}
  <1>1. jobs \subseteq Jobs /\ \A i \in jobs : GoodJob(i)
    BY DEF CompleteInv, CopiesTrue, JobsTrue, Shape, JobShape
  <1>2. jobs' = js /\ js \subseteq Jobs /\ \A i \in js : GoodJob(i)
    BY <1>1
  <1> HIDE DEF js
  <1> QED
    BY <1>2, NewJobs

LEMMA GoGood ==
    ASSUME CompleteInv, UNCHANGED <<dir, journal, done>>, NEW j \in jobs,
           NEW pc \in {"prepare", "ready", "blocked", "repair", "fail", "check", "launch",
                       "wait", "outcome", "save"}, Go(j, pc)
    PROVE  JobShape' /\ JobsTrue'
  <1> DEFINE k == [j EXCEPT !.pc = pc]
  <1>1. j \in Jobs /\ GoodJob(j)
    BY DEF CompleteInv, CopiesTrue, JobsTrue, Shape, JobShape
  <1>2. k \in Jobs /\ k.rec = j.rec /\ k.result = j.result /\ k.ok = j.ok
    BY <1>1 DEF Jobs
  <1>3. GoodJob(k)
    BY <1>1, <1>2 DEF GoodJob
  <1>4. jobs' = (jobs \ {j}) \cup {k}
    BY DEF Go
  <1> HIDE DEF k
  <1> QED
    BY <1>2, <1>3, <1>4, JobGoes

(***************************************************************************)
(* The display worker and the browser.                                     *)
(***************************************************************************)
\* What is left to show of a step that leaves directories alone.
LEMMA StepAside ==
    ASSUME CompleteInv, UNCHANGED <<cast, outside>>, ReceiptShape' /\ ReceiptsTrue',
           JobShape' /\ JobsTrue', SideShape',
           closing' \in BOOLEAN, drawn' \in Jids, faults' \in Nat
    PROVE  CompleteInv'
  BY SameOutside DEF CompleteInv, Shape, RestShape, CopiesTrue

LEMMA SameSide == CompleteInv /\ UNCHANGED <<sidecar, turns>> => SideShape'
  BY DEF CompleteInv, Shape, SideShape, sidecar

LEMMA RestGives == CompleteInv => /\ closing \in BOOLEAN /\ drawn \in Jids /\ faults \in Nat
                                  /\ cast \in Casts /\ drawn \in Nat
  BY Bounds DEF CompleteInv, Shape, RestShape, Jids

LEMMA RefreshReadStep == CompleteInv /\ RefreshRead => CompleteInv'
  <1> SUFFICES ASSUME CompleteInv, RefreshRead PROVE CompleteInv'
    OBVIOUS
  <1>1. PICK rec \in ({Proposal(op)} \cup (IF Proposal(op).st = "complete" THEN {NoOp} ELSE {}))
                     \ {op} :
           calls' = [calls EXCEPT !["display"] = [what |-> "refresh", rec |-> rec,
                                                  fresh |-> TRUE]]
    BY DEF RefreshRead
  <1>2. GoodRec(rec)
    <2>1. GoodRec(NoOp)
      BY NoOpSound, NoOpFaithful DEF GoodRec, CompleteInv, Shape
    <2>2. GoodRec(Proposal(op))
      BY ProposalFaithful, CallsGood DEF GoodRec, CompleteInv, Shape
    <2> QED
      BY <2>1, <2>2
  <1>3. GoodRec(op) /\ GoodRec(opFile)
    BY CallsGood
  <1>4. UNCHANGED <<cast, outside, op, opFile, jobs, sidecar, turns, closing, drawn, faults>>
    BY DEF RefreshRead
  <1> DEFINE c == [calls EXCEPT !["display"] = [what |-> "refresh", rec |-> rec, fresh |-> TRUE]]
  <1>5. calls' = c /\ GoodCalls(c)
    BY <1>1, <1>2, CallBegins, CallsGood
  <1> HIDE DEF c
  <1>6. ReceiptShape' /\ ReceiptsTrue'
    BY <1>3, <1>4, <1>5, NewReceipts DEF outside
  <1> QED
    BY <1>4, <1>6, SameJobs, SameSide, StepAside, RestGives DEF outside

LEMMA WithoutOpSide ==
    ASSUME CompleteInv, NEW rest, WithoutOp(rest), UNCHANGED turns
    PROVE  SideShape'
  BY NoSideShape DEF WithoutOp, CompleteInv, Shape, SideShape, sidecar

LEMMA RefreshAcceptStep == CompleteInv /\ RefreshAccept => CompleteInv'
  <1> SUFFICES ASSUME CompleteInv, RefreshAccept PROVE CompleteInv'
    OBVIOUS
  <1> DEFINE c == calls["display"]
             rest == [calls EXCEPT !["display"] = NoCall]
  <1>1. UNCHANGED <<cast, outside, jobs, turns, closing, drawn>>
    BY DEF RefreshAccept
  <1>2. GoodCalls(rest) /\ GoodRec(op) /\ GoodRec(opFile) /\ GoodRec(c.rec)
    BY CallEnds, CallsGood DEF CompleteInv, Shape, GoodCalls
  <1>3. GoodRec(NoOp)
    BY NoOpSound, NoOpFaithful DEF GoodRec, CompleteInv, Shape
  <1>4. \/ calls' = rest /\ UNCHANGED <<op, opFile, sidecar, faults>>
        \/ (Replace(c.rec, rest) \/ NotReplaced(c.rec, rest)) /\ UNCHANGED sidecar
        \/ WithoutOp(rest)
        \/ NotReplaced(NoOp, rest) /\ UNCHANGED sidecar
    BY DEF RefreshAccept
  <1> HIDE DEF c, rest
  <1>5. ReceiptShape' /\ ReceiptsTrue' /\ faults' \in Nat
    <2>1. CASE calls' = rest /\ UNCHANGED <<op, opFile, sidecar, faults>>
      BY <1>1, <1>2, <2>1, NewReceipts, RestGives DEF outside
    <2>2. CASE Replace(c.rec, rest) \/ NotReplaced(c.rec, rest)
      BY <1>1, <1>2, <2>2, ReplaceGood DEF outside
    <2>3. CASE WithoutOp(rest) \/ NotReplaced(NoOp, rest)
      BY <1>1, <1>2, <1>3, <2>3, ReplaceGood DEF outside, WithoutOp
    <2> QED
      BY <1>4, <2>1, <2>2, <2>3
  <1>6. SideShape'
    BY <1>1, <1>4, WithoutOpSide, SameSide
  <1> QED
    BY <1>1, <1>5, <1>6, SameJobs, StepAside, RestGives DEF outside

LEMMA DismissStep == CompleteInv /\ Dismiss => CompleteInv'
  <1> SUFFICES ASSUME CompleteInv, Dismiss PROVE CompleteInv'
    OBVIOUS
  <1>1. UNCHANGED <<cast, outside, jobs, turns, closing, drawn>>
    BY DEF Dismiss
  <1>2. WithoutOp(calls) \/ (NotReplaced(NoOp, calls) /\ UNCHANGED sidecar)
    BY DEF Dismiss
  <1>3. GoodRec(NoOp) /\ GoodCalls(calls)
    BY NoOpSound, NoOpFaithful, CallsGood DEF GoodRec, CompleteInv, Shape
  <1>4. ReceiptShape' /\ ReceiptsTrue' /\ faults' \in Nat
    BY <1>1, <1>2, <1>3, ReplaceGood DEF outside, WithoutOp
  <1>5. SideShape'
    BY <1>1, <1>2, WithoutOpSide, SameSide
  <1> QED
    BY <1>1, <1>4, <1>5, SameJobs, StepAside, RestGives DEF outside

LEMMA AskReadStep ==
    ASSUME CompleteInv, NEW ask \in cast.asks, AskRead(ask)
    PROVE  CompleteInv'
  <1> DEFINE rec == [NoOp EXCEPT !.st = "running", !.kind = KindOf(ask), !.mode = ModeOf(ask),
                                 !.jid = drawn + 1, !.attempt = 1, !.target = Target]
             c == [calls EXCEPT !["handler"] = [what |-> "start", rec |-> rec, fresh |-> TRUE]]
  <1>1. UNCHANGED <<cast, outside, op, opFile, jobs, sidecar, turns, closing, faults>>
    BY DEF AskRead
  <1>2. drawn' = drawn + 1 /\ drawn < cast.ops /\ Fits(KindOf(ask)) /\ calls' = c
    BY DEF AskRead
  <1>3. drawn + 1 \in Jids /\ drawn + 1 # 0
    BY <1>2, Bounds, RestGives DEF Jids
  <1>4. KindOf(ask) \in Kinds /\ ModeOf(ask) \in Modes /\ 1 \in 0..MaxAttempt
    BY Bounds, RestGives DEF KindOf, ModeOf, Kinds, Modes
  <1>5. Target \in Targets /\ Target # NoTarget /\ Target.ino = dir.ino
    BY <1>2, TargetShape DEF Fits, CompleteInv, Shape
  <1>6. /\ rec \in Ops /\ rec.st = "running" /\ rec.kind = KindOf(ask) /\ rec.jid = drawn + 1
        /\ ~rec.adopted /\ rec.target = Target
    BY <1>3, <1>4, <1>5, NoOpSound DEF Sound, Ops, NoOp
  <1>7. Sound(rec)
    BY <1>3, <1>4, <1>5, <1>6 DEF Sound
  <1>8. Faithful(rec)
    <2>1. rec.kind = "archive" => dir.root = "work"
      BY <1>2, <1>6 DEF Fits
    <2>2. rec.kind = "revive" => dir.root = "archive"
      BY <1>2, <1>6 DEF Fits
    <2>3. dir.ino \in Nat
      BY Bounds DEF CompleteInv, Shape, OutsideShape, Worlds
    <2> QED
      BY <1>5, <1>6, <2>1, <2>2, <2>3 DEF Faithful, Traced, Subject, Dest
  <1>9. GoodCalls(c) /\ GoodRec(op) /\ GoodRec(opFile)
    BY <1>6, <1>7, <1>8, CallBegins, CallsGood DEF GoodRec
  <1> HIDE DEF c, rec
  <1>10. ReceiptShape' /\ ReceiptsTrue'
    BY <1>1, <1>2, <1>9, NewReceipts DEF outside
  <1> QED
    BY <1>1, <1>2, <1>3, <1>10, SameJobs, SameSide, StepAside, RestGives DEF outside

LEMMA RetryReadStep == CompleteInv /\ RetryRead => CompleteInv'
  <1> SUFFICES ASSUME CompleteInv, RetryRead PROVE CompleteInv'
    OBVIOUS
  <1> DEFINE base == IF Pending THEN WithProgress(op, journal) ELSE op
             rec == [base EXCEPT !.st = "running", !.attempt = @ + 1]
             c == [calls EXCEPT !["handler"] = [what |-> "start", rec |-> rec, fresh |-> TRUE]]
  <1>1. UNCHANGED <<cast, outside, op, opFile, jobs, sidecar, turns, closing, drawn, faults>>
    BY DEF RetryRead
  <1>2. /\ op.attempt < cast.attempts /\ op.st \in {"failed", "paused"} /\ CanRetry(op)
        /\ calls' = c
    BY DEF RetryRead
  <1>3. GoodRec(op) /\ GoodRec(opFile) /\ GoodCalls(calls)
    BY CallsGood
  <1>4. /\ Sound(base) /\ base.kind = op.kind /\ base.jid = op.jid /\ base.adopted = op.adopted
        /\ base.target = op.target /\ base.jt = op.jt /\ base.attempt = op.attempt
        /\ base.st = op.st
    <2>1. CASE Pending
      BY <1>2, <1>3, <2>1, ProgressKept DEF CanRetry, GoodRec, CompleteInv, Shape
    <2>2. CASE ~Pending
      BY <1>3, <2>2 DEF GoodRec
    <2> QED
      BY <2>1, <2>2
  <1>5. base.attempt \in Nat /\ base.attempt + 1 \in 0..MaxAttempt
    BY <1>2, <1>4, Bounds, RestGives DEF Sound, Ops
  <1> HIDE DEF base
  <1>6. /\ rec \in Ops /\ rec.st = "running" /\ rec.kind = op.kind /\ rec.jid = op.jid
        /\ rec.adopted = op.adopted /\ rec.target = op.target /\ rec.jt = op.jt
        /\ rec.expected = base.expected
    BY <1>4, <1>5 DEF Sound, Ops
  <1> HIDE DEF rec
  <1>7. GoodRec(rec)
    <2>1. Faithful(rec)
      BY <1>3, <1>6, FaithfulKept DEF GoodRec
    <2>2. Sound(rec)
      BY <1>2, <1>3, <1>4, <1>6 DEF GoodRec, Sound
    <2> QED
      BY <2>1, <2>2 DEF GoodRec
  <1>8. GoodCalls(c)
    BY <1>3, <1>6, <1>7, CallBegins
  <1> HIDE DEF c
  <1>9. ReceiptShape' /\ ReceiptsTrue'
    BY <1>1, <1>2, <1>3, <1>8, NewReceipts DEF outside
  <1> QED
    BY <1>1, <1>9, SameJobs, SameSide, StepAside, RestGives DEF outside

LEMMA OtherState ==
    ASSUME NEW rec, GoodRec(rec), rec.st # "none", NEW st \in {"running", "paused", "failed"}
    PROVE  GoodRec([rec EXCEPT !.st = st])
  <1>1. Sound(rec) /\ Faithful(rec) /\ st \in {"running", "paused", "failed", "complete"}
        /\ st # "complete"
    BY DEF GoodRec
  <1> DEFINE q == [rec EXCEPT !.st = st]
  <1>2. /\ Sound(q) /\ q.st = st /\ q.kind = rec.kind /\ q.jid = rec.jid
        /\ q.adopted = rec.adopted /\ q.target = rec.target /\ q.jt = rec.jt
    BY <1>1, StateKept, ZenonT(60)
  <1> HIDE DEF q
  <1>3. Faithful(q)
    BY <1>1, <1>2, FaithfulKept
  <1> QED
    BY <1>2, <1>3 DEF GoodRec, q

LEMMA SideUpdated ==
    ASSUME CompleteInv, NEW p \in Sides, SideSaved(p) \/ SideNotSaved(p), UNCHANGED turns
    PROVE  SideShape' /\ faults' \in Nat
  <1>1. side \in Sides /\ sideFile \in Sides /\ faults \in Nat
    BY DEF CompleteInv, Shape, SideShape, RestShape
  <1>2. side' \in Sides /\ sideFile' \in Sides /\ faults' \in Nat
    BY <1>1 DEF SideSaved, SideNotSaved, Fault
  <1> QED
    BY <1>2 DEF SideShape, CompleteInv, Shape

LEMMA BegunShape ==
    ASSUME CompleteInv, NEW rec, Sound(rec)
    PROVE  Begun(rec) \in Sides
  <1> DEFINE p == [NoSide EXCEPT !.st = "checking", !.jid = rec.jid, !.attempt = rec.attempt,
                                 !.target = rec.target]
  <1>1. p \in Sides
    BY NoSideShape DEF NoSide, Sides, Sound, Ops
  <1>2. side \in Sides
    BY DEF CompleteInv, Shape, SideShape
  <1>3. Begun(rec) = IF side.jid = rec.jid /\ side.target = rec.target
                     THEN [p EXCEPT !.msg = side.msg, !.round = side.round] ELSE p
    BY DEF Begun
  <1> HIDE DEF p
  <1> QED
    BY <1>1, <1>2, <1>3 DEF Sides

LEMMA JobGood ==
    ASSUME NEW rec, GoodRec(rec), rec.st = "running"
    PROVE  Job(rec) \in Jobs /\ GoodJob(Job(rec))
  <1>1. Attempt(rec) \in Attempts
    BY DEF GoodRec, Sound, Ops, Attempt, Attempts
  <1>2. /\ Job(rec).rec = rec /\ Job(rec).result = rec /\ Job(rec).ok = FALSE
        /\ Job(rec).of = Attempt(rec) /\ Job(rec).pc \in {"prepare", "check"}
        /\ Job(rec) \in Jobs
    BY <1>1 DEF Job, Jobs, GoodRec, Sound
  <1> QED
    BY <1>2 DEF GoodJob

LEMMA StartInstallStep == CompleteInv /\ StartInstall => CompleteInv'
  <1> SUFFICES ASSUME CompleteInv, StartInstall PROVE CompleteInv'
    OBVIOUS
  <1> DEFINE c == calls["handler"]
             rec == c.rec
             rest == [calls EXCEPT !["handler"] = NoCall]
             prepares == rec.kind = "archive" /\ rec.mode = "archived" /\ ~rec.expected
  <1>1. UNCHANGED <<cast, outside, turns, closing, drawn>> /\ c # NoCall
    BY DEF StartInstall
  <1>2. \/ calls' = rest /\ UNCHANGED <<op, opFile, jobs, sidecar, faults>>
        \/ /\ IF prepares THEN side' = Begun(rec) /\ sideFile' = Begun(rec) ELSE UNCHANGED sidecar
           /\ \/ Replace(rec, rest) /\ jobs' = jobs \cup {Job(rec)}
              \/ NotReplaced(rec, rest) /\ UNCHANGED jobs
        \/ SideNotSaved(Begun(rec)) /\ calls' = rest /\ UNCHANGED <<op, opFile, jobs>>
    BY DEF StartInstall
  <1>3. GoodCalls(rest) /\ GoodRec(op) /\ GoodRec(opFile) /\ GoodRec(rec)
    BY CallEnds, CallsGood DEF CompleteInv, Shape, GoodCalls
  <1>4. rec.st = "running"
    BY <1>1, CallsGood DEF GoodCalls
  <1>5. Begun(rec) \in Sides
    BY <1>3, BegunShape DEF GoodRec
  <1> HIDE DEF c, rest, rec, prepares
  <1>6. ReceiptShape' /\ ReceiptsTrue' /\ faults' \in Nat
    <2>1. CASE calls' = rest /\ UNCHANGED <<op, opFile>>
      <3>1. faults' \in Nat
        BY <1>2, <2>1, RestGives DEF SideNotSaved, Fault, Replace, NotReplaced
      <3> QED
        BY <1>1, <1>3, <2>1, <3>1, NewReceipts DEF outside
    <2>2. CASE Replace(rec, rest) \/ NotReplaced(rec, rest)
      BY <1>1, <1>3, <2>2, ReplaceGood DEF outside
    <2> QED
      BY <1>2, <2>1, <2>2
  <1>7. JobShape' /\ JobsTrue'
    <2>1. CASE UNCHANGED jobs
      BY <1>1, <2>1, SameJobs DEF outside
    <2>2. CASE jobs' = jobs \cup {Job(rec)}
      <3>1. PICK k : k = Job(rec)
        OBVIOUS
      <3>2. k \in Jobs /\ GoodJob(k) /\ jobs' = jobs \cup {k}
        BY <1>3, <1>4, <2>2, <3>1, JobGood
      <3>3. jobs \subseteq Jobs /\ \A j \in jobs : GoodJob(j)
        BY DEF CompleteInv, CopiesTrue, JobsTrue, Shape, JobShape
      <3> DEFINE js == jobs \cup {k}
      <3>4. jobs' = js /\ js \subseteq Jobs /\ \A j \in js : GoodJob(j)
        BY <3>2, <3>3
      <3> HIDE DEF js
      <3> QED
        BY <1>1, <3>4, NewJobs DEF outside
    <2> QED
      BY <1>2, <2>1, <2>2
  <1>8. SideShape'
    <2>1. CASE UNCHANGED sidecar
      BY <1>1, <2>1, SameSide
    <2>2. CASE side' = Begun(rec) /\ sideFile' = Begun(rec)
      BY <1>1, <1>5, <2>2 DEF SideShape, CompleteInv, Shape
    <2>3. CASE SideNotSaved(Begun(rec))
      BY <1>1, <1>5, <2>3, SideUpdated
    <2> QED
      BY <1>2, <2>1, <2>2, <2>3
  <1> QED
    BY <1>1, <1>6, <1>7, <1>8, StepAside, RestGives

LEMMA SideStateShape ==
    ASSUME NEW p \in Sides, NEW st \in {"paused", "canceled", "failed", "archiving",
                                        "lead_fixing_blockers", "rechecking"}
    PROVE  [p EXCEPT !.st = st] \in Sides
  BY DEF Sides

LEMMA CancelStep == CompleteInv /\ Cancel => CompleteInv'
  <1> SUFFICES ASSUME CompleteInv, Cancel PROVE CompleteInv'
    OBVIOUS
  <1> DEFINE p == [side EXCEPT !.st = "canceled"]
             rec == [op EXCEPT !.st = "failed"]
  <1>1. UNCHANGED <<cast, outside, jobs, turns, closing, drawn>> /\ op.st # "none"
    BY DEF Cancel
  <1>2. \/ /\ side' = p /\ sideFile' = p
           /\ Replace(rec, calls) \/ NotReplaced(rec, calls)
        \/ SideNotSaved(p) /\ UNCHANGED <<op, opFile, calls>>
    BY DEF Cancel
  <1>3. p \in Sides
    BY SideStateShape DEF CompleteInv, Shape, SideShape
  <1>4. GoodRec(rec) /\ GoodCalls(calls)
    BY <1>1, CallsGood, OtherState
  <1> HIDE DEF p, rec
  <1>5. CASE side' = p /\ sideFile' = p /\ (Replace(rec, calls) \/ NotReplaced(rec, calls))
    <2>1. ReceiptShape' /\ ReceiptsTrue' /\ faults' \in Nat
      BY <1>1, <1>4, <1>5, ReplaceGood DEF outside
    <2>2. SideShape'
      BY <1>1, <1>3, <1>5 DEF SideShape, CompleteInv, Shape
    <2> QED
      BY <1>1, <2>1, <2>2, SameJobs, StepAside, RestGives DEF outside
  <1>6. CASE SideNotSaved(p) /\ UNCHANGED <<op, opFile, calls>>
    <2>1. SideShape' /\ faults' \in Nat
      BY <1>1, <1>3, <1>6, SideUpdated
    <2> QED
      BY <1>1, <1>6, <2>1, SameReceipts, SameJobs, StepAside, RestGives DEF outside
  <1> QED
    BY <1>2, <1>5, <1>6

LEMMA CloseStep == CompleteInv /\ Close => CompleteInv'
  <1> SUFFICES ASSUME CompleteInv, Close PROVE CompleteInv'
    OBVIOUS
  <1> DEFINE p == [side EXCEPT !.st = "paused"]
             rec == [op EXCEPT !.st = "failed"]
  <1>1. UNCHANGED <<cast, outside, jobs, turns, drawn>> /\ closing' = TRUE /\ Fault
    BY DEF Close
  <1>2. p \in Sides /\ side \in Sides /\ sideFile \in Sides
    BY SideStateShape DEF CompleteInv, Shape, SideShape
  <1>3. side' \in Sides /\ sideFile' \in Sides
    <2>1. \/ side' = p /\ sideFile' = p
          \/ sideFile' \in {sideFile, p} /\ UNCHANGED side
          \/ UNCHANGED sidecar
      BY DEF Close
    <2> HIDE DEF p
    <2> QED
      BY <1>2, <2>1 DEF sidecar
  <1>4. SideShape'
    BY <1>1, <1>3 DEF SideShape, CompleteInv, Shape
  <1>5. \/ op' = op /\ opFile' = opFile /\ calls' = calls
        \/ /\ op.st # "none"
           /\ \/ op' = rec /\ opFile' = rec /\ calls' = Stale(calls)
              \/ op' = op /\ (opFile' = opFile \/ opFile' = rec) /\ calls' = calls
    BY DEF Close
  <1>6. op.st # "none" => GoodRec(rec)
    BY CallsGood, OtherState
  <1>7. GoodCalls(calls) /\ GoodCalls(Stale(calls)) /\ GoodRec(op) /\ GoodRec(opFile)
    BY CallsGood, StaleGood
  <1> HIDE DEF rec
  <1>8. ReceiptShape' /\ ReceiptsTrue'
    BY <1>1, <1>5, <1>6, <1>7, NewReceipts DEF outside
  <1>9. faults' \in Nat
    BY <1>1, RestGives DEF Fault
  <1> QED
    BY <1>1, <1>4, <1>8, <1>9, SameJobs, StepAside, RestGives DEF outside

(***************************************************************************)
(* Preparation.                                                            *)
(***************************************************************************)
\* A step of the preparation of job j that may save sidecar p.
LEMMA PrepareStep ==
    ASSUME CompleteInv, NEW j \in jobs,
           NEW pc \in {"prepare", "ready", "blocked", "repair", "fail", "check", "outcome"},
           Go(j, pc), NEW p \in Sides,
           SideSaved(p) \/ SideNotSaved(p) \/ UNCHANGED <<sidecar, faults>>,
           turns' \in [Jids \X (1..MaxRound) -> {"none", "running", "done", "bad"}],
           UNCHANGED <<cast, outside, receipts, closing, drawn>>
    PROVE  CompleteInv'
  <1>1. side \in Sides /\ sideFile \in Sides /\ faults \in Nat
    BY DEF CompleteInv, Shape, SideShape, RestShape
  <1>2. side' \in Sides /\ sideFile' \in Sides /\ faults' \in Nat
    BY <1>1 DEF SideSaved, SideNotSaved, Fault, sidecar
  <1>3. SideShape'
    BY <1>2 DEF SideShape
  <1>4. JobShape' /\ JobsTrue'
    BY GoGood DEF outside
  <1> QED
    BY <1>2, <1>3, <1>4, SameReceipts, StepAside, RestGives DEF outside, receipts

LEMMA TurnsShape ==
    CompleteInv => turns \in [Jids \X (1..MaxRound) -> {"none", "running", "done", "bad"}]
  BY DEF CompleteInv, Shape, SideShape

LEMMA AcceptedShape ==
    CompleteInv =>
        Accepted(side) \in [Jids \X (1..MaxRound) -> {"none", "running", "done", "bad"}]
  BY TurnsShape DEF Accepted

LEMMA SideFields ==
    ASSUME CompleteInv
    PROVE  /\ side \in Sides /\ Stuck \in 0..MaxStuck
           /\ \A stuck \in 0..MaxStuck : [side EXCEPT !.stuck = stuck] \in Sides
           /\ [side EXCEPT !.failures = 0] \in Sides
           /\ [side EXCEPT !.failures = @ + 1] \in Sides
           /\ [[side EXCEPT !.failures = 0] EXCEPT !.msg = FALSE, !.st = "rechecking"] \in Sides
           /\ side.round < MaxRound =>
                 [side EXCEPT !.round = @ + 1, !.msg = TRUE, !.st = "lead_fixing_blockers"]
                    \in Sides
  <1>1. side \in Sides
    BY DEF CompleteInv, Shape, SideShape
  <1>2. /\ side.stuck \in 0..MaxStuck /\ side.round \in 0..MaxRound /\ side.failures \in Nat
    BY <1>1 DEF Sides
  <1>3. Stuck \in 0..MaxStuck
    BY <1>2, Bounds DEF Stuck
  <1>4. side.round < MaxRound => side.round + 1 \in 0..MaxRound
    BY <1>2, Bounds
  <1>5. /\ \A stuck \in 0..MaxStuck : [side EXCEPT !.stuck = stuck] \in Sides
        /\ [side EXCEPT !.failures = 0] \in Sides
        /\ [side EXCEPT !.failures = @ + 1] \in Sides
    BY <1>1, <1>2 DEF Sides
  <1>6. /\ [[side EXCEPT !.failures = 0] EXCEPT !.msg = FALSE, !.st = "rechecking"] \in Sides
        /\ side.round < MaxRound =>
              [side EXCEPT !.round = @ + 1, !.msg = TRUE, !.st = "lead_fixing_blockers"] \in Sides
    BY <1>1, <1>4 DEF Sides
  <1> QED
    BY <1>1, <1>3, <1>5, <1>6

LEMMA PrepCheckStep ==
    ASSUME CompleteInv, NEW j \in jobs, PrepCheck(j)
    PROVE  CompleteInv'
  <1>1. UNCHANGED <<cast, outside, receipts, turns, closing, drawn>>
    BY DEF PrepCheck
  <1>2. PICK stuck \in {0} \cup (IF side.round = 0 THEN {} ELSE {Stuck}) :
          LET p == [side EXCEPT !.stuck = stuck] IN
          \/ stuck = 0 /\ Update(j, p, "ready")
          \/ Update(j, p, IF stuck >= MaxStuck THEN "fail" ELSE "blocked")
          \/ Left(j, p)
    BY DEF PrepCheck
  <1> DEFINE p == [side EXCEPT !.stuck = stuck]
  <1>3. stuck \in 0..MaxStuck
    BY SideFields, Bounds
  <1>4. p \in Sides
    BY <1>3, SideFields
  <1>5. PICK pc \in {"ready", "fail", "blocked", "outcome"} :
           Go(j, pc) /\ (SideSaved(p) \/ SideNotSaved(p))
    BY <1>2 DEF Update, Left
  <1> HIDE DEF p
  <1> QED
    BY <1>1, <1>4, <1>5, PrepareStep, TurnsShape

LEMMA PrepReadyStep ==
    ASSUME CompleteInv, NEW j \in jobs, PrepReady(j)
    PROVE  CompleteInv'
  <1> DEFINE p == [side EXCEPT !.st = "archiving"]
  <1>1. UNCHANGED <<cast, outside, receipts, turns, closing, drawn>>
    BY DEF PrepReady
  <1>2. PICK pc \in {"check", "outcome"} : Go(j, pc) /\ (SideSaved(p) \/ SideNotSaved(p))
    BY DEF PrepReady, Update, Left
  <1>3. p \in Sides
    BY SideFields, SideStateShape
  <1> HIDE DEF p
  <1> QED
    BY <1>1, <1>2, <1>3, PrepareStep, TurnsShape

LEMMA PrepComposeStep ==
    ASSUME CompleteInv, NEW j \in jobs, PrepCompose(j)
    PROVE  CompleteInv'
  <1> DEFINE p == [side EXCEPT !.round = @ + 1, !.msg = TRUE, !.st = "lead_fixing_blockers"]
  <1>1. UNCHANGED <<cast, outside, receipts, turns, closing, drawn>>
    BY DEF PrepCompose
  <1>2. PICK pc \in {"prepare", "fail"} : Go(j, pc) /\ (SideSaved(p) \/ SideNotSaved(p))
    BY DEF PrepCompose, Admit
  <1>3. p \in Sides
    BY SideFields DEF PrepCompose
  <1> HIDE DEF p
  <1> QED
    BY <1>1, <1>2, <1>3, PrepareStep, TurnsShape

LEMMA PrepRepairStep ==
    ASSUME CompleteInv, NEW j \in jobs, PrepRepair(j)
    PROVE  CompleteInv'
  <1> DEFINE p == [side EXCEPT !.st = "lead_fixing_blockers"]
  <1>1. UNCHANGED <<cast, outside, receipts, closing, drawn>> /\ turns' = Accepted(side)
    BY DEF PrepRepair
  <1>2. PICK pc \in {"repair", "fail"} : Go(j, pc) /\ (SideSaved(p) \/ SideNotSaved(p))
    BY DEF PrepRepair, Admit
  <1>3. p \in Sides
    BY SideFields, SideStateShape
  <1> HIDE DEF p
  <1> QED
    BY <1>1, <1>2, <1>3, PrepareStep, AcceptedShape

LEMMA PrepTurnStep ==
    ASSUME CompleteInv, NEW j \in jobs, PrepTurn(j)
    PROVE  CompleteInv'
  <1> DEFINE polled == [side EXCEPT !.failures = 0]
             p == IF turns[Turn(side)] = "done"
                  THEN [polled EXCEPT !.msg = FALSE, !.st = "rechecking"] ELSE polled
  <1>1. UNCHANGED <<cast, outside, receipts, turns, closing, drawn>>
    BY DEF PrepTurn
  <1>2. PICK pc \in {"prepare", "outcome"} : Go(j, pc) /\ (SideSaved(p) \/ SideNotSaved(p))
    BY DEF PrepTurn, Update, Left
  <1>3. p \in Sides
    BY SideFields
  <1> HIDE DEF p
  <1> QED
    BY <1>1, <1>2, <1>3, PrepareStep, TurnsShape

LEMMA PrepUnknownStep ==
    ASSUME CompleteInv, NEW j \in jobs, PrepUnknown(j)
    PROVE  CompleteInv'
  <1> DEFINE p == [side EXCEPT !.failures = @ + 1]
  <1>1. UNCHANGED <<cast, outside, receipts, closing, drawn>>
    BY DEF PrepUnknown
  <1>2. turns' \in [Jids \X (1..MaxRound) -> {"none", "running", "done", "bad"}]
    BY TurnsShape, AcceptedShape DEF PrepUnknown
  <1>3. PICK pc \in {"prepare", "fail", "outcome"} :
           /\ Go(j, pc) /\ Fault
           /\ \/ side' = p /\ sideFile' = p
              \/ UNCHANGED side /\ sideFile' \in {sideFile, p}
    BY DEF PrepUnknown
  <1>4. p \in Sides
    BY SideFields
  <1> HIDE DEF p
  <1>5. side \in Sides /\ sideFile \in Sides /\ faults \in Nat
    BY DEF CompleteInv, Shape, SideShape, RestShape
  <1>6. SideShape' /\ faults' \in Nat
    BY <1>2, <1>3, <1>4, <1>5 DEF SideShape, Fault
  <1>7. JobShape' /\ JobsTrue'
    BY <1>1, <1>3, GoGood DEF outside
  <1> QED
    BY <1>1, <1>6, <1>7, SameReceipts, StepAside, RestGives DEF outside, receipts

LEMMA PrepRefusedStep ==
    ASSUME CompleteInv, NEW j \in jobs, PrepRefused(j)
    PROVE  CompleteInv'
  BY PrepareStep, TurnsShape, SideFields DEF PrepRefused

LEMMA PrepFailStep ==
    ASSUME CompleteInv, NEW j \in jobs, PrepFail(j)
    PROVE  CompleteInv'
  <1> DEFINE p == [side EXCEPT !.st = "failed"]
  <1>1. UNCHANGED <<cast, outside, receipts, turns, closing, drawn>>
    BY DEF PrepFail
  <1>2. /\ Go(j, "outcome")
        /\ SideSaved(p) \/ SideNotSaved(p) \/ UNCHANGED <<sidecar, faults>>
    BY DEF PrepFail, Update, Left
  <1>3. p \in Sides
    BY SideFields, SideStateShape
  <1> HIDE DEF p
  <1> QED
    BY <1>1, <1>2, <1>3, PrepareStep, TurnsShape

(***************************************************************************)
(* The command and its outcome.                                            *)
(***************************************************************************)
\* A process that has not run, or has ended without success.
Idle(p) == /\ p \in Procs /\ p.jid # 0 /\ p.st \in {"queued", "bad"}
           /\ p.by = "unit" => p.kind = "archive"

LEMMA NewProcs ==
    ASSUME CompleteInv, UNCHANGED <<dir, journal, removed, done>>, NEW ps, procs' = ps,
           \A p \in ps : p \in procs \/ Idle(p)
    PROVE  OutsideShape' /\ WorldTrue'
  <1>1. OutsideShape /\ WorldTrue
    BY DEF CompleteInv, Shape
  <1>2. OutsideShape'
    BY <1>1 DEF OutsideShape, Pending, Idle
  <1>3. \A p \in ps : p.st \in {"running", "ok"} => p \in procs
    BY DEF Idle
  <1>4. \A p \in ps : p.by = "unit" => p.kind = "archive"
    BY <1>1 DEF WorldTrue, Idle
  <1>5. WorldTrue'
    BY <1>1, <1>3, <1>4 DEF WorldTrue, Pending, Finished
  <1> QED
    BY <1>2, <1>5

\* A step of the processes and of the jobs.
LEMMA StepOutside ==
    ASSUME CompleteInv, UNCHANGED <<cast, receipts, sidecar, turns, closing, drawn>>,
           UNCHANGED <<dir, journal, done>>, OutsideShape' /\ WorldTrue',
           JobShape' /\ JobsTrue', faults' \in Nat
    PROVE  CompleteInv'
  <1>1. ReceiptShape' /\ ReceiptsTrue'
    BY SameReceipts DEF receipts
  <1>2. SideShape'
    BY SameSide
  <1> QED
    BY <1>1, <1>2 DEF CompleteInv, Shape, RestShape, CopiesTrue

LEMMA JobFields ==
    ASSUME CompleteInv, NEW j \in jobs
    PROVE  /\ j \in Jobs /\ GoodJob(j) /\ GoodRec(j.rec) /\ j.rec.jid # 0
           /\ j.rec.kind \in Kinds /\ j.rec.jid \in Jids /\ j.rec.mode \in Modes
           /\ j.rec.st = "running" /\ Sound(j.rec) /\ Faithful(j.rec)
  <1>1. j \in Jobs /\ GoodJob(j)
    BY DEF CompleteInv, CopiesTrue, JobsTrue, Shape, JobShape
  <1> QED
    BY <1>1 DEF GoodJob, GoodRec, Sound, Ops

LEMMA CommandShape ==
    ASSUME CompleteInv, NEW j \in jobs, NEW by \in {"job", "unit"}, NEW of \in Attempts
    PROVE  LET p == Command(j.rec, by, of) IN
           /\ p \in Procs /\ p.jid = j.rec.jid /\ p.kind = j.rec.kind /\ p.st = "queued"
           /\ p.by = by /\ p.of = of
  <1>1. NoTarget \in Targets
    BY TargetShape DEF CompleteInv, Shape
  <1> QED
    BY <1>1, JobFields DEF Command, Procs

LEMMA ExecCheckStep ==
    ASSUME CompleteInv, NEW j \in jobs, ExecCheck(j)
    PROVE  CompleteInv'
  <1>1. Go(j, "launch") \/ Go(j, "outcome")
    BY DEF ExecCheck
  <1>2. UNCHANGED <<cast, outside, receipts, sidecar, turns, closing, drawn, faults>>
    BY DEF ExecCheck
  <1> QED
    BY <1>1, <1>2, PrepareStep, TurnsShape, SideFields, GoGood, StepAside, SameReceipts,
       SameSide, RestGives DEF outside, receipts

LEMMA LaunchStep ==
    ASSUME CompleteInv, NEW j \in jobs, Launch(j)
    PROVE  CompleteInv'
  <1> DEFINE unit == Command(j.rec, "unit", Attempt(op))
             own == Command(j.rec, "job", j.of)
             k == [j EXCEPT !.pc = "wait", !.of = Attempt(op)]
  <1>1. UNCHANGED <<cast, dir, journal, removed, done, receipts, sidecar, turns, closing, drawn>>
    BY DEF Launch
  <1>2. Attempt(op) \in Attempts
    BY DEF CompleteInv, Shape, ReceiptShape, Sound, Ops, Attempt, Attempts
  <1>3. j \in Jobs /\ GoodJob(j) /\ j.rec.jid # 0 /\ j.of \in Attempts
    BY JobFields DEF Jobs
  <1>4. k \in Jobs /\ GoodJob(k)
    <2>1. k \in Jobs /\ k.rec = j.rec /\ k.result = j.result /\ k.ok = j.ok
      BY <1>2, <1>3 DEF Jobs
    <2> QED
      BY <1>3, <2>1 DEF GoodJob
  <1>5. Supervised(j.rec) => Idle(unit)
    BY <1>2, <1>3, CommandShape DEF Idle, Supervised
  <1>6. Idle(own)
    BY <1>3, CommandShape DEF Idle
  <1>7. \/ Go(j, "wait") /\ procs' = procs \cup {own} /\ faults' = faults
        \/ /\ Supervised(j.rec) /\ procs' = procs \cup {unit} /\ faults' = faults
           /\ jobs' = (jobs \ {j}) \cup {k}
        \/ Go(j, "outcome") /\ UNCHANGED <<procs, faults>>
        \/ /\ Supervised(j.rec) /\ Go(j, "outcome") /\ Fault
           /\ procs' = procs \/ procs' = procs \cup {unit}
    BY DEF Launch
  <1> HIDE DEF unit, own, k
  <1>8. JobShape' /\ JobsTrue'
    <2>1. CASE jobs' = (jobs \ {j}) \cup {k}
      BY <1>1, <1>4, <2>1, JobGoes
    <2>2. CASE Go(j, "wait") \/ Go(j, "outcome")
      BY <1>1, <2>2, GoGood
    <2> QED
      BY <1>7, <2>1, <2>2
  <1>9. OutsideShape' /\ WorldTrue'
    <2>1. \A p \in procs' : p \in procs \/ Idle(p)
      BY <1>5, <1>6, <1>7
    <2>2. PICK ps : ps = procs'
      OBVIOUS
    <2> QED
      BY <1>1, <2>1, <2>2, NewProcs
  <1>10. faults' \in Nat
    BY <1>7, RestGives DEF Fault
  <1> QED
    BY <1>1, <1>8, <1>9, <1>10, StepOutside

LEMMA MineIsOwn ==
    ASSUME NEW j, NEW p \in Mine(j)
    PROVE  p \in procs /\ p.kind = j.rec.kind /\ p.jid = j.rec.jid
  BY DEF Mine, Command

LEMMA WaitStep ==
    ASSUME CompleteInv, NEW j \in jobs, Wait(j)
    PROVE  CompleteInv'
  <1>1. UNCHANGED <<cast, dir, journal, removed, done, receipts, sidecar, turns, closing, drawn>>
    BY DEF Wait
  <1>2. PICK p \in Mine(j) :
          \/ /\ p.st \in {"ok", "bad"} /\ UNCHANGED faults
             /\ jobs' = (jobs \ {j}) \cup {[j EXCEPT !.pc = "outcome", !.ok = (p.st = "ok")]}
             /\ procs' = IF p.by = "job" THEN procs \ {p} ELSE procs
          \/ /\ p.by = "unit" /\ Fault /\ Go(j, "outcome") /\ UNCHANGED procs
    BY DEF Wait
  <1>3. p \in procs /\ p.kind = j.rec.kind /\ p.jid = j.rec.jid
    BY MineIsOwn
  <1>4. JobShape' /\ JobsTrue'
    <2>1. CASE Go(j, "outcome")
      BY <1>1, <2>1, GoGood
    <2>2. CASE /\ p.st \in {"ok", "bad"}
               /\ jobs' = (jobs \ {j}) \cup {[j EXCEPT !.pc = "outcome", !.ok = (p.st = "ok")]}
      <3> DEFINE ok == (p.st = "ok")
                 k == [j EXCEPT !.pc = "outcome", !.ok = ok]
      <3>1. ok \in BOOLEAN
        OBVIOUS
      <3>2. ok => Finished(j.rec)
        BY <1>3 DEF CompleteInv, WorldTrue, Finished
      <3>3. jobs' = (jobs \ {j}) \cup {k}
        BY <2>2
      <3>4. j \in Jobs /\ GoodJob(j)
        BY JobFields
      <3> HIDE DEF ok
      <3>5. k \in Jobs /\ k.rec = j.rec /\ k.result = j.result /\ k.ok = ok
        BY <3>1, <3>4 DEF Jobs
      <3>6. GoodJob(k)
        BY <3>2, <3>4, <3>5 DEF GoodJob
      <3> HIDE DEF k
      <3> QED
        BY <1>1, <3>3, <3>5, <3>6, JobGoes
    <2> QED
      BY <1>2, <2>1, <2>2
  <1>5. OutsideShape' /\ WorldTrue'
    <2>1. procs' \subseteq procs
      BY <1>2
    <2>2. PICK ps : ps = procs'
      OBVIOUS
    <2> QED
      BY <1>1, <2>1, <2>2, NewProcs
  <1>6. faults' \in Nat
    BY <1>2, RestGives DEF Fault
  <1> QED
    BY <1>1, <1>4, <1>5, <1>6, StepOutside

LEMMA FinishedProves == \A rec : Finished(rec) => Proven(rec)
  BY DEF Finished, Proven

LEMMA OutcomeStep ==
    ASSUME CompleteInv, NEW j \in jobs, Outcome(j)
    PROVE  CompleteInv'
  <1> DEFINE failed == [j.rec EXCEPT !.st = "failed"]
             known == Pending /\ journal.kind = failed.kind /\ journal.jid = failed.jid
                      /\ EvidenceMatches(failed, journal)
             won == [j.rec EXCEPT !.st = "complete"]
             followed == BindTarget(WithProgress(failed, journal))
             result == IF j.ok THEN won ELSE IF known THEN followed ELSE failed
             k == [j EXCEPT !.pc = "save", !.result = result]
  <1>1. UNCHANGED <<cast, outside, receipts, sidecar, turns, closing, drawn, faults>>
    BY DEF Outcome
  <1>2. jobs' = (jobs \ {j}) \cup {k}
    BY DEF Outcome
  <1>3. j \in Jobs /\ GoodJob(j) /\ j.rec.st = "running" /\ Sound(j.rec) /\ Faithful(j.rec)
    BY JobFields
  <1>4. ASSUME j.ok PROVE GoodRec(won)
    <2>1. /\ Sound(won) /\ won.st = "complete" /\ won.kind = j.rec.kind /\ won.jid = j.rec.jid
          /\ won.adopted = j.rec.adopted /\ won.target = j.rec.target /\ won.jt = j.rec.jt
      BY <1>3, StateKept
    <2> HIDE DEF won
    <2>2. Finished(won)
      BY <1>3, <1>4, <2>1 DEF GoodJob, Finished
    <2> QED
      BY <1>3, <2>1, <2>2, FinishedProves, FaithfulKept DEF GoodRec
  <1>5. /\ GoodRec(failed) /\ failed.st = "failed" /\ failed.kind = j.rec.kind
        /\ failed.jid = j.rec.jid
    BY <1>3, OtherState, StateKept DEF GoodRec
  <1> HIDE DEF failed
  <1>6. ASSUME known PROVE GoodRec(followed)
    <2> DEFINE next == WithProgress(failed, journal)
    <2>1. OutsideShape /\ WorldTrue /\ Pending /\ failed.jid = journal.jid
          /\ failed.kind = journal.kind
      BY <1>6 DEF CompleteInv, Shape
    <2>2. /\ Sound(next) /\ next.st = "failed" /\ next.kind = failed.kind
          /\ next.jid = failed.jid /\ next.adopted = failed.adopted
          /\ next.target = failed.target /\ next.jt = failed.jt
      BY <1>5, <2>1, ProgressKept DEF GoodRec
    <2> HIDE DEF next
    <2>3. Faithful(next)
      BY <1>5, <2>2, FaithfulKept DEF GoodRec
    <2> QED
      BY <2>1, <2>2, <2>3, BoundKept DEF GoodRec, next
  <1>7. GoodRec(result)
    BY <1>4, <1>5, <1>6
  <1> HIDE DEF result
  <1>8. k \in Jobs /\ k.rec = j.rec /\ k.result = result /\ k.ok = j.ok
    BY <1>3, <1>7 DEF Jobs, GoodRec, Sound
  <1>9. GoodJob(k)
    BY <1>3, <1>7, <1>8 DEF GoodJob
  <1> HIDE DEF k
  <1>10. JobShape' /\ JobsTrue'
    BY <1>1, <1>2, <1>8, <1>9, JobGoes DEF outside
  <1> QED
    BY <1>1, <1>10, StepAside, SameReceipts, SameSide, RestGives DEF outside, receipts

LEMMA SaveOutcomeStep ==
    ASSUME CompleteInv, NEW j \in jobs, SaveOutcome(j)
    PROVE  CompleteInv'
  <1> DEFINE rec == j.result
             failed == [op EXCEPT !.st = "failed"]
             current == op.st # "none" /\ Attempt(op) = Attempt(rec)
  <1>1. UNCHANGED <<cast, outside, sidecar, turns, closing, drawn>> /\ jobs' = jobs \ {j}
    BY DEF SaveOutcome
  <1>2. GoodRec(rec) /\ GoodRec(op) /\ GoodRec(opFile)
        /\ GoodCalls(calls) /\ GoodCalls(Stale(calls))
    BY JobFields, CallsGood, StaleGood DEF GoodJob
  <1>3. op.st # "none" => GoodRec(failed)
    BY <1>2, OtherState
  <1>4. \/ UNCHANGED <<op, opFile, calls, faults>>
        \/ Replace(rec, calls)
        \/ /\ op.st # "none" /\ op' = failed /\ calls' = Stale(calls)
           /\ \/ UNCHANGED <<opFile, faults>>
              \/ Fault /\ (opFile' = opFile \/ opFile' = rec)
    BY DEF SaveOutcome
  <1> HIDE DEF failed, rec
  <1>5. ReceiptShape' /\ ReceiptsTrue' /\ faults' \in Nat
    <2>1. CASE UNCHANGED <<op, opFile, calls, faults>>
      BY <1>1, <2>1, SameReceipts, RestGives DEF outside
    <2>2. CASE Replace(rec, calls)
      BY <1>1, <1>2, <2>2, ReplaceGood DEF outside
    <2>3. CASE /\ op.st # "none" /\ op' = failed /\ calls' = Stale(calls)
               /\ \/ UNCHANGED <<opFile, faults>>
                  \/ Fault /\ (opFile' = opFile \/ opFile' = rec)
      <3>1. ReceiptShape' /\ ReceiptsTrue'
        BY <1>1, <1>2, <1>3, <2>3, NewReceipts DEF outside
      <3> QED
        BY <2>3, <3>1, RestGives DEF Fault
    <2> QED
      BY <1>4, <2>1, <2>2, <2>3
  <1>6. JobShape' /\ JobsTrue'
    <2> DEFINE js == jobs \ {j}
    <2>1. js \subseteq Jobs /\ \A i \in js : GoodJob(i)
      BY DEF CompleteInv, CopiesTrue, JobsTrue, Shape, JobShape
    <2>2. jobs' = js
      BY <1>1
    <2> HIDE DEF js
    <2> QED
      BY <1>1, <2>1, <2>2, NewJobs DEF outside
  <1> QED
    BY <1>1, <1>5, <1>6, SameSide, StepAside, RestGives

LEMMA CanceledStep ==
    ASSUME CompleteInv, NEW j \in jobs, Canceled(j)
    PROVE  CompleteInv'
  <1>1. /\ UNCHANGED <<cast, dir, journal, removed, done, receipts, sidecar, turns, closing,
                       drawn, faults>>
        /\ Go(j, "outcome") /\ procs' \subseteq procs
    BY DEF Canceled
  <1>2. OutsideShape' /\ WorldTrue'
    <2>1. PICK ps : ps = procs'
      OBVIOUS
    <2> QED
      BY <1>1, <2>1, NewProcs
  <1>3. JobShape' /\ JobsTrue'
    BY <1>1, GoGood
  <1> QED
    BY <1>1, <1>2, <1>3, StepOutside, RestGives

(***************************************************************************)
(* dev-session, the lead and the terminal.                                 *)
(***************************************************************************)
LEMMA ProcDieStep ==
    ASSUME CompleteInv, NEW p \in procs, ProcDie(p)
    PROVE  CompleteInv'
  <1>1. UNCHANGED <<cast, dir, journal, removed, done, receipts, jobs, sidecar, turns, closing,
                    drawn, faults>> /\ Set(p, "bad")
    BY DEF ProcDie
  <1> DEFINE q == [p EXCEPT !.st = "bad"]
  <1>2. p \in Procs /\ p.jid # 0 /\ (p.by = "unit" => p.kind = "archive")
    BY DEF CompleteInv, Shape, OutsideShape, WorldTrue
  <1>3. Idle(q)
    BY <1>2 DEF Idle, Procs
  <1>4. \A r \in procs' : r \in procs \/ r = q
    BY <1>1 DEF Set
  <1> HIDE DEF q
  <1>5. PICK ps : ps = procs'
    OBVIOUS
  <1>6. OutsideShape' /\ WorldTrue'
    BY <1>1, <1>3, <1>4, <1>5, NewProcs
  <1> QED
    BY <1>1, <1>6, StepOutside, SameJobs, RestGives

LEMMA LeadFinishesStep ==
    ASSUME CompleteInv, NEW t \in DOMAIN turns, LeadFinishes(t)
    PROVE  CompleteInv'
  <1>1. UNCHANGED <<cast, outside, receipts, jobs, sidecar, closing, drawn, faults>>
    BY DEF LeadFinishes
  <1>2. PICK st \in {"done", "bad"} : turns' = [turns EXCEPT ![t] = st]
    BY DEF LeadFinishes
  <1>3. SideShape'
    BY <1>1, <1>2 DEF CompleteInv, Shape, SideShape, sidecar
  <1> QED
    BY <1>1, <1>3, StepAside, SameReceipts, SameJobs, RestGives DEF outside, receipts

LEMMA TerminalStep ==
    ASSUME CompleteInv, NEW kind \in Kinds, Terminal(kind)
    PROVE  CompleteInv'
  <1> DEFINE resumes == Pending /\ journal.kind = kind
             p == [by |-> "terminal", of |-> <<0, FALSE, 0>>, kind |-> kind,
                   jid |-> IF resumes THEN journal.jid ELSE drawn + 1,
                   mode |-> IF resumes THEN journal.mode ELSE "complete",
                   target |-> IF resumes THEN NoTarget ELSE Target, st |-> "queued"]
  <1>1. /\ UNCHANGED <<cast, dir, journal, removed, done, receipts, jobs, sidecar, turns,
                       closing, faults>>
        /\ procs' = procs \cup {p} /\ drawn' = IF resumes THEN drawn ELSE drawn + 1
        /\ ~resumes => drawn < cast.ops
    BY DEF Terminal
  <1>2. ~resumes => drawn + 1 \in Jids /\ drawn + 1 # 0
    BY <1>1, Bounds, RestGives DEF Jids
  <1>3. resumes => journal.jid \in Jids /\ journal.jid # 0 /\ journal.mode \in Modes
    BY DEF CompleteInv, Shape, OutsideShape, Journals
  <1>4. <<0, FALSE, 0>> \in Attempts /\ Target \in Targets /\ NoTarget \in Targets
    <2>1. 0 \in Jids /\ 0 \in 0..MaxAttempt
      BY Bounds DEF Jids
    <2>2. OutsideShape
      BY DEF CompleteInv, Shape
    <2> QED
      BY <2>1, <2>2, TargetShape DEF Attempts
  <1>5. p \in Procs /\ p.jid # 0 /\ p.st = "queued" /\ p.by = "terminal"
    BY <1>2, <1>3, <1>4 DEF Procs, Modes
  <1>6. Idle(p)
    BY <1>5 DEF Idle
  <1> HIDE DEF p
  <1>7. OutsideShape' /\ WorldTrue'
    <2>1. PICK ps : ps = procs'
      OBVIOUS
    <2> QED
      BY <1>1, <1>6, <2>1, NewProcs
  <1>8. drawn' \in Jids
    BY <1>1, <1>2, RestGives
  <1>9. ReceiptShape' /\ ReceiptsTrue' /\ JobShape' /\ JobsTrue' /\ SideShape'
    BY <1>1, SameReceipts, SameJobs, SameSide DEF receipts
  <1> QED
    BY <1>1, <1>7, <1>8, <1>9, RestGives DEF CompleteInv, Shape, RestShape, CopiesTrue

\* A step that changes what the copies are about.
LEMMA CopiesKept ==
    ASSUME CompleteInv, UNCHANGED <<receipts, jobs>>,
           \A rec : GoodRec(rec) => Faithful(rec)',
           \A rec : Finished(rec) => Finished(rec)'
    PROVE  ReceiptShape' /\ JobShape' /\ CopiesTrue'
  <1>1. ReceiptShape' /\ JobShape'
    BY DEF CompleteInv, Shape, ReceiptShape, JobShape, receipts
  <1>2. \A rec : GoodRec(rec) => GoodRec(rec)'
    BY DEF GoodRec
  <1>3. ReceiptsTrue'
    <2>1. PICK c : c = calls
      OBVIOUS
    <2>2. Faithful(op)' /\ Faithful(opFile)'
      <3>1. PICK o, f : o = op /\ f = opFile
        OBVIOUS
      <3>2. Faithful(o)' /\ Faithful(f)' /\ op' = o /\ opFile' = f
        BY <3>1, CallsGood DEF receipts
      <3> QED
        BY <3>2
    <2>3. calls' = c /\ \A w \in {"display", "handler"} : Faithful(c[w].rec)'
      BY <2>1, CallsGood DEF GoodCalls, receipts
    <2> QED
      BY <2>2, <2>3 DEF ReceiptsTrue
  <1>4. JobsTrue'
    <2>1. \A j \in jobs : GoodJob(j)'
      BY <1>2 DEF CompleteInv, CopiesTrue, JobsTrue, GoodJob
    <2> QED
      BY <2>1 DEF JobsTrue
  <1> QED
    BY <1>1, <1>3, <1>4 DEF CopiesTrue

LEMMA ProcStartStep ==
    ASSUME CompleteInv, NEW p \in procs, ProcStart(p)
    PROVE  CompleteInv'
  <1> DEFINE q == [p EXCEPT !.st = "running"]
  <1>1. /\ UNCHANGED <<cast, dir, removed, done, receipts, jobs, sidecar, turns, closing, drawn,
                       faults>>
        /\ p.st = "queued" /\ \A r \in procs : r.st # "running"
        /\ Authorized(p)
        /\ Set(p, "running")
    BY DEF ProcStart
  <1>2. OutsideShape /\ WorldTrue /\ p \in Procs /\ p.jid # 0
    BY DEF CompleteInv, Shape, OutsideShape
  <1>3. /\ q \in Procs /\ q.jid = p.jid /\ q.kind = p.kind /\ q.by = p.by /\ q.of = p.of
        /\ q.st = "running"
    BY <1>2 DEF Procs
  <1>4. procs' = (procs \ {p}) \cup {q}
    BY <1>1 DEF Set
  <1> HIDE DEF q
  <1>5. q.by = "unit" => q.jid = q.of[1] /\ q.kind = "archive"
    <2> SUFFICES ASSUME q.by = "unit" PROVE q.jid = q.of[1] /\ q.kind = "archive"
      OBVIOUS
    <2>1. opFile.jid = p.jid /\ Attempt(opFile) = p.of
      BY <1>1, <1>3 DEF Authorized
    <2>2. p.of[1] = opFile.jid
      BY <2>1 DEF Attempt
    <2> QED
      BY <1>2, <1>3, <2>1, <2>2 DEF WorldTrue
  <1>6. SideShape'
    BY <1>1, SameSide
  <1>7. CASE UNCHANGED journal /\ Pending /\ journal.kind = p.kind /\ journal.jid = p.jid
    <2>1. OutsideShape'
      BY <1>1, <1>2, <1>3, <1>4, <1>7 DEF OutsideShape, Pending
    <2>2. WorldTrue'
      BY <1>1, <1>2, <1>3, <1>4, <1>5, <1>7 DEF WorldTrue, Pending, Finished
    <2>3. \A rec : (GoodRec(rec) => Faithful(rec)') /\ (Finished(rec) => Finished(rec)')
      BY <1>1, <1>7, SameWorld DEF GoodRec
    <2> QED
      BY <1>1, <1>6, <2>1, <2>2, <2>3, CopiesKept, RestGives
         DEF CompleteInv, Shape, RestShape
  <1>8. ASSUME ~Pending,
               NEW at \in {"prepared"} \cup (IF p.kind = "archive" THEN {"services"} ELSE {}),
               journal' = [kind |-> p.kind, jid |-> p.jid, mode |-> p.mode,
                           ino |-> dir.ino, at |-> at]
        PROVE  CompleteInv'
    <2>1. journal' \in Journals /\ journal' # NoJournal /\ journal'.at # "none"
      BY <1>2, <1>8 DEF Journals, Procs, OutsideShape, Worlds, NoJournal, Jids
    <2>2. OutsideShape'
      BY <1>1, <1>2, <1>3, <1>4, <1>8, <2>1 DEF OutsideShape, Pending, Procs
    <2>3. WorldTrue'
      BY <1>1, <1>2, <1>3, <1>4, <1>5, <1>8, <2>1 DEF WorldTrue, Pending, Finished
    <2>4. \A rec : GoodRec(rec) => Faithful(rec)'
      BY <1>1, <1>8 DEF GoodRec, Faithful, Traced, Proven, Effected, Pending, NoJournal
    <2>5. \A rec : Finished(rec) => Finished(rec)'
      BY <1>1 DEF Finished
    <2> QED
      BY <1>1, <1>6, <2>2, <2>3, <2>4, <2>5, CopiesKept, RestGives
         DEF CompleteInv, Shape, RestShape
  <1> QED
    BY <1>7, <1>8 DEF ProcStart

LEMMA ProcStepStep ==
    ASSUME CompleteInv, NEW p \in procs, ProcStep(p)
    PROVE  CompleteInv'
  <1>1. UNCHANGED <<cast, receipts, jobs, sidecar, turns, closing, drawn, faults>>
        /\ p.st = "running"
    BY DEF ProcStep
  <1>2. OutsideShape /\ WorldTrue /\ p \in Procs
    BY DEF CompleteInv, Shape, OutsideShape
  <1>3. /\ Pending /\ journal.kind = p.kind /\ journal.jid = p.jid /\ journal.ino = dir.ino
        /\ journal \in Journals /\ journal.kind \in Kinds /\ journal.jid # 0
        /\ dir.ino \in Nat /\ dir.ino # 0
    BY <1>1, <1>2, Bounds DEF WorldTrue, OutsideShape, Worlds
  <1>4. SideShape'
    BY <1>1, SameSide
  <1>5. ASSUME OutsideShape', WorldTrue', \A rec : GoodRec(rec) => Faithful(rec)',
               \A rec : Finished(rec) => Finished(rec)'
        PROVE  CompleteInv'
    BY <1>1, <1>4, <1>5, CopiesKept, RestGives DEF CompleteInv, Shape, RestShape
  <1>6. CASE /\ journal.at = "services" /\ journal' = [journal EXCEPT !.at = "prepared"]
             /\ UNCHANGED <<dir, removed, procs, done>>
    <2>1. /\ journal' \in Journals /\ journal'.kind = journal.kind /\ journal'.jid = journal.jid
          /\ journal'.ino = journal.ino /\ journal'.at = "prepared"
      BY <1>3, <1>6 DEF Journals
    <2>2. journal' # NoJournal
      BY <2>1 DEF NoJournal
    <2>3. OutsideShape' /\ WorldTrue'
      BY <1>2, <1>3, <1>6, <2>1, <2>2 DEF OutsideShape, WorldTrue, Pending, Finished
    <2>4. \A rec : (GoodRec(rec) => Faithful(rec)') /\ (Finished(rec) => Finished(rec)')
      BY <1>6, <2>1 DEF GoodRec, Faithful, Traced, Proven, Effected, Finished
    <2> QED
      BY <1>5, <2>3, <2>4
  <1>7. CASE /\ journal.at = "prepared" /\ journal' = [journal EXCEPT !.at = "moved"]
             /\ dir' = Moved(journal) /\ UNCHANGED <<removed, procs, done>>
    <2>1. /\ journal' \in Journals /\ journal'.kind = journal.kind /\ journal'.jid = journal.jid
          /\ journal'.ino = journal.ino /\ journal'.at = "moved"
      BY <1>3, <1>7 DEF Journals
    <2>2. journal' # NoJournal
      BY <2>1 DEF NoJournal
    <2>3. /\ dir' \in Worlds /\ dir'.ino = dir.ino
          /\ dir'.root = IF journal.kind = "archive" THEN "archive"
                         ELSE IF journal.kind = "revive" THEN "work" ELSE "none"
      BY <1>2, <1>3, <1>7 DEF Moved, Worlds, OutsideShape, Journals
    <2>4. OutsideShape' /\ WorldTrue'
      BY <1>2, <1>3, <1>7, <2>1, <2>2, <2>3 DEF OutsideShape, WorldTrue, Pending, Finished
    <2>5. \A rec : GoodRec(rec) => Faithful(rec)'
      BY <1>3, <1>7, <2>1, <2>3 DEF GoodRec, Faithful, Traced, Proven, Dest, Kinds
    <2>6. \A rec : Finished(rec) => Finished(rec)'
      BY <1>7 DEF Finished
    <2> QED
      BY <1>5, <2>4, <2>5, <2>6
  <1>8. CASE /\ journal.at = "moved" /\ journal' = NoJournal /\ Set(p, "ok")
             /\ removed' = IF p.kind = "delete" THEN removed \cup {journal.jid} ELSE removed
             /\ done' = done \cup {[kind |-> p.kind, jid |-> journal.jid, ino |-> journal.ino]}
             /\ UNCHANGED dir
    <2> DEFINE q == [p EXCEPT !.st = "ok"]
               e == [kind |-> p.kind, jid |-> journal.jid, ino |-> journal.ino]
    <2>1. /\ q \in Procs /\ q.jid = p.jid /\ q.kind = p.kind /\ q.by = p.by /\ q.of = p.of
          /\ q.st = "ok"
      BY <1>2 DEF Procs
    <2>2. \A r \in procs' : (r \in procs /\ r # p) \/ r = q
      BY <1>8 DEF Set
    <2>3. /\ e.kind = journal.kind /\ e.jid = journal.jid /\ e.ino = dir.ino
          /\ done' = done \cup {e}
      BY <1>3, <1>8
    <2> HIDE DEF q, e
    <2>4. journal' \in Journals /\ ~Pending'
      BY <1>8, Bounds DEF Journals, NoJournal, Pending, Jids, Modes
    <2>5. OutsideShape'
      BY <1>2, <1>3, <1>8, <2>1, <2>2, <2>4 DEF OutsideShape, Journals
    <2>6. WorldTrue'
      <3>1. \A r \in procs' : r.st # "running"
        BY <1>1, <1>2, <2>1, <2>2 DEF WorldTrue
      <3>2. \A r \in procs' : r.st = "ok" => Finished(r)'
        <4> TAKE r \in procs'
        <4>1. CASE r = q
          BY <1>3, <2>1, <2>3, <4>1 DEF Finished
        <4>2. CASE r \in procs
          BY <1>2, <2>3, <4>2 DEF WorldTrue, Finished
        <4> QED
          BY <2>2, <4>1, <4>2
      <3>3. \A r \in procs' : r.by = "unit" =>
               r.kind = "archive" /\ (r.st \in {"running", "ok"} => r.jid = r.of[1])
        BY <1>1, <1>2, <2>1, <2>2 DEF WorldTrue
      <3>4. \A jid \in removed' : \E d \in done' : d.kind = "delete" /\ d.jid = jid
        BY <1>2, <1>3, <1>8, <2>3 DEF WorldTrue
      <3>5. \A d \in done' : d.ino # 0
        BY <1>2, <1>3, <2>3 DEF WorldTrue
      <3> QED
        BY <2>4, <3>1, <3>2, <3>3, <3>4, <3>5 DEF WorldTrue
    <2>7. \A rec : GoodRec(rec) => Faithful(rec)'
      BY <1>3, <1>8, <2>3 DEF GoodRec, Faithful, Traced, Proven, Effected
    <2>8. \A rec : Finished(rec) => Finished(rec)'
      BY <2>3 DEF Finished
    <2> QED
      BY <1>5, <2>5, <2>6, <2>7, <2>8
  <1> QED
    BY <1>6, <1>7, <1>8 DEF ProcStep

LEMMA TerminalCreateStep == CompleteInv /\ TerminalCreate => CompleteInv'
  <1> SUFFICES ASSUME CompleteInv, TerminalCreate PROVE CompleteInv'
    OBVIOUS
  <1>1. /\ UNCHANGED <<cast, journal, removed, procs, done, receipts, jobs, sidecar, turns,
                       closing, drawn, faults>>
        /\ ~Pending /\ dir.ino < MaxIno
        /\ dir' = [root |-> "work", ino |-> dir.ino + 1, mode |-> "active"]
    BY DEF TerminalCreate
  <1>2. OutsideShape /\ WorldTrue /\ dir.ino \in Nat
    BY Bounds DEF CompleteInv, Shape, OutsideShape, Worlds
  <1>3. dir' \in Worlds /\ dir'.ino # 0 /\ dir'.ino = dir.ino + 1
    BY <1>1, <1>2, Bounds DEF Worlds
  <1>4. OutsideShape' /\ WorldTrue'
    BY <1>1, <1>2, <1>3 DEF OutsideShape, WorldTrue, Pending, Finished
  <1>5. \A rec : GoodRec(rec) => Faithful(rec)'
    <2> TAKE rec
    <2> SUFFICES ASSUME GoodRec(rec) PROVE Faithful(rec)'
      OBVIOUS
    <2>1. Subject(rec).ino \in Nat /\ Subject(rec).ino <= dir.ino
      BY Bounds DEF GoodRec, Sound, Ops, Targets, Subject, Faithful, Traced
    <2>2. Subject(rec).ino <= dir'.ino /\ Subject(rec).ino # dir'.ino
      BY <1>2, <1>3, <2>1
    <2>3. rec.st = "complete" => Proven(rec)'
      BY <1>1 DEF GoodRec, Faithful, Proven
    <2> QED
      BY <2>2, <2>3 DEF Faithful, Traced, Subject
  <1>6. \A rec : Finished(rec) => Finished(rec)'
    BY <1>1 DEF Finished
  <1>7. SideShape'
    BY <1>1, SameSide
  <1> QED
    BY <1>1, <1>4, <1>5, <1>6, <1>7, CopiesKept, RestGives DEF CompleteInv, Shape, RestShape

(***************************************************************************)
(* Restarts, and the invariant of every behaviour.                         *)
(***************************************************************************)
LEMMA LoadedGood ==
    ASSUME NEW rec, GoodRec(rec)
    PROVE  GoodRec(Loaded(rec)) /\ (rec.st # "none" <=> Loaded(rec).st # "none")
  <1>1. CASE rec.st = "running"
    <2>1. Loaded(rec) = [rec EXCEPT !.st = "paused"]
      BY <1>1 DEF Loaded
    <2>2. GoodRec(Loaded(rec))
      BY <1>1, <2>1, OtherState
    <2>3. Loaded(rec).st = "paused"
      BY <1>1, <2>1, StateKept DEF GoodRec
    <2> QED
      BY <1>1, <2>2, <2>3
  <1>2. CASE rec.st # "running"
    BY <1>2 DEF Loaded
  <1> QED
    BY <1>1, <1>2

LEMMA RestartStep ==
    ASSUME CompleteInv, Restart, faults' \in Nat
    PROVE  CompleteInv'
  <1> DEFINE rec == Loaded(opFile)
             running == [rec EXCEPT !.st = "running"]
  <1>1. /\ UNCHANGED <<cast, dir, journal, removed, done, sideFile, turns, drawn>>
        /\ procs' \subseteq procs /\ closing' = FALSE
        /\ calls' = [w \in DOMAIN calls |-> NoCall]
        /\ side' = sideFile \/ side' = NoSide
    BY DEF Restart
  <1>2. \/ op' = rec /\ opFile' = opFile /\ jobs' = {}
        \/ /\ rec.st # "none" /\ op' = running /\ opFile' = running
           /\ jobs' = {Job(running)}
    BY DEF Restart
  <1>3. GoodRec(rec) /\ GoodRec(opFile) /\ GoodCalls(calls)
    BY CallsGood, LoadedGood
  <1>4. rec.st # "none" => GoodRec(running) /\ running.st = "running"
    BY <1>3, OtherState, StateKept DEF GoodRec
  <1> HIDE DEF rec, running
  <1> DEFINE c == [w \in {"display", "handler"} |-> NoCall]
  <1>5. calls' = c
    BY <1>1, <1>3 DEF GoodCalls
  <1>6. GoodCalls(c)
    BY NoOpSound, NoOpFaithful DEF GoodCalls, GoodRec, NoCall, CompleteInv, Shape
  <1> HIDE DEF c
  <1>7. ReceiptShape' /\ ReceiptsTrue'
    BY <1>1, <1>2, <1>3, <1>4, <1>5, <1>6, NewReceipts
  <1>8. JobShape' /\ JobsTrue'
    <2>1. CASE jobs' = {}
      BY <2>1 DEF JobShape, JobsTrue
    <2>2. CASE rec.st # "none" /\ jobs' = {Job(running)}
      <3>1. PICK k : k = Job(running)
        OBVIOUS
      <3>2. k \in Jobs /\ GoodJob(k)
        BY <1>4, <2>2, <3>1, JobGood
      <3> DEFINE js == {k}
      <3>3. jobs' = js /\ js \subseteq Jobs /\ \A j \in js : GoodJob(j)
        BY <2>2, <3>1, <3>2
      <3> HIDE DEF js
      <3> QED
        BY <1>1, <3>3, NewJobs
    <2> QED
      BY <1>2, <2>1, <2>2
  <1>9. OutsideShape' /\ WorldTrue'
    <2>1. PICK ps : ps = procs'
      OBVIOUS
    <2> QED
      BY <1>1, <2>1, NewProcs
  <1>10. SideShape'
    BY <1>1, NoSideShape DEF CompleteInv, Shape, SideShape
  <1> QED
    BY <1>1, <1>7, <1>8, <1>9, <1>10, RestGives DEF CompleteInv, Shape, RestShape, CopiesTrue

LEMMA CompleteInit == Init => CompleteInv
  <1> SUFFICES ASSUME Init PROVE CompleteInv
    OBVIOUS
  <1>1. dir \in Worlds /\ dir.ino = 1
    BY Bounds DEF Init, Worlds, Modes
  <1>2. OutsideShape
    BY <1>1, Bounds DEF Init, OutsideShape, Pending, NoJournal, Journals, Jids, Modes
  <1>3. WorldTrue
    BY DEF Init, WorldTrue, Pending
  <1>4. GoodRec(NoOp)
    BY <1>2, NoOpSound, NoOpFaithful DEF GoodRec
  <1>5. GoodCalls(calls)
    BY <1>4, NoOpSound DEF Init, GoodCalls, NoCall
  <1>6. ReceiptShape /\ CopiesTrue /\ JobShape
    BY <1>4, <1>5 DEF Init, ReceiptShape, CopiesTrue, ReceiptsTrue, JobsTrue, JobShape,
                      GoodRec, GoodCalls
  <1>7. SideShape
    BY NoSideShape DEF Init, SideShape
  <1>8. RestShape
    <2>1. drawn = 0 /\ faults = 0 /\ closing = FALSE /\ cast \in Casts
      BY DEF Init
    <2>2. 0 \in Jids
      BY Bounds DEF Jids
    <2> QED
      BY <2>1, <2>2 DEF RestShape
  <1> QED
    BY <1>2, <1>3, <1>6, <1>7, <1>8 DEF CompleteInv, Shape

LEMMA JobStepKeeps ==
    ASSUME CompleteInv, NEW j \in jobs, JobStep(j)
    PROVE  CompleteInv'
  BY PrepCheckStep, PrepReadyStep, PrepComposeStep, PrepRepairStep, PrepTurnStep,
     PrepUnknownStep, PrepRefusedStep, PrepFailStep, ExecCheckStep, LaunchStep, WaitStep,
     OutcomeStep, SaveOutcomeStep, CanceledStep DEF JobStep

LEMMA CompleteNext == CompleteInv /\ [Next]_vars => CompleteInv'
  <1> SUFFICES ASSUME CompleteInv, [Next]_vars PROVE CompleteInv'
    OBVIOUS
  <1>1. CASE RefreshRead \/ RefreshAccept \/ RetryRead \/ StartInstall \/ Dismiss \/ Cancel
    BY <1>1, RefreshReadStep, RefreshAcceptStep, RetryReadStep, StartInstallStep, DismissStep,
       CancelStep
  <1>2. ASSUME NEW ask \in cast.asks, AskRead(ask) PROVE CompleteInv'
    BY <1>2, AskReadStep
  <1>3. ASSUME NEW j \in jobs, JobStep(j) PROVE CompleteInv'
    BY <1>3, JobStepKeeps
  <1>4. ASSUME NEW p \in procs, ProcStart(p) \/ ProcStep(p) \/ ProcDie(p) PROVE CompleteInv'
    BY <1>4, ProcStartStep, ProcStepStep, ProcDieStep
  <1>5. ASSUME NEW t \in DOMAIN turns, LeadFinishes(t) PROVE CompleteInv'
    BY <1>5, LeadFinishesStep
  <1>6. ASSUME NEW kind \in Kinds, Terminal(kind) PROVE CompleteInv'
    BY <1>6, TerminalStep
  <1>7. CASE TerminalCreate \/ Close
    BY <1>7, TerminalCreateStep, CloseStep
  <1>8. CASE Down \/ Crash
    <2>1. faults' \in Nat
      BY <1>8, RestGives DEF Down, Crash, Fault
    <2> QED
      BY <1>8, <2>1, RestartStep DEF Down, Crash
  <1>9. CASE UNCHANGED vars
    BY <1>9, StepAside, SameReceipts, SameJobs, SameSide, RestGives
       DEF vars, outside, receipts, sidecar
  <1> QED
    BY <1>1, <1>2, <1>3, <1>4, <1>5, <1>6, <1>7, <1>8, <1>9 DEF Next

LEMMA CompleteAlways == Spec => []CompleteInv
  BY CompleteInit, CompleteNext, PTL DEF Spec

\* Every variable keeps its shape, and the receipt a restart reads is one it
\* accepts (validateLifecycleOperation).
THEOREM ReceiptsKeepShape == Spec => []TypeOK
  BY CompleteAlways, CompleteInvGives, PTL

\* lifecycleOperationSucceeded, archiveWorker and runLifecycleJob never show an
\* archive, revival or deletion as complete that was not: neither a replacement
\* under the same name, nor a late result, a unit's or a restart's does.
THEOREM CompletionsAreTrue == Spec => []CompleteIsTrue
  BY CompleteAlways, CompleteInvGives, PTL

(***************************************************************************)
(* Who works on a receipt.                                                 *)
(*                                                                         *)
(* The attempt of a receipt of the portal's own is drawn when the receipt  *)
(* is installed, and never again.  What is left of earlier attempts (Used) *)
(* is older than the receipts in place and on disk, and strictly older     *)
(* than the one a handler is about to install.  So a job, a unit or a      *)
(* preparation of that attempt is the receipt's.                           *)
(***************************************************************************)
Prep == {"prepare", "ready", "blocked", "repair", "fail"}
Bound == {"check", "launch"}

SideAttempt(s) == <<s.jid, FALSE, s.attempt>>
Used == {Attempt(j.rec) : j \in jobs}
        \cup {p.of : p \in {q \in procs : q.by # "terminal"}}
        \cup revoked
        \cup (IF side.st = "canceled" THEN {SideAttempt(side)} ELSE {})

\* A receipt of the portal's own, with this identity.
Own(rec, jid) == rec.st # "none" /\ ~rec.adopted /\ rec.jid = jid

\* What the display worker and a handler may still install.
FreshRefresh == calls["display"] # NoCall /\ calls["display"].fresh
FreshStart == calls["handler"] # NoCall /\ calls["handler"].fresh
Seen == calls["display"].rec
Chosen == calls["handler"].rec

\* What a receipt becomes while its attempt lasts.
Follows(new, old) == /\ new.st # "none" /\ Attempt(new) = Attempt(old)
                     /\ new.kind = old.kind /\ new.target = old.target
                     /\ new.expected \/ (new.mode = old.mode /\ ~old.expected)

\* Identities are drawn before they are used.
Drawn == /\ op.jid <= drawn /\ opFile.jid <= drawn /\ journal.jid <= drawn
         /\ FreshRefresh => Seen.jid <= drawn
         /\ FreshStart => Chosen.jid <= drawn
         /\ \A j \in jobs : j.rec.jid <= drawn
         /\ \A p \in procs : p.jid <= drawn

Older == \A u \in Used :
            /\ u \in Attempts
            /\ u[2] = FALSE =>
                  /\ u[1] <= drawn
                  /\ \A rec \in {op, opFile} : Own(rec, u[1]) => u[3] <= rec.attempt
Order == \A jid \in Jids : Own(op, jid) /\ Own(opFile, jid) => op.attempt <= opFile.attempt

Installs == FreshStart =>
    /\ op.st # "running"
    /\ ~Chosen.adopted =>
          /\ \A u \in Used : u[2] = FALSE /\ u[1] = Chosen.jid => u[3] < Chosen.attempt
          /\ Own(op, Chosen.jid) => op.attempt < Chosen.attempt
          /\ Own(op, Chosen.jid) \/ \A j \in jobs : j.rec.jid # Chosen.jid

Displays == FreshRefresh =>
    \/ Seen = NoOp
    \/ Seen.adopted /\ Seen.st = "paused"
    \/ op.st # "none" /\ Follows(Seen, op)

\* A job and what its receipt has become.
Followed(j) ==
    /\ ~j.rec.adopted => \A rec \in {op, opFile} :
          rec.st # "none" /\ Attempt(rec) = Attempt(j.rec) => Follows(rec, j.rec)
    /\ j.pc = "save" => Follows(j.result, j.rec) /\ j.result.st \in {"complete", "failed"}
    /\ j.pc \in Prep \cup Bound => j.of = Attempt(j.rec)

\* A preparation that has ended is not active any more, or nobody can end it.
Over(j) ==
    /\ j.pc \in {"outcome", "save"} /\ InHand(j) => closing \/ Attempt(j.rec) \in stranded
    /\ j.pc \in Bound \cup {"wait"} =>
          \A s \in {side, sideFile} : ~(SideMatches(s, j.rec) /\ Active(s))

JobsFollowed == \A j \in jobs : Followed(j) /\ Over(j)
OneJob == \A j, k \in jobs : Attempt(j.rec) = Attempt(k.rec) /\ ~j.rec.adopted => j = k

Abandoned == stranded \cup missed
HasJob(rec) == \E j \in jobs : Attempt(j.rec) = Attempt(rec)
HasUnit(rec) == \E p \in procs : p.by = "unit" /\ p.of = Attempt(rec)
Running == op.st = "running" \/ (FreshRefresh /\ Seen.st = "running")

\* What runs, or is about to be shown as running, is worked on.
Worked == Running /\ ~closing =>
             HasJob(op) \/ HasUnit(op) \/ Attempt(op) \in Abandoned
CanceledWorked ==
    Running /\ ~closing /\ side.st = "canceled" /\ SideAttempt(side) = Attempt(op) =>
        HasUnit(op) \/ Attempt(op) \in Abandoned

\* An active preparation has a job that is preparing.
Prepared ==
    op.st # "none" /\ Active(side) /\ SideMatches(side, op) /\ ~closing =>
        \/ \E j \in jobs : Attempt(j.rec) = Attempt(op) /\ SideMatches(side, j.rec) /\ j.pc \in Prep
        \/ Attempt(op) \in Abandoned

Numbers == Drawn /\ Older /\ Order /\ Installs
Shown == Displays /\ Worked /\ CanceledWorked /\ Prepared
AttendInv == Numbers /\ JobsFollowed /\ OneJob /\ Shown

(***************************************************************************)
(* What a cancellation stops.                                              *)
(***************************************************************************)
Revocations ==
    /\ \A u \in revoked : u[2] = FALSE
    /\ \A j \in jobs : j.pc \in Bound => Attempt(j.rec) \notin revoked
    /\ \A s \in {side, sideFile} : Active(s) => SideAttempt(s) \notin revoked
    /\ op.st # "none" /\ ~op.adopted => \A k \in jobs : k.rec.adopted => k.rec.jid # op.jid

\* A job that may still start its command has its receipt to itself.
Holds(j) == ~j.rec.adopted /\ (j.pc \in Bound \/ (InHand(j) /\ j.pc \in Prep))
Held(j) == Holds(j) =>
    /\ Own(op, j.rec.jid) => op.attempt = j.rec.attempt /\ (op.st = "running" \/ closing)
    /\ op.st # "none" /\ Attempt(op) = Attempt(j.rec) =>
          /\ j.pc \in Prep => ~op.expected /\ ~FreshRefresh
          /\ FreshRefresh => Seen.adopted \/ Seen.st = "running"
Holding == \A j \in jobs : Held(j)

\* A job that has not started its command, and never will if it is over.
ActiveFor(rec) == \E s \in {side, sideFile} : SideMatches(s, rec) /\ Active(s)
Unbegun(j) == /\ ~j.rec.adopted
              /\ j.pc \in Prep \cup Bound \/ (j.pc \in {"outcome", "save"} /\ ActiveFor(j.rec))
Commanded == {p.of : p \in {q \in procs : q.by # "terminal"}}
Unstarted ==
    /\ \A j \in jobs : Unbegun(j) => Attempt(j.rec) \notin Commanded
    /\ \A rec \in {op, opFile} : rec.st # "none" /\ ActiveFor(rec) => Attempt(rec) \notin Commanded
    /\ \A u \in Commanded : u \notin revoked

CancelInv == Revocations /\ (UnitsNamed => Holding /\ Unstarted)

(***************************************************************************)
(* Attempts and preparations.                                              *)
(***************************************************************************)
LEMMA AttemptSame ==
    /\ \A a, b : Attempt(a) = Attempt(b) <=>
                    a.jid = b.jid /\ a.adopted = b.adopted /\ a.attempt = b.attempt
    /\ \A a : Attempt(a)[1] = a.jid /\ Attempt(a)[2] = a.adopted /\ Attempt(a)[3] = a.attempt
    /\ \A s : SideAttempt(s)[1] = s.jid /\ SideAttempt(s)[2] = FALSE
              /\ SideAttempt(s)[3] = s.attempt
    /\ \A a, s : SideAttempt(s) = Attempt(a) <=>
                    s.jid = a.jid /\ a.adopted = FALSE /\ s.attempt = a.attempt
  BY DEF Attempt, SideAttempt

LEMMA AttemptShape == \A rec : Sound(rec) => Attempt(rec) \in Attempts /\ rec.jid \in Jids
                                             /\ rec.attempt \in Nat /\ rec.adopted \in BOOLEAN
  BY Bounds DEF Sound, Ops, Attempt, Attempts

\* Two sidecars of the same preparation.
Twin(s, t) == s.jid = t.jid /\ s.attempt = t.attempt /\ s.target = t.target

LEMMA TwinMatches ==
    \A s, t, rec : Twin(s, t) => /\ SideMatches(s, rec) <=> SideMatches(t, rec)
                                 /\ SideAttempt(s) = SideAttempt(t)
  BY DEF Twin, SideMatches, SideAttempt

LEMMA MatchNames ==
    \A s, rec : Sound(rec) /\ SideMatches(s, rec) => SideAttempt(s) = Attempt(rec) /\ ~rec.adopted
  <1> SUFFICES ASSUME NEW s, NEW rec, Sound(rec), SideMatches(s, rec)
               PROVE  SideAttempt(s) = Attempt(rec) /\ ~rec.adopted
    OBVIOUS
  <1>1. s.jid = rec.jid /\ s.attempt = rec.attempt /\ ~rec.adopted
    BY DEF SideMatches
  <1>2. rec.adopted = FALSE
    BY <1>1, AttemptShape
  <1> QED
    BY <1>1, <1>2, AttemptSame

LEMMA FollowsAgain ==
    \A a, b, c : Follows(a, b) /\ Follows(b, c) => Follows(a, c)
  BY DEF Follows

LEMMA FollowsItself == \A a : Sound(a) /\ a.st # "none" => Follows(a, a)
  BY DEF Follows

\* A preparation of what a receipt became was one of the receipt.
LEMMA MatchedBefore ==
    \A s, a, b : Follows(a, b) /\ SideMatches(s, a) => SideMatches(s, b)
  <1> SUFFICES ASSUME NEW s, NEW a, NEW b, Follows(a, b), SideMatches(s, a)
               PROVE  SideMatches(s, b)
    OBVIOUS
  <1>1. a.jid = b.jid /\ a.adopted = b.adopted /\ a.attempt = b.attempt
    BY AttemptSame DEF Follows
  <1>2. a.kind = b.kind /\ a.target = b.target /\ (a.expected \/ (a.mode = b.mode /\ ~b.expected))
    BY DEF Follows
  <1> QED
    BY <1>1, <1>2 DEF SideMatches

LEMMA MatchedAfter ==
    \A s, a, b : Follows(a, b) /\ ~a.expected /\ SideMatches(s, b) => SideMatches(s, a)
  <1> SUFFICES ASSUME NEW s, NEW a, NEW b, Follows(a, b), ~a.expected, SideMatches(s, b)
               PROVE  SideMatches(s, a)
    OBVIOUS
  <1>1. a.jid = b.jid /\ a.adopted = b.adopted /\ a.attempt = b.attempt
    BY AttemptSame DEF Follows
  <1>2. a.kind = b.kind /\ a.target = b.target /\ (a.expected \/ (a.mode = b.mode /\ ~b.expected))
    BY DEF Follows
  <1> QED
    BY <1>1, <1>2 DEF SideMatches

(***************************************************************************)
(* What a step may do to readings, receipts and sidecars.                  *)
(***************************************************************************)
KeepSeen == FreshRefresh' => FreshRefresh /\ Seen' = Seen
KeepCalls == /\ KeepSeen
             /\ FreshStart' => FreshStart /\ Chosen' = Chosen
NoFresh == ~FreshRefresh' /\ ~FreshStart'

LEMMA SameCalls == UNCHANGED calls => KeepCalls
  BY DEF KeepCalls, KeepSeen, FreshRefresh, FreshStart, Seen, Chosen

LEMMA StaleCalls ==
    ASSUME NEW c, GoodCalls(c), calls' = Stale(c)
    PROVE  NoFresh
  <1>1. \A w \in {"display", "handler"} : Stale(c)[w].fresh => Stale(c)[w] = NoCall
    <2> TAKE w \in {"display", "handler"}
    <2> DEFINE b == (c[w] = NoCall)
    <2>1. Stale(c)[w] = [c[w] EXCEPT !.fresh = b] /\ c[w] \in Calls
      BY DEF GoodCalls, Stale
    <2>2. c[w] = NoCall => b = TRUE
      OBVIOUS
    <2>3. c[w] # NoCall => b = FALSE
      OBVIOUS
    <2> HIDE DEF b
    <2>4. CASE c[w] = NoCall
      <3>1. Stale(c)[w] = [NoCall EXCEPT !.fresh = TRUE]
        BY <2>1, <2>2, <2>4
      <3> QED
        BY <3>1 DEF NoCall
    <2>5. CASE c[w] # NoCall
      BY <2>1, <2>3, <2>5 DEF Calls
    <2> QED
      BY <2>4, <2>5
  <1> QED
    BY <1>1 DEF NoFresh, FreshRefresh, FreshStart

\* A reading is used up.
LEMMA CallDone ==
    ASSUME CompleteInv, NEW w \in {"display", "handler"}, calls' = [calls EXCEPT ![w] = NoCall]
    PROVE  /\ KeepCalls
           /\ w = "display" => ~FreshRefresh'
           /\ w = "handler" => ~FreshStart'
  <1>1. calls \in [{"display", "handler"} -> Calls]
    BY CallsGood DEF GoodCalls
  <1>2. \A v \in {"display", "handler"} : calls'[v] = IF v = w THEN NoCall ELSE calls[v]
    BY <1>1
  <1> QED
    BY <1>2 DEF KeepCalls, KeepSeen, FreshRefresh, FreshStart, Seen, Chosen

\* A step that draws no attempt: receipts keep theirs or go, and what is left
\* of attempts was left before or is of the receipt in place.
OfPlace(u) == op.st # "none" /\ u = Attempt(op)
Frugal ==
    /\ \A k \in jobs' : \E j \in jobs : k.rec = j.rec
    /\ \A p \in procs' : p.by # "terminal" => p.of \in Used \/ OfPlace(p.of)
    /\ \A u \in revoked' : u \in revoked \/ OfPlace(u)
    /\ side'.st = "canceled" => SideAttempt(side') \in Used \/ OfPlace(SideAttempt(side'))
SameAttempts ==
    /\ op'.st # "none" /\ ~op'.adopted => OfPlace(Attempt(op'))
    /\ opFile'.st # "none" /\ ~opFile'.adopted =>
          \/ opFile.st # "none" /\ Attempt(opFile') = Attempt(opFile)
          \/ OfPlace(Attempt(opFile'))
    /\ (op' = op /\ KeepCalls) \/ NoFresh

LEMMA UsedBefore ==
    ASSUME Frugal
    PROVE  \A u \in Used' : u \in Used \/ OfPlace(u)
  <1> SUFFICES ASSUME NEW u \in Used' PROVE u \in Used \/ OfPlace(u)
    OBVIOUS
  <1>1. CASE u \in revoked'
    BY <1>1 DEF Frugal, Used
  <1>2. CASE \E k \in jobs' : u = Attempt(k.rec)
    BY <1>2 DEF Frugal, Used
  <1>3. CASE \E p \in procs' : p.by # "terminal" /\ u = p.of
    BY <1>3 DEF Frugal
  <1>4. CASE side'.st = "canceled" /\ u = SideAttempt(side')
    BY <1>4 DEF Frugal
  <1>5. \/ u \in revoked' \/ \E k \in jobs' : u = Attempt(k.rec)'
        \/ \E p \in procs' : p.by # "terminal" /\ u = p.of
        \/ side'.st = "canceled" /\ u = SideAttempt(side)'
    BY DEF Used
  <1>6. \A k : Attempt(k.rec)' = Attempt(k.rec)
    BY DEF Attempt
  <1>7. SideAttempt(side)' = SideAttempt(side')
    BY DEF SideAttempt
  <1> QED
    BY <1>1, <1>2, <1>3, <1>4, <1>5, <1>6, <1>7

\* What Order says, without its bound.
LEMMA InOrder ==
    ASSUME CompleteInv, Order
    PROVE  \A jid : Own(op, jid) /\ Own(opFile, jid) => op.attempt <= opFile.attempt
  BY CallsGood, AttemptShape DEF Order, Own, GoodRec

\* What the numbers say of the receipt in place.
LEMMA PlaceNumbers ==
    ASSUME CompleteInv, Numbers, op.st # "none"
    PROVE  /\ Attempt(op) \in Attempts /\ Attempt(op)[1] <= drawn
           /\ \A rec \in {op, opFile} :
                 Own(rec, Attempt(op)[1]) /\ Attempt(op)[2] = FALSE =>
                    Attempt(op)[3] <= rec.attempt
  <1>1. Sound(op) /\ Sound(opFile)
    BY CallsGood DEF GoodRec
  <1>2. op.attempt \in Nat /\ op.attempt <= op.attempt
    BY <1>1, AttemptShape
  <1>3. Attempt(op)[2] = FALSE /\ Own(opFile, op.jid) => op.attempt <= opFile.attempt
    <2>1. Attempt(op)[2] = FALSE => Own(op, op.jid)
      BY AttemptSame DEF Own
    <2> QED
      BY <2>1, InOrder DEF Numbers
  <1> QED
    BY <1>1, <1>2, <1>3, AttemptShape, AttemptSame DEF Numbers, Drawn

LEMMA NumbersKept ==
    ASSUME CompleteInv, CompleteInv', Numbers, Frugal, SameAttempts,
           drawn <= drawn', op'.jid <= drawn', opFile'.jid <= drawn', journal'.jid <= drawn',
           \A p \in procs' : p.jid <= drawn'
    PROVE  Numbers'
  <1> USE DEF Numbers
  <1>1. drawn \in Nat /\ drawn' \in Nat
    BY RestGives, Bounds DEF CompleteInv, Shape, RestShape, Jids
  <1>2. \A u \in Used' : u \in Used \/ OfPlace(u)
    BY UsedBefore
  <1>3. /\ Sound(op) /\ Sound(opFile) /\ Sound(op') /\ Sound(opFile')
        /\ \A j \in jobs : Sound(j.rec) /\ j.rec.jid \in Nat
        /\ Sound(Chosen) /\ Sound(Seen)
    BY Bounds, JobFields DEF CompleteInv, Shape, ReceiptShape, Sound, Chosen, Seen, Jids
  <1>4. \A u \in Used' : /\ u \in Attempts /\ u[1] \in Nat
                         /\ u[2] = FALSE =>
                               /\ u[1] <= drawn
                               /\ \A rec \in {op, opFile} : Own(rec, u[1]) => u[3] <= rec.attempt
    <2> SUFFICES ASSUME NEW u \in Used'
                 PROVE  /\ u \in Attempts /\ u[1] \in Nat
                        /\ u[2] = FALSE =>
                              /\ u[1] <= drawn
                              /\ \A rec \in {op, opFile} : Own(rec, u[1]) => u[3] <= rec.attempt
      OBVIOUS
    <2>1. CASE u \in Used
      BY <2>1 DEF Older, Attempts, Jids
    <2>2. CASE OfPlace(u)
      <3>1. u = Attempt(op) /\ op.st # "none"
        BY <2>2 DEF OfPlace
      <3>2. /\ u \in Attempts /\ u[1] <= drawn
            /\ \A rec \in {op, opFile} : Own(rec, u[1]) /\ u[2] = FALSE => u[3] <= rec.attempt
        BY <3>1, PlaceNumbers
      <3> QED
        BY <3>2 DEF Attempts, Jids
    <2> QED
      BY <1>2, <2>1, <2>2
  <1>5. ASSUME NEW u \in Used', u[2] = FALSE, NEW rec \in {op', opFile'}, Own(rec, u[1])
        PROVE  u[3] <= rec.attempt
    <2>1. \E old \in {op, opFile} : old.st # "none" /\ Attempt(rec) = Attempt(old)
      BY <1>5 DEF SameAttempts, OfPlace, Own
    <2>2. \E old \in {op, opFile} : Own(old, u[1]) /\ rec.attempt = old.attempt
      BY <1>5, <2>1, AttemptSame DEF Own
    <2> QED
      BY <1>4, <1>5, <2>2
  <1>6. Order'
    <2> SUFFICES ASSUME NEW jid, Own(op', jid), Own(opFile', jid)
                 PROVE  op'.attempt <= opFile'.attempt
      BY DEF Order, Own
    <2>1. op.st # "none" /\ Attempt(op') = Attempt(op)
      BY DEF SameAttempts, OfPlace, Own
    <2>2. Own(op, jid) /\ op'.attempt = op.attempt /\ op.attempt \in Nat
      BY <1>3, <2>1, AttemptSame, AttemptShape DEF Own
    <2>3. CASE opFile.st # "none" /\ Attempt(opFile') = Attempt(opFile)
      <3>1. Own(opFile, jid) /\ opFile'.attempt = opFile.attempt
        BY <2>3, AttemptSame DEF Own
      <3> QED
        BY <2>2, <3>1, InOrder
    <2>4. CASE OfPlace(Attempt(opFile'))
      <3>1. opFile'.attempt = op.attempt
        BY <2>4, AttemptSame DEF OfPlace
      <3> QED
        BY <2>2, <3>1
    <2> QED
      BY <2>3, <2>4 DEF SameAttempts, Own
  <1>7. Installs'
    <2>1. CASE NoFresh
      BY <2>1 DEF NoFresh, Installs
    <2>2. CASE op' = op /\ KeepCalls
      <3> SUFFICES ASSUME FreshStart' PROVE
             /\ op.st # "running"
             /\ ~Chosen.adopted =>
                /\ \A u \in Used' : u[2] = FALSE /\ u[1] = Chosen.jid => u[3] < Chosen.attempt
                /\ Own(op, Chosen.jid) => op.attempt < Chosen.attempt
                /\ Own(op, Chosen.jid) \/ \A j \in jobs' : j.rec.jid # Chosen.jid
        BY <2>2 DEF Installs, KeepCalls, Own
      <3>1. FreshStart
        BY <2>2 DEF KeepCalls
      <3>2. \A u : OfPlace(u) /\ u[2] = FALSE /\ u[1] = Chosen.jid /\ ~Chosen.adopted =>
                      u[3] < Chosen.attempt
        <4> SUFFICES ASSUME OfPlace(Attempt(op)), Attempt(op)[2] = FALSE,
                            Attempt(op)[1] = Chosen.jid, ~Chosen.adopted
                     PROVE  Attempt(op)[3] < Chosen.attempt
          BY DEF OfPlace
        <4>1. Own(op, Chosen.jid)
          BY AttemptSame DEF OfPlace, Own
        <4> QED
          BY <3>1, <4>1, AttemptSame DEF Installs
      <3> QED
        BY <1>2, <3>1, <3>2 DEF Installs, Frugal
    <2> QED
      BY <2>1, <2>2 DEF SameAttempts
  <1>8. Drawn'
    <2>1. FreshRefresh' => Seen'.jid <= drawn'
      BY <1>1, <1>3 DEF SameAttempts, KeepCalls, KeepSeen, NoFresh, Drawn, Sound, Ops, Jids
    <2>2. FreshStart' => Chosen'.jid <= drawn'
      BY <1>1, <1>3 DEF SameAttempts, KeepCalls, KeepSeen, NoFresh, Drawn, Sound, Ops, Jids
    <2>3. \A j \in jobs' : j.rec.jid <= drawn'
      BY <1>1, <1>3 DEF Frugal, Drawn
    <2> QED
      BY <2>1, <2>2, <2>3 DEF Drawn
  <1>9. Older'
    <2>1. \A u \in Used' : u \in Attempts /\ (u[2] = FALSE => u[1] <= drawn')
      BY <1>1, <1>4
    <2>2. \A u \in Used' : u[2] = FALSE =>
             \A rec \in {op', opFile'} : Own(rec, u[1]) => u[3] <= rec.attempt
      BY <1>5
    <2> QED
      BY <2>1, <2>2 DEF Older, Own
  <1> QED
    BY <1>6, <1>7, <1>8, <1>9

(***************************************************************************)
(* What most steps keep.                                                   *)
(***************************************************************************)
\* Receipts become nothing, adopted ones, or what follows one of them.
Heirs == \A rec \in {op', opFile'} : rec.st # "none" /\ ~rec.adopted =>
            \E old \in {op, opFile} : old.st # "none" /\ Follows(rec, old)

\* No preparation begins.
NoBegin == /\ \A s \in {side', sideFile'} : Active(s) =>
                 \E t \in {side, sideFile} : Active(t) /\ Twin(s, t)
           /\ Active(side') => Active(side) /\ Twin(side', side)

ProcsNamed ==
    /\ \A p \in procs' : p.by # "terminal" => \E q \in procs : q.by = p.by /\ q.of = p.of
    /\ \A p \in procs : p.by = "unit" =>
          \E q \in procs' : q.by = "unit" /\ q.of = p.of /\ q.jid = p.jid

LEMMA SameProcs == UNCHANGED procs => ProcsNamed
  BY DEF ProcsNamed

LEMMA SameSides == UNCHANGED sidecar => NoBegin
  BY DEF NoBegin, Twin, sidecar

LEMMA SameHeirs == CompleteInv /\ UNCHANGED <<op, opFile>> => Heirs
  BY CallsGood, FollowsItself DEF Heirs, GoodRec

LEMMA HeirsFollow ==
    ASSUME CompleteInv, Heirs, NEW r, Sound(r),
           \A rec \in {op, opFile} : rec.st # "none" /\ Attempt(rec) = Attempt(r) => Follows(rec, r),
           NEW rec \in {op', opFile'}, rec.st # "none", Attempt(rec) = Attempt(r), ~r.adopted
    PROVE  Follows(rec, r)
  <1>1. ~rec.adopted
    BY AttemptSame
  <1>2. PICK old \in {op, opFile} : old.st # "none" /\ Follows(rec, old)
    BY <1>1 DEF Heirs
  <1>3. Attempt(old) = Attempt(r)
    BY <1>2 DEF Follows
  <1> QED
    BY <1>2, <1>3, FollowsAgain

\* No active preparation for a job that had none.
LEMMA NoneBegun ==
    ASSUME NoBegin, NEW rec,
           \A t \in {side, sideFile} : ~(SideMatches(t, rec) /\ Active(t))
    PROVE  \A s \in {side', sideFile'} : ~(SideMatches(s, rec) /\ Active(s))
  BY TwinMatches DEF NoBegin

LEMMA FollowedKept ==
    ASSUME CompleteInv, NEW j \in jobs, Followed(j), Heirs
    PROVE  Followed(j)'
  <1>1. Sound(j.rec)
    BY JobFields
  <1>2. ~j.rec.adopted => \A rec \in {op', opFile'} :
           rec.st # "none" /\ Attempt(rec) = Attempt(j.rec) => Follows(rec, j.rec)
    BY <1>1, HeirsFollow DEF Followed
  <1> QED
    BY <1>2 DEF Followed, Follows, Attempt

LEMMA OverKept ==
    ASSUME CompleteInv, NEW j \in jobs, Over(j), NoBegin,
           closing => closing', stranded \subseteq stranded'
    PROVE  Over(j)'
  <1>1. InHand(j)' => InHand(j)
    BY TwinMatches DEF InHand, NoBegin, SideMatches, Active
  <1>2. j.pc \in Bound \cup {"wait"} =>
           \A s \in {side', sideFile'} : ~(SideMatches(s, j.rec) /\ Active(s))
    BY NoneBegun DEF Over
  <1> QED
    BY <1>1, <1>2 DEF Over, SideMatches, Active, Attempt

LEMMA JobsKept ==
    ASSUME CompleteInv, JobsFollowed, OneJob, jobs' \subseteq jobs, Heirs, NoBegin,
           closing => closing', stranded \subseteq stranded'
    PROVE  JobsFollowed' /\ OneJob'
  <1>1. \A j \in jobs' : Followed(j)' /\ Over(j)'
    BY FollowedKept, OverKept DEF JobsFollowed
  <1>2. JobsFollowed'
    BY <1>1 DEF JobsFollowed
  <1> QED
    BY <1>2 DEF OneJob, Attempt

\* The receipt in place stays, and so does who works on it.
LEMMA WorkKept ==
    ASSUME Shown, op' = op, KeepSeen, closing => closing', ProcsNamed,
           \A j \in jobs : \E k \in jobs' : k.rec = j.rec,
           Abandoned \subseteq Abandoned'
    PROVE  /\ Displays' /\ Worked'
           /\ (side'.st = "canceled" => side.st = "canceled"
                                         /\ SideAttempt(side') = SideAttempt(side)) =>
                 CanceledWorked'
  <1>1. Displays'
    BY DEF Shown, Displays, KeepSeen, Follows, Attempt
  <1>2. Running' => Running
    BY DEF Running, KeepSeen
  <1>3. HasJob(op) => HasJob(op)'
    <2> SUFFICES ASSUME NEW j \in jobs, Attempt(j.rec) = Attempt(op) PROVE HasJob(op)'
      BY DEF HasJob
    <2>1. PICK k \in jobs' : k.rec = j.rec
      OBVIOUS
    <2> QED
      BY <2>1 DEF HasJob, Attempt
  <1>4. HasUnit(op) => HasUnit(op)'
    BY DEF HasUnit, ProcsNamed, Attempt
  <1>5. Attempt(op)' = Attempt(op)
    BY DEF Attempt
  <1>6. Worked'
    BY <1>2, <1>3, <1>4, <1>5 DEF Shown, Worked
  <1>7. SideAttempt(side)' = SideAttempt(side')
    BY DEF SideAttempt
  <1> QED
    BY <1>1, <1>2, <1>4, <1>5, <1>6, <1>7 DEF Shown, CanceledWorked

LEMMA NothingRuns == NoFresh /\ op'.st # "running" => Displays' /\ Worked' /\ CanceledWorked'
  BY DEF NoFresh, Displays, Worked, CanceledWorked, Running

LEMMA PreparedKept ==
    ASSUME Shown, jobs \subseteq jobs', closing => closing', Abandoned \subseteq Abandoned',
           NoBegin, op'.st # "none" => op.st # "none" /\ Follows(op', op)
    PROVE  Prepared'
  <1> SUFFICES ASSUME op'.st # "none", Active(side)', SideMatches(side, op)', ~closing'
               PROVE  \/ \E j \in jobs' : Attempt(j.rec) = Attempt(op') /\ SideMatches(side', j.rec)
                                          /\ j.pc \in Prep
                      \/ Attempt(op') \in Abandoned'
    BY DEF Prepared, Attempt, SideMatches, Prep
  <1>1. Active(side') /\ SideMatches(side', op')
    BY DEF Active, SideMatches
  <1>2. Active(side) /\ Twin(side', side) /\ SideMatches(side, op) /\ Attempt(op') = Attempt(op)
    BY <1>1, TwinMatches, MatchedBefore DEF NoBegin, Follows
  <1> QED
    BY <1>2, TwinMatches DEF Shown, Prepared

(***************************************************************************)
(* Steps outside the portal, and readings.                                 *)
(***************************************************************************)
LEMMA AttendInit == Init => AttendInv
  <1> SUFFICES ASSUME Init PROVE AttendInv
    OBVIOUS
  <1>1. /\ op = NoOp /\ opFile = NoOp /\ jobs = {} /\ procs = {} /\ revoked = {} /\ drawn = 0
        /\ journal = NoJournal /\ side = NoSide
    BY DEF Init
  <1>2. calls["display"] = NoCall /\ calls["handler"] = NoCall
    BY DEF Init
  <1>3. ~FreshRefresh /\ ~FreshStart
    BY <1>2 DEF FreshRefresh, FreshStart
  <1>4. op.st = "none" /\ opFile.st = "none" /\ op.jid = 0 /\ opFile.jid = 0 /\ journal.jid = 0
        /\ side.st = "none"
    BY <1>1 DEF NoOp, NoJournal, NoSide
  <1>5. Used = {}
    BY <1>1, <1>4 DEF Used
  <1> QED
    BY <1>1, <1>3, <1>4, <1>5 DEF AttendInv, Numbers, Drawn, Older, Order, Installs, Own,
       JobsFollowed, OneJob, Shown, Displays, Worked, CanceledWorked, Prepared, Running

\* Steps of dev-session, the lead and the terminal.
LEMMA ElsewhereAttends ==
    ASSUME CompleteInv, CompleteInv', AttendInv, ProcsNamed, drawn <= drawn', journal'.jid <= drawn',
           \A p \in procs' : p.jid <= drawn',
           UNCHANGED <<receipts, jobs, sidecar, closing, ledger>>
    PROVE  AttendInv'
  <1>1. /\ op' = op /\ opFile' = opFile /\ jobs' = jobs /\ side' = side /\ sideFile' = sideFile
        /\ revoked' = revoked /\ KeepCalls
    BY SameCalls DEF receipts, sidecar, ledger
  <1>2. Frugal
    <2>1. \A p \in procs' : p.by # "terminal" => p.of \in Used
      BY DEF ProcsNamed, Used
    <2>2. side'.st = "canceled" => SideAttempt(side') \in Used
      BY <1>1 DEF Used
    <2> QED
      BY <1>1, <2>1, <2>2 DEF Frugal
  <1>3. SameAttempts
    BY <1>1 DEF SameAttempts, OfPlace
  <1>4. op'.jid <= drawn' /\ opFile'.jid <= drawn'
    <2>1. drawn \in Nat /\ drawn' \in Nat /\ op.jid \in Nat /\ opFile.jid \in Nat
      BY RestGives, Bounds, CallsGood, AttemptShape
         DEF CompleteInv, Shape, RestShape, Jids, GoodRec
    <2> QED
      BY <1>1, <2>1 DEF AttendInv, Numbers, Drawn
  <1>5. Numbers'
    BY <1>2, <1>3, <1>4, NumbersKept DEF AttendInv
  <1>6. Heirs /\ NoBegin /\ closing' = closing /\ stranded' = stranded
    BY SameHeirs, SameSides DEF receipts, ledger
  <1>7. JobsFollowed' /\ OneJob'
    BY <1>1, <1>6, JobsKept DEF AttendInv
  <1>8. Abandoned' = Abandoned
    BY DEF Abandoned, ledger
  <1>9. Displays' /\ Worked' /\ CanceledWorked'
    BY <1>1, <1>6, <1>8, WorkKept DEF AttendInv, KeepCalls
  <1>10. Prepared'
    BY <1>1, <1>6, <1>8, PreparedKept, FollowsItself, CallsGood DEF AttendInv, GoodRec
  <1> QED
    BY <1>5, <1>7, <1>9, <1>10 DEF AttendInv, Shown

LEMMA SetNamed ==
    ASSUME CompleteInv, NEW p \in procs, NEW st \in {"queued", "running", "ok", "bad"}, Set(p, st)
    PROVE  /\ ProcsNamed
           /\ \A q \in procs' : \E r \in procs : q.jid = r.jid
  <1> DEFINE q == [p EXCEPT !.st = st]
  <1>1. p \in Procs
    BY DEF CompleteInv, Shape, OutsideShape
  <1>2. q.by = p.by /\ q.of = p.of /\ q.jid = p.jid
    BY <1>1 DEF Procs
  <1>3. /\ \A r \in procs' : r \in procs \/ r = q
        /\ \A r \in procs : r \in procs' \/ r = p
        /\ p.by = "unit" => q \in procs'
    BY DEF Set
  <1> HIDE DEF q
  <1>4. ProcsNamed
    BY <1>2, <1>3 DEF ProcsNamed
  <1>5. \A r \in procs' : \E o \in procs : r.jid = o.jid
    BY <1>2, <1>3
  <1> QED
    BY <1>4, <1>5

LEMMA JidsDrawn ==
    ASSUME CompleteInv, AttendInv
    PROVE  /\ drawn \in Nat /\ op.jid <= drawn /\ opFile.jid <= drawn /\ journal.jid <= drawn
           /\ \A p \in procs : p.jid <= drawn
           /\ \A j \in jobs : j.rec.jid <= drawn
  BY RestGives DEF AttendInv, Numbers, Drawn

LEMMA OutsideAttends ==
    ASSUME CompleteInv, CompleteInv', AttendInv,
           \/ \E p \in procs : ProcStart(p) \/ ProcStep(p) \/ ProcDie(p)
           \/ \E t \in DOMAIN turns : LeadFinishes(t)
           \/ \E kind \in Kinds : Terminal(kind)
           \/ TerminalCreate
    PROVE  AttendInv' /\ ProcsNamed /\ UNCHANGED <<receipts, jobs, sidecar, closing, ledger>>
  <1>1. UNCHANGED <<receipts, jobs, sidecar, closing, ledger>>
    BY DEF ProcStart, ProcStep, ProcDie, LeadFinishes, Terminal, TerminalCreate
  <1>2. /\ drawn \in Nat /\ journal.jid <= drawn /\ \A p \in procs : p.jid <= drawn
        /\ drawn <= drawn
    BY JidsDrawn
  <1>3. CASE \E p \in procs : ProcDie(p)
    <2>1. PICK p \in procs : ProcDie(p)
      BY <1>3
    <2>2. Set(p, "bad") /\ drawn' = drawn /\ journal' = journal
      BY <2>1 DEF ProcDie
    <2>3. ProcsNamed /\ \A q \in procs' : \E r \in procs : q.jid = r.jid
      BY <2>2, SetNamed
    <2> QED
      BY <1>1, <1>2, <2>2, <2>3, ElsewhereAttends
  <1>4. CASE \E p \in procs : ProcStart(p)
    <2>1. PICK p \in procs : ProcStart(p)
      BY <1>4
    <2>2. Set(p, "running") /\ drawn' = drawn
      BY <2>1 DEF ProcStart
    <2>3. journal' = journal \/ journal'.jid = p.jid
      BY <2>1 DEF ProcStart
    <2>4. ProcsNamed /\ \A q \in procs' : \E r \in procs : q.jid = r.jid
      BY <2>2, SetNamed
    <2> QED
      BY <1>1, <1>2, <2>2, <2>3, <2>4, ElsewhereAttends
  <1>5. CASE \E p \in procs : ProcStep(p)
    <2>1. PICK p \in procs : ProcStep(p)
      BY <1>5
    <2>2. UNCHANGED procs \/ Set(p, "ok")
      BY <2>1 DEF ProcStep
    <2>3. drawn' = drawn /\ journal'.jid <= drawn
      <3>1. journal \in Journals
        BY DEF CompleteInv, Shape, OutsideShape
      <3>2. journal' = [journal EXCEPT !.at = "prepared"] \/ journal' = [journal EXCEPT !.at = "moved"]
            \/ journal' = NoJournal
        BY <2>1 DEF ProcStep
      <3>3. journal'.jid = journal.jid \/ journal'.jid = 0
        BY <3>1, <3>2 DEF Journals, NoJournal
      <3> QED
        BY <1>2, <2>1, <3>3 DEF ProcStep
    <2>4. ProcsNamed /\ \A q \in procs' : \E r \in procs : q.jid = r.jid
      BY <2>2, SetNamed, SameProcs
    <2> QED
      BY <1>1, <1>2, <2>3, <2>4, ElsewhereAttends
  <1>6. CASE \E kind \in Kinds : Terminal(kind)
    <2>1. PICK kind \in Kinds : Terminal(kind)
      BY <1>6
    <2>2. \E p : /\ procs' = procs \cup {p} /\ p.by = "terminal" /\ p.jid <= drawn'
                 /\ drawn <= drawn' /\ journal' = journal
      <3> DEFINE resumes == Pending /\ journal.kind = kind
                 p == [by |-> "terminal", of |-> <<0, FALSE, 0>>, kind |-> kind,
                       jid |-> IF resumes THEN journal.jid ELSE drawn + 1,
                       mode |-> IF resumes THEN journal.mode ELSE "complete",
                       target |-> IF resumes THEN NoTarget ELSE Target, st |-> "queued"]
      <3>1. /\ procs' = procs \cup {p} /\ drawn' = IF resumes THEN drawn ELSE drawn + 1
            /\ journal' = journal
        BY <2>1 DEF Terminal
      <3>2. p.by = "terminal" /\ p.jid = IF resumes THEN journal.jid ELSE drawn + 1
        OBVIOUS
      <3> HIDE DEF p
      <3>3. p.jid <= drawn' /\ drawn <= drawn'
        BY <1>2, <3>1, <3>2
      <3> QED
        BY <3>1, <3>2, <3>3
    <2>3. ProcsNamed
      BY <2>2 DEF ProcsNamed
    <2>4. drawn' \in Nat /\ \A p \in procs : p.jid \in Nat
      BY Bounds DEF CompleteInv, Shape, RestShape, OutsideShape, Procs, Jids
    <2>5. journal'.jid <= drawn' /\ journal'.jid \in Nat
      BY <1>2, <2>2, <2>4, Bounds DEF CompleteInv, Shape, OutsideShape, Journals, Jids
    <2>6. \A p \in procs' : p.jid <= drawn'
      BY <1>2, <2>2, <2>4
    <2> QED
      BY <1>1, <2>2, <2>3, <2>5, <2>6, ElsewhereAttends
  <1>7. CASE (\E t \in DOMAIN turns : LeadFinishes(t)) \/ TerminalCreate
    <2>1. UNCHANGED <<procs, journal, drawn>>
      BY <1>7 DEF LeadFinishes, TerminalCreate, outside
    <2> QED
      BY <1>1, <1>2, <2>1, SameProcs, ElsewhereAttends
  <1> QED
    BY <1>3, <1>4, <1>5, <1>6, <1>7

\* What the display worker proposes for the receipt in place.
Proposed(r) ==
    \/ r = op /\ op.st = "none"
    \/ r.adopted /\ r.st = "paused"
    \/ /\ op.st # "none" /\ Follows(r, op)
       /\ r.st = "running" =>
             op.st = "running" \/ HasUnit(op) \/ (SideMatches(side, op) /\ Active(side))
       /\ op.st = "running" /\ ~HasUnit(op) => r.st = "running"
       /\ op.st = "running" /\ SideMatches(side, op) /\ Active(side) => r = op

LEMMA WorkerRuns ==
    ASSUME CompleteInv
    PROVE  /\ WorkerState(op) = "running" => op.st = "running" \/ HasUnit(op)
           /\ ~HasUnit(op) => WorkerState(op) = op.st
  BY DEF WorkerState, Unit, HasUnit

LEMMA SeenFollows ==
    ASSUME CompleteInv, op.st # "none"
    PROVE  LET seen == [op EXCEPT !.st = WorkerState(op)] IN
           /\ Sound(seen) /\ Faithful(seen) /\ seen.st = WorkerState(op) /\ seen.st # "none"
           /\ seen.kind = op.kind /\ seen.jid = op.jid /\ seen.adopted = op.adopted
           /\ seen.attempt = op.attempt /\ seen.target = op.target /\ seen.mode = op.mode
           /\ seen.expected = op.expected
  <1>1. OutsideShape /\ WorldTrue /\ Sound(op) /\ Faithful(op)
    BY CallsGood DEF CompleteInv, Shape, GoodRec
  <1>2. /\ WorkerState(op) \in {"running", "paused", "failed", "complete"}
        /\ WorkerState(op) = "complete" => op.st = "complete" \/ Finished(op)
    BY <1>1, WorkerStateSays
  <1> DEFINE seen == [op EXCEPT !.st = WorkerState(op)]
  <1>3. /\ Sound(seen) /\ seen.st = WorkerState(op) /\ seen.kind = op.kind /\ seen.jid = op.jid
        /\ seen.adopted = op.adopted /\ seen.target = op.target /\ seen.jt = op.jt
        /\ seen.attempt = op.attempt /\ seen.mode = op.mode /\ seen.expected = op.expected
    BY <1>1, <1>2, StateKept, ZenonT(60)
  <1> HIDE DEF seen
  <1>4. Finished(op) => Proven(seen)
    BY <1>3 DEF Finished, Proven
  <1>5. Faithful(seen)
    BY <1>1, <1>2, <1>3, <1>4, FaithfulKept
  <1> QED
    BY <1>2, <1>3, <1>5 DEF seen

\* The same attempt, kind and target, and no evidence lost.
LEMMA FollowsFields ==
    \A a, b : /\ a.st # "none" /\ a.kind = b.kind /\ a.jid = b.jid /\ a.adopted = b.adopted
              /\ a.attempt = b.attempt /\ a.target = b.target
              /\ a.expected \/ (a.mode = b.mode /\ ~b.expected)
              => Follows(a, b)
  BY AttemptSame DEF Follows

LEMMA ProposalSays ==
    ASSUME CompleteInv
    PROVE  Proposed(Proposal(op)) /\ Proposal(op).jid \in {op.jid, journal.jid}
  <1> DEFINE seen == [op EXCEPT !.st = WorkerState(op)]
             same == op.st # "none" /\ op.kind = journal.kind /\ op.jid = journal.jid
             progress == WithProgress(seen, journal)
             follow == BindTarget(progress)
             blank == [NoOp EXCEPT !.st = "paused", !.adopted = TRUE, !.kind = journal.kind]
             adopt == BindTarget(WithProgress(blank, journal))
             r == Proposal(op)
  <1>1. Sound(op) /\ OutsideShape /\ WorldTrue
    BY CallsGood DEF CompleteInv, Shape, GoodRec
  <1>2. CASE op.st # "none" /\ SideMatches(side, op) /\ Active(side)
    <2>1. r = [op EXCEPT !.st = "running"]
      BY <1>2 DEF Proposal
    <2>2. /\ r.st = "running" /\ r.kind = op.kind /\ r.jid = op.jid /\ r.adopted = op.adopted
          /\ r.attempt = op.attempt /\ r.target = op.target /\ r.mode = op.mode
          /\ r.expected = op.expected
      BY <1>1, <1>2, <2>1, StateKept
    <2>3. ~op.expected
      BY <1>2 DEF SideMatches
    <2>4. op.st = "running" => r = op
      BY <1>1, <2>1 DEF Sound, Ops
    <2> HIDE DEF r
    <2>5. Follows(r, op)
      BY <2>2, <2>3, FollowsFields
    <2> QED
      BY <1>2, <2>2, <2>4, <2>5 DEF Proposed, r
  <1>3. CASE ~(op.st # "none" /\ SideMatches(side, op) /\ Active(side)) /\ Pending /\ ~same
    <2>1. r = adopt
      BY <1>3 DEF Proposal
    <2>2. adopt.adopted /\ adopt.st = "paused" /\ adopt.jid = journal.jid
      <3>1. /\ blank.st = "paused" /\ blank.adopted /\ blank \in Ops
        BY <1>1, <1>3, NoOpSound DEF Sound, OutsideShape, Ops, NoOp
      <3>2. EvidenceOf(journal) \in [part : {"none", "prelude", "ordinary"}, ino : 0..MaxIno]
        BY <1>1, EvidenceShape
      <3>3. journal.jid \in Jids /\ journal.mode \in Modes
        BY <1>1 DEF OutsideShape, Journals
      <3> DEFINE w == WithProgress(blank, journal)
      <3> HIDE DEF blank
      <3>4. w \in Ops /\ w.adopted /\ w.st = "paused" /\ w.jid = journal.jid
        BY <3>1, <3>2, <3>3 DEF WithProgress, Ops
      <3>5. adopt = w \/ adopt = [w EXCEPT !.jt = Target]
        BY DEF BindTarget
      <3> HIDE DEF w, adopt
      <3> QED
        BY <3>4, <3>5 DEF Ops
    <2> QED
      BY <2>1, <2>2 DEF Proposed
  <1>4. CASE ~(op.st # "none" /\ SideMatches(side, op) /\ Active(side)) /\ (~Pending \/ same)
             /\ op.st # "none"
    <2>1. /\ Sound(seen) /\ Faithful(seen) /\ seen.st = WorkerState(op) /\ seen.st # "none"
          /\ seen.kind = op.kind /\ seen.jid = op.jid /\ seen.adopted = op.adopted
          /\ seen.attempt = op.attempt /\ seen.target = op.target /\ seen.mode = op.mode
          /\ seen.expected = op.expected
      BY <1>4, SeenFollows
    <2>2. ASSUME NEW q, q.st # "none", q.kind = op.kind, q.jid = op.jid, q.adopted = op.adopted,
                 q.attempt = op.attempt, q.target = op.target,
                 q.expected \/ (q.mode = op.mode /\ ~op.expected),
                 q.st = "running" <=> seen.st = "running"
          PROVE  Proposed(q)
      <3>1. Follows(q, op)
        BY <2>2, FollowsFields
      <3>2. q.st = "running" => op.st = "running" \/ HasUnit(op)
        BY <2>1, <2>2, WorkerRuns
      <3>3. op.st = "running" /\ ~HasUnit(op) => q.st = "running"
        BY <2>1, <2>2, WorkerRuns
      <3> QED
        BY <1>4, <3>1, <3>2, <3>3 DEF Proposed
    <2>3. ASSUME NEW st \in {"paused", "failed", "complete"}, seen.st # "running"
          PROVE  Proposed([seen EXCEPT !.st = st]) /\ [seen EXCEPT !.st = st].jid = op.jid
      <3> DEFINE q == [seen EXCEPT !.st = st]
      <3>1. /\ q.st = st /\ q.kind = seen.kind /\ q.jid = seen.jid /\ q.adopted = seen.adopted
            /\ q.attempt = seen.attempt /\ q.target = seen.target /\ q.mode = seen.mode
            /\ q.expected = seen.expected
        BY <2>1, StateKept
      <3> HIDE DEF q, seen
      <3>2. Proposed(q)
        BY <2>1, <2>2, <2>3, <3>1
      <3> QED
        BY <2>1, <3>1, <3>2 DEF q
    <2>4. Proposed(seen)
      <3> HIDE DEF seen
      <3> QED
        BY <2>1, <2>2
    <2>5. CASE ~Pending
      <3>1. r = IF seen.st \in {"paused", "failed"}
                THEN [seen EXCEPT !.st = IF Succeeded(seen) THEN "complete" ELSE "failed"]
                ELSE seen
        BY <1>4, <2>5 DEF Proposal
      <3> DEFINE st == IF Succeeded(seen) THEN "complete" ELSE "failed"
      <3>2. st \in {"paused", "failed", "complete"}
        OBVIOUS
      <3>3. r = seen \/ (seen.st # "running" /\ r = [seen EXCEPT !.st = st])
        BY <3>1
      <3> HIDE DEF r, st, seen
      <3> QED
        BY <2>1, <2>3, <2>4, <3>2, <3>3 DEF r
    <2>6. CASE Pending /\ same
      <3>1. r = IF ~EvidenceMatches(seen, journal) THEN seen
                ELSE IF follow.st = "complete" THEN [follow EXCEPT !.st = "paused"] ELSE follow
        BY <1>4, <2>6 DEF Proposal
      <3>2. /\ Sound(progress) /\ Faithful(progress) /\ progress.st = seen.st
            /\ progress.kind = seen.kind /\ progress.jid = seen.jid
            /\ progress.adopted = seen.adopted /\ progress.attempt = seen.attempt
            /\ progress.target = seen.target
        <4> HIDE DEF seen
        <4>1. /\ Sound(progress) /\ progress.st = seen.st /\ progress.kind = seen.kind
              /\ progress.jid = seen.jid /\ progress.adopted = seen.adopted
              /\ progress.target = seen.target /\ progress.jt = seen.jt
              /\ progress.attempt = seen.attempt
          BY <1>1, <2>1, <2>6, ProgressKept
        <4> HIDE DEF progress
        <4>2. progress.st = "complete" => seen.st = "complete" \/ Proven(progress)
          BY <4>1
        <4>3. Faithful(progress)
          BY <2>1, <4>1, <4>2, FaithfulKept
        <4> QED
          BY <4>1, <4>3
      <3>3. progress.expected = TRUE
        <4> HIDE DEF seen
        <4> QED
          BY <2>1 DEF WithProgress, Sound, Ops
      <3> HIDE DEF progress, seen
      <3>4. /\ Sound(follow) /\ follow.st = progress.st /\ follow.kind = progress.kind
            /\ follow.jid = progress.jid /\ follow.attempt = progress.attempt
            /\ follow.adopted = progress.adopted /\ follow.expected = progress.expected
        BY <1>1, <2>1, <2>6, <3>2, BoundKept
      <3>5. follow.target = progress.target
        BY <3>2 DEF BindTarget, Sound, Ops
      <3> HIDE DEF follow
      <3> DEFINE q == [follow EXCEPT !.st = "paused"]
      <3>6. /\ q.st = "paused" /\ q.kind = follow.kind /\ q.jid = follow.jid
            /\ q.attempt = follow.attempt /\ q.adopted = follow.adopted
            /\ q.expected = follow.expected /\ q.target = follow.target
        BY <2>1, <3>2, <3>4, StateKept
      <3>7. r = seen \/ r = follow \/ (follow.st = "complete" /\ r = q)
        BY <3>1
      <3> HIDE DEF q, r
      <3>8. CASE r = seen
        BY <2>1, <2>4, <3>8 DEF r
      <3>9. CASE r = follow
        BY <2>1, <2>2, <3>2, <3>3, <3>4, <3>5, <3>9 DEF r
      <3>10. CASE follow.st = "complete" /\ r = q
        BY <2>1, <2>2, <3>2, <3>3, <3>4, <3>5, <3>6, <3>10 DEF r
      <3> QED
        BY <3>7, <3>8, <3>9, <3>10
    <2> QED
      BY <1>4, <2>5, <2>6
  <1>5. CASE ~Pending /\ op.st = "none"
    <2>1. WorkerState(op) = op.st
      BY <1>5 DEF WorkerState
    <2>2. seen = op
      BY <1>1, <2>1 DEF Sound, Ops
    <2>3. r = seen
      BY <1>5, <2>2 DEF Proposal
    <2> QED
      BY <1>5, <2>2, <2>3 DEF Proposed
  <1> QED
    BY <1>2, <1>3, <1>4, <1>5

\* Reading changes nothing else.
LEMMA ReadingKeeps ==
    ASSUME CompleteInv, CompleteInv', AttendInv, drawn <= drawn',
           UNCHANGED <<outside, op, opFile, jobs, sidecar, closing, ledger>>
    PROVE  /\ Used' = Used /\ Older' /\ Order' /\ JobsFollowed' /\ OneJob' /\ Prepared'
           /\ (FreshRefresh' => Seen'.jid <= drawn') /\ (FreshStart' => Chosen'.jid <= drawn')
                 => Drawn'
  <1>1. /\ op' = op /\ opFile' = opFile /\ jobs' = jobs /\ side' = side /\ procs' = procs
        /\ revoked' = revoked /\ journal' = journal /\ closing' = closing /\ stranded' = stranded
    BY DEF outside, sidecar, ledger
  <1>2. Used' = Used
    BY <1>1 DEF Used, Attempt, SideAttempt
  <1>3. /\ drawn \in Nat /\ drawn' \in Nat /\ op.jid \in Nat /\ opFile.jid \in Nat
        /\ journal.jid \in Nat /\ \A j \in jobs : j.rec.jid \in Nat
        /\ \A p \in procs : p.jid \in Nat
    BY RestGives, Bounds, CallsGood, AttemptShape, JobFields
       DEF CompleteInv, Shape, RestShape, OutsideShape, Procs, Journals, Jids, GoodRec
  <1>4. \A u \in Used : u[1] \in Nat
    BY DEF AttendInv, Numbers, Older, Attempts, Jids
  <1>5. Older'
    BY <1>1, <1>2, <1>3, <1>4 DEF AttendInv, Numbers, Older, Own
  <1>6. Order'
    BY <1>1 DEF AttendInv, Numbers, Order, Own
  <1>7. Heirs /\ NoBegin
    BY <1>1, SameHeirs, SameSides
  <1>8. JobsFollowed' /\ OneJob'
    BY <1>1, <1>7, JobsKept DEF AttendInv
  <1>9. Prepared'
    <2>1. Abandoned' = Abandoned
      BY DEF Abandoned, ledger
    <2> QED
      BY <1>1, <1>7, <2>1, PreparedKept, FollowsItself, CallsGood DEF AttendInv, GoodRec
  <1>10. (FreshRefresh' => Seen'.jid <= drawn') /\ (FreshStart' => Chosen'.jid <= drawn') => Drawn'
    BY <1>1, <1>3 DEF AttendInv, Numbers, Drawn
  <1> QED
    BY <1>2, <1>5, <1>6, <1>8, <1>9, <1>10

LEMMA RefreshReadAttends ==
    ASSUME CompleteInv, CompleteInv', AttendInv, RefreshRead
    PROVE  AttendInv'
  <1>1. /\ UNCHANGED <<cast, outside, op, opFile, jobs, sidecar, closing, drawn, ledger>>
        /\ ~closing /\ calls["display"] = NoCall
    BY DEF RefreshRead
  <1>2. PICK rec \in ({Proposal(op)} \cup (IF Proposal(op).st = "complete" THEN {NoOp} ELSE {}))
                     \ {op} :
           calls' = [calls EXCEPT !["display"] = [what |-> "refresh", rec |-> rec,
                                                  fresh |-> TRUE]]
    BY DEF RefreshRead
  <1>3. /\ calls'["display"].rec = rec /\ calls'["handler"] = calls["handler"]
    <2>1. calls \in [{"display", "handler"} -> Calls]
      BY CallsGood DEF GoodCalls
    <2> QED
      BY <1>2, <2>1
  <1>4. Seen' = rec /\ Chosen' = Chosen /\ (FreshStart' <=> FreshStart)
    BY <1>3 DEF Seen, Chosen, FreshStart
  <1>5. Proposed(Proposal(op)) /\ Proposal(op).jid \in {op.jid, journal.jid}
    BY ProposalSays
  <1>6. drawn \in Nat /\ drawn <= drawn' /\ op.jid <= drawn /\ journal.jid <= drawn
    BY <1>1, JidsDrawn
  <1>7. rec = NoOp \/ rec = Proposal(op)
    BY <1>2
  <1>8. rec.jid <= drawn'
    BY <1>1, <1>5, <1>6, <1>7 DEF NoOp
  <1>9. Used' = Used /\ Older' /\ Order' /\ JobsFollowed' /\ OneJob' /\ Prepared' /\ Drawn'
    BY <1>1, <1>4, <1>6, <1>8, ReadingKeeps DEF AttendInv, Numbers, Drawn
  <1>10. Installs'
    BY <1>1, <1>4, <1>9 DEF AttendInv, Numbers, Installs, Own
  <1>11. \/ rec = NoOp
         \/ rec.adopted /\ rec.st = "paused"
         \/ /\ op.st # "none" /\ Follows(rec, op)
            /\ rec.st = "running" =>
                  op.st = "running" \/ HasUnit(op) \/ (SideMatches(side, op) /\ Active(side))
    BY <1>2, <1>5, <1>7 DEF Proposed
  <1>12. Displays'
    BY <1>1, <1>4, <1>11 DEF Displays, Follows, Attempt
  <1>13. Running' => op.st = "running" \/ HasUnit(op) \/ (SideMatches(side, op) /\ Active(side)
                                                          /\ op.st # "none")
    <2>1. rec = NoOp => rec.st # "running"
      BY DEF NoOp
    <2> QED
      BY <1>1, <1>4, <1>11, <2>1 DEF Running
  <1>14. /\ (HasJob(op) <=> HasJob(op)') /\ (HasUnit(op) <=> HasUnit(op)')
         /\ Attempt(op)' = Attempt(op) /\ Abandoned' = Abandoned
    BY <1>1 DEF HasJob, HasUnit, Attempt, Abandoned, ledger, outside
  <1>15. Worked'
    <2>1. SideMatches(side, op) /\ Active(side) /\ op.st # "none" =>
             HasJob(op) \/ Attempt(op) \in Abandoned
      BY <1>1 DEF AttendInv, Shown, Prepared, HasJob
    <2>2. op.st = "running" => HasJob(op) \/ HasUnit(op) \/ Attempt(op) \in Abandoned
      BY <1>1 DEF AttendInv, Shown, Worked, Running
    <2> QED
      BY <1>13, <1>14, <2>1, <2>2 DEF Worked
  <1>16. CanceledWorked'
    <2>1. side' = side /\ SideAttempt(side)' = SideAttempt(side)
      BY <1>1 DEF sidecar, SideAttempt
    <2>2. side.st = "canceled" => ~Active(side)
      BY DEF Active
    <2>3. op.st = "running" /\ side.st = "canceled" /\ SideAttempt(side) = Attempt(op) =>
             HasUnit(op) \/ Attempt(op) \in Abandoned
      BY <1>1 DEF AttendInv, Shown, CanceledWorked, Running
    <2> QED
      BY <1>13, <1>14, <2>1, <2>2, <2>3 DEF CanceledWorked
  <1> QED
    BY <1>9, <1>10, <1>12, <1>15, <1>16 DEF AttendInv, Numbers, Shown

\* A handler reads what it will install.
LEMMA StartReadAttends ==
    ASSUME CompleteInv, CompleteInv', AttendInv, drawn <= drawn',
           UNCHANGED <<outside, op, opFile, jobs, sidecar, closing, ledger>>, NEW rec,
           calls' = [calls EXCEPT !["handler"] = [what |-> "start", rec |-> rec, fresh |-> TRUE]],
           op.st # "running", rec.jid <= drawn',
           ~rec.adopted =>
              /\ \A u \in Used : u[2] = FALSE /\ u[1] = rec.jid => u[3] < rec.attempt
              /\ Own(op, rec.jid) => op.attempt < rec.attempt
              /\ Own(op, rec.jid) \/ \A j \in jobs : j.rec.jid # rec.jid
    PROVE  AttendInv'
  <1>1. /\ op' = op /\ opFile' = opFile /\ jobs' = jobs /\ side' = side /\ procs' = procs
        /\ closing' = closing /\ Abandoned' = Abandoned
    BY DEF outside, sidecar, ledger, Abandoned
  <1>2. calls'["handler"].rec = rec /\ calls'["display"] = calls["display"]
    <2>1. calls \in [{"display", "handler"} -> Calls]
      BY CallsGood DEF GoodCalls
    <2> QED
      BY <2>1
  <1>3. Chosen' = rec /\ Seen' = Seen /\ (FreshRefresh' <=> FreshRefresh)
    BY <1>2 DEF Seen, Chosen, FreshRefresh
  <1>4. FreshRefresh => Seen.jid <= drawn'
    <2>1. drawn \in Nat /\ drawn' \in Nat /\ Seen.jid \in Nat
      BY RestGives, Bounds, CallsGood, AttemptShape
         DEF CompleteInv, Shape, RestShape, Jids, GoodRec, GoodCalls, Seen
    <2> QED
      BY <2>1 DEF AttendInv, Numbers, Drawn
  <1>5. Used' = Used /\ Older' /\ Order' /\ JobsFollowed' /\ OneJob' /\ Prepared' /\ Drawn'
    BY <1>3, <1>4, ReadingKeeps
  <1>6. Installs'
    BY <1>1, <1>3, <1>5 DEF Installs, Own
  <1>7. Displays' /\ Worked' /\ CanceledWorked'
    <2>1. ProcsNamed /\ KeepSeen
      BY <1>1, <1>3, SameProcs DEF KeepSeen
    <2> QED
      BY <1>1, <2>1, WorkKept DEF AttendInv
  <1> QED
    BY <1>5, <1>6, <1>7 DEF AttendInv, Numbers, Shown

LEMMA AskReadAttends ==
    ASSUME CompleteInv, CompleteInv', AttendInv, NEW ask \in cast.asks, AskRead(ask)
    PROVE  AttendInv'
  <1> DEFINE rec == [NoOp EXCEPT !.st = "running", !.kind = KindOf(ask), !.mode = ModeOf(ask),
                                 !.jid = drawn + 1, !.attempt = 1, !.target = Target]
  <1>1. /\ UNCHANGED <<outside, op, opFile, jobs, sidecar, closing, ledger>>
        /\ drawn' = drawn + 1 /\ op.st # "running"
        /\ calls' = [calls EXCEPT !["handler"] = [what |-> "start", rec |-> rec, fresh |-> TRUE]]
    BY DEF AskRead
  <1>2. rec.jid = drawn + 1
    BY DEF NoOp
  <1> HIDE DEF rec
  <1>3. drawn \in Nat /\ op.jid <= drawn /\ \A j \in jobs : j.rec.jid <= drawn
    BY JidsDrawn
  <1>4. op.jid \in Nat /\ \A j \in jobs : j.rec.jid \in Nat
    BY Bounds, CallsGood, AttemptShape, JobFields DEF GoodRec, Jids
  <1>5. \A u \in Used : u[1] \in Nat /\ (u[2] = FALSE => u[1] <= drawn)
    BY DEF AttendInv, Numbers, Older, Attempts, Jids
  <1>6. /\ \A u \in Used : ~(u[2] = FALSE /\ u[1] = rec.jid)
        /\ op.jid # rec.jid /\ \A j \in jobs : j.rec.jid # rec.jid
        /\ drawn <= drawn' /\ rec.jid <= drawn'
    BY <1>1, <1>2, <1>3, <1>4, <1>5
  <1> QED
    BY <1>1, <1>6, StartReadAttends DEF Own

LEMMA RetryReadAttends ==
    ASSUME CompleteInv, CompleteInv', AttendInv, RetryRead
    PROVE  AttendInv'
  <1> DEFINE r == IF Pending THEN WithProgress(op, journal) ELSE op
             rec == [r EXCEPT !.st = "running", !.attempt = @ + 1]
  <1>1. /\ UNCHANGED <<outside, op, opFile, jobs, sidecar, closing, ledger, drawn>>
        /\ op.st \in {"failed", "paused"} /\ CanRetry(op)
        /\ calls' = [calls EXCEPT !["handler"] = [what |-> "start", rec |-> rec, fresh |-> TRUE]]
    BY DEF RetryRead
  <1>2. Sound(op) /\ OutsideShape
    BY CallsGood DEF GoodRec, CompleteInv, Shape
  <1>3. Sound(r) /\ r.jid = op.jid /\ r.adopted = op.adopted /\ r.attempt = op.attempt
    <2>1. CASE Pending
      <3>1. op.jid = journal.jid
        BY <1>1, <2>1 DEF CanRetry
      <3> QED
        BY <1>1, <1>2, <2>1, <3>1, ProgressKept
    <2> QED
      BY <1>2, <2>1
  <1> HIDE DEF r
  <1>4. rec.jid = op.jid /\ rec.adopted = op.adopted /\ rec.attempt = op.attempt + 1
    BY <1>3 DEF Sound, Ops
  <1> HIDE DEF rec
  <1>5. op.attempt \in Nat /\ drawn \in Nat /\ op.jid <= drawn /\ drawn <= drawn'
    BY <1>1, <1>2, AttemptShape, JidsDrawn
  <1>6. ~rec.adopted => Own(op, rec.jid)
    BY <1>1, <1>4 DEF Own
  <1>7. ASSUME ~rec.adopted, NEW u \in Used, u[2] = FALSE, u[1] = rec.jid
        PROVE  u[3] < rec.attempt
    <2>1. u[3] <= op.attempt /\ u \in Attempts
      BY <1>6, <1>7 DEF AttendInv, Numbers, Older
    <2>2. u[3] \in Nat
      BY <2>1, Bounds DEF Attempts
    <2> QED
      BY <1>4, <1>5, <2>1, <2>2
  <1>8. op.attempt < rec.attempt /\ rec.jid <= drawn' /\ op.st # "running"
    BY <1>1, <1>4, <1>5
  <1> QED
    BY <1>1, <1>5, <1>6, <1>7, <1>8, StartReadAttends

(***************************************************************************)
(* A job moves on.                                                         *)
(***************************************************************************)
\* Job j becomes k: the receipts stay, a preparation ends where its job leaves
\* it, unless that cannot be saved.
Works(j, k) ==
    /\ jobs' = (jobs \ {j}) \cup {k} /\ k.rec = j.rec /\ k.pc # "wait"
    /\ UNCHANGED <<op, opFile, calls, closing, drawn, journal, revoked, missed>>
    /\ stranded \subseteq stranded' /\ procs' \subseteq procs /\ ProcsNamed
    /\ NoBegin
    /\ side'.st = "canceled" => side' = side
    /\ k.pc \in Prep \cup Bound => k.of = j.of
    /\ k.pc \in Prep => j.pc \in Prep
    /\ k.pc \in Bound => \/ j.pc \in Bound
                         \/ j.pc = "ready" /\ InHand(j) /\ ~Active(side') /\ ~Active(sideFile')
    /\ k.pc = "outcome" => \/ j.pc \in Bound \cup {"wait"}
                           \/ j.pc \in Prep /\ (\/ closing \/ Attempt(j.rec) \in stranded'
                                                \/ ~(SideMatches(side', j.rec) /\ Active(side')))
    /\ k.pc = "save" => /\ j.pc = "outcome"
                        /\ Follows(k.result, k.rec) /\ k.result.st \in {"complete", "failed"}

LEMMA WorksFollowed ==
    ASSUME CompleteInv, CompleteInv', AttendInv, NEW j \in jobs, NEW k, Works(j, k)
    PROVE  JobsFollowed' /\ OneJob'
  <1>1. Heirs /\ NoBegin /\ closing' = closing /\ stranded \subseteq stranded'
    BY SameHeirs DEF Works
  <1>2. \A i \in jobs' : i = k \/ (i \in jobs /\ i # j)
    BY DEF Works
  <1>3. Followed(j) /\ Over(j)
    BY DEF AttendInv, JobsFollowed
  <1>4. Followed(j)' /\ Over(j)'
    BY <1>1, <1>3, FollowedKept, OverKept
  <1>5. k.rec = j.rec /\ k \in Jobs
    BY DEF Works, CompleteInv, Shape, JobShape
  <1>6. Followed(k)'
    <2>1. ~k.rec.adopted => \A rec \in {op', opFile'} :
             rec.st # "none" /\ Attempt(rec) = Attempt(k.rec) => Follows(rec, k.rec)
      BY <1>4, <1>5 DEF Followed, Follows, Attempt
    <2>2. k.pc \in Prep \cup Bound => k.of = Attempt(k.rec)
      BY <1>3, <1>5 DEF Works, Followed, Prep, Bound
    <2>3. k.pc = "save" => Follows(k.result, k.rec) /\ k.result.st \in {"complete", "failed"}
      BY DEF Works
    <2> QED
      BY <2>1, <2>2, <2>3 DEF Followed, Follows, Attempt
  <1>7. ASSUME k.pc \in {"outcome", "save"}, SideMatches(side', k.rec), Active(side')
        PROVE  closing' \/ Attempt(k.rec) \in stranded'
    <2>1. InHand(j)
      BY <1>1, <1>5, <1>7, TwinMatches DEF NoBegin, InHand
    <2>2. j.pc \notin Bound \cup {"wait"}
      BY <1>3, <2>1 DEF Over, InHand
    <2>3. CASE k.pc = "save"
      BY <1>1, <1>3, <1>5, <2>1, <2>3 DEF Works, Over
    <2>4. CASE k.pc = "outcome"
      BY <1>1, <1>5, <1>7, <2>2, <2>4 DEF Works
    <2> QED
      BY <1>7, <2>3, <2>4
  <1>8. k.pc \in Bound \cup {"wait"} =>
           \A s \in {side', sideFile'} : ~(SideMatches(s, k.rec) /\ Active(s))
    <2>1. CASE j.pc \in Bound
      BY <1>1, <1>3, <1>5, <2>1, NoneBegun DEF Over
    <2> QED
      BY <2>1 DEF Works
  <1>9. Over(k)'
    BY <1>7, <1>8 DEF Over, InHand, SideMatches, Active, Attempt
  <1>10. \A i \in jobs : Followed(i)' /\ Over(i)'
    BY <1>1, FollowedKept, OverKept DEF AttendInv, JobsFollowed
  <1>11. JobsFollowed'
    BY <1>2, <1>6, <1>9, <1>10 DEF JobsFollowed
  <1>12. OneJob'
    BY <1>2, <1>5 DEF AttendInv, OneJob, Attempt
  <1> QED
    BY <1>11, <1>12

LEMMA WorksAttends ==
    ASSUME CompleteInv, CompleteInv', AttendInv, NEW j \in jobs, NEW k, Works(j, k)
    PROVE  AttendInv'
  <1>1. JobsFollowed' /\ OneJob'
    BY WorksFollowed
  <1>2. /\ op' = op /\ opFile' = opFile /\ journal' = journal /\ drawn' = drawn
        /\ closing' = closing /\ KeepCalls /\ ProcsNamed /\ NoBegin
        /\ Abandoned \subseteq Abandoned' /\ k.rec = j.rec
        /\ jobs' = (jobs \ {j}) \cup {k}
    BY SameCalls DEF Works, Abandoned
  <1>3. Numbers'
    <2>1. Frugal
      <3>1. \A i \in jobs' : \E l \in jobs : i.rec = l.rec
        BY <1>2
      <3>2. \A p \in procs' : p.by # "terminal" => p.of \in Used
        BY DEF Works, Used
      <3>3. side'.st = "canceled" => SideAttempt(side') \in Used
        BY DEF Works, Used
      <3> QED
        BY <3>1, <3>2, <3>3 DEF Works, Frugal
    <2>2. SameAttempts
      BY <1>2 DEF SameAttempts, OfPlace
    <2>3. /\ drawn <= drawn' /\ op'.jid <= drawn' /\ opFile'.jid <= drawn'
          /\ journal'.jid <= drawn' /\ \A p \in procs' : p.jid <= drawn'
      BY <1>2, JidsDrawn DEF Works
    <2> QED
      BY <2>1, <2>2, <2>3, NumbersKept DEF AttendInv
  <1>4. \A i \in jobs : \E l \in jobs' : l.rec = i.rec
    BY <1>2
  <1>5. side'.st = "canceled" => side.st = "canceled" /\ SideAttempt(side') = SideAttempt(side)
    BY DEF Works
  <1>6. Displays' /\ Worked' /\ CanceledWorked'
    BY <1>2, <1>4, <1>5, WorkKept DEF AttendInv, KeepCalls
  <1>7. Prepared'
    <2> SUFFICES ASSUME op.st # "none", Active(side'), SideMatches(side', op), ~closing,
                        Attempt(op) \notin Abandoned'
                 PROVE  \E i \in jobs' : Attempt(i.rec) = Attempt(op)
                                         /\ SideMatches(side', i.rec) /\ i.pc \in Prep
      BY <1>2 DEF Prepared, Active, SideMatches, Attempt, Prep
    <2>1. Active(side) /\ Twin(side', side) /\ SideMatches(side, op)
      BY <1>2, TwinMatches DEF NoBegin
    <2>2. PICK i \in jobs : Attempt(i.rec) = Attempt(op) /\ SideMatches(side, i.rec) /\ i.pc \in Prep
      BY <1>2, <2>1 DEF AttendInv, Shown, Prepared
    <2>3. SideMatches(side', i.rec)
      BY <2>1, <2>2, TwinMatches
    <2>4. CASE i # j
      BY <1>2, <2>2, <2>3, <2>4
    <2>5. CASE i = j
      <3>1. Attempt(j.rec) \notin stranded'
        BY <2>2, <2>5 DEF Abandoned
      <3>2. k.pc \in Prep
        <4>1. k \in Jobs
          BY <1>2 DEF CompleteInv, Shape, JobShape
        <4>2. k.pc \notin Bound
          BY <2>2, <2>5 DEF Works, Prep, Bound
        <4>3. k.pc # "outcome" /\ k.pc # "save" /\ k.pc # "wait"
          BY <2>2, <2>3, <2>5, <3>1 DEF Works, Prep, Bound
        <4> QED
          BY <4>1, <4>2, <4>3 DEF Jobs, Prep, Bound
      <3> QED
        BY <1>2, <2>2, <2>3, <2>5, <3>2
    <2> QED
      BY <2>4, <2>5
  <1> QED
    BY <1>1, <1>3, <1>6, <1>7 DEF AttendInv, Shown

LEMMA GoWorks ==
    ASSUME CompleteInv, NEW j \in jobs, NEW pc \in Prep \cup Bound \cup {"outcome"}, Go(j, pc),
           UNCHANGED <<op, opFile, calls, closing, drawn, journal, procs, revoked, missed>>,
           stranded \subseteq stranded', NoBegin, side'.st = "canceled" => side' = side,
           pc \in Prep => j.pc \in Prep,
           pc \in Bound => \/ j.pc \in Bound
                           \/ j.pc = "ready" /\ InHand(j) /\ ~Active(side') /\ ~Active(sideFile'),
           pc = "outcome" => \/ j.pc \in Bound \cup {"wait"}
                             \/ j.pc \in Prep /\ (\/ closing \/ Attempt(j.rec) \in stranded'
                                                  \/ ~(SideMatches(side', j.rec) /\ Active(side')))
    PROVE  \E k : Works(j, k)
  <1> DEFINE k == [j EXCEPT !.pc = pc]
  <1>1. k.rec = j.rec /\ k.of = j.of /\ k.pc = pc /\ jobs' = (jobs \ {j}) \cup {k}
    BY JobFields DEF Go, Jobs
  <1> HIDE DEF k
  <1>2. pc # "wait" /\ pc # "save"
    BY DEF Prep, Bound
  <1>3. Works(j, k)
    BY <1>1, <1>2, SameProcs DEF Works
  <1> QED
    BY <1>3

\* A save of the preparation in hand begins none.
LEMMA SavedInHand ==
    ASSUME Active(side), NEW p, Twin(p, side), p.st # "canceled",
           SideSaved(p) \/ SideNotSaved(p) \/ UNCHANGED sidecar
    PROVE  NoBegin /\ (side'.st = "canceled" => side' = side)
  <1>1. \/ side' = p /\ sideFile' = p
        \/ side' = side /\ (sideFile' = sideFile \/ sideFile' = p)
    BY DEF SideSaved, SideNotSaved, sidecar
  <1>2. Twin(side, side) /\ Twin(sideFile, sideFile)
    BY DEF Twin
  <1> QED
    BY <1>1, <1>2 DEF NoBegin, Active

\* What the preparation changes in its sidecar.
LEMMA SideTwins ==
    ASSUME CompleteInv, Active(side)
    PROVE  /\ side.st # "canceled"
           /\ \A stuck : LET p == [side EXCEPT !.stuck = stuck] IN
                            Twin(p, side) /\ p.st # "canceled"
           /\ \A st : LET p == [side EXCEPT !.st = st] IN Twin(p, side) /\ p.st = st
           /\ LET p == [side EXCEPT !.failures = 0] IN Twin(p, side) /\ p.st # "canceled"
           /\ LET p == [side EXCEPT !.failures = @ + 1] IN Twin(p, side) /\ p.st # "canceled"
           /\ LET p == [[side EXCEPT !.failures = 0] EXCEPT !.msg = FALSE, !.st = "rechecking"]
              IN Twin(p, side) /\ p.st # "canceled"
           /\ LET p == [side EXCEPT !.round = @ + 1, !.msg = TRUE, !.st = "lead_fixing_blockers"]
              IN Twin(p, side) /\ p.st # "canceled"
  <1>1. side \in Sides /\ side.st # "canceled"
    BY DEF CompleteInv, Shape, SideShape, Active
  <1> QED
    BY <1>1 DEF Sides, Twin

\* The preparation's steps, by where they leave the job.
LEMMA UpdateWorks ==
    ASSUME CompleteInv, NEW j \in jobs, j.pc \in Prep, NEW p, Twin(p, side), p.st # "canceled",
           UNCHANGED <<op, opFile, calls, closing, drawn, journal, procs, revoked, missed>>,
           InHand(j),
           \/ \E pc \in Prep : SideSaved(p) /\ Go(j, pc) /\ UNCHANGED stranded
           \/ \E pc \in Prep : SideNotSaved(p) /\ Go(j, pc) /\ UNCHANGED stranded
           \/ Left(j, p)
           \/ SideSaved(p) /\ ~Active(p) /\ Go(j, "outcome") /\ UNCHANGED stranded
           \/ /\ j.pc = "ready" /\ SideSaved(p) /\ ~Active(p) /\ Go(j, "check")
              /\ UNCHANGED stranded
    PROVE  \E k : Works(j, k)
  <1>1. SideSaved(p) \/ SideNotSaved(p)
    BY DEF Left
  <1>2. NoBegin /\ (side'.st = "canceled" => side' = side)
    BY <1>1, SavedInHand DEF InHand
  <1>3. CASE \E pc \in Prep : Go(j, pc) /\ UNCHANGED stranded
    <2>1. PICK pc \in Prep : Go(j, pc) /\ UNCHANGED stranded
      BY <1>3
    <2>2. pc \notin Bound /\ pc # "outcome"
      BY DEF Prep, Bound
    <2> QED
      BY <1>2, <2>1, <2>2, GoWorks
  <1>4. CASE Left(j, p)
    <2>1. Go(j, "outcome") /\ Attempt(j.rec) \in stranded' /\ stranded \subseteq stranded'
      BY <1>4 DEF Left
    <2>2. "outcome" \notin Prep /\ "outcome" \notin Bound
      BY DEF Prep, Bound
    <2> QED
      BY <1>2, <2>1, <2>2, GoWorks
  <1>5. CASE SideSaved(p) /\ ~Active(p) /\ Go(j, "outcome") /\ UNCHANGED stranded
    <2>1. ~Active(side')
      BY <1>5 DEF SideSaved
    <2>2. "outcome" \notin Prep /\ "outcome" \notin Bound
      BY DEF Prep, Bound
    <2> QED
      BY <1>2, <1>5, <2>1, <2>2, GoWorks
  <1>6. CASE /\ j.pc = "ready" /\ SideSaved(p) /\ ~Active(p) /\ Go(j, "check")
             /\ UNCHANGED stranded
    <2>1. ~Active(side') /\ ~Active(sideFile')
      BY <1>6 DEF SideSaved
    <2>2. "check" \notin Prep /\ "check" # "outcome" /\ "check" \in Bound
      BY DEF Prep, Bound
    <2> QED
      BY <1>2, <1>6, <2>1, <2>2, GoWorks
  <1> QED
    BY <1>3, <1>4, <1>5, <1>6

LEMMA PrepWorks ==
    ASSUME CompleteInv, NEW j \in jobs,
           \/ PrepCheck(j) \/ PrepReady(j) \/ PrepCompose(j) \/ PrepRepair(j)
           \/ PrepTurn(j) \/ PrepUnknown(j)
    PROVE  \E k : Works(j, k)
  <1>1. /\ UNCHANGED <<op, opFile, calls, closing, drawn, journal, procs, revoked, missed>>
        /\ j.pc \in Prep
    BY DEF PrepCheck, PrepReady, PrepCompose, PrepRepair, PrepTurn, PrepUnknown, outside,
       receipts, Prep
  <1>2. InHand(j)
    BY DEF PrepCheck, PrepReady, PrepCompose, PrepRepair, PrepTurn, PrepUnknown, Admitted,
       Admit, Update, Left
  <1>3. Active(side)
    BY <1>2 DEF InHand
  <1>4. CASE PrepCheck(j)
    <2>1. PICK stuck : LET p == [side EXCEPT !.stuck = stuck] IN
             \/ stuck = 0 /\ Update(j, p, "ready")
             \/ Update(j, p, IF stuck >= MaxStuck THEN "fail" ELSE "blocked")
             \/ Left(j, p)
      BY <1>4 DEF PrepCheck
    <2> DEFINE p == [side EXCEPT !.stuck = stuck]
    <2>2. Twin(p, side) /\ p.st # "canceled"
      BY <1>3, SideTwins
    <2>3. \/ Update(j, p, "ready") \/ Update(j, p, "fail") \/ Update(j, p, "blocked")
          \/ Left(j, p)
      BY <2>1
    <2> HIDE DEF p
    <2>4. (\E pc \in Prep : SideSaved(p) /\ Go(j, pc) /\ UNCHANGED stranded) \/ Left(j, p)
      BY <2>3 DEF Update, Prep
    <2> QED
      BY <1>1, <1>2, <2>2, <2>4, UpdateWorks
  <1>5. CASE PrepReady(j)
    <2> DEFINE p == [side EXCEPT !.st = "archiving"]
    <2>1. Update(j, p, "check") \/ Left(j, p)
      BY <1>5 DEF PrepReady
    <2>2. Twin(p, side) /\ p.st = "archiving"
      BY <1>3, SideTwins
    <2> HIDE DEF p
    <2>3. ~Active(p) /\ p.st # "canceled"
      BY <2>2 DEF Active
    <2>4. \/ j.pc = "ready" /\ SideSaved(p) /\ ~Active(p) /\ Go(j, "check") /\ UNCHANGED stranded
          \/ Left(j, p)
      BY <1>5, <2>1, <2>3 DEF Update, PrepReady
    <2> QED
      BY <1>1, <1>2, <2>2, <2>3, <2>4, UpdateWorks
  <1>6. CASE PrepCompose(j)
    <2> DEFINE p == [side EXCEPT !.round = @ + 1, !.msg = TRUE, !.st = "lead_fixing_blockers"]
    <2>1. Admit(j, p, "prepare")
      BY <1>6 DEF PrepCompose
    <2>2. Twin(p, side) /\ p.st # "canceled"
      BY <1>3, SideTwins
    <2> HIDE DEF p
    <2>3. \/ \E pc \in Prep : SideSaved(p) /\ Go(j, pc) /\ UNCHANGED stranded
          \/ \E pc \in Prep : SideNotSaved(p) /\ Go(j, pc) /\ UNCHANGED stranded
      BY <2>1 DEF Admit, Prep
    <2> QED
      BY <1>1, <1>2, <2>2, <2>3, UpdateWorks
  <1>7. CASE PrepRepair(j)
    <2> DEFINE p == [side EXCEPT !.st = "lead_fixing_blockers"]
    <2>1. Admit(j, p, "repair")
      BY <1>7 DEF PrepRepair
    <2>2. Twin(p, side) /\ p.st # "canceled"
      BY <1>3, SideTwins
    <2> HIDE DEF p
    <2>3. \/ \E pc \in Prep : SideSaved(p) /\ Go(j, pc) /\ UNCHANGED stranded
          \/ \E pc \in Prep : SideNotSaved(p) /\ Go(j, pc) /\ UNCHANGED stranded
      BY <2>1 DEF Admit, Prep
    <2> QED
      BY <1>1, <1>2, <2>2, <2>3, UpdateWorks
  <1>8. CASE PrepTurn(j)
    <2> DEFINE polled == [side EXCEPT !.failures = 0]
               p == IF turns[Turn(side)] = "done"
                    THEN [polled EXCEPT !.msg = FALSE, !.st = "rechecking"] ELSE polled
    <2>1. Update(j, p, "prepare") \/ Left(j, p)
      BY <1>8 DEF PrepTurn
    <2>2. Twin(p, side) /\ p.st # "canceled"
      BY <1>3, SideTwins
    <2> HIDE DEF p
    <2>3. (\E pc \in Prep : SideSaved(p) /\ Go(j, pc) /\ UNCHANGED stranded) \/ Left(j, p)
      BY <2>1 DEF Update, Prep
    <2> QED
      BY <1>1, <1>2, <2>2, <2>3, UpdateWorks
  <1>9. CASE PrepUnknown(j)
    <2> DEFINE p == [side EXCEPT !.failures = @ + 1]
               pc == IF p.failures < MaxFailures THEN "prepare" ELSE "fail"
    <2>1. \/ side' = p /\ sideFile' = p /\ UNCHANGED stranded /\ Go(j, pc)
          \/ /\ UNCHANGED side /\ sideFile' \in {sideFile, p} /\ Go(j, "outcome")
             /\ stranded' = stranded \cup {Attempt(j.rec)}
      BY <1>9 DEF PrepUnknown
    <2>2. Twin(p, side) /\ p.st # "canceled" /\ Twin(side, side) /\ Twin(sideFile, sideFile)
      BY <1>3, SideTwins DEF Twin
    <2>3. pc \in Prep /\ pc \notin Bound /\ pc # "outcome"
      BY DEF Prep, Bound
    <2> HIDE DEF p, pc
    <2>4. NoBegin /\ (side'.st = "canceled" => side' = side)
      BY <1>3, <2>1, <2>2 DEF NoBegin, Active
    <2>5. CASE side' = p /\ sideFile' = p /\ UNCHANGED stranded /\ Go(j, pc)
      BY <1>1, <2>3, <2>4, <2>5, GoWorks
    <2>6. CASE /\ UNCHANGED side /\ sideFile' \in {sideFile, p} /\ Go(j, "outcome")
               /\ stranded' = stranded \cup {Attempt(j.rec)}
      <3>1. "outcome" \notin Prep /\ "outcome" \notin Bound
        BY DEF Prep, Bound
      <3> QED
        BY <1>1, <2>4, <2>6, <3>1, GoWorks
    <2> QED
      BY <2>1, <2>5, <2>6
  <1> QED
    BY <1>4, <1>5, <1>6, <1>7, <1>8, <1>9

LEMMA EndWorks ==
    ASSUME CompleteInv, NEW j \in jobs,
           PrepRefused(j) \/ PrepFail(j) \/ ExecCheck(j) \/ Canceled(j)
    PROVE  \E k : Works(j, k)
  <1>1. /\ UNCHANGED <<op, opFile, calls, closing, drawn, journal, revoked, missed>>
    BY DEF PrepRefused, PrepFail, ExecCheck, Canceled, outside, receipts, ledger
  <1>2. "outcome" \notin Prep /\ "outcome" \notin Bound /\ "fail" \in Prep /\ "fail" \notin Bound
        /\ "launch" \in Bound /\ "launch" \notin Prep /\ "check" \in Bound
    BY DEF Prep, Bound
  <1>3. CASE PrepRefused(j)
    <2>1. /\ Go(j, "fail") /\ UNCHANGED <<sidecar, stranded, procs>> /\ j.pc \in Prep
      BY <1>3 DEF PrepRefused, ledger, outside, Prep
    <2>2. NoBegin /\ side' = side
      BY <2>1, SameSides DEF sidecar
    <2> QED
      BY <1>1, <1>2, <2>1, <2>2, GoWorks
  <1>4. CASE PrepFail(j)
    <2> DEFINE p == [side EXCEPT !.st = "failed"]
    <2>1. /\ \/ Update(j, p, "outcome") \/ Left(j, p)
             \/ (~InHand(j) \/ closing) /\ Go(j, "outcome") /\ UNCHANGED <<sidecar, stranded, faults>>
          /\ j.pc = "fail" /\ UNCHANGED procs
      BY <1>4 DEF PrepFail, outside
    <2>2. CASE Update(j, p, "outcome") \/ Left(j, p)
      <3>1. InHand(j) /\ Active(side)
        BY <2>2 DEF Update, Left, InHand
      <3>2. Twin(p, side) /\ p.st = "failed"
        BY <3>1, SideTwins
      <3> HIDE DEF p
      <3>3. ~Active(p) /\ p.st # "canceled"
        BY <3>2 DEF Active
      <3>4. \/ SideSaved(p) /\ ~Active(p) /\ Go(j, "outcome") /\ UNCHANGED stranded
            \/ Left(j, p)
        BY <2>2, <3>3 DEF Update
      <3> QED
        BY <1>1, <1>2, <2>1, <3>1, <3>2, <3>3, <3>4, UpdateWorks
    <2>3. CASE (~InHand(j) \/ closing) /\ Go(j, "outcome") /\ UNCHANGED <<sidecar, stranded, faults>>
      <3>1. NoBegin /\ side' = side
        BY <2>3, SameSides DEF sidecar
      <3>2. closing \/ ~(SideMatches(side', j.rec) /\ Active(side'))
        BY <2>3, <3>1 DEF InHand
      <3> QED
        BY <1>1, <1>2, <2>1, <2>3, <3>1, <3>2, GoWorks
    <2> QED
      BY <2>1, <2>2, <2>3
  <1>5. CASE ExecCheck(j)
    <2>1. /\ Go(j, "launch") \/ Go(j, "outcome")
          /\ UNCHANGED <<sidecar, stranded, procs>> /\ j.pc \in Bound
      BY <1>5 DEF ExecCheck, ledger, outside, Bound
    <2>2. NoBegin /\ side' = side
      BY <2>1, SameSides DEF sidecar
    <2>3. CASE Go(j, "launch")
      BY <1>1, <1>2, <2>1, <2>2, <2>3, GoWorks
    <2>4. CASE Go(j, "outcome")
      BY <1>1, <1>2, <2>1, <2>2, <2>4, GoWorks
    <2> QED
      BY <2>1, <2>3, <2>4
  <1>6. CASE Canceled(j)
    <2>1. /\ closing /\ Go(j, "outcome") /\ j.pc \notin {"fail", "outcome", "save"}
          /\ procs' = procs \ {p \in Mine(j) : p.by = "job"} /\ UNCHANGED <<sidecar, stranded>>
      BY <1>6 DEF Canceled, ledger
    <2>2. NoBegin /\ side' = side
      BY <2>1, SameSides DEF sidecar
    <2>3. j.pc \in Bound \cup {"wait"} \/ j.pc \in Prep
      BY <2>1, JobFields DEF Jobs, Prep, Bound
    <2>4. procs' \subseteq procs /\ ProcsNamed
      BY <2>1 DEF ProcsNamed
    <2> DEFINE k == [j EXCEPT !.pc = "outcome"]
    <2>5. k.rec = j.rec /\ k.pc = "outcome" /\ jobs' = (jobs \ {j}) \cup {k}
      BY <2>1, JobFields DEF Go, Jobs
    <2> HIDE DEF k
    <2>6. Works(j, k)
      BY <1>1, <1>2, <2>1, <2>2, <2>3, <2>4, <2>5 DEF Works
    <2> QED
      BY <2>6
  <1> QED
    BY <1>3, <1>4, <1>5, <1>6

LEMMA WaitWorks ==
    ASSUME CompleteInv, NEW j \in jobs, Wait(j)
    PROVE  \E k : Works(j, k)
  <1>1. /\ UNCHANGED <<op, opFile, calls, closing, drawn, journal, revoked, missed, sidecar, stranded>>
        /\ j.pc = "wait"
    BY DEF Wait, receipts, ledger
  <1>2. PICK p \in Mine(j) :
           \/ /\ jobs' = (jobs \ {j}) \cup {[j EXCEPT !.pc = "outcome", !.ok = (p.st = "ok")]}
              /\ procs' = IF p.by = "job" THEN procs \ {p} ELSE procs
           \/ Go(j, "outcome") /\ UNCHANGED procs
    BY DEF Wait
  <1>3. procs' \subseteq procs /\ ProcsNamed
    BY <1>2 DEF ProcsNamed
  <1>4. \E k : k.rec = j.rec /\ k.pc = "outcome" /\ jobs' = (jobs \ {j}) \cup {k}
    <2> DEFINE a == [j EXCEPT !.pc = "outcome", !.ok = (p.st = "ok")]
               b == [j EXCEPT !.pc = "outcome"]
    <2>1. a.rec = j.rec /\ a.pc = "outcome" /\ b.rec = j.rec /\ b.pc = "outcome"
      BY JobFields DEF Jobs
    <2>2. jobs' = (jobs \ {j}) \cup {a} \/ jobs' = (jobs \ {j}) \cup {b}
      BY <1>2 DEF Go
    <2> HIDE DEF a, b
    <2> QED
      BY <2>1, <2>2
  <1>5. PICK k : k.rec = j.rec /\ k.pc = "outcome" /\ jobs' = (jobs \ {j}) \cup {k}
    BY <1>4
  <1>6. NoBegin /\ side' = side
    BY <1>1, SameSides DEF sidecar
  <1>7. Works(j, k)
    BY <1>1, <1>3, <1>5, <1>6 DEF Works, Prep, Bound
  <1> QED
    BY <1>7

LEMMA OutcomeWorks ==
    ASSUME CompleteInv, NEW j \in jobs, Outcome(j)
    PROVE  \E k : Works(j, k)
  <1> DEFINE failed == [j.rec EXCEPT !.st = "failed"]
             known == Pending /\ journal.kind = failed.kind /\ journal.jid = failed.jid
                      /\ EvidenceMatches(failed, journal)
             won == [j.rec EXCEPT !.st = "complete"]
             next == WithProgress(failed, journal)
             followed == BindTarget(next)
             result == IF j.ok THEN won ELSE IF known THEN followed ELSE failed
             k == [j EXCEPT !.pc = "save", !.result = result]
  <1>1. /\ UNCHANGED <<op, opFile, calls, closing, drawn, journal, revoked, missed, procs, stranded>>
        /\ UNCHANGED sidecar /\ j.pc = "outcome" /\ jobs' = (jobs \ {j}) \cup {k}
    BY DEF Outcome, outside, receipts, ledger
  <1>2. j \in Jobs /\ Sound(j.rec) /\ Faithful(j.rec) /\ j.rec.st = "running"
    BY JobFields
  <1>3. /\ Sound(failed) /\ failed.st = "failed" /\ failed.kind = j.rec.kind
        /\ failed.jid = j.rec.jid /\ failed.adopted = j.rec.adopted
        /\ failed.target = j.rec.target /\ failed.attempt = j.rec.attempt
        /\ failed.mode = j.rec.mode /\ failed.expected = j.rec.expected
        /\ failed.jt = j.rec.jt
    BY <1>2, StateKept
  <1>4. /\ won.st = "complete" /\ won.kind = j.rec.kind /\ won.jid = j.rec.jid
        /\ won.adopted = j.rec.adopted /\ won.target = j.rec.target
        /\ won.attempt = j.rec.attempt /\ won.mode = j.rec.mode
        /\ won.expected = j.rec.expected
    BY <1>2, StateKept
  <1>5. k.rec = j.rec /\ k.pc = "save" /\ k.result = result
    <2> HIDE DEF result
    <2> QED
      BY <1>2 DEF Jobs
  <1> HIDE DEF k, failed, won
  <1>6. Follows(failed, j.rec) /\ Follows(won, j.rec)
    BY <1>3, <1>4, FollowsFields
  <1>7. ASSUME known PROVE Follows(followed, j.rec) /\ followed.st = "failed"
    <2>1. OutsideShape /\ WorldTrue /\ Pending /\ failed.jid = journal.jid
          /\ failed.kind = journal.kind
      BY <1>7 DEF CompleteInv, Shape
    <2>2. /\ Sound(next) /\ next.st = "failed" /\ next.kind = failed.kind
          /\ next.jid = failed.jid /\ next.adopted = failed.adopted
          /\ next.target = failed.target /\ next.jt = failed.jt /\ next.attempt = failed.attempt
      BY <1>3, <2>1, ProgressKept
    <2>3. next.expected = TRUE
      BY <1>3 DEF WithProgress, Sound, Ops
    <2> HIDE DEF next
    <2>4. Faithful(next)
      BY <1>2, <1>3, <2>2, FaithfulKept
    <2>5. /\ followed.st = next.st /\ followed.kind = next.kind /\ followed.jid = next.jid
          /\ followed.attempt = next.attempt /\ followed.adopted = next.adopted
          /\ followed.expected = next.expected
      BY <2>1, <2>2, <2>4, BoundKept
    <2>6. followed.target = next.target
      BY <2>2 DEF BindTarget, Sound, Ops
    <2> HIDE DEF followed
    <2> QED
      BY <1>3, <2>2, <2>3, <2>5, <2>6, FollowsFields
  <1>8. Follows(result, j.rec) /\ result.st \in {"complete", "failed"}
    BY <1>3, <1>4, <1>6, <1>7
  <1> HIDE DEF result
  <1>9. NoBegin /\ side' = side
    BY <1>1, SameSides DEF sidecar
  <1>10. Works(j, k)
    BY <1>1, <1>5, <1>8, <1>9, SameProcs DEF Works, Prep, Bound
  <1> QED
    BY <1>10

(***************************************************************************)
(* A job starts its command.                                               *)
(***************************************************************************)
LEMMA LaunchAttends ==
    ASSUME CompleteInv, CompleteInv', AttendInv, NEW j \in jobs, Launch(j)
    PROVE  AttendInv'
  <1> DEFINE unit == Command(j.rec, "unit", Attempt(op))
             own == Command(j.rec, "job", j.of)
             waits == [j EXCEPT !.pc = "wait"]
             follows == [j EXCEPT !.pc = "wait", !.of = Attempt(op)]
             ends == [j EXCEPT !.pc = "outcome"]
  <1>1. /\ UNCHANGED <<op, opFile, calls, sidecar, side, sideFile, journal, closing, drawn, revoked,
                       stranded, missed>>
        /\ j.pc = "launch"
    BY DEF Launch, receipts, sidecar, ledger
  <1>2. /\ waits.rec = j.rec /\ follows.rec = j.rec /\ ends.rec = j.rec
        /\ waits.pc = "wait" /\ follows.pc = "wait" /\ ends.pc = "outcome"
    BY JobFields DEF Jobs
  <1>3. /\ unit.by = "unit" /\ unit.of = Attempt(op) /\ unit.jid = j.rec.jid
        /\ own.by = "job" /\ own.of = j.of /\ own.jid = j.rec.jid
    BY DEF Command
  <1>4. \E k \in {waits, follows, ends} : jobs' = (jobs \ {j}) \cup {k}
    BY DEF Launch, Go
  <1>5. \/ procs' = procs
        \/ procs' = procs \cup {own}
        \/ procs' = procs \cup {unit} /\ op.kind = "archive"
    BY DEF Launch
  <1> HIDE DEF waits, follows, ends, unit, own
  <1>6. PICK k : /\ jobs' = (jobs \ {j}) \cup {k} /\ k.rec = j.rec
                 /\ k.pc \in {"wait", "outcome"}
    BY <1>2, <1>4
  <1>7. Followed(j) /\ Over(j)
    BY DEF AttendInv, JobsFollowed
  <1>8. Heirs /\ NoBegin
    BY <1>1, SameHeirs, SameSides
  <1>10. Numbers'
    <2>1. op.kind = "archive" => op.st # "none"
      BY CallsGood DEF GoodRec, Sound, NoOp
    <2>2. j.of = Attempt(j.rec)
      BY <1>1, <1>7 DEF Followed, Bound
    <2>3. \A p \in procs' : p.by # "terminal" => p.of \in Used \/ OfPlace(p.of)
      BY <1>3, <1>5, <2>1, <2>2 DEF Used, OfPlace
    <2>4. Frugal
      BY <1>1, <1>6, <2>3 DEF Frugal, Used
    <2>5. SameAttempts
      BY <1>1, SameCalls DEF SameAttempts, OfPlace
    <2>6. \A p \in procs' : p.jid <= drawn'
      BY <1>1, <1>3, <1>5, JidsDrawn
    <2> QED
      BY <1>1, <2>4, <2>5, <2>6, NumbersKept, JidsDrawn DEF AttendInv
  <1>11. JobsFollowed' /\ OneJob'
    <2>1. Followed(j)' /\ \A i \in jobs : Followed(i)' /\ Over(i)'
      BY <1>1, <1>8, FollowedKept, OverKept DEF AttendInv, JobsFollowed
    <2>2. Followed(k)'
      <3>1. k.pc # "save" /\ k.pc \notin Prep \cup Bound
        BY <1>6 DEF Prep, Bound
      <3> QED
        BY <1>6, <2>1, <3>1 DEF Followed, Follows, Attempt
    <2>3. Over(k)'
      <3>1. \A s \in {side, sideFile} : ~(SideMatches(s, j.rec) /\ Active(s))
        BY <1>1, <1>7 DEF Over, Bound
      <3> QED
        BY <1>1, <1>6, <3>1 DEF Over, InHand, SideMatches, Active
    <2>4. JobsFollowed'
      BY <1>6, <2>1, <2>2, <2>3 DEF JobsFollowed
    <2>5. OneJob'
      BY <1>6 DEF AttendInv, OneJob, Attempt
    <2> QED
      BY <2>4, <2>5
  <1>12. Displays' /\ Worked' /\ CanceledWorked'
    <2>1. HasJob(op) => HasJob(op)'
      BY <1>1, <1>6 DEF HasJob, Attempt
    <2>2. HasUnit(op) => HasUnit(op)'
      BY <1>1, <1>5 DEF HasUnit, Attempt
    <2>3. (Running <=> Running') /\ Abandoned' = Abandoned /\ Attempt(op)' = Attempt(op)
          /\ SideAttempt(side)' = SideAttempt(side)
      BY <1>1 DEF Running, FreshRefresh, Seen, Abandoned, Attempt, SideAttempt
    <2>4. Displays'
      BY <1>1 DEF AttendInv, Shown, Displays, FreshRefresh, Seen, Follows, Attempt
    <2> QED
      BY <1>1, <2>1, <2>2, <2>3, <2>4 DEF AttendInv, Shown, Worked, CanceledWorked
  <1>13. Prepared'
    <2> SUFFICES ASSUME op.st # "none", Active(side), SideMatches(side, op), ~closing,
                        Attempt(op) \notin Abandoned
                 PROVE  \E i \in jobs' : Attempt(i.rec) = Attempt(op)
                                         /\ SideMatches(side, i.rec) /\ i.pc \in Prep
      BY <1>1 DEF Prepared, Active, SideMatches, Attempt, Prep, Abandoned
    <2>1. PICK i \in jobs : Attempt(i.rec) = Attempt(op) /\ SideMatches(side, i.rec) /\ i.pc \in Prep
      BY DEF AttendInv, Shown, Prepared
    <2>2. i # j
      BY <1>1, <2>1 DEF Prep
    <2> QED
      BY <1>6, <2>1, <2>2
  <1> QED
    BY <1>10, <1>11, <1>12, <1>13 DEF AttendInv, Shown

(***************************************************************************)
(* Receipts are replaced by what they become.                              *)
(***************************************************************************)
\* No attempt is drawn and no command started.
Quiet ==
    /\ UNCHANGED <<procs, journal, drawn, revoked, missed>>
    /\ jobs' \subseteq jobs /\ stranded \subseteq stranded' /\ NoBegin
    /\ closing => closing'
    /\ side'.st = "canceled" => side' = side
    /\ SameAttempts /\ op'.jid <= drawn /\ opFile'.jid <= drawn

LEMMA QuietNumbers ==
    ASSUME CompleteInv, CompleteInv', AttendInv, Quiet
    PROVE  Numbers'
  <1>1. Frugal
    <2>1. \A p \in procs' : p.by # "terminal" => p.of \in Used
      BY DEF Quiet, Used
    <2>2. side'.st = "canceled" => SideAttempt(side') \in Used
      BY DEF Quiet, Used
    <2> QED
      BY <2>1, <2>2 DEF Quiet, Frugal
  <1>2. /\ drawn <= drawn' /\ op'.jid <= drawn' /\ opFile'.jid <= drawn' /\ journal'.jid <= drawn'
        /\ \A p \in procs' : p.jid <= drawn'
    BY JidsDrawn DEF Quiet
  <1> QED
    BY <1>1, <1>2, NumbersKept DEF AttendInv, Quiet

LEMMA QuietJobs ==
    ASSUME CompleteInv, AttendInv, Quiet, Heirs
    PROVE  JobsFollowed' /\ OneJob'
  BY JobsKept DEF AttendInv, Quiet

\* The receipt stays in place, whatever becomes of its copy on disk.
LEMMA InPlaceAttends ==
    ASSUME CompleteInv, CompleteInv', AttendInv, op' = op, KeepCalls,
           UNCHANGED <<procs, journal, drawn, revoked, stranded, missed, jobs, closing, side>>,
           NoBegin,
           NEW f, opFile' = f, f.jid <= drawn,
           f = opFile \/ f.st = "none" \/ f.adopted \/ (op.st # "none" /\ Follows(f, op))
    PROVE  AttendInv'
  <1>1. side' = side
    OBVIOUS
  <1>2. SameAttempts
    BY DEF SameAttempts, OfPlace, Follows
  <1>3. Quiet
    BY <1>1, <1>2, JidsDrawn DEF Quiet
  <1>4. Heirs
    BY CallsGood, FollowsItself DEF Heirs, GoodRec
  <1>5. Abandoned' = Abandoned
    BY DEF Abandoned
  <1>6. Displays' /\ Worked' /\ CanceledWorked'
    BY <1>1, <1>5, SameProcs, WorkKept DEF AttendInv, KeepCalls
  <1>7. Prepared'
    BY <1>1, <1>5, PreparedKept, FollowsItself, CallsGood DEF AttendInv, GoodRec
  <1> QED
    BY <1>3, <1>4, <1>6, <1>7, QuietNumbers, QuietJobs DEF AttendInv, Shown

\* The receipt gives way to nothing, to a journal found or to what it becomes.
LEMMA ReplacedAttends ==
    ASSUME CompleteInv, CompleteInv', AttendInv, NoFresh,
           UNCHANGED <<procs, journal, drawn, revoked, stranded, missed, jobs, closing>>,
           NEW rec, op' = rec, opFile' = rec, rec.jid <= drawn,
           NoBegin, side'.st = "canceled" => side' = side,
           \/ rec.st = "none" \/ (rec.adopted /\ rec.st = "paused")
           \/ op.st # "none" /\ Follows(rec, op) /\ (rec.st = "running" => Running)
    PROVE  AttendInv'
  <1>1. SameAttempts
    BY DEF SameAttempts, OfPlace, Follows
  <1>2. Quiet
    BY <1>1 DEF Quiet
  <1>3. Heirs
    BY DEF Heirs
  <1>4. Abandoned' = Abandoned
    BY DEF Abandoned
  <1>5. Displays' /\ Worked' /\ CanceledWorked'
    <2>1. CASE rec.st # "running"
      BY <2>1, NothingRuns
    <2>2. CASE rec.st = "running"
      <3>1. Attempt(op)' = Attempt(op) /\ Running
        BY <2>2 DEF Attempt, Follows
      <3>2. (HasJob(op) => HasJob(op)') /\ (HasUnit(op) => HasUnit(op)')
        BY <3>1 DEF HasJob, HasUnit, Attempt
      <3>3. SideAttempt(side)' = SideAttempt(side')
        BY DEF SideAttempt
      <3>4. Displays'
        BY DEF NoFresh, Displays
      <3> QED
        BY <1>4, <3>1, <3>2, <3>3, <3>4 DEF AttendInv, Shown, Worked, CanceledWorked
    <2> QED
      BY <2>1, <2>2
  <1>6. Prepared'
    <2>1. CASE rec.st = "none" \/ rec.adopted
      BY <2>1 DEF Prepared, SideMatches
    <2>2. CASE op.st # "none" /\ Follows(rec, op)
      BY <1>4, <2>2, PreparedKept DEF AttendInv
    <2> QED
      BY <2>1, <2>2
  <1> QED
    BY <1>2, <1>3, <1>5, <1>6, QuietNumbers, QuietJobs DEF AttendInv, Shown

LEMMA WithoutOpSays ==
    ASSUME NEW rest, GoodCalls(rest), WithoutOp(rest)
    PROVE  /\ op' = NoOp /\ opFile' = NoOp /\ NoFresh /\ NoBegin
           /\ side'.st = "canceled" => side' = side
  <1>1. op' = NoOp /\ opFile' = NoOp /\ calls' = Stale(rest)
    BY DEF WithoutOp, Replace
  <1>2. NoFresh
    BY <1>1, StaleCalls
  <1>3. (side' = NoSide /\ sideFile' = NoSide) \/ UNCHANGED sidecar
    BY DEF WithoutOp
  <1>4. NoSide.st = "none" /\ ~Active(NoSide)
    BY DEF NoSide, Active
  <1>5. NoBegin /\ (side'.st = "canceled" => side' = side)
    BY <1>3, <1>4, SameSides DEF NoBegin, sidecar
  <1> QED
    BY <1>1, <1>2, <1>5

LEMMA WithoutOpAttends ==
    ASSUME CompleteInv, CompleteInv', AttendInv, NEW rest, GoodCalls(rest), WithoutOp(rest),
           UNCHANGED <<outside, jobs, closing, drawn, ledger>>
    PROVE  AttendInv'
  <1>1. /\ op' = NoOp /\ opFile' = NoOp /\ NoFresh /\ NoBegin
        /\ side'.st = "canceled" => side' = side
    BY WithoutOpSays
  <1>2. NoOp.st = "none" /\ NoOp.jid <= drawn
    BY RestGives DEF NoOp
  <1>3. UNCHANGED <<procs, journal, revoked, stranded, missed>>
    BY DEF outside, ledger
  <1> QED
    BY <1>1, <1>2, <1>3, ReplacedAttends

LEMMA RefreshAcceptAttends ==
    ASSUME CompleteInv, CompleteInv', AttendInv, RefreshAccept
    PROVE  AttendInv'
  <1> DEFINE rest == [calls EXCEPT !["display"] = NoCall]
  <1>1. UNCHANGED <<outside, jobs, closing, drawn, ledger>> /\ calls["display"] # NoCall
    BY DEF RefreshAccept
  <1>2. UNCHANGED <<procs, journal, revoked, stranded, missed>>
    BY <1>1 DEF outside, ledger
  <1>3. GoodCalls(rest)
    BY CallEnds, CallsGood DEF CompleteInv, Shape
  <1>4. \/ calls' = rest /\ UNCHANGED <<op, opFile, sidecar>>
        \/ /\ calls["display"].fresh
           /\ Replace(Seen, rest) \/ NotReplaced(Seen, rest)
           /\ UNCHANGED sidecar
        \/ WithoutOp(rest)
        \/ NotReplaced(NoOp, rest) /\ UNCHANGED sidecar
    BY DEF RefreshAccept, Seen
  <1>5. calls' = rest => KeepCalls
    BY CallDone
  <1>6. NoOp.st = "none" /\ NoOp.jid <= drawn
    BY RestGives DEF NoOp
  <1> HIDE DEF rest
  <1>7. CASE calls' = rest /\ UNCHANGED <<op, opFile, sidecar>>
    BY <1>1, <1>2, <1>5, <1>7, SameSides, InPlaceAttends, JidsDrawn DEF sidecar
  <1>8. CASE NotReplaced(NoOp, rest) /\ UNCHANGED sidecar
    <2>1. op' = op /\ calls' = rest /\ (opFile' = opFile \/ opFile' = NoOp)
      BY <1>8 DEF NotReplaced
    <2> QED
      BY <1>1, <1>2, <1>5, <1>6, <1>8, <2>1, SameSides, InPlaceAttends, JidsDrawn DEF sidecar
  <1>9. CASE WithoutOp(rest)
    BY <1>1, <1>3, <1>9, WithoutOpAttends
  <1>10. CASE calls["display"].fresh /\ UNCHANGED sidecar
               /\ (Replace(Seen, rest) \/ NotReplaced(Seen, rest))
    <2>1. FreshRefresh
      BY <1>1, <1>10 DEF FreshRefresh
    <2>2. Seen.jid <= drawn
      BY <2>1 DEF AttendInv, Numbers, Drawn
    <2>3. \/ Seen.st = "none" \/ (Seen.adopted /\ Seen.st = "paused")
          \/ op.st # "none" /\ Follows(Seen, op) /\ (Seen.st = "running" => Running)
      BY <1>6, <2>1 DEF AttendInv, Shown, Displays, Running
    <2>4. CASE Replace(Seen, rest)
      <3>1. op' = Seen /\ opFile' = Seen /\ calls' = Stale(rest)
        BY <2>4 DEF Replace
      <3>2. NoFresh
        BY <1>3, <3>1, StaleCalls
      <3>3. NoBegin /\ side' = side
        BY <1>10, SameSides DEF sidecar
      <3> QED
        BY <1>1, <1>2, <2>2, <2>3, <3>1, <3>2, <3>3, ReplacedAttends
    <2>5. CASE NotReplaced(Seen, rest)
      <3>1. op' = op /\ calls' = rest /\ (opFile' = opFile \/ opFile' = Seen)
        BY <2>5 DEF NotReplaced
      <3> QED
        BY <1>1, <1>2, <1>5, <1>10, <2>2, <2>3, <3>1, SameSides, InPlaceAttends, JidsDrawn DEF sidecar
    <2> QED
      BY <1>10, <2>4, <2>5
  <1> QED
    BY <1>4, <1>7, <1>8, <1>9, <1>10

LEMMA DismissAttends ==
    ASSUME CompleteInv, CompleteInv', AttendInv, Dismiss
    PROVE  AttendInv'
  <1>1. UNCHANGED <<outside, jobs, closing, drawn, ledger>>
    BY DEF Dismiss
  <1>2. CASE WithoutOp(calls)
    BY <1>1, <1>2, CallsGood, WithoutOpAttends
  <1>3. CASE NotReplaced(NoOp, calls) /\ UNCHANGED sidecar
    <2>1. op' = op /\ KeepCalls /\ (opFile' = opFile \/ opFile' = NoOp)
      BY <1>3, SameCalls DEF NotReplaced
    <2>2. NoOp.st = "none" /\ NoOp.jid <= drawn
      BY RestGives DEF NoOp
    <2>3. UNCHANGED <<procs, journal, revoked, stranded, missed>>
      BY <1>1 DEF outside, ledger
    <2> QED
      BY <1>1, <1>3, <2>1, <2>2, <2>3, SameSides, InPlaceAttends, JidsDrawn DEF sidecar
  <1> QED
    BY <1>2, <1>3 DEF Dismiss

\* An operation is given up where it is.
LEMMA FailedFollows ==
    ASSUME CompleteInv, op.st # "none"
    PROVE  LET rec == [op EXCEPT !.st = "failed"] IN
           Follows(rec, op) /\ rec.st = "failed" /\ rec.jid = op.jid /\ rec.expected = op.expected
  <1> DEFINE rec == [op EXCEPT !.st = "failed"]
  <1>1. /\ rec.st = "failed" /\ rec.kind = op.kind /\ rec.jid = op.jid
        /\ rec.adopted = op.adopted /\ rec.attempt = op.attempt /\ rec.target = op.target
        /\ rec.mode = op.mode /\ rec.expected = op.expected
    BY CallsGood, StateKept DEF GoodRec
  <1> HIDE DEF rec
  <1> QED
    BY <1>1, FollowsFields DEF rec

LEMMA CancelAttends ==
    ASSUME CompleteInv, CompleteInv', AttendInv, Cancel
    PROVE  AttendInv'
  <1> DEFINE p == [side EXCEPT !.st = "canceled"]
             rec == [op EXCEPT !.st = "failed"]
  <1>1. /\ op.st # "none" /\ SideMatches(side, op) /\ Active(side)
        /\ UNCHANGED <<outside, jobs, closing, drawn, missed>>
    BY DEF Cancel
  <1>2. UNCHANGED <<procs, journal, missed>>
    BY <1>1 DEF outside
  <1>3. \/ /\ side' = p /\ sideFile' = p /\ revoked' = revoked \cup {Attempt(op)}
           /\ \/ Replace(rec, calls) /\ stranded' = stranded
              \/ NotReplaced(rec, calls) /\ stranded' = stranded \cup {Attempt(op)}
        \/ SideNotSaved(p) /\ UNCHANGED <<op, opFile, calls, revoked, stranded>>
    BY DEF Cancel
  <1>4. Twin(p, side) /\ p.st = "canceled" /\ SideAttempt(p) = Attempt(op)
    <2>1. Twin(p, side) /\ p.st = "canceled"
      BY <1>1, SideTwins
    <2> HIDE DEF p
    <2> QED
      BY <1>1, <2>1, TwinMatches, MatchNames, CallsGood DEF GoodRec
  <1>5. Follows(rec, op) /\ rec.st = "failed" /\ rec.jid = op.jid
    BY <1>1, FailedFollows
  <1> HIDE DEF p, rec
  <1>6. ~Active(p)
    BY <1>4 DEF Active
  <1>7. CASE /\ side' = p /\ sideFile' = p /\ revoked' = revoked \cup {Attempt(op)}
             /\ \/ Replace(rec, calls) /\ stranded' = stranded
                \/ NotReplaced(rec, calls) /\ stranded' = stranded \cup {Attempt(op)}
    <2>1. \/ op' = rec /\ opFile' = rec /\ calls' = Stale(calls)
          \/ op' = op /\ calls' = calls /\ (opFile' = opFile \/ opFile' = rec)
      BY <1>7 DEF Replace, NotReplaced
    <2>2. (calls' = Stale(calls) => NoFresh) /\ (calls' = calls => KeepCalls)
      BY CallsGood, StaleCalls, SameCalls
    <2>3. NoBegin
      BY <1>6, <1>7 DEF NoBegin
    <2>4. Frugal
      <3>1. \A q \in procs' : q.by # "terminal" => q.of \in Used
        BY <1>2 DEF Used
      <3> QED
        BY <1>1, <1>4, <1>7, <3>1 DEF Frugal, OfPlace
    <2>5. SameAttempts
      BY <1>1, <1>5, <2>1, <2>2 DEF SameAttempts, OfPlace, Follows
    <2>6. Numbers'
      BY <1>1, <1>2, <1>5, <2>1, <2>4, <2>5, NumbersKept, JidsDrawn DEF AttendInv
    <2>7. Heirs
      BY <1>1, <1>5, <2>1, CallsGood, FollowsItself DEF Heirs, GoodRec
    <2>8. JobsFollowed' /\ OneJob'
      BY <1>1, <1>7, <2>3, <2>7, JobsKept DEF AttendInv
    <2>9. Displays' /\ Worked' /\ CanceledWorked'
      <3>1. CASE op' = rec /\ calls' = Stale(calls)
        BY <1>5, <2>2, <3>1, NothingRuns
      <3>2. CASE op' = op /\ calls' = calls /\ stranded' = stranded \cup {Attempt(op)}
        <4>1. Displays'
          BY <3>2 DEF AttendInv, Shown, Displays, FreshRefresh, Seen, Follows, Attempt
        <4>2. Attempt(op)' \in Abandoned'
          BY <3>2 DEF Attempt, Abandoned
        <4> QED
          BY <4>1, <4>2 DEF Worked, CanceledWorked
      <3> QED
        BY <1>7, <3>1, <3>2 DEF Replace, NotReplaced
    <2>10. Prepared'
      BY <1>6, <1>7 DEF Prepared, Active
    <2> QED
      BY <2>6, <2>8, <2>9, <2>10 DEF AttendInv, Shown
  <1>8. CASE SideNotSaved(p) /\ UNCHANGED <<op, opFile, calls, revoked, stranded>>
    <2>1. side' = side /\ (sideFile' = sideFile \/ sideFile' = p)
      BY <1>8 DEF SideNotSaved
    <2>2. NoBegin
      BY <1>6, <2>1 DEF NoBegin, Twin
    <2> QED
      BY <1>1, <1>2, <1>8, <2>1, <2>2, SameCalls, InPlaceAttends, JidsDrawn
  <1> QED
    BY <1>3, <1>7, <1>8

LEMMA CloseAttends ==
    ASSUME CompleteInv, CompleteInv', AttendInv, Close
    PROVE  AttendInv'
  <1> DEFINE p == [side EXCEPT !.st = "paused"]
             rec == [op EXCEPT !.st = "failed"]
  <1>1. closing' = TRUE /\ UNCHANGED <<procs, journal, jobs, drawn, revoked, stranded, missed>>
    BY DEF Close, outside, ledger
  <1>2. \/ Active(side) /\ (side' = p \/ side' = side) /\ (sideFile' = p \/ sideFile' = sideFile)
        \/ side' = side /\ sideFile' = sideFile
    BY DEF Close, sidecar
  <1>3. \/ op.st # "none" /\ op' = rec /\ opFile' = rec /\ calls' = Stale(calls)
        \/ op.st # "none" /\ op' = op /\ calls' = calls /\ (opFile' = rec \/ opFile' = opFile)
        \/ op' = op /\ calls' = calls /\ opFile' = opFile
    BY DEF Close
  <1>4. Active(side) => Twin(p, side) /\ p.st = "paused"
    BY SideTwins
  <1>5. op.st # "none" => Follows(rec, op) /\ rec.jid = op.jid
    BY FailedFollows
  <1> HIDE DEF p, rec
  <1>6. NoBegin /\ (side'.st = "canceled" => side' = side)
    BY <1>2, <1>4 DEF NoBegin, Twin
  <1>7. (calls' = Stale(calls) => NoFresh) /\ (calls' = calls => KeepCalls)
    BY CallsGood, StaleCalls, SameCalls
  <1>8. SameAttempts
    BY <1>3, <1>5, <1>7 DEF SameAttempts, OfPlace, Follows
  <1>9. Quiet
    BY <1>1, <1>3, <1>5, <1>6, <1>8, JidsDrawn DEF Quiet
  <1>10. Heirs
    BY <1>3, <1>5, CallsGood, FollowsItself DEF Heirs, GoodRec
  <1>11. Displays'
    <2>1. CASE calls' = Stale(calls)
      BY <1>7, <2>1 DEF NoFresh, Displays
    <2>2. CASE op' = op /\ calls' = calls
      BY <2>2 DEF AttendInv, Shown, Displays, FreshRefresh, Seen, Follows, Attempt
    <2> QED
      BY <1>3, <2>1, <2>2
  <1>12. Worked' /\ CanceledWorked' /\ Prepared'
    BY <1>1 DEF Worked, CanceledWorked, Prepared
  <1> QED
    BY <1>9, <1>10, <1>11, <1>12, QuietNumbers, QuietJobs DEF AttendInv, Shown

(***************************************************************************)
(* The outcome of a job is saved.                                          *)
(***************************************************************************)
LEMMA SaveSkipped ==
    ASSUME CompleteInv, CompleteInv', AttendInv, NEW j \in jobs, j.pc = "save", jobs' = jobs \ {j},
           UNCHANGED <<op, opFile, calls, outside, sidecar, closing, drawn, ledger>>,
           \/ ~(op.st # "none" /\ Attempt(op) = Attempt(j.rec))
           \/ closing \/ (side.st = "canceled" /\ SideAttempt(side) = Attempt(op))
    PROVE  AttendInv'
  <1>1. UNCHANGED <<procs, journal, revoked, stranded, missed, side, sideFile>> /\ NoBegin
    BY SameSides DEF outside, sidecar, ledger
  <1>2. KeepCalls
    BY SameCalls
  <1>3. SameAttempts
    BY <1>2 DEF SameAttempts, OfPlace
  <1>4. Quiet
    BY <1>1, <1>3, JidsDrawn DEF Quiet
  <1>5. Heirs
    BY SameHeirs
  <1>6. /\ Displays' /\ (Running' => Running) /\ Attempt(op)' = Attempt(op)
        /\ Abandoned' = Abandoned /\ (HasUnit(op) => HasUnit(op)')
        /\ SideAttempt(side)' = SideAttempt(side)
    BY <1>1 DEF AttendInv, Shown, Displays, Running, FreshRefresh, Seen, Follows, Attempt,
       SideAttempt, Abandoned, HasUnit
  <1>7. CanceledWorked'
    BY <1>1, <1>6 DEF AttendInv, Shown, CanceledWorked
  <1>8. Worked'
    <2> SUFFICES ASSUME Running, ~closing
                 PROVE  HasJob(op)' \/ HasUnit(op)' \/ Attempt(op)' \in Abandoned'
      BY <1>6 DEF Worked
    <2>1. CASE side.st = "canceled" /\ SideAttempt(side) = Attempt(op)
      BY <1>6, <2>1 DEF AttendInv, Shown, CanceledWorked
    <2>2. CASE ~(op.st # "none" /\ Attempt(op) = Attempt(j.rec))
      <3>1. op.st # "none"
        BY DEF AttendInv, Shown, Running, Displays, NoOp
      <3>2. HasJob(op) => HasJob(op)'
        BY <2>2, <3>1 DEF HasJob, Attempt
      <3> QED
        BY <1>6, <3>2 DEF AttendInv, Shown, Worked
    <2> QED
      BY <2>1, <2>2
  <1>9. Prepared'
    <2>1. j.pc \notin Prep
      BY DEF Prep
    <2> QED
      BY <1>1, <1>6, <2>1 DEF AttendInv, Shown, Prepared, Active, SideMatches, Attempt, Prep
  <1> QED
    BY <1>4, <1>5, <1>6, <1>7, <1>8, <1>9, QuietNumbers, QuietJobs DEF AttendInv, Shown

LEMMA SaveOutcomeAttends ==
    ASSUME CompleteInv, CompleteInv', AttendInv, NEW j \in jobs, SaveOutcome(j)
    PROVE  AttendInv'
  <1> DEFINE rec == j.result
             current == op.st # "none" /\ Attempt(op) = Attempt(rec)
             revokes == SideMatches(side, rec)
                        /\ (side.st = "canceled" \/ (closing /\ side.st = "paused"))
             failed == [op EXCEPT !.st = "failed"]
  <1>1. /\ j.pc = "save" /\ jobs' = jobs \ {j}
        /\ UNCHANGED <<outside, sidecar, closing, drawn, ledger>>
    BY DEF SaveOutcome
  <1>2. /\ Follows(rec, j.rec) /\ rec.st \in {"complete", "failed"} /\ Followed(j) /\ Over(j)
    BY <1>1 DEF AttendInv, JobsFollowed, Followed
  <1>3. Attempt(rec) = Attempt(j.rec) /\ Sound(rec) /\ Sound(j.rec)
    BY <1>2, JobFields DEF Follows, GoodJob, GoodRec
  <1>4. CASE revokes \/ ~current
    <2>1. UNCHANGED <<op, opFile, calls>>
      BY <1>4 DEF SaveOutcome
    <2>2. revokes => closing \/ (side.st = "canceled" /\ SideAttempt(side) = Attempt(rec))
      BY <1>3, MatchNames
    <2> QED
      BY <1>1, <1>3, <1>4, <2>1, <2>2, SaveSkipped
  <1>5. CASE ~revokes /\ current
    <2>1. \/ op' = rec /\ opFile' = rec /\ calls' = Stale(calls)
          \/ op' = failed /\ calls' = Stale(calls) /\ (opFile' = opFile \/ opFile' = rec)
      BY <1>5 DEF SaveOutcome, Replace
    <2>2. Follows(failed, op) /\ failed.st = "failed" /\ failed.jid = op.jid
      BY <1>5, FailedFollows
    <2>3. rec.jid = op.jid
      BY <1>5, AttemptSame
    <2> HIDE DEF rec, failed, revokes
    <2>4. NoFresh
      BY <2>1, CallsGood, StaleCalls
    <2>5. UNCHANGED <<procs, journal, revoked, stranded, missed, side, sideFile>> /\ NoBegin
      BY <1>1, SameSides DEF outside, sidecar, ledger
    <2>6. SameAttempts
      BY <1>5, <2>1, <2>2, <2>4 DEF SameAttempts, OfPlace, Follows
    <2>7. Quiet
      BY <1>1, <2>1, <2>2, <2>3, <2>5, <2>6, JidsDrawn DEF Quiet
    <2>8. ASSUME NEW i \in jobs', ~i.rec.adopted, NEW r \in {op', opFile'}, r.st # "none",
                 Attempt(r) = Attempt(i.rec)
          PROVE  Follows(r, i.rec)
      <3>1. i \in jobs /\ i # j
        BY <1>1
      <3>2. Attempt(i.rec) # Attempt(j.rec)
        BY <2>8, <3>1 DEF AttendInv, OneJob
      <3>3. Attempt(r) = Attempt(j.rec) \/ r = opFile
        BY <1>3, <1>5, <2>1, <2>2 DEF Follows
      <3> QED
        BY <2>8, <3>1, <3>2, <3>3 DEF AttendInv, JobsFollowed, Followed
    <2>9. JobsFollowed'
      <3> SUFFICES ASSUME NEW i \in jobs' PROVE Followed(i)' /\ Over(i)'
        BY DEF JobsFollowed
      <3>1. i \in jobs /\ Followed(i) /\ Over(i)
        BY <1>1 DEF AttendInv, JobsFollowed
      <3>2. Over(i)'
        BY <1>1, <2>5, <3>1, OverKept
      <3>3. Followed(i)'
        BY <2>8, <3>1 DEF Followed, Follows, Attempt
      <3> QED
        BY <3>2, <3>3
    <2>10. OneJob'
      BY <1>1 DEF AttendInv, OneJob, Attempt
    <2>11. Displays' /\ Worked' /\ CanceledWorked'
      BY <1>2, <2>1, <2>2, <2>4, NothingRuns DEF rec
    <2>12. Prepared'
      <3> SUFFICES ASSUME Active(side), SideMatches(side, op'), ~closing
                   PROVE  Attempt(op') \in stranded'
        BY <1>1, <2>5 DEF Prepared, Active, SideMatches, Attempt, Abandoned
      <3>1. Attempt(op') = Attempt(j.rec)
        BY <1>3, <1>5, <2>1, <2>2 DEF Follows
      <3>2. SideMatches(side, j.rec)
        <4>1. CASE op' = rec
          BY <1>2, <4>1, MatchedBefore DEF rec
        <4>2. CASE op' = failed
          <5>1. SideMatches(side, op) /\ ~op.adopted
            BY <2>2, <4>2, MatchedBefore DEF SideMatches
          <5>2. ~j.rec.adopted
            <6>1. Attempt(op) = Attempt(j.rec)
              BY <1>3, <1>5
            <6>2. op.adopted = j.rec.adopted
              BY <6>1, AttemptSame
            <6> QED
              BY <5>1, <6>2
          <5>3. Follows(op, j.rec)
            BY <1>2, <1>3, <1>5, <5>2 DEF Followed
          <5> QED
            BY <5>1, <5>3, MatchedBefore
        <4> QED
          BY <2>1, <4>1, <4>2
      <3>3. Attempt(j.rec) \in stranded
        BY <1>1, <1>2, <3>2 DEF Over, InHand
      <3> QED
        BY <2>5, <3>1, <3>3
    <2> QED
      BY <2>7, <2>9, <2>10, <2>11, <2>12, QuietNumbers DEF AttendInv, Shown
  <1> QED
    BY <1>4, <1>5

(***************************************************************************)
(* A new attempt is installed.                                             *)
(***************************************************************************)
\* The receipt a handler has read, and what is drawn with it.
Prepares(rec) == rec.kind = "archive" /\ rec.mode = "archived" /\ ~rec.expected

LEMMA BegunSays ==
    ASSUME NEW rec
    PROVE  LET p == Begun(rec) IN
           /\ p.st = "checking" /\ p.jid = rec.jid /\ p.attempt = rec.attempt
           /\ p.target = rec.target /\ Active(p)
  <1> DEFINE q == [NoSide EXCEPT !.st = "checking", !.jid = rec.jid, !.attempt = rec.attempt,
                                 !.target = rec.target]
             p == Begun(rec)
  <1>1. /\ q.st = "checking" /\ q.jid = rec.jid /\ q.attempt = rec.attempt
        /\ q.target = rec.target
        /\ DOMAIN q = {"st", "jid", "attempt", "target", "round", "msg", "stuck", "failures"}
        /\ q = [x \in DOMAIN q |-> q[x]]
    BY DEF NoSide
  <1>2. p = q \/ p = [q EXCEPT !.msg = side.msg, !.round = side.round]
    BY DEF Begun
  <1> HIDE DEF q, p
  <1>3. p.st = "checking" /\ p.jid = rec.jid /\ p.attempt = rec.attempt /\ p.target = rec.target
    BY <1>1, <1>2
  <1> QED
    BY <1>3 DEF Active, p

\* It is of nobody yet.
LEMMA ChosenIsNew ==
    ASSUME CompleteInv, AttendInv, FreshStart
    PROVE  /\ Sound(Chosen) /\ Chosen.st = "running" /\ Chosen.jid <= drawn
           /\ Prepares(Chosen) => ~Chosen.adopted
           /\ ~Chosen.adopted => Attempt(Chosen) \notin Used
           /\ \A i \in jobs : ~i.rec.adopted => Attempt(i.rec) # Attempt(Chosen)
           /\ ~Chosen.adopted => \A i \in jobs : Attempt(i.rec) # Attempt(Chosen)
           /\ Prepares(Chosen) =>
                 \A i \in jobs : ~SideMatches(Begun(Chosen), i.rec)
           /\ Prepares(Chosen) /\ op.st # "none" => ~SideMatches(Begun(Chosen), op)
  <1>1. Sound(Chosen) /\ Chosen.st = "running" /\ Chosen.jid <= drawn
    BY CallsGood DEF GoodCalls, GoodRec, FreshStart, Chosen, AttendInv, Numbers, Drawn
  <1>2. Prepares(Chosen) => ~Chosen.adopted
    BY <1>1 DEF Sound, Prepares
  <1>3. Chosen.attempt \in Nat /\ Chosen.adopted \in BOOLEAN
    BY <1>1, AttemptShape
  <1>4. ~Chosen.adopted => Attempt(Chosen) \notin Used
    <2> SUFFICES ASSUME ~Chosen.adopted, Attempt(Chosen) \in Used PROVE FALSE
      OBVIOUS
    <2>1. Attempt(Chosen)[2] = FALSE /\ Attempt(Chosen)[1] = Chosen.jid
          /\ Attempt(Chosen)[3] = Chosen.attempt
      BY <1>3, AttemptSame
    <2>2. Chosen.attempt < Chosen.attempt
      BY <2>1 DEF AttendInv, Numbers, Installs
    <2> QED
      BY <1>3, <2>2
  <1>5. ~Chosen.adopted => \A i \in jobs : Attempt(i.rec) # Attempt(Chosen)
    BY <1>4 DEF Used
  <1>6. \A i \in jobs : ~i.rec.adopted => Attempt(i.rec) # Attempt(Chosen)
    BY <1>5, AttemptSame
  <1>7. ASSUME Prepares(Chosen) PROVE \A i \in jobs : ~SideMatches(Begun(Chosen), i.rec)
    <2> SUFFICES ASSUME NEW i \in jobs, SideMatches(Begun(Chosen), i.rec) PROVE FALSE
      OBVIOUS
    <2>1. Sound(i.rec) /\ i.rec.adopted \in BOOLEAN
      BY JobFields, AttemptShape
    <2>2. i.rec.jid = Chosen.jid /\ i.rec.attempt = Chosen.attempt /\ ~i.rec.adopted
      BY BegunSays DEF SideMatches
    <2>3. i.rec.adopted = Chosen.adopted
      BY <1>2, <1>3, <1>7, <2>1, <2>2
    <2>4. Attempt(i.rec) = Attempt(Chosen)
      BY <2>2, <2>3, AttemptSame
    <2> QED
      BY <1>6, <2>2, <2>4
  <1>8. ASSUME Prepares(Chosen), op.st # "none" PROVE ~SideMatches(Begun(Chosen), op)
    <2> SUFFICES ASSUME SideMatches(Begun(Chosen), op) PROVE FALSE
      OBVIOUS
    <2>1. op.jid = Chosen.jid /\ op.attempt = Chosen.attempt /\ ~op.adopted
      BY BegunSays DEF SideMatches
    <2>2. op.attempt < Chosen.attempt
      BY <1>2, <1>8, <2>1 DEF AttendInv, Numbers, Installs, Own
    <2> QED
      BY <1>3, <2>1, <2>2
  <1> QED
    BY <1>1, <1>2, <1>4, <1>5, <1>6, <1>7, <1>8

\* The sidecar of the new attempt, in place and on disk or on disk only.
SideBegins(rec) ==
    \/ UNCHANGED sidecar
    \/ Prepares(rec) /\ side' \in {side, Begun(rec)} /\ sideFile' \in {sideFile, Begun(rec)}

LEMMA BeginsKeepsJobs ==
    ASSUME CompleteInv, AttendInv, FreshStart, SideBegins(Chosen), NEW i \in jobs,
           closing' = closing, stranded' = stranded,
           \A r \in {op', opFile'} : r \in {op, opFile, Chosen}
    PROVE  Followed(i)' /\ Over(i)'
  <1>1. Followed(i) /\ Over(i)
    BY DEF AttendInv, JobsFollowed
  <1>2. Followed(i)'
    <2>1. ~i.rec.adopted => Attempt(i.rec) # Attempt(Chosen)
      BY ChosenIsNew
    <2>2. ~i.rec.adopted => \A r \in {op', opFile'} :
             r.st # "none" /\ Attempt(r) = Attempt(i.rec) => Follows(r, i.rec)
      BY <1>1, <2>1 DEF Followed
    <2> QED
      BY <1>1, <2>2 DEF Followed, Follows, Attempt
  <1>3. \A s \in {side', sideFile'} : SideMatches(s, i.rec) => s \in {side, sideFile}
    BY ChosenIsNew DEF SideBegins, sidecar
  <1>4. SideMatches(side', i.rec) => side' = side
    BY ChosenIsNew DEF SideBegins, sidecar
  <1>5. InHand(i)' => InHand(i)
    BY <1>4 DEF InHand, SideMatches, Active
  <1>6. i.pc \in Bound \cup {"wait"} =>
           \A s \in {side', sideFile'} : ~(SideMatches(s, i.rec) /\ Active(s))
    BY <1>1, <1>3 DEF Over
  <1>7. Over(i)'
    BY <1>1, <1>5, <1>6 DEF Over, SideMatches, Active, Attempt
  <1> QED
    BY <1>2, <1>7

\* The new receipt could not be put in place, or its sidecar could not be saved.
LEMMA NotInstalledAttends ==
    ASSUME CompleteInv, CompleteInv', AttendInv, FreshStart, SideBegins(Chosen),
           UNCHANGED <<outside, op, jobs, closing, drawn, ledger>>,
           NEW f \in {opFile, Chosen}, opFile' = f, KeepCalls, ~FreshStart'
    PROVE  AttendInv'
  <1>1. UNCHANGED <<procs, journal, revoked, stranded, missed>>
    BY DEF outside, ledger
  <1>2. /\ Sound(Chosen) /\ Chosen.jid <= drawn /\ Chosen.attempt \in Nat
        /\ Chosen.adopted \in BOOLEAN
    BY ChosenIsNew, AttemptShape
  <1>3. side'.st = "canceled" => side' = side
    BY BegunSays DEF SideBegins, sidecar
  <1>4. Used' \subseteq Used
    <2>1. SideAttempt(side)' = SideAttempt(side')
      BY DEF SideAttempt
    <2> QED
      BY <1>1, <1>3, <2>1 DEF Used, Attempt
  <1>5. Numbers'
    <2>1. Drawn'
      BY <1>1, <1>2 DEF AttendInv, Numbers, Drawn, KeepCalls, KeepSeen
    <2>2. Older'
      <3>1. \A u \in Used : u[2] = FALSE /\ Own(Chosen, u[1]) => u[3] <= Chosen.attempt
        <4> SUFFICES ASSUME NEW u \in Used, u[2] = FALSE, Own(Chosen, u[1])
                     PROVE  u[3] <= Chosen.attempt
          OBVIOUS
        <4>1. u[3] < Chosen.attempt
          BY DEF AttendInv, Numbers, Installs, Own
        <4>2. u[3] \in Nat
          BY Bounds DEF AttendInv, Numbers, Older, Attempts
        <4> QED
          BY <1>2, <4>1, <4>2
      <3> QED
        BY <1>4, <3>1 DEF AttendInv, Numbers, Older, Own
    <2>3. Order'
      <3>1. \A jid : Own(op, jid) /\ Own(Chosen, jid) => op.attempt <= Chosen.attempt
        <4> SUFFICES ASSUME NEW jid, Own(op, jid), Own(Chosen, jid)
                     PROVE  op.attempt <= Chosen.attempt
          OBVIOUS
        <4>1. op.attempt < Chosen.attempt
          BY DEF AttendInv, Numbers, Installs, Own
        <4>2. op.attempt \in Nat
          BY CallsGood, AttemptShape DEF GoodRec
        <4> QED
          BY <1>2, <4>1, <4>2
      <3> QED
        BY <3>1 DEF AttendInv, Numbers, Order, Own
    <2>4. Installs'
      BY DEF Installs
    <2> QED
      BY <2>1, <2>2, <2>3, <2>4 DEF Numbers
  <1>6. JobsFollowed' /\ OneJob'
    <2>1. \A i \in jobs : Followed(i)' /\ Over(i)'
      BY <1>1, BeginsKeepsJobs
    <2> QED
      BY <2>1 DEF JobsFollowed, AttendInv, OneJob, Attempt
  <1>7. Abandoned' = Abandoned
    BY <1>1 DEF Abandoned
  <1>8. Displays' /\ Worked' /\ CanceledWorked'
    BY <1>1, <1>3, <1>7, SameProcs, WorkKept DEF AttendInv, KeepCalls
  <1>9. Prepared'
    <2>1. op.st # "none" /\ SideMatches(side', op) => side' = side
      BY ChosenIsNew DEF SideBegins, sidecar
    <2> QED
      BY <1>7, <2>1 DEF AttendInv, Shown, Prepared, Active, SideMatches, Attempt, Prep
  <1> QED
    BY <1>5, <1>6, <1>8, <1>9 DEF AttendInv, Shown

LEMMA InstalledAttends ==
    ASSUME CompleteInv, CompleteInv', AttendInv, FreshStart, NoFresh,
           IF Prepares(Chosen) THEN side' = Begun(Chosen) /\ sideFile' = Begun(Chosen)
           ELSE UNCHANGED sidecar,
           UNCHANGED <<outside, closing, drawn, ledger>>,
           NEW rec, rec = Chosen, op' = rec, opFile' = rec,
           NEW k, jobs' = jobs \cup {k}, k.rec = rec, k.of = Attempt(rec),
           k.pc = IF SideMatches(side', rec) /\ rec.mode = "archived" THEN "prepare" ELSE "check"
    PROVE  AttendInv'
  <1>1. UNCHANGED <<procs, journal, revoked, stranded, missed>>
    BY DEF outside, ledger
  <1>2. /\ Sound(rec) /\ rec.st = "running" /\ rec.jid <= drawn /\ rec.attempt \in Nat
        /\ rec.adopted \in BOOLEAN /\ Attempt(rec) \in Attempts
        /\ Attempt(rec)[1] = rec.jid /\ Attempt(rec)[3] = rec.attempt
    BY ChosenIsNew, AttemptShape, AttemptSame
  <1>3. SideBegins(Chosen)
    BY DEF SideBegins, sidecar
  <1>4. side'.st = "canceled" => side' = side
    BY BegunSays DEF sidecar
  <1>5. \A u \in Used' : u \in Used \/ u = Attempt(rec)
    <2>1. SideAttempt(side)' = SideAttempt(side')
      BY DEF SideAttempt
    <2> QED
      BY <1>1, <1>4, <2>1 DEF Used, Attempt
  <1>6. ~rec.adopted =>
           /\ \A u \in Used : u[2] = FALSE /\ u[1] = rec.jid => u[3] < rec.attempt
           /\ Attempt(rec) \notin Used /\ \A i \in jobs : Attempt(i.rec) # Attempt(rec)
    BY ChosenIsNew DEF AttendInv, Numbers, Installs
  <1>7. Numbers'
    <2>1. Drawn'
      BY <1>1, <1>2 DEF AttendInv, Numbers, Drawn, NoFresh
    <2>2. ASSUME NEW u \in Used'
          PROVE  /\ u \in Attempts
                 /\ u[2] = FALSE => u[1] <= drawn /\ (Own(rec, u[1]) => u[3] <= rec.attempt)
      <3>1. CASE u \in Used
        <4>1. u \in Attempts /\ u[3] \in Nat /\ (u[2] = FALSE => u[1] <= drawn)
          BY <3>1, Bounds DEF AttendInv, Numbers, Older, Attempts
        <4>2. u[2] = FALSE /\ Own(rec, u[1]) => u[3] < rec.attempt
          BY <1>6, <3>1 DEF Own
        <4> QED
          BY <1>2, <4>1, <4>2
      <3>2. CASE u = Attempt(rec)
        BY <1>2, <3>2
      <3> QED
        BY <1>5, <3>1, <3>2
    <2>3. Older'
      BY <2>2 DEF Older, Own
    <2>4. Order'
      BY <1>2 DEF Order, Own
    <2>5. Installs'
      BY DEF NoFresh, Installs
    <2> QED
      BY <2>1, <2>3, <2>4, <2>5 DEF Numbers
  <1>8. JobsFollowed'
    <2>1. \A i \in jobs : Followed(i)' /\ Over(i)'
      BY <1>1, <1>3, BeginsKeepsJobs
    <2>2. k.pc # "save" /\ k.pc # "outcome" /\ k.pc # "wait"
      OBVIOUS
    <2>3. Followed(k)'
      BY <1>2, <2>2, FollowsItself DEF Followed, Follows, Attempt
    <2>4. k.pc \in Bound => \A s \in {side', sideFile'} : ~SideMatches(s, rec)
      <3>1. Prepares(rec) => SideMatches(Begun(rec), rec) /\ rec.mode = "archived"
        BY BegunSays, ChosenIsNew DEF SideMatches, Prepares
      <3>2. Prepares(rec) => k.pc = "prepare"
        BY <3>1
      <3>3. ~Prepares(rec) => \A s : ~SideMatches(s, rec)
        BY DEF SideMatches, Prepares
      <3> QED
        BY <3>2, <3>3 DEF Bound
    <2>5. Over(k)'
      BY <2>2, <2>4 DEF Over, InHand, SideMatches, Active
    <2> QED
      BY <2>1, <2>3, <2>5 DEF JobsFollowed
  <1>9. OneJob'
    <2>1. \A i \in jobs : Attempt(i.rec) = Attempt(rec) => rec.adopted /\ i.rec.adopted
      BY <1>6, AttemptSame
    <2> QED
      BY <2>1 DEF AttendInv, OneJob, Attempt
  <1>10. Displays'
    BY DEF NoFresh, Displays
  <1>11. Worked'
    <2>1. HasJob(op)'
      BY DEF HasJob, Attempt
    <2> QED
      BY <2>1 DEF Worked
  <1>12. CanceledWorked'
    <2> SUFFICES ASSUME side'.st = "canceled", SideAttempt(side') = Attempt(rec) PROVE FALSE
      BY DEF CanceledWorked, SideAttempt, Attempt
    <2>1. Attempt(rec) \in Used /\ ~rec.adopted
      BY <1>4, AttemptSame DEF Used
    <2> QED
      BY <1>6, <2>1
  <1>13. Prepared'
    <2> SUFFICES ASSUME SideMatches(side', rec)
                 PROVE  \E j \in jobs' : Attempt(j.rec) = Attempt(rec) /\ SideMatches(side', j.rec)
                                         /\ j.pc \in Prep
      BY DEF Prepared, Active, SideMatches, Attempt, Prep
    <2>1. k.pc = "prepare"
      BY DEF SideMatches
    <2> QED
      BY <2>1 DEF Prep
  <1> QED
    BY <1>7, <1>8, <1>9, <1>10, <1>11, <1>12, <1>13 DEF AttendInv, Shown

\* What becomes of the receipt a handler has read.
Installed(rec, k) ==
    /\ rec = Chosen /\ op' = rec /\ opFile' = rec
    /\ IF Prepares(Chosen) THEN side' = Begun(Chosen) /\ sideFile' = Begun(Chosen)
       ELSE UNCHANGED sidecar
    /\ jobs' = jobs \cup {k} /\ k.rec = rec /\ k.of = Attempt(rec)
    /\ k.pc = IF SideMatches(side', rec) /\ rec.mode = "archived" THEN "prepare" ELSE "check"
NotInstalled == /\ SideBegins(Chosen) /\ UNCHANGED <<op, jobs>> /\ KeepCalls /\ ~FreshStart'
                /\ opFile' \in {opFile, Chosen}

LEMMA StartInstallSays ==
    ASSUME CompleteInv, StartInstall
    PROVE  /\ UNCHANGED <<outside, closing, drawn, ledger>>
           /\ \/ KeepCalls /\ UNCHANGED <<op, opFile, jobs, sidecar>>
              \/ FreshStart /\ ~closing /\ NotInstalled
              \/ FreshStart /\ ~closing /\ NoFresh /\ \E rec, k : Installed(rec, k)
  <1> DEFINE rest == [calls EXCEPT !["handler"] = NoCall]
  <1>1. UNCHANGED <<outside, closing, drawn, ledger>> /\ calls["handler"] # NoCall
    BY DEF StartInstall
  <1>2. GoodCalls(rest) /\ (calls' = rest => KeepCalls /\ ~FreshStart')
    BY CallEnds, CallsGood, CallDone DEF CompleteInv, Shape
  <1>3. \/ calls' = rest /\ UNCHANGED <<op, opFile, jobs, sidecar>>
        \/ /\ calls["handler"].fresh /\ ~closing
           /\ IF Prepares(Chosen) THEN side' = Begun(Chosen) /\ sideFile' = Begun(Chosen)
              ELSE UNCHANGED sidecar
           /\ \/ Replace(Chosen, rest) /\ jobs' = jobs \cup {Job(Chosen)}
              \/ NotReplaced(Chosen, rest) /\ UNCHANGED jobs
        \/ /\ calls["handler"].fresh /\ ~closing /\ Prepares(Chosen)
           /\ SideNotSaved(Begun(Chosen)) /\ calls' = rest /\ UNCHANGED <<op, opFile, jobs>>
    BY DEF StartInstall, Chosen, Prepares
  <1> HIDE DEF rest
  <1>4. CASE calls' = rest /\ UNCHANGED <<op, opFile, jobs, sidecar>>
    BY <1>1, <1>2, <1>4
  <1>5. CASE /\ calls["handler"].fresh /\ ~closing
             /\ IF Prepares(Chosen) THEN side' = Begun(Chosen) /\ sideFile' = Begun(Chosen)
                ELSE UNCHANGED sidecar
             /\ \/ Replace(Chosen, rest) /\ jobs' = jobs \cup {Job(Chosen)}
                \/ NotReplaced(Chosen, rest) /\ UNCHANGED jobs
    <2>1. FreshStart
      BY <1>1, <1>5 DEF FreshStart
    <2>2. CASE Replace(Chosen, rest) /\ jobs' = jobs \cup {Job(Chosen)}
      <3>1. PICK rec : rec = Chosen
        OBVIOUS
      <3>2. op' = rec /\ opFile' = rec /\ calls' = Stale(rest)
        BY <2>2, <3>1 DEF Replace
      <3>3. NoFresh
        BY <1>2, <3>2, StaleCalls
      <3>4. PICK k : k = Job(rec)
        OBVIOUS
      <3>5. /\ k.rec = rec /\ k.of = Attempt(rec)
            /\ k.pc = IF SideMatches(side', rec) /\ rec.mode = "archived"
                      THEN "prepare" ELSE "check"
        BY <3>4 DEF Job
      <3>6. jobs' = jobs \cup {k}
        BY <2>2, <3>1, <3>4
      <3>7. Installed(rec, k)
        BY <1>5, <3>1, <3>2, <3>5, <3>6 DEF Installed
      <3> QED
        BY <1>1, <1>5, <2>1, <3>3, <3>7
    <2>3. CASE NotReplaced(Chosen, rest) /\ UNCHANGED jobs
      <3>1. op' = op /\ calls' = rest /\ (opFile' = opFile \/ opFile' = Chosen)
        BY <2>3 DEF NotReplaced
      <3>2. SideBegins(Chosen)
        BY <1>5 DEF SideBegins
      <3> QED
        BY <1>1, <1>2, <1>5, <2>1, <2>3, <3>1, <3>2 DEF NotInstalled
    <2> QED
      BY <1>5, <2>2, <2>3
  <1>6. CASE /\ calls["handler"].fresh /\ ~closing /\ Prepares(Chosen)
             /\ SideNotSaved(Begun(Chosen)) /\ calls' = rest /\ UNCHANGED <<op, opFile, jobs>>
    <2>1. FreshStart
      BY <1>1, <1>6 DEF FreshStart
    <2>2. SideBegins(Chosen)
      BY <1>6 DEF SideBegins, SideNotSaved
    <2> QED
      BY <1>1, <1>2, <1>6, <2>1, <2>2 DEF NotInstalled
  <1> QED
    BY <1>3, <1>4, <1>5, <1>6

LEMMA StartInstallAttends ==
    ASSUME CompleteInv, CompleteInv', AttendInv, StartInstall
    PROVE  AttendInv'
  <1>1. /\ UNCHANGED <<outside, closing, drawn, ledger>>
        /\ \/ KeepCalls /\ UNCHANGED <<op, opFile, jobs, sidecar>>
           \/ FreshStart /\ ~closing /\ NotInstalled
           \/ FreshStart /\ ~closing /\ NoFresh /\ \E rec, k : Installed(rec, k)
    BY StartInstallSays
  <1>2. UNCHANGED <<procs, journal, revoked, stranded, missed>>
    BY <1>1 DEF outside, ledger
  <1>3. CASE KeepCalls /\ UNCHANGED <<op, opFile, jobs, sidecar>>
    BY <1>1, <1>2, <1>3, SameSides, InPlaceAttends, JidsDrawn DEF sidecar
  <1>4. CASE FreshStart /\ NotInstalled
    <2>1. PICK f \in {opFile, Chosen} : opFile' = f
      BY <1>4 DEF NotInstalled
    <2> QED
      BY <1>1, <1>4, <2>1, NotInstalledAttends DEF NotInstalled
  <1>5. CASE FreshStart /\ NoFresh /\ \E rec, k : Installed(rec, k)
    <2>1. PICK rec, k : Installed(rec, k)
      BY <1>5
    <2> QED
      BY <1>1, <1>5, <2>1, InstalledAttends DEF Installed
  <1> QED
    BY <1>1, <1>3, <1>4, <1>5

(***************************************************************************)
(* A restart.                                                              *)
(***************************************************************************)
\* The receipts are of the attempt on disk.  It is taken up by a job if its
\* preparation was active and no journal is there.
LEMMA RestartSays ==
    ASSUME CompleteInv, Restart
    PROVE  /\ UNCHANGED <<journal, drawn, revoked, sideFile>> /\ closing' = FALSE
           /\ procs' \subseteq procs /\ \A p \in procs : p.by # "job" => p \in procs'
           /\ NoFresh
           /\ \A rec \in {op', opFile'} :
                 IF opFile.st = "none" THEN rec = opFile
                 ELSE Follows(rec, opFile) /\ rec.expected = opFile.expected /\ Sound(rec)
           /\ side' = NoSide \/ (side' = sideFile /\ SideMatches(sideFile, opFile) /\ opFile.st # "none")
           /\ \/ /\ jobs' = {} /\ op'.st # "running" /\ opFile' = opFile
                 /\ Active(side') /\ SideMatches(side', op') =>
                       Pending /\ Attempt(op)' \in missed'
              \/ /\ opFile.st # "none" /\ op' = opFile' /\ side' = sideFile /\ Active(sideFile)
                 /\ \E k : jobs' = {k} /\ k.rec = op' /\ k.of = Attempt(op') /\ k.pc = "prepare"
  <1> DEFINE rec == Loaded(opFile)
             candidate == /\ rec.st \notin {"none", "complete"} /\ SideMatches(sideFile, rec)
                          /\ rec.kind = "archive" /\ rec.mode = "archived" /\ ~rec.expected
             owed == candidate /\ Active(sideFile)
             resumes == owed /\ ~Pending
             running == [rec EXCEPT !.st = "running"]
  <1>1. /\ UNCHANGED <<journal, drawn, revoked, sideFile>> /\ closing' = FALSE
        /\ procs' = {p \in procs : p.by # "job"}
        /\ calls' = [w \in DOMAIN calls |-> NoCall]
    BY DEF Restart
  <1>2. /\ side' = IF candidate THEN sideFile ELSE NoSide
        /\ op' = IF resumes THEN running ELSE rec
        /\ opFile' = IF resumes THEN running ELSE opFile
        /\ resumes => jobs' = {Job(running)}
        /\ ~resumes => jobs' = {}
        /\ missed' = IF owed /\ Pending THEN {Attempt(rec)} ELSE {}
    BY DEF Restart
  <1>3. Sound(opFile) /\ Sound(rec) /\ (rec.st = "none" <=> opFile.st = "none")
    BY CallsGood, LoadedGood DEF GoodRec
  <1>4. NoFresh
    <2>1. DOMAIN calls = {"display", "handler"}
      BY CallsGood DEF GoodCalls
    <2> QED
      BY <1>1, <2>1 DEF NoFresh, FreshRefresh, FreshStart
  <1>5. rec.st = "none" => rec = opFile
    BY <1>3 DEF Sound
  <1>6. rec.st # "none" =>
           /\ rec.st # "running"
           /\ rec.kind = opFile.kind /\ rec.jid = opFile.jid /\ rec.adopted = opFile.adopted
           /\ rec.attempt = opFile.attempt /\ rec.target = opFile.target
           /\ rec.mode = opFile.mode /\ rec.expected = opFile.expected
    <2>1. CASE opFile.st = "running"
      <3>1. rec = [opFile EXCEPT !.st = "paused"]
        BY <2>1 DEF Loaded
      <3> QED
        BY <1>3, <2>1, <3>1, StateKept
    <2>2. CASE opFile.st # "running"
      BY <2>2 DEF Loaded
    <2> QED
      BY <2>1, <2>2
  <1>7. rec.st # "none" =>
           /\ Sound(running) /\ running.st = "running" /\ running.kind = rec.kind
           /\ running.jid = rec.jid /\ running.adopted = rec.adopted
           /\ running.attempt = rec.attempt /\ running.target = rec.target
           /\ running.mode = rec.mode /\ running.expected = rec.expected
    BY <1>3, StateKept
  <1> HIDE DEF rec, running
  <1>8. rec.st # "none" => Follows(rec, opFile) /\ Follows(running, opFile)
    BY <1>6, <1>7, FollowsFields
  <1>9. rec.st # "none" => \A s : SideMatches(s, rec) <=> SideMatches(s, opFile)
    BY <1>6 DEF SideMatches
  <1>10. rec.st # "none" => \A s : SideMatches(s, running) <=> SideMatches(s, opFile)
    BY <1>6, <1>7 DEF SideMatches
  <1>11. \A r \in {op', opFile'} :
            IF opFile.st = "none" THEN r = opFile
            ELSE Follows(r, opFile) /\ r.expected = opFile.expected /\ Sound(r)
    <2>1. opFile.st # "none" => Follows(opFile, opFile)
      BY <1>3, FollowsItself
    <2> QED
      BY <1>2, <1>3, <1>5, <1>6, <1>7, <1>8, <2>1
  <1>12. side' = NoSide \/ (side' = sideFile /\ SideMatches(sideFile, opFile) /\ opFile.st # "none")
    BY <1>2, <1>3, <1>9
  <1>13. CASE ~resumes
    <2>1. jobs' = {} /\ op' = rec /\ opFile' = opFile /\ op'.st # "running"
      BY <1>2, <1>6, <1>13
    <2>2. ASSUME Active(side'), SideMatches(side', op')
          PROVE  Pending /\ Attempt(op)' \in missed'
      <3>1. ~Active(NoSide)
        BY DEF Active, NoSide
      <3>2. owed
        BY <1>2, <2>2, <3>1
      <3> QED
        BY <1>2, <1>13, <2>1, <3>2 DEF Attempt
    <2> QED
      BY <1>1, <1>4, <1>11, <1>12, <2>1, <2>2
  <1>14. CASE resumes
    <2>1. PICK k : k = Job(running)
      OBVIOUS
    <2>2. op' = running /\ opFile' = running /\ side' = sideFile /\ jobs' = {k}
          /\ Active(sideFile) /\ SideMatches(sideFile, running) /\ opFile.st # "none"
          /\ running.mode = "archived"
      BY <1>2, <1>3, <1>7, <1>9, <1>10, <1>14, <2>1
    <2>3. k.rec = op' /\ k.of = Attempt(op') /\ k.pc = "prepare"
      BY <2>1, <2>2 DEF Job
    <2> QED
      BY <1>1, <1>4, <1>11, <1>12, <2>2, <2>3
  <1> QED
    BY <1>13, <1>14

LEMMA RestartAttends ==
    ASSUME CompleteInv, CompleteInv', AttendInv, Restart
    PROVE  AttendInv'
  <1>1. /\ UNCHANGED <<journal, drawn, revoked, sideFile>> /\ procs' \subseteq procs
        /\ NoFresh
        /\ \A rec \in {op', opFile'} :
              IF opFile.st = "none" THEN rec = opFile ELSE Follows(rec, opFile)
        /\ side' = NoSide \/ (side' = sideFile /\ SideMatches(sideFile, opFile) /\ opFile.st # "none")
        /\ \/ /\ jobs' = {} /\ op'.st # "running"
              /\ Active(side') /\ SideMatches(side', op') => Attempt(op)' \in missed'
           \/ /\ opFile.st # "none" /\ op' = opFile' /\ side' = sideFile /\ Active(sideFile)
              /\ \E k : jobs' = {k} /\ k.rec = op' /\ k.of = Attempt(op') /\ k.pc = "prepare"
    BY RestartSays
  <1>2. /\ Sound(opFile) /\ opFile.attempt \in Nat /\ opFile.jid <= drawn
        /\ Attempt(opFile) \in Attempts
        /\ Attempt(opFile)[1] = opFile.jid /\ Attempt(opFile)[2] = opFile.adopted
        /\ Attempt(opFile)[3] = opFile.attempt
    BY CallsGood, AttemptShape, AttemptSame, JidsDrawn DEF GoodRec
  <1>3. \A rec \in {op', opFile'} :
           /\ rec.jid = opFile.jid /\ rec.attempt = opFile.attempt /\ rec.adopted = opFile.adopted
           /\ Attempt(rec) = Attempt(opFile)
           /\ rec.st # "none" <=> opFile.st # "none"
    <2>1. ASSUME NEW rec, Follows(rec, opFile)
          PROVE  /\ rec.jid = opFile.jid /\ rec.attempt = opFile.attempt
                 /\ rec.adopted = opFile.adopted /\ Attempt(rec) = Attempt(opFile)
                 /\ rec.st # "none"
      BY <2>1, AttemptSame DEF Follows
    <2>2. CASE opFile.st = "none"
      BY <1>1, <2>2
    <2>3. CASE opFile.st # "none"
      BY <1>1, <2>1, <2>3
    <2> QED
      BY <2>2, <2>3
  <1>4. \A u \in Used' : u \in Used \/ (opFile.st # "none" /\ u = Attempt(opFile))
    <2>1. SideAttempt(side)' = SideAttempt(side') /\ \A k : Attempt(k.rec)' = Attempt(k.rec)
      BY DEF SideAttempt, Attempt
    <2>2. side'.st = "canceled" => opFile.st # "none" /\ SideAttempt(side') = Attempt(opFile)
      <3>1. NoSide.st # "canceled"
        BY DEF NoSide
      <3> QED
        BY <1>1, <1>2, <3>1, MatchNames
    <2>3. \A k \in jobs' : Attempt(k.rec) = Attempt(opFile) /\ opFile.st # "none"
      BY <1>1, <1>3
    <2> QED
      BY <1>1, <2>1, <2>2, <2>3 DEF Used
  <1>5. Numbers'
    <2>1. Drawn'
      <3>1. \A k \in jobs' : k.rec.jid = opFile.jid
        BY <1>1, <1>3
      <3> QED
        BY <1>1, <1>2, <1>3, <3>1, JidsDrawn DEF Drawn, NoFresh
    <2>2. Older'
      <3>1. \A u \in Used' : u \in Attempts /\ (u[2] = FALSE => u[1] <= drawn)
        BY <1>2, <1>4 DEF AttendInv, Numbers, Older
      <3>2. \A u \in Used' : u[2] = FALSE /\ Own(opFile, u[1]) => u[3] <= opFile.attempt
        BY <1>2, <1>4 DEF AttendInv, Numbers, Older
      <3>3. \A rec \in {op', opFile'} : \A jid : Own(rec, jid) => Own(opFile, jid)
        BY <1>3 DEF Own
      <3>4. ASSUME NEW u \in Used', u[2] = FALSE, NEW rec \in {op', opFile'}, Own(rec, u[1])
            PROVE  u[3] <= rec.attempt
        BY <1>3, <3>2, <3>3, <3>4
      <3> QED
        BY <1>1, <3>1, <3>4 DEF Older, Own
    <2>3. Order'
      BY <1>2, <1>3 DEF Order, Own
    <2>4. Installs'
      BY <1>1 DEF NoFresh, Installs
    <2> QED
      BY <2>1, <2>2, <2>3, <2>4 DEF Numbers
  <1>6. JobsFollowed' /\ OneJob'
    <2>1. ASSUME NEW k \in jobs' PROVE Followed(k)' /\ Over(k)'
      <3>1. k.rec = op' /\ op' = opFile' /\ k.of = Attempt(op') /\ k.pc = "prepare"
        BY <1>1, <2>1
      <3>2. op'.st # "none" => Follows(op', op')
        BY CallsGood, FollowsItself DEF Follows
      <3> QED
        BY <3>1, <3>2 DEF Followed, Over, Follows, Attempt, Bound, Prep
    <2>2. \A j, k \in jobs' : j = k
      BY <1>1
    <2> QED
      BY <2>1, <2>2 DEF JobsFollowed, OneJob
  <1>7. Displays'
    BY <1>1 DEF NoFresh, Displays
  <1>8. CASE jobs' = {} /\ op'.st # "running"
             /\ (Active(side') /\ SideMatches(side', op') => Attempt(op)' \in missed')
    <2>1. Worked' /\ CanceledWorked'
      BY <1>1, <1>8, NothingRuns
    <2>2. Prepared'
      BY <1>8 DEF Prepared, Active, SideMatches, Abandoned
    <2> QED
      BY <1>5, <1>6, <1>7, <2>1, <2>2 DEF AttendInv, Shown
  <1>9. CASE /\ opFile.st # "none" /\ side' = sideFile /\ Active(sideFile)
             /\ \E k : jobs' = {k} /\ k.rec = op' /\ k.pc = "prepare"
    <2>1. PICK k : jobs' = {k} /\ k.rec = op' /\ k.pc = "prepare"
      BY <1>9
    <2>2. Worked'
      BY <2>1 DEF Worked, HasJob, Attempt
    <2>3. CanceledWorked'
      BY <1>9 DEF CanceledWorked, Active
    <2>4. Prepared'
      BY <2>1 DEF Prepared, Prep, Attempt, SideMatches
    <2> QED
      BY <1>5, <1>6, <1>7, <2>2, <2>3, <2>4 DEF AttendInv, Shown
  <1> QED
    BY <1>1, <1>8, <1>9

(***************************************************************************)
(* What is shown as running is worked on.                                  *)
(***************************************************************************)
LEMMA JobStepAttends ==
    ASSUME CompleteInv, CompleteInv', AttendInv, NEW j \in jobs, JobStep(j)
    PROVE  AttendInv'
  <1>1. CASE \/ PrepCheck(j) \/ PrepReady(j) \/ PrepCompose(j) \/ PrepRepair(j)
             \/ PrepTurn(j) \/ PrepUnknown(j)
    BY <1>1, PrepWorks, WorksAttends
  <1>2. CASE PrepRefused(j) \/ PrepFail(j) \/ ExecCheck(j) \/ Canceled(j)
    BY <1>2, EndWorks, WorksAttends
  <1>3. CASE Wait(j) \/ Outcome(j)
    BY <1>3, WaitWorks, OutcomeWorks, WorksAttends
  <1>4. CASE Launch(j) \/ SaveOutcome(j)
    BY <1>4, LaunchAttends, SaveOutcomeAttends
  <1> QED
    BY <1>1, <1>2, <1>3, <1>4 DEF JobStep

LEMMA AttendNext == CompleteInv /\ CompleteInv' /\ AttendInv /\ [Next]_vars => AttendInv'
  <1> SUFFICES ASSUME CompleteInv, CompleteInv', AttendInv, [Next]_vars PROVE AttendInv'
    OBVIOUS
  <1>1. CASE RefreshRead \/ RefreshAccept \/ RetryRead \/ StartInstall \/ Dismiss \/ Cancel
    BY <1>1, RefreshReadAttends, RefreshAcceptAttends, RetryReadAttends, StartInstallAttends,
       DismissAttends, CancelAttends
  <1>2. ASSUME NEW ask \in cast.asks, AskRead(ask) PROVE AttendInv'
    BY <1>2, AskReadAttends
  <1>3. ASSUME NEW j \in jobs, JobStep(j) PROVE AttendInv'
    BY <1>3, JobStepAttends
  <1>4. CASE \/ \E p \in procs : ProcStart(p) \/ ProcStep(p) \/ ProcDie(p)
             \/ \E t \in DOMAIN turns : LeadFinishes(t)
             \/ \E kind \in Kinds : Terminal(kind)
             \/ TerminalCreate
    BY <1>4, OutsideAttends
  <1>5. CASE Close \/ Down \/ Crash
    BY <1>5, CloseAttends, RestartAttends DEF Down, Crash
  <1>6. CASE UNCHANGED vars
    <2>1. UNCHANGED <<op, calls, procs, journal, drawn, revoked, stranded, missed, jobs,
                      closing, side, sidecar, opFile>>
      BY <1>6 DEF vars, sidecar
    <2> QED
      BY <2>1, SameSides, SameCalls, InPlaceAttends, JidsDrawn
  <1> QED
    BY <1>1, <1>2, <1>3, <1>4, <1>5, <1>6 DEF Next

LEMMA AttendGives == CompleteInv /\ AttendInv => Attended
  <1> SUFFICES ASSUME CompleteInv, AttendInv PROVE Attended
    OBVIOUS
  <1>1. HasUnit(op) => Unit(op) # {}
    BY DEF HasUnit, Unit
  <1> QED
    BY <1>1 DEF AttendInv, OneJob, Shown, Worked, Running, HasJob, Abandoned, Attended

\* A receipt that says running has one goroutine of its attempt, or its unit
\* (runLifecycleJob, startLifecycleOperation, reconcileLifecycleOperation),
\* however its jobs end, its saves fail and the portal restarts.
THEOREM RunningIsAttended == Spec => []Attended
  <1>1. Init => AttendInv
    BY AttendInit
  <1> QED
    BY <1>1, CompleteAlways, AttendNext, AttendGives, PTL DEF Spec

(***************************************************************************)
(* What is canceled is not started.                                        *)
(***************************************************************************)
LEMMA CancelInit == Init => CancelInv
  <1> SUFFICES ASSUME Init PROVE CancelInv
    OBVIOUS
  <1>1. /\ op = NoOp /\ opFile = NoOp /\ jobs = {} /\ procs = {} /\ revoked = {}
        /\ side = NoSide /\ sideFile = NoSide
    BY DEF Init
  <1>2. NoOp.st = "none" /\ ~Active(NoSide) /\ Commanded = {}
    BY <1>1 DEF NoOp, NoSide, Active, Commanded
  <1> QED
    BY <1>1, <1>2 DEF CancelInv, Revocations, Holding, Unstarted

\* A unit keeps its name.
LEMMA NamedBefore ==
    ASSUME \A p \in procs : p.by = "unit" =>
              \E q \in procs' : q.by = "unit" /\ q.of = p.of /\ q.jid = p.jid
    PROVE  UnitsNamed' => UnitsNamed
  BY DEF UnitsNamed

\* An active preparation of a receipt after the step.
ActiveAfter(rec) == \E s \in {side', sideFile'} : SideMatches(s, rec) /\ Active(s)

LEMMA ActiveBefore == NoBegin => \A rec : ActiveAfter(rec) => ActiveFor(rec)
  BY TwinMatches DEF NoBegin, ActiveAfter, ActiveFor

LEMMA InHandBefore == NoBegin => \A i : InHand(i)' => InHand(i)
  <1> SUFFICES ASSUME NoBegin, NEW i, InHand(i)' PROVE InHand(i)
    OBVIOUS
  <1>1. SideMatches(side', i.rec) /\ Active(side')
    BY DEF InHand, SideMatches, Active
  <1> QED
    BY <1>1, TwinMatches DEF NoBegin, InHand

LEMMA UnstartedAfter ==
    ASSUME NEW c, Commanded' \subseteq c,
           \A j \in jobs' :
              /\ ~j.rec.adopted
              /\ j.pc \in Prep \cup Bound \/ (j.pc \in {"outcome", "save"} /\ ActiveAfter(j.rec))
              => Attempt(j.rec) \notin c,
           \A rec \in {op', opFile'} :
              rec.st # "none" /\ ActiveAfter(rec) => Attempt(rec) \notin c,
           \A u \in c : u \notin revoked'
    PROVE  Unstarted'
  <1>1. \A j \in jobs' : Unbegun(j)' => Attempt(j.rec)' \notin Commanded'
    <2> SUFFICES ASSUME NEW j \in jobs', Unbegun(j)' PROVE Attempt(j.rec) \notin Commanded'
      BY DEF Attempt
    <2>1. ~j.rec.adopted
          /\ (j.pc \in Prep \cup Bound \/ (j.pc \in {"outcome", "save"} /\ ActiveAfter(j.rec)))
      BY DEF Unbegun, ActiveFor, ActiveAfter, SideMatches, Active, Prep, Bound
    <2> QED
      BY <2>1
  <1>2. \A rec \in {op', opFile'} : rec.st # "none" /\ ActiveAfter(rec) => Attempt(rec) \notin Commanded'
    OBVIOUS
  <1>3. \A u \in Commanded' : u \notin revoked'
    OBVIOUS
  <1> QED
    BY <1>1, <1>2, <1>3 DEF Unstarted, ActiveFor, ActiveAfter, SideMatches, Active, Attempt

\* Jobs go on, and what they may still start they might before.
Continues ==
    \A k \in jobs' : \E i \in jobs :
       /\ k.rec = i.rec
       /\ k.pc \in Prep => i.pc \in Prep
       /\ k.pc \in Bound => i.pc \in Bound \/ (i.pc \in Prep /\ InHand(i))

LEMMA RevocationsKept ==
    ASSUME CompleteInv, CompleteInv', Revocations, Continues, NoBegin, UNCHANGED revoked,
           op'.st # "none" /\ ~op'.adopted => op.st # "none" /\ Attempt(op') = Attempt(op)
    PROVE  Revocations'
  <1>1. \A k \in jobs' : k.pc \in Bound => Attempt(k.rec) \notin revoked
    <2> SUFFICES ASSUME NEW k \in jobs', k.pc \in Bound PROVE Attempt(k.rec) \notin revoked
      OBVIOUS
    <2>1. PICK i \in jobs : k.rec = i.rec /\ (i.pc \in Bound \/ InHand(i))
      BY DEF Continues
    <2>2. InHand(i) => Active(side) /\ SideAttempt(side) = Attempt(i.rec)
      BY JobFields, MatchNames DEF InHand
    <2> QED
      BY <2>1, <2>2 DEF Revocations
  <1>2. \A s \in {side', sideFile'} : Active(s) => SideAttempt(s) \notin revoked
    BY TwinMatches DEF NoBegin, Revocations
  <1>3. op'.st # "none" /\ ~op'.adopted => \A k \in jobs' : k.rec.adopted => k.rec.jid # op'.jid
    <2> SUFFICES ASSUME op'.st # "none", ~op'.adopted, NEW k \in jobs', k.rec.adopted
                 PROVE  k.rec.jid # op'.jid
      OBVIOUS
    <2>1. op.st # "none" /\ op'.jid = op.jid /\ ~op.adopted
      <3>1. PICK o : o = op'
        OBVIOUS
      <3>2. op.st # "none" /\ Attempt(o) = Attempt(op)
        BY <3>1 DEF Attempt
      <3>3. o.jid = op.jid /\ o.adopted = op.adopted
        BY <3>2, AttemptSame
      <3> QED
        BY <3>1, <3>2, <3>3
    <2>2. PICK i \in jobs : k.rec = i.rec
      BY DEF Continues
    <2> QED
      BY <2>1, <2>2 DEF Revocations
  <1> QED
    BY <1>1, <1>2, <1>3 DEF Revocations, Active, SideAttempt, Attempt, Bound

LEMMA HeldKept ==
    ASSUME NEW i, NEW k, Held(i), Holds(i), k.rec = i.rec, k.pc \in Prep => i.pc \in Prep,
           op' = op, KeepSeen, closing => closing'
    PROVE  Held(k)'
  BY DEF Held, Own, KeepSeen, Attempt, Prep

LEMMA HoldingKept ==
    ASSUME CompleteInv, Holding, Continues, NoBegin, op' = op, KeepSeen, closing => closing'
    PROVE  Holding'
  <1> SUFFICES ASSUME NEW k \in jobs', Holds(k)' PROVE Held(k)'
    BY DEF Holding, Held
  <1>1. PICK i \in jobs : /\ k.rec = i.rec
                          /\ k.pc \in Prep => i.pc \in Prep
                          /\ k.pc \in Bound => i.pc \in Bound \/ (i.pc \in Prep /\ InHand(i))
    BY DEF Continues
  <1>2. ~k.rec.adopted /\ (k.pc \in Bound \/ (SideMatches(side', k.rec) /\ Active(side')
                                               /\ k.pc \in Prep))
    BY DEF Holds, InHand, SideMatches, Active, Prep, Bound
  <1>3. SideMatches(side', k.rec) /\ Active(side') => InHand(i)
    BY <1>1, TwinMatches DEF NoBegin, InHand
  <1>4. Holds(i)
    BY <1>1, <1>2, <1>3 DEF Holds
  <1> QED
    BY <1>1, <1>4, HeldKept DEF Holding

LEMMA UnstartedKept ==
    ASSUME CompleteInv, AttendInv, Unstarted, Continues, NoBegin, UNCHANGED revoked,
           Commanded' \subseteq Commanded,
           \A rec \in {op', opFile'} : rec.st # "none" /\ ActiveFor(rec) =>
              Attempt(rec) \notin Commanded
    PROVE  Unstarted'
  <1>1. ASSUME NEW k \in jobs', ~k.rec.adopted,
               k.pc \in Prep \cup Bound \/ (k.pc \in {"outcome", "save"} /\ ActiveAfter(k.rec))
        PROVE  Attempt(k.rec) \notin Commanded
    <2>1. PICK i \in jobs : /\ k.rec = i.rec
                            /\ k.pc \in Prep => i.pc \in Prep
                            /\ k.pc \in Bound => i.pc \in Bound \/ (i.pc \in Prep /\ InHand(i))
      BY DEF Continues
    <2>2. Over(i) /\ i \in Jobs
      BY JobFields DEF AttendInv, JobsFollowed
    <2>3. CASE k.pc \in Prep \cup Bound
      BY <1>1, <2>1, <2>3 DEF Unstarted, Unbegun
    <2>4. CASE k.pc \in {"outcome", "save"} /\ ActiveAfter(k.rec)
      <3>1. ActiveFor(i.rec)
        BY <2>1, <2>4, ActiveBefore
      <3>2. i.pc # "wait"
        BY <2>2, <3>1 DEF Over, ActiveFor
      <3>3. i.pc \in Prep \cup Bound \cup {"outcome", "save"}
        BY <2>2, <3>2 DEF Jobs, Prep, Bound
      <3> QED
        BY <1>1, <2>1, <3>1, <3>3 DEF Unstarted, Unbegun
    <2> QED
      BY <1>1, <2>3, <2>4
  <1>2. \A rec \in {op', opFile'} : rec.st # "none" /\ ActiveAfter(rec) =>
           Attempt(rec) \notin Commanded
    BY ActiveBefore
  <1> QED
    BY <1>1, <1>2, UnstartedAfter DEF Unstarted

\* Receipts that follow one of an attempt nobody has started.
LEMMA HeirsUnstarted ==
    ASSUME CompleteInv, CompleteInv', Heirs, Unstarted
    PROVE  \A rec \in {op', opFile'} : rec.st # "none" /\ ActiveFor(rec) =>
              Attempt(rec) \notin Commanded
  <1> SUFFICES ASSUME NEW rec \in {op', opFile'}, rec.st # "none", ActiveFor(rec)
               PROVE  Attempt(rec) \notin Commanded
    OBVIOUS
  <1>1. ~rec.adopted
    BY DEF ActiveFor, SideMatches
  <1>2. PICK old \in {op, opFile} : old.st # "none" /\ Follows(rec, old)
    BY <1>1 DEF Heirs
  <1>3. ActiveFor(old) /\ Attempt(rec) = Attempt(old)
    BY <1>2, MatchedBefore DEF ActiveFor, Follows
  <1> QED
    BY <1>2, <1>3 DEF Unstarted

\* Steps that leave the receipt in place and start no command.
LEMMA CancelKept ==
    ASSUME CompleteInv, CompleteInv', AttendInv, CancelInv, Continues, NoBegin, Heirs,
           op' = op, KeepSeen, closing => closing', UNCHANGED revoked, ProcsNamed
    PROVE  CancelInv'
  <1>1. UnitsNamed' => UnitsNamed
    BY NamedBefore DEF ProcsNamed
  <1>2. Commanded' \subseteq Commanded
    BY DEF Commanded, ProcsNamed
  <1>3. Revocations'
    BY RevocationsKept DEF CancelInv
  <1>4. Holding => Holding'
    BY HoldingKept
  <1>5. Unstarted => Unstarted'
    BY <1>2, HeirsUnstarted, UnstartedKept
  <1> QED
    BY <1>1, <1>3, <1>4, <1>5 DEF CancelInv

LEMMA FewerContinue == jobs' \subseteq jobs => Continues
  BY DEF Continues

LEMMA OutsideCancels ==
    ASSUME CompleteInv, CompleteInv', AttendInv, CancelInv,
           \/ \E p \in procs : ProcStart(p) \/ ProcStep(p) \/ ProcDie(p)
           \/ \E t \in DOMAIN turns : LeadFinishes(t)
           \/ \E kind \in Kinds : Terminal(kind)
           \/ TerminalCreate
    PROVE  CancelInv'
  <1>1. ProcsNamed /\ UNCHANGED <<receipts, jobs, sidecar, closing, ledger>>
    BY OutsideAttends
  <1>2. UNCHANGED <<op, opFile, calls, jobs, revoked>> /\ (closing => closing')
    BY <1>1 DEF receipts, ledger
  <1>3. KeepSeen /\ Heirs /\ NoBegin /\ Continues
    BY <1>1, <1>2, SameCalls, SameHeirs, SameSides, FewerContinue DEF KeepCalls
  <1> QED
    BY <1>1, <1>2, <1>3, CancelKept

\* A handler reads.
LEMMA AskingCancels ==
    ASSUME CompleteInv, CompleteInv', AttendInv, CancelInv,
           RetryRead \/ \E ask \in cast.asks : AskRead(ask)
    PROVE  CancelInv'
  <1>1. UNCHANGED <<outside, op, opFile, jobs, sidecar, closing, ledger>>
    BY DEF RetryRead, AskRead
  <1>2. \E c : calls' = [calls EXCEPT !["handler"] = c]
    BY DEF RetryRead, AskRead
  <1>3. calls'["display"] = calls["display"]
    BY <1>2, CallsGood DEF GoodCalls
  <1>4. KeepSeen
    BY <1>3 DEF KeepSeen, FreshRefresh, Seen
  <1>5. UNCHANGED <<procs, revoked>> /\ (closing => closing')
    BY <1>1 DEF outside, ledger
  <1>6. Heirs /\ NoBegin /\ Continues /\ ProcsNamed
    BY <1>1, <1>5, SameHeirs, SameSides, FewerContinue, SameProcs
  <1> QED
    BY <1>1, <1>4, <1>5, <1>6, CancelKept

\* The receipt stays in place, whatever becomes of its copy on disk.
LEMMA InPlaceCancels ==
    ASSUME CompleteInv, CompleteInv', AttendInv, CancelInv, op' = op, KeepSeen,
           UNCHANGED <<procs, revoked>>, jobs' \subseteq jobs, closing => closing', NoBegin,
           NEW f, opFile' = f,
           f = opFile \/ f.st = "none" \/ f.adopted \/ (op.st # "none" /\ Follows(f, op))
    PROVE  CancelInv'
  <1>1. Heirs
    BY CallsGood, FollowsItself DEF Heirs, GoodRec
  <1>2. Continues /\ ProcsNamed
    BY FewerContinue, SameProcs
  <1> QED
    BY <1>1, <1>2, CancelKept

LEMMA WorksCancels ==
    ASSUME CompleteInv, CompleteInv', AttendInv, CancelInv, NEW j \in jobs, NEW k, Works(j, k)
    PROVE  CancelInv'
  <1>1. /\ UNCHANGED <<op, opFile, calls, revoked>> /\ (closing => closing')
        /\ ProcsNamed /\ NoBegin
    BY DEF Works
  <1>2. Continues
    <2> SUFFICES ASSUME NEW i \in jobs'
                 PROVE  \E o \in jobs : /\ i.rec = o.rec
                                        /\ i.pc \in Prep => o.pc \in Prep
                                        /\ i.pc \in Bound => o.pc \in Bound \/ (o.pc \in Prep /\ InHand(o))
      BY DEF Continues
    <2>1. CASE i = k
      <3>1. /\ i.rec = j.rec
            /\ i.pc \in Prep => j.pc \in Prep
            /\ i.pc \in Bound => j.pc \in Bound \/ (j.pc = "ready" /\ InHand(j))
        BY <2>1 DEF Works
      <3> QED
        BY <3>1 DEF Prep
    <2>2. CASE i \in jobs
      BY <2>2
    <2> QED
      BY <2>1, <2>2 DEF Works
  <1>3. KeepSeen /\ Heirs
    BY <1>1, SameCalls, SameHeirs DEF KeepCalls
  <1> QED
    BY <1>1, <1>2, <1>3, CancelKept

\* A job that may still start has the receipt of its attempt running.
LEMMA HeldRuns ==
    ASSUME CompleteInv, AttendInv, NEW j \in jobs, Held(j), Holds(j), ~closing,
           op.st # "none", Attempt(op) = Attempt(j.rec)
    PROVE  /\ op.st = "running" /\ Follows(op, j.rec) /\ ~op.adopted
           /\ j.pc \in Prep => SideMatches(side, op) /\ Active(side)
  <1>1. ~j.rec.adopted /\ op.jid = j.rec.jid /\ op.adopted = j.rec.adopted
    BY AttemptSame DEF Holds
  <1>2. Own(op, j.rec.jid)
    BY <1>1 DEF Own
  <1>3. op.st = "running"
    BY <1>2 DEF Held
  <1>4. Follows(op, j.rec)
    BY <1>1 DEF AttendInv, JobsFollowed, Followed
  <1>5. ASSUME j.pc \in Prep PROVE SideMatches(side, op) /\ Active(side)
    <2>1. SideMatches(side, j.rec) /\ Active(side)
      BY <1>5 DEF Holds, InHand, Prep, Bound
    <2>2. ~op.expected
      BY <1>5 DEF Held
    <2> QED
      BY <1>4, <2>1, <2>2, MatchedAfter
  <1> QED
    BY <1>1, <1>3, <1>4, <1>5

LEMMA NoUnitYet ==
    ASSUME Unstarted, NEW j \in jobs, ~j.rec.adopted, j.pc \in Prep \cup Bound,
           Attempt(op) = Attempt(j.rec)
    PROVE  ~HasUnit(op)
  BY DEF Unstarted, Unbegun, HasUnit, Commanded

LEMMA RefreshReadCancels ==
    ASSUME CompleteInv, CompleteInv', AttendInv, CancelInv, RefreshRead
    PROVE  CancelInv'
  <1>1. /\ UNCHANGED <<outside, op, opFile, jobs, sidecar, closing, ledger>> /\ ~closing
        /\ calls["display"] = NoCall
    BY DEF RefreshRead
  <1>2. PICK rec \in ({Proposal(op)} \cup (IF Proposal(op).st = "complete" THEN {NoOp} ELSE {}))
                     \ {op} :
           calls' = [calls EXCEPT !["display"] = [what |-> "refresh", rec |-> rec,
                                                  fresh |-> TRUE]]
    BY DEF RefreshRead
  <1>3. calls'["display"].rec = rec
    BY <1>2, CallsGood DEF GoodCalls
  <1>4. Seen' = rec
    BY <1>3 DEF Seen
  <1>5. /\ op' = op /\ opFile' = opFile /\ jobs' = jobs /\ side' = side /\ sideFile' = sideFile
        /\ procs' = procs /\ revoked' = revoked /\ closing' = closing
    BY <1>1 DEF outside, sidecar, ledger
  <1>6. Continues /\ Heirs /\ NoBegin /\ ProcsNamed
    BY <1>5, FewerContinue, SameHeirs, SameSides, SameProcs DEF sidecar
  <1>7. Revocations'
    BY <1>5, <1>6, RevocationsKept DEF CancelInv
  <1>8. Unstarted => Unstarted'
    <2>1. Commanded' \subseteq Commanded
      BY <1>5 DEF Commanded
    <2> QED
      BY <1>5, <1>6, <2>1, HeirsUnstarted, UnstartedKept
  <1>9. ASSUME Holding, Unstarted PROVE Holding'
    <2> SUFFICES ASSUME NEW j \in jobs', Holds(j)' PROVE Held(j)'
      BY DEF Holding, Held
    <2>1. j \in jobs /\ Holds(j) /\ Held(j)
      BY <1>5, <1>9 DEF Holds, InHand, SideMatches, Active, Holding
    <2>2. ASSUME op.st # "none", Attempt(op) = Attempt(j.rec)
          PROVE  j.pc \notin Prep /\ (rec.adopted \/ rec.st = "running")
      <3>1. /\ op.st = "running" /\ Follows(op, j.rec) /\ ~op.adopted
            /\ j.pc \in Prep => SideMatches(side, op) /\ Active(side)
        BY <1>1, <2>1, <2>2, HeldRuns
      <3>2. Proposed(Proposal(op))
        BY ProposalSays
      <3>3. ~HasUnit(op)
        BY <1>9, <2>1, <2>2, NoUnitYet DEF Holds
      <3>4. \/ Proposal(op).adopted /\ Proposal(op).st = "paused"
            \/ Proposal(op).st = "running"
        BY <3>1, <3>2, <3>3 DEF Proposed
      <3>5. rec = Proposal(op)
        BY <3>4
      <3>6. j.pc \notin Prep
        <4> SUFFICES ASSUME j.pc \in Prep PROVE FALSE
          OBVIOUS
        <4>1. Proposal(op) = [op EXCEPT !.st = "running"]
          BY <3>1 DEF Proposal
        <4>2. Proposal(op) = op
          BY <3>1, <4>1, CallsGood DEF GoodRec, Sound, Ops
        <4> QED
          BY <3>5, <4>2
      <3> QED
        BY <3>4, <3>5, <3>6
    <2> QED
      BY <1>4, <1>5, <2>1, <2>2 DEF Held, Own, Attempt, Prep
  <1>10. UnitsNamed' => UnitsNamed
    BY <1>6, NamedBefore DEF ProcsNamed
  <1> QED
    BY <1>7, <1>8, <1>9, <1>10 DEF CancelInv

\* A new attempt has been neither canceled nor started.
LEMMA ChosenUnstarted ==
    ASSUME CompleteInv, AttendInv, FreshStart
    PROVE  /\ ~Chosen.adopted => Attempt(Chosen) \notin revoked /\ Attempt(Chosen) \notin Commanded
           /\ Prepares(Chosen) => SideAttempt(Begun(Chosen)) = Attempt(Chosen)
  <1>1. Commanded \subseteq Used /\ revoked \subseteq Used
    BY DEF Commanded, Used
  <1>2. ~Chosen.adopted => Attempt(Chosen) \notin Used
    BY ChosenIsNew
  <1>3. Prepares(Chosen) => Chosen.adopted = FALSE
    BY ChosenIsNew, AttemptShape
  <1>4. Begun(Chosen).jid = Chosen.jid /\ Begun(Chosen).attempt = Chosen.attempt
    BY BegunSays
  <1>5. Prepares(Chosen) => SideAttempt(Begun(Chosen)) = Attempt(Chosen)
    BY <1>3, <1>4, AttemptSame
  <1> QED
    BY <1>1, <1>2, <1>5

\* Only the sidecar of the new attempt begins.
LEMMA SidesBegun ==
    ASSUME CompleteInv, AttendInv, FreshStart, SideBegins(Chosen)
    PROVE  /\ \A s \in {side', sideFile'} :
                 s \in {side, sideFile} \/ (Prepares(Chosen) /\ s = Begun(Chosen))
           /\ side' = side \/ (Prepares(Chosen) /\ side' = Begun(Chosen))
           /\ \A i \in jobs : ActiveAfter(i.rec) => ActiveFor(i.rec)
           /\ op.st # "none" /\ ActiveAfter(op) => ActiveFor(op)
  <1>1. \A s \in {side', sideFile'} :
           s \in {side, sideFile} \/ (Prepares(Chosen) /\ s = Begun(Chosen))
    BY DEF SideBegins, sidecar
  <1>2. side' = side \/ (Prepares(Chosen) /\ side' = Begun(Chosen))
    BY DEF SideBegins, sidecar
  <1>3. /\ Prepares(Chosen) => \A i \in jobs : ~SideMatches(Begun(Chosen), i.rec)
        /\ Prepares(Chosen) /\ op.st # "none" => ~SideMatches(Begun(Chosen), op)
    BY ChosenIsNew
  <1>4. \A i \in jobs : ActiveAfter(i.rec) => ActiveFor(i.rec)
    BY <1>1, <1>3 DEF ActiveAfter, ActiveFor
  <1>5. op.st # "none" /\ ActiveAfter(op) => ActiveFor(op)
    BY <1>1, <1>3 DEF ActiveAfter, ActiveFor
  <1> QED
    BY <1>1, <1>2, <1>4, <1>5

LEMMA BeginsUnstarted ==
    ASSUME CompleteInv, AttendInv, Unstarted, FreshStart, SideBegins(Chosen),
           UNCHANGED <<procs, revoked>>,
           \A k \in jobs' : k \in jobs \/ k.rec = Chosen,
           \A r \in {op', opFile'} : r \in {op, opFile, Chosen}
    PROVE  Unstarted'
  <1>1. Commanded' \subseteq Commanded
    BY DEF Commanded
  <1>2. ~Chosen.adopted => Attempt(Chosen) \notin Commanded
    BY ChosenUnstarted
  <1>3. ASSUME NEW k \in jobs', ~k.rec.adopted,
               k.pc \in Prep \cup Bound \/ (k.pc \in {"outcome", "save"} /\ ActiveAfter(k.rec))
        PROVE  Attempt(k.rec) \notin Commanded
    <2>1. CASE k.rec = Chosen
      BY <1>2, <1>3, <2>1
    <2>2. CASE k \in jobs
      <3>1. ActiveAfter(k.rec) => ActiveFor(k.rec)
        BY <2>2, SidesBegun
      <3> QED
        BY <1>3, <2>2, <3>1 DEF Unstarted, Unbegun
    <2> QED
      BY <2>1, <2>2
  <1>4. ASSUME NEW r \in {op', opFile'}, r.st # "none", ActiveAfter(r)
        PROVE  Attempt(r) \notin Commanded
    <2>1. CASE r = Chosen
      <3>1. ~Chosen.adopted
        BY <1>4, <2>1 DEF ActiveAfter, SideMatches
      <3> QED
        BY <1>2, <2>1, <3>1
    <2>2. CASE r = op
      BY <1>4, <2>2, SidesBegun DEF Unstarted
    <2>3. CASE r = opFile
      <3>1. PICK s \in {side', sideFile'} : SideMatches(s, opFile) /\ Active(s)
        BY <1>4, <2>3 DEF ActiveAfter
      <3>2. CASE s \in {side, sideFile}
        <4>1. ActiveFor(opFile)
          BY <3>1, <3>2 DEF ActiveFor
        <4> QED
          BY <1>4, <2>3, <4>1 DEF Unstarted
      <3>3. CASE Prepares(Chosen) /\ s = Begun(Chosen)
        <4>1. Attempt(opFile) = Attempt(Chosen) /\ ~Chosen.adopted
          BY <3>1, <3>3, MatchNames, CallsGood, ChosenUnstarted, ChosenIsNew DEF GoodRec
        <4> QED
          BY <1>2, <2>3, <4>1
      <3> QED
        BY <3>1, <3>2, <3>3, SidesBegun
    <2> QED
      BY <1>4, <2>1, <2>2, <2>3
  <1> QED
    BY <1>1, <1>3, <1>4, UnstartedAfter DEF Unstarted

LEMMA BeginsRevocations ==
    ASSUME CompleteInv, AttendInv, Revocations, FreshStart, SideBegins(Chosen), UNCHANGED revoked,
           \A k \in jobs' : k \in jobs \/ k.rec = Chosen,
           NEW o, op' = o, o = Chosen \/ (o = op /\ jobs' = jobs)
    PROVE  Revocations'
  <1>1. ~Chosen.adopted => Attempt(Chosen) \notin revoked
    BY ChosenUnstarted
  <1>2. Chosen.adopted => Attempt(Chosen) \notin revoked
    <2>1. Chosen.adopted \in BOOLEAN /\ Attempt(Chosen)[2] = Chosen.adopted
      BY ChosenIsNew, AttemptShape, AttemptSame
    <2> QED
      BY <2>1 DEF Revocations
  <1>3. \A k \in jobs' : k.pc \in Bound => Attempt(k.rec) \notin revoked
    BY <1>1, <1>2 DEF Revocations
  <1>4. \A s \in {side', sideFile'} : Active(s) => SideAttempt(s) \notin revoked
    <2> SUFFICES ASSUME NEW s \in {side', sideFile'}, Active(s)
                 PROVE  SideAttempt(s) \notin revoked
      OBVIOUS
    <2>1. CASE s \in {side, sideFile}
      BY <2>1 DEF Revocations
    <2>2. CASE Prepares(Chosen) /\ s = Begun(Chosen)
      BY <1>1, <2>2, ChosenUnstarted, ChosenIsNew
    <2> QED
      BY <2>1, <2>2, SidesBegun
  <1>5. o.st # "none" /\ ~o.adopted => \A k \in jobs' : k.rec.adopted => k.rec.jid # o.jid
    <2> SUFFICES ASSUME o.st # "none", ~o.adopted, NEW k \in jobs', k.rec.adopted
                 PROVE  k.rec.jid # o.jid
      OBVIOUS
    <2>1. CASE o = Chosen
      <3>1. k \in jobs
        BY <2>1
      <3>2. Own(op, Chosen.jid) => op.st # "none" /\ ~op.adopted /\ op.jid = Chosen.jid
        BY DEF Own
      <3> QED
        BY <2>1, <3>1, <3>2 DEF AttendInv, Numbers, Installs, Revocations
    <2>2. CASE o = op /\ k \in jobs
      BY <2>2 DEF Revocations
    <2> QED
      BY <2>1, <2>2
  <1> QED
    BY <1>3, <1>4, <1>5 DEF Revocations, Active, SideAttempt, Attempt, Bound

\* What a job holds does not depend on a preparation that begins.
LEMMA BeginsHolds ==
    ASSUME CompleteInv, AttendInv, FreshStart, SideBegins(Chosen), NEW i \in jobs, Holds(i)'
    PROVE  Holds(i)
  <1>1. ~i.rec.adopted /\ (i.pc \in Bound \/ (SideMatches(side', i.rec) /\ Active(side')
                                               /\ i.pc \in Prep))
    BY DEF Holds, InHand, SideMatches, Active, Prep, Bound
  <1>2. SideMatches(side', i.rec) => side' = side
    BY SidesBegun, ChosenIsNew
  <1> QED
    BY <1>1, <1>2 DEF Holds, InHand

LEMMA NotInstalledCancels ==
    ASSUME CompleteInv, CompleteInv', AttendInv, CancelInv, FreshStart, NotInstalled,
           UNCHANGED <<procs, revoked, closing>>
    PROVE  CancelInv'
  <1>1. /\ SideBegins(Chosen) /\ op' = op /\ jobs' = jobs /\ KeepSeen
        /\ opFile' \in {opFile, Chosen}
    BY DEF NotInstalled, KeepCalls
  <1>2. Revocations'
    BY <1>1, BeginsRevocations DEF CancelInv
  <1>3. Unstarted => Unstarted'
    BY <1>1, BeginsUnstarted
  <1>4. ASSUME Holding PROVE Holding'
    <2> SUFFICES ASSUME NEW i \in jobs', Holds(i)' PROVE Held(i)'
      BY DEF Holding, Held
    <2>1. i \in jobs /\ Holds(i) /\ Held(i)
      BY <1>1, <1>4, BeginsHolds DEF Holding
    <2> QED
      BY <1>1, <2>1, HeldKept
  <1>5. UnitsNamed' => UnitsNamed
    BY DEF UnitsNamed
  <1> QED
    BY <1>2, <1>3, <1>4, <1>5 DEF CancelInv

LEMMA InstalledCancels ==
    ASSUME CompleteInv, CompleteInv', AttendInv, CancelInv, FreshStart, NoFresh, ~closing,
           NEW rec, NEW k, Installed(rec, k), UNCHANGED <<procs, revoked, closing>>
    PROVE  CancelInv'
  <1>1. /\ rec = Chosen /\ op' = rec /\ opFile' = rec /\ jobs' = jobs \cup {k} /\ k.rec = rec
        /\ SideBegins(Chosen)
        /\ k.pc = IF SideMatches(side', rec) /\ rec.mode = "archived" THEN "prepare" ELSE "check"
    BY DEF Installed, SideBegins, sidecar
  <1>2. rec.st = "running"
    BY <1>1, ChosenIsNew
  <1>3. Revocations'
    BY <1>1, BeginsRevocations DEF CancelInv
  <1>4. Unstarted => Unstarted'
    BY <1>1, BeginsUnstarted
  <1>5. ASSUME Holding PROVE Holding'
    <2> SUFFICES ASSUME NEW i \in jobs', Holds(i)' PROVE Held(i)'
      BY DEF Holding, Held
    <2>1. CASE i = k
      <3>1. i.pc \in Prep => ~rec.expected
        BY <1>1, <2>1 DEF SideMatches, Prep
      <3> QED
        BY <1>1, <1>2, <2>1, <3>1 DEF Held, NoFresh, Prep
    <2>2. CASE i \in jobs
      <3>1. Holds(i) /\ Held(i) /\ ~i.rec.adopted
        BY <1>1, <1>5, <2>2, BeginsHolds DEF Holding, Holds
      <3>2. Attempt(rec) # Attempt(i.rec)
        BY <1>1, <2>2, <3>1, ChosenIsNew
      <3>3. ~Own(rec, i.rec.jid)
        <4> SUFFICES ASSUME Own(rec, i.rec.jid) PROVE FALSE
          OBVIOUS
        <4>1. ~rec.adopted /\ rec.jid = i.rec.jid
          BY DEF Own
        <4>2. Own(op, i.rec.jid) /\ op.st # "running"
          BY <1>1, <2>2, <4>1 DEF AttendInv, Numbers, Installs
        <4> QED
          BY <3>1, <4>2 DEF Held
      <3> QED
        BY <1>1, <3>2, <3>3 DEF Held, Own, Attempt
    <2> QED
      BY <1>1, <2>1, <2>2
  <1>6. UnitsNamed' => UnitsNamed
    BY DEF UnitsNamed
  <1> QED
    BY <1>3, <1>4, <1>5, <1>6 DEF CancelInv

LEMMA StartInstallCancels ==
    ASSUME CompleteInv, CompleteInv', AttendInv, CancelInv, StartInstall
    PROVE  CancelInv'
  <1>1. /\ UNCHANGED <<outside, closing, drawn, ledger>>
        /\ \/ KeepCalls /\ UNCHANGED <<op, opFile, jobs, sidecar>>
           \/ FreshStart /\ ~closing /\ NotInstalled
           \/ FreshStart /\ ~closing /\ NoFresh /\ \E rec, k : Installed(rec, k)
    BY StartInstallSays
  <1>2. UNCHANGED <<procs, revoked, closing>>
    BY <1>1 DEF outside, ledger
  <1>3. CASE KeepCalls /\ UNCHANGED <<op, opFile, jobs, sidecar>>
    BY <1>2, <1>3, SameSides, InPlaceCancels DEF KeepCalls
  <1> QED
    BY <1>1, <1>2, <1>3, NotInstalledCancels, InstalledCancels

\* The attempt a job starts: its own, or that of an adopted receipt.
LEMMA LaunchedIsNew ==
    ASSUME CompleteInv, AttendInv, Revocations, Unstarted, NEW j \in jobs, j.pc = "launch",
           NEW u, u = Attempt(j.rec) \/ u[2] = TRUE
    PROVE  /\ u \notin revoked
           /\ \A i \in jobs : i # j /\ Unbegun(i) => Attempt(i.rec) # u
           /\ \A rec \in {op, opFile} : rec.st # "none" /\ ActiveFor(rec) => Attempt(rec) # u
           /\ ~ActiveFor(j.rec)
  <1>1. Followed(j) /\ Over(j)
    BY DEF AttendInv, JobsFollowed
  <1>2. ~ActiveFor(j.rec)
    BY <1>1 DEF Over, Bound, ActiveFor
  <1>3. u \notin revoked
    BY DEF Revocations, Bound
  <1>4. ASSUME NEW i \in jobs, i # j, Unbegun(i) PROVE Attempt(i.rec) # u
    <2>1. ~i.rec.adopted
      BY <1>4 DEF Unbegun
    <2>2. Attempt(i.rec) # Attempt(j.rec)
      BY <1>4, <2>1 DEF AttendInv, OneJob
    <2>3. Attempt(i.rec)[2] # TRUE
      BY <2>1, AttemptSame
    <2> QED
      BY <2>2, <2>3
  <1>5. ASSUME NEW rec \in {op, opFile}, rec.st # "none", ActiveFor(rec)
        PROVE  Attempt(rec) # u
    <2>1. ~rec.adopted
      BY <1>5 DEF ActiveFor, SideMatches
    <2>2. Attempt(rec)[2] # TRUE
      BY <2>1, AttemptSame
    <2>3. ASSUME Attempt(rec) = Attempt(j.rec) PROVE FALSE
      <3>1. ~j.rec.adopted
        BY <2>1, <2>3, AttemptSame
      <3>2. Follows(rec, j.rec)
        BY <1>1, <1>5, <2>3, <3>1 DEF Followed
      <3>3. ActiveFor(j.rec)
        BY <1>5, <3>2, MatchedBefore DEF ActiveFor
      <3> QED
        BY <1>2, <3>3
    <2> QED
      BY <2>2, <2>3
  <1> QED
    BY <1>2, <1>3, <1>4, <1>5

\* A unit takes the name of the receipt in place.
LEMMA UnitIsOwn ==
    ASSUME CompleteInv, AttendInv, Revocations, Holding, NEW j \in jobs, j.pc = "launch",
           op.st # "none", op.jid = j.rec.jid
    PROVE  Attempt(op) = Attempt(j.rec) \/ Attempt(op)[2] = TRUE
  <1>1. op.adopted \in BOOLEAN /\ j.rec.adopted \in BOOLEAN
    BY CallsGood, JobFields, AttemptShape DEF GoodRec
  <1>2. CASE op.adopted
    BY <1>1, <1>2, AttemptSame
  <1>3. CASE ~op.adopted
    <2>1. ~j.rec.adopted
      BY <1>3 DEF Revocations
    <2>2. Holds(j) /\ Held(j)
      BY <2>1 DEF Holds, Bound, Holding
    <2>3. op.attempt = j.rec.attempt
      BY <1>3, <2>2 DEF Held, Own
    <2>4. op.adopted = FALSE /\ j.rec.adopted = FALSE
      BY <1>1, <1>3, <2>1
    <2>5. op.adopted = j.rec.adopted
      BY <2>4
    <2> QED
      BY <2>3, <2>5, AttemptSame
  <1> QED
    BY <1>2, <1>3

LEMMA LaunchCancels ==
    ASSUME CompleteInv, CompleteInv', AttendInv, CancelInv, NEW j \in jobs, Launch(j)
    PROVE  CancelInv'
  <1> DEFINE unit == Command(j.rec, "unit", Attempt(op))
             own == Command(j.rec, "job", j.of)
             waits == [j EXCEPT !.pc = "wait"]
             follows == [j EXCEPT !.pc = "wait", !.of = Attempt(op)]
             ends == [j EXCEPT !.pc = "outcome"]
  <1>1. /\ UNCHANGED <<op, opFile, calls, sidecar, closing, revoked>>
        /\ j.pc = "launch"
    BY DEF Launch, receipts, ledger
  <1>2. /\ waits.rec = j.rec /\ follows.rec = j.rec /\ ends.rec = j.rec
        /\ waits.pc = "wait" /\ follows.pc = "wait" /\ ends.pc = "outcome"
    BY JobFields DEF Jobs
  <1>3. /\ unit.by = "unit" /\ unit.of = Attempt(op) /\ unit.jid = j.rec.jid
        /\ own.by = "job" /\ own.of = j.of
    BY DEF Command
  <1>4. \E k \in {waits, follows, ends} : jobs' = (jobs \ {j}) \cup {k}
    BY DEF Launch, Go
  <1>5. \/ procs' = procs
        \/ procs' = procs \cup {own}
        \/ procs' = procs \cup {unit} /\ op.kind = "archive"
    BY DEF Launch
  <1> HIDE DEF waits, follows, ends, unit, own
  <1>6. PICK k : /\ jobs' = (jobs \ {j}) \cup {k} /\ k.rec = j.rec
                 /\ k.pc \in {"wait", "outcome"}
    BY <1>2, <1>4
  <1>7. Continues /\ Heirs /\ NoBegin /\ KeepSeen
    <2>1. Continues
      BY <1>6 DEF Continues, Prep, Bound
    <2> QED
      BY <1>1, <2>1, SameHeirs, SameSides, SameCalls DEF KeepCalls
  <1>8. Revocations'
    BY <1>1, <1>7, RevocationsKept DEF CancelInv
  <1>9. Holding => Holding'
    BY <1>1, <1>7, HoldingKept
  <1>10. UnitsNamed' => UnitsNamed
    BY <1>5 DEF UnitsNamed
  <1>11. ASSUME UnitsNamed', Holding, Unstarted PROVE Unstarted'
    <2>1. PICK u : /\ Commanded' \subseteq Commanded \cup {u}
                   /\ u = Attempt(j.rec) \/ u[2] = TRUE
      <3>1. j.of = Attempt(j.rec)
        BY <1>1 DEF AttendInv, JobsFollowed, Followed, Bound
      <3>2. CASE procs' = procs
        BY <3>2 DEF Commanded
      <3>3. CASE procs' = procs \cup {own}
        BY <1>3, <3>1, <3>3 DEF Commanded
      <3>4. CASE procs' = procs \cup {unit} /\ op.kind = "archive"
        <4>1. op.st # "none"
          BY <3>4, CallsGood DEF GoodRec, Sound, NoOp
        <4>2. Attempt(op)[1] = j.rec.jid
          BY <1>3, <1>11, <3>4 DEF UnitsNamed
        <4>3. op.jid = j.rec.jid
          BY <4>2, AttemptSame
        <4>4. Attempt(op) = Attempt(j.rec) \/ Attempt(op)[2] = TRUE
          BY <1>1, <1>11, <4>1, <4>3, UnitIsOwn DEF CancelInv
        <4> QED
          BY <1>3, <3>4, <4>4 DEF Commanded
      <3> QED
        BY <1>5, <3>2, <3>3, <3>4
    <2> DEFINE c == Commanded \cup {u}
    <2>2. /\ u \notin revoked
          /\ \A i \in jobs : i # j /\ Unbegun(i) => Attempt(i.rec) # u
          /\ \A rec \in {op, opFile} : rec.st # "none" /\ ActiveFor(rec) => Attempt(rec) # u
          /\ ~ActiveFor(j.rec)
      BY <1>1, <1>11, <2>1, LaunchedIsNew DEF CancelInv
    <2>3. ASSUME NEW i \in jobs', ~i.rec.adopted,
                 i.pc \in Prep \cup Bound \/ (i.pc \in {"outcome", "save"} /\ ActiveAfter(i.rec))
          PROVE  Attempt(i.rec) \notin c
      <3>1. ActiveAfter(i.rec) => ActiveFor(i.rec)
        BY <1>7, ActiveBefore
      <3>2. i # k
        BY <1>6, <2>2, <2>3, <3>1 DEF Prep, Bound
      <3>3. i \in jobs /\ i # j
        BY <1>6, <2>3, <3>2
      <3>4. Unbegun(i)
        BY <2>3, <3>1 DEF Unbegun
      <3> QED
        BY <1>11, <2>2, <3>3, <3>4 DEF Unstarted
    <2>4. ASSUME NEW rec \in {op', opFile'}, rec.st # "none", ActiveAfter(rec)
          PROVE  Attempt(rec) \notin c
      <3>1. rec \in {op, opFile} /\ ActiveFor(rec)
        BY <1>1, <1>7, <2>4, ActiveBefore
      <3> QED
        BY <1>11, <2>2, <2>4, <3>1 DEF Unstarted
    <2>5. \A v \in c : v \notin revoked'
      BY <1>1, <1>11, <2>2 DEF Unstarted
    <2> HIDE DEF c
    <2>6. Commanded' \subseteq c
      BY <2>1 DEF c
    <2> QED
      BY <2>3, <2>4, <2>5, <2>6, UnstartedAfter
  <1> QED
    BY <1>8, <1>9, <1>10, <1>11 DEF CancelInv

\* The receipt gives way to nothing, to a journal found or to one of its attempt.
LEMMA HoldingReplaced ==
    ASSUME CompleteInv, CompleteInv', Holding, NoFresh, jobs' \subseteq jobs, NoBegin,
           NEW rec, op' = rec,
           \/ rec.st = "none" \/ rec.adopted
           \/ op.st # "none" /\ Attempt(rec) = Attempt(op),
           rec.st # "none" => \A j \in jobs' :
              Holds(j)' /\ op.st # "none" /\ Attempt(op) = Attempt(j.rec)
                        /\ Attempt(rec) = Attempt(op) =>
                 /\ rec.st = "running" \/ closing'
                 /\ j.pc \in Prep => ~rec.expected
    PROVE  Holding'
  <1> SUFFICES ASSUME NEW j \in jobs', Holds(j)' PROVE Held(j)'
    BY DEF Holding, Held
  <1>1. InHand(j)' => InHand(j)
    BY InHandBefore
  <1>2. ~j.rec.adopted /\ (j.pc \in Bound \/ (InHand(j)' /\ j.pc \in Prep))
    BY DEF Holds, Prep, Bound
  <1>3. Holds(j) /\ Held(j)
    BY <1>1, <1>2 DEF Holds, Holding
  <1>4. Sound(rec) /\ rec.adopted \in BOOLEAN /\ j.rec.adopted = FALSE
    BY <1>2, CallsGood, NewReceipts, JobFields, AttemptShape
       DEF CompleteInv, Shape, ReceiptShape
  <1>5. ASSUME op.st # "none", Attempt(op) = Attempt(j.rec), rec.st # "none",
               Attempt(rec) = Attempt(op)
        PROVE  /\ rec.st = "running" \/ closing'
               /\ j.pc \in Prep => ~rec.expected
    BY <1>5
  <1>6. Own(rec, j.rec.jid) => rec.attempt = j.rec.attempt /\ (rec.st = "running" \/ closing')
    <2> SUFFICES ASSUME Own(rec, j.rec.jid)
                 PROVE  rec.attempt = j.rec.attempt /\ (rec.st = "running" \/ closing')
      OBVIOUS
    <2>1. op.st # "none" /\ Attempt(rec) = Attempt(op) /\ rec.jid = j.rec.jid /\ ~rec.adopted
      BY DEF Own
    <2>2. op.jid = rec.jid /\ op.adopted = rec.adopted /\ op.attempt = rec.attempt
      BY <2>1, AttemptSame
    <2>3. op.attempt = j.rec.attempt
      BY <1>3, <2>1, <2>2 DEF Held, Own
    <2>4. op.adopted = j.rec.adopted
      BY <1>4, <2>1, <2>2
    <2>5. op.jid = j.rec.jid
      BY <2>1, <2>2
    <2>6. Attempt(op) = Attempt(j.rec)
      BY <2>3, <2>4, <2>5, AttemptSame
    <2> QED
      BY <1>5, <2>1, <2>2, <2>3, <2>6 DEF Own
  <1>7. rec.st # "none" /\ Attempt(rec) = Attempt(j.rec) =>
           /\ op.st # "none" /\ Attempt(op) = Attempt(j.rec) /\ Attempt(rec) = Attempt(op)
    BY <1>2, AttemptSame
  <1> QED
    BY <1>5, <1>6, <1>7 DEF Held, NoFresh, Own, Attempt, Prep

LEMMA ReplacedCancels ==
    ASSUME CompleteInv, CompleteInv', AttendInv, CancelInv, NoFresh, UNCHANGED <<procs, revoked>>,
           jobs' \subseteq jobs, NoBegin, NEW rec, op' = rec, NEW f, opFile' = f,
           \/ rec.st = "none" \/ rec.adopted
           \/ op.st # "none" /\ Attempt(rec) = Attempt(op),
           UnitsNamed /\ rec.st # "none" => \A j \in jobs' :
              Holds(j)' /\ op.st # "none" /\ Attempt(op) = Attempt(j.rec)
                        /\ Attempt(rec) = Attempt(op) =>
                 /\ rec.st = "running" \/ closing'
                 /\ j.pc \in Prep => ~rec.expected,
           Unstarted => \A r \in {rec, f} : r.st # "none" /\ ActiveFor(r) =>
                           Attempt(r) \notin Commanded
    PROVE  CancelInv'
  <1>1. Continues /\ Commanded' \subseteq Commanded
    BY FewerContinue DEF Commanded
  <1>2. UnitsNamed' => UnitsNamed
    BY DEF UnitsNamed
  <1>3. Revocations'
    BY <1>1, RevocationsKept DEF CancelInv
  <1>4. UnitsNamed /\ Holding => Holding'
    BY HoldingReplaced
  <1>5. Unstarted => Unstarted'
    BY <1>1, UnstartedKept
  <1> QED
    BY <1>2, <1>3, <1>4, <1>5 DEF CancelInv

LEMMA WithoutOpCancels ==
    ASSUME CompleteInv, CompleteInv', AttendInv, CancelInv, NEW rest, GoodCalls(rest),
           WithoutOp(rest), UNCHANGED <<outside, jobs, ledger>>
    PROVE  CancelInv'
  <1>1. op' = NoOp /\ opFile' = NoOp /\ NoFresh /\ NoBegin
    BY WithoutOpSays
  <1>2. NoOp.st = "none"
    BY DEF NoOp
  <1>3. UNCHANGED <<procs, revoked>> /\ jobs' \subseteq jobs
    BY DEF outside, ledger
  <1> QED
    BY <1>1, <1>2, <1>3, ReplacedCancels

LEMMA RefreshAcceptCancels ==
    ASSUME CompleteInv, CompleteInv', AttendInv, CancelInv, RefreshAccept
    PROVE  CancelInv'
  <1> DEFINE rest == [calls EXCEPT !["display"] = NoCall]
  <1>1. UNCHANGED <<outside, jobs, closing, ledger>> /\ calls["display"] # NoCall
    BY DEF RefreshAccept
  <1>2. UNCHANGED <<procs, revoked>> /\ jobs' \subseteq jobs /\ (closing => closing')
    BY <1>1 DEF outside, ledger
  <1>3. GoodCalls(rest) /\ (calls' = rest => KeepSeen)
    BY CallEnds, CallsGood, CallDone DEF CompleteInv, Shape, KeepCalls
  <1>4. \/ calls' = rest /\ op' = op /\ opFile' = opFile /\ UNCHANGED sidecar
        \/ /\ calls["display"].fresh
           /\ Replace(Seen, rest) \/ NotReplaced(Seen, rest)
           /\ UNCHANGED sidecar
        \/ WithoutOp(rest)
        \/ NotReplaced(NoOp, rest) /\ UNCHANGED sidecar
    BY DEF RefreshAccept, Seen
  <1> HIDE DEF rest
  <1>5. CASE calls' = rest /\ op' = op /\ opFile' = opFile /\ UNCHANGED sidecar
    BY <1>2, <1>3, <1>5, SameSides, InPlaceCancels
  <1>6. CASE NotReplaced(NoOp, rest) /\ UNCHANGED sidecar
    <2>1. op' = op /\ calls' = rest /\ (opFile' = opFile \/ opFile' = NoOp)
      BY <1>6 DEF NotReplaced
    <2>2. NoOp.st = "none"
      BY DEF NoOp
    <2> QED
      BY <1>2, <1>3, <1>6, <2>1, <2>2, SameSides, InPlaceCancels
  <1>7. CASE WithoutOp(rest)
    BY <1>1, <1>3, <1>7, WithoutOpCancels
  <1>8. CASE calls["display"].fresh /\ UNCHANGED sidecar
              /\ (Replace(Seen, rest) \/ NotReplaced(Seen, rest))
    <2>1. FreshRefresh
      BY <1>1, <1>8 DEF FreshRefresh
    <2>2. \/ Seen.st = "none" \/ (Seen.adopted /\ Seen.st = "paused")
          \/ op.st # "none" /\ Follows(Seen, op)
      BY <2>1 DEF AttendInv, Shown, Displays, NoOp
    <2>3. CASE Replace(Seen, rest)
      <3>1. op' = Seen /\ opFile' = Seen /\ calls' = Stale(rest)
        BY <2>3 DEF Replace
      <3>2. NoFresh /\ NoBegin
        BY <1>3, <1>8, <3>1, StaleCalls, SameSides
      <3>3. Heirs
        BY <2>2, <3>1 DEF Heirs
      <3>4. Unstarted => \A r \in {Seen, Seen} : r.st # "none" /\ ActiveFor(r) =>
                            Attempt(r) \notin Commanded
        BY <3>1, <3>3, HeirsUnstarted
      <3>5. ASSUME UnitsNamed, NEW j \in jobs', Holds(j)', op.st # "none",
                   Attempt(op) = Attempt(j.rec), Attempt(Seen) = Attempt(op)
            PROVE  Seen.st = "running" /\ j.pc \notin Prep
        <4>1. Holds(j)
          BY <1>2, <3>2, <3>5, InHandBefore DEF Holds, Prep, Bound
        <4>2. Held(j)
          BY <1>2, <3>5 DEF CancelInv, Holding
        <4>3. ~Seen.adopted
          <5>1. Attempt(Seen) = Attempt(j.rec)
            BY <3>5
          <5>2. Seen.adopted = j.rec.adopted
            BY <5>1, AttemptSame
          <5> QED
            BY <4>1, <5>2 DEF Holds
        <4> QED
          BY <2>1, <3>5, <4>1, <4>2, <4>3 DEF Held
      <3>6. Seen.st = "none" \/ Seen.adopted \/ (op.st # "none" /\ Attempt(Seen) = Attempt(op))
        BY <2>2 DEF Follows
      <3> QED
        BY <1>2, <3>1, <3>2, <3>4, <3>5, <3>6, ReplacedCancels
    <2>4. CASE NotReplaced(Seen, rest)
      <3>1. op' = op /\ calls' = rest /\ (opFile' = opFile \/ opFile' = Seen)
        BY <2>4 DEF NotReplaced
      <3> QED
        BY <1>2, <1>3, <1>8, <2>2, <3>1, SameSides, InPlaceCancels
    <2> QED
      BY <1>8, <2>3, <2>4
  <1> QED
    BY <1>4, <1>5, <1>6, <1>7, <1>8

LEMMA DismissCancels ==
    ASSUME CompleteInv, CompleteInv', AttendInv, CancelInv, Dismiss
    PROVE  CancelInv'
  <1>1. UNCHANGED <<outside, jobs, closing, ledger>>
    BY DEF Dismiss
  <1>2. CASE WithoutOp(calls)
    BY <1>1, <1>2, CallsGood, WithoutOpCancels
  <1>3. CASE NotReplaced(NoOp, calls) /\ UNCHANGED sidecar
    <2>1. op' = op /\ KeepSeen /\ (opFile' = opFile \/ opFile' = NoOp)
      BY <1>3, SameCalls DEF NotReplaced, KeepCalls
    <2>2. NoOp.st = "none"
      BY DEF NoOp
    <2>3. UNCHANGED <<procs, revoked>> /\ jobs' \subseteq jobs /\ (closing => closing')
      BY <1>1 DEF outside, ledger
    <2> QED
      BY <1>3, <2>1, <2>2, <2>3, SameSides, InPlaceCancels
  <1> QED
    BY <1>2, <1>3 DEF Dismiss

LEMMA CancelCancels ==
    ASSUME CompleteInv, CompleteInv', AttendInv, CancelInv, Cancel
    PROVE  CancelInv'
  <1> DEFINE p == [side EXCEPT !.st = "canceled"]
             rec == [op EXCEPT !.st = "failed"]
  <1>1. /\ op.st # "none" /\ SideMatches(side, op) /\ Active(side)
        /\ UNCHANGED <<outside, jobs, closing>>
    BY DEF Cancel
  <1>2. UNCHANGED <<procs, jobs>> /\ jobs' \subseteq jobs /\ (closing => closing')
    BY <1>1 DEF outside
  <1>3. \/ /\ side' = p /\ sideFile' = p /\ revoked' = revoked \cup {Attempt(op)}
           /\ \/ op' = rec /\ calls' = Stale(calls)
              \/ op' = op /\ calls' = calls
        \/ /\ side' = side /\ (sideFile' = sideFile \/ sideFile' = p)
           /\ UNCHANGED <<op, opFile, calls, revoked>>
    BY DEF Cancel, Replace, NotReplaced, SideNotSaved
  <1>4. Twin(p, side) /\ p.st = "canceled"
    BY <1>1, SideTwins
  <1>5. Follows(rec, op) /\ rec.st = "failed" /\ rec.jid = op.jid
    BY <1>1, FailedFollows
  <1>6. Attempt(op)[2] = FALSE /\ ActiveFor(op)
    <2>1. SideAttempt(side) = Attempt(op)
      BY <1>1, MatchNames, CallsGood DEF GoodRec
    <2>2. SideAttempt(side)[2] = FALSE
      BY AttemptSame
    <2>3. ActiveFor(op)
      BY <1>1 DEF ActiveFor
    <2> QED
      BY <2>1, <2>2, <2>3
  <1> HIDE DEF p, rec
  <1>7. ~Active(p)
    BY <1>4 DEF Active
  <1>8. (calls' = Stale(calls) => NoFresh) /\ (calls' = calls => KeepSeen)
    BY CallsGood, StaleCalls, SameCalls DEF KeepCalls
  <1>9. CASE /\ side' = p /\ sideFile' = p /\ revoked' = revoked \cup {Attempt(op)}
             /\ \/ op' = rec /\ calls' = Stale(calls)
                \/ op' = op /\ calls' = calls
    <2>1. NoBegin /\ Continues /\ \A s \in {side', sideFile'} : ~Active(s)
      BY <1>2, <1>7, <1>9, FewerContinue DEF NoBegin
    <2>2. \A j \in jobs : j.pc \in Bound => Attempt(j.rec) # Attempt(op)
      <3> SUFFICES ASSUME NEW j \in jobs, j.pc \in Bound, Attempt(j.rec) = Attempt(op)
                   PROVE  FALSE
        OBVIOUS
      <3>1. ~j.rec.adopted
        BY <1>1, AttemptSame DEF SideMatches
      <3>2. Follows(op, j.rec)
        BY <1>1, <3>1 DEF AttendInv, JobsFollowed, Followed
      <3>3. SideMatches(side, j.rec)
        BY <1>1, <3>2, MatchedBefore
      <3> QED
        BY <1>1, <3>3 DEF AttendInv, JobsFollowed, Over
    <2>3. op'.st # "none" /\ ~op'.adopted =>
             op.st # "none" /\ ~op.adopted /\ op'.jid = op.jid
      <3>1. rec.adopted = op.adopted
        BY <1>5, AttemptSame DEF Follows
      <3> QED
        BY <1>1, <1>5, <1>9, <3>1
    <2>4. Revocations'
      <3>1. \A u \in revoked' : u[2] = FALSE
        BY <1>6, <1>9 DEF CancelInv, Revocations
      <3>2. \A j \in jobs' : j.pc \in Bound => Attempt(j.rec) \notin revoked'
        BY <1>2, <1>9, <2>2 DEF CancelInv, Revocations
      <3>3. op'.st # "none" /\ ~op'.adopted => \A k \in jobs' : k.rec.adopted => k.rec.jid # op'.jid
        BY <1>2, <2>3 DEF CancelInv, Revocations
      <3> QED
        BY <2>1, <3>1, <3>2, <3>3 DEF Revocations, Active, Attempt, Bound
    <2>5. Holding => Holding'
      <3>1. CASE op' = op /\ calls' = calls
        BY <1>2, <1>8, <2>1, <3>1, HoldingKept
      <3>2. CASE op' = rec /\ calls' = Stale(calls)
        <4>1. \A j \in jobs' : Holds(j)' => j.pc \in Bound
          BY <2>1 DEF Holds, InHand, Active, Bound
        <4>2. Attempt(rec) = Attempt(op)
          BY <1>5 DEF Follows
        <4> QED
          BY <1>1, <1>2, <1>8, <2>1, <2>2, <3>2, <4>1, <4>2, HoldingReplaced
      <3> QED
        BY <1>9, <3>1, <3>2
    <2>6. Unstarted => Unstarted'
      <3> SUFFICES ASSUME Unstarted PROVE Unstarted'
        OBVIOUS
      <3>1. Commanded' \subseteq Commanded /\ Attempt(op) \notin Commanded
        BY <1>1, <1>2, <1>6 DEF Commanded, Unstarted
      <3>2. \A r : ~ActiveAfter(r)
        BY <2>1 DEF ActiveAfter
      <3>3. \A j \in jobs' : ~j.rec.adopted /\ j.pc \in Prep \cup Bound =>
               Attempt(j.rec) \notin Commanded
        BY <1>2 DEF Unstarted, Unbegun
      <3>4. \A u \in Commanded : u \notin revoked'
        BY <1>9, <3>1 DEF Unstarted
      <3> QED
        BY <3>1, <3>2, <3>3, <3>4, UnstartedAfter
    <2>7. UnitsNamed' => UnitsNamed
      BY <1>2 DEF UnitsNamed
    <2> QED
      BY <2>4, <2>5, <2>6, <2>7 DEF CancelInv
  <1>10. CASE /\ side' = side /\ (sideFile' = sideFile \/ sideFile' = p)
              /\ UNCHANGED <<op, opFile, calls, revoked>>
    <2>1. NoBegin
      BY <1>7, <1>10 DEF NoBegin, Twin
    <2> QED
      BY <1>2, <1>8, <1>10, <2>1, InPlaceCancels
  <1> QED
    BY <1>3, <1>9, <1>10

LEMMA CloseCancels ==
    ASSUME CompleteInv, CompleteInv', AttendInv, CancelInv, Close
    PROVE  CancelInv'
  <1> DEFINE p == [side EXCEPT !.st = "paused"]
             rec == [op EXCEPT !.st = "failed"]
  <1>1. closing' = TRUE /\ UNCHANGED <<procs, revoked>> /\ jobs' \subseteq jobs
    BY DEF Close, outside, ledger
  <1>2. \/ Active(side) /\ (side' = p \/ side' = side) /\ (sideFile' = p \/ sideFile' = sideFile)
        \/ side' = side /\ sideFile' = sideFile
    BY DEF Close, sidecar
  <1>3. \/ op.st # "none" /\ op' = rec /\ opFile' = rec /\ calls' = Stale(calls)
        \/ op.st # "none" /\ op' = op /\ calls' = calls /\ (opFile' = rec \/ opFile' = opFile)
        \/ op' = op /\ calls' = calls /\ opFile' = opFile
    BY DEF Close
  <1>4. Active(side) => Twin(p, side)
    BY SideTwins
  <1>5. op.st # "none" => Follows(rec, op) /\ rec.expected = op.expected
    BY FailedFollows
  <1> HIDE DEF p, rec
  <1>6. NoBegin
    BY <1>2, <1>4 DEF NoBegin, Twin
  <1>7. (calls' = Stale(calls) => NoFresh) /\ (calls' = calls => KeepSeen)
    BY CallsGood, StaleCalls, SameCalls DEF KeepCalls
  <1>8. CASE op' = op /\ calls' = calls
    BY <1>1, <1>3, <1>5, <1>6, <1>7, <1>8, InPlaceCancels
  <1>9. CASE op.st # "none" /\ op' = rec /\ opFile' = rec /\ calls' = Stale(calls)
    <2>1. Heirs
      BY <1>5, <1>9 DEF Heirs
    <2>2. Unstarted => \A r \in {rec, rec} : r.st # "none" /\ ActiveFor(r) =>
                          Attempt(r) \notin Commanded
      BY <1>9, <2>1, HeirsUnstarted
    <2>3. ASSUME UnitsNamed, NEW j \in jobs', Holds(j)', Attempt(op) = Attempt(j.rec), j.pc \in Prep
          PROVE  ~rec.expected
      <3>1. Holds(j)
        BY <1>1, <1>6, <2>3, InHandBefore DEF Holds, Prep, Bound
      <3>2. Held(j)
        BY <1>1, <2>3 DEF CancelInv, Holding
      <3> QED
        BY <1>5, <1>9, <2>3, <3>1, <3>2 DEF Held
    <2>4. Attempt(rec) = Attempt(op)
      BY <1>5, <1>9 DEF Follows
    <2> QED
      BY <1>1, <1>6, <1>7, <1>9, <2>2, <2>3, <2>4, ReplacedCancels
  <1> QED
    BY <1>3, <1>8, <1>9

LEMMA SaveOutcomeCancels ==
    ASSUME CompleteInv, CompleteInv', AttendInv, CancelInv, NEW j \in jobs, SaveOutcome(j)
    PROVE  CancelInv'
  <1> DEFINE rec == j.result
             failed == [op EXCEPT !.st = "failed"]
  <1>1. j.pc = "save" /\ jobs' = jobs \ {j} /\ UNCHANGED <<outside, sidecar, closing, ledger>>
    BY DEF SaveOutcome
  <1>2. UNCHANGED <<procs, revoked>> /\ jobs' \subseteq jobs /\ (closing => closing') /\ NoBegin
    BY <1>1, SameSides DEF outside, ledger
  <1>3. Follows(rec, j.rec)
    BY <1>1 DEF AttendInv, JobsFollowed, Followed
  <1>4. Attempt(rec) = Attempt(j.rec)
    BY <1>3 DEF Follows
  <1>5. \/ UNCHANGED <<op, opFile, calls>>
        \/ /\ op.st # "none" /\ Attempt(op) = Attempt(rec) /\ calls' = Stale(calls)
           /\ \/ op' = rec /\ opFile' = rec
              \/ op' = failed /\ (opFile' = opFile \/ opFile' = rec)
    BY DEF SaveOutcome, Replace
  <1>6. op.st # "none" => Follows(failed, op)
    BY FailedFollows
  <1> HIDE DEF rec, failed
  <1>7. CASE UNCHANGED <<op, opFile, calls>>
    BY <1>2, <1>7, SameCalls, InPlaceCancels DEF KeepCalls
  <1>8. CASE /\ op.st # "none" /\ Attempt(op) = Attempt(rec) /\ calls' = Stale(calls)
             /\ \/ op' = rec /\ opFile' = rec
                \/ op' = failed /\ (opFile' = opFile \/ opFile' = rec)
    <2>1. NoFresh
      BY <1>8, CallsGood, StaleCalls
    <2>2. \A i \in jobs' : Holds(i)' => Attempt(op) # Attempt(i.rec)
      <3> SUFFICES ASSUME NEW i \in jobs', ~i.rec.adopted, Attempt(op) = Attempt(i.rec)
                   PROVE  FALSE
        BY DEF Holds
      <3>1. i \in jobs /\ i # j
        BY <1>1
      <3>2. Attempt(i.rec) = Attempt(j.rec)
        BY <1>4, <1>8
      <3> QED
        BY <3>1, <3>2 DEF AttendInv, OneJob
    <2>3. Unstarted => \A r \in {rec, failed, opFile} : r.st # "none" /\ ActiveFor(r) =>
                          Attempt(r) \notin Commanded
      <3> SUFFICES ASSUME Unstarted, NEW r \in {rec, failed, opFile}, r.st # "none", ActiveFor(r)
                   PROVE  Attempt(r) \notin Commanded
        OBVIOUS
      <3>1. CASE r = rec
        <4>1. ActiveFor(j.rec)
          BY <1>3, <3>1, MatchedBefore DEF ActiveFor
        <4>2. Unbegun(j)
          BY <1>1, <4>1 DEF Unbegun, ActiveFor, SideMatches
        <4> QED
          BY <1>4, <3>1, <4>2 DEF Unstarted
      <3>2. CASE r = failed
        <4>1. ActiveFor(op) /\ Attempt(failed) = Attempt(op)
          BY <1>6, <1>8, <3>2, MatchedBefore DEF ActiveFor, Follows
        <4> QED
          BY <1>8, <3>2, <4>1 DEF Unstarted
      <3>3. CASE r = opFile
        BY <3>3 DEF Unstarted
      <3> QED
        BY <3>1, <3>2, <3>3
    <2>4. Attempt(failed) = Attempt(op)
      BY <1>6, <1>8 DEF Follows
    <2>5. CASE op' = rec /\ opFile' = rec
      BY <1>2, <1>8, <2>1, <2>2, <2>3, <2>5, ReplacedCancels
    <2>6. CASE op' = failed /\ (opFile' = opFile \/ opFile' = rec)
      <3>1. PICK f \in {opFile, rec} : opFile' = f
        BY <2>6
      <3> QED
        BY <1>2, <1>8, <2>1, <2>2, <2>3, <2>4, <2>6, <3>1, ReplacedCancels
    <2> QED
      BY <1>8, <2>5, <2>6
  <1> QED
    BY <1>5, <1>7, <1>8

LEMMA RestartCancels ==
    ASSUME CompleteInv, CompleteInv', AttendInv, CancelInv, Restart
    PROVE  CancelInv'
  <1>1. /\ UNCHANGED <<revoked, sideFile>> /\ procs' \subseteq procs
        /\ \A p \in procs : p.by # "job" => p \in procs'
        /\ NoFresh
        /\ \A rec \in {op', opFile'} :
              IF opFile.st = "none" THEN rec = opFile
              ELSE Follows(rec, opFile) /\ rec.expected = opFile.expected
        /\ side' = NoSide \/ (side' = sideFile /\ SideMatches(sideFile, opFile) /\ opFile.st # "none")
        /\ \/ jobs' = {}
           \/ /\ opFile.st # "none" /\ op' = opFile' /\ side' = sideFile /\ Active(sideFile)
              /\ \E k : jobs' = {k} /\ k.rec = op' /\ k.pc = "prepare"
    BY RestartSays
  <1>2. ~Active(NoSide)
    BY DEF Active, NoSide
  <1>3. \A s \in {side', sideFile'} : Active(s) => s = sideFile
    BY <1>1, <1>2
  <1>4. ASSUME NEW k \in jobs'
        PROVE  /\ jobs' = {k} /\ k.rec = op' /\ k.pc = "prepare" /\ k.rec.st = "running"
               /\ opFile.st # "none" /\ Attempt(k.rec) = Attempt(opFile) /\ ~k.rec.expected
               /\ ActiveFor(opFile)
    <2>1. /\ jobs' = {k} /\ k.rec = op' /\ k.pc = "prepare" /\ opFile.st # "none"
          /\ side' = sideFile /\ Active(sideFile)
      BY <1>1, <1>4
    <2>2. k.rec.st = "running"
      BY <1>4 DEF CompleteInv, CopiesTrue, JobsTrue, GoodJob
    <2>3. Follows(k.rec, opFile) /\ k.rec.expected = opFile.expected
      BY <1>1, <2>1
    <2>4. SideMatches(sideFile, opFile)
      BY <1>1, <1>2, <2>1
    <2> QED
      BY <2>1, <2>2, <2>3, <2>4 DEF Follows, ActiveFor, SideMatches
  <1>5. Revocations'
    <2>1. \A k \in jobs' : k.pc \notin Bound /\ (k.rec.adopted => op'.adopted)
      BY <1>4 DEF Bound
    <2>2. \A s \in {side', sideFile'} : Active(s) => SideAttempt(s) \notin revoked
      BY <1>3 DEF CancelInv, Revocations
    <2> QED
      BY <1>1, <2>1, <2>2 DEF CancelInv, Revocations, Active, SideAttempt, Attempt, Bound
  <1>6. Holding'
    <2> SUFFICES ASSUME NEW k \in jobs' PROVE Held(k)'
      BY DEF Holding
    <2>1. k.rec = op' /\ k.rec.st = "running" /\ ~k.rec.expected
      BY <1>4
    <2> QED
      BY <1>1, <2>1 DEF Held, NoFresh
  <1>7. ASSUME Unstarted PROVE Unstarted'
    <2>1. Commanded' \subseteq Commanded
      BY <1>1 DEF Commanded
    <2>2. opFile.st # "none" /\ ActiveFor(opFile) => Attempt(opFile) \notin Commanded
      BY <1>7 DEF Unstarted
    <2>3. \A k \in jobs' : Attempt(k.rec) \notin Commanded
      BY <1>4, <2>2
    <2>4. ASSUME NEW rec \in {op', opFile'}, rec.st # "none", ActiveAfter(rec)
          PROVE  Attempt(rec) \notin Commanded
      <3>1. SideMatches(sideFile, rec) /\ Active(sideFile)
        BY <1>3, <2>4 DEF ActiveAfter
      <3>2. opFile.st # "none" /\ Follows(rec, opFile)
        BY <1>1, <2>4
      <3>3. ActiveFor(opFile)
        BY <3>1, <3>2, MatchedBefore DEF ActiveFor
      <3> QED
        BY <2>2, <3>2, <3>3 DEF Follows
    <2>5. \A u \in Commanded : u \notin revoked'
      BY <1>1, <1>7 DEF Unstarted
    <2> QED
      BY <2>1, <2>3, <2>4, <2>5, UnstartedAfter
  <1>8. UnitsNamed' => UnitsNamed
    BY <1>1 DEF UnitsNamed
  <1> QED
    BY <1>5, <1>6, <1>7, <1>8 DEF CancelInv

LEMMA JobStepCancels ==
    ASSUME CompleteInv, CompleteInv', AttendInv, CancelInv, NEW j \in jobs, JobStep(j)
    PROVE  CancelInv'
  <1>1. CASE \/ PrepCheck(j) \/ PrepReady(j) \/ PrepCompose(j) \/ PrepRepair(j)
             \/ PrepTurn(j) \/ PrepUnknown(j)
    BY <1>1, PrepWorks, WorksCancels
  <1>2. CASE PrepRefused(j) \/ PrepFail(j) \/ ExecCheck(j) \/ Canceled(j)
    BY <1>2, EndWorks, WorksCancels
  <1>3. CASE Wait(j) \/ Outcome(j)
    BY <1>3, WaitWorks, OutcomeWorks, WorksCancels
  <1>4. CASE Launch(j) \/ SaveOutcome(j)
    BY <1>4, LaunchCancels, SaveOutcomeCancels
  <1> QED
    BY <1>1, <1>2, <1>3, <1>4 DEF JobStep

LEMMA CancelNext ==
    CompleteInv /\ CompleteInv' /\ AttendInv /\ CancelInv /\ [Next]_vars => CancelInv'
  <1> SUFFICES ASSUME CompleteInv, CompleteInv', AttendInv, CancelInv, [Next]_vars
               PROVE  CancelInv'
    OBVIOUS
  <1>1. CASE RefreshRead \/ RefreshAccept \/ StartInstall \/ Dismiss \/ Cancel
    BY <1>1, RefreshReadCancels, RefreshAcceptCancels, StartInstallCancels, DismissCancels,
       CancelCancels
  <1>2. CASE RetryRead \/ \E ask \in cast.asks : AskRead(ask)
    BY <1>2, AskingCancels
  <1>3. ASSUME NEW j \in jobs, JobStep(j) PROVE CancelInv'
    BY <1>3, JobStepCancels
  <1>4. CASE \/ \E p \in procs : ProcStart(p) \/ ProcStep(p) \/ ProcDie(p)
             \/ \E t \in DOMAIN turns : LeadFinishes(t)
             \/ \E kind \in Kinds : Terminal(kind)
             \/ TerminalCreate
    BY <1>4, OutsideCancels
  <1>5. CASE Close \/ Down \/ Crash
    BY <1>5, CloseCancels, RestartCancels DEF Down, Crash
  <1>6. CASE UNCHANGED vars
    <2>1. UNCHANGED <<op, opFile, calls, procs, revoked, jobs, closing, sidecar>>
      BY <1>6 DEF vars, sidecar
    <2> QED
      BY <2>1, SameSides, SameCalls, InPlaceCancels DEF KeepCalls
  <1> QED
    BY <1>1, <1>2, <1>3, <1>4, <1>5, <1>6 DEF Next

LEMMA CancelGives == CancelInv => CanceledNeverArchives
  BY DEF CancelInv, Unstarted, Commanded, CanceledNeverArchives

\* While no unit has got another receipt's name, no command of the portal is of
\* a preparation that was canceled (cancelArchivePreparation, the checks before
\* executeLifecycleOperation, startArchiveWorker): not by a job that had left
\* preparing, a reading accepted late, a retry, an unsaved outcome or a restart.
THEOREM CanceledStaysUnarchived == Spec => []CanceledNeverArchives
  <1>1. Init => AttendInv /\ CancelInv
    BY AttendInit, CancelInit
  <1>2. CompleteInv /\ CompleteInv' /\ AttendInv /\ CancelInv /\ [Next]_vars
           => AttendInv' /\ CancelInv'
    BY AttendNext, CancelNext
  <1> QED
    BY <1>1, <1>2, CompleteAlways, CancelGives, PTL DEF Spec

=============================================================================
