------------------------- MODULE RetainedJobsProofs -------------------------
(***************************************************************************)
(* Retained jobs, for every set of jobs, owners, reservations and          *)
(* resources, any number of attempts and any number of deaths: a worker    *)
(* past admission has its resources to itself, recorded verdicts are true, *)
(* and a released reservation is settled.                                  *)
(*                                                                         *)
(* The ledger is only half of the argument, because passes and the rescue  *)
(* of dispatch move a job without looking whether it is still claimed.     *)
(* What makes that harmless is kept by the files: an attempt that was      *)
(* superseded or settled has a result, a worker never runs over a result,  *)
(* and an attempt that has one keeps its verdict.                          *)
(***************************************************************************)
EXTENDS RetainedJobs, TLAPS

(* The verdicts of an attempt that changed nothing. *)
Clean == {"not_applied", "baseline_changed"}

(* One attempt directory: whoever has the lock as a worker has no result   *)
(* yet, a unit starts its worker once, an effect follows an intent, and    *)
(* the result agrees with it.                                              *)
AttemptOK(a, kind, h) ==
    /\ a.lock = "worker" => a.result = "none" /\ a.unit = "active"
    /\ a.unit = "active" /\ a.lock # "worker" => a.phase = "none"
    /\ a.unit = "none" => a.phase = "none"
    /\ a.effect => a.phase \in {"intent", "verified"}
    /\ a.phase = "verified" => a.effect
    /\ a.result = "applied" => a.effect
    /\ a.result \in Clean => ~a.effect
    /\ kind = "profile" /\ a.phase = "intent" => a.result \notin Clean
    /\ h = "applied" => a.result = "applied"

(* Whatever has left the claim has a verdict: the attempts before the      *)
(* current one changed nothing, the ones after it never ran, and the       *)
(* current one is claimed or settled as the job says.                      *)
Superseded(j, n) ==
    /\ n < jobs[j].attempt => att[j][n].result \in Clean
    /\ n > jobs[j].attempt => att[j][n].unit = "none"

Current(j) ==
    LET n == jobs[j].attempt
    IN /\ jobs[j].state \in Claimed => n # 0
       /\ jobs[j].state = "succeeded" =>
             /\ n # 0 /\ att[j][n].result = "applied"
             /\ ReservationOf[j] # NoReservation => hist[j][n] = "applied"
       /\ jobs[j].state \notin Claimed \cup {"succeeded"} =>
             n = 0 \/ att[j][n].result \in Clean

(* A claimed job without a result has its resources to itself. *)
Fresh(j) ==
    jobs[j].state \in Claimed /\ att[j][jobs[j].attempt].result = "none"
        => Uses[j] \cap held = {}

Apart ==
    \A j, k \in Jobs :
        j # k /\ jobs[j].state \in Claimed /\ jobs[k].state \in Claimed
            => Uses[j] \cap Uses[k] = {}

(* What a pass, a dispatch or a probe has in hand is no later than the     *)
(* ledger, and a pass about to settle has seen a result.                   *)
QueueOK ==
    \A j \in Jobs :
        /\ queue[j] # "no" => jobs[j].attempt # 0
        /\ queue[j] \in {"request", "run"} => att[j][jobs[j].attempt].unit = "none"

PassOK ==
    \A p \in Passes :
        /\ \A t \in pass[p].todo \cup pass[p].at : t.attempt <= jobs[t.job].attempt
        /\ pass[p].step = "settle" =>
              \A t \in pass[p].at : att[t.job][t.attempt].result # "none"

ProbeOK ==
    /\ probe.step = "locked" =>
          \A j \in Jobs : \A n \in Attempts :
              probe.at = {<<j, n>>} => att[j][n].lock = "probe"

ReleasedOK(v) ==
    rsv[v] = "released" =>
        \A j \in Jobs : \A n \in Attempts : ReservationOf[j] = v =>
            /\ att[j][n].lock = "worker" => att[j][n].phase \notin {"admitted", "intent"}
            /\ att[j][n].effect => hist[j][n] = "applied"

JobInv ==
    /\ TypeOK
    /\ \A j \in Jobs : \A n \in Attempts :
          AttemptOK(att[j][n], Kind[j], hist[j][n]) /\ Superseded(j, n)
    /\ \A j \in Jobs : Current(j) /\ Fresh(j)
    /\ Apart /\ QueueOK /\ PassOK /\ ProbeOK
    /\ \A v \in Reservations : ReleasedOK(v)

-----------------------------------------------------------------------------
(* The parts of the invariant that one record of the ledger or of the      *)
(* attempt directories can disturb.                                        *)

LEMMA AttemptTyped ==
    ASSUME TypeOK, NEW j \in Jobs, NEW n \in Attempts
    PROVE  att[j][n] \in AttemptRecord
BY DEF TypeOK

LEMMA JobTyped ==
    ASSUME TypeOK, NEW j \in Jobs
    PROVE  /\ jobs[j] \in [state : JobStates, attempt : 0..MaxAttempts]
           /\ jobs[j].attempt # 0 => jobs[j].attempt \in Attempts
<1>1. jobs[j] \in [state : JobStates, attempt : 0..MaxAttempts]
  BY DEF TypeOK
<1>2. MaxAttempts \in Nat
  BY JobsAssumption
<1> QED BY <1>1, <1>2 DEF Attempts

(* A worker past admission works on the current attempt of a claimed job.  *)
LEMMA WorkerClaimed ==
    ASSUME JobInv, NEW j \in Jobs, NEW n \in Attempts, att[j][n].lock = "worker"
    PROVE  jobs[j].state \in Claimed /\ jobs[j].attempt = n
<1>1. att[j][n].result = "none" /\ att[j][n].unit = "active"
  BY DEF JobInv, AttemptOK
<1>2. jobs[j].attempt = n
  <2>1. jobs[j].attempt \in Int /\ n \in Int
    BY JobTyped, JobsAssumption DEF JobInv, Attempts
  <2>2. ~(n < jobs[j].attempt) /\ ~(n > jobs[j].attempt)
    BY <1>1 DEF JobInv, Superseded, Clean
  <2> QED BY <2>1, <2>2
<1>3. n # 0
  BY JobsAssumption DEF Attempts
<1> QED BY <1>1, <1>2, <1>3 DEF JobInv, Current, Clean

(* An attempt with an effect is the current one of a job that is claimed   *)
(* or succeeded.                                                           *)
LEMMA EffectCurrent ==
    ASSUME JobInv, NEW j \in Jobs, NEW n \in Attempts, att[j][n].effect
    PROVE  jobs[j].state \in Claimed \cup {"succeeded"} /\ jobs[j].attempt = n
<1>1. att[j][n].unit # "none" /\ att[j][n].result \notin Clean
  BY DEF JobInv, AttemptOK
<1>2. jobs[j].attempt = n
  <2>1. jobs[j].attempt \in Int /\ n \in Int
    BY JobTyped, JobsAssumption DEF JobInv, Attempts
  <2>2. ~(n < jobs[j].attempt) /\ ~(n > jobs[j].attempt)
    BY <1>1 DEF JobInv, Superseded
  <2> QED BY <2>1, <2>2
<1>3. n # 0
  BY JobsAssumption DEF Attempts
<1> QED BY <1>1, <1>2, <1>3 DEF JobInv, Current

-----------------------------------------------------------------------------
(* The three properties follow from the invariant. *)

LEMMA InvExclude == JobInv => MutatorsExclude
<1> SUFFICES ASSUME JobInv, NEW j \in Jobs, NEW n \in Attempts, Mutating(j, n)
             PROVE  /\ jobs[j].state \in Claimed /\ jobs[j].attempt = n
                    /\ Uses[j] \cap held = {}
                    /\ \A k \in Jobs \ {j} : \A m \in Attempts :
                          Mutating(k, m) => Uses[j] \cap Uses[k] = {}
  BY DEF MutatorsExclude
<1>1. \A k \in Jobs : \A m \in Attempts : Mutating(k, m) =>
         jobs[k].state \in Claimed /\ jobs[k].attempt = m
  BY WorkerClaimed DEF Mutating, Working
<1>2. att[j][n].result = "none"
  BY DEF Mutating, Working, JobInv, AttemptOK
<1>3. Uses[j] \cap held = {}
  BY <1>1, <1>2 DEF JobInv, Fresh
<1> QED BY <1>1, <1>3 DEF JobInv, Apart

LEMMA InvVerdicts == JobInv => VerdictsTrue
<1> SUFFICES ASSUME JobInv, NEW j \in Jobs
             PROVE  /\ \A n \in Attempts :
                          /\ att[j][n].result = "applied" => att[j][n].effect
                          /\ att[j][n].result \in {"not_applied", "baseline_changed"}
                               => ~att[j][n].effect
                    /\ jobs[j].state = "succeeded" => att[j][jobs[j].attempt].effect
                    /\ jobs[j].state \in {"failed", "canceled", "needs_refresh"} =>
                          \A n \in Attempts : ~att[j][n].effect
  BY DEF VerdictsTrue
<1>1. \A n \in Attempts : AttemptOK(att[j][n], Kind[j], hist[j][n])
  BY DEF JobInv
<1>2. jobs[j].state = "succeeded" => att[j][jobs[j].attempt].effect
  <2> SUFFICES ASSUME jobs[j].state = "succeeded" PROVE att[j][jobs[j].attempt].effect
    OBVIOUS
  <2>1. jobs[j].attempt # 0 /\ att[j][jobs[j].attempt].result = "applied"
    BY DEF JobInv, Current
  <2>2. jobs[j].attempt \in Attempts
    BY <2>1, JobTyped DEF JobInv
  <2> QED BY <1>1, <2>1, <2>2 DEF AttemptOK
<1>3. jobs[j].state \in {"failed", "canceled", "needs_refresh"} =>
         \A n \in Attempts : ~att[j][n].effect
  BY EffectCurrent DEF Claimed
<1> QED BY <1>1, <1>2, <1>3 DEF AttemptOK, Clean

LEMMA InvReleased == JobInv => ReleasedIsSettled
<1> SUFFICES ASSUME JobInv, NEW v \in Reservations, rsv[v] = "released",
                    NEW j \in OfReservation(v), NEW n \in Attempts
             PROVE  /\ ~Mutating(j, n)
                    /\ att[j][n].effect => hist[j][n] = "applied"
  BY DEF ReleasedIsSettled
<1>1. j \in Jobs /\ ReservationOf[j] = v
  BY DEF OfReservation
<1> QED BY <1>1 DEF JobInv, ReleasedOK, Mutating, Working

-----------------------------------------------------------------------------
(* A step of a worker or of a probe: one attempt directory changes, keeps  *)
(* its verdict if it has one, and is not admitted anew under a released    *)
(* reservation.                                                            *)
LEMMA DirectoryStep ==
    ASSUME JobInv, NEW j \in Jobs, NEW n \in Attempts, NEW b \in AttemptRecord,
           att' = [att EXCEPT ![j] = [att[j] EXCEPT ![n] = b]],
           AttemptOK(b, Kind[j], hist[j][n]),
           att[j][n].result # "none" => b.result # "none",
           att[j][n].result \in Clean => b.result \in Clean,
           att[j][n].result = "applied" => b.result = "applied",
           n > jobs[j].attempt => b.unit = "none",
           ReservationOf[j] # NoReservation /\ rsv[ReservationOf[j]] = "released" =>
              /\ b.lock = "worker" => b.phase \notin {"admitted", "intent"}
              /\ b.effect => att[j][n].effect,
           UNCHANGED <<jobs, rsv, hist, fence, held, pass>>,
           queue' \in [Jobs -> {"no", "request", "run", "uncertain"}], QueueOK',
           crashes' \in 0..MaxCrash,
           probe' \in [step : {"rest", "read", "locked", "pass"},
                       at : SUBSET (Jobs \X Attempts)],
           ProbeOK'
    PROVE  JobInv'
<1>0. TypeOK
  BY DEF JobInv
<1>1. /\ att' \in [Jobs -> [Attempts -> AttemptRecord]]
      /\ att'[j][n] = b
      /\ \A k \in Jobs : \A m \in Attempts :
            <<k, m>> # <<j, n>> => att'[k][m] = att[k][m]
  <2>1. att \in [Jobs -> [Attempts -> AttemptRecord]]
    BY <1>0 DEF TypeOK
  <2>2. att' = [att EXCEPT ![j] = [att[j] EXCEPT ![n] = b]]
    BY <2>1
  <2>3. [att[j] EXCEPT ![n] = b] \in [Attempts -> AttemptRecord]
    BY <2>1
  <2> QED BY <2>1, <2>2, <2>3
<1>2. TypeOK'
  BY <1>0, <1>1 DEF TypeOK
<1>3. \A k \in Jobs : \A m \in Attempts :
         /\ att[k][m].result # "none" => att'[k][m].result # "none"
         /\ att[k][m].result \in Clean => att'[k][m].result \in Clean
         /\ att[k][m].result = "applied" => att'[k][m].result = "applied"
  BY <1>1
<1>4. ASSUME NEW k \in Jobs, NEW m \in Attempts
      PROVE  AttemptOK(att'[k][m], Kind[k], hist'[k][m]) /\ Superseded(k, m)'
  <2>1. AttemptOK(att[k][m], Kind[k], hist[k][m]) /\ Superseded(k, m)
    BY DEF JobInv
  <2>2. CASE <<k, m>> = <<j, n>>
    BY <1>1, <2>1, <2>2 DEF Superseded
  <2>3. CASE <<k, m>> # <<j, n>>
    BY <1>1, <2>1, <2>3 DEF Superseded
  <2> QED BY <2>2, <2>3
<1>5. ASSUME NEW k \in Jobs
      PROVE  Current(k)' /\ Fresh(k)'
  <2>1. Current(k) /\ Fresh(k)
    BY DEF JobInv
  <2>2. jobs[k].attempt # 0 => jobs[k].attempt \in Attempts
    BY <1>0, JobTyped
  <2>3. Current(k)'
    BY <1>3, <2>1, <2>2 DEF Current
  <2> QED BY <1>3, <2>1, <2>2, <2>3 DEF Current, Fresh
<1>6. Apart'
  BY DEF JobInv, Apart
<1>7. PassOK'
  <2>1. \A p \in Passes : \A t \in pass[p].at : t.job \in Jobs /\ t.attempt \in Attempts
    BY <1>0 DEF TypeOK, Seen
  <2> QED BY <1>3, <2>1 DEF JobInv, PassOK
<1>8. ASSUME NEW v \in Reservations PROVE ReleasedOK(v)'
  <2> SUFFICES ASSUME rsv[v] = "released", NEW k \in Jobs, NEW m \in Attempts,
                      ReservationOf[k] = v
               PROVE  /\ att'[k][m].lock = "worker" =>
                            att'[k][m].phase \notin {"admitted", "intent"}
                      /\ att'[k][m].effect => hist[k][m] = "applied"
    BY DEF ReleasedOK
  <2>1. /\ att[k][m].lock = "worker" => att[k][m].phase \notin {"admitted", "intent"}
        /\ att[k][m].effect => hist[k][m] = "applied"
    BY DEF JobInv, ReleasedOK
  <2>2. v # NoReservation
    BY JobsAssumption
  <2>3. CASE <<k, m>> = <<j, n>>
    BY <1>1, <2>1, <2>2, <2>3
  <2>4. CASE <<k, m>> # <<j, n>>
    BY <1>1, <2>1, <2>4
  <2> QED BY <2>3, <2>4
<1> QED BY <1>2, <1>4, <1>5, <1>6, <1>7, <1>8 DEF JobInv

(* A step that moves one job within the ledger, with what the history of   *)
(* its reservation says of it.                                             *)
JobMoves(j, s) ==
    /\ jobs' \in [Jobs -> [state : JobStates, attempt : 0..MaxAttempts]]
    /\ jobs'[j].state = s
    /\ \A k \in Jobs : jobs'[k].attempt = jobs[k].attempt
    /\ \A k \in Jobs : k # j => jobs'[k] = jobs[k]

QueueShrinks ==
    /\ queue' \in [Jobs -> {"no", "request", "run", "uncertain"}]
    /\ \A k \in Jobs : queue'[k] # "no" => queue'[k] = queue[k]

PassType == [step : {"rest", "next", "settle", "mark", "inspect", "suspect"},
             todo : SUBSET Seen, at : SUBSET Seen]

PassShrinks ==
    /\ pass' \in [Passes -> PassType]
    /\ \A p \in Passes :
          /\ pass'[p].todo \cup pass'[p].at \subseteq pass[p].todo \cup pass[p].at
          /\ pass'[p].step = "settle" => pass'[p] = pass[p]

HistoryGrows ==
    /\ rsv' \in [Reservations -> {"requested", "released"} \cup Live]
    /\ \A v \in Reservations : rsv'[v] = "released" => rsv[v] = "released"
    /\ hist' \in [Jobs -> [Attempts -> {"none", "unknown", "applied"}]]
    /\ \A k \in Jobs : \A m \in Attempts :
          /\ hist[k][m] = "applied" => hist'[k][m] = "applied"
          /\ hist'[k][m] = "applied" => att[k][m].result = "applied"

LEMMA JobMoved ==
    ASSUME TypeOK, NEW j \in Jobs, NEW s \in JobStates,
           jobs' = [jobs EXCEPT ![j].state = s]
    PROVE  JobMoves(j, s)
<1> DEFINE R == [state : JobStates, attempt : 0..MaxAttempts]
           b == [jobs[j] EXCEPT !.state = s]
<1>1. jobs \in [Jobs -> R]
  BY DEF TypeOK
<1>2. jobs[j] \in R
  BY <1>1
<1>3. b \in R /\ b.state = s /\ b.attempt = jobs[j].attempt
  BY <1>2
<1>4. jobs' = [jobs EXCEPT ![j] = b]
  BY <1>1
<1> HIDE DEF b, R
<1>5. jobs' \in [Jobs -> R] /\ jobs'[j] = b
      /\ \A k \in Jobs : k # j => jobs'[k] = jobs[k]
  BY <1>1, <1>3, <1>4
<1> QED BY <1>3, <1>5 DEF R, JobMoves

LEMMA TransitionStep ==
    ASSUME JobInv, NEW j \in Jobs, NEW s \in JobStates, JobMoves(j, s),
           s \in Claimed => jobs[j].attempt # 0 /\ Disjoint(j),
           s = "succeeded" =>
              /\ jobs[j].attempt # 0
              /\ att[j][jobs[j].attempt].result = "applied"
              /\ ReservationOf[j] # NoReservation =>
                    hist'[j][jobs[j].attempt] = "applied",
           s \notin Claimed \cup {"succeeded"} =>
              jobs[j].attempt = 0 \/ att[j][jobs[j].attempt].result \in Clean,
           UNCHANGED <<fence, held, att, probe, crashes>>,
           HistoryGrows, QueueShrinks, PassShrinks
    PROVE  JobInv'
<1>0. TypeOK
  BY DEF JobInv
<1>1. /\ jobs'[j].state = s
      /\ \A k \in Jobs : jobs'[k].attempt = jobs[k].attempt
      /\ \A k \in Jobs : k # j => jobs'[k] = jobs[k]
  BY DEF JobMoves
<1>2. TypeOK'
  BY <1>0 DEF TypeOK, JobMoves, HistoryGrows, QueueShrinks, PassShrinks, PassType
<1>3. ASSUME NEW k \in Jobs, NEW m \in Attempts
      PROVE  AttemptOK(att'[k][m], Kind[k], hist'[k][m]) /\ Superseded(k, m)'
  <2>1. AttemptOK(att[k][m], Kind[k], hist[k][m]) /\ Superseded(k, m)
    BY DEF JobInv
  <2>2. AttemptOK(att[k][m], Kind[k], hist'[k][m])
    BY <2>1 DEF AttemptOK, HistoryGrows
  <2> QED BY <1>1, <2>1, <2>2 DEF Superseded
<1>4. ASSUME NEW k \in Jobs
      PROVE  Current(k)' /\ Fresh(k)'
  <2>1. Current(k) /\ Fresh(k)
    BY DEF JobInv
  <2>2. CASE k = j
    <3>1. Current(j)'
      BY <1>1, <2>1, <2>2 DEF Current
    <3>2. Fresh(j)'
      BY <1>1, <2>1, <2>2 DEF Current, Fresh, Clean
    <3> QED BY <2>2, <3>1, <3>2
  <2>3. CASE k # j
    <3>1. jobs[k].attempt # 0 => jobs[k].attempt \in Attempts
      BY <1>0, JobTyped
    <3>2. Current(k)'
      BY <1>1, <2>1, <2>3, <3>1 DEF Current, HistoryGrows
    <3> QED BY <1>1, <2>1, <2>3, <3>2 DEF Fresh
  <2> QED BY <2>2, <2>3
<1>5. Apart'
  <2>1. s \in Claimed => \A k \in Jobs \ {j} :
           jobs[k].state \in Claimed => Uses[j] \cap Uses[k] = {}
    BY DEF Disjoint, InClaim
  <2> QED BY <1>1, <2>1 DEF JobInv, Apart
<1>6. QueueOK'
  BY <1>1 DEF JobInv, QueueOK, QueueShrinks
<1>7. PassOK'
  <2>1. \A p \in Passes : \A t \in pass[p].todo \cup pass[p].at : t.job \in Jobs
    BY <1>0 DEF TypeOK, Seen
  <2> QED BY <1>1, <2>1 DEF JobInv, PassOK, PassShrinks
<1>8. ProbeOK'
  BY DEF JobInv, ProbeOK
<1>9. ASSUME NEW v \in Reservations PROVE ReleasedOK(v)'
  <2>1. ReleasedOK(v)
    BY DEF JobInv
  <2> QED BY <2>1 DEF ReleasedOK, HistoryGrows
<1> QED BY <1>2, <1>3, <1>4, <1>5, <1>6, <1>7, <1>8, <1>9 DEF JobInv

(* The same, where only the state of the job changes. *)
LEMMA MoveStep ==
    ASSUME JobInv, NEW j \in Jobs, NEW s \in JobStates \ {"succeeded"}, JobMoves(j, s),
           s \in Claimed => jobs[j].attempt # 0 /\ Disjoint(j),
           s \notin Claimed =>
              jobs[j].attempt = 0 \/ att[j][jobs[j].attempt].result \in Clean,
           UNCHANGED <<rsv, hist, fence, held, att, probe, crashes>>,
           QueueShrinks, PassShrinks
    PROVE  JobInv'
<1>1. HistoryGrows
  <2>1. /\ rsv \in [Reservations -> {"requested", "released"} \cup Live]
        /\ hist \in [Jobs -> [Attempts -> {"none", "unknown", "applied"}]]
    BY DEF JobInv, TypeOK
  <2>2. \A k \in Jobs : \A m \in Attempts :
           hist[k][m] = "applied" => att[k][m].result = "applied"
    BY DEF JobInv, AttemptOK
  <2> QED BY <2>1, <2>2 DEF HistoryGrows
<1> QED BY <1>1, TransitionStep

LEMMA QueueStill == ASSUME TypeOK, queue' = queue PROVE QueueShrinks
BY DEF TypeOK, QueueShrinks

LEMMA PassesStill == ASSUME TypeOK, pass' = pass PROVE PassShrinks
BY DEF TypeOK, PassShrinks, PassType

(* The step of a worker: the probe's lock stays where it is. *)
LEMMA WorkerStep ==
    ASSUME JobInv, NEW j \in Jobs, NEW n \in Attempts, NEW b \in AttemptRecord,
           att' = [att EXCEPT ![j] = [att[j] EXCEPT ![n] = b]],
           AttemptOK(b, Kind[j], hist[j][n]),
           att[j][n].unit = "active", b.lock = "probe" <=> att[j][n].lock = "probe",
           att[j][n].result # "none" => b.result = att[j][n].result,
           ReservationOf[j] # NoReservation /\ rsv[ReservationOf[j]] = "released" =>
              /\ b.lock = "worker" => b.phase \notin {"admitted", "intent"}
              /\ b.effect => att[j][n].effect,
           UNCHANGED <<jobs, rsv, hist, fence, held, pass, queue, probe>>,
           crashes' \in 0..MaxCrash
    PROVE  JobInv'
<1>0. TypeOK /\ Superseded(j, n) /\ QueueOK /\ ProbeOK
  BY DEF JobInv
<1>1. /\ att'[j][n] = b
      /\ \A k \in Jobs : \A m \in Attempts :
            <<k, m>> # <<j, n>> => att'[k][m] = att[k][m]
  BY <1>0 DEF TypeOK
<1>2. ~(n > jobs[j].attempt)
  BY <1>0 DEF Superseded
<1>3. /\ queue' \in [Jobs -> {"no", "request", "run", "uncertain"}]
      /\ probe' \in [step : {"rest", "read", "locked", "pass"},
                      at : SUBSET (Jobs \X Attempts)]
  BY <1>0 DEF TypeOK
<1>4. QueueOK'
  <2> SUFFICES ASSUME NEW k \in Jobs, queue[k] \in {"request", "run"}
               PROVE  att'[k][jobs[k].attempt].unit = "none"
    BY <1>0 DEF QueueOK
  <2>1. jobs[k].attempt \in Attempts /\ att[k][jobs[k].attempt].unit = "none"
    BY <1>0, JobTyped DEF QueueOK
  <2>2. <<k, jobs[k].attempt>> # <<j, n>>
    BY <2>1
  <2> QED BY <1>1, <2>1, <2>2
<1>5. ProbeOK'
  BY <1>0, <1>1 DEF ProbeOK
<1>6. /\ att[j][n].result # "none" => b.result # "none"
      /\ att[j][n].result \in Clean => b.result \in Clean
      /\ att[j][n].result = "applied" => b.result = "applied"
  BY DEF Clean
<1> QED BY <1>2, <1>3, <1>4, <1>5, <1>6, DirectoryStep

-----------------------------------------------------------------------------
(* The worker. *)

LEMMA WorkerStartStep ==
    ASSUME JobInv, NEW j \in Jobs, NEW n \in Attempts, WorkerStart(j, n)
    PROVE  JobInv'
<1>0. TypeOK /\ att[j][n] \in AttemptRecord /\ AttemptOK(att[j][n], Kind[j], hist[j][n])
      /\ Superseded(j, n)
  BY AttemptTyped DEF JobInv
<1>1. PICK b \in AttemptRecord :
         /\ att' = [att EXCEPT ![j] = [att[j] EXCEPT ![n] = b]]
         /\ b.result = att[j][n].result /\ b.phase = att[j][n].phase
         /\ b.effect = att[j][n].effect
         /\ \/ b.unit = "active" /\ b.lock = "worker" /\ b.result = "none"
               /\ att[j][n].lock = "free"
            \/ b.unit = "failed" /\ b.lock = att[j][n].lock
  <2>1. CASE MayStart(j, n)
    <3> DEFINE b == [att[j][n] EXCEPT !.lock = "worker"]
    <3>1. b \in AttemptRecord
      BY <1>0 DEF AttemptRecord
    <3>2. att' = [att EXCEPT ![j] = [att[j] EXCEPT ![n] = b]]
      BY <1>0, <2>1 DEF WorkerStart, TypeOK
    <3>3. b.result = att[j][n].result /\ b.phase = att[j][n].phase
          /\ b.effect = att[j][n].effect /\ b.unit = att[j][n].unit /\ b.lock = "worker"
      BY <1>0 DEF AttemptRecord
    <3> QED BY <2>1, <3>1, <3>2, <3>3 DEF WorkerStart, MayStart
  <2>2. CASE ~MayStart(j, n)
    <3> DEFINE b == [att[j][n] EXCEPT !.unit = "failed"]
    <3>1. b \in AttemptRecord
      BY <1>0 DEF AttemptRecord
    <3>2. att' = [att EXCEPT ![j] = [att[j] EXCEPT ![n] = b]]
      BY <1>0, <2>2 DEF WorkerStart, TypeOK
    <3>3. b.result = att[j][n].result /\ b.phase = att[j][n].phase
          /\ b.effect = att[j][n].effect /\ b.unit = "failed" /\ b.lock = att[j][n].lock
      BY <1>0 DEF AttemptRecord
    <3> QED BY <3>1, <3>2, <3>3
  <2> QED BY <2>1, <2>2
<1>2. att[j][n].unit = "active" /\ att[j][n].lock # "worker"
      /\ UNCHANGED <<jobs, rsv, hist, fence, held, pass, queue, probe, crashes>>
  BY DEF WorkerStart
<1>3. AttemptOK(b, Kind[j], hist[j][n])
  BY <1>0, <1>1, <1>2 DEF AttemptOK
<1>4. b.lock = "worker" => b.phase = "none"
  BY <1>0, <1>1, <1>2 DEF AttemptOK
<1>5. crashes' \in 0..MaxCrash
  BY <1>0, <1>2 DEF TypeOK
<1> QED BY <1>1, <1>2, <1>3, <1>4, <1>5, WorkerStep

(* The phases of a worker: admission needs a reservation that is not       *)
(* released, and whoever was admitted has one.                             *)
LEMMA PhaseStep ==
    ASSUME JobInv, NEW j \in Jobs, NEW n \in Attempts, NEW from,
           NEW to \in {"admitted", "intent", "verified"},
           Phase(j, n, from, to),
           to = "admitted" => from = "none" /\ Admissible(j, n),
           to = "intent" => from = "admitted",
           to = "verified" => from = "intent" /\ att[j][n].effect
    PROVE  JobInv'
<1>0. /\ TypeOK /\ att[j][n] \in AttemptRecord
      /\ AttemptOK(att[j][n], Kind[j], hist[j][n])
  BY AttemptTyped DEF JobInv
<1>1. /\ att[j][n].unit = "active" /\ att[j][n].lock = "worker" /\ att[j][n].phase = from
      /\ att[j][n].result = "none"
      /\ UNCHANGED <<jobs, rsv, hist, fence, held, pass, queue, probe, crashes>>
  BY <1>0 DEF Phase, Working, AttemptOK
<1> DEFINE b == [att[j][n] EXCEPT !.phase = to]
<1>2. b \in AttemptRecord
  BY <1>0 DEF AttemptRecord
<1>3. att' = [att EXCEPT ![j] = [att[j] EXCEPT ![n] = b]]
  BY <1>0 DEF Phase, TypeOK
<1>4. b.result = att[j][n].result /\ b.effect = att[j][n].effect
      /\ b.unit = att[j][n].unit /\ b.lock = att[j][n].lock /\ b.phase = to
  BY <1>0 DEF AttemptRecord
<1> HIDE DEF b
<1>5. AttemptOK(b, Kind[j], hist[j][n])
  BY <1>0, <1>1, <1>4 DEF AttemptOK, Clean
<1>6. ReservationOf[j] # NoReservation /\ rsv[ReservationOf[j]] = "released" =>
         b.phase \notin {"admitted", "intent"}
  <2> SUFFICES ASSUME ReservationOf[j] # NoReservation,
                      rsv[ReservationOf[j]] = "released", b.phase # "verified"
               PROVE  FALSE
    BY <1>4
  <2>1. ReservationOf[j] \in Reservations
    BY JobsAssumption
  <2>2. from # "admitted"
    BY <1>1, <2>1 DEF JobInv, ReleasedOK
  <2>3. to = "admitted" /\ Admissible(j, n)
    BY <1>4, <2>2
  <2> QED BY <2>3 DEF Admissible
<1>7. crashes' \in 0..MaxCrash
  BY <1>0, <1>1 DEF TypeOK
<1> QED BY <1>1, <1>2, <1>3, <1>4, <1>5, <1>6, <1>7, WorkerStep

LEMMA EffectStep ==
    ASSUME JobInv, NEW j \in Jobs, NEW n \in Attempts, Effect(j, n)
    PROVE  JobInv'
<1>0. /\ TypeOK /\ att[j][n] \in AttemptRecord
      /\ AttemptOK(att[j][n], Kind[j], hist[j][n])
  BY AttemptTyped DEF JobInv
<1>1. /\ att[j][n].unit = "active" /\ att[j][n].lock = "worker"
      /\ att[j][n].phase = "intent" /\ att[j][n].result = "none"
      /\ UNCHANGED <<jobs, rsv, hist, fence, held, pass, queue, probe, crashes>>
  BY <1>0 DEF Effect, Working, AttemptOK
<1> DEFINE b == [att[j][n] EXCEPT !.effect = TRUE]
<1>2. b \in AttemptRecord
  BY <1>0 DEF AttemptRecord
<1>3. att' = [att EXCEPT ![j] = [att[j] EXCEPT ![n] = b]]
  BY <1>0 DEF Effect, TypeOK
<1>4. b.result = att[j][n].result /\ b.effect = TRUE
      /\ b.unit = att[j][n].unit /\ b.lock = att[j][n].lock
      /\ b.phase = att[j][n].phase
  BY <1>0 DEF AttemptRecord
<1> HIDE DEF b
<1>5. AttemptOK(b, Kind[j], hist[j][n])
  BY <1>0, <1>1, <1>4 DEF AttemptOK, Clean
<1>6. ~(ReservationOf[j] # NoReservation /\ rsv[ReservationOf[j]] = "released")
  BY <1>1, JobsAssumption DEF JobInv, ReleasedOK
<1>7. crashes' \in 0..MaxCrash
  BY <1>0, <1>1 DEF TypeOK
<1> QED BY <1>1, <1>2, <1>3, <1>4, <1>5, <1>6, <1>7, WorkerStep

(* The verdict a worker writes agrees with what it did. *)
LEMMA WorkerResultStep ==
    ASSUME JobInv, NEW j \in Jobs, NEW n \in Attempts, NEW outcome \in Outcomes,
           WorkerResult(j, n, outcome)
    PROVE  JobInv'
<1>0. /\ TypeOK /\ att[j][n] \in AttemptRecord
      /\ AttemptOK(att[j][n], Kind[j], hist[j][n])
  BY AttemptTyped DEF JobInv
<1>1. /\ att[j][n].unit = "active" /\ att[j][n].lock = "worker"
      /\ att[j][n].result = "none" /\ outcome \in Verdict(j, n)
      /\ UNCHANGED <<jobs, rsv, hist, fence, held, pass, queue, probe, crashes>>
  BY <1>0 DEF WorkerResult, Working, AttemptOK
<1> DEFINE b == [att[j][n] EXCEPT !.result = outcome, !.lock = "free",
                                  !.unit = "exited"]
<1>2. b \in AttemptRecord
  BY <1>0 DEF AttemptRecord
<1>3. att' = [att EXCEPT ![j] = [att[j] EXCEPT ![n] = b]]
  BY <1>0 DEF WorkerResult, TypeOK
<1>4. b.result = outcome /\ b.effect = att[j][n].effect
      /\ b.unit = "exited" /\ b.lock = "free"
      /\ b.phase = att[j][n].phase
  BY <1>0 DEF AttemptRecord
<1> HIDE DEF b
<1>5. AttemptOK(b, Kind[j], hist[j][n])
  <2>1. att[j][n].phase \in {"none", "admitted", "intent", "verified"}
        /\ att[j][n].effect \in BOOLEAN
    BY <1>0 DEF AttemptRecord
  <2>2. CASE att[j][n].phase \in {"none", "admitted"}
    <3>1. outcome \in {"not_applied", "baseline_changed", "unknown"}
      BY <1>1, <2>2 DEF Verdict
    <3> QED BY <1>0, <1>1, <1>4, <2>2, <3>1 DEF AttemptOK, Clean
  <2>3. CASE att[j][n].phase = "intent"
    <3>1. outcome \in {"unknown"} \cup
            (IF Kind[j] # "machine" THEN {}
             ELSE IF att[j][n].effect THEN {"applied"} ELSE {"not_applied"})
      BY <1>1, <2>3 DEF Verdict
    <3> QED BY <1>0, <1>1, <1>4, <2>3, <3>1 DEF AttemptOK, Clean
  <2>4. CASE att[j][n].phase = "verified"
    <3>1. outcome \in {"applied", "unknown"}
      BY <1>1, <2>4 DEF Verdict
    <3> QED BY <1>0, <1>1, <1>4, <2>4, <3>1 DEF AttemptOK, Clean
  <2> QED BY <2>1, <2>2, <2>3, <2>4
<1>6. crashes' \in 0..MaxCrash
  BY <1>0, <1>1 DEF TypeOK
<1> QED BY <1>1, <1>2, <1>3, <1>4, <1>5, <1>6, WorkerStep

LEMMA WorkerCrashStep ==
    ASSUME JobInv, NEW j \in Jobs, NEW n \in Attempts, WorkerCrash(j, n)
    PROVE  JobInv'
<1>0. /\ TypeOK /\ att[j][n] \in AttemptRecord
      /\ AttemptOK(att[j][n], Kind[j], hist[j][n])
  BY AttemptTyped DEF JobInv
<1> DEFINE lock == IF att[j][n].lock = "worker" THEN "free" ELSE att[j][n].lock
           b == [att[j][n] EXCEPT !.unit = "failed", !.lock = lock]
<1>1. att[j][n].unit = "active" /\ crashes < MaxCrash /\ crashes' = crashes + 1
      /\ UNCHANGED <<jobs, rsv, hist, fence, held, pass, queue, probe>>
  BY DEF WorkerCrash
<1>2. lock \in {"free", "probe"} /\ (lock = "probe" <=> att[j][n].lock = "probe")
  BY <1>0 DEF AttemptRecord
<1>3. att' = [att EXCEPT ![j] = [att[j] EXCEPT ![n] = b]]
  BY <1>0 DEF WorkerCrash, TypeOK
<1> HIDE DEF lock
<1>4. b \in AttemptRecord
  BY <1>0, <1>2 DEF AttemptRecord
<1>5. b.result = att[j][n].result /\ b.effect = att[j][n].effect
      /\ b.unit = "failed" /\ b.lock = lock /\ b.phase = att[j][n].phase
  BY <1>0 DEF AttemptRecord
<1> HIDE DEF b
<1>6. AttemptOK(b, Kind[j], hist[j][n])
  BY <1>0, <1>2, <1>5 DEF AttemptOK
<1>7. crashes' \in 0..MaxCrash
  BY <1>0, <1>1, JobsAssumption DEF TypeOK
<1> QED BY <1>1, <1>2, <1>3, <1>4, <1>5, <1>6, <1>7, WorkerStep

-----------------------------------------------------------------------------
(* Dispatch. *)

(* A step that changes neither the ledger nor an attempt directory. *)
LEMMA QuietStep ==
    ASSUME JobInv, UNCHANGED <<jobs, rsv, hist, fence, held, att>>,
           TypeOK', QueueOK', PassOK', ProbeOK'
    PROVE  JobInv'
<1>1. \A j \in Jobs : \A n \in Attempts :
         AttemptOK(att'[j][n], Kind[j], hist'[j][n]) /\ Superseded(j, n)'
  BY DEF JobInv, Superseded
<1>2. \A j \in Jobs : Current(j)' /\ Fresh(j)'
  BY DEF JobInv, Current, Fresh
<1>3. Apart'
  BY DEF JobInv, Apart
<1>4. \A v \in Reservations : ReleasedOK(v)'
  BY DEF JobInv, ReleasedOK
<1> QED BY <1>1, <1>2, <1>3, <1>4 DEF JobInv

LEMMA DispatchRequestStep ==
    ASSUME JobInv, NEW j \in Jobs, DispatchRequest(j)
    PROVE  JobInv'
<1> DEFINE n == jobs[j].attempt
           b == [att[j][n] EXCEPT !.request = TRUE]
<1>0. TypeOK /\ QueueOK /\ ProbeOK
  BY DEF JobInv
<1>1. /\ queue[j] = "request" /\ queue' = [queue EXCEPT ![j] = "run"]
      /\ UNCHANGED <<jobs, rsv, hist, fence, held, pass, probe, crashes>>
  BY DEF DispatchRequest
<1>2. n \in Attempts /\ att[j][n].unit = "none"
  BY <1>0, <1>1, JobTyped DEF QueueOK
<1>3. att' = [att EXCEPT ![j] = [att[j] EXCEPT ![n] = b]]
  BY <1>0, <1>2 DEF DispatchRequest, TypeOK
<1> HIDE DEF n
<1>4. att[j][n] \in AttemptRecord /\ AttemptOK(att[j][n], Kind[j], hist[j][n])
  BY <1>0, <1>2, AttemptTyped DEF JobInv
<1>5. b \in AttemptRecord
  BY <1>4 DEF AttemptRecord
<1>6. b.result = att[j][n].result /\ b.effect = att[j][n].effect
      /\ b.unit = att[j][n].unit /\ b.lock = att[j][n].lock
      /\ b.phase = att[j][n].phase
  BY <1>4 DEF AttemptRecord
<1> HIDE DEF b
<1>7. AttemptOK(b, Kind[j], hist[j][n])
  BY <1>4, <1>6 DEF AttemptOK
<1>8. /\ \A k \in Jobs : k # j => att'[k] = att[k]
      /\ \A m \in Attempts : m # n => att'[j][m] = att[j][m]
      /\ att'[j][n] = b
  BY <1>0, <1>2, <1>3 DEF TypeOK
<1>9. queue' \in [Jobs -> {"no", "request", "run", "uncertain"}] /\ QueueOK'
  BY <1>0, <1>1, <1>2, <1>6, <1>8 DEF TypeOK, QueueOK, n
<1>10. /\ probe' \in [step : {"rest", "read", "locked", "pass"},
                      at : SUBSET (Jobs \X Attempts)]
       /\ crashes' \in 0..MaxCrash /\ ProbeOK'
  <2>1. \A k \in Jobs : \A m \in Attempts : att'[k][m].lock = att[k][m].lock
    BY <1>6, <1>8
  <2>2. ProbeOK'
    BY <1>0, <1>1, <2>1 DEF ProbeOK
  <2> QED BY <1>0, <1>1, <2>2 DEF TypeOK
<1>11. b.lock # "worker" /\ ~b.effect
  BY <1>2, <1>6, <1>7 DEF AttemptOK
<1> QED BY <1>1, <1>2, <1>3, <1>5, <1>6, <1>7, <1>9, <1>10, <1>11, DirectoryStep

LEMMA DispatchRunStep ==
    ASSUME JobInv, NEW j \in Jobs, NEW started \in BOOLEAN, NEW answered \in BOOLEAN,
           DispatchRun(j, started, answered)
    PROVE  JobInv'
<1> DEFINE n == jobs[j].attempt
           b == IF started THEN [att[j][n] EXCEPT !.unit = "active"] ELSE att[j][n]
           q == IF answered THEN "no" ELSE "uncertain"
<1>0. TypeOK /\ QueueOK /\ ProbeOK
  BY DEF JobInv
<1>1. /\ queue[j] = "run" /\ queue' = [queue EXCEPT ![j] = q]
      /\ UNCHANGED <<jobs, rsv, hist, fence, held, pass, probe, crashes>>
  BY DEF DispatchRun
<1>2. n \in Attempts /\ att[j][n].unit = "none"
  BY <1>0, <1>1, JobTyped DEF QueueOK
<1>3. att' = [att EXCEPT ![j] = [att[j] EXCEPT ![n] = b]]
  BY <1>0, <1>2 DEF DispatchRun, TypeOK
<1> HIDE DEF n
<1>4. att[j][n] \in AttemptRecord /\ AttemptOK(att[j][n], Kind[j], hist[j][n])
  BY <1>0, <1>2, AttemptTyped DEF JobInv
<1>5. b \in AttemptRecord
  BY <1>4 DEF AttemptRecord
<1>6. b.result = att[j][n].result /\ b.effect = att[j][n].effect
      /\ b.unit \in {"none", "active"} /\ b.lock = att[j][n].lock
      /\ b.phase = att[j][n].phase
  BY <1>2, <1>4 DEF AttemptRecord
<1> HIDE DEF b
<1>7. AttemptOK(b, Kind[j], hist[j][n])
  BY <1>2, <1>4, <1>6 DEF AttemptOK
<1>8. /\ \A k \in Jobs : k # j => att'[k] = att[k]
      /\ \A m \in Attempts : m # n => att'[j][m] = att[j][m]
      /\ att'[j][n] = b
  BY <1>0, <1>2, <1>3 DEF TypeOK
<1>9. queue' \in [Jobs -> {"no", "request", "run", "uncertain"}] /\ QueueOK'
  BY <1>0, <1>1, <1>8 DEF TypeOK, QueueOK
<1>10. /\ probe' \in [step : {"rest", "read", "locked", "pass"},
                      at : SUBSET (Jobs \X Attempts)]
       /\ crashes' \in 0..MaxCrash /\ ProbeOK'
  <2>1. \A k \in Jobs : \A m \in Attempts : att'[k][m].lock = att[k][m].lock
    BY <1>6, <1>8
  <2>2. ProbeOK'
    BY <1>0, <1>1, <2>1 DEF ProbeOK
  <2> QED BY <1>0, <1>1, <2>2 DEF TypeOK
<1>11. b.lock # "worker" /\ ~b.effect
  BY <1>2, <1>4, <1>6, <1>7 DEF AttemptOK
<1>12. ~(n > jobs[j].attempt)
  BY <1>0, JobTyped DEF n
<1> QED BY <1>1, <1>2, <1>3, <1>5, <1>6, <1>7, <1>9, <1>10, <1>11, <1>12, DirectoryStep

(* The rescue of dispatch. *)
LEMMA DispatchUncertainStep ==
    ASSUME JobInv, NEW j \in Jobs, DispatchUncertain(j)
    PROVE  JobInv'
<1>0. TypeOK /\ QueueOK /\ PassOK /\ ProbeOK
  BY DEF JobInv
<1>1. queue[j] = "uncertain"
      /\ UNCHANGED <<rsv, hist, fence, held, att, pass, probe, crashes>>
  BY DEF DispatchUncertain
<1>2. CASE Disjoint(j)
  <2>1. jobs' = [jobs EXCEPT ![j].state = "reconciling"]
        /\ queue' = [queue EXCEPT ![j] = "no"]
    BY <1>2 DEF DispatchUncertain
  <2>2. QueueShrinks
    BY <1>0, <2>1 DEF TypeOK, QueueShrinks
  <2>3. "reconciling" \in Claimed /\ "reconciling" \in JobStates \ {"succeeded"}
        /\ jobs[j].attempt # 0
    BY <1>0, <1>1 DEF Claimed, JobStates, QueueOK
  <2>4. JobMoves(j, "reconciling") /\ PassShrinks
    BY <1>0, <1>1, <2>1, <2>3, JobMoved, PassesStill
  <2> QED BY <1>1, <1>2, <2>1, <2>2, <2>3, <2>4, MoveStep
<1>3. CASE ~Disjoint(j)
  <2>1. queue' = [k \in Jobs |-> "no"] /\ jobs' = jobs
    BY <1>3 DEF DispatchUncertain
  <2>2. TypeOK' /\ QueueOK' /\ PassOK' /\ ProbeOK'
    BY <1>0, <1>1, <2>1 DEF TypeOK, QueueOK, PassOK, ProbeOK
  <2> QED BY <1>1, <2>1, <2>2, QuietStep
<1> QED BY <1>2, <1>3

-----------------------------------------------------------------------------
(* The reconciliation process. *)

LEMMA ProbeReadStep ==
    ASSUME JobInv, NEW j \in Jobs, ProbeRead(j)
    PROVE  JobInv'
<1>0. TypeOK /\ QueueOK /\ PassOK /\ Current(j)
  BY DEF JobInv
<1>1. probe' = [step |-> "read", at |-> {<<j, jobs[j].attempt>>}]
      /\ jobs[j].state \in Claimed
      /\ UNCHANGED <<jobs, rsv, hist, fence, held, att, pass, queue, crashes>>
  BY DEF ProbeRead
<1>2. jobs[j].attempt \in Attempts
  BY <1>0, <1>1, JobTyped DEF Current
<1>3. TypeOK'
  BY <1>0, <1>1, <1>2 DEF TypeOK
<1>4. QueueOK' /\ PassOK' /\ ProbeOK'
  BY <1>0, <1>1 DEF QueueOK, PassOK, ProbeOK
<1> QED BY <1>1, <1>3, <1>4, QuietStep

(* A probe takes or gives back the lock of one attempt. *)
LEMMA ProbeLockStep ==
    ASSUME JobInv, NEW j \in Jobs, NEW n \in Attempts, NEW lock \in {"free", "probe"},
           att' = [att EXCEPT ![j][n].lock = lock],
           att[j][n].lock # "worker",
           probe' \in [step : {"rest", "read", "locked", "pass"},
                       at : SUBSET (Jobs \X Attempts)],
           probe'.step = "locked" => probe'.at = {<<j, n>>} /\ lock = "probe",
           UNCHANGED <<jobs, rsv, hist, fence, held, pass, queue, crashes>>
    PROVE  JobInv'
<1> DEFINE b == [att[j][n] EXCEPT !.lock = lock]
<1>0. /\ TypeOK /\ QueueOK /\ att[j][n] \in AttemptRecord /\ Superseded(j, n)
      /\ AttemptOK(att[j][n], Kind[j], hist[j][n])
  BY AttemptTyped DEF JobInv
<1>1. att' = [att EXCEPT ![j] = [att[j] EXCEPT ![n] = b]]
  BY <1>0 DEF TypeOK
<1>2. b \in AttemptRecord
  BY <1>0 DEF AttemptRecord
<1>3. b.result = att[j][n].result /\ b.effect = att[j][n].effect
      /\ b.unit = att[j][n].unit /\ b.lock = lock
      /\ b.phase = att[j][n].phase
  BY <1>0 DEF AttemptRecord
<1> HIDE DEF b
<1>4. AttemptOK(b, Kind[j], hist[j][n])
  BY <1>0, <1>3 DEF AttemptOK
<1>5. /\ \A k \in Jobs : k # j => att'[k] = att[k]
      /\ \A m \in Attempts : m # n => att'[j][m] = att[j][m]
      /\ att'[j][n] = b
  BY <1>0, <1>1 DEF TypeOK
<1>6. QueueOK'
  <2>1. \A k \in Jobs : \A m \in Attempts : att'[k][m].unit = att[k][m].unit
    BY <1>3, <1>5
  <2>2. \A k \in Jobs : jobs[k].attempt # 0 => jobs[k].attempt \in Attempts
    BY <1>0, JobTyped
  <2> QED BY <1>0, <2>1, <2>2 DEF QueueOK
<1>7. ProbeOK'
  <2> SUFFICES ASSUME probe'.step = "locked", NEW k \in Jobs, NEW m \in Attempts,
                      probe'.at = {<<k, m>>}
               PROVE  att'[k][m].lock = "probe"
    BY DEF ProbeOK
  <2>1. k = j /\ m = n /\ lock = "probe"
    <3>1. {<<k, m>>} = {<<j, n>>} /\ lock = "probe"
      OBVIOUS
    <3>2. <<k, m>> = <<j, n>>
      BY <3>1
    <3> QED BY <3>1, <3>2
  <2> QED BY <1>3, <1>5, <2>1
<1>8. /\ queue' \in [Jobs -> {"no", "request", "run", "uncertain"}]
      /\ crashes' \in 0..MaxCrash
  BY <1>0 DEF TypeOK
<1>9. n > jobs[j].attempt => b.unit = "none"
  BY <1>0, <1>3 DEF Superseded
<1> QED BY <1>1, <1>2, <1>3, <1>4, <1>6, <1>7, <1>8, <1>9, DirectoryStep

LEMMA ProbeLockTaken ==
    ASSUME JobInv, NEW j \in Jobs, NEW n \in Attempts, ProbeLock(j, n)
    PROVE  JobInv'
<1>1. /\ att' = [att EXCEPT ![j][n].lock = "probe"] /\ att[j][n].lock = "free"
      /\ probe' = [step |-> "locked", at |-> {<<j, n>>}]
      /\ UNCHANGED <<jobs, rsv, hist, fence, held, pass, queue, crashes>>
  BY DEF ProbeLock
<1>2. /\ probe' \in [step : {"rest", "read", "locked", "pass"},
                     at : SUBSET (Jobs \X Attempts)]
      /\ probe'.at = {<<j, n>>}
  BY <1>1
<1> QED BY <1>1, <1>2, ProbeLockStep

LEMMA ProbeErrorStep ==
    ASSUME JobInv, NEW j \in Jobs, NEW n \in Attempts, ProbeError(j, n)
    PROVE  JobInv'
<1>0. TypeOK /\ QueueOK /\ PassOK /\ ProbeOK
  BY DEF JobInv
<1>1. /\ probe.step \in {"read", "locked"} /\ probe.at = {<<j, n>>} /\ probe' = NoProbe
      /\ UNCHANGED <<jobs, rsv, hist, fence, held, pass, queue, crashes>>
  BY DEF ProbeError
<1>2. /\ probe' \in [step : {"rest", "read", "locked", "pass"},
                     at : SUBSET (Jobs \X Attempts)]
      /\ probe'.step # "locked"
  BY <1>1 DEF NoProbe
<1>3. CASE probe.step = "locked"
  <2>1. att' = [att EXCEPT ![j][n].lock = "free"]
    BY <1>3 DEF ProbeError
  <2>2. att[j][n].lock # "worker"
    BY <1>0, <1>1, <1>3 DEF ProbeOK
  <2> QED BY <1>1, <1>2, <2>1, <2>2, ProbeLockStep
<1>4. CASE probe.step # "locked"
  <2>1. att' = [att EXCEPT ![j][n].lock = @]
    BY <1>4 DEF ProbeError
  <2>2. att' = att
    <3>1. att[j][n] \in AttemptRecord /\ att \in [Jobs -> [Attempts -> AttemptRecord]]
      BY <1>0, AttemptTyped DEF TypeOK
    <3>2. [att[j][n] EXCEPT !.lock = att[j][n].lock] = att[j][n]
      BY <3>1 DEF AttemptRecord
    <3>3. att' = [att EXCEPT ![j] = [att[j] EXCEPT ![n] =
                     [att[j][n] EXCEPT !.lock = att[j][n].lock]]]
      BY <2>1, <3>1
    <3>4. [att[j] EXCEPT ![n] = att[j][n]] = att[j]
      BY <3>1
    <3> QED BY <3>1, <3>2, <3>3, <3>4
  <2>3. TypeOK' /\ QueueOK' /\ PassOK' /\ ProbeOK'
    BY <1>0, <1>1, <1>2, <2>2 DEF TypeOK, QueueOK, PassOK, ProbeOK
  <2> QED BY <1>1, <2>2, <2>3, QuietStep
<1> QED BY <1>3, <1>4

(* What a probe proves agrees with what was recorded before: an attempt    *)
(* with an effect is applied, and only a profile under its own claim is    *)
(* completed by the probe itself.                                          *)
LEMMA ProbeResultStep ==
    ASSUME JobInv, NEW j \in Jobs, NEW n \in Attempts, NEW outcome \in Outcomes,
           ProbeResult(j, n, outcome)
    PROVE  JobInv'
<1> DEFINE b == [att[j][n] EXCEPT !.result = outcome,
                                  !.effect = (outcome = "applied"), !.lock = "free"]
<1>0. /\ TypeOK /\ QueueOK /\ ProbeOK /\ att[j][n] \in AttemptRecord
      /\ Superseded(j, n) /\ AttemptOK(att[j][n], Kind[j], hist[j][n])
  BY AttemptTyped DEF JobInv
<1>1. /\ probe = [step |-> "locked", at |-> {<<j, n>>}]
      /\ att[j][n].unit # "active" /\ outcome \in Proved(j, n)
      /\ probe' = [step |-> "pass", at |-> {}]
      /\ UNCHANGED <<jobs, rsv, hist, fence, held, pass, queue, crashes>>
  BY DEF ProbeResult
<1>2. att' = [att EXCEPT ![j] = [att[j] EXCEPT ![n] = b]]
  <2>1. att' = [att EXCEPT ![j][n].result = outcome,
                           ![j][n].effect = (outcome = "applied"),
                           ![j][n].lock = "free"]
    BY DEF ProbeResult
  <2>2. att \in [Jobs -> [Attempts -> AttemptRecord]]
    BY <1>0 DEF TypeOK
  <2> QED BY <2>1, <2>2
<1>3. b \in AttemptRecord
  BY <1>0 DEF AttemptRecord
<1>4. b.result = outcome /\ (b.effect <=> outcome = "applied")
      /\ b.unit = att[j][n].unit /\ b.lock = "free" /\ b.phase = att[j][n].phase
  BY <1>0 DEF AttemptRecord
<1> HIDE DEF b
<1>5. /\ att[j][n].effect => outcome = "applied"
      /\ outcome \in {"applied", "not_applied"}
      /\ outcome = "not_applied" /\ Kind[j] = "profile" => att[j][n].phase = "admitted"
      /\ outcome = "applied" /\ ~att[j][n].effect =>
            Kind[j] = "profile" /\ att[j][n].phase = "intent" /\ ProfileClaim(j, n)
  <2>1. Kind[j] \in {"merge", "machine", "profile"}
    BY JobsAssumption DEF Kinds
  <2>2. CASE Kind[j] = "merge"
    BY <1>1, <2>2 DEF Proved
  <2>3. CASE Kind[j] = "machine"
    BY <1>1, <2>3 DEF Proved
  <2>4. CASE Kind[j] = "profile"
    BY <1>1, <2>4 DEF Proved
  <2> QED BY <2>1, <2>2, <2>3, <2>4
<1>6. AttemptOK(b, Kind[j], hist[j][n])
  BY <1>0, <1>1, <1>4, <1>5 DEF AttemptOK, Clean
<1>7. /\ att[j][n].result # "none" => b.result # "none"
      /\ att[j][n].result \in Clean => b.result \in Clean
      /\ att[j][n].result = "applied" => b.result = "applied"
      /\ n > jobs[j].attempt => b.unit = "none"
  BY <1>0, <1>4, <1>5 DEF AttemptOK, Clean, Superseded
<1>8. ReservationOf[j] # NoReservation /\ rsv[ReservationOf[j]] = "released" =>
         (b.effect => att[j][n].effect)
  BY <1>4, <1>5 DEF ProfileClaim
<1>9. /\ \A k \in Jobs : k # j => att'[k] = att[k]
      /\ \A m \in Attempts : m # n => att'[j][m] = att[j][m]
      /\ att'[j][n] = b
  BY <1>0, <1>2 DEF TypeOK
<1>10. QueueOK'
  <2>1. \A k \in Jobs : \A m \in Attempts : att'[k][m].unit = att[k][m].unit
    BY <1>4, <1>9
  <2>2. \A k \in Jobs : jobs[k].attempt # 0 => jobs[k].attempt \in Attempts
    BY <1>0, JobTyped
  <2> QED BY <1>0, <1>1, <2>1, <2>2 DEF QueueOK
<1>11. /\ probe' \in [step : {"rest", "read", "locked", "pass"},
                      at : SUBSET (Jobs \X Attempts)]
       /\ ProbeOK'
  BY <1>1 DEF ProbeOK
<1>12. /\ queue' \in [Jobs -> {"no", "request", "run", "uncertain"}]
       /\ crashes' \in 0..MaxCrash
  BY <1>0, <1>1 DEF TypeOK
<1> QED BY <1>1, <1>2, <1>3, <1>4, <1>6, <1>7, <1>8, <1>10, <1>11, <1>12, DirectoryStep

-----------------------------------------------------------------------------
(* reconcile_attempts. *)

(* A pass that has something of the ledger in hand. *)
LEMMA PassTyped ==
    ASSUME JobInv, NEW p \in Passes
    PROVE  /\ pass \in [Passes -> PassType] /\ pass[p] \in PassType
           /\ \A t \in pass[p].todo \cup pass[p].at :
                 /\ t \in Seen /\ t.job \in Jobs /\ t.attempt \in Attempts
                 /\ jobs[t.job].attempt # 0
<1>1. pass \in [Passes -> PassType]
  BY DEF JobInv, TypeOK, PassType
<1>2. \A t \in pass[p].todo \cup pass[p].at : t \in Seen
  BY <1>1 DEF PassType
<1>3. ASSUME NEW t \in pass[p].todo \cup pass[p].at
      PROVE  t.job \in Jobs /\ t.attempt \in Attempts /\ jobs[t.job].attempt # 0
  <2>1. t.job \in Jobs /\ t.attempt \in Attempts
    BY <1>2, <1>3 DEF Seen
  <2>2. t.attempt <= jobs[t.job].attempt
    BY <1>3 DEF JobInv, PassOK
  <2>3. t.attempt \in Nat /\ t.attempt # 0 /\ jobs[t.job].attempt \in Nat
    BY <2>1, JobTyped, JobsAssumption DEF Attempts, JobInv
  <2> QED BY <2>1, <2>2, <2>3
<1> QED BY <1>1, <1>2, <1>3

(* A step of one pass alone. *)
LEMMA PassStill ==
    ASSUME JobInv, NEW p \in Passes, NEW r \in PassType,
           pass' = [pass EXCEPT ![p] = r],
           \A t \in r.todo \cup r.at : t.attempt <= jobs[t.job].attempt,
           r.step = "settle" =>
              \A t \in r.at : att[t.job][t.attempt].result # "none",
           UNCHANGED <<jobs, rsv, hist, fence, held, att, queue>>,
           probe' \in {probe, NoProbe}, crashes' \in 0..MaxCrash
    PROVE  JobInv'
<1>0. TypeOK /\ QueueOK /\ PassOK /\ ProbeOK
  BY DEF JobInv
<1>1. pass \in [Passes -> PassType]
  BY PassTyped
<1>2. /\ pass' \in [Passes -> PassType]
      /\ pass'[p] = r /\ \A q \in Passes : q # p => pass'[q] = pass[q]
  BY <1>1
<1>3. TypeOK'
  BY <1>0, <1>2 DEF TypeOK, PassType, NoProbe
<1>4. PassOK'
  BY <1>0, <1>2 DEF PassOK
<1>5. QueueOK' /\ ProbeOK'
  BY <1>0 DEF QueueOK, ProbeOK, NoProbe
<1> QED BY <1>3, <1>4, <1>5, QuietStep

LEMMA RestingTyped == Resting \in PassType /\ Resting.todo = {} /\ Resting.at = {}
                      /\ Resting.step = "rest"
BY DEF Resting, PassType

(* What remains of a pass after t. *)
LEMMA DoneTyped ==
    ASSUME JobInv, NEW p \in Passes, NEW t
    PROVE  \E r \in PassType :
              /\ Done(p, t) = [pass EXCEPT ![p] = r]
              /\ r.step = "next" /\ r.at = {} /\ r.todo \subseteq pass[p].todo
<1> DEFINE r == [step |-> "next", at |-> {}, todo |-> pass[p].todo \ {t}]
<1>1. pass[p] \in PassType
  BY PassTyped
<1>2. r \in PassType
  BY <1>1 DEF PassType
<1>3. Done(p, t) = [pass EXCEPT ![p] = r]
  BY PassTyped DEF Done
<1>4. r.step = "next" /\ r.at = {} /\ r.todo \subseteq pass[p].todo
  OBVIOUS
<1> QED BY <1>2, <1>3, <1>4

LEMMA PassStartStep ==
    ASSUME JobInv, NEW p \in Passes, PassStart(p)
    PROVE  JobInv'
<1> DEFINE T == {[job |-> j, attempt |-> jobs[j].attempt, state |-> jobs[j].state]
                   : j \in PassJobs}
           r == [step |-> "next", at |-> {}, todo |-> T]
<1>1. \A j \in PassJobs : j \in Jobs /\ jobs[j].state \in Claimed
                          /\ jobs[j].attempt \in Attempts
  BY JobTyped DEF PassJobs, JobInv, Current
<1>2. \A t \in T : t \in Seen /\ t.attempt <= jobs[t.job].attempt
  <2> SUFFICES ASSUME NEW j \in PassJobs,
                      NEW t, t = [job |-> j, attempt |-> jobs[j].attempt,
                                  state |-> jobs[j].state]
               PROVE  t \in Seen /\ t.attempt <= jobs[t.job].attempt
    OBVIOUS
  <2>1. jobs[j].attempt \in Int
    BY <1>1, JobsAssumption DEF Attempts
  <2> QED BY <1>1, <2>1 DEF Seen
<1>3. r \in PassType
  BY <1>2 DEF PassType
<1>4. pass' = [pass EXCEPT ![p] = r]
      /\ UNCHANGED <<jobs, rsv, hist, fence, held, att, queue, probe, crashes>>
  BY DEF PassStart
<1>5. \A t \in r.todo \cup r.at : t.attempt <= jobs[t.job].attempt
  BY <1>2
<1>6. r.step # "settle"
  OBVIOUS
<1>7. crashes' \in 0..MaxCrash
  BY <1>4 DEF JobInv, TypeOK
<1> HIDE DEF r
<1> QED BY <1>3, <1>4, <1>5, <1>6, <1>7, PassStill

LEMMA PassLookStep ==
    ASSUME JobInv, NEW p \in Passes, NEW t \in pass[p].todo, PassLook(p, t)
    PROVE  JobInv'
<1> DEFINE a == att[t.job][t.attempt]
           s == IF a.result # "none" THEN "settle"
                ELSE IF a.phase # "none" THEN "mark" ELSE "inspect"
           r == [pass[p] EXCEPT !.at = {t}, !.step = s]
<1>1. pass[p] \in PassType /\ t \in Seen /\ pass \in [Passes -> PassType]
  BY PassTyped
<1>2. s \in {"settle", "mark", "inspect"} /\ (s = "settle" => a.result # "none")
  OBVIOUS
<1>3. pass' = [pass EXCEPT ![p] = r]
      /\ UNCHANGED <<jobs, rsv, hist, fence, held, att, queue, probe, crashes>>
  BY <1>1 DEF PassLook
<1> HIDE DEF s
<1>4. r \in PassType /\ r.at = {t} /\ r.todo = pass[p].todo /\ r.step = s
  BY <1>1, <1>2 DEF PassType
<1> HIDE DEF r
<1>5. \A u \in r.todo \cup r.at : u.attempt <= jobs[u.job].attempt
  BY <1>4 DEF JobInv, PassOK
<1>6. r.step = "settle" => \A u \in r.at : att[u.job][u.attempt].result # "none"
  BY <1>2, <1>4
<1>7. crashes' \in 0..MaxCrash
  BY <1>3 DEF JobInv, TypeOK
<1> QED BY <1>3, <1>4, <1>5, <1>6, <1>7, PassStill

LEMMA PassInspectStep ==
    ASSUME JobInv, NEW p \in Passes, NEW t \in pass[p].todo, PassInspect(p, t)
    PROVE  JobInv'
<1>1. UNCHANGED <<jobs, rsv, hist, fence, held, att, queue, probe, crashes>>
  BY DEF PassInspect
<1>2. crashes' \in 0..MaxCrash
  BY <1>1 DEF JobInv, TypeOK
<1>3. \A u \in pass[p].todo \cup pass[p].at : u.attempt <= jobs[u.job].attempt
  BY DEF JobInv, PassOK
<1>4. PICK r \in PassType : /\ pass' = [pass EXCEPT ![p] = r]
                            /\ r.step \in {"next", "suspect"}
                            /\ r.todo \cup r.at \subseteq pass[p].todo \cup pass[p].at
  <2>1. CASE att[t.job][t.attempt].unit \in {"active", "exited"}
    BY <2>1, DoneTyped DEF PassInspect
  <2>2. CASE att[t.job][t.attempt].unit \notin {"active", "exited"}
    <3> DEFINE r == [pass[p] EXCEPT !.step = "suspect"]
    <3>1. pass[p] \in PassType
      BY PassTyped
    <3>2. r \in PassType /\ r.step = "suspect" /\ r.todo = pass[p].todo
          /\ r.at = pass[p].at
      BY <3>1 DEF PassType
    <3>3. pass' = [pass EXCEPT ![p] = r]
      BY <2>2, PassTyped DEF PassInspect
    <3> QED BY <3>2, <3>3
  <2> QED BY <2>1, <2>2
<1> QED BY <1>1, <1>2, <1>3, <1>4, PassStill

LEMMA PassEndStep ==
    ASSUME JobInv, NEW p \in Passes, PassEnd(p)
    PROVE  JobInv'
<1>1. /\ pass' = [pass EXCEPT ![p] = Resting] /\ probe' \in {probe, NoProbe}
      /\ UNCHANGED <<jobs, rsv, hist, fence, held, att, queue, crashes>>
  BY DEF PassEnd
<1>2. crashes' \in 0..MaxCrash
  BY <1>1 DEF JobInv, TypeOK
<1> QED BY <1>1, <1>2, RestingTyped, PassStill

LEMMA PassKilledStep ==
    ASSUME JobInv, NEW p \in Passes, PassKilled(p)
    PROVE  JobInv'
<1>0. TypeOK /\ QueueOK /\ PassOK /\ ProbeOK
  BY DEF JobInv
<1>1. /\ pass' = [pass EXCEPT ![p] = Resting]
      /\ crashes < MaxCrash /\ crashes' = crashes + 1
      /\ queue' \in {queue, [j \in Jobs |-> "no"]} /\ probe' \in {probe, NoProbe}
      /\ UNCHANGED <<jobs, rsv, hist, fence, held, att>>
  BY DEF PassKilled
<1>2. crashes' \in 0..MaxCrash
  BY <1>0, <1>1, JobsAssumption DEF TypeOK
<1>3. pass \in [Passes -> PassType] /\ pass' \in [Passes -> PassType]
      /\ pass'[p] = Resting /\ \A q \in Passes : q # p => pass'[q] = pass[q]
  BY <1>1, PassTyped, RestingTyped
<1>4. TypeOK'
  BY <1>0, <1>1, <1>2, <1>3 DEF TypeOK, PassType, NoProbe
<1>5. PassOK'
  BY <1>0, <1>1, <1>3, RestingTyped DEF PassOK
<1>6. QueueOK' /\ ProbeOK'
  BY <1>0, <1>1 DEF QueueOK, ProbeOK, NoProbe
<1> QED BY <1>1, <1>4, <1>5, <1>6, QuietStep

(* A job read as claimed or suspected moves whatever it is by now. *)
LEMMA PassMoveStep ==
    ASSUME JobInv, NEW p \in Passes, NEW t \in pass[p].todo,
           NEW s \in {"running", "reconciling"},
           jobs' = [jobs EXCEPT ![t.job].state = s], Disjoint(t.job),
           NEW r \in PassType, pass' = [pass EXCEPT ![p] = r],
           r.step # "settle", r.todo \cup r.at \subseteq pass[p].todo \cup pass[p].at,
           UNCHANGED <<rsv, hist, fence, held, att, queue, probe, crashes>>
    PROVE  JobInv'
<1>0. TypeOK
  BY DEF JobInv
<1>1. pass \in [Passes -> PassType] /\ t.job \in Jobs /\ jobs[t.job].attempt # 0
  BY PassTyped
<1>2. s \in Claimed /\ s \in JobStates \ {"succeeded"}
  BY DEF Claimed, JobStates
<1>3. JobMoves(t.job, s) /\ QueueShrinks
  BY <1>0, <1>1, <1>2, JobMoved, QueueStill
<1>4. PassShrinks
  BY <1>1 DEF PassShrinks
<1> QED BY <1>1, <1>2, <1>3, <1>4, MoveStep

LEMMA PassMarkStep ==
    ASSUME JobInv, NEW p \in Passes, NEW t \in pass[p].todo, PassMark(p, t)
    PROVE  JobInv'
<1>1. UNCHANGED <<rsv, hist, fence, held, att, queue, probe, crashes>>
  BY DEF PassMark
<1>2. crashes' \in 0..MaxCrash
  BY <1>1 DEF JobInv, TypeOK
<1>3. \A u \in pass[p].todo \cup pass[p].at : u.attempt <= jobs[u.job].attempt
  BY DEF JobInv, PassOK
<1>4. PICK r \in PassType :
         /\ pass' = [pass EXCEPT ![p] = r] /\ r.step # "settle"
         /\ r.todo \cup r.at \subseteq pass[p].todo \cup pass[p].at
         /\ \/ jobs' = [jobs EXCEPT ![t.job].state = "running"] /\ Disjoint(t.job)
            \/ jobs' = jobs
  <2> DEFINE r == [pass[p] EXCEPT !.step = "inspect"]
  <2>1. pass[p] \in PassType
    BY PassTyped
  <2>2. r \in PassType /\ r.step = "inspect" /\ r.todo = pass[p].todo
        /\ r.at = pass[p].at
    BY <2>1 DEF PassType
  <2>3. [pass EXCEPT ![p].step = "inspect"] = [pass EXCEPT ![p] = r]
    BY PassTyped
  <2> HIDE DEF r
  <2>4. CASE pass' = [pass EXCEPT ![p].step = "inspect"]
    BY <2>2, <2>3, <2>4 DEF PassMark
  <2>5. CASE pass' = Done(p, t) /\ jobs' = jobs
    BY <2>5, DoneTyped
  <2> QED BY <2>4, <2>5 DEF PassMark
<1>5. CASE jobs' = jobs
  BY <1>1, <1>2, <1>3, <1>4, <1>5, PassStill
<1>6. CASE jobs' = [jobs EXCEPT ![t.job].state = "running"] /\ Disjoint(t.job)
  BY <1>1, <1>4, <1>6, PassMoveStep
<1> QED BY <1>4, <1>5, <1>6

LEMMA PassSuspectStep ==
    ASSUME JobInv, NEW p \in Passes, NEW t \in pass[p].todo, PassSuspect(p, t)
    PROVE  JobInv'
<1>1. UNCHANGED <<rsv, hist, fence, held, att, queue, probe, crashes>>
  BY DEF PassSuspect
<1>2. crashes' \in 0..MaxCrash
  BY <1>1 DEF JobInv, TypeOK
<1>3. \A u \in pass[p].todo \cup pass[p].at : u.attempt <= jobs[u.job].attempt
  BY DEF JobInv, PassOK
<1>4. PICK r \in PassType :
         /\ pass' = [pass EXCEPT ![p] = r] /\ r.step # "settle"
         /\ r.todo \cup r.at \subseteq pass[p].todo \cup pass[p].at
  BY DoneTyped DEF PassSuspect
<1>5. CASE ~Disjoint(t.job)
  <2>1. jobs' = jobs
    BY <1>5 DEF PassSuspect
  <2> QED BY <1>1, <1>2, <1>3, <1>4, <2>1, PassStill
<1>6. CASE Disjoint(t.job)
  <2>1. jobs' = [jobs EXCEPT ![t.job].state = "reconciling"]
    BY <1>6 DEF PassSuspect
  <2> QED BY <1>1, <1>4, <1>6, <2>1, PassMoveStep
<1> QED BY <1>5, <1>6

(* The transaction that settles an attempt records its verdict; a verdict  *)
(* in the history is not taken back.                                       *)
LEMMA PassSettleStep ==
    ASSUME JobInv, NEW p \in Passes, NEW t \in pass[p].todo, PassSettle(p, t)
    PROVE  JobInv'
<1> DEFINE j == t.job
           n == t.attempt
           outcome == att[j][n].result
           s == StateAfter[outcome]
<1>0. TypeOK
  BY DEF JobInv
<1>1. /\ UNCHANGED <<fence, held, att, queue, probe, crashes>>
      /\ pass[p].step = "settle" /\ pass[p].at = {t} /\ pass' = Done(p, t)
  BY DEF PassSettle
<1>2. j \in Jobs /\ n \in Attempts /\ pass \in [Passes -> PassType]
  BY PassTyped
<1>3. outcome \in Outcomes
  <2>1. outcome # "none"
    BY <1>1 DEF JobInv, PassOK
  <2>2. att[j][n] \in AttemptRecord
    BY <1>0, <1>2, AttemptTyped
  <2> QED BY <2>1, <2>2 DEF AttemptRecord
<1>4. PICK r \in PassType :
         /\ pass' = [pass EXCEPT ![p] = r] /\ r.step # "settle"
         /\ r.todo \cup r.at \subseteq pass[p].todo \cup pass[p].at
  BY <1>1, DoneTyped
<1>5. CASE ~(jobs[j].attempt = n /\ jobs[j].state \in Claimed)
  <2>1. UNCHANGED <<jobs, hist, rsv>>
    BY <1>5 DEF PassSettle
  <2>2. crashes' \in 0..MaxCrash
    BY <1>0, <1>1 DEF TypeOK
  <2>3. \A u \in pass[p].todo \cup pass[p].at : u.attempt <= jobs[u.job].attempt
    BY DEF JobInv, PassOK
  <2> QED BY <1>1, <1>4, <2>1, <2>2, <2>3, PassStill
<1>6. CASE jobs[j].attempt = n /\ jobs[j].state \in Claimed
  <2>1. /\ jobs' = [jobs EXCEPT ![j].state = s]
        /\ hist' = RecordIn(j, n, outcome)
        /\ rsv' = SettleReservation(j, n, outcome)
    BY <1>6 DEF PassSettle
  <2>2. /\ outcome = "applied" => s = "succeeded"
        /\ outcome = "unknown" => s = "reconciling"
        /\ outcome \in Clean => s \in {"failed", "needs_refresh"}
    BY DEF StateAfter, Clean
  <2>3. s \in JobStates
    BY <1>3, <2>2 DEF Outcomes, JobStates, Claimed, Terminal, Clean
  <2> HIDE DEF s
  <2>4. JobMoves(j, s) /\ QueueShrinks
    BY <1>0, <1>1, <1>2, <2>1, <2>3, JobMoved, QueueStill
  <2>5. PassShrinks
    BY <1>2, <1>4 DEF PassShrinks
  <2>6. Disjoint(j)
    BY <1>2, <1>6 DEF JobInv, Apart, Disjoint, InClaim
  <2>7. n # 0
    BY <1>2, JobsAssumption DEF Attempts
  <2> HIDE DEF j, n, outcome
  <2>8. AttemptOK(att[j][n], Kind[j], hist[j][n]) /\ outcome = att[j][n].result
    BY <1>2 DEF JobInv, outcome
  <2>9. hist \in [Jobs -> [Attempts -> {"none", "unknown", "applied"}]]
        /\ rsv \in [Reservations -> {"requested", "released"} \cup Live]
    BY <1>0 DEF TypeOK
  <2>10. /\ hist' \in [Jobs -> [Attempts -> {"none", "unknown", "applied"}]]
         /\ \A k \in Jobs : \A m \in Attempts : <<k, m>> # <<j, n>> =>
               hist'[k][m] = hist[k][m]
         /\ hist'[j][n] = hist[j][n] \/ hist'[j][n] = outcome
         /\ outcome = "applied" /\ ReservationOf[j] # NoReservation =>
               hist'[j][n] = "applied"
    <3>1. CASE outcome \in {"applied", "unknown"} /\ ReservationOf[j] # NoReservation
      <4>1. hist' = [hist EXCEPT ![j] = [hist[j] EXCEPT ![n] = outcome]]
        BY <2>1, <2>9, <3>1 DEF RecordIn
      <4> QED BY <1>2, <2>9, <3>1, <4>1
    <3>2. CASE ~(outcome \in {"applied", "unknown"} /\ ReservationOf[j] # NoReservation)
      <4>1. hist' = hist
        BY <2>1, <3>2 DEF RecordIn
      <4> QED BY <2>9, <3>2, <4>1
    <3> QED BY <3>1, <3>2
  <2>11. /\ rsv' \in [Reservations -> {"requested", "released"} \cup Live]
         /\ \A v \in Reservations : rsv'[v] = "released" => rsv[v] = "released"
    <3>1. ReservationOf[j] # NoReservation => ReservationOf[j] \in Reservations
      BY <1>2, JobsAssumption
    <3>2. \/ rsv' = rsv
          \/ ReservationOf[j] # NoReservation /\
             \E x \in {"blocked_recovery", "deployed_review"} :
                rsv' = [rsv EXCEPT ![ReservationOf[j]] = x]
      BY <2>1 DEF SettleReservation
    <3> QED BY <2>9, <3>1, <3>2 DEF Live
  <2>12. HistoryGrows
    <3>1. ASSUME NEW k \in Jobs, NEW m \in Attempts
          PROVE  /\ hist[k][m] = "applied" => hist'[k][m] = "applied"
                 /\ hist'[k][m] = "applied" => att[k][m].result = "applied"
      <4>1. AttemptOK(att[k][m], Kind[k], hist[k][m])
        BY DEF JobInv
      <4>2. CASE <<k, m>> = <<j, n>>
        BY <2>8, <2>10, <4>2 DEF AttemptOK
      <4>3. CASE <<k, m>> # <<j, n>>
        BY <2>10, <4>1, <4>3 DEF AttemptOK
      <4> QED BY <4>2, <4>3
    <3> QED BY <2>10, <2>11, <3>1 DEF HistoryGrows
  <2>13. /\ s \in Claimed => jobs[j].attempt # 0 /\ Disjoint(j)
         /\ s = "succeeded" =>
              /\ jobs[j].attempt # 0
              /\ att[j][jobs[j].attempt].result = "applied"
              /\ ReservationOf[j] # NoReservation =>
                    hist'[j][jobs[j].attempt] = "applied"
         /\ s \notin Claimed \cup {"succeeded"} =>
              jobs[j].attempt = 0 \/ att[j][jobs[j].attempt].result \in Clean
    BY <1>3, <1>6, <2>2, <2>6, <2>7, <2>8, <2>10 DEF Claimed, Clean, Outcomes
  <2> QED BY <1>1, <1>2, <2>3, <2>4, <2>5, <2>12, <2>13, TransitionStep
<1> QED BY <1>5, <1>6

-----------------------------------------------------------------------------
(* Sessions and their lifecycle. *)

LEMMA SubmitStep ==
    ASSUME JobInv, NEW j \in Jobs, NEW s \in {"waiting", "canceled"},
           jobs[j].state \notin Claimed \cup Terminal,
           jobs' = [jobs EXCEPT ![j].state = s],
           UNCHANGED <<rsv, hist, fence, held, att, pass, queue, probe, crashes>>
    PROVE  JobInv'
<1>0. TypeOK /\ Current(j)
  BY DEF JobInv
<1>1. s \notin Claimed /\ s \in JobStates \ {"succeeded"}
  BY DEF Claimed, JobStates, Terminal
<1>2. JobMoves(j, s) /\ QueueShrinks /\ PassShrinks
  BY <1>0, <1>1, JobMoved, QueueStill, PassesStill
<1>3. jobs[j].attempt = 0 \/ att[j][jobs[j].attempt].result \in Clean
  BY <1>0 DEF Current, Terminal
<1> QED BY <1>1, <1>2, <1>3, MoveStep

(* A step that cancels what is not claimed and releases only reservations  *)
(* without a claimed job: whatever has an effect there has succeeded, and  *)
(* is in the history.                                                      *)
LEMMA ReleaseStep ==
    ASSUME JobInv,
           jobs' \in [Jobs -> [state : JobStates, attempt : 0..MaxAttempts]],
           \A k \in Jobs :
              \/ jobs'[k] = jobs[k]
              \/ /\ jobs'[k].attempt = jobs[k].attempt /\ jobs'[k].state = "canceled"
                 /\ jobs[k].state \notin Claimed \cup {"succeeded"},
           rsv' \in [Reservations -> {"requested", "released"} \cup Live],
           \A v \in Reservations : rsv'[v] = "released" =>
              \/ rsv[v] = "released"
              \/ \A k \in Jobs : ReservationOf[k] = v => jobs[k].state \notin Claimed,
           fence' \in [Owners -> {"none", "archive", "delete", "archived"}],
           UNCHANGED <<hist, held, att, pass, queue, probe, crashes>>
    PROVE  JobInv'
<1>0. TypeOK
  BY DEF JobInv
<1>1. TypeOK'
  BY <1>0 DEF TypeOK
<1>2. \A k \in Jobs : /\ jobs'[k].attempt = jobs[k].attempt
                      /\ jobs'[k].state \in Claimed => jobs'[k] = jobs[k]
                      /\ jobs'[k].state = "succeeded" => jobs'[k] = jobs[k]
                      /\ jobs'[k].state \notin Claimed \cup {"succeeded"} =>
                            jobs[k].state \notin Claimed \cup {"succeeded"}
  BY DEF Claimed
<1>3. \A k \in Jobs : \A m \in Attempts :
         AttemptOK(att'[k][m], Kind[k], hist'[k][m]) /\ Superseded(k, m)'
  BY <1>2 DEF JobInv, Superseded
<1>4. ASSUME NEW k \in Jobs
      PROVE  Current(k)' /\ Fresh(k)'
  <2>1. Current(k) /\ Fresh(k)
    BY DEF JobInv
  <2> QED BY <1>2, <2>1 DEF Current, Fresh
<1>5. Apart'
  BY <1>2 DEF JobInv, Apart
<1>6. QueueOK' /\ ProbeOK'
  BY <1>2 DEF JobInv, QueueOK, ProbeOK
<1>7. PassOK'
  <2>1. \A p \in Passes : \A t \in pass[p].todo \cup pass[p].at : t.job \in Jobs
    BY PassTyped
  <2> QED BY <1>2, <2>1 DEF JobInv, PassOK
<1>8. ASSUME NEW v \in Reservations PROVE ReleasedOK(v)'
  <2> SUFFICES ASSUME rsv'[v] = "released", NEW k \in Jobs, NEW m \in Attempts,
                      ReservationOf[k] = v
               PROVE  /\ att[k][m].lock = "worker" =>
                            att[k][m].phase \notin {"admitted", "intent"}
                      /\ att[k][m].effect => hist[k][m] = "applied"
    BY DEF ReleasedOK
  <2>1. CASE rsv[v] = "released"
    BY <2>1 DEF JobInv, ReleasedOK
  <2>2. CASE jobs[k].state \notin Claimed
    <3>1. att[k][m].lock # "worker"
      BY <2>2, WorkerClaimed
    <3>2. ASSUME att[k][m].effect PROVE hist[k][m] = "applied"
      <4>1. jobs[k].state = "succeeded" /\ jobs[k].attempt = m
        BY <2>2, <3>2, EffectCurrent
      <4>2. ReservationOf[k] # NoReservation
        BY JobsAssumption
      <4> QED BY <4>1, <4>2 DEF JobInv, Current
    <3> QED BY <3>1, <3>2
  <2> QED BY <2>1, <2>2
<1> QED BY <1>1, <1>3, <1>4, <1>5, <1>6, <1>7, <1>8 DEF JobInv

(* The jobs of a reservation are its holder's. *)
LEMMA OwnReservation ==
    ASSUME NEW v \in Reservations, NEW j \in Jobs, ReservationOf[j] = v
    PROVE  j \in JobsOf(HolderOf[v])
BY JobsAssumption DEF JobsOf

LEMMA FinishStep ==
    ASSUME JobInv, NEW v \in Reservations, Finish(v)
    PROVE  JobInv'
<1>0. TypeOK
  BY DEF JobInv
<1>1. /\ \A j \in JobsOf(HolderOf[v]) : jobs[j].state \notin Claimed
      /\ rsv' = [rsv EXCEPT ![v] = "released"]
      /\ UNCHANGED <<jobs, hist, fence, held, att, pass, queue, probe, crashes>>
  BY DEF Finish, Terminal, Claimed
<1>2. /\ jobs' \in [Jobs -> [state : JobStates, attempt : 0..MaxAttempts]]
      /\ rsv' \in [Reservations -> {"requested", "released"} \cup Live]
      /\ fence' \in [Owners -> {"none", "archive", "delete", "archived"}]
  BY <1>0, <1>1 DEF TypeOK
<1>3. \A w \in Reservations : rsv'[w] = "released" =>
         \/ rsv[w] = "released"
         \/ \A k \in Jobs : ReservationOf[k] = w => jobs[k].state \notin Claimed
  <2>1. \A w \in Reservations \ {v} : rsv'[w] = rsv[w]
    BY <1>0, <1>1 DEF TypeOK
  <2>2. \A k \in Jobs : ReservationOf[k] = v => jobs[k].state \notin Claimed
    BY <1>1, OwnReservation
  <2> QED BY <2>1, <2>2
<1>4. \A k \in Jobs : jobs'[k] = jobs[k]
  BY <1>1
<1> QED BY <1>1, <1>2, <1>3, <1>4, ReleaseStep

LEMMA FenceStep ==
    ASSUME JobInv, NEW o \in Owners, NEW command \in {"archive", "delete"},
           Fence(o, command)
    PROVE  JobInv'
<1>0. TypeOK
  BY DEF JobInv
<1>1. /\ fence' = [fence EXCEPT ![o] = command]
      /\ UNCHANGED <<hist, held, att, pass, queue, probe, crashes>>
      /\ \A j \in JobsOf(o) : jobs[j].state \notin Claimed
  BY DEF Fence, IdleOwner, InClaim, JobsOf
<1>2. /\ jobs' \in [Jobs -> [state : JobStates, attempt : 0..MaxAttempts]]
      /\ \A k \in Jobs :
            \/ jobs'[k] = jobs[k]
            \/ /\ jobs'[k].attempt = jobs[k].attempt /\ jobs'[k].state = "canceled"
               /\ jobs[k].state \notin Claimed \cup {"succeeded"}
  <2> DEFINE R == [state : JobStates, attempt : 0..MaxAttempts]
             moved(k) == [jobs[k] EXCEPT !.state = "canceled"]
             cut(k) == OwnerOf[k] = o /\ jobs[k].state \notin Terminal \cup {"absent"}
  <2>1. \A k \in Jobs : jobs[k] \in R
    BY <1>0 DEF TypeOK
  <2>2. \A k \in Jobs : moved(k) \in R /\ moved(k).state = "canceled"
                        /\ moved(k).attempt = jobs[k].attempt
    BY <2>1 DEF JobStates, Terminal
  <2>3. jobs' = [k \in Jobs |-> IF cut(k) THEN moved(k) ELSE jobs[k]]
    BY DEF Fence
  <2>4. \A k \in Jobs : cut(k) => jobs[k].state \notin Claimed \cup {"succeeded"}
    BY <1>1 DEF JobsOf, Terminal
  <2> HIDE DEF moved, cut, R
  <2>5. \A k \in Jobs : jobs'[k] = IF cut(k) THEN moved(k) ELSE jobs[k]
    BY <2>3
  <2>6. jobs' \in [Jobs -> R]
    BY <2>1, <2>2, <2>3
  <2> QED BY <2>2, <2>4, <2>5, <2>6 DEF R
<1>3. rsv' \in [Reservations -> {"requested", "released"} \cup Live]
      /\ \A v \in Reservations : HolderOf[v] # o => rsv'[v] = rsv[v]
  BY <1>0 DEF Fence, TypeOK, Live
<1>4. \A v \in Reservations : rsv'[v] = "released" =>
         \/ rsv[v] = "released"
         \/ \A k \in Jobs : ReservationOf[k] = v => jobs[k].state \notin Claimed
  BY <1>1, <1>3, OwnReservation
<1>5. fence' \in [Owners -> {"none", "archive", "delete", "archived"}]
  BY <1>0, <1>1 DEF TypeOK
<1> QED BY <1>1, <1>2, <1>3, <1>4, <1>5, ReleaseStep

LEMMA ArchiveCompletedStep ==
    ASSUME JobInv, NEW o \in Owners, ArchiveCompleted(o)
    PROVE  JobInv'
<1>0. TypeOK
  BY DEF JobInv
<1>1. /\ fence' = [fence EXCEPT ![o] = "archived"]
      /\ rsv' = [v \in Reservations |->
                   IF HolderOf[v] = o THEN "released" ELSE rsv[v]]
      /\ UNCHANGED <<jobs, hist, held, att, pass, queue, probe, crashes>>
      /\ \A j \in JobsOf(o) : jobs[j].state \notin Claimed
  BY DEF ArchiveCompleted, IdleOwner, InClaim, JobsOf
<1>2. /\ jobs' \in [Jobs -> [state : JobStates, attempt : 0..MaxAttempts]]
      /\ rsv' \in [Reservations -> {"requested", "released"} \cup Live]
      /\ fence' \in [Owners -> {"none", "archive", "delete", "archived"}]
  BY <1>0, <1>1 DEF TypeOK
<1>3. \A v \in Reservations : rsv'[v] = "released" =>
         \/ rsv[v] = "released"
         \/ \A k \in Jobs : ReservationOf[k] = v => jobs[k].state \notin Claimed
  BY <1>1, OwnReservation
<1>4. \A k \in Jobs : jobs'[k] = jobs[k]
  BY <1>1
<1> QED BY <1>1, <1>2, <1>3, <1>4, ReleaseStep

(* The claims of other sessions: none is granted under a claimed job. *)
LEMMA HeldStep ==
    ASSUME JobInv, NEW x \in Wanted, GrantClaim(x) \/ DropClaim(x)
    PROVE  JobInv'
<1>0. TypeOK
  BY DEF JobInv
<1>1. UNCHANGED <<jobs, rsv, hist, fence, att, pass, queue, probe, crashes>>
  BY DEF GrantClaim, DropClaim
<1>2. TypeOK'
  BY <1>0, <1>1 DEF TypeOK, GrantClaim, DropClaim
<1>3. ASSUME NEW k \in Jobs
      PROVE  Current(k)' /\ Fresh(k)'
  <2>1. Current(k) /\ Fresh(k)
    BY DEF JobInv
  <2>2. jobs[k].state \in Claimed => held' \cap Uses[k] \subseteq held \cap Uses[k]
    <3>1. CASE DropClaim(x)
      BY <3>1 DEF DropClaim
    <3>2. CASE GrantClaim(x)
      <4>1. jobs[k].state \in Claimed => x \notin Uses[k]
        BY <3>2 DEF GrantClaim, JobResources, InClaim
      <4> QED BY <3>2, <4>1 DEF GrantClaim
    <3> QED BY <3>1, <3>2
  <2> QED BY <1>1, <2>1, <2>2 DEF Current, Fresh
<1>4. \A k \in Jobs : \A m \in Attempts :
         AttemptOK(att'[k][m], Kind[k], hist'[k][m]) /\ Superseded(k, m)'
  BY <1>1 DEF JobInv, Superseded
<1>5. Apart' /\ QueueOK' /\ PassOK' /\ ProbeOK'
  BY <1>1 DEF JobInv, Apart, QueueOK, PassOK, ProbeOK
<1>6. \A v \in Reservations : ReleasedOK(v)'
  BY <1>1 DEF JobInv, ReleasedOK
<1> QED BY <1>2, <1>3, <1>4, <1>5, <1>6 DEF JobInv

(* A claim begins attempts that never ran, for jobs whose earlier attempts *)
(* changed nothing.                                                        *)
LEMMA ClaimStep ==
    ASSUME JobInv, NEW o \in Owners, NEW S \in SUBSET JobsOf(o), Claim(o, S)
    PROVE  JobInv'
<1>0. TypeOK
  BY DEF JobInv
<1>1. UNCHANGED <<hist, fence, held, att, pass, probe, crashes>>
  BY DEF Claim
<1>2. S \subseteq Jobs
  BY DEF JobsOf
<1>3. \A j \in S :
         /\ jobs[j].state = "waiting" /\ jobs[j].attempt < MaxAttempts
         /\ Uses[j] \cap (held \cup JobResources) = {}
  BY DEF Claim, Ready
<1>4. \A j, k \in S : j # k => Uses[j] \cap Uses[k] = {}
  BY DEF Claim
<1>5. \A k \in Jobs : jobs[k].attempt \in 0..MaxAttempts /\ jobs[k].state \in JobStates
  BY <1>0, JobTyped
<1>6. /\ jobs' \in [Jobs -> [state : JobStates, attempt : 0..MaxAttempts]]
      /\ \A k \in Jobs \ S : jobs'[k] = jobs[k]
      /\ \A k \in S : jobs'[k].state = "claimed" /\ jobs'[k].attempt = jobs[k].attempt + 1
  <2> DEFINE R == [state : JobStates, attempt : 0..MaxAttempts]
             new(k) == [state |-> "claimed", attempt |-> jobs[k].attempt + 1]
  <2>1. jobs' = [j \in Jobs |-> IF j \in S THEN new(j) ELSE jobs[j]]
    BY DEF Claim
  <2>2. \A k \in S : new(k) \in R
    BY <1>2, <1>3, <1>5, JobsAssumption DEF JobStates, Claimed
  <2>3. \A k \in Jobs : jobs[k] \in R
    BY <1>0, JobTyped
  <2>4. \A k \in S : new(k).state = "claimed" /\ new(k).attempt = jobs[k].attempt + 1
    OBVIOUS
  <2> HIDE DEF new, R
  <2>5. jobs' \in [Jobs -> R]
    BY <2>1, <2>2, <2>3
  <2> QED BY <1>2, <2>1, <2>4, <2>5 DEF R
<1>7. /\ rsv' \in [Reservations -> {"requested", "released"} \cup Live]
      /\ \A v \in Reservations : rsv'[v] = "released" => rsv[v] = "released"
  BY <1>0 DEF Claim, TypeOK, Live
<1>8. /\ queue' \in [Jobs -> {"no", "request", "run", "uncertain"}]
      /\ \A k \in Jobs \ S : queue'[k] = queue[k]
      /\ \A k \in S : queue'[k] = "request"
  BY <1>0, <1>2 DEF Claim, TypeOK
<1>9. TypeOK'
  BY <1>0, <1>1, <1>6, <1>7, <1>8 DEF TypeOK
<1>10. \A k \in Jobs : jobs[k].attempt <= jobs'[k].attempt
  BY <1>5, <1>6
<1>11. ASSUME NEW k \in Jobs, NEW m \in Attempts
       PROVE  AttemptOK(att'[k][m], Kind[k], hist'[k][m]) /\ Superseded(k, m)'
  <2>1. AttemptOK(att[k][m], Kind[k], hist[k][m]) /\ Superseded(k, m) /\ Current(k)
    BY DEF JobInv
  <2>2. m \in Int /\ jobs[k].attempt \in Int
    BY <1>5, JobsAssumption DEF Attempts
  <2>3. CASE k \in S
    <3>1. jobs[k].attempt = 0 \/ att[k][jobs[k].attempt].result \in Clean
      BY <1>3, <2>1, <2>3 DEF Current, Claimed
    <3>2. m < jobs'[k].attempt => m < jobs[k].attempt \/ m = jobs[k].attempt
      BY <1>6, <2>2, <2>3
    <3>3. m # 0
      BY JobsAssumption DEF Attempts
    <3>4. m > jobs'[k].attempt => m > jobs[k].attempt
      BY <1>6, <2>2, <2>3
    <3> QED BY <1>1, <2>1, <3>1, <3>2, <3>3, <3>4 DEF Superseded
  <2>4. CASE k \notin S
    BY <1>1, <1>6, <2>1, <2>4 DEF Superseded
  <2> QED BY <2>3, <2>4
<1>12. ASSUME NEW k \in Jobs
       PROVE  Current(k)' /\ Fresh(k)'
  <2>1. Current(k) /\ Fresh(k)
    BY DEF JobInv
  <2>2. CASE k \in S
    <3>1. jobs'[k].attempt # 0 /\ jobs'[k].state = "claimed"
      BY <1>2, <1>5, <1>6, <2>2
    <3>2. Uses[k] \cap held = {}
      BY <1>3, <2>2
    <3> QED BY <1>1, <3>1, <3>2 DEF Current, Fresh, Claimed
  <2>3. CASE k \notin S
    BY <1>1, <1>6, <2>1, <2>3 DEF Current, Fresh
  <2> QED BY <2>2, <2>3
<1>13. Apart'
  <2>1. \A j \in S, k \in Jobs : jobs[k].state \in Claimed => Uses[j] \cap Uses[k] = {}
    BY <1>3 DEF JobResources, InClaim
  <2> SUFFICES ASSUME NEW j \in Jobs, NEW k \in Jobs, j # k,
                      jobs'[j].state \in Claimed, jobs'[k].state \in Claimed
               PROVE  Uses[j] \cap Uses[k] = {}
    BY DEF Apart
  <2>2. CASE j \in S /\ k \in S
    BY <1>4, <2>2
  <2>3. CASE j \in S /\ k \notin S
    BY <1>6, <2>1, <2>3
  <2>4. CASE j \notin S /\ k \in S
    BY <1>6, <2>1, <2>4
  <2>5. CASE j \notin S /\ k \notin S
    BY <1>6, <2>5 DEF JobInv, Apart
  <2> QED BY <2>2, <2>3, <2>4, <2>5
<1>14. QueueOK'
  <2> SUFFICES ASSUME NEW k \in Jobs
               PROVE  /\ queue'[k] # "no" => jobs'[k].attempt # 0
                      /\ queue'[k] \in {"request", "run"} =>
                            att[k][jobs'[k].attempt].unit = "none"
    BY <1>1 DEF QueueOK
  <2>1. CASE k \notin S
    BY <1>6, <1>8, <2>1 DEF JobInv, QueueOK
  <2>2. CASE k \in S
    <3>1. jobs'[k].attempt \in Attempts /\ jobs'[k].attempt > jobs[k].attempt
          /\ jobs'[k].attempt # 0
      BY <1>3, <1>5, <1>6, <2>2, JobsAssumption DEF Attempts
    <3> QED BY <3>1 DEF JobInv, Superseded
  <2> QED BY <2>1, <2>2
<1>15. PassOK'
  <2>1. \A p \in Passes : \A t \in pass[p].todo \cup pass[p].at :
           /\ t.job \in Jobs /\ t.attempt \in Attempts
           /\ t.attempt <= jobs[t.job].attempt
    BY PassTyped DEF JobInv, PassOK
  <2>2. \A p \in Passes : \A t \in pass[p].todo \cup pass[p].at :
           t.attempt <= jobs'[t.job].attempt
    <3> SUFFICES ASSUME NEW p \in Passes, NEW t \in pass[p].todo \cup pass[p].at
                 PROVE  t.attempt <= jobs'[t.job].attempt
      OBVIOUS
    <3>1. t.attempt \in Int /\ jobs[t.job].attempt \in Int
          /\ jobs'[t.job].attempt \in Int
      BY <1>5, <1>6, <2>1, JobsAssumption DEF Attempts
    <3> QED BY <1>10, <2>1, <3>1
  <2> QED BY <1>1, <2>2 DEF JobInv, PassOK
<1>16. ProbeOK'
  BY <1>1 DEF JobInv, ProbeOK
<1>17. \A v \in Reservations : ReleasedOK(v)'
  BY <1>1, <1>7 DEF JobInv, ReleasedOK
<1> QED BY <1>9, <1>11, <1>12, <1>13, <1>14, <1>15, <1>16, <1>17 DEF JobInv

-----------------------------------------------------------------------------
(* The theorems. *)

LEMMA JobInit == Init => JobInv
<1> SUFFICES ASSUME Init PROVE JobInv
  OBVIOUS
<1>1. TypeOK
  BY JobsAssumption DEF Init, TypeOK, AttemptRecord, JobStates, Resting, NoProbe
<1>2. \A j \in Jobs : \A n \in Attempts :
         AttemptOK(att[j][n], Kind[j], hist[j][n]) /\ Superseded(j, n)
  <2> SUFFICES ASSUME NEW j \in Jobs, NEW n \in Attempts
               PROVE  AttemptOK(att[j][n], Kind[j], hist[j][n]) /\ Superseded(j, n)
    OBVIOUS
  <2>1. /\ att[j][n] = [request |-> FALSE, phase |-> "none", result |-> "none",
                        lock |-> "free", unit |-> "none", effect |-> FALSE]
        /\ hist[j][n] = "none" /\ jobs[j].attempt = 0 /\ n > 0
    BY JobsAssumption DEF Init, Attempts
  <2> QED BY <2>1, JobsAssumption DEF AttemptOK, Superseded, Clean, Attempts
<1>3. \A j \in Jobs : jobs[j].state = "absent" /\ jobs[j].attempt = 0
  BY DEF Init
<1>4. \A j \in Jobs : Current(j) /\ Fresh(j)
  BY <1>3 DEF Current, Fresh, Claimed
<1>5. Apart
  BY <1>3 DEF Apart, Claimed
<1>6. QueueOK /\ PassOK /\ ProbeOK
  BY DEF Init, QueueOK, PassOK, ProbeOK, Resting, NoProbe
<1>7. \A v \in Reservations : ReleasedOK(v)
  BY DEF Init, ReleasedOK
<1> QED BY <1>1, <1>2, <1>4, <1>5, <1>6, <1>7 DEF JobInv

LEMMA JobNext == JobInv /\ [Next]_vars => JobInv'
<1> SUFFICES ASSUME JobInv, [Next]_vars PROVE JobInv'
  OBVIOUS
<1>1. CASE Session
  <2>1. ASSUME NEW j \in Jobs, Submit(j) PROVE JobInv'
    BY <2>1, SubmitStep DEF Submit, Claimed, Terminal
  <2>2. ASSUME NEW j \in Jobs, Refresh(j) \/ Cancel(j) PROVE JobInv'
    BY <2>2, SubmitStep DEF Refresh, Cancel, Change
  <2> QED BY <1>1, <2>1, <2>2, FinishStep DEF Session
<1>2. CASE Host
  BY <1>2, FenceStep, ArchiveCompletedStep, HeldStep DEF Host
<1>3. CASE Scheduler
  BY <1>3, ClaimStep, DispatchRequestStep, DispatchUncertainStep, DispatchRunStep
     DEF Scheduler
<1>4. CASE Worker
  <2> SUFFICES ASSUME NEW j \in Jobs, NEW n \in Attempts,
                      \/ WorkerStart(j, n) \/ Admit(j, n) \/ Intent(j, n)
                      \/ Effect(j, n) \/ Verify(j, n) \/ WorkerCrash(j, n)
                      \/ \E outcome \in Outcomes : WorkerResult(j, n, outcome)
               PROVE  JobInv'
    BY <1>4 DEF Worker
  <2>1. CASE Admit(j, n)
    BY <2>1, PhaseStep DEF Admit
  <2>2. CASE Intent(j, n)
    BY <2>2, PhaseStep DEF Intent
  <2>3. CASE Verify(j, n)
    BY <2>3, PhaseStep DEF Verify
  <2> QED BY <2>1, <2>2, <2>3, WorkerStartStep, EffectStep, WorkerCrashStep,
             WorkerResultStep
<1>5. CASE Probe
  BY <1>5, ProbeReadStep, ProbeLockTaken, ProbeErrorStep, ProbeResultStep DEF Probe
<1>6. ASSUME NEW p \in Passes, PassStep(p) PROVE JobInv'
  BY <1>6, PassStartStep, PassEndStep, PassLookStep, PassSettleStep, PassMarkStep,
     PassInspectStep, PassSuspectStep DEF PassStep
<1>7. ASSUME NEW p \in Passes, PassKilled(p) PROVE JobInv'
  BY <1>7, PassKilledStep
<1>8. CASE UNCHANGED vars
  <2>1. TypeOK' /\ QueueOK' /\ PassOK' /\ ProbeOK'
    BY <1>8 DEF vars, JobInv, TypeOK, QueueOK, PassOK, ProbeOK
  <2> QED BY <1>8, <2>1, QuietStep DEF vars
<1> QED BY <1>1, <1>2, <1>3, <1>4, <1>5, <1>6, <1>7, <1>8 DEF Next

LEMMA JobInvariant == Spec => []JobInv
BY JobInit, JobNext, PTL DEF Spec

(* MutatorsExclude for every instance: a worker past admission is the one  *)
(* of its job's claim and shares no resource with a claim or with another  *)
(* worker, whatever stale passes and lost answers have done to the ledger. *)
THEOREM WorkersAlone == Spec => []MutatorsExclude
BY JobInvariant, InvExclude, PTL

(* VerdictsTrue for every instance: what result.json and the ledger say of *)
(* an attempt agrees with its effect and keeps agreeing.                   *)
THEOREM TrueVerdicts == Spec => []VerdictsTrue
BY JobInvariant, InvVerdicts, PTL

(* ReleasedIsSettled for every instance: nobody works under a released     *)
(* reservation, and its history has every effect on the machine.           *)
THEOREM ReleasedClean == Spec => []ReleasedIsSettled
BY JobInvariant, InvReleased, PTL

=============================================================================
