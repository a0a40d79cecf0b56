---------------------------- MODULE RetainedJobs ----------------------------
(***************************************************************************)
(* Retained jobs: libexec/workspace-coordination-execution.rb and the job  *)
(* part of libexec/workspace-coordination.rb.                              *)
(*                                                                         *)
(* A job is a merge, a machine activation or a profile activation.  The    *)
(* scheduler claims its resources in the ledger, writes an attempt         *)
(* directory and starts a worker as a systemd unit of its own; the worker  *)
(* leaves phase.json and result.json behind.  reconcile_attempts, run by   *)
(* the scheduler and by every reconciliation process, reads those files    *)
(* and moves the job on.  A reconciliation process first probes the effect *)
(* of one interrupted attempt under the attempt's worker.lock.             *)
(*                                                                         *)
(* The ledger is read and written by one transaction at a time; the files, *)
(* the units and the effects are not, so what a pass has read may be stale *)
(* when its transaction runs.                                              *)
(***************************************************************************)
EXTENDS Integers, FiniteSets

CONSTANTS
    Jobs,           \* job ids
    Owners,         \* session incarnations
    Reservations,   \* machine reservation ids
    Resources,      \* canonical resource keys
    Wanted,         \* those other sessions claim for themselves
    OwnerOf,        \* the owner of a job
    Kind,           \* merge, machine or profile
    Uses,           \* the resources of a job's snapshot
    DependsOn,      \* earlier jobs of the same owner
    ReservationOf,  \* the reservation of a deployment
    HolderOf,       \* the owner of a reservation
    MachineOf,      \* the machine of a reservation, a resource
    NoReservation,
    Slots,          \* 4: jobs that may execute at a time
    MaxAttempts,    \* bound: attempts of one job
    MaxCrash        \* bound: processes that die

Kinds == {"merge", "machine", "profile"}
Attempts == 1..MaxAttempts

ASSUME JobsAssumption ==
    /\ IsFiniteSet(Jobs)
    /\ OwnerOf \in [Jobs -> Owners]
    /\ Kind \in [Jobs -> Kinds]
    /\ Wanted \subseteq Resources
    /\ Uses \in [Jobs -> SUBSET Resources]
    /\ DependsOn \in [Jobs -> SUBSET Jobs]
    /\ ReservationOf \in [Jobs -> Reservations \cup {NoReservation}]
    /\ HolderOf \in [Reservations -> Owners]
    /\ MachineOf \in [Reservations -> Resources]
    /\ NoReservation \notin Reservations
    /\ \A j \in Jobs : Kind[j] = "merge" <=> ReservationOf[j] = NoReservation
    /\ \A j \in Jobs : ReservationOf[j] # NoReservation =>
                        HolderOf[ReservationOf[j]] = OwnerOf[j]
    /\ Slots \in Nat /\ MaxAttempts \in Nat \ {0} /\ MaxCrash \in Nat

VARIABLES
    jobs,       \* ledger: state and current attempt of every job
    rsv,        \* ledger: the state of every reservation
    hist,       \* ledger: what a reservation's history says of an attempt
    fence,      \* ledger: the lifecycle fence of every owner
    held,       \* claims.json: resources of held claims (module ResourceClaims)
    att,        \* the attempt directories, their units and their effects
    pass,       \* who is inside reconcile_attempts, and what it has read
    queue,      \* the scheduler: claimed jobs it has still to dispatch
    probe,      \* the reconciliation process
    crashes

vars == <<jobs, rsv, hist, fence, held, att, pass, queue, probe, crashes>>

Terminal == {"succeeded", "failed", "canceled"}
Claimed == {"claimed", "running", "reconciling"}
JobStates == {"absent", "waiting", "needs_refresh"} \cup Claimed \cup Terminal
Live == {"held", "deployed_review", "blocked_recovery"}
Outcomes == {"applied", "not_applied", "baseline_changed", "unknown"}
Passes == {"scheduler", "probe"}
Seen == [job : Jobs, attempt : Attempts, state : Claimed]

Resting == [step |-> "rest", todo |-> {}, at |-> {}]
NoProbe == [step |-> "rest", at |-> {}]

(* An attempt directory and its unit.  The unit keeps "exited" after a     *)
(* normal end (RemainAfterExit) and is "failed" after any other.           *)
AttemptRecord ==
    [request : BOOLEAN, phase : {"none", "admitted", "intent", "verified"},
     result : Outcomes \cup {"none"}, lock : {"free", "worker", "probe"},
     unit : {"none", "active", "exited", "failed"}, effect : BOOLEAN]

(* One state of the ledger, the attempt directories and the processes. *)
TypeOK ==
    /\ jobs \in [Jobs -> [state : JobStates, attempt : 0..MaxAttempts]]
    /\ rsv \in [Reservations -> {"requested", "released"} \cup Live]
    /\ hist \in [Jobs -> [Attempts -> {"none", "unknown", "applied"}]]
    /\ fence \in [Owners -> {"none", "archive", "delete", "archived"}]
    /\ held \in SUBSET Wanted
    /\ att \in [Jobs -> [Attempts -> AttemptRecord]]
    /\ pass \in [Passes -> [step : {"rest", "next", "settle", "mark",
                                    "inspect", "suspect"},
                            todo : SUBSET Seen, at : SUBSET Seen]]
    /\ queue \in [Jobs -> {"no", "request", "run", "uncertain"}]
    /\ probe \in [step : {"rest", "read", "locked", "pass"},
                  at : SUBSET (Jobs \X Attempts)]
    /\ crashes \in 0..MaxCrash

Init ==
    /\ jobs = [j \in Jobs |-> [state |-> "absent", attempt |-> 0]]
    /\ rsv = [v \in Reservations |-> "requested"]
    /\ hist = [j \in Jobs |-> [n \in Attempts |-> "none"]]
    /\ fence = [o \in Owners |-> "none"]
    /\ held = {}
    /\ att = [j \in Jobs |-> [n \in Attempts |->
                [request |-> FALSE, phase |-> "none", result |-> "none",
                 lock |-> "free", unit |-> "none", effect |-> FALSE]]]
    /\ pass = [p \in Passes |-> Resting]
    /\ queue = [j \in Jobs |-> "no"]
    /\ probe = NoProbe
    /\ crashes = 0

-----------------------------------------------------------------------------
(* What the code reads in the ledger. *)

InClaim == {j \in Jobs : jobs[j].state \in Claimed}
JobResources == UNION {Uses[j] : j \in InClaim}
LiveMachines == {MachineOf[v] : v \in {w \in Reservations : rsv[w] \in Live}}

(* validate!: the resources of claimed jobs do not overlap. *)
Disjoint(j) == \A k \in InClaim \ {j} : Uses[j] \cap Uses[k] = {}

JobsOf(o) == {j \in Jobs : OwnerOf[j] = o}
OfReservation(v) == {j \in Jobs : ReservationOf[j] = v}
Dispatching == \E j \in Jobs : queue[j] # "no"

-----------------------------------------------------------------------------
(* Session commands. *)

(* mutate "submit", after its reservation was requested. *)
Submit(j) ==
    /\ fence[OwnerOf[j]] = "none"
    /\ jobs[j].state = "absent"
    /\ \A d \in DependsOn[j] : jobs[d].state # "absent"
    /\ ReservationOf[j] # NoReservation => rsv[ReservationOf[j]] # "released"
    /\ jobs' = [jobs EXCEPT ![j].state = "waiting"]
    /\ UNCHANGED <<rsv, hist, fence, held, att, pass, queue, probe, crashes>>

(* mutate "refresh" and "cancel": not while claimed, not once terminal. *)
Change(j, state) ==
    /\ fence[OwnerOf[j]] = "none"
    /\ jobs[j].state \notin Claimed \cup Terminal \cup {"absent"}
    /\ jobs' = [jobs EXCEPT ![j].state = state]
    /\ UNCHANGED <<rsv, hist, fence, held, att, pass, queue, probe, crashes>>

Refresh(j) == Change(j, "waiting")
Cancel(j) == Change(j, "canceled")

FinishStopped(v) ==
    /\ fence[HolderOf[v]] = "none"
    /\ rsv[v] # "released"
    /\ \A j \in JobsOf(HolderOf[v]) : jobs[j].state \notin {"claimed", "running"}
    /\ rsv' = [rsv EXCEPT ![v] = "released"]
    /\ UNCHANGED <<jobs, hist, fence, held, att, pass, queue, probe, crashes>>

(* finish, in its last transaction: every job of the owner is settled. *)
Finish(v) ==
    /\ fence[HolderOf[v]] = "none"
    /\ rsv[v] \notin {"released", "blocked_recovery"}
    /\ \A j \in JobsOf(HolderOf[v]) : jobs[j].state \in Terminal \cup {"absent"}
    /\ rsv' = [rsv EXCEPT ![v] = "released"]
    /\ UNCHANGED <<jobs, hist, fence, held, att, pass, queue, probe, crashes>>

-----------------------------------------------------------------------------
(* Lifecycle operations and resource claims, as far as they touch jobs. *)

(* require_idle_owners! *)
IdleOwner(o) ==
    /\ JobsOf(o) \cap InClaim = {}
    /\ \A j \in JobsOf(o) : \A n \in Attempts :
          hist[j][n] = "unknown" => rsv[ReservationOf[j]] = "released"

(* fence_owners! cancels what is queued and blocks what was deployed. *)
Fence(o, command) ==
    /\ fence[o] = "none" \/ (fence[o] = "archived" /\ command = "delete")
    /\ IdleOwner(o)
    /\ fence' = [fence EXCEPT ![o] = command]
    /\ jobs' = [j \in Jobs |->
                  IF OwnerOf[j] = o /\ jobs[j].state \notin Terminal \cup {"absent"}
                  THEN [jobs[j] EXCEPT !.state = "canceled"] ELSE jobs[j]]
    /\ rsv' = [v \in Reservations |->
                 IF HolderOf[v] # o \/ rsv[v] = "released" THEN rsv[v]
                 ELSE IF command = "archive"
                 THEN IF rsv[v] = "requested" THEN "requested"
                      ELSE "blocked_recovery"
                 ELSE IF \A j \in OfReservation(v) : \A n \in Attempts :
                            hist[j][n] = "none"
                      THEN "released" ELSE "blocked_recovery"]
    /\ UNCHANGED <<hist, held, att, pass, queue, probe, crashes>>

(* lifecycle_completed of an archive releases the owner's reservations. *)
ArchiveCompleted(o) ==
    /\ fence[o] = "archive"
    /\ IdleOwner(o)
    /\ fence' = [fence EXCEPT ![o] = "archived"]
    /\ rsv' = [v \in Reservations |->
                 IF HolderOf[v] = o THEN "released" ELSE rsv[v]]
    /\ UNCHANGED <<jobs, hist, held, att, pass, queue, probe, crashes>>

(* A claim is granted where no claimed job and no reservation is, and is   *)
(* given back later.                                                       *)
GrantClaim(x) ==
    /\ x \notin held \cup JobResources \cup LiveMachines
    /\ held' = held \cup {x}
    /\ UNCHANGED <<jobs, rsv, hist, fence, att, pass, queue, probe, crashes>>

DropClaim(x) ==
    /\ x \in held
    /\ held' = held \ {x}
    /\ UNCHANGED <<jobs, rsv, hist, fence, att, pass, queue, probe, crashes>>

-----------------------------------------------------------------------------
(* The scheduler claims and dispatches. *)

ReadyOverClaims(j) ==
    /\ jobs[j].state = "waiting"
    /\ fence[OwnerOf[j]] = "none"
    /\ \A d \in DependsOn[j] : jobs[d].state = "succeeded"
    /\ Uses[j] \cap JobResources = {}

(* claim_ready: the dependencies succeeded, the machine is not owned by    *)
(* another reservation or blocked, no held claim and no claimed job is in  *)
(* the way.                                                                *)
Ready(j) ==
    /\ jobs[j].state = "waiting"
    /\ fence[OwnerOf[j]] = "none"
    /\ \A d \in DependsOn[j] : jobs[d].state = "succeeded"
    /\ ReservationOf[j] # NoReservation =>
          /\ rsv[ReservationOf[j]] # "blocked_recovery"
          /\ \A v \in Reservations \ {ReservationOf[j]} :
                MachineOf[v] = MachineOf[ReservationOf[j]] => rsv[v] \notin Live
    /\ Uses[j] \cap (held \cup JobResources) = {}

Executing == {j \in Jobs : jobs[j].state \in {"claimed", "running"}}

(* One transaction claims ready jobs of one owner for new attempts. *)
Claim(o, S) ==
    /\ pass["scheduler"] = Resting /\ ~Dispatching
    /\ S # {} /\ Cardinality(S) + Cardinality(Executing) <= Slots
    /\ \A j \in S : Ready(j) /\ jobs[j].attempt < MaxAttempts
    /\ \A j, k \in S : j # k => Uses[j] \cap Uses[k] = {}
    /\ jobs' = [j \in Jobs |->
                  IF j \in S
                  THEN [state |-> "claimed", attempt |-> jobs[j].attempt + 1]
                  ELSE jobs[j]]
    /\ rsv' = [v \in Reservations |->
                 IF rsv[v] = "requested" /\ OfReservation(v) \cap S # {}
                 THEN "held" ELSE rsv[v]]
    /\ queue' = [j \in Jobs |-> IF j \in S THEN "request" ELSE queue[j]]
    /\ UNCHANGED <<hist, fence, held, att, pass, probe, crashes>>

(* dispatch: request.json, then systemd-run.  Whether the unit started and *)
(* whether the answer arrived are two questions.                           *)
DispatchRequest(j) ==
    /\ queue[j] = "request"
    /\ queue' = [queue EXCEPT ![j] = "run"]
    /\ att' = [att EXCEPT ![j][jobs[j].attempt].request = TRUE]
    /\ UNCHANGED <<jobs, rsv, hist, fence, held, pass, probe, crashes>>

DispatchRun(j, started, answered) ==
    /\ queue[j] = "run"
    /\ answered => started
    /\ queue' = [queue EXCEPT ![j] = IF answered THEN "no" ELSE "uncertain"]
    /\ att' = IF started
              THEN [att EXCEPT ![j][jobs[j].attempt].unit = "active"] ELSE att
    /\ UNCHANGED <<jobs, rsv, hist, fence, held, pass, probe, crashes>>

(* The rescue of dispatch marks the job whatever has become of it; when    *)
(* the ledger refuses, the error ends the owner's round.                   *)
DispatchUncertain(j) ==
    /\ queue[j] = "uncertain"
    /\ IF Disjoint(j)
       THEN /\ jobs' = [jobs EXCEPT ![j].state = "reconciling"]
            /\ queue' = [queue EXCEPT ![j] = "no"]
       ELSE /\ queue' = [k \in Jobs |-> "no"]
            /\ UNCHANGED jobs
    /\ UNCHANGED <<rsv, hist, fence, held, att, pass, probe, crashes>>

-----------------------------------------------------------------------------
(* The worker of attempt n of job j: Worker#run. *)

Working(j, n) == att[j][n].unit = "active" /\ att[j][n].lock = "worker"

(* The worker takes worker.lock without waiting, and no attempt with a     *)
(* result runs again.                                                      *)
MayStart(j, n) == att[j][n].lock = "free" /\ att[j][n].result = "none"

WorkerStart(j, n) ==
    /\ att[j][n].unit = "active" /\ att[j][n].lock # "worker"
    /\ att' = IF MayStart(j, n)
              THEN [att EXCEPT ![j][n].lock = "worker"]
              ELSE [att EXCEPT ![j][n].unit = "failed"]
    /\ UNCHANGED <<jobs, rsv, hist, fence, held, pass, queue, probe, crashes>>

(* The ledger's part of admit! *)
Admissible(j, n) ==
    /\ jobs[j].attempt = n
    /\ jobs[j].state \in Claimed
    /\ fence[OwnerOf[j]] = "none"
    /\ ReservationOf[j] # NoReservation =>
          rsv[ReservationOf[j]] \in {"held", "deployed_review"}

Phase(j, n, from, to) ==
    /\ Working(j, n)
    /\ att[j][n].phase = from
    /\ att' = [att EXCEPT ![j][n].phase = to]
    /\ UNCHANGED <<jobs, rsv, hist, fence, held, pass, queue, probe, crashes>>

Admit(j, n) == Admissible(j, n) /\ Phase(j, n, "none", "admitted")
Intent(j, n) == Phase(j, n, "admitted", "intent")
Verify(j, n) ==
    Kind[j] # "machine" /\ att[j][n].effect /\ Phase(j, n, "intent", "verified")

(* The push, the activation: it happens while the intent is on disk. *)
Effect(j, n) ==
    /\ Working(j, n)
    /\ att[j][n].phase = "intent" /\ ~att[j][n].effect
    /\ att' = [att EXCEPT ![j][n].effect = TRUE]
    /\ UNCHANGED <<jobs, rsv, hist, fence, held, pass, queue, probe, crashes>>

VerdictWithoutIntent(j, n) ==
    CASE att[j][n].phase \in {"none", "admitted", "intent"} ->
            {"not_applied", "baseline_changed", "unknown"}
      [] OTHER -> {"applied", "unknown"}

(* What the worker may write: an error before the intent has had no        *)
(* effect, one after it is unknown, and only the adapter of a machine      *)
(* answers for itself.  A failure of the system is unknown at any phase,   *)
(* also when it is the result that could not be written.                   *)
Verdict(j, n) ==
    CASE att[j][n].phase \in {"none", "admitted"} ->
            {"not_applied", "baseline_changed", "unknown"}
      [] att[j][n].phase = "intent" ->
            {"unknown"} \cup
            (IF Kind[j] # "machine" THEN {}
             ELSE IF att[j][n].effect THEN {"applied"} ELSE {"not_applied"})
      [] att[j][n].phase = "verified" -> {"applied", "unknown"}

(* result.json, then the process ends and its lock is free. *)
WorkerResult(j, n, outcome) ==
    /\ Working(j, n)
    /\ outcome \in Verdict(j, n)
    /\ att' = [att EXCEPT ![j][n].result = outcome, ![j][n].lock = "free",
                          ![j][n].unit = "exited"]
    /\ UNCHANGED <<jobs, rsv, hist, fence, held, pass, queue, probe, crashes>>

(* The worker is killed or the host goes down. *)
WorkerCrash(j, n) ==
    /\ att[j][n].unit = "active"
    /\ crashes < MaxCrash
    /\ crashes' = crashes + 1
    /\ att' = [att EXCEPT ![j][n].unit = "failed",
                          ![j][n].lock = IF @ = "worker" THEN "free" ELSE @]
    /\ UNCHANGED <<jobs, rsv, hist, fence, held, pass, queue, probe>>

-----------------------------------------------------------------------------
(* The reconciliation process: reconcile_job. *)

(* It is started for a claimed job, running ones included, and takes the   *)
(* worker.lock of the attempt it read without waiting.                     *)
ProbeRead(j) ==
    /\ probe = NoProbe
    /\ jobs[j].state \in Claimed
    /\ probe' = [step |-> "read", at |-> {<<j, jobs[j].attempt>>}]
    /\ UNCHANGED <<jobs, rsv, hist, fence, held, att, pass, queue, crashes>>

ProbeLock(j, n) ==
    /\ probe = [step |-> "read", at |-> {<<j, n>>}]
    /\ att[j][n].lock = "free"
    /\ att' = [att EXCEPT ![j][n].lock = "probe"]
    /\ probe' = [step |-> "locked", at |-> {<<j, n>>}]
    /\ UNCHANGED <<jobs, rsv, hist, fence, held, pass, queue, crashes>>

(* require_coordination_profile_claim!: the prepared candidate is entered  *)
(* again only under the attempt's own claim and reservation.               *)
ProfileClaim(j, n) ==
    /\ jobs[j].state \in Claimed /\ jobs[j].attempt = n
    /\ \/ rsv[ReservationOf[j]] \in {"held", "deployed_review"}
       \/ /\ jobs[j].state = "reconciling"
          /\ rsv[ReservationOf[j]] = "blocked_recovery"
          /\ hist[j][n] = "unknown"

(* What the probe proves of attempt n: Git by remote ancestry, a machine   *)
(* by its adapter's answer, a profile by completing what is selected or,   *)
(* when asked to, what was only intended.                                  *)
Proved(j, n) ==
    LET a == att[j][n]
        untouched == IF a.phase = "admitted" THEN {"not_applied"} ELSE {}
    IN CASE Kind[j] = "merge" -> IF a.effect THEN {"applied"} ELSE untouched
         [] Kind[j] = "machine" ->
              IF a.effect THEN {"applied"} ELSE {"not_applied"}
         [] Kind[j] = "profile" ->
              (IF ProfileClaim(j, n) /\ (a.effect \/ a.phase = "intent")
               THEN {"applied"} ELSE {})
              \cup (IF a.effect THEN {} ELSE untouched)

(* result.json is written over whatever is there; the process goes on to   *)
(* reconcile_attempts.                                                     *)
ProbeResult(j, n, outcome) ==
    /\ probe = [step |-> "locked", at |-> {<<j, n>>}]
    /\ att[j][n].unit # "active"
    /\ att[j][n].request
    /\ outcome \in Proved(j, n)
    /\ att' = [att EXCEPT ![j][n].result = outcome,
                          ![j][n].effect = (outcome = "applied"),
                          ![j][n].lock = "free"]
    /\ probe' = [step |-> "pass", at |-> {}]
    /\ UNCHANGED <<jobs, rsv, hist, fence, held, pass, queue, crashes>>

(* A worker has the lock or its service still runs, the request is missing *)
(* or nothing can be proved, or the process dies: the lock is free again.  *)
ProbeError(j, n) ==
    /\ probe.step \in {"read", "locked"} /\ probe.at = {<<j, n>>}
    /\ att' = [att EXCEPT ![j][n].lock = IF probe.step = "locked" THEN "free" ELSE @]
    /\ probe' = NoProbe
    /\ UNCHANGED <<jobs, rsv, hist, fence, held, pass, queue, crashes>>

-----------------------------------------------------------------------------
(* reconcile_attempts, in either process. *)

(* The jobs of a pass. *)
PassJobs == {j \in Jobs : jobs[j].state \in Claimed}

PassStart(p) ==
    /\ pass[p] = Resting
    /\ IF p = "scheduler" THEN ~Dispatching ELSE probe.step = "pass"
    /\ PassJobs # {}
    /\ pass' = [pass EXCEPT ![p] =
                  [step |-> "next", at |-> {},
                   todo |-> {[job |-> j, attempt |-> jobs[j].attempt,
                              state |-> jobs[j].state] : j \in PassJobs}]]
    /\ UNCHANGED <<jobs, rsv, hist, fence, held, att, queue, probe, crashes>>

(* The files of one job are read, without a lock. *)
PassLook(p, t) ==
    /\ pass[p].step = "next" /\ t \in pass[p].todo
    /\ LET a == att[t.job][t.attempt]
       IN pass' = [pass EXCEPT ![p].at = {t},
                               ![p].step = IF a.result # "none" THEN "settle"
                                           ELSE IF a.phase # "none" THEN "mark"
                                           ELSE "inspect"]
    /\ UNCHANGED <<jobs, rsv, hist, fence, held, att, queue, probe, crashes>>

Done(p, t) ==
    [pass EXCEPT ![p] = [step |-> "next", at |-> {}, todo |-> @.todo \ {t}]]

StateAfter == [applied |-> "succeeded", baseline_changed |-> "needs_refresh",
               not_applied |-> "failed", unknown |-> "reconciling"]

(* The reservation's history has a record of every attempt that applied or *)
(* may have; it is closed to review or blocked accordingly.                *)
RecordIn(j, n, outcome) ==
    IF outcome \in {"applied", "unknown"} /\ ReservationOf[j] # NoReservation
    THEN [hist EXCEPT ![j][n] = outcome] ELSE hist

SettleReservation(j, n, outcome) ==
    LET v == ReservationOf[j]
        unknown == \E k \in OfReservation(v) : \E m \in Attempts :
                      hist'[k][m] = "unknown"
    IN IF v = NoReservation \/ hist[j][n] = outcome
          \/ outcome \notin {"applied", "unknown"}
       THEN rsv
       ELSE [rsv EXCEPT ![v] =
               IF outcome = "unknown" \/ (hist[j][n] = "unknown" /\ unknown)
               THEN "blocked_recovery" ELSE "deployed_review"]

(* The transaction checks that the attempt is still the job's and claimed. *)
PassSettle(p, t) ==
    /\ pass[p].step = "settle" /\ pass[p].at = {t}
    /\ pass' = Done(p, t)
    /\ LET j == t.job
           n == t.attempt
           outcome == att[j][n].result
       IN IF jobs[j].attempt = n /\ jobs[j].state \in Claimed
          THEN /\ jobs' = [jobs EXCEPT ![j].state = StateAfter[outcome]]
               /\ hist' = RecordIn(j, n, outcome)
               /\ rsv' = SettleReservation(j, n, outcome)
          ELSE UNCHANGED <<jobs, hist, rsv>>
    /\ UNCHANGED <<fence, held, att, queue, probe, crashes>>

(* A job read as claimed is running now; a refused transaction ends the    *)
(* pass over this job.                                                     *)
PassMark(p, t) ==
    /\ pass[p].step = "mark" /\ pass[p].at = {t}
    /\ IF t.state = "claimed"
       THEN IF Disjoint(t.job)
            THEN /\ jobs' = [jobs EXCEPT ![t.job].state = "running"]
                 /\ pass' = [pass EXCEPT ![p].step = "inspect"]
            ELSE UNCHANGED jobs /\ pass' = Done(p, t)
       ELSE UNCHANGED jobs /\ pass' = [pass EXCEPT ![p].step = "inspect"]
    /\ UNCHANGED <<rsv, hist, fence, held, att, queue, probe, crashes>>

(* systemctl show: an exited unit counts as active. *)
PassInspect(p, t) ==
    /\ pass[p].step = "inspect" /\ pass[p].at = {t}
    /\ pass' = IF att[t.job][t.attempt].unit \in {"active", "exited"}
               THEN Done(p, t)
               ELSE [pass EXCEPT ![p].step = "suspect"]
    /\ UNCHANGED <<jobs, rsv, hist, fence, held, att, queue, probe, crashes>>

(* The worker is gone: the job as it is now becomes uncertain. *)
PassSuspect(p, t) ==
    /\ pass[p].step = "suspect" /\ pass[p].at = {t}
    /\ pass' = Done(p, t)
    /\ jobs' = IF Disjoint(t.job)
               THEN [jobs EXCEPT ![t.job].state = "reconciling"] ELSE jobs
    /\ UNCHANGED <<rsv, hist, fence, held, att, queue, probe, crashes>>

PassEnd(p) ==
    /\ \/ pass[p].step = "next" /\ pass[p].todo = {}
       \/ p = "probe" /\ probe.step = "pass" /\ pass[p] = Resting /\ PassJobs = {}
    /\ pass' = [pass EXCEPT ![p] = Resting]
    /\ probe' = IF p = "probe" THEN NoProbe ELSE probe
    /\ UNCHANGED <<jobs, rsv, hist, fence, held, att, queue, crashes>>

(* The scheduler or the reconciliation process dies. *)
PassKilled(p) ==
    /\ crashes < MaxCrash
    /\ crashes' = crashes + 1
    /\ IF p = "scheduler"
       THEN /\ pass[p] # Resting \/ Dispatching
            /\ queue' = [j \in Jobs |-> "no"]
            /\ UNCHANGED probe
       ELSE /\ probe.step = "pass"
            /\ probe' = NoProbe
            /\ UNCHANGED queue
    /\ pass' = [pass EXCEPT ![p] = Resting]
    /\ UNCHANGED <<jobs, rsv, hist, fence, held, att>>

-----------------------------------------------------------------------------
Session ==
    \/ \E j \in Jobs : Submit(j) \/ Refresh(j) \/ Cancel(j)
    \/ \E v \in Reservations : Finish(v)

Host ==
    \/ \E o \in Owners : \/ \E c \in {"archive", "delete"} : Fence(o, c)
                         \/ ArchiveCompleted(o)
    \/ \E x \in Wanted : GrantClaim(x) \/ DropClaim(x)

Scheduler ==
    \/ \E o \in Owners : \E S \in SUBSET JobsOf(o) : Claim(o, S)
    \/ \E j \in Jobs :
          \/ DispatchRequest(j) \/ DispatchUncertain(j)
          \/ \E started, answered \in BOOLEAN : DispatchRun(j, started, answered)

Worker ==
    \E j \in Jobs, n \in Attempts :
        \/ WorkerStart(j, n) \/ Admit(j, n) \/ Intent(j, n) \/ Effect(j, n)
        \/ Verify(j, n) \/ WorkerCrash(j, n)
        \/ \E outcome \in Outcomes : WorkerResult(j, n, outcome)

Probe ==
    \E j \in Jobs :
        \/ ProbeRead(j)
        \/ \E n \in Attempts :
              \/ ProbeLock(j, n) \/ ProbeError(j, n)
              \/ \E outcome \in Outcomes : ProbeResult(j, n, outcome)

PassStep(p) ==
    \/ PassStart(p) \/ PassEnd(p)
    \/ \E t \in pass[p].todo :
          \/ PassLook(p, t) \/ PassSettle(p, t) \/ PassMark(p, t)
          \/ PassInspect(p, t) \/ PassSuspect(p, t)

Next ==
    \/ Session \/ Host \/ Scheduler \/ Worker \/ Probe
    \/ \E p \in Passes : PassStep(p) \/ PassKilled(p)

Spec == Init /\ [][Next]_vars

-----------------------------------------------------------------------------
(* Properties. *)

(* Somebody may be changing the resources of attempt n. *)
Mutating(j, n) == Working(j, n) /\ att[j][n].phase \in {"admitted", "intent"}

(* Whoever is past admission has its resources to itself: its job is       *)
(* claimed for this very attempt, no claim holds what it uses and no other *)
(* worker does, however stale the passes and probes about it are.          *)
MutatorsExclude ==
    \A j \in Jobs : \A n \in Attempts : Mutating(j, n) =>
        /\ jobs[j].state \in Claimed /\ jobs[j].attempt = n
        /\ Uses[j] \cap held = {}
        /\ \A k \in Jobs \ {j} : \A m \in Attempts :
              Mutating(k, m) => Uses[j] \cap Uses[k] = {}

(* A recorded verdict is true and stays true: what was applied had its     *)
(* effect, what was not applied has none and never gets one from a late    *)
(* worker, and a settled job agrees with its attempt.                      *)
VerdictsTrue ==
    \A j \in Jobs :
        /\ \A n \in Attempts :
              /\ att[j][n].result = "applied" => att[j][n].effect
              /\ att[j][n].result \in {"not_applied", "baseline_changed"}
                   => ~att[j][n].effect
        /\ jobs[j].state = "succeeded" => att[j][jobs[j].attempt].effect
        /\ jobs[j].state \in {"failed", "canceled", "needs_refresh"} =>
              \A n \in Attempts : ~att[j][n].effect

(* A released machine carries no loose ends: every effect on it is in the  *)
(* history as applied, and nobody is at work on it.                        *)
ReleasedIsSettled ==
    \A v \in Reservations : rsv[v] = "released" =>
        \A j \in OfReservation(v) : \A n \in Attempts :
            /\ ~Mutating(j, n)
            /\ att[j][n].effect => hist[j][n] = "applied"

=============================================================================
