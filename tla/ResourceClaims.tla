--------------------------- MODULE ResourceClaims ---------------------------
(***************************************************************************)
(* Cooperative resource claims: libexec/workspace-coordination-claims.rb   *)
(* over the ledger of libexec/workspace-coordination.rb.                   *)
(*                                                                         *)
(* A session (an owner) asks for a set of repositories and machines under  *)
(* a request id of its own.  The answer is a claim, held at once or queued *)
(* as waiting; the scheduler later grants queued claims and tells the      *)
(* owner through a durable outbox.  Session lifecycle operations fence an  *)
(* owner, host suspension stops every grant, and the payload collector     *)
(* excludes grants while it removes worktrees.                             *)
(*                                                                         *)
(* Two files, ledger.json and claims.json, are written one after the other *)
(* under one lock.  What one process does under that lock is one action;   *)
(* an action of the ledger has a second form in which the process dies     *)
(* between the two writes.  Retained jobs and machine reservations appear  *)
(* as what occupies resources: a job is claimed by claim_ready, settles,   *)
(* and may be put back by a late answer about its attempt, which asks no   *)
(* claim.  Module RetainedJobs has the jobs, their owners and attempts.    *)
(***************************************************************************)
EXTENDS Integers, FiniteSets

CONSTANTS
    Owners,      \* session incarnations recorded in the ledger
    Requests,    \* claim request ids, each used by one owner
    Resources,   \* canonical repository, Git directory and machine keys
    OwnerOf,     \* the owner that uses a request id
    Needs,       \* the resources a request resolves to
    NoOwner,     \* the scheduler is between two owners
    Jobs,            \* retained jobs
    Uses,            \* the resources of a job's snapshot
    Reservations,    \* machine reservations
    MachineOf,       \* the machine of a reservation, a resource
    ReservationOf,   \* the reservation of a deployment
    NoReservation,   \* a merge has none
    MaxCrash     \* bound: processes that die in the middle of a step

ASSUME ClaimsAssumption ==
    /\ IsFiniteSet(Requests)
    /\ OwnerOf \in [Requests -> Owners]
    /\ Needs \in [Requests -> (SUBSET Resources) \ {{}}]
    /\ NoOwner \notin Owners
    /\ Uses \in [Jobs -> SUBSET Resources]
    /\ MachineOf \in [Reservations -> Resources]
    /\ ReservationOf \in [Jobs -> Reservations \cup {NoReservation}]
    /\ NoReservation \notin Reservations
    /\ \A j \in Jobs : ReservationOf[j] # NoReservation =>
                        MachineOf[ReservationOf[j]] \in Uses[j]
    /\ MaxCrash \in Nat

VARIABLES
    claims,      \* claims.json: the claim of every request id
    fence,       \* ledger owners: the lifecycle fence of every owner
    reviving,    \* ledger lifecycles: owners with an unfinished revival receipt
    suspended,   \* ledger: host services are suspended
    outbox,      \* ledger: the "held" notice of every claim
    legacy,      \* ledger: retained jobs and machine reservations
    moved,       \* waiting requests whose registered mapping has changed
    sweep,       \* the collector's exclusive preparation lock and its victims
    tick,        \* the scheduler inside tick_claims
    mail,        \* notices a notification worker is sending
    crashes,     \* processes that died so far
    cut          \* history: requests that were waiting when a fence landed

vars == <<claims, fence, reviving, suspended, outbox, legacy, moved, sweep,
          tick, mail, crashes, cut>>

ClaimStates == {"absent", "waiting", "held", "released", "canceled"}

(* A notice to be sent again is pending: the model has no retry clock. *)
NoticeStates == {"none", "pending", "held", "delivered"}

Commands == {"archive", "delete"}
Idle == [owner |-> NoOwner, step |-> "idle", left |-> {}]

(* A retained job as it occupies resources: it may still be claimed        *)
(* (open), is, or has ended.  "late" is a claimed job too, one that a late *)
(* transition put back; over is the history of the held claims it came     *)
(* back over, and tried has the jobs that were given an attempt.           *)
LegacyRecord ==
    [job : [Jobs -> {"open", "claimed", "late", "ended"}],
     over : [Jobs -> SUBSET Requests],
     tried : SUBSET Jobs,
     rsv : [Reservations -> {"requested", "live", "released"}]]

(* One state of each file: every field is of its type. *)
TypeOK ==
    /\ claims \in [Requests -> [state : ClaimStates, seq : Nat, pending : BOOLEAN]]
    /\ fence \in [Owners -> [command : Commands \cup {"none"},
                             completed : BOOLEAN]]
    /\ reviving \in SUBSET Owners
    /\ suspended \in BOOLEAN
    /\ outbox \in [Requests -> NoticeStates]
    /\ legacy \in LegacyRecord
    /\ moved \in SUBSET Requests
    /\ sweep \in [on : BOOLEAN, victims : SUBSET Resources]
    /\ tick \in [owner : Owners \cup {NoOwner},
                 step : {"idle", "grant", "announce", "clear"},
                 left : SUBSET Requests]
    /\ mail \in SUBSET Requests
    /\ crashes \in 0..MaxCrash
    /\ cut \in SUBSET Requests

Init ==
    /\ claims = [r \in Requests |->
                   [state |-> "absent", seq |-> 0, pending |-> FALSE]]
    /\ fence = [o \in Owners |-> [command |-> "none", completed |-> FALSE]]
    /\ reviving = {}
    /\ suspended = FALSE
    /\ outbox = [r \in Requests |-> "none"]
    /\ legacy = [job |-> [j \in Jobs |-> "open"],
                  over |-> [j \in Jobs |-> {}],
                  tried |-> {},
                  rsv |-> [v \in Reservations |-> "requested"]]
    /\ moved = {}
    /\ sweep = [on |-> FALSE, victims |-> {}]
    /\ tick = Idle
    /\ mail = {}
    /\ crashes = 0
    /\ cut = {}

-----------------------------------------------------------------------------
(* What the code reads under the lock. *)

Fenced(o) == fence[o].command # "none"

(* claim_owner_live! *)
Live(o) == ~Fenced(o) /\ ~suspended

InState(s) == {r \in Requests : claims[r].state = s}
HeldResources == UNION {Needs[r] : r \in InState("held")}

BusyWithoutJobs == HeldResources

InClaim == {j \in Jobs : legacy.job[j] \in {"claimed", "late"}}
JobResources == UNION {Uses[j] : j \in InClaim}
LiveMachines == {MachineOf[v] : v \in {w \in Reservations : legacy.rsv[w] = "live"}}

(* The resources of claimed jobs, live reservations and held claims. *)
Busy == JobResources \cup LiveMachines \cup HeldResources

BlockedOnlyByHolders(r, seq) == Needs[r] \cap Busy # {}

(* claim_blocked?: the resources are busy, or an earlier waiting request   *)
(* that could itself be granted wants one of them.                         *)
Blocked(r, seq) ==
    \/ Needs[r] \cap Busy # {}
    \/ \E q \in InState("waiting") \ {r} :
          /\ claims[q].seq < seq
          /\ Needs[q] \cap Busy = {}
          /\ Needs[q] \cap Needs[r] # {}

(* The claim of lowest sequence in a nonempty set of requests. *)
First(S) == CHOOSE r \in S : \A q \in S : claims[r].seq <= claims[q].seq

SyncNothing(cs, f) == cs

(* sync_claims_lifecycle: the waiting claims of fenced owners. *)
Sync(cs, f) ==
    [r \in Requests |->
        IF cs[r].state = "waiting" /\ f[OwnerOf[r]].command # "none"
        THEN [cs[r] EXCEPT !.state = "canceled", !.pending = FALSE]
        ELSE cs[r]]

(* Store#transaction after its block: ledger.json is written, then the     *)
(* claims follow the fences; the process may die between the two writes.   *)
Commit(dies) ==
    IF dies
    THEN /\ crashes < MaxCrash
         /\ crashes' = crashes + 1
         /\ claims' = claims
    ELSE /\ claims' = Sync(claims, fence')
         /\ crashes' = crashes

(* A process admitted to the session of o holds its slug lock shared. *)
Admitted(o) == tick.owner = o \/ \E r \in mail : OwnerOf[r] = o

-----------------------------------------------------------------------------
(* Commands of the owning session. *)

PreparationIgnored == TRUE

(* The shared, nonblocking preparation lock of create_resource_claim. *)
PreparationShared == ~sweep.on

(* acquire_claim, create_resource_claim and create_resource_claim_ready:   *)
(* an exact retry finds the saved claim and changes nothing, so only a     *)
(* request id not seen before has a step.  Without the shared preparation  *)
(* lock nothing is granted.                                                *)
Acquire(r) ==
    /\ Live(OwnerOf[r])
    /\ claims[r].state = "absent"
    /\ LET seq == Cardinality(Requests \ InState("absent")) + 1
           blocked == ~PreparationShared \/ Blocked(r, seq)
       IN claims' = [claims EXCEPT ![r] =
                       [state |-> IF blocked THEN "waiting" ELSE "held",
                        seq |-> seq, pending |-> FALSE]]
    /\ UNCHANGED <<fence, reviving, suspended, outbox, legacy, moved, sweep,
                   tick, mail, crashes, cut>>

(* change_claim: release takes a held claim, cancel a waiting one; what    *)
(* the request would resolve to no longer matters.                         *)
ChangeClaim(r, expected, destination) ==
    /\ Live(OwnerOf[r])
    /\ claims[r].state = expected
    /\ claims' = [claims EXCEPT ![r] = [state |-> destination, seq |-> @.seq,
                                        pending |-> FALSE]]
    /\ moved' = moved \ {r}
    /\ UNCHANGED <<fence, reviving, suspended, outbox, legacy, sweep, tick,
                   mail, crashes, cut>>

Release(r) == ChangeClaim(r, "held", "released")
Cancel(r) == ChangeClaim(r, "waiting", "canceled")

(* The repository or machine a waiting request named now resolves to       *)
(* another key (a changed registration or machine configuration).          *)
Remap(r) ==
    /\ claims[r].state = "waiting"
    /\ r \notin moved
    /\ moved' = moved \cup {r}
    /\ UNCHANGED <<claims, fence, reviving, suspended, outbox, legacy, sweep,
                   tick, mail, crashes, cut>>

-----------------------------------------------------------------------------
(* The scheduler's pass over one owner: tick_claims. *)

ClaimWorkOwedOnly(o) ==
    \E r \in Requests : OwnerOf[r] = o /\ claims[r].pending

(* coordination_candidates: the owner has a claim waiting or a notice owed. *)
ClaimWork(o) ==
    \E r \in Requests : /\ OwnerOf[r] = o
                        /\ claims[r].state = "waiting" \/ claims[r].pending

(* coordination_candidates and coordinate_owner choose an owner with claim *)
(* work; the shared preparation lock is held until the pass ends.          *)
TickStart(o) ==
    /\ tick = Idle
    /\ ~sweep.on
    /\ Live(o)
    /\ ClaimWork(o)
    /\ tick' = [owner |-> o, step |-> "grant",
                left |-> {r \in InState("waiting") : OwnerOf[r] = o}]
    /\ UNCHANGED <<claims, fence, reviving, suspended, outbox, legacy, moved,
                   sweep, mail, crashes, cut>>

(* A claim granted from the queue owes its owner a notice. *)
QueueGrant(c) ==
    [state |-> "held", seq |-> c.seq, pending |-> TRUE]

(* Each saved waiting claim in sequence order, under the lock. *)
TickGrant ==
    /\ tick.step = "grant" /\ tick.left # {}
    /\ Live(tick.owner)
    /\ LET r == First(tick.left)
       IN /\ OwnerOf[r] = tick.owner      \* claim_owned!
          /\ claims[r].state = "waiting" => r \notin moved
          /\ tick' = [tick EXCEPT !.left = @ \ {r}]
          /\ claims' = IF claims[r].state = "waiting"
                            /\ ~Blocked(r, claims[r].seq)
                       THEN [claims EXCEPT ![r] = QueueGrant(@)]
                       ELSE claims
    /\ UNCHANGED <<fence, reviving, suspended, outbox, legacy, moved, sweep,
                   mail, crashes, cut>>

(* The owner is fenced or the host suspended, or a saved request resolves  *)
(* to other resources: the error ends the owner's whole pass.              *)
TickRefused ==
    /\ tick.step \in {"grant", "announce"} /\ tick.left # {}
    /\ \/ ~Live(tick.owner)
       \/ /\ tick.step = "grant"
          /\ First(tick.left) \in moved
          /\ claims[First(tick.left)].state = "waiting"
    /\ tick' = Idle
    /\ UNCHANGED <<claims, fence, reviving, suspended, outbox, legacy, moved,
                   sweep, mail, crashes, cut>>

(* After the last waiting claim, the claims whose notice is still owed. *)
TickOwed ==
    /\ tick.step = "grant" /\ tick.left = {}
    /\ tick' = [tick EXCEPT !.step = "announce",
                            !.left = {r \in Requests :
                                        OwnerOf[r] = tick.owner
                                          /\ claims[r].pending}]
    /\ UNCHANGED <<claims, fence, reviving, suspended, outbox, legacy, moved,
                   sweep, mail, crashes, cut>>

(* A ledger transaction records the notice once, if the claim is held. *)
TickEvent(dies) ==
    /\ tick.step = "announce" /\ tick.left # {}
    /\ Live(tick.owner)
    /\ LET r == First(tick.left)
       IN outbox' = [outbox EXCEPT ![r] =
                       IF claims[r].state = "held" /\ @ = "none"
                       THEN "pending" ELSE @]
    /\ tick' = IF dies THEN Idle ELSE [tick EXCEPT !.step = "clear"]
    /\ UNCHANGED fence
    /\ Commit(dies)
    /\ UNCHANGED <<reviving, suspended, legacy, moved, sweep, mail, cut>>

(* The debt is cleared in a lock of its own. *)
TickClear ==
    /\ tick.step = "clear"
    /\ LET r == First(tick.left)
       IN /\ claims' = [claims EXCEPT ![r].pending = FALSE]
          /\ tick' = [tick EXCEPT !.step = "announce", !.left = @ \ {r}]
    /\ UNCHANGED <<fence, reviving, suspended, outbox, legacy, moved, sweep,
                   mail, crashes, cut>>

TickEnd ==
    /\ tick.step = "announce" /\ tick.left = {}
    /\ tick' = Idle
    /\ UNCHANGED <<claims, fence, reviving, suspended, outbox, legacy, moved,
                   sweep, mail, crashes, cut>>

(* The scheduler is stopped or restarted in the middle of a pass. *)
TickKilled ==
    /\ tick # Idle
    /\ crashes < MaxCrash
    /\ crashes' = crashes + 1
    /\ tick' = Idle
    /\ UNCHANGED <<claims, fence, reviving, suspended, outbox, legacy, moved,
                   sweep, mail, cut>>

-----------------------------------------------------------------------------
(* Notification workers: deliver_notifications, one worker for an owner. *)

SendStart(r) ==
    /\ outbox[r] = "pending"
    /\ Live(OwnerOf[r])
    /\ \A q \in mail : OwnerOf[q] # OwnerOf[r]
    /\ mail' = mail \cup {r}
    /\ UNCHANGED <<claims, fence, reviving, suspended, outbox, legacy, moved,
                   sweep, tick, crashes, cut>>

(* The send is answered; a failure leaves a held notice held. *)
SendEnd(r, answer) ==
    /\ r \in mail
    /\ mail' = mail \ {r}
    /\ outbox' = [outbox EXCEPT ![r] =
                    IF answer = "delivered" THEN "delivered"
                    ELSE IF @ = "held" THEN @ ELSE "pending"]
    /\ UNCHANGED fence
    /\ Commit(FALSE)
    /\ UNCHANGED <<reviving, suspended, legacy, moved, sweep, tick, cut>>

(* The worker dies after the send and before it records the answer. *)
SendKilled(r) ==
    /\ r \in mail
    /\ crashes < MaxCrash
    /\ crashes' = crashes + 1
    /\ mail' = mail \ {r}
    /\ UNCHANGED <<claims, fence, reviving, suspended, outbox, legacy, moved,
                   sweep, tick, cut>>

-----------------------------------------------------------------------------
(* Lifecycle operations, under the exclusive slug lock of the session. *)

ClaimsUnchecked(o) == TRUE

(* claim_lifecycle_idle! *)
ClaimsIdle(o) == \A r \in InState("held") : OwnerOf[r] # o

(* bind_lifecycle and fence_owners!: refused while the owner holds a claim *)
(* or another command's fence is unfinished; undelivered notices are held. *)
BindLifecycle(o, command, dies) ==
    /\ ~Admitted(o)
    /\ ClaimsIdle(o)
    /\ fence[o].command # command
    /\ Fenced(o) => fence[o].completed
    /\ fence' = [fence EXCEPT ![o] = [command |-> command, completed |-> FALSE]]
    /\ outbox' = [r \in Requests |->
                    IF OwnerOf[r] = o /\ outbox[r] \notin {"none", "delivered"}
                    THEN "held" ELSE outbox[r]]
    /\ cut' = cut \cup {r \in InState("waiting") : OwnerOf[r] = o}
    /\ Commit(dies)
    /\ UNCHANGED <<reviving, suspended, legacy, moved, sweep, tick, mail>>

(* lifecycle_completed *)
LifecycleCompleted(o, dies) ==
    /\ ~Admitted(o)
    /\ Fenced(o) /\ ~fence[o].completed
    /\ fence' = [fence EXCEPT ![o].completed = TRUE]
    /\ Commit(dies)
    /\ UNCHANGED <<reviving, suspended, outbox, legacy, moved, sweep, tick,
                   mail, cut>>

(* bind_revival: a receipt for the completed archive. *)
BindRevival(o, dies) ==
    /\ ~Admitted(o)
    /\ fence[o] = [command |-> "archive", completed |-> TRUE]
    /\ o \notin reviving
    /\ reviving' = reviving \cup {o}
    /\ UNCHANGED fence
    /\ Commit(dies)
    /\ UNCHANGED <<suspended, outbox, legacy, moved, sweep, tick, mail, cut>>

(* The notices a fence held back become pending again. *)
ResumeNotices(o) ==
    [r \in Requests |-> IF OwnerOf[r] = o /\ outbox[r] = "held"
                       THEN "pending" ELSE outbox[r]]

(* revived: it binds again, so its first transaction follows the claims    *)
(* under the old fence; the second lifts the fence and the held notices.   *)
Revived(o) ==
    /\ ~Admitted(o)
    /\ o \in reviving
    /\ fence[o] = [command |-> "archive", completed |-> TRUE]
    /\ fence' = [fence EXCEPT ![o] = [command |-> "none", completed |-> FALSE]]
    /\ reviving' = reviving \ {o}
    /\ outbox' = ResumeNotices(o)
    /\ claims' = Sync(claims, fence)
    /\ UNCHANGED <<suspended, legacy, moved, sweep, tick, mail, crashes, cut>>

-----------------------------------------------------------------------------
(* The rest of the host. *)

(* workspace-host suspend and resume *)
SetSuspended(value, dies) ==
    /\ suspended # value
    /\ suspended' = value
    /\ UNCHANGED fence
    /\ Commit(dies)
    /\ UNCHANGED <<reviving, outbox, legacy, moved, sweep, tick, mail, cut>>

(* claim_ready: a job is claimed over resources that no claimed job and no *)
(* held claim has, on a machine no other reservation owns; its own         *)
(* reservation comes to hold the machine.                                  *)
JobClaim(j) ==
    LET own == {v \in Reservations : v = ReservationOf[j]}
        rivals == {v \in Reservations \ own :
                     \E w \in own : MachineOf[v] = MachineOf[w]}
    IN /\ ~suspended /\ ~sweep.on
       /\ legacy.job[j] = "open"
       /\ \A v \in rivals : legacy.rsv[v] # "live"
       /\ Uses[j] \cap (JobResources \cup HeldResources) = {}
       /\ legacy' = [legacy EXCEPT
                       !.job[j] = "claimed",
                       !.tried = @ \cup {j},
                       !.rsv = [v \in Reservations |->
                                  IF v \in own /\ @[v] = "requested"
                                  THEN "live" ELSE @[v]]]
    /\ UNCHANGED fence
    /\ Commit(FALSE)
    /\ UNCHANGED <<reviving, suspended, outbox, moved, sweep, tick, mail, cut>>

(* reconcile_attempts settles the job, which has ended or is open to a     *)
(* refresh.                                                                *)
JobSettle(j, settled) ==
    /\ j \in InClaim
    /\ legacy' = [legacy EXCEPT !.job[j] = settled, !.over[j] = {}]
    /\ UNCHANGED fence
    /\ Commit(FALSE)
    /\ UNCHANGED <<reviving, suspended, outbox, moved, sweep, tick, mail, cut>>

(* The rescue of dispatch and the branches of reconcile_attempts without a *)
(* result: a process that still carries what it made of the job's attempt  *)
(* puts the job back whatever it has become.  Only validate! looks at it,  *)
(* and only for other claimed jobs.                                        *)
JobLate(j) ==
    /\ j \in legacy.tried
    /\ j \notin InClaim
    /\ Uses[j] \cap JobResources = {}
    /\ legacy' = [legacy EXCEPT
                    !.job[j] = "late",
                    !.over[j] = {r \in InState("held") :
                                   Needs[r] \cap Uses[j] # {}}]
    /\ UNCHANGED fence
    /\ Commit(FALSE)
    /\ UNCHANGED <<reviving, suspended, outbox, moved, sweep, tick, mail, cut>>

(* finish, or a lifecycle operation of the owner, gives the machine back.  *)
(* Neither does so while a job of the reservation is claimed; finish waits *)
(* for the end of an open one and the lifecycle fence cancels it.          *)
ReservationEnd(v) ==
    /\ legacy.rsv[v] # "released"
    /\ \A j \in InClaim : ReservationOf[j] # v
    /\ legacy' = [legacy EXCEPT
                    !.rsv[v] = "released",
                    !.job = [j \in Jobs |->
                               IF ReservationOf[j] = v THEN "ended" ELSE @[j]]]
    /\ UNCHANGED fence
    /\ Commit(FALSE)
    /\ UNCHANGED <<reviving, suspended, outbox, moved, sweep, tick, mail, cut>>

(* coordination_collect_command takes the preparation lock exclusively.    *)
(* remove_worktree refuses a busy common Git directory before it removes   *)
(* the directory's worktree.                                               *)
SweepStart ==
    /\ ~sweep.on
    /\ tick = Idle
    /\ sweep' = [on |-> TRUE, victims |-> {}]
    /\ UNCHANGED <<claims, fence, reviving, suspended, outbox, legacy, moved,
                   tick, mail, crashes, cut>>

GitDirectories == Resources \ {MachineOf[v] : v \in Reservations}

SweepRemove(x) ==
    /\ sweep.on
    /\ x \notin Busy
    /\ x \notin sweep.victims
    /\ sweep' = [sweep EXCEPT !.victims = @ \cup {x}]
    /\ UNCHANGED <<claims, fence, reviving, suspended, outbox, legacy, moved,
                   tick, mail, crashes, cut>>

SweepEnd ==
    /\ sweep.on
    /\ sweep' = [on |-> FALSE, victims |-> {}]
    /\ UNCHANGED <<claims, fence, reviving, suspended, outbox, legacy, moved,
                   tick, mail, crashes, cut>>

-----------------------------------------------------------------------------
Session == \E r \in Requests : Acquire(r) \/ Release(r) \/ Cancel(r) \/ Remap(r)

TickStep == \/ TickGrant \/ TickRefused \/ TickOwed \/ TickClear \/ TickEnd
            \/ TickEvent(FALSE)

Scheduler ==
    \/ \E o \in Owners : TickStart(o)
    \/ TickStep
    \/ TickEvent(TRUE)
    \/ TickKilled

Notifier ==
    \E r \in Requests : \/ SendStart(r) \/ SendKilled(r)
                        \/ \E a \in {"delivered", "failed"} : SendEnd(r, a)

Lifecycle ==
    \E o \in Owners :
        \/ Revived(o)
        \/ \E dies \in BOOLEAN :
              \/ \E c \in Commands : BindLifecycle(o, c, dies)
              \/ LifecycleCompleted(o, dies)
              \/ BindRevival(o, dies)

Host ==
    \/ \E value, dies \in BOOLEAN : SetSuspended(value, dies)
    \/ \E j \in Jobs : \/ JobClaim(j) \/ JobLate(j)
                       \/ \E settled \in {"open", "ended"} : JobSettle(j, settled)
    \/ \E v \in Reservations : ReservationEnd(v)
    \/ SweepStart \/ SweepEnd
    \/ \E x \in GitDirectories : SweepRemove(x)

Next == Session \/ Scheduler \/ Notifier \/ Lifecycle \/ Host

Spec == Init /\ [][Next]_vars

(* run_coordinator visits every owner with claim work again and again (at  *)
(* least every five seconds), runs each pass to its end, and the collector *)
(* finishes its sweep.                                                     *)
Fairness ==
    /\ \A o \in Owners : SF_vars(TickStart(o))
    /\ WF_vars(TickStep)
    /\ WF_vars(SweepEnd)

FairSpec == Spec /\ Fairness

-----------------------------------------------------------------------------
(* Properties. *)

(* Two held claims share no resource and no held claim has the machine of  *)
(* a live reservation.  A held claim and a claimed job share a resource    *)
(* only if a late transition put the settled job back over that very       *)
(* claim: acquire_claim, the scheduler's pass and claim_ready never grant  *)
(* over each other.  That legacy jobs exclude conflicting claims           *)
(* (docs/coordination.md:313-314) is true of grants only.                  *)
HeldExclusive ==
    /\ \A r, q \in InState("held") : r # q => Needs[r] \cap Needs[q] = {}
    /\ HeldResources \cap LiveMachines = {}
    /\ \A r \in InState("held"), j \in InClaim :
          Needs[r] \cap Uses[j] # {}
            => legacy.job[j] = "late" /\ r \in legacy.over[j]

(* A fenced owner holds nothing: fence_owners! refuses a held claim, and   *)
(* nothing is granted behind the fence afterwards.                         *)
FencedHoldsNothing ==
    \A r \in InState("held") : ~Fenced(OwnerOf[r])

(* A request that was queued when its session was fenced is never granted, *)
(* not even when the fencing process died between ledger.json and          *)
(* claims.json and the session was revived later.                          *)
CutNeverGranted ==
    \A r \in cut : claims[r].state \in {"waiting", "canceled"}

(* While the collector removes the worktree of a Git directory, nobody is  *)
(* granted that directory: no session, no scheduler's pass and no job that *)
(* claim_ready claims.  (A late job is put back, not granted.)             *)
GrantedResources ==
    HeldResources \cup UNION {Uses[j] : j \in {k \in Jobs : legacy.job[k] = "claimed"}}

SweepUndisturbed == sweep.victims \cap GrantedResources = {}

(* A grant never overtakes an earlier queued request that asks for no more *)
(* than the granted one, whoever grants it.                                *)
Granted(r) == claims[r].state # "held" /\ claims'[r].state = "held"

NoOvertaking ==
    [][\A r \in Requests : Granted(r) =>
          ~\E q \in InState("waiting") \ {r} :
              /\ Needs[q] \subseteq Needs[r]
              /\ claims[q].seq < claims'[r].seq]_vars

(* Under the scheduler's fairness a queued request that could be granted   *)
(* does not stay that way: some pass grants it, unless a fence, a          *)
(* suspension, a changed mapping or a competitor intervenes again.         *)
Grantable(r) ==
    /\ claims[r].state = "waiting"
    /\ Live(OwnerOf[r])
    /\ ~Blocked(r, claims[r].seq)
    /\ \A q \in moved : OwnerOf[q] = OwnerOf[r] => claims[q].state # "waiting"

NeverStuckGrantable == \A r \in Requests : []<>~Grantable(r)

=============================================================================
