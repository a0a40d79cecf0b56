# TLA+ models of the development workspace

This directory models the parts of the workspace in which several processes
change shared state: the portal (Go, `src/portal`), the session and host
commands (Ruby, `src/libexec`) and the codex app server they talk to. The
modules are checked with TLC on small instances; eight modules carry theorems
that TLAPS checks for every value of their constants.

Contents: [the system](#the-system), [modules](#modules), [runs](#runs),
[fairness](#fairness), [what is proved](#what-is-proved),
[disagreements](#disagreements), [not modelled](#not-modelled),
[plan](#plan).

## The system

A *session* is a directory of git worktrees with one lead conversation (a
codex thread) and possibly a team of further conversations. The portal shows
sessions, sends input, creates and retires them. The host coordinator lets
sessions share repositories and machines. All state is in JSON files; a file
has an flock, a write is a temporary file that is renamed, and every process
may be killed between any two writes.

| Component | State it keeps | Operations | Talks to |
|---|---|---|---|
| Automatic turn retry (`turnretry`, `workspacecodex/turn_retry*.go`, `web/turn_retry*.go`) | one record per thread, one policy file per session | worker step, reconcile, Stop, Retry now, manual input, settings, session end, preferences | app server: observe, continue, submission ledger |
| Resource claims (`workspace-coordination-claims.rb`) | `claims.json`, `ledger.json`: claims, owners, fences, outbox | acquire, release, cancel, the coordinator's pass, notices | lifecycle commands (fences), retained jobs, collector |
| Retained jobs (`workspace-coordination*.rb`) | `ledger.json`: jobs, reservations; attempt directories; systemd units | submit, refresh, cancel, finish, claim, dispatch, worker, probe, pass, fence | systemd, git, machines, claims |
| Session communication (`communication`) | `state.json`: grants, messages | allow, revoke, send, dispatch, expire | app server, lifecycle commands |
| Uploads (`uploads`, `web/uploads.go`) | `catalog.json`: scopes, files, submissions; blobs | draft, append, complete, delete, prepare, claim, observe, collect, bind, fork, remove | creation, transcript and queue of the app server |
| Session creation (`web/creation*.go`, `web/preparation*.go`) | preparations, creation receipts, reserved names | accept, name, reserve, hand off, run, retry, recover | uploads, `dev-session` |
| Lifecycle operations (`web/server.go`, `operation_*.go`, `archive_*.go`, `lifecycle_target.go`) | one receipt per session, sidecar of an archive preparation | archive, revive, delete, retry, dismiss, cancel, display, restart | `dev-session` and its journal, systemd units, the lead |
| Agent teams (`teamruntime`, `workspacecodex/client.go`, `archive_explicit.go`) | rosters, the lead's thread, captured queues | add, preset, replace, remove, assign, converse, access, fork, archive, retire, revive | app server: start, send, queue, archive, delete |
| Progress observer (`web/progress_observer.go`, `progressobserver`) | last check, pending check, concern, notice | check, settle, interrupt, notify, settings | teams, app server |
| Browser notifications (`web/notifications*.go`, `attention.go`) | browsers, preferences, baseline, outbox | observe, reduce, register, mute, visit, push | push services |
| Session and host commands, integration, archive cleanup, providers | journals, registries, pause markers | see [not modelled](#not-modelled) | git, nix, systemd |
| Views (repository review, status, cluster, pages) | caches | read | git |

Three things are hard in all of them. The effect and the record of the effect
are never written together, so each component has an "outcome unknown" state
which a crash, a timeout or a lost answer leads to, and must leave it without
doing the thing twice or forgetting that it was done. Competing processes write
with a view that is stale by then. And lifecycle operations cut across
everything. `hazards` in `PROJECT.json` lists the places, each with the
properties about it.

What makes the components correct:

- *Turn retry*: a continuation is sent at most once per failure; an attempt
  that may have been sent is never forgotten; ended chains and failures older
  than the opt-in are not continued; the rolling quota holds.
- *Claims*: holders exclude each other and the collector, and jobs as far as
  the code promises it; no overtaking;
  fences stop grants, also when half of a transaction was written; grantable
  requests are granted.
- *Jobs*: a worker past admission is alone on its resources; verdicts are
  true; a released reservation has no loose ends.
- *Communication*: a message leaves at most once, under a live grant; history
  is true; what was accepted is recorded, also in a full file.
- *Uploads*: what the catalog calls ready is whole; what somebody needs stays;
  what nobody needs is reclaimed.
- *Creation*: one request makes at most one session, under a name of its own,
  with its attachments, through every restart.
- *Lifecycle operations*: complete means done; running means worked on; a
  canceled archive does not happen; an abandoned journal is shown.
- *Teams*: no working thread without a record; a retired thread is quiet; a
  turn runs with the access its member has.
- *Observer*: one check at a time; no challenge about a settled concern; an
  open challenge is delivered.
- *Notifications*: an event once, to who wants it; the outbox drains.

## Modules

In every module one action is what a process does between two points at which
another process, or a crash, can be noticed: inside a lock that is one write.
A *cast* (or *world*) is a constant record chosen in the initial state that
says which kinds of events occur in a behaviour and how many operations and
faults; it lets one run cover several scenarios without their product.

### RetryRecord, TurnRetry

`RetryRecord` holds the operations on the record of one thread as operators
from record to record (`Observe`, `Begin`, `Accepted`, `Cancel`, `Stop`,
`RetryNow`, ...), named as in `turnretry/state.go` and `policy.go`, and
`Valid`, what `Save` accepts.

`TurnRetry` runs them. Every operation holds the thread's flock, so `pc` is the
place its holder has reached, `mem` its copy of the record and `disk` the saved
one. `StepLock` to `ReplyUnknown` are the controller's `Step` cut at every save
and native call; `ReconcileOnly` is the worker's pass over records that no
longer step; `ActionLock`/`Act` are Stop and Retry now; `ManagedAdmission`,
`CancelAdmission`, `UpdateThreadSettings` and `CancelSession` are the other
owners of the record; `SetPolicy` and `BootstrapPolicy` rewrite the policy
file. `Abort` is a crash, an error or a timeout at any cut. `NativeStart`,
`NativeFinish`, `Deliver`, `Lose`, `Prepare` and `Send` are the app server and
its submission ledger, external to this repository.

Left out: reasons and texts; the evidence about a turn, reduced to whether a
proof succeeds; the identity of the user's own messages; the legacy `Enabled`
bit, taken as set. Optional checkpoints of the summary may or may not be
written, together with the save they follow. Each reading of the wall clock is
an arbitrary member of `Times`. After a session is rebuilt its old record is
never touched again. Actions with an outdated token change nothing and are not
steps.

### ResourceClaims

`claims`, `fence`, `reviving`, `suspended` and `outbox` are the two files.
`Commit` is `Store#transaction`: ledger first, claims second, with a form in
which the process dies in between; `Sync` is `sync_claims_lifecycle`, the repair
every later transaction makes. `Acquire`, `Release` and `Cancel` are the
commands, `TickStart` to `TickEnd` the coordinator's pass over one owner with
its two loops (grant, announce), `SendStart`/`SendEnd` the notification worker,
`BindLifecycle`, `LifecycleCompleted`, `BindRevival` and `Revived` the
lifecycle, `SweepStart`/`SweepRemove`/`SweepEnd` the collector.

`legacy` is what retained jobs and reservations occupy: `JobClaim` is
`claim_ready`, `JobSettle` the end that `reconcile_attempts` finds,
`ReservationEnd` the release of a machine. `JobLate` is the transition of a
process that still carries what it made of the job's attempt (the rescue of
`dispatch`, the branches of `reconcile_attempts` without a result): it puts a
settled job back without looking at the claims granted meanwhile. Its guard is
only what `validate!` refuses, a resource of another claimed job; `over` keeps
which held claims the job came back over.

`HeldExclusive` says what the code keeps, which is less than
`docs/coordination.md:313-314` says ([disagreements](#disagreements)): nothing is
granted over anything, and a claimed job overlaps a held claim only when a late
transition put it back over that very claim. TLC reaches that overlap.
`SweepUndisturbed` is about grants; a late job does no work.

Left out: machine metadata, package versions and the size limit of the files
(all only refuse); revision numbers; the clock of a notice to be sent again,
which is pending; notices about jobs and reservations; owners without a
thread, which get no notice. Requests for several resources can starve by
design: an earlier request protects its place only while nothing it needs is
busy.

### RetainedJobs

`jobs`, `rsv`, `hist` and `fence` are the ledger; `att` is the attempt
directory, its lock, its systemd unit and the effect in the world. `Claim`,
`DispatchRequest`, `DispatchRun` and `DispatchUncertain` are the scheduler;
`WorkerStart`, `Admit`, `Intent`, `Effect`, `Verify` and `WorkerResult` the
worker; `ProbeRead` to `ProbeError` the reconciliation process; `PassStart` to
`PassEnd` is `reconcile_attempts`, which two processes may be in at once with
what they read earlier.

Left out: approvals, evidence and snapshots (a refusal is the absence of a
step), so the waiting states and `ready` are one; the order in which ready jobs
are considered; the bootstrap handover, suspension and revival. The three
intents of a merge are one. One reconciliation process runs at a time.

### Communication

`grants` and `msgs` are the state file, `lead` is the session seen by
`IdentityFor`, `holder` the dispatch that keeps the locks during its call.
`Allow`, `Revoke` and `SendMessage` are the commands; the `Dispatch` actions
are the branches of `Service.Dispatch`; `SendCall`, `SendUnknown` and
`SendConfirmed` the call. `Close`, `Expire` and `Reopen` are the lifecycle
around `expire_communication!`. Nothing is assumed of the app server about
repeated message ids. `Reconcile` may fail at any time and says "not found"
only for a message that was never attempted, as `reconcileRetrySend` does.
`Reserved` and `Admitted` are the byte budget of `store.go`.

Left out: reading, and the checks of texts and of a reply's reference
(refusals). Sizes are constants, each the largest a record can be.

### UploadCatalog, Uploads

`UploadCatalog` is `catalog.json` with the effect of each transaction as an
operator from catalog to catalog (`Compact`, `Prepared`, `BindPreparation`,
`Collect`, `RemoveSession`, `Fork`, ...); `SessionCreation` uses the same operators. `Uploads` is the
store at work: `cat` is what processes read, `durable` what a crash leaves,
`unconfirmed` the rename whose directory was not synced, `blob` the files.
Blobs change inside a transaction and before its catalog is written, so a crash
leaves them ahead of it. The composer, the form for new sessions, forks,
browser deletion in its two transactions, the hourly collector, and the queue
and transcript whose answers may be applied late are actions of their own.

A crash may keep or lose an unconfirmed rename. Scope and file ids are random
and never drawn again (`drawn`). All prompts have the same text, the worst case
for the lookups by text. The repository documents that removing a session
removes the files it owns even if a fork refers to them (`src/README.md:334-337`);
such files are in `removed` and exempt from `NeededKept`. Left out: sizes and
quotas, and the command line's own processes (`uploads remove-session`, fork),
whose `catalogUnconfirmed` flag is separate.

### SessionRequests, SessionCreation

`SessionRequests` is the promise: a request reserves one name, which no other
unfinished request holds, and at most one session is made for it. It may forget
a request only while nothing was made of it.

`SessionCreation` is the portal: `Post` and `FinishAccepting` take a request;
`Worker` actions claim its files, name it, reserve, bind, install the receipt
and hand off; `CreatorStep` actions are `runCreation` with the command;
`Reconcile*`, `StatusRead`, `Retry`, `RetryCreation`, `RetireAbsent` and
`Launch` are everybody else who moves a record on; `CliStart` and `CliRemove`
the terminal. A record has a copy in memory, a file and what a crash leaves of
the file. `KeepsPromise` maps it to the promise: the name of a request is the
one in its preparation, a request is held while its preparation is unfinished in
memory or in what a crash leaves, and `made` counts its sessions in the history
`created`. A request is `gone` once its session was made and removed again: its
name is then free for another request, even while its own record is not settled
(see [disagreements](#disagreements) for how that comes about).

Left out: the capacity of the receipt store (`maxCreationReceipts`, a refusal)
and checks of a fork's or plan's source.

### LifecycleOperations

One session, its directory (`dir`), the journal `dev-session` keeps, the
processes and units that run it, the portal's receipt (`op`, `opFile`) and the
sidecar of an archive preparation (`side`, `sideFile`). `AskRead`/`StartInstall`
are the confirmation and its installation, `RefreshRead`/`RefreshAccept` the
display worker with the compare-and-swap on the receipt it read, `PrepCheck` to
`PrepFail` the preparation with its repair turns, `ExecCheck` to `SaveOutcome`
the executor, `ProcStart`, `ProcStep` and `ProcDie` the command, `Terminal` a
command at a terminal, `Close`, `Down` and `Crash` the end of the portal.

The identity of an adopted receipt is a hash that may repeat after a dismissal,
so uniqueness of jobs is stated for receipts that were not adopted. A unit is
named after the receipt in place when it is launched (`Launch`), which need not
be the one its operation is of; `dev-session` looks at the stored receipt itself
before it begins (`Authorized`, `Meant`) and refuses what does not agree with it.
Every save of the sidecar may fail: the goroutine then leaves the preparation as
it is (`Left`) or takes it up again with what it has (`Admit`). Three histories
carry what the properties are about: `revoked` the canceled preparations,
`stranded` the attempts whose end could not be saved, `missed` the attempts the
last restart left alone. A goroutine is a job from the moment it is started; that
its first step finds the receipt it was started for is part of that step. `Close`
lets goroutines and their commands come to an end, `Down` is the restart after
it. Left out: operations on several sessions at once, recovery requests, the
automatic schedule.

### TeamRuntime

The roster (`member`), the lead (`root`), the app server's threads (`native`),
calls on their way to it (`flight`), the submission ledger, captured queues
(`held`) and the operation under the operation lock (`run`). Each operation is
cut into its roster updates and native calls; `Execute` performs a call at any
time, also after its caller gave up (`GiveUp`) or died (`Abort`). `LoadMember`
to `MakeReady` is the creation of a member, `ReserveReplacement` to
`FreshDeleted` its replacement, `LoadRemove` to `RetireMember` its removal,
`PrepareDelete` to `EndRetirement` the archival, forced or not, with
`QuiesceHold`, `QuiesceQueue` and `QuiesceTurn` as `archive_explicit.go`,
`RecoverCreatingThread` to `LeadRetired` the lead, `ReviveLead` to `Revived` and
`ForkNext`, `ForkBoot` the rest.

Assumed of the app server: a repeated call supersedes its earlier copy; deleting
a fresh thread never hits one with a rollout; archived threads refuse messages;
a thread without rollout may be forgotten (`Unload`). Simplified: one
unresolved message and one queued prompt per thread; the reads over all members
of `CheckAll` are one step; members are visited in any order; an update that
fails is the operation ending before or after it. A reservation a deletion gave
up is exempt from `NoOrphan` (`docs/dev-sessions.md:733-740`). Two late starts
of the lead may both happen; recovery then refuses as ambiguous, and fresh
threads without rollout are lost with the app server, so for the lead the
property speaks of threads with a rollout. Queue rows survive an archive, but
nothing starts them.

Left out: settings of model and effort, native descendants, the pause of a
goal, the fork of the lead's thread, the identity of a repeated preset, and the
release of the operation lock in `BeforeCreate`.

### ProgressObserver

`disk` is the saved record, `check` the check that runs with its copy, the rest
the observers, their threads and the checks in the air. `Begin` to the notice
(`Step`) is `checkProgress`; times are compared with the beginning of the check,
so `LastCheck` is never, fresh or old, and a pending check late or not. An
unknown submission past its deadline blocks further checks and older notices by
design ("An uncertain outcome never permits a replacement request",
`docs/dev-sessions.md`). The text of evidence and prompts is data.

### BrowserNotifications

The session (`world`), what the portal has seen of it (`cache`), the store in
memory and on disk, the worker's `job` between picking and pushing. `Observe`
and `Reconcile` are observation and reduction, `Pick` to `Post` the delivery,
the others are the user and time. A state past the limits is refused and fences
the store like any failed save. Of two questions in one observation only the
first is pushed, and a gap never emits, as the code has it. A turn has an
identity of its own, also across sessions made under the name (the code compares
identities of the app server), so `turns` only counts up. Encryption and the
checks of endpoints only refuse.

## Runs

| Run | Instance | States | Checks |
|---|---|---|---|
| `turn_retry` | a managed thread with 3 turns or a new one with 2, 2 attempts against a quota of 1, 3 outcomes, 2 clock readings in a window of 2, 1 intervention | 1.7 million | `TypeOK`, `NoLostReceipt`, `AtMostOneContinuation`, `QuotaRespected`, `NoSendAfterEnd`, `NoOldFailureContinued` |
| `claims` | 2 requests (`y`; `x` and `y`) of 2 sessions for a Git directory `x` and a machine `y`, a deployment to `y` with its reservation, 1 death, all lifecycles, collector | 1.3 million | `HeldExclusive`, `SweepUndisturbed`, `FencedHoldsNothing`, `CutNeverGranted`, `NoOvertaking`, `NeverStuckGrantable` |
| `jobs` | a merge, then a profile under a reservation, 2 attempts each, 2 passes, 1 death, claims of others on the machine | 2.6 million | `MutatorsExclude`, `VerdictsTrue`, `ReleasedIsSettled` |
| `mail` | 2 leads, 2 messages, 2 grants, 2 incarnations, 1 death, a file too small for all of them | 298 thousand | `SubmittedOnce`, `HistoryTrue`, `GrantsEndWithSession`, `SentUnderGrant`, `AcceptedIsRecorded` |
| `uploads` | a draft, a session's scope, a file; a session with its fork, or its removal with 1 fault | 102 thousand | `BlobsWhole`, `NeededKept`, `Reclaimed` |
| `creation` | 5 casts: two requests for one name; a request, a form and a terminal; two attempts with 2 faults; the same with a terminal; two requests, a terminal and a fault | 382 thousand | `KeepsPromise`, `AcceptedFilesKept`, `ReadyIsMade`, `SomebodyWorks` |
| `lifecycle` | 5 casts: prepared archive with retry and a fault; supervised archive with a fault; delete, revive, archive against a terminal with 2 receipts | 300 thousand | `CompleteIsTrue`, `Attended`, `CanceledNeverArchives`, `PendingShown` |
| `team` | 12 casts over 2 members, the lead and 3 threads, 3 to 6 operations, up to 3 faults | 1.6 million | `NoOrphan`, `RetiredIsQuiet`, `TurnsKeepAccess` |
| `progress` | 6 casts, 2 observers, up to 3 checks, up to 2 faults | 298 thousand | `OneCheck`, `NoStaleChallenge`, `NoticeDelivered` |
| `notifications` | 7 casts, 2 questions, 2 endpoints, 3 registrations, 2 turns, 2 sessions under the name, 2 tries, outbox of 2 | 276 thousand | `EmittedOnce`, `NoUnwantedPush`, `OutboxDrains` |
| `team_forced` | the casts of `team` | | [`ForcedRetires`](#disagreements), violated |
| `lifecycle_resume` | a prepared archive against a terminal command, a restart or a crash | | [`PreparationsResume`](#disagreements), violated |

What the runs show is the sentence `about` of each in `PROJECT.json`; each
property is stated in words above its definition.

Why the bounds are enough. A second attempt, claim, message, job, check or
receipt is what it takes to take the place of the first; the third turn is the
one a continuation of the second failure starts. A second charge against a quota
of one is the first violation of it, and two clock readings against a window of
two include standing still, going back and the edge. A single death between any
two steps reaches every cut; where a repair can itself be cut (team, creation,
progress) there are two or three. In `mail` two grants and two messages do not
all fit: if `admit` reserved nothing for receipts the last save of an accepted
message would be refused for good, and the liveness property would fail. In
`uploads` one file is enough, since the catalog treats files independently
except in the set a prompt names. In `lifecycle` two receipts and two
directories under one name give every confusion of old and new. In `team` a
third thread is the one a mistaken second start makes after a replacement.
`ManagedInit` of `turn_retry` is the state after `StartThread`,
`BootstrapPolicy` and one pass of the worker; the new thread starts as `Init`
has it, but for the number of its first turn. In `jobs` other sessions claim the
machine only (`Wanted`). Its two jobs use disjoint resources: that no two workers
meet on a resource across jobs is what the theorem `WorkersAlone` carries, while
the run has the workers of one job and the claims of others. In `claims` the
request for `y` alone and the deployment compete for the machine, which the
reservation guards a second time; the job uses no Git directory, so that a
collector against a job being claimed is left to the theorem `CollectorAlone`.

Deadlock is not checked: each system may come to rest (everything delivered,
settled or given up, and the bounds used up).

Every property has a mutant in `PROJECT.json`: a definition changed the way a
mistake in the code would change it, for which TLC finds the property violated.
Each module defines its `TypeOK`; a run checks that of `TurnRetry`, which the
proofs build on.

## Fairness

- `ResourceClaims`: `run_coordinator` visits every owner with work at least
  every five seconds and finishes its pass; the collector finishes its sweep.
  The pass is strongly fair since others may hold the locks on some visits.
- `Communication`: `startCommunication` visits unfinished messages in rotation,
  at most sixteen per round; calls end within their deadline; a thread that has
  accepted a message is some day found to have done so (strong, because the
  lookup fails at times).
- `Uploads`: the next transaction confirms, the collector runs every hour and
  gets `uploadCreationMu` sometimes (strong), a handler that has begun ends.
- `LifecycleOperations`: the display worker's ticker, the goroutines of the
  portal, the `dev-session` processes and the shutdown go on. Nothing is
  assumed of users or of restarts.
- `ProgressObserver`: the ticker (strong: an operation may keep it out at
  times), the running check, the end of a session operation, the deadline, and
  the end of a turn that was interrupted.
- `BrowserNotifications`: the worker's ticker, and the expiry of a delivery.
  There is no fairness on a restart, so `OutboxDrains` allows a fenced store.

`TurnRetry`, `RetainedJobs`, `SessionCreation` and `TeamRuntime` are checked
for safety only. For the last two, whether something happens in the end depends
on users who retry; for the first two the graphs with their liveness are too
large at bounds where the safety properties are interesting.

## What is proved

The theorems hold for every set of owners, requests, resources, jobs, sessions,
messages, grants, observers, browsers, receipts and casts, and for every value
of the bounds, from the assumptions named in the modules. Most of these only say what kind of
value a constant is, that requests, messages and grants are finitely many, and
that `None` is none of the values it stands apart from. Three say more:

- `JobsAssumption`: a job that is not a merge has a reservation, of its own
  owner, which `create_job` demands (`workspace-coordination.rb:1409-1413`).
- `ProgressAssumption`: observers are numbered in the order the team lists them,
  so that the first ready one is the smallest.
- `NotificationsAssumption`: there is a session.

Each invariant below was checked with TLC on the instance of its run before it
was proved.

- `TurnRetryProofs!TypeCorrect`. One lemma per operation of the record says
  that it returns a record and what it does with the pending attempt; the
  actions follow from them.
- `TurnRetryProofs!ReceiptsKept` (`NoLostReceipt`). The property speaks of
  the saved record only. It becomes inductive together with what the lock
  holder has in hand: its copy names every outstanding attempt
  (`HeldReceipt`), nothing is outstanding at the points where the pending
  attempt may be replaced (`Quiet`), and what is about to leave is saved as
  uncertain (`InHand`). A rejected `Save` changes nothing on disk.
- `TurnRetryProofs!ContinuedOnce` (`AtMostOneContinuation`), from `ReceiptInv`
  and `OnceInv`. A call is made for the failure of the pending attempt, so the
  invariant follows that failure: no call was made for it under another identity
  (`Tied`), and none under its own while it may still be dispatched (`Unsent`).
  A newly scheduled failure is new because at the point where the native thread
  is read every earlier call is settled (`Quiet` above, `Settled`), a settled
  call has started a turn, and that turn came after the failure it continues
  (`Answered`, `Ahead`, `Dated`). The proof does not need `Handled`: what it adds
  is that a cancelled failure stays cancelled.
- `TurnRetryProofs!QuotaKept` (`QuotaRespected`), from the two invariants above
  and `QuotaInv`. The property counts calls, the code counts charges. Every call
  that may still count has a charge under its identity, dated no earlier than the
  call, in the saved record and in the holder's copy (`Booked`); no two calls
  share an identity (`SentOnce`), so the calls of a window are no more than the
  charges, and these are within the limit where a call is made (`Reserved`).
  Renewing a reservation drops a charge; that it is not one that counts is what
  `Unsent` says. The record's clock, which never goes back, makes the argument
  independent of the wall clock.
- `TurnRetryProofs!EndedStaysEnded` (`NoSendAfterEnd`) and `OldStaysOld`
  (`NoOldFailureContinued`), from the three invariants above and `OverInv`. Both
  properties speak of the step that makes a call; the invariant speaks of the
  record behind it, saved and in hand. Chains only get later (`Order`); a chain
  that was ended is cancelled, suppressed by the policy or earlier than the
  record's (`Shut`); a failure that was over is earlier than the newest turn or
  is at a watermark (`Past`), and an attempt left from such a failure belongs to
  a suppressed chain (`Live`), which is what makes switching a preference off and
  on safe. The rest says that what the lock holder read is not stale where it is
  used: its decision is the policy's (`Decided`), its reading of the native thread
  is the newest turn or an older one the watermarks cover (`Seen`), and nothing
  ends a chain between the last look and the call (`Sending`).
- `ResourceClaimsProofs!Exclusion`, `FenceClean`, `CutStaysCut`, from one
  invariant. Of `Exclusion` the step that matters is the late transition: the
  claims it comes back over are exactly those recorded, a later grant is refused
  by it, and a settled job forgets them. The other important parts are that a
  held claim's owner is
  not fenced, and that a request cut by a fence is canceled or still behind
  it: with that, a torn transaction is harmless, because every later step that
  lifts the fence first writes what `Sync` says. `QueueOrder` (`NoOvertaking`)
  follows from the definition of `Blocked` for both ways of granting, and needs
  that new requests get the largest sequence number. `CollectorAlone`
  (`SweepUndisturbed`) adds `SweepInv`: while the collector sweeps, no pass of
  the coordinator runs, so that nothing becomes busy but what it has not looked
  at.
- `RetainedJobsProofs!WorkersAlone` (`MutatorsExclude`), `TrueVerdicts`
  (`VerdictsTrue`) and `ReleasedClean` (`ReleasedIsSettled`), from `JobInv`. The
  ledger alone does not carry the argument: a pass and the rescue of `dispatch`
  move a job without looking whether it is still claimed, one of the
  [disagreements](#disagreements). What makes it harmless are the attempt
  directories: a worker never runs over a result (`AttemptOK`), every attempt
  that was left has a verdict and every later one has not started
  (`Superseded`, `Current`), and a claimed job *without a result* has its
  resources to itself (`Fresh`, `Apart`). What passes, dispatches and probes
  have in hand is stale but never ahead of the ledger (`QueueOK`, `PassOK`,
  `ProbeOK`).
- `CommunicationProofs!OnceOnly`, `TrueHistory` and `OnlyUnderGrant`, from
  `MailInv`: what has left is `submitting` or `delivered`, so that neither a
  revocation nor a later dispatch takes it for unsent, and a dispatch about to
  send still has what it checked, because it holds the locks. `GrantsEnd` needs
  only the types and that a grant is made between sessions that resolve.
- `ProgressObserverProofs!OneCheckAlways` (`OneCheck`) and `NoStaleAlways`
  (`NoStaleChallenge`), from `CheckInv`. The copy a check works on is what it
  last saved (`Same`); a check that is on its way or in a running turn is the
  one the record names as pending (`Held`); and the record gives that one up
  only when its only turn is over (`Once`, `Placed`), when its observer is
  retired and so quiet (`Gone`), or before it was sent (`Running`).
- `BrowserNotificationsProofs!AnnouncedOnce` (`EmittedOnce`), from `OnceInv`.
  The baseline, the worker's observation and the cache are ever later views of
  the session: what an earlier one has and a later one misses is over and in
  none that is later still (`Questions`, `Turns`, `Completed`). So an announced
  question is in the baseline or will never be seen again (`AskedOnce`), and an
  announced turn is the baseline's completed one or was left (`DoneOnce`).
- `BrowserNotificationsProofs!PushesWanted` (`NoUnwantedPush`, an action
  property), from `PushInv`. The outbox holds nothing of a muted session unless
  another was made under its name since (`Deliveries`, with `Muted` and
  `Unbound` about a choice that is not bound yet); the second look drops what is
  of an earlier session; and while the worker looks nobody puts back what a
  choice made meanwhile took out (`Looked`).
- `SessionCreationProofs!CreationKeepsPromise` (`KeepsPromise`, the refinement)
  and `ReadyReceiptsAreMade` (`ReadyIsMade`), from `IInv`. Receipts, workers,
  sessions and what was made each bear an owner, a name and an epoch, a *mark*;
  two marks with one owner are the same mark (`MarksAgree`), because the receipts
  of a request are installed only under a reservation that no crash can lose
  (`Anchored`) and the owner of a form is new. `Stored` relates the three copies
  of a request's record: memory agrees with the file, and the file is what
  survives a crash or comes after it. So evidence found under an owner is about
  the session at hand, and `Make` happens once per request. One lemma per action
  then maps it to a step of the promise or to a stutter. `NamesStayApart` proves
  what the promise means: one session per request, and names apart.
- `LifecycleOperationsProofs!CompletionsAreTrue` (`CompleteIsTrue`) with
  `ReceiptsKeepShape`, from `CompleteInv`. A receipt is copied into readings, jobs
  and their results, to disk and back, so the invariant speaks of every copy: one
  that may yet be proved complete by where its directory is knows how that
  directory got there, by a finished operation of its kind or one whose journal
  is still pending (`Traced`, `Faithful`, `WorldTrue`).
- `LifecycleOperationsProofs!RunningIsAttended` (`Attended`), from `AttendInv`.
  The number of an attempt is drawn once: a receipt that is being installed is
  strictly newer than all there is (`Numbers`), so what carries its number is of
  it. Each job then either has its receipt in place or has been followed or
  superseded (`JobsFollowed`, `OneJob`), and a receipt shown as running is
  matched with its job, its unit or one of the two exceptions (`Shown`). The
  exceptions are the code's: a cancellation or failure whose save failed, and
  what `lifecycle_resume` shows.
- `LifecycleOperationsProofs!CanceledStaysUnarchived` (`CanceledNeverArchives`),
  from `CancelInv`. A canceled attempt is in nobody's hands any more, in memory
  or on disk (`Revocations`); a job that may still start its command has the
  receipt of its attempt to itself (`Holding`), so that no late reading or retry
  moves that attempt on under it, and there is no command of an attempt that was
  not begun (`Unstarted`). The property and the last two parts assume
  `UnitsNamed`, which a late launch can break (see
  [disagreements](#disagreements)): a unit under another receipt's name decides
  what that receipt is shown as.

Model-checked only: all liveness properties and everything about `ENABLED`,
which are out of the prover's reach; `AcceptedFilesKept` and `SomebodyWorks` of
`SessionCreation`; and `Uploads` and `TeamRuntime` as a whole.

## Disagreements

Two runs show a disagreement between the code and what the repository says of
it; `PROJECT.json` quotes the lines.

- `lifecycle_resume`: "The browser can be closed: the portal owns preparation and
  resumes its durable record after restart." A restart that finds the journal of
  another command loads an active preparation and leaves it alone; the display
  worker takes it for being worked on. Nobody works on it, also when the other
  command has ended, until it is canceled or the portal restarts again.
- `team_forced`: "A forced deletion can also retire a member whose thread was
  confirmed while member creation remained unfinished". If a replacement or
  removal of that member has begun, the last update of every forced deletion is
  refused by the roster's validation.

Seen while modelling, and not kept as runs:

- "Legacy jobs and reservations exclude conflicting claims"
  (`docs/coordination.md:313-314`). A late transition of `dispatch`
  (`workspace-coordination-execution.rb:742`) or `reconcile_attempts` (803, 807,
  814) marks a settled job as claimed again, over a claim granted meanwhile, until
  the next pass. `JobLate` in `ResourceClaims` and the passes and dispatches of
  `RetainedJobs` are that transition. `HeldExclusive` allows the overlap for it
  and for nothing else, and is proved so. It does not let two workers change the
  same resource: `MutatorsExclude` is proved with it.
- "Retirement also waits for confirmation of an already published mapping"
  (`docs/session-preparations.md:386-389`). `retireCreation`
  (`creation_store.go:191`) leaves that to the compaction, which returns at once
  unless the receipt is settled (`preparation.go:965-968`). When the compaction at
  the end of `runCreation` cannot sync the mapping, the receipt is paused
  (`creation.go:858-869`); once the terminal has removed the session, it is
  retired with the mapping unconfirmed, and a crash brings the request back
  unfinished under a name another may hold. No second session is made: it is the
  `gone` of `SessionRequests`, and the refinement is proved with it.
- "The unit identity must match the retained portal authorization"
  (`docs/session-archive-recovery.md:311-312`). `runSupervisedArchive` reads the
  receipt in place again (`archive_worker.go:76-81`) and names the unit after it.
  When the terminal has removed the session and another archive was requested
  meanwhile, the unit bears the new receipt's name and the old operation's
  arguments. `dev-session` refuses it, so nothing is archived by mistake, but the
  new archive finds its unit failed before it started it. This breaks
  `UnitsNamed` (three operations, an archive and a prepared one, supervised,
  against a deletion and a creation at the terminal).

- `tick_claims_ready` (`workspace-coordination-claims.rb:443`) raises on a
  waiting request with a changed mapping before it reaches the announcements,
  so another grant of that session is not announced; `docs/coordination.md:43-44`
  says a queued grant sends a notification.
- A probe that waited for a live worker replaces the worker's
  `baseline_changed` by `not_applied` (`workspace-coordination-execution.rb:119`),
  and the job fails instead of asking for a refresh
  (`docs/coordination-legacy.md:151`, `docs/coordination-operations.md:96-97`).
- "A manually assigned observer turn is never steered or interrupted by a
  check" (`progress_observer.go:329`): a natively queued message that starts
  between the idle read and the send is steered, and interrupted at the
  deadline.
- A machine attempt first recorded as unknown and then proved not applied keeps
  its history entry and its reservation blocked; jobs in `reconciling` whose
  worker still runs do not count against the four slots. No document promises
  otherwise.

Exposed to a fault the models do not reach: a process killed inside
`with_repository_claim` leaves its claim held until an operator releases it;
`suspend` of the host command checks for claimed jobs in one transaction and
records the suspension in another; the count shown for turn retry is written in
best effort beside the record; a process group may be signalled after its
leader ended.

## Not modelled

- *Host command, packaging*: orchestration of systemd and nix, whose state is
  outside the repository.
- *Session lifecycle command*: modelled as its callers see it (journal,
  directory, fence, evidence, the lead's thread); its single phases around git
  and tmux are not.
- *Integration*: driven by the results of builds and of git, which a small
  model cannot tell apart.
- *Archive cleanup and recovery, tracking synchronisation*: sequential file
  handling under one lock, checked by digests of data the models do not have.
- *Codex providers*: in the other modules a refusal an admission may meet.
- *Agent team catalog*: parsing and validation without state of its own.
- *Process groups*: what can go wrong lies in the kernel's reuse of process
  numbers, which the code cannot observe.
- *Repository review, status, cluster, pages*: read-only views.

The file system is taken to be as the code uses it: a rename is atomic. That it
may be lost until the directory is synced is modelled where the code handles
it (`Uploads`, `SessionCreation`, `BrowserNotifications`); elsewhere it is
durable once it returned.

## Plan

The modules were written in the order of what cannot be taken back: effects
outside the workspace first (turn retry, claims, jobs, communication), then the
files and records a user relies on (uploads, creation, lifecycle, teams), then
the portal's background workers. What is worth doing next:

1. proofs of the invariants of `Uploads` and `TeamRuntime`;
2. `RetainedJobs` composed with `ResourceClaims` in place of the resource sets
   by which each now sees the other;
3. the provider switch and the integration journals.
