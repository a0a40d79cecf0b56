--------------------------- MODULE SessionCreation ---------------------------
(***************************************************************************)
(* Creation of sessions through the portal (web/preparation*.go,           *)
(* web/creation*.go) with the upload catalog and the dev-session command.  *)
(*                                                                         *)
(* A browser posts a request with an id of its own.  The portal saves an   *)
(* intent, claims the attached files, finds a free name, saves the         *)
(* reservation, binds the files to it and installs a creation receipt;     *)
(* a second worker then runs dev-session, which writes evidence under the  *)
(* receipt's identity.  Other forms install a receipt under a given name.  *)
(* Both kinds of record survive crashes; workers do not.  Somebody at the  *)
(* terminal starts and removes sessions meanwhile.                         *)
(*                                                                         *)
(* A record is saved by a rename and a sync.  A rename that could not be   *)
(* synced publishes the record in memory as unconfirmed; whoever touches   *)
(* it next confirms it first.  A crash may lose it.                        *)
(***************************************************************************)
EXTENDS UploadCatalog, Sequences

CONSTANTS
    Directs,      \* requests of the forms that name their session
    Cli,          \* whoever uses dev-session at the terminal
    DirectSlug,   \* the name in each such form
    Bases,        \* names the namer or a user may choose
    NoBase,
    Candidates,   \* the destinations of each base, in the order of suffixes
    CustomOf,     \* the name typed into each request's form, or NoBase
    ScopeOf,      \* the upload draft of each request's form
    AttachOf,     \* the files attached to each request
    ThreadOf,     \* the thread of each session
    MaxAttempt,   \* bound: attempts of a preparation or a receipt
    MaxGen,       \* bound: receipt identities drawn for one request
    Casts         \* who acts in a behaviour, and the bounds on its attempts
                  \* and on failed saves, stops and crashes

ASSUME SessionCreationAssumption ==
    /\ DirectSlug \in [Directs -> Slugs] /\ Directs \cap Requests = {}
    /\ Cli \notin Directs \cup Requests
    /\ NoBase \notin Bases /\ Candidates \in [Bases -> Seq(Slugs) \ {<<>>}]
    /\ CustomOf \in [Requests -> Bases \cup {NoBase}]
    /\ ScopeOf \in [Requests -> Scopes]
    /\ AttachOf \in [Requests -> SUBSET Files]
    /\ ThreadOf \in [Slugs -> Threads]
    /\ MaxAttempt \in Nat \ {0} /\ MaxGen \in Nat \ {0}
    /\ Casts \subseteq [asking : SUBSET Requests, forms : SUBSET Directs,
                         terminal : BOOLEAN, attempts : 1..MaxAttempt, faults : Nat]

VARIABLES
    cast,         \* never changes
    cat,          \* the upload catalog
    prep,         \* s.preparations
    prepFile,     \* the preparation files as they are read
    prepSafe,     \* the preparation files after a crash that loses the rename
    unconfirmed,  \* s.preparationUnconfirmed
    work,         \* s.preparationWork
    workers,      \* runPreparation goroutines
    cre,          \* s.creations
    creFile,      \* the receipt files
    creators,     \* runCreation goroutines
    session,      \* the sessions of the workspace and whom each was made for
    hist,         \* completed removals of each slug
    bound,        \* receipts the command has bound to its request file
    evidence,     \* receipts with completion evidence
    created,      \* history: every session ever made, and for whom
    gens,         \* identities drawn for each request
    faults

prepStore == <<prep, prepFile, prepSafe, unconfirmed>>
creStore  == <<cre, creFile>>
world     == <<cast, session, hist, bound, evidence, created>>
vars == <<cast, cat, prep, prepFile, prepSafe, unconfirmed, work, workers, cre,
          creFile, creators, session, hist, bound, evidence, created, gens, faults>>

Owners == [req : Requests \cup Directs \cup {Cli}, gen : 0..MaxGen]
Nobody == [req |-> Cli, gen |-> 0]

NoPrep == [st |-> "none", gen |-> 0, attempt |-> 0, base |-> NoBase,
           custom |-> FALSE, slug |-> NoSlug, epoch |-> 0, goal |-> FALSE,
           outcome |-> "none"]
NoWork == [attempt |-> 0, dispatched |-> FALSE, stopped |-> FALSE]
NoReceipt == [st |-> "none", owner |-> Nobody, epoch |-> 0, attempt |-> 0,
              validated |-> FALSE]
NoSession == [st |-> "none", owner |-> Nobody]

Preps == [st : {"none", "accepting", "running", "paused", "failed",
                "handed_off", "terminal"},
          gen : 0..MaxGen, attempt : 0..MaxAttempt, base : Bases \cup {NoBase},
          custom : BOOLEAN, slug : Slugs \cup {NoSlug}, epoch : 0..MaxEpoch,
          goal : BOOLEAN, outcome : {"none", "ready", "conflict"}]
Receipts == [st : {"none", "running", "paused", "failed", "ready", "conflict"},
             owner : Owners, epoch : 0..MaxEpoch, attempt : 0..MaxAttempt,
             validated : BOOLEAN]

(* Every variable has its shape. *)
TypeOK ==
    /\ cast \in Casts /\ cat \in Catalogs
    /\ prep \in [Requests -> Preps] /\ prepFile \in [Requests -> Preps]
    /\ prepSafe \in [Requests -> Preps] /\ unconfirmed \subseteq Requests
    /\ work \in [Requests -> [attempt : 0..MaxAttempt, dispatched : BOOLEAN,
                              stopped : BOOLEAN]]
    /\ workers \subseteq [req : Requests, attempt : 1..MaxAttempt,
                          pc : {"claim", "name", "reserve", "bind", "install",
                                "handoff", "fail"}]
    /\ cre \in [Slugs -> Receipts] /\ creFile \in [Slugs -> Receipts]
    /\ creators \subseteq [slug : Slugs, owner : Owners, epoch : 0..MaxEpoch,
                           attempt : 1..MaxAttempt, validated : BOOLEAN,
                           pc : {"init", "command", "started", "prove", "ready",
                                 "failed", "compact"}]
    /\ session \in [Slugs -> [st : {"none", "creating", "ready"}, owner : Owners]]
    /\ hist \in [Slugs -> 0..MaxEpoch]
    /\ bound \subseteq Owners /\ evidence \subseteq Owners
    /\ created \subseteq [owner : Owners, slug : Slugs, epoch : 0..MaxEpoch]
    /\ gens \in [Requests \cup Directs -> 0..MaxGen] /\ faults \in Nat

\* A draft with the attached files uploaded, before anybody asks for anything.
Uploaded == [EmptyCatalog EXCEPT
    !.scope = [s \in Scopes |-> [NoScope EXCEPT !.st = "live", !.draft = TRUE]],
    !.file = [f \in Files |-> [st |-> "ready", scope |-> {CHOOSE s \in Scopes :
                  \E r \in Requests : f \in AttachOf[r] /\ ScopeOf[r] = s},
                  off |-> 0, old |-> TRUE]]]

Init ==
    /\ cast \in Casts /\ cat = Uploaded
    /\ prep = [r \in Requests |-> NoPrep] /\ prepFile = prep /\ prepSafe = prep
    /\ unconfirmed = {} /\ work = [r \in Requests |-> NoWork] /\ workers = {}
    /\ cre = [s \in Slugs |-> NoReceipt] /\ creFile = cre /\ creators = {}
    /\ session = [s \in Slugs |-> NoSession] /\ hist = [s \in Slugs |-> 0]
    /\ bound = {} /\ evidence = {} /\ created = {}
    /\ gens = [r \in Requests \cup Directs |-> 0] /\ faults = 0

OwnerOf(r) == [req |-> r, gen |-> prep[r].gen]
Unfinished(rec) == rec.st \notin {"none", "terminal"}

\* operationMu: the steps of a handoff and of a compaction keep it.
Mu == /\ \A w \in workers : w.pc \notin {"bind", "install", "handoff"}
      /\ \A c \in creators : c.pc # "compact"

(***************************************************************************)
(* Saving.                                                                 *)
(***************************************************************************)
Saved(r, rec) ==
    /\ r \notin unconfirmed
    /\ prep' = [prep EXCEPT ![r] = rec] /\ prepFile' = [prepFile EXCEPT ![r] = rec]
    /\ prepSafe' = [prepSafe EXCEPT ![r] = rec]
    /\ UNCHANGED <<unconfirmed, faults>>
Published(r, rec) ==
    /\ r \notin unconfirmed /\ faults < cast.faults /\ faults' = faults + 1
    /\ prep' = [prep EXCEPT ![r] = rec] /\ prepFile' = [prepFile EXCEPT ![r] = rec]
    /\ unconfirmed' = unconfirmed \cup {r}
    /\ UNCHANGED prepSafe
Unsaved == /\ faults < cast.faults /\ faults' = faults + 1
           /\ UNCHANGED prepStore
NotSaved(r, rec) == Published(r, rec) \/ (r \notin unconfirmed /\ Unsaved)

ReceiptSaved(s, rec) ==
    /\ cre' = [cre EXCEPT ![s] = rec] /\ creFile' = [creFile EXCEPT ![s] = rec]
    /\ UNCHANGED faults
ReceiptNotSaved(s, rec) ==
    /\ faults < cast.faults /\ faults' = faults + 1
    /\ creFile' \in {creFile, [creFile EXCEPT ![s] = rec]}

\* confirmPreparationLocked; a compaction begins with it.
Confirm(r) ==
    /\ r \in unconfirmed /\ \A w \in workers : w.pc \notin {"bind", "install", "handoff"}
    /\ unconfirmed' = unconfirmed \ {r}
    /\ prepSafe' = [prepSafe EXCEPT ![r] = prepFile[r]]
    /\ UNCHANGED <<cat, prep, prepFile, work, workers, creStore, creators, world,
                   gens, faults>>

(***************************************************************************)
(* Acceptance of a request.                                                *)
(***************************************************************************)
Key(r) == [scope |-> ScopeOf[r], kind |-> "initial", attempt |-> r]

\* ClaimPreparation, which has nothing to do for a request without files.
CanHold(c, r) == \/ AttachOf[r] = {}
                 \/ ClaimStands(c, Key(r), AttachOf[r])
                 \/ CanClaim(c, Key(r), AttachOf[r])
Claimed(c, r) == IF AttachOf[r] = {} \/ Key(r) \in Subs(c) THEN c
                 ELSE Prepared(c, Key(r), AttachOf[r], TRUE)

Pending(r, rec) == IF work[r].attempt = rec.attempt THEN work
                   ELSE [work EXCEPT ![r] = [NoWork EXCEPT !.attempt = rec.attempt]]

\* createPreparation: a new request leaves an intent.
Post(r) ==
    LET rec == [NoPrep EXCEPT !.st = "accepting", !.gen = gens[r] + 1, !.attempt = 1]
    IN /\ Mu /\ r \in cast.asking /\ prep[r].st = "none" /\ gens[r] < MaxGen
       /\ CanHold(Compact(cat), r)
       /\ gens' = [gens EXCEPT ![r] = @ + 1]
       /\ \/ (Saved(r, rec) \/ Published(r, rec)) /\ work' = Pending(r, rec)
          \/ Unsaved /\ UNCHANGED work
       /\ UNCHANGED <<cat, workers, creStore, creators, world>>

Launched(r, rec, wk) ==
    /\ work' = [wk EXCEPT ![r].dispatched = TRUE]
    /\ workers' = workers \cup {[req |-> r, attempt |-> rec.attempt, pc |-> "claim"]}

\* createPreparation again, or the rest of the first call: finish accepting.
FinishAccepting(r) ==
    LET rec == [prep[r] EXCEPT !.st = "running", !.goal = TRUE] IN
    /\ Mu /\ prep[r].st = "accepting" /\ r \notin unconfirmed
    /\ CanHold(Compact(cat), r) /\ cat' = Claimed(Compact(cat), r)
    /\ \/ Saved(r, rec) /\ Launched(r, rec, Pending(r, rec))
       \/ Published(r, rec) /\ work' = Pending(r, rec) /\ UNCHANGED workers
       \/ Unsaved /\ UNCHANGED <<work, workers>>
    /\ UNCHANGED <<creStore, creators, world, gens>>

\* createPreparation and retryPreparation of a request whose launch is due.
Launch(r) ==
    /\ Mu /\ prep[r].st = "running" /\ r \notin unconfirmed
    /\ work[r].attempt = prep[r].attempt /\ ~work[r].dispatched
    /\ Launched(r, prep[r], work)
    /\ UNCHANGED <<cat, prepStore, creStore, creators, world, gens, faults>>

Stalled(r) == work[r].attempt = prep[r].attempt /\ work[r].stopped

\* retryPreparation before the handoff.
Retry(r) ==
    LET rec == [prep[r] EXCEPT !.st = "running", !.attempt = @ + 1] IN
    /\ Mu /\ r \notin unconfirmed /\ prep[r].attempt < cast.attempts
    /\ \/ prep[r].st \in {"accepting", "paused", "failed"}
       \/ prep[r].st = "running" /\ Stalled(r)
    /\ \/ Saved(r, rec) /\ Launched(r, rec, Pending(r, rec))
       \/ Published(r, rec) /\ work' = Pending(r, rec) /\ UNCHANGED workers
       \/ Unsaved /\ UNCHANGED <<work, workers>>
    /\ UNCHANGED <<cat, creStore, creators, world, gens>>

\* setPreparationName
SetName(r, base) ==
    LET rec == [prep[r] EXCEPT !.base = base, !.custom = TRUE, !.st = "running",
                               !.attempt = @ + 1]
        idle == \/ prep[r].st \in {"paused", "failed"}
                \/ /\ prep[r].st = "running" /\ work[r].attempt = prep[r].attempt
                   /\ ~work[r].dispatched \/ work[r].stopped
    IN /\ Mu /\ r \notin unconfirmed /\ prep[r].attempt < cast.attempts
       /\ idle /\ prep[r].goal /\ CustomOf[r] = NoBase /\ prep[r].slug = NoSlug
       /\ prep[r].base = NoBase \/ prep[r].custom
       /\ \/ Saved(r, rec) /\ Launched(r, rec, Pending(r, rec))
          \/ Published(r, rec) /\ work' = Pending(r, rec) /\ UNCHANGED workers
          \/ Unsaved /\ UNCHANGED <<work, workers>>
       /\ UNCHANGED <<cat, creStore, creators, world, gens>>

(***************************************************************************)
(* runPreparation.  Every step first finds its attempt still current.      *)
(***************************************************************************)
Current(w) == /\ prep[w.req].attempt = w.attempt
              /\ prep[w.req].st \notin {"none", "terminal"}
Step(w, pc) == workers' = (workers \ {w}) \cup {[w EXCEPT !.pc = pc]}
Exit(w) == /\ workers' = workers \ {w}
           /\ work' = [work EXCEPT ![w.req].stopped =
                          @ \/ work[w.req].attempt = w.attempt]

WorkerClaim(w) ==
    LET r == w.req
        rec == [prep[r] EXCEPT !.st = "running", !.goal = TRUE] IN
    /\ w \in workers /\ w.pc = "claim" /\ Mu /\ Current(w) /\ r \notin unconfirmed
    /\ \/ prep[r].goal /\ AttachOf[r] = {} /\ Step(w, "name")
          /\ UNCHANGED <<cat, prepStore, faults>>
       \/ /\ ~prep[r].goal \/ AttachOf[r] # {}
          /\ CanHold(Compact(cat), r) /\ cat' = Claimed(Compact(cat), r)
          /\ \/ Saved(r, rec) /\ Step(w, "name")
             \/ NotSaved(r, rec) /\ Step(w, "fail")
    /\ UNCHANGED <<work, creStore, creators, world, gens>>

\* No lock is held while the namer answers.
WorkerName(w) ==
    LET r == w.req IN
    /\ w \in workers /\ w.pc = "name" /\ Mu /\ Current(w) /\ r \notin unconfirmed
    /\ \/ prep[r].base # NoBase /\ Step(w, "reserve") /\ UNCHANGED <<prepStore, faults>>
       \/ /\ prep[r].base = NoBase
          /\ \E base \in (IF CustomOf[r] = NoBase THEN Bases ELSE {CustomOf[r]}) :
                LET rec == [prep[r] EXCEPT !.base = base,
                                           !.custom = (CustomOf[r] # NoBase)]
                IN \/ Saved(r, rec) /\ Step(w, "reserve")
                   \/ NotSaved(r, rec) /\ Step(w, "fail")
    /\ UNCHANGED <<cat, work, creStore, creators, world, gens>>

\* Mutant of Occupied: names that are only reserved are not looked at.
OccupiedByReceipt(s, owner) ==
    (cre[s].st # "none" /\ cre[s].owner # owner) \/ session[s].st # "none"

\* destinationOccupiedLocked
Occupied(s, owner) ==
    \/ cre[s].st # "none" /\ cre[s].owner # owner
    \/ \E q \in Requests : /\ Unfinished(prep[q]) /\ prep[q].slug = s
                           /\ OwnerOf(q) # owner
    \/ session[s].st # "none"

\* preparationReceiptMatches
Matches(r, receipt) == receipt.owner = OwnerOf(r) /\ receipt.epoch = prep[r].epoch

\* The first suffix whose destination is free; a name the user chose has none.
Choices(r) ==
    LET all == Candidates[prep[r].base]
        free == {i \in 1..Len(all) : ~Occupied(all[i], OwnerOf(r))}
    IN IF prep[r].custom THEN {all[1]} \cap {all[i] : i \in free}
       ELSE {all[i] : i \in {i \in free : \A j \in free : i <= j}}

\* reservePreparationLocked and the reservation of handoffPreparationLocked.
WorkerReserve(w) ==
    LET r == w.req IN
    /\ w \in workers /\ w.pc = "reserve" /\ Mu /\ Current(w) /\ r \notin unconfirmed
    /\ \/ /\ prep[r].slug = NoSlug
          /\ \E s \in Choices(r) :
                LET rec == [prep[r] EXCEPT !.slug = s, !.epoch = hist[s]] IN
                \/ Saved(r, rec) /\ Step(w, "bind")
                \/ NotSaved(r, rec) /\ Step(w, "fail")
       \/ /\ prep[r].slug # NoSlug
          /\ IF cre[prep[r].slug].st # "none" THEN Matches(r, cre[prep[r].slug])
             ELSE ~Occupied(prep[r].slug, OwnerOf(r))
          /\ Step(w, "bind") /\ UNCHANGED <<prepStore, faults>>
    /\ UNCHANGED <<cat, work, creStore, creators, world, gens>>

WorkerBind(w) ==
    LET r == w.req
        can == CanBind(Compact(cat), Key(r), AttachOf[r], prep[r].slug, prep[r].epoch)
    IN /\ w \in workers /\ w.pc = "bind"
       /\ IF AttachOf[r] = {} THEN Step(w, "install") /\ UNCHANGED cat
          ELSE IF ~can THEN Step(w, "fail") /\ UNCHANGED cat
          ELSE /\ Step(w, "install")
               /\ cat' = BindPreparation(Compact(cat), Key(r), prep[r].slug, prep[r].epoch)
       /\ UNCHANGED <<prepStore, work, creStore, creators, world, gens, faults>>

NewReceipt(owner, epoch) == [NoReceipt EXCEPT !.st = "running", !.owner = owner,
                                              !.epoch = epoch, !.attempt = 1]
Creator(s, receipt) == [slug |-> s, owner |-> receipt.owner, epoch |-> receipt.epoch,
                        attempt |-> receipt.attempt, validated |-> receipt.validated,
                        pc |-> "init"]

\* installCreationLocked with the reservation's own identity.
WorkerInstall(w) ==
    LET r == w.req
        s == prep[r].slug
        receipt == NewReceipt(OwnerOf(r), prep[r].epoch)
        free == /\ cre[s].st = "none" /\ session[s].st = "none"
                /\ hist[s] = prep[r].epoch
    IN /\ w \in workers /\ w.pc = "install"
       /\ \/ /\ cre[s].st # "none" /\ Matches(r, cre[s]) /\ Step(w, "handoff")
             /\ UNCHANGED <<creStore, creators, faults>>
          \/ /\ free /\ ReceiptSaved(s, receipt) /\ Step(w, "handoff")
             /\ creators' = creators \cup {Creator(s, receipt)}
          \/ /\ free /\ ReceiptNotSaved(s, receipt) /\ Step(w, "fail")
             /\ UNCHANGED <<cre, creators>>
          \/ /\ ~free /\ ~(cre[s].st # "none" /\ Matches(r, cre[s]))
             /\ Step(w, "fail") /\ UNCHANGED <<creStore, creators, faults>>
       /\ UNCHANGED <<cat, prepStore, work, world, gens>>

WorkerHandoff(w) ==
    LET r == w.req
        rec == [prep[r] EXCEPT !.st = "handed_off"] IN
    /\ w \in workers /\ w.pc = "handoff" /\ r \notin unconfirmed
    /\ \/ Saved(r, rec) /\ Exit(w)
       \/ NotSaved(r, rec) /\ Step(w, "fail") /\ UNCHANGED work
    /\ UNCHANGED <<cat, creStore, creators, world, gens>>

\* A step fails, a name is taken, a lock is busy, the namer gives up.
WorkerError(w) ==
    /\ w \in workers /\ w.pc \in {"claim", "name", "reserve"} /\ Mu
    /\ Step(w, "fail")
    /\ UNCHANGED <<cat, prepStore, work, creStore, creators, world, gens, faults>>

WorkerFail(w) ==
    LET r == w.req IN
    /\ w \in workers /\ w.pc = "fail" /\ Mu /\ Exit(w)
    /\ \/ /\ Current(w) /\ r \notin unconfirmed
          /\ LET rec == [prep[r] EXCEPT !.st = "failed"] IN Saved(r, rec) \/ NotSaved(r, rec)
       \/ /\ ~Current(w) /\ UNCHANGED <<prepStore, faults>>
    /\ UNCHANGED <<cat, creStore, creators, world, gens>>

(***************************************************************************)
(* Receipts.                                                               *)
(***************************************************************************)
\* Mutant of Prove: a session made for the receipt is proof enough, complete or not.
ProveByOwner(s, receipt) ==
    receipt.validated /\ session[s].st # "none" /\ session[s].owner = receipt.owner

\* proveCreation: the evidence names this receipt and its session is there.
Prove(s, receipt) == /\ receipt.validated /\ receipt.owner \in evidence
                     /\ session[s] = [st |-> "ready", owner |-> receipt.owner]

\* canonicalCreationConflict: the name holds somebody else's session.
Conflict(s) == session[s].st = "ready" /\ session[s].owner # cre[s].owner

WireOf(owner) == IF owner.req \in Requests THEN AttachOf[owner.req] ELSE {}
CanAdoptFor(s, owner) ==
    CanAdopt(Compact(cat), WireOf(owner), s, ThreadOf[s], hist[s])
AdoptedFor(s, owner) ==
    AdoptInitial(Compact(cat), WireOf(owner), s, ThreadOf[s], hist[s])

\* The unfinished preparation of a receipt, and its record once that is settled.
Related(s, receipt) == {r \in Requests : /\ Unfinished(prep[r]) /\ prep[r].slug = s
                                         /\ Matches(r, receipt)}
Mapping(r, outcome) == [prep[r] EXCEPT !.st = "terminal", !.outcome = outcome,
                                       !.base = NoBase, !.goal = FALSE]

\* A session that was removed gives its name back.
Retirable(s) ==
    /\ cre[s].st \in {"paused", "failed", "ready", "conflict"}
    /\ session[s].st = "none"
    /\ cre[s].st \in {"paused", "failed"} => hist[s] # cre[s].epoch

\* retireAbsentCreation: compaction first, which leaves no record of this
\* identity unconfirmed, the receipt's files last.
RetireAbsent(s) ==
    LET settled == cre[s].st \in {"ready", "conflict"}
        rs == IF settled THEN Related(s, cre[s]) ELSE {} IN
    /\ Mu /\ Retirable(s)
    /\ settled => \A r \in unconfirmed : OwnerOf(r) # cre[s].owner
    /\ \/ rs = {} /\ UNCHANGED <<prepStore, faults>>
       \/ /\ cre[s].st = "conflict"
          /\ \E r \in rs : Saved(r, Mapping(r, "conflict"))
    /\ bound' = bound \ {cre[s].owner} /\ evidence' = evidence \ {cre[s].owner}
    /\ cre' = [cre EXCEPT ![s] = NoReceipt] /\ creFile' = [creFile EXCEPT ![s] = NoReceipt]
    /\ UNCHANGED <<cat, work, workers, creators, cast, session, hist, created, gens>>

\* acceptCreation: a form that names its session.
Accept(q) ==
    LET s == DirectSlug[q]
        receipt == NewReceipt([req |-> q, gen |-> gens[q] + 1], hist[s]) IN
    /\ Mu /\ q \in cast.forms /\ ~Retirable(s) /\ cre[s].st = "none" /\ session[s].st = "none"
    /\ \A r \in Requests : ~(Unfinished(prep[r]) /\ prep[r].slug = s)
    /\ gens[q] < MaxGen /\ gens' = [gens EXCEPT ![q] = @ + 1]
    /\ \/ /\ ReceiptSaved(s, receipt)
          /\ creators' = creators \cup {Creator(s, receipt)}
       \/ ReceiptNotSaved(s, receipt) /\ UNCHANGED <<cre, creators>>
    /\ UNCHANGED <<cat, prepStore, work, workers, world>>

\* currentCreation: a status read settles a receipt nobody works on.
StatusRead(s) ==
    LET ready == [cre[s] EXCEPT !.st = "ready"]
        lost == [cre[s] EXCEPT !.st = "conflict"] IN
    /\ Mu /\ cre[s].st \in {"paused", "failed"} /\ ~Retirable(s)
    /\ \/ /\ Prove(s, cre[s]) /\ CanAdoptFor(s, cre[s].owner)
          /\ cat' = AdoptedFor(s, cre[s].owner)
          /\ \/ ReceiptSaved(s, ready)
             \/ ReceiptNotSaved(s, ready) /\ cre' = [cre EXCEPT ![s].st = "paused"]
       \/ /\ ~Prove(s, cre[s]) /\ Conflict(s)
          /\ \/ ReceiptSaved(s, lost)
             \/ ReceiptNotSaved(s, lost) /\ cre' = [cre EXCEPT ![s] = lost]
          /\ UNCHANGED cat
    /\ UNCHANGED <<prepStore, work, workers, creators, world, gens>>

\* retryCreationReceipt, after the status read found nothing to settle.
RetryCreation(s) ==
    LET receipt == [cre[s] EXCEPT !.st = "running", !.attempt = @ + 1] IN
    /\ Mu /\ cre[s].st \in {"paused", "failed"} /\ ~Retirable(s)
    /\ ~Prove(s, cre[s]) /\ ~Conflict(s) /\ cre[s].attempt < cast.attempts
    /\ \/ /\ ReceiptSaved(s, receipt)
          /\ creators' = creators \cup {Creator(s, receipt)}
       \/ ReceiptNotSaved(s, receipt) /\ UNCHANGED <<cre, creators>>
    /\ UNCHANGED <<cat, prepStore, work, workers, world, gens>>

(***************************************************************************)
(* runCreation and the command it runs.                                    *)
(***************************************************************************)
CStep(c, pc) == creators' = (creators \ {c}) \cup {[c EXCEPT !.pc = pc]}
CEnd(c) == creators' = creators \ {c}
Mine(c) == cre[c.slug].owner = c.owner /\ cre[c.slug].attempt = c.attempt
ReceiptOf(c, st) == [st |-> st, owner |-> c.owner, epoch |-> c.epoch,
                     attempt |-> c.attempt, validated |-> c.validated]

\* Capture the settings and save them as validated.
CreatorInit(c) ==
    LET v == [c EXCEPT !.validated = TRUE, !.pc = "command"] IN
    /\ c \in creators /\ c.pc = "init" /\ Mu
    /\ \/ c.validated /\ Prove(c.slug, c) /\ CStep(c, "prove") /\ UNCHANGED <<creStore, faults>>
       \/ c.validated /\ ~Prove(c.slug, c) /\ CStep(c, "command") /\ UNCHANGED <<creStore, faults>>
       \/ /\ ~c.validated /\ Mine(c)
          /\ ReceiptSaved(c.slug, ReceiptOf(v, "running"))
          /\ creators' = (creators \ {c}) \cup {v}
       \/ /\ ~c.validated /\ Mine(c)
          /\ ReceiptNotSaved(c.slug, ReceiptOf(v, "running"))
          /\ creators' = (creators \ {c}) \cup {[v EXCEPT !.pc = "failed"]}
          /\ UNCHANGED cre
       \/ ~c.validated /\ CStep(c, "failed") /\ UNCHANGED <<creStore, faults>>
    /\ UNCHANGED <<cat, prepStore, work, workers, world, gens>>

\* guard_portal_preparation_reservation!: the command reads the portal's files.
Reserved(s, owner) ==
    /\ \A r \in Requests :
          Unfinished(prepFile[r]) /\ prepFile[r].slug = s =>
              owner = [req |-> r, gen |-> prepFile[r].gen]
    /\ creFile[s].st \in {"running", "paused", "failed"} => creFile[s].owner = owner

\* dev-session start: the receipt is current and the destination its own.
CommandStart(c) ==
    LET s == c.slug
        allowed == /\ Reserved(s, c.owner)
                   /\ creFile[s].owner = c.owner /\ creFile[s].epoch = hist[s]
                   /\ c.owner \in bound \/ session[s].st = "none"
                   /\ session[s].st = "none" \/ session[s].owner = c.owner
    IN /\ c \in creators /\ c.pc = "command" /\ Mu
       /\ \/ /\ allowed /\ CStep(c, "started")
             /\ bound' = bound \cup {c.owner}
             /\ session' = IF session[s].st = "none"
                           THEN [session EXCEPT ![s] = [st |-> "creating",
                                                        owner |-> c.owner]]
                           ELSE session
          \/ CStep(c, "prove") /\ UNCHANGED <<bound, session>>
       /\ UNCHANGED <<cat, prepStore, work, workers, creStore, cast, hist, evidence,
                      created, gens, faults>>

\* It completes and writes its evidence, or is cut off before.
CommandFinish(c) ==
    LET s == c.slug IN
    /\ c \in creators /\ c.pc = "started" /\ CStep(c, "prove")
    /\ \/ /\ session[s].owner = c.owner /\ session[s].st # "none"
          /\ session' = [session EXCEPT ![s].st = "ready"]
          /\ evidence' = evidence \cup {c.owner}
          /\ created' = created \cup {[owner |-> c.owner, slug |-> s, epoch |-> hist[s]]}
       \/ UNCHANGED <<session, evidence, created>>
    /\ UNCHANGED <<cat, prepStore, work, workers, creStore, cast, hist, bound, gens, faults>>

CreatorProve(c) ==
    /\ c \in creators /\ c.pc = "prove" /\ Mu
    /\ IF Prove(c.slug, c) /\ CanAdoptFor(c.slug, c.owner)
       THEN CStep(c, "ready") /\ cat' = AdoptedFor(c.slug, c.owner)
       ELSE CStep(c, "failed") /\ UNCHANGED cat
    /\ UNCHANGED <<prepStore, work, workers, creStore, world, gens, faults>>

\* updateCreation with the outcome; when that cannot be saved the page must
\* not say that work is still running.
CreatorOutcome(c) ==
    LET receipt == ReceiptOf(c, c.pc) IN
    /\ c \in creators /\ c.pc \in {"ready", "failed"} /\ Mu
    /\ \/ ~Mine(c) /\ CEnd(c) /\ UNCHANGED <<creStore, faults>>
       \/ /\ Mine(c) /\ ReceiptSaved(c.slug, receipt)
          /\ IF c.pc = "ready" THEN CStep(c, "compact") ELSE CEnd(c)
       \/ /\ Mine(c) /\ ReceiptNotSaved(c.slug, receipt) /\ CEnd(c)
          /\ cre' = [cre EXCEPT ![c.slug] = ReceiptOf(c, "paused")]
    /\ UNCHANGED <<cat, prepStore, work, workers, world, gens>>

\* compactPreparationsLocked at the end of updateCreation.
CreatorCompact(c) ==
    LET rs == Related(c.slug, cre[c.slug])
        paused == [cre EXCEPT ![c.slug].st = "paused"]
    IN /\ c \in creators /\ c.pc = "compact" /\ CEnd(c)
       /\ \/ rs = {} /\ UNCHANGED <<cat, prepStore, cre, faults>>
          \/ \E r \in rs :
               IF Prove(c.slug, c) /\ CanAdoptFor(c.slug, c.owner) /\ r \notin unconfirmed
               THEN /\ cat' = AdoptedFor(c.slug, c.owner)
                    /\ \/ Saved(r, Mapping(r, "ready")) /\ UNCHANGED cre
                       \/ NotSaved(r, Mapping(r, "ready")) /\ cre' = paused
               ELSE cre' = paused /\ UNCHANGED <<cat, prepStore, faults>>
       /\ UNCHANGED <<work, workers, creFile, world, gens>>

(***************************************************************************)
(* reconcilePreparationsLocked, at startup and before every collection.    *)
(***************************************************************************)
Due(r) == work[r].attempt = prep[r].attempt /\ ~work[r].dispatched

\* An intent gets its claim without its pending launch being consumed; an
\* intent found at startup is then paused, with or without its claim.
ReconcileAccepting(r) ==
    LET held == [prep[r] EXCEPT !.st = "running", !.goal = TRUE]
        paused == [prep[r] EXCEPT !.st = "paused", !.goal = @ \/ CanHold(Compact(cat), r)]
    IN /\ Mu /\ r \notin unconfirmed
       /\ \/ /\ Due(r) /\ CanHold(Compact(cat), r)
             /\ prep[r].st = "accepting" \/ (prep[r].st = "running" /\ ~prep[r].goal)
             /\ Saved(r, held) \/ NotSaved(r, held)
          \/ /\ ~Due(r) /\ prep[r].st = "accepting"
             /\ Saved(r, paused) \/ NotSaved(r, paused)
       /\ cat' = IF CanHold(Compact(cat), r) THEN Claimed(Compact(cat), r) ELSE cat
       /\ UNCHANGED <<work, workers, creStore, creators, world, gens>>

Reconciled(r) == /\ r \notin unconfirmed
                 /\ prep[r].st # "accepting"
                 /\ Due(r) => prep[r].st # "running" \/ prep[r].goal

\* An accepted claim must still stand.
ReconcileClaim(r) ==
    LET rec == [prep[r] EXCEPT !.st = "failed"] IN
    /\ Mu /\ Reconciled(r) /\ ~Due(r) /\ Unfinished(prep[r]) /\ prep[r].goal
    /\ ~CanHold(Compact(cat), r) /\ prep[r].st # "failed"
    /\ Saved(r, rec) \/ NotSaved(r, rec)
    /\ UNCHANGED <<cat, work, workers, creStore, creators, world, gens>>

\* A reservation whose receipt was installed is a handoff.
ReconcileHandoff(r) ==
    LET s == prep[r].slug
        st == IF Matches(r, cre[s]) THEN "handed_off" ELSE "failed"
        rec == [prep[r] EXCEPT !.st = st] IN
    /\ Mu /\ Reconciled(r) /\ ~Due(r) /\ Unfinished(prep[r]) /\ s # NoSlug
    /\ cre[s].st # "none" /\ prep[r].st # st
    /\ Saved(r, rec) \/ NotSaved(r, rec)
    /\ UNCHANGED <<cat, work, workers, creStore, creators, world, gens>>

ReconcileCompact(r) ==
    LET s == prep[r].slug IN
    /\ Mu /\ Reconciled(r) /\ prep[r].st = "handed_off" /\ Matches(r, cre[s])
    /\ cre[s].st \in {"ready", "conflict"}
    /\ cre[s].st = "ready" => Prove(s, cre[s]) /\ CanAdoptFor(s, cre[s].owner)
    /\ cat' = IF cre[s].st = "ready" THEN AdoptedFor(s, cre[s].owner) ELSE cat
    /\ LET rec == Mapping(r, cre[s].st) IN Saved(r, rec) \/ NotSaved(r, rec)
    /\ UNCHANGED <<work, workers, creStore, creators, world, gens>>

\* collectUploads: reconcile, pin what receipts accepted, expire the rest.
CollectUploads ==
    /\ Mu /\ \A r \in Requests : Reconciled(r)
    /\ cat' = Collect(Compact(cat))
    /\ UNCHANGED <<prepStore, work, workers, creStore, creators, world, gens, faults>>

\* Time passes: what no record names may be collected.
AgeFile(f) ==
    /\ cat.file[f].st = "ready" /\ ~cat.file[f].old
    /\ cat' = [cat EXCEPT !.file[f].old = TRUE]
    /\ UNCHANGED <<prepStore, work, workers, creStore, creators, world, gens, faults>>

(***************************************************************************)
(* The terminal: sessions come and go.                                     *)
(***************************************************************************)
CliStart(s) ==
    /\ Mu /\ cast.terminal /\ session[s].st = "none" /\ Reserved(s, Nobody)
    /\ session' = [session EXCEPT ![s] = [st |-> "ready", owner |-> Nobody]]
    /\ UNCHANGED <<cat, prepStore, work, workers, creStore, creators, cast, hist, bound,
                   evidence, created, gens, faults>>

CliRemove(s) ==
    /\ Mu /\ cast.terminal /\ session[s].st = "ready" /\ hist[s] < MaxEpoch
    /\ \A c \in creators : c.slug = s => c.pc # "started"
    /\ session' = [session EXCEPT ![s] = NoSession]
    /\ cat' = RemoveSession(Compact(cat), s, ThreadOf[s], hist[s])
    /\ hist' = [hist EXCEPT ![s] = @ + 1]
    /\ UNCHANGED <<prepStore, work, workers, creStore, creators, cast, bound, evidence,
                   created, gens, faults>>

(***************************************************************************)
(* Restarts.  loadPreparations and loadCreations pause what was running.   *)
(***************************************************************************)

\* Mutant of PausedRecord: a restart takes records as they were left.
RecordAsLeft(rec) == rec
PausedRecord(rec) == IF rec.st = "running" THEN [rec EXCEPT !.st = "paused"] ELSE rec
Restart(files) ==
    /\ faults < cast.faults /\ faults' = faults + 1
    /\ prepFile' = files /\ prepSafe' = files
    /\ prep' = [r \in Requests |-> PausedRecord(files[r])]
    /\ cre' = [s \in Slugs |-> PausedRecord(creFile[s])]
    /\ unconfirmed' = {} /\ work' = [r \in Requests |-> NoWork]
    /\ workers' = {} /\ creators' = {}
    /\ UNCHANGED <<cat, creFile, world, gens>>

Crash == \E lost \in SUBSET {r \in Requests : prepSafe[r] # prepFile[r]} :
    Restart([r \in Requests |-> IF r \in lost THEN prepSafe[r] ELSE prepFile[r]])

\* Close: workers are cancelled between their steps, then everything running
\* is saved as paused.
Stop == /\ Mu /\ unconfirmed = {}
        /\ Restart([r \in Requests |-> PausedRecord(prep[r])])

Worker(w) == \/ WorkerClaim(w) \/ WorkerName(w) \/ WorkerReserve(w) \/ WorkerBind(w)
             \/ WorkerInstall(w) \/ WorkerHandoff(w) \/ WorkerError(w) \/ WorkerFail(w)
CreatorStep(c) == \/ CreatorInit(c) \/ CommandStart(c) \/ CommandFinish(c)
                  \/ CreatorProve(c) \/ CreatorOutcome(c) \/ CreatorCompact(c)

Next ==
    \/ \E r \in Requests :
          \/ Confirm(r) \/ Post(r) \/ FinishAccepting(r) \/ Launch(r) \/ Retry(r)
          \/ ReconcileAccepting(r) \/ ReconcileClaim(r) \/ ReconcileHandoff(r)
          \/ ReconcileCompact(r)
          \/ \E base \in Bases : SetName(r, base)
    \/ \E w \in workers : Worker(w)
    \/ \E c \in creators : CreatorStep(c)
    \/ \E s \in Slugs : \/ RetireAbsent(s) \/ StatusRead(s) \/ RetryCreation(s)
                        \/ CliStart(s) \/ CliRemove(s)
    \/ \E q \in Directs : Accept(q)
    \/ \E f \in Files : AgeFile(f)
    \/ CollectUploads \/ Crash \/ Stop

Spec == Init /\ [][Next]_vars

(***************************************************************************)
(* Properties.                                                             *)
(***************************************************************************)
\* The portal implements SessionRequests: one name, one session per request.
MadeFor(r) == Cardinality({m \in created : m.owner.req = r})
Removed(r) == prep[r].slug # NoSlug /\ hist[prep[r].slug] # prep[r].epoch
Promised == INSTANCE SessionRequests WITH
    Asked <- Requests, Names <- Slugs, NoName <- NoSlug,
    name <- [r \in Requests |-> prep[r].slug],
    held <- {r \in Requests : Unfinished(prep[r]) \/ Unfinished(prepSafe[r])},
    made <- [r \in Requests |-> MadeFor(r)],
    gone <- {r \in Requests : MadeFor(r) > 0 /\ Removed(r)}
KeepsPromise == Promised!Promise

\* The files of an accepted request stay until its session is removed: no
\* collection, competing request or crash takes them.
AcceptedFilesKept ==
    \A r \in Requests :
        Unfinished(prep[r]) /\ prep[r].goal =>
            \/ \A f \in AttachOf[r] : cat.file[f].st = "ready"
            \/ prep[r].slug # NoSlug /\ hist[prep[r].slug] # prep[r].epoch

\* A receipt says ready only of the session that was made for it, in memory
\* and in the file a restart reads.
ReadyIsMade ==
    \A s \in Slugs : \A receipt \in {cre[s], creFile[s]} :
        receipt.st = "ready" =>
            [owner |-> receipt.owner, slug |-> s, epoch |-> receipt.epoch] \in created

\* Nothing says running that nobody works on, and nobody works twice on it.
SomebodyWorks ==
    /\ \A s \in Slugs : cre[s].st = "running" =>
          Cardinality({c \in creators : c.slug = s /\ Mine(c)}) = 1
    /\ \A r \in Requests :
          /\ Cardinality({w \in workers : w.req = r /\ w.attempt = prep[r].attempt}) <= 1
          /\ prep[r].st = "running" =>
                \/ Due(r) \/ Stalled(r)
                \/ \E w \in workers : w.req = r /\ w.attempt = prep[r].attempt
=============================================================================
