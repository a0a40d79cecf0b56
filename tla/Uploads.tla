------------------------------- MODULE Uploads -------------------------------
(***************************************************************************)
(* The upload store at work (portal/internal/uploads, web/uploads.go): the *)
(* catalog, the blobs beside it, browsers that upload, attach and delete,  *)
(* the form for new sessions, the hourly collector, forks and removals.    *)
(*                                                                         *)
(* Every operation is one transaction under the catalog's file lock: read, *)
(* compact, change, write, rename, sync the directory.  Blobs are changed  *)
(* inside the transaction, before the catalog is written.  A transaction   *)
(* may fail to write, or rename the catalog and fail to sync: then it is   *)
(* reported as unconfirmed and the next transaction confirms it first.     *)
(***************************************************************************)
EXTENDS UploadCatalog

CONSTANTS
    Chunks,     \* chunks of a file
    ThreadOf,   \* the thread of each session
    Worlds,     \* what a behaviour has of sessions: the source of each, NoSlug
                \* for a form and itself for none, the removals of each, and
                \* a bound on failed writes and crashes
    HomeOf,     \* the session whose composer drew each attempt
    MaxEntry,   \* bound: queue entries of one submission
    MaxAnswers  \* bound: native answers read and not yet applied

ASSUME UploadsAssumption ==
    /\ Chunks \in Nat \ {0} /\ MaxEntry \in Nat /\ MaxAnswers \in Nat
    /\ ThreadOf \in [Slugs -> Threads]
    /\ Worlds \subseteq [source : [Slugs -> Slugs \cup {NoSlug}],
                          removals : 0..MaxEpoch, faults : Nat]
    /\ HomeOf \in [Attempts -> Slugs]

VARIABLES
    world,       \* never changes
    cat,         \* catalog.json as processes read it
    durable,     \* catalog.json that a crash leaves
    unconfirmed, \* catalogUnconfirmed: renamed, the directory not synced
    blob,        \* files/<id>: partial or final, and its chunks
    receipt,     \* the creation receipt of a form with attachments
    session,     \* every session: its state and its completed removals
    native,      \* what the native side holds of every submission
    answers,     \* native answers read and not yet applied
    inhand,      \* the wire a request has prepared and not yet submitted
    deleting,    \* the browser deletion between its two transactions
    mutex,       \* the holder of uploadCreationMu
    forming,     \* the name in the form that holds it
    sweeping,    \* a reclaim that has to follow
    removed,     \* files whose session was removed
    drawn,       \* the ids given out: they are random and never drawn again
    faults

store == <<cat, durable, unconfirmed>>
client == <<native, answers, inhand, deleting, mutex, forming>>
vars == <<world, cat, durable, unconfirmed, blob, receipt, session, native, answers,
          inhand, deleting, mutex, forming, sweeping, removed, drawn, faults>>

NoDeletion == [file |-> {}, scope |-> {}, locked |-> {}]
Unsent == [st |-> "none", entry |-> 0, files |-> {}]
NoBlob == [kind |-> "none", len |-> 0]

(* Every variable has its shape. *)
TypeOK ==
    /\ world \in Worlds
    /\ cat \in Catalogs /\ durable \in Catalogs /\ unconfirmed \in BOOLEAN
    /\ blob \in [Files -> [kind : {"none", "partial", "final"}, len : 0..Chunks]]
    /\ receipt \subseteq [slug : Slugs, epoch : 0..MaxEpoch,
                          files : SUBSET Files, conflict : BOOLEAN]
    /\ session \in [Slugs -> [st : {"none", "open", "removing"},
                              epoch : 0..MaxEpoch]]
    /\ native \in [Keys -> [st : {"none", "queued", "item"}, entry : 0..MaxEntry,
                          files : SUBSET Files]]
    /\ answers \subseteq [kind : {"queue", "item", "deleted"}, key : Keys,
                          entry : 0..MaxEntry]
    /\ inhand \subseteq Keys
    /\ mutex \in {"free", "create", "collect", "delete"}
    /\ forming \in Slugs \cup {NoSlug}
    /\ sweeping \in BOOLEAN /\ removed \subseteq Files
    /\ drawn \subseteq Scopes \cup Files /\ faults \in 0..world.faults

Init ==
    /\ world \in Worlds
    /\ cat = EmptyCatalog /\ durable = EmptyCatalog /\ unconfirmed = FALSE
    /\ blob = [f \in Files |-> NoBlob]
    /\ receipt = {}
    /\ session = [s \in Slugs |-> [st |-> "none", epoch |-> 0]]
    /\ native = [k \in Keys |-> Unsent]
    /\ answers = {} /\ inhand = {} /\ deleting = NoDeletion
    /\ mutex = "free" /\ forming = NoSlug
    /\ sweeping = FALSE /\ removed = {} /\ drawn = {} /\ faults = 0

(***************************************************************************)
(* Transactions.  A change starts from the compacted catalog; Saved tells  *)
(* the caller that it may go on.                                           *)
(***************************************************************************)
Current == Compact(cat)

Saved(c) == /\ ~unconfirmed
            /\ cat' = c /\ durable' = c
            /\ UNCHANGED <<unconfirmed, faults>>

NotSaved(c) ==
    /\ ~unconfirmed /\ faults < world.faults
    /\ faults' = faults + 1
    /\ \/ cat' = c /\ unconfirmed' = TRUE /\ UNCHANGED durable
       \/ UNCHANGED store

Save(c) == ~unconfirmed /\ \E next \in {c} : Saved(next) \/ NotSaved(next)

\* The first thing the next transaction does.
Confirm == /\ unconfirmed
           /\ durable' = cat /\ unconfirmed' = FALSE
           /\ UNCHANGED <<cat, blob, receipt, session, client, sweeping, faults, removed, drawn>>

(***************************************************************************)
(* Scopes and chunked uploads.                                             *)
(***************************************************************************)
NewDraft(s) ==
    /\ s \notin drawn /\ drawn' = drawn \cup {s}
    /\ Save(AddDraft(Current, s))
    /\ UNCHANGED <<blob, receipt, session, client, sweeping, removed>>

InitialFiles(slug) == UNION {r.files : r \in {r \in receipt : r.slug = slug}}

Adopted(slug) ==
    IF InitialFiles(slug) = {} THEN Current
    ELSE AdoptInitial(Current, InitialFiles(slug), slug, ThreadOf[slug], session[slug].epoch)

\* sessionUploads: adopt the initial prompt, then find or add the scope.
OpenSession(slug, s) ==
    LET epoch == session[slug].epoch
        fs == InitialFiles(slug)
        adopted == Adopted(slug)
        found == SessionScopes(adopted, slug, ThreadOf[slug], epoch)
    IN /\ session[slug].st = "open"
       /\ fs # {} => CanAdopt(Current, fs, slug, ThreadOf[slug], epoch)
       /\ \/ found # {} /\ s \in found /\ Save(adopted) /\ UNCHANGED drawn
          \/ /\ found = {} /\ s \notin drawn /\ drawn' = drawn \cup {s}
             /\ Save(AddSessionScope(adopted, s, slug, ThreadOf[slug], epoch))
       /\ UNCHANGED <<blob, receipt, session, client, sweeping, removed>>

\* The partial blob exists before the catalog names it.
Create(f, s) ==
    /\ f \notin drawn /\ drawn' = drawn \cup {f} /\ LiveScope(Current, s)
    /\ ~PreparationHeld(Current, s)
    /\ blob' = [blob EXCEPT ![f] = [kind |-> "partial", len |-> 0]]
    /\ Save(AddFile(Current, f, s))
    /\ UNCHANGED <<receipt, session, client, sweeping, removed>>

Room(rec) == rec.off < Chunks

AppendChunk(f) ==
    LET rec == Current.file[f] IN
    /\ rec.st = "uploading" /\ Room(rec)
    /\ \A s \in rec.scope : ~PreparationHeld(Current, s)
    /\ blob[f].kind = "partial"
    /\ blob' = [blob EXCEPT ![f].len = rec.off + 1]
    /\ Save([Current EXCEPT !.file[f].off = rec.off + 1, !.file[f].old = FALSE])
    /\ UNCHANGED <<receipt, session, client, sweeping, removed, drawn>>

\* A rename that was already made is recognised by the size of the final blob.
Complete(f) ==
    LET rec == Current.file[f] IN
    /\ rec.st = "uploading" /\ rec.off = Chunks
    /\ \A s \in rec.scope : ~PreparationHeld(Current, s)
    /\ blob[f].kind = "partial" \/ (blob[f].kind = "final" /\ blob[f].len = Chunks)
    /\ blob' = [blob EXCEPT ![f].kind = "final"]
    /\ Save([Current EXCEPT !.file[f].st = "ready", !.file[f].old = FALSE])
    /\ UNCHANGED <<receipt, session, client, sweeping, removed, drawn>>

(***************************************************************************)
(* Sessions created from a form with attachments.  The handler keeps       *)
(* uploadCreationMu from the preparation to the saved receipt.             *)
(***************************************************************************)
Owner(rs) == [fs \in SUBSET Files |->
    {[slug |-> r.slug, epoch |-> r.epoch, conflict |-> r.conflict] :
        r \in {r \in rs : r.files = fs}}]

\* The text without attachments, the key of the handler's own RetainCreations
\* (web/server.go:1645), is no wire of a prompt that has files.
PrepareCreation(k, slug, fs) ==
    LET retained == RetainCreations(Current, Owner(receipt)) IN
    /\ mutex = "free" /\ inhand = {} /\ fs # {}
    /\ k.kind = "initial" /\ k.attempt \in Attempts
    /\ LiveScope(Current, k.scope)
    /\ retained.scope[k.scope].slug \in {NoSlug, slug}
    /\ ~PreparationHeld(retained, k.scope)
    /\ CanRetain(Current, Owner(receipt))
    /\ \/ /\ Standing(retained, k, fs)
          /\ Saved(retained) /\ mutex' = "create" /\ forming' = slug /\ inhand' = {k}
       \/ /\ CanPrepare(retained, k, fs)
          /\ \/ /\ Saved(Prepared(retained, k, fs, FALSE))
                /\ mutex' = "create" /\ forming' = slug /\ inhand' = {k}
             \/ /\ NotSaved(Prepared(retained, k, fs, FALSE))
                /\ UNCHANGED <<mutex, forming, inhand>>
    /\ UNCHANGED <<blob, receipt, session, native, answers, deleting, sweeping, removed, drawn>>

AcceptCreation(k, slug) ==
    /\ mutex = "create" /\ inhand = {k} /\ slug = forming
    /\ receipt = {} /\ session[slug].st = "none" /\ world.source[slug] = NoSlug
    /\ receipt' = {[slug |-> slug, epoch |-> session[slug].epoch,
                    files |-> cat.sub[k].files, conflict |-> FALSE]}
    /\ mutex' = "free" /\ forming' = NoSlug /\ inhand' = {}
    /\ UNCHANGED <<store, blob, session, native, answers, deleting, sweeping, faults, removed, drawn>>

\* acceptCreation refuses the request, or it answers a receipt it already has.
RefuseCreation ==
    /\ mutex = "create"
    /\ mutex' = "free" /\ forming' = NoSlug /\ inhand' = {}
    /\ UNCHANGED <<store, blob, receipt, session, native, answers, deleting,
                   sweeping, faults, removed, drawn>>

\* The command creates the session and sends the initial prompt.
SessionCreated(slug) ==
    /\ session[slug].st = "none" /\ session[slug].epoch = 0
    /\ \/ \E r \in receipt :
            /\ r.slug = slug /\ ~r.conflict
            /\ native' = [k \in Keys |->
                            IF /\ k.kind = "initial" /\ k \in Subs(cat)
                               /\ cat.sub[k].files = r.files
                               /\ cat.scope[k.scope].draft
                            THEN [native[k] EXCEPT !.st = "item", !.files = r.files]
                            ELSE native[k]]
       \/ /\ world.source[slug] # NoSlug /\ session[world.source[slug]].st = "open"
          /\ UNCHANGED native
    /\ session' = [session EXCEPT ![slug].st = "open"]
    /\ UNCHANGED <<forming, store, blob, receipt, answers, inhand, deleting, mutex,
                   sweeping, faults, removed, drawn>>

\* bindCreationUploads of a new session.
BindCreation(slug) ==
    \E r \in receipt :
        /\ r.slug = slug /\ session[slug].st = "open"
        /\ CanAdopt(Current, r.files, slug, ThreadOf[slug], session[slug].epoch)
        /\ Save(AdoptInitial(Current, r.files, slug, ThreadOf[slug],
                             session[slug].epoch))
        /\ UNCHANGED <<blob, receipt, session, client, sweeping, removed, drawn>>

\* Another session took the name: the receipt is a conflict and releases its
\* files at the next RetainCreations.
CreationConflict ==
    \E r \in receipt :
        /\ session[r.slug].st = "none" /\ ~r.conflict
        /\ receipt' = {[r EXCEPT !.conflict = TRUE]}
        /\ UNCHANGED <<store, blob, session, client, sweeping, faults, removed, drawn>>

\* bindCreationUploads of a fork, from the transcript of the new thread.
BindFork(slug, target) ==
    LET source == world.source[slug]
        shown == {native[k].files : k \in {k \in Keys : native[k].st = "item"}}
    IN /\ session[slug].st = "open" /\ source # NoSlug
       /\ session[source].st = "open"
       /\ target \in SessionScopes(Current, slug, ThreadOf[slug], session[slug].epoch)
       /\ Save(Fork(Current, ThreadOf[source], target, shown))
       /\ UNCHANGED <<blob, receipt, session, client, sweeping, removed, drawn>>

(***************************************************************************)
(* Prompts with attachments in a conversation.  A request keeps the        *)
(* message lock of its session until it has submitted.                     *)
(***************************************************************************)
\* Attempts are random ids: none is drawn by two conversations.
Prepare(k, fs) ==
    LET scope == Current.scope[k.scope] IN
    /\ inhand = {} /\ k.kind = "queue" /\ fs # {}
    /\ k.attempt \in Attempts /\ HomeOf[k.attempt] = scope.slug
    /\ LiveScope(Current, k.scope) /\ ~scope.draft
    /\ session[scope.slug].st = "open" /\ session[scope.slug].epoch = scope.epoch
    /\ \A r \in deleting.locked : Current.scope[r].slug # scope.slug
    /\ \/ Standing(Current, k, fs) /\ Saved(Current) /\ inhand' = {k}
       \/ /\ CanPrepare(Current, k, fs)
          /\ \/ Saved(Prepared(Current, k, fs, FALSE)) /\ inhand' = {k}
             \/ NotSaved(Prepared(Current, k, fs, FALSE)) /\ UNCHANGED inhand
    /\ UNCHANGED <<forming, blob, receipt, session, native, answers, deleting, mutex, sweeping, removed, drawn>>

\* The native side deduplicates by the client's message id.
Submit(k) ==
    /\ k \in inhand /\ k.kind = "queue"
    /\ inhand' = {}
    /\ IF native[k].st = "none" /\ native[k].entry < MaxEntry
       THEN native' = [native EXCEPT ![k] = [st |-> "queued", entry |-> @.entry + 1,
                                             files |-> cat.sub[k].files]]
       ELSE UNCHANGED native
    /\ UNCHANGED <<forming, store, blob, receipt, session, answers, deleting, mutex,
                   sweeping, faults, removed, drawn>>

Deliver(k) ==
    /\ native[k].st = "queued"
    /\ native' = [native EXCEPT ![k].st = "item"]
    /\ UNCHANGED <<forming, store, blob, receipt, session, answers, inhand, deleting,
                   mutex, sweeping, faults, removed, drawn>>

\* The queue or the transcript is read, and applied later.
Read(k) ==
    /\ native[k].st # "none" /\ Cardinality(answers) < MaxAnswers
    /\ answers' = answers \cup
          {[kind |-> IF native[k].st = "queued" THEN "queue" ELSE "item",
            key |-> k, entry |-> native[k].entry]}
    /\ UNCHANGED <<forming, store, blob, receipt, session, native, inhand, deleting,
                   mutex, sweeping, faults, removed, drawn>>

\* A browser deletes the queued entry; QueueDeleted follows the native call.
DeleteEntry(k) ==
    /\ native[k].st = "queued" /\ Cardinality(answers) < MaxAnswers
    /\ native' = [native EXCEPT ![k].st = "none"]
    /\ answers' = answers \cup {[kind |-> "deleted", key |-> k,
                                 entry |-> native[k].entry]}
    /\ UNCHANGED <<forming, store, blob, receipt, session, inhand, deleting, mutex,
                   sweeping, faults, removed, drawn>>

Apply(a) ==
    /\ a \in answers /\ answers' = answers \ {a}
    /\ Save(IF a.key \notin Subs(Current) THEN Current
            ELSE CASE a.kind = "queue"   -> ObserveQueue(Current, a.key, a.entry)
                   [] a.kind = "item"    -> ObserveTranscript(Current, a.key)
                   [] a.kind = "deleted" -> QueueDeleted(Current, a.key, a.entry))
    /\ UNCHANGED <<forming, blob, receipt, session, native, inhand, deleting, mutex, sweeping, removed, drawn>>

(***************************************************************************)
(* Deletion by a browser: find the referencing sessions, lock them, check  *)
(* again, tombstone, reclaim.                                              *)
(***************************************************************************)
References(c, s, f) ==
    {s} \cup {k.scope : k \in {k \in Keys : Pinning(c, k) /\ f \in c.sub[k].files}}

BeginDelete(s, f) ==
    LET refs == References(Current, s, f)
        slugs == {Current.scope[r].slug : r \in refs} \ {NoSlug}
        draft == \E r \in refs : Current.scope[r].draft
    IN /\ deleting = NoDeletion /\ Accessible(Current, s, f)
       /\ ~unconfirmed
       /\ draft => mutex = "free" /\ CanRetain(Current, Owner(receipt))
       /\ \A k \in inhand : Current.scope[k.scope].slug \notin slugs
       /\ \/ /\ IF draft THEN Saved(RetainCreations(Current, Owner(receipt)))
                ELSE UNCHANGED <<store, faults>>
             /\ deleting' = [file |-> {f}, scope |-> {s}, locked |-> refs]
             /\ mutex' = IF draft THEN "delete" ELSE mutex
          \/ /\ draft /\ NotSaved(RetainCreations(Current, Owner(receipt)))
             /\ UNCHANGED <<deleting, mutex>>
       /\ UNCHANGED <<forming, blob, receipt, session, native, answers, inhand, sweeping, removed, drawn>>

\* uploadReferencesIdle
Idle(c, scope) ==
    LET slug == c.scope[scope].slug IN
    /\ slug # NoSlug /\ c.scope[scope].thread # NoThread
    /\ session[slug].st = "open"
    /\ \A k \in Keys : k.scope = scope => native[k].st # "queued"

EndDelete ==
    LET f == CHOOSE f \in deleting.file : TRUE
        s == CHOOSE s \in deleting.scope : TRUE
        users == {k \in Keys : Pinning(Current, k) /\ f \in Current.sub[k].files}
        allowed == /\ ~PreparationHeld(Current, s)
                   /\ Accessible(Current, s, f)
                   /\ Current.file[f].st # "deleted"
                   /\ \A k \in users : /\ Current.sub[k].st = "observed"
                                       /\ k.scope \in deleting.locked
                                       /\ Idle(Current, k.scope)
    IN /\ deleting # NoDeletion /\ ~unconfirmed
       /\ deleting' = NoDeletion
       /\ mutex' = IF mutex = "delete" THEN "free" ELSE mutex
       /\ \/ allowed /\ Saved([Tombstone(Current, f) EXCEPT !.file[f].old = FALSE])
                     /\ sweeping' = TRUE
          \/ allowed /\ NotSaved([Tombstone(Current, f) EXCEPT !.file[f].old = FALSE])
                     /\ UNCHANGED sweeping
          \/ ~allowed /\ UNCHANGED <<store, faults, sweeping>>
       /\ UNCHANGED <<forming, blob, receipt, session, native, answers, inhand, removed, drawn>>

(***************************************************************************)
(* The collector: pin what creations accepted, then expire.                *)
(***************************************************************************)
CollectRetain ==
    LET retained == RetainCreations(Current, Owner(receipt)) IN
    /\ mutex = "free"
    /\ \/ mutex' = "collect" /\ Saved(retained)
       \/ UNCHANGED mutex /\ NotSaved(retained)
    /\ UNCHANGED <<forming, blob, receipt, session, native, answers, inhand, deleting, sweeping, removed, drawn>>
    /\ CanRetain(Current, Owner(receipt))

FilesOf(scopes) == {f \in Files : cat.file[f].scope \in {{s} : s \in scopes}}

\* Scopes of sessions that were removed meanwhile.
CollectRemoved(s) ==
    LET scope == cat.scope[s] IN
    /\ mutex = "collect" /\ scope.st = "live" /\ scope.slug # NoSlug
    /\ session[scope.slug].epoch # scope.epoch
    /\ Save(RemoveSession(Current, scope.slug, scope.thread, scope.epoch))
    /\ sweeping' = TRUE
    /\ removed' = removed \cup FilesOf(OwnedScopes(cat, scope.slug, scope.thread, scope.epoch))
    /\ UNCHANGED <<blob, receipt, session, client, drawn>>

CollectExpired ==
    /\ mutex = "collect" /\ mutex' = "free"
    /\ \/ sweeping' = TRUE /\ Saved(Collect(Current))
       \/ UNCHANGED sweeping /\ NotSaved(Collect(Current))
    /\ UNCHANGED <<forming, blob, receipt, session, native, answers, inhand, deleting, removed, drawn>>

\* Mutant of Obsolescent: whatever is not ready may go.
Unready == {f \in Files : blob[f] # NoBlob /\ Current.file[f].st # "ready"}
\* Mutant of Obsolescent: only what the catalog names.
Tombstoned == {f \in Files : blob[f] # NoBlob /\ Current.file[f].st = "deleted"}
Obsolescent == {f \in Files : /\ blob[f] # NoBlob
                              /\ Current.file[f].st \in {"none", "deleted"}}

\* reclaim unlinks in directory order and may be cut short.
Reclaim ==
    LET obsolete == Obsolescent
    IN /\ sweeping /\ ~unconfirmed
       /\ \/ blob' = [f \in Files |-> IF f \in obsolete THEN NoBlob ELSE blob[f]]
                /\ UNCHANGED faults
          \/ /\ faults < world.faults /\ faults' = faults + 1
             /\ \E part \in SUBSET obsolete :
                  blob' = [f \in Files |-> IF f \in part THEN NoBlob ELSE blob[f]]
       /\ sweeping' = FALSE
       /\ UNCHANGED <<store, receipt, session, client, removed, drawn>>

(***************************************************************************)
(* Removal of a session: its thread is retired, then its uploads go, then  *)
(* the removal is complete.                                                *)
(***************************************************************************)
Retire(slug) ==
    /\ session[slug].st = "open" /\ session[slug].epoch < world.removals
    /\ \A k \in inhand : cat.scope[k.scope].slug # slug
    /\ session' = [session EXCEPT ![slug].st = "removing"]
    /\ native' = [k \in Keys |-> IF cat.scope[k.scope].slug = slug
                                 THEN Unsent ELSE native[k]]
    /\ answers' = {a \in answers : cat.scope[a.key.scope].slug # slug}
    /\ UNCHANGED <<forming, store, blob, receipt, inhand, deleting, mutex, sweeping, faults, removed, drawn>>

RemoveUploads(slug) ==
    /\ session[slug].st = "removing"
    /\ \/ /\ Saved(RemoveSession(Current, slug, ThreadOf[slug], session[slug].epoch))
          /\ session' = [session EXCEPT ![slug] = [st |-> "none", epoch |-> @.epoch + 1]]
          /\ sweeping' = TRUE
       \/ /\ NotSaved(RemoveSession(Current, slug, ThreadOf[slug], session[slug].epoch))
          /\ UNCHANGED <<session, sweeping>>
    /\ receipt' = {r \in receipt : r.slug # slug \/ session'[slug].st # "none"}
    /\ removed' = removed \cup FilesOf(OwnedScopes(cat, slug, ThreadOf[slug],
                                                     session[slug].epoch))
    /\ UNCHANGED <<blob, client, drawn>>

(***************************************************************************)
(* Time passes, where it can be noticed: the age of a pinned file and of a *)
(* scope in use is never read.  The portal's machine goes down.            *)
(***************************************************************************)
Aged(c, f) == IF c.file[f].st = "none" THEN c ELSE [c EXCEPT !.file[f].old = TRUE]
AgeFile(f) ==
    /\ cat.file[f].st # "none" /\ ~cat.file[f].old /\ f \notin Pinned(cat)
    /\ cat' = Aged(cat, f) /\ durable' = Aged(durable, f)
    /\ UNCHANGED <<unconfirmed, blob, receipt, session, client, sweeping, removed, drawn, faults>>

AgedScope(c, s) == IF LiveScope(c, s) THEN [c EXCEPT !.scope[s].old = TRUE] ELSE c
AgeScope(s) ==
    /\ cat.scope[s].st = "live" /\ ~cat.scope[s].old
    /\ \A f \in Files : s \notin cat.file[f].scope
    /\ \A k \in Subs(cat) : k.scope # s
    /\ cat' = AgedScope(cat, s) /\ durable' = AgedScope(durable, s)
    /\ UNCHANGED <<unconfirmed, blob, receipt, session, client, sweeping, removed, drawn, faults>>

Crash ==
    /\ faults < world.faults /\ faults' = faults + 1
    /\ cat' \in {cat, durable} /\ durable' = cat' /\ unconfirmed' = FALSE
    /\ answers' = {} /\ inhand' = {} /\ deleting' = NoDeletion
    /\ mutex' = "free" /\ forming' = NoSlug /\ sweeping' = FALSE
    /\ UNCHANGED <<blob, receipt, session, native, removed, drawn>>

Step ==
    \/ Confirm \/ RefuseCreation \/ CreationConflict \/ EndDelete
    \/ CollectRetain \/ CollectExpired \/ Reclaim \/ Crash
    \/ \E s \in Scopes : NewDraft(s) \/ CollectRemoved(s) \/ AgeScope(s)
    \/ \E f \in Files : AppendChunk(f) \/ Complete(f) \/ AgeFile(f)
    \/ \E f \in Files, s \in Scopes : Create(f, s) \/ BeginDelete(s, f)
    \/ \E slug \in Slugs : \/ SessionCreated(slug) \/ BindCreation(slug)
                           \/ Retire(slug) \/ RemoveUploads(slug)
                           \/ \E s \in Scopes : OpenSession(slug, s) \/ BindFork(slug, s)
    \/ \E k \in Keys : \/ Submit(k) \/ Deliver(k) \/ Read(k) \/ DeleteEntry(k)
                       \/ \E fs \in SUBSET Files : Prepare(k, fs)
                       \/ \E slug \in Slugs : \/ AcceptCreation(k, slug)
                                              \/ \E fs \in SUBSET Files :
                                                    PrepareCreation(k, slug, fs)
    \/ \E a \in answers : Apply(a)

Next == Step /\ UNCHANGED world

\* The collector waits for the mutex in line, in every hour; whoever holds it
\* lets it go.
Fairness == /\ WF_vars(Confirm /\ UNCHANGED world) /\ SF_vars(CollectRetain /\ UNCHANGED world)
            /\ SF_vars(CollectExpired /\ UNCHANGED world) /\ WF_vars(RefuseCreation /\ UNCHANGED world)
            /\ WF_vars(EndDelete /\ UNCHANGED world) /\ WF_vars(Reclaim /\ UNCHANGED world)

Spec == Init /\ [][Next]_vars
FairSpec == Spec /\ Fairness

(***************************************************************************)
(* Properties.                                                             *)
(***************************************************************************)
\* A catalog never claims more than the blobs hold, whichever of its two
\* versions a crash leaves: a ready file is a whole final blob, an unfinished
\* one has every chunk up to its recorded offset.
Backed(c) ==
    \A f \in Files :
        /\ c.file[f].st = "ready" =>
              blob[f] = [kind |-> "final", len |-> Chunks]
        /\ c.file[f].st = "uploading" =>
              /\ blob[f].kind # "none" /\ blob[f].len >= c.file[f].off
              /\ blob[f].kind = "final" => c.file[f].off = Chunks
BlobsWhole == Backed(cat) /\ Backed(durable)

\* Files of an accepted form whose session does not exist yet, and files of a
\* prompt that is queued natively, whatever the portal has noticed of it, stay
\* ready: no expiry, deletion or crash takes them.  Only the removal of the
\* session that owns them does.
Needed == UNION {native[k].files : k \in {k \in Keys : native[k].st = "queued"}}
          \cup UNION {r.files : r \in {r \in receipt :
                          ~r.conflict /\ session[r.slug].st = "none"}}
NeededKept == \A f \in Needed : cat.file[f].st = "ready" \/ f \in removed

\* Bytes nobody can reach are freed: a tombstoned file and a blob the catalog
\* never came to name lose their bytes, however the unlink or the portal was
\* interrupted.
Unreachable(f) == /\ blob[f] # NoBlob
                  /\ cat.file[f].st \in {"none", "deleted"}
Reclaimed == \A f \in Files : Unreachable(f) ~> ~Unreachable(f)
=============================================================================
