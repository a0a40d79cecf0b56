---------------------------- MODULE UploadCatalog ----------------------------
(***************************************************************************)
(* catalog.json of the upload store (portal/internal/uploads): what each   *)
(* transaction does to it, as operators on catalogs.                       *)
(*                                                                         *)
(* A catalog has one record per scope, file and submission; a record that  *)
(* is not in the file has state "none".  A scope is a draft of the form    *)
(* for new sessions or belongs to one session: slug, thread and epoch, the *)
(* number of completed removals of that slug.  A submission is one prompt  *)
(* and the files attached to it, named by scope, kind and attempt.  All    *)
(* prompts have the same text, the worst case for the lookups by text, so  *)
(* the wire form of a prompt is the set of its files.  Ages are one bit:   *)
(* old means older than draftLifetime.                                     *)
(***************************************************************************)
EXTENDS Naturals, FiniteSets

CONSTANTS
    Scopes,     \* scope ids
    Files,      \* file ids
    Slugs,      \* session slugs
    Threads,    \* conversation threads
    Attempts,   \* attempts of ordinary prompts
    Requests,   \* ids of session preparations, attempts of their own
    NoSlug, NoThread,
    MaxEpoch    \* bound: completed removals of a slug

ASSUME UploadCatalogAssumption ==
    /\ IsFiniteSet(Scopes) /\ IsFiniteSet(Files)
    /\ Attempts \cap Requests = {}
    /\ NoSlug \notin Slugs /\ NoThread \notin Threads
    /\ MaxEpoch \in Nat

Keys == [scope : Scopes, kind : {"initial", "queue"},
         attempt : Attempts \cup Requests]

NoScope == [st |-> "none", draft |-> FALSE, slug |-> NoSlug,
            thread |-> NoThread, epoch |-> 0, old |-> FALSE]
NoFile  == [st |-> "none", scope |-> {}, off |-> 0, old |-> FALSE]
NoSub   == [st |-> "none", files |-> {}, queue |-> 0]

ScopeRecords ==
    [st : {"none", "live", "deleted"}, draft : BOOLEAN,
     slug : Slugs \cup {NoSlug}, thread : Threads \cup {NoThread},
     epoch : 0..MaxEpoch, old : BOOLEAN]
FileRecords ==
    [st : {"none", "uploading", "ready", "deleted"},
     scope : {{s} : s \in Scopes} \cup {{}}, off : Nat, old : BOOLEAN]
SubRecords ==
    [st : {"none", "prepared", "pending", "queued", "observed", "cancelled"},
     files : SUBSET Files, queue : Nat]
Catalogs == [scope : [Scopes -> ScopeRecords], file : [Files -> FileRecords],
             sub : [Keys -> SubRecords]]

EmptyCatalog == [scope |-> [s \in Scopes |-> NoScope],
                 file  |-> [f \in Files |-> NoFile],
                 sub   |-> [k \in Keys |-> NoSub]]

(***************************************************************************)
(* What the operations look up.                                            *)
(***************************************************************************)
Subs(c) == {k \in Keys : c.sub[k].st # "none"}
LiveScope(c, s) == c.scope[s].st = "live"

\* Mutant of Pinning: what was accepted counts only once it has been seen.
PinningSeen(c, k) == c.sub[k].st \in {"queued", "observed"}

\* A submission that was accepted, or may have been: its files are kept.
Pinning(c, k) == c.sub[k].st \in {"pending", "queued", "observed"}
Pinned(c) == UNION {c.sub[k].files : k \in {j \in Keys : Pinning(c, j)}}

Accessible(c, s, f) ==
    /\ LiveScope(c, s)
    /\ c.file[f].st # "none"
    /\ \/ c.file[f].scope = {s}
       \/ \E k \in Subs(c) : k.scope = s /\ f \in c.sub[k].files

\* The files of a draft belong to an accepted preparation.
PreparationHeld(c, s) ==
    /\ c.scope[s].draft
    /\ \E k \in Keys : /\ k.scope = s /\ k.kind = "initial"
                       /\ k.attempt \in Requests
                       /\ c.sub[k].st = "pending"

ClaimConflict(c, s, owner) ==
    \/ ~LiveScope(c, s)
    \/ /\ c.scope[s].draft
       /\ \E k \in Subs(c) \ {owner} : k.scope = s /\ c.sub[k].st # "cancelled"

(***************************************************************************)
(* compact: every transaction first drops records nobody needs any more.   *)
(***************************************************************************)
Obsolete(c, k) ==
    IF c.sub[k].st \in {"prepared", "cancelled"}
    THEN \A f \in c.sub[k].files : c.file[f].st \in {"none", "deleted"}
    ELSE c.scope[k.scope].st = "deleted"

Compact(c) ==
    LET keptSubs == {k \in Subs(c) : ~Obsolete(c, k)}
        referenced == UNION {c.sub[k].files : k \in keptSubs}
        forgotten == {f \in Files :
                        /\ c.file[f].st = "deleted" /\ f \notin referenced
                        /\ \/ c.file[f].old
                           \/ \E s \in c.file[f].scope :
                                 c.scope[s].st = "deleted"}
        occupied == {k.scope : k \in keptSubs}
                    \cup UNION {c.file[f].scope : f \in Files \ forgotten}
        unused == {s \in Scopes : /\ s \notin occupied
                                  /\ \/ c.scope[s].st = "deleted"
                                     \/ LiveScope(c, s) /\ c.scope[s].old}
    IN [scope |-> [s \in Scopes |-> IF s \in unused THEN NoScope
                                    ELSE c.scope[s]],
        file  |-> [f \in Files |-> IF f \in forgotten THEN NoFile
                                   ELSE c.file[f]],
        sub   |-> [k \in Keys |-> IF k \in keptSubs THEN c.sub[k]
                                  ELSE NoSub]]

(***************************************************************************)
(* Scopes and files.                                                       *)
(***************************************************************************)
AddDraft(c, s) ==
    [c EXCEPT !.scope[s] = [NoScope EXCEPT !.st = "live", !.draft = TRUE]]

SessionScopes(c, slug, thread, epoch) ==
    {s \in Scopes : /\ LiveScope(c, s) /\ ~c.scope[s].draft
                    /\ c.scope[s].slug = slug
                    /\ c.scope[s].thread = thread
                    /\ c.scope[s].epoch = epoch}

AddSessionScope(c, s, slug, thread, epoch) ==
    [c EXCEPT !.scope[s] = [NoScope EXCEPT !.st = "live", !.slug = slug,
                                           !.thread = thread, !.epoch = epoch]]

AddFile(c, f, s) ==
    [c EXCEPT !.file[f] = [st |-> "uploading", scope |-> {s}, off |-> 0,
                           old |-> FALSE]]
Tombstone(c, f) == [c EXCEPT !.file[f].st = "deleted"]

(***************************************************************************)
(* Submissions.                                                            *)
(***************************************************************************)
\* prepareSubmission, when it does not only repeat what is stored.
Prepared(c, k, fs, pending) ==
    [c EXCEPT !.sub[k] = [st |-> IF k.kind = "initial" /\ ~pending
                                 THEN "prepared" ELSE "pending",
                          files |-> fs, queue |-> 0],
              !.file = [f \in Files |-> IF f \in fs
                                        THEN [@[f] EXCEPT !.old = FALSE]
                                        ELSE @[f]]]

\* The stored submission of this attempt stands and its wire is returned.
Standing(c, k, fs) == Pinning(c, k) /\ c.sub[k].files = fs

CanPrepare(c, k, fs) ==
    /\ k \in Subs(c) => c.sub[k].files = fs
    /\ ~Pinning(c, k)
    /\ \A f \in fs : Accessible(c, k.scope, f) /\ c.file[f].st = "ready"

\* ClaimPreparation by a request that has no claim yet.
CanClaim(c, k, fs) ==
    /\ k \notin Subs(c)
    /\ LiveScope(c, k.scope) /\ c.scope[k.scope].draft
    /\ c.scope[k.scope].slug = NoSlug
    /\ ~PreparationHeld(c, k.scope)
    /\ \A j \in Subs(c) : j.scope = k.scope => c.sub[j].st = "cancelled"
    /\ CanPrepare(c, k, fs)

\* ClaimPreparation repeated.
ClaimStands(c, k, fs) ==
    /\ k \in Subs(c)
    /\ ~ClaimConflict(c, k.scope, k)
    /\ c.sub[k].files = fs /\ c.sub[k].st \in {"pending", "observed"}

\* BindPreparation: the draft gets the reserved name.
CanBind(c, k, fs, slug, epoch) ==
    /\ ~ClaimConflict(c, k.scope, k)
    /\ k \in Subs(c) /\ c.sub[k].files = fs
    /\ c.sub[k].st \in {"pending", "observed"}
    /\ \/ c.scope[k.scope].slug = NoSlug
       \/ c.scope[k.scope].slug = slug /\ c.scope[k.scope].epoch = epoch
BindPreparation(c, k, slug, epoch) ==
    [c EXCEPT !.scope[k.scope].slug = slug, !.scope[k.scope].epoch = epoch]

\* AdoptInitial: the initial prompts with this wire, owned by the scope of
\* their files, become the session's.
Adoptable(c, fs) ==
    {k \in Subs(c) : /\ k.kind = "initial" /\ c.sub[k].files = fs
                     /\ \A f \in fs : c.file[f].scope = {k.scope}}
CanAdopt(c, fs, slug, thread, epoch) ==
    \A k \in Adoptable(c, fs) :
        LET scope == c.scope[k.scope] IN
        /\ k.attempt \in Requests => ~ClaimConflict(c, k.scope, k)
        /\ scope.st = "live"
        /\ scope.slug # NoSlug => scope.slug = slug /\ scope.epoch = epoch
        /\ ~scope.draft => scope.thread = thread
AdoptInitial(c, fs, slug, thread, epoch) ==
    LET adopted == Adoptable(c, fs)
    IN [c EXCEPT
          !.scope = [s \in Scopes |->
                       IF \E k \in adopted : k.scope = s
                       THEN [@[s] EXCEPT !.draft = FALSE, !.slug = slug,
                                         !.thread = thread, !.epoch = epoch]
                       ELSE @[s]],
          !.sub = [k \in Keys |-> IF k \in adopted
                                  THEN [@[k] EXCEPT !.st = "observed"]
                                  ELSE @[k]]]

\* RetainCreations: owner[fs] is the creation that accepted the wire fs, with
\* conflict set when it lost its name; {} when there is none.
Released(c, owner) ==
    {k \in Subs(c) : /\ k.kind = "initial" /\ c.scope[k.scope].draft
                     /\ \E o \in owner[c.sub[k].files] : o.conflict}
Accepted(c, owner) ==
    {k \in Subs(c) \ Released(c, owner) :
        /\ k.kind = "initial" /\ c.sub[k].st = "prepared"
        /\ owner[c.sub[k].files] # {}}
CanRetain(c, owner) ==
    \A k \in Accepted(c, owner) : \A o \in owner[c.sub[k].files] :
        c.scope[k.scope].slug # NoSlug =>
            c.scope[k.scope].slug = o.slug /\ c.scope[k.scope].epoch = o.epoch

\* Mutant of RetainCreations: what a creation accepted is not looked at.
RetainNothing(c, owner) == c
RetainCreations(c, owner) ==
    LET released == Released(c, owner)
        accepted == Accepted(c, owner)
    IN [c EXCEPT
          !.scope = [s \in Scopes |->
             IF \E k \in released : k.scope = s
             THEN [@[s] EXCEPT !.slug = NoSlug, !.epoch = 0]
             ELSE IF \E k \in accepted : k.scope = s
             THEN LET k == CHOOSE k \in accepted : k.scope = s
                      o == CHOOSE o \in owner[c.sub[k].files] : TRUE
                  IN [@[s] EXCEPT !.slug = o.slug, !.epoch = o.epoch]
             ELSE @[s]],
          !.sub = [k \in Keys |->
             IF k \in released THEN [@[k] EXCEPT !.st = "cancelled"]
             ELSE IF k \in accepted THEN [@[k] EXCEPT !.st = "pending"]
             ELSE @[k]]]

(***************************************************************************)
(* What the native side is seen to hold.                                   *)
(***************************************************************************)
ObserveTranscript(c, k) == [c EXCEPT !.sub[k].st = "observed"]

\* A queue read earlier never moves a submission back.
ObserveQueue(c, k, entry) ==
    IF c.sub[k].st \in {"pending", "queued"}
    THEN [c EXCEPT !.sub[k].st = "queued", !.sub[k].queue = entry]
    ELSE c

QueueDeleted(c, k, entry) ==
    IF c.sub[k].queue = entry /\ c.sub[k].st # "observed"
    THEN [c EXCEPT !.sub[k].st = "cancelled"]
    ELSE c

(***************************************************************************)
(* Collection, removal and forks.                                          *)
(***************************************************************************)
Expired(c) == {f \in Files : /\ c.file[f].st \in {"uploading", "ready"}
                             /\ c.file[f].old /\ f \notin Pinned(c)}
Collect(c) == [c EXCEPT !.file = [f \in Files |->
                  IF f \in Expired(c) THEN [@[f] EXCEPT !.st = "deleted"]
                  ELSE @[f]]]

OwnedScopes(c, slug, thread, epoch) ==
    {s \in Scopes : /\ LiveScope(c, s)
                    /\ c.scope[s].slug = slug /\ c.scope[s].epoch = epoch
                    /\ c.scope[s].thread = thread \/ c.scope[s].draft}
RemoveSession(c, slug, thread, epoch) ==
    LET owned == OwnedScopes(c, slug, thread, epoch)
        marked == [scope |-> [s \in Scopes |->
                      IF s \in owned THEN [c.scope[s] EXCEPT !.st = "deleted"]
                      ELSE c.scope[s]],
                   file |-> [f \in Files |->
                      IF c.file[f].st # "none" /\ c.file[f].scope \in {{s} : s \in owned}
                      THEN [c.file[f] EXCEPT !.st = "deleted"] ELSE c.file[f]],
                   sub |-> [k \in Keys |->
                      IF k.scope \in owned THEN NoSub ELSE c.sub[k]]]
    IN Compact(marked)

\* The submissions of the source thread that the transcript of the fork shows.
Inherited(c, source, shown) ==
    {k \in Subs(c) : /\ c.scope[k.scope].thread = source
                     /\ c.sub[k].st # "cancelled"
                     /\ c.sub[k].files \in shown}
Fork(c, source, target, shown) ==
    [c EXCEPT !.sub = [k \in Keys |->
        IF /\ k.scope = target /\ @[k].st = "none"
           /\ \E j \in Inherited(c, source, shown) :
                 j.kind = k.kind /\ j.attempt = k.attempt
        THEN LET j == CHOOSE j \in Inherited(c, source, shown) :
                        j.kind = k.kind /\ j.attempt = k.attempt
             IN [c.sub[j] EXCEPT !.st = "observed"]
        ELSE @[k]]]
=============================================================================
