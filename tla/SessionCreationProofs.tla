------------------------ MODULE SessionCreationProofs ------------------------
(***************************************************************************)
(* SessionCreation implements SessionRequests, for any requests, names and *)
(* bounds: one name and one session per request through retries, failed    *)
(* syncs, removals at the terminal and crashes.  ReadyIsMade comes with it. *)
(*                                                                         *)
(* The argument is about identities.  A receipt, a worker, a session and a *)
(* made session each bear an owner, a name and an epoch: a mark.  The      *)
(* owner determines the rest (MarksAgree), because a request's receipts    *)
(* are installed only under a reservation that no crash can lose           *)
(* (Anchored), and the owner of a form is new.  So evidence found under an *)
(* owner is about the session at hand, and what was made for a request was *)
(* made once.                                                              *)
(***************************************************************************)
EXTENDS SessionCreation, FiniteSetTheorems, TLAPS

AnyOwner == [req : Requests \cup Directs \cup {Cli}, gen : Nat]
PrepRecords ==
    [st : {"none", "accepting", "running", "paused", "failed", "handed_off", "terminal"},
     gen : Nat, attempt : Nat, base : Bases \cup {NoBase}, custom : BOOLEAN,
     slug : Slugs \cup {NoSlug}, epoch : Nat, goal : BOOLEAN,
     outcome : {"none", "ready", "conflict"}]
ReceiptRecords == [st : {"none", "running", "paused", "failed", "ready", "conflict"},
                   owner : AnyOwner, epoch : Nat, attempt : Nat, validated : BOOLEAN]
WorkerRecords == [req : Requests, attempt : Nat,
                  pc : {"claim", "name", "reserve", "bind", "install", "handoff", "fail"}]
CreatorRecords == [slug : Slugs, owner : AnyOwner, epoch : Nat, attempt : Nat,
                   validated : BOOLEAN,
                   pc : {"init", "command", "started", "prove", "ready", "failed", "compact"}]
MarkRecords == [owner : AnyOwner, slug : Slugs, epoch : Nat]
Sessions == [st : {"none", "creating", "ready"}, owner : AnyOwner]

\* What the argument needs of TypeOK; the catalog and the bounds play no part.
Shape ==
    /\ prep \in [Requests -> PrepRecords] /\ prepFile \in [Requests -> PrepRecords]
    /\ prepSafe \in [Requests -> PrepRecords] /\ unconfirmed \subseteq Requests
    /\ workers \subseteq WorkerRecords
    /\ cre \in [Slugs -> ReceiptRecords] /\ creFile \in [Slugs -> ReceiptRecords]
    /\ creators \subseteq CreatorRecords
    /\ session \in [Slugs -> Sessions] /\ hist \in [Slugs -> Nat]
    /\ bound \subseteq AnyOwner /\ evidence \subseteq AnyOwner
    /\ created \subseteq MarkRecords
    /\ gens \in [Requests \cup Directs -> Nat]

(***************************************************************************)
(* Records of requests.                                                    *)
(***************************************************************************)
\* A record and the one a restart makes of it.
Alike(a, b) == /\ a.gen = b.gen /\ a.slug = b.slug /\ a.epoch = b.epoch
               /\ a.st = "none" <=> b.st = "none"
               /\ a.st = "handed_off" <=> b.st = "handed_off"
               /\ a.st = "terminal" <=> b.st = "terminal"

\* b is a or comes after a.
Later(a, b) == /\ a.st # "none" => b.st # "none" /\ a.gen = b.gen
               /\ a.slug # NoSlug => b.slug = a.slug /\ b.epoch = a.epoch
               /\ a.st = "terminal" => b.st = "terminal"

Sound(a) == /\ a.st = "none" => a.slug = NoSlug
            /\ a.st \in {"handed_off", "terminal"} => a.slug # NoSlug

\* Memory agrees with the file; the file is what survives a crash, or later.
Stored ==
    \A r \in Requests :
        /\ Alike(prep[r], prepFile[r]) /\ Sound(prep[r]) /\ Sound(prepSafe[r])
        /\ Later(prepSafe[r], prepFile[r])
        /\ r \notin unconfirmed => prepSafe[r] = prepFile[r]
        /\ prep[r].slug # NoSlug => prep[r].epoch <= hist[prep[r].slug]

(***************************************************************************)
(* Workers and creators.                                                   *)
(***************************************************************************)
Critical(w) == w.pc \in {"bind", "install", "handoff"}

\* operationMu: one handoff or one compaction at a time.
OneInside ==
    /\ \A w, v \in workers : Critical(w) /\ Critical(v) => w = v
    /\ \A w \in workers, c \in creators : ~(Critical(w) /\ c.pc = "compact")
    /\ \A c, d \in creators : c.pc = "compact" /\ d.pc = "compact" => c = d

\* A handoff is of a reservation that was saved and confirmed.
HandsOver(w) ==
    /\ prep[w.req].st # "none"
    /\ Critical(w) => /\ w.req \notin unconfirmed /\ prep[w.req].slug # NoSlug
                      /\ prep[w.req].st # "terminal"
    /\ w.pc = "reserve" /\ prep[w.req].st # "terminal" => prep[w.req].base \in Bases
Handing == \A w \in workers : HandsOver(w)

Mark(owner, s, epoch) == [owner |-> owner, slug |-> s, epoch |-> epoch]

\* A creator works on the receipt in place.  The command starts only under a
\* validated receipt, in the epoch of the receipt, and a receipt is proved
\* only when its session was made.
Working(c) ==
    /\ cre[c.slug].owner = c.owner /\ cre[c.slug].epoch = c.epoch
    /\ cre[c.slug].attempt = c.attempt
    /\ cre[c.slug].st = IF c.pc = "compact" THEN "ready" ELSE "running"
    /\ c.pc \in {"init", "command", "started", "prove", "ready"} =>
          creFile[c.slug] = cre[c.slug] /\ cre[c.slug].validated = c.validated
    /\ c.pc \in {"command", "started", "prove", "ready"} => c.validated
    /\ c.owner \in bound => c.validated
    /\ c.pc = "started" =>
          /\ hist[c.slug] = c.epoch /\ c.owner \in bound
          /\ session[c.slug].st # "none" /\ session[c.slug].owner = c.owner
    /\ c.pc \in {"ready", "compact"} => Mark(c.owner, c.slug, c.epoch) \in created

\* A receipt says running exactly while one creator works on it.
Creating ==
    /\ \A c \in creators : Working(c)
    /\ \A c, d \in creators : c.slug = d.slug => c = d
    /\ \A s \in Slugs : cre[s].st = "running" => \E c \in creators : c.slug = s

(***************************************************************************)
(* Marks.                                                                  *)
(***************************************************************************)
CreMarks == {Mark(cre[s].owner, s, cre[s].epoch) : s \in {t \in Slugs : cre[t].st # "none"}}
FileMarks == {Mark(creFile[s].owner, s, creFile[s].epoch) :
                 s \in {t \in Slugs : creFile[t].st # "none"}}
CreatorMarks == {Mark(c.owner, c.slug, c.epoch) : c \in creators}
SessionMarks == {Mark(session[s].owner, s, hist[s]) :
                    s \in {t \in Slugs : session[t].st # "none" /\ session[t].owner # Nobody}}
Marks == created \cup CreMarks \cup FileMarks \cup CreatorMarks \cup SessionMarks

\* What a mark says is written where no crash takes it back.
Anchored(m) ==
    IF m.owner.req \in Requests
    THEN /\ prepSafe[m.owner.req].st # "none" /\ prepSafe[m.owner.req].gen = m.owner.gen
         /\ prepSafe[m.owner.req].slug = m.slug /\ prepSafe[m.owner.req].epoch = m.epoch
    ELSE m.owner.req \in Directs /\ m.owner.gen <= gens[m.owner.req]

MarksAnchored == \A m \in Marks : Anchored(m)
MarksAgree == \A m, n \in Marks : m.owner = n.owner => m = n

(***************************************************************************)
(* What was validated, started, proved and made.                           *)
(***************************************************************************)
InPlace(rec, o) == rec.st # "none" /\ rec.owner = o

\* The command starts only under a validated receipt, which stays as long as
\* its evidence.
Validated ==
    /\ \A o \in bound :
          \E s \in Slugs : /\ InPlace(cre[s], o) /\ InPlace(creFile[s], o)
                           /\ cre[s].validated /\ creFile[s].validated
    /\ evidence \subseteq bound

\* Evidence stands for a session that was made, and goes only with its receipt.
Evidenced ==
    /\ \A o \in evidence : \E e \in created : e.owner = o
    /\ \A e \in created :
          InPlace(cre[e.slug], e.owner) \/ InPlace(creFile[e.slug], e.owner) =>
              e.owner \in evidence

\* The session of an epoch is the one that was made in it.
Lived ==
    /\ \A e \in created :
          /\ e.epoch <= hist[e.slug]
          /\ e.epoch = hist[e.slug] =>
                session[e.slug] = [st |-> "ready", owner |-> e.owner]
    /\ \A s \in Slugs : session[s].st = "creating" => session[s].owner \in bound

\* A preparation that is over got its session, and nobody works on it again.
Finished ==
    /\ \A r \in Requests : prep[r].st = "terminal" =>
          Mark(OwnerOf(r), prep[r].slug, prep[r].epoch) \in created
    /\ \A c \in creators : c.pc # "compact" /\ c.owner.req \in Requests =>
          prep[c.owner.req].st # "terminal"
    /\ \A r \in unconfirmed : prep[r].st = "terminal" =>
          \/ InPlace(cre[prep[r].slug], OwnerOf(r))
          \/ hist[prep[r].slug] # prep[r].epoch

\* Somebody else's session is found under the name of a request only after its
\* own was made.
Overtaken ==
    \A s \in Slugs : \A rec \in {cre[s], creFile[s]} :
        /\ rec.st # "none" /\ rec.owner.req \in Requests
        /\ \/ rec.st = "conflict"
           \/ session[s].st # "none" /\ session[s].owner # rec.owner
        => Mark(rec.owner, s, rec.epoch) \in created

Records == Stored /\ OneInside /\ Handing /\ Creating
Identities == MarksAnchored /\ MarksAgree
History == Validated /\ Evidenced /\ Lived /\ Finished /\ Overtaken /\ ReadyIsMade
IInv == Shape /\ Records /\ Identities /\ History

(***************************************************************************)
(* The initial state.                                                      *)
(***************************************************************************)
LEMMA NoBodyIsNobody == Nobody \in AnyOwner /\ Nobody.req = Cli
BY DEF Nobody, AnyOwner

LEMMA IInvInit == Init => IInv
<1> SUFFICES ASSUME Init PROVE IInv
    OBVIOUS
<1> USE SessionCreationAssumption, UploadCatalogAssumption DEF Init
<1>1. NoPrep \in PrepRecords /\ NoReceipt \in ReceiptRecords /\ NoSession \in Sessions
    BY DEF NoPrep, PrepRecords, NoReceipt, ReceiptRecords, NoSession, Sessions, Nobody, AnyOwner
<1>2. Shape
    BY <1>1 DEF Shape
<1>3. Records
    BY DEF Records, Stored, Alike, Sound, Later, OneInside, Handing, Creating, NoPrep, NoReceipt
<1>4. Marks = {}
    BY DEF Marks, CreMarks, FileMarks, CreatorMarks, SessionMarks, NoReceipt, NoSession
<1>5. Identities
    BY <1>4 DEF Identities, MarksAnchored, MarksAgree
<1>6. History
    BY DEF History, Validated, Evidenced, Lived, Finished, Overtaken, ReadyIsMade,
           InPlace, NoPrep, NoReceipt, NoSession
<1> QED BY <1>2, <1>3, <1>5, <1>6 DEF IInv

(***************************************************************************)
(* Saving a record.                                                        *)
(***************************************************************************)
Recorded(r, rec) == Saved(r, rec) \/ NotSaved(r, rec)

\* A record that may follow the one in memory.
Follows(r, rec) ==
    /\ rec \in PrepRecords /\ Later(prep[r], rec) /\ Sound(rec) /\ rec.st # "none"
    /\ rec.slug # NoSlug => rec.epoch <= hist[rec.slug]
    /\ rec.st # "terminal" /\ prep[r].st # "none" /\ prep[r].base \in Bases =>
          rec.base \in Bases

PrepShape == /\ prep \in [Requests -> PrepRecords] /\ prepFile \in [Requests -> PrepRecords]
             /\ prepSafe \in [Requests -> PrepRecords] /\ unconfirmed \subseteq Requests

\* Saved, published or not saved at all: a record that follows keeps the store.
LEMMA RecordedKept ==
    ASSUME PrepShape, Stored, NEW r \in Requests, NEW rec, Follows(r, rec),
           Recorded(r, rec) \/ UNCHANGED prepStore, UNCHANGED hist
    PROVE  /\ PrepShape' /\ Stored'
           /\ \A q \in Requests : /\ prep'[q] = prep[q] \/ (q = r /\ prep'[q] = rec)
                                  /\ Later(prepSafe[q], prepSafe'[q])
           /\ unconfirmed \subseteq unconfirmed' /\ unconfirmed' \subseteq unconfirmed \cup {r}
<1> USE DEF PrepShape, Stored, prepStore
<1>1. \A q \in Requests : Later(prepSafe[q], prepSafe[q])
    BY DEF Later
<1>2. CASE UNCHANGED prepStore
    BY <1>1, <1>2
<1>3. CASE Saved(r, rec)
    <2>1. Alike(rec, rec)
        BY DEF Alike
    <2>2. Later(rec, rec) /\ Sound(rec)
        BY DEF Later, Follows
    <2>3. Later(prepSafe[r], rec)
        BY <1>3 DEF Saved, Follows, Later, Alike
    <2> QED BY <1>1, <1>3, <2>1, <2>2, <2>3 DEF Saved, Follows
<1>4. CASE Published(r, rec)
    <2>1. Alike(rec, rec)
        BY DEF Alike
    <2>2. Sound(rec)
        BY DEF Follows
    <2>3. Later(prepSafe[r], rec)
        BY <1>4 DEF Published, Follows, Later, Alike
    <2> QED BY <1>1, <1>4, <2>1, <2>2, <2>3 DEF Published, Follows
<1>5. CASE Unsaved
    BY <1>1, <1>5 DEF Unsaved
<1> QED BY <1>2, <1>3, <1>4, <1>5 DEF Recorded, NotSaved

\* What no crash takes back stays written.
LEMMA AnchorsKept ==
    ASSUME NEW m \in MarkRecords, Anchored(m), PrepShape,
           gens \in [Requests \cup Directs -> Nat],
           gens' \in [Requests \cup Directs -> Nat],
           \A x \in Requests \cup Directs : gens[x] <= gens'[x],
           \A q \in Requests : Later(prepSafe[q], prepSafe'[q])
    PROVE  Anchored(m)'
<1>1. m.slug \in Slugs /\ m.slug # NoSlug
    BY UploadCatalogAssumption DEF MarkRecords
<1>2. CASE m.owner.req \in Requests
    BY <1>1, <1>2 DEF Anchored, Later
<1>3. CASE m.owner.req \notin Requests
    <2>1. m.owner.gen \in Nat /\ m.owner.req \in Directs
        BY <1>3 DEF Anchored, MarkRecords, AnyOwner
    <2> QED BY <1>3, <2>1 DEF Anchored
<1> QED BY <1>2, <1>3

LEMMA MarksTyped == Shape => Marks \subseteq MarkRecords
BY DEF Shape, Marks, CreMarks, FileMarks, CreatorMarks, SessionMarks, MarkRecords, Mark,
       ReceiptRecords, CreatorRecords, Sessions

(***************************************************************************)
(* Steps of the preparations: receipts, creators and sessions stay.        *)
(***************************************************************************)
Quiet == UNCHANGED <<creStore, creators, session, hist, bound, evidence, created>>
GensGrow == /\ gens' \in [Requests \cup Directs -> Nat]
            /\ \A x \in Requests \cup Directs : gens[x] <= gens'[x]

\* What a step does to the workers: nobody inside stays, one may come in.
WorkersFit == /\ \A v \in workers' \ workers : v \in WorkerRecords /\ HandsOver(v)'
              /\ \A v \in workers \cap workers' : ~Critical(v)
              /\ \A u, v \in workers' \ workers : u = v
NoneCompacts == \A c \in creators : c.pc # "compact"

LEMMA MarksQuiet == Quiet => Marks' = Marks
BY DEF Quiet, creStore, Marks, CreMarks, FileMarks, CreatorMarks, SessionMarks

LEMMA WorkersKept ==
    ASSUME Shape, Handing, WorkersFit, \A c \in creators' : c.pc # "compact",
           \A q \in Requests :
              /\ Later(prep[q], prep'[q])
              /\ prep'[q].st # "terminal" /\ prep[q].st # "none" /\ prep[q].base \in Bases =>
                    prep'[q].base \in Bases
    PROVE  workers' \subseteq WorkerRecords /\ OneInside' /\ Handing'
<1>1. workers' \subseteq WorkerRecords
    BY DEF WorkersFit, Shape
<1>2. OneInside'
    BY DEF WorkersFit, OneInside, Critical
<1>3. ASSUME NEW w \in workers' PROVE HandsOver(w)'
    <2>1. CASE w \notin workers
        BY <1>3, <2>1 DEF WorkersFit
    <2>2. CASE w \in workers
        <3>1. HandsOver(w) /\ w.req \in Requests /\ ~Critical(w)
            BY <1>3, <2>2 DEF Handing, Shape, WorkerRecords, WorkersFit
        <3> QED BY <3>1 DEF HandsOver, Critical, Later
    <2> QED BY <2>1, <2>2
<1> QED BY <1>1, <1>2, <1>3 DEF Handing

\* The parts of the invariant that a step of the preparations can touch.
LEMMA QuietKept ==
    ASSUME IInv, Quiet, GensGrow, PrepShape', Stored', workers' \subseteq WorkerRecords,
           OneInside', Handing', Finished',
           \A q \in Requests : Later(prepSafe[q], prepSafe'[q])
    PROVE  IInv'
<1> USE DEF Quiet, creStore
<1>1. Shape'
    BY DEF IInv, Shape, PrepShape, GensGrow
<1>2. Creating'
    BY DEF IInv, Records, Creating, Working
<1>3. MarksAnchored'
    <2>1. Marks \subseteq MarkRecords /\ MarksAnchored /\ PrepShape
          /\ gens \in [Requests \cup Directs -> Nat]
        BY MarksTyped DEF IInv, Identities, Shape, PrepShape
    <2>2. ASSUME NEW m \in Marks PROVE Anchored(m)'
        BY ONLY <2>1, <2>2, AnchorsKept, GensGrow, 
                \A q \in Requests : Later(prepSafe[q], prepSafe'[q])
           DEF MarksAnchored, GensGrow
    <2> QED BY <2>2, MarksQuiet DEF MarksAnchored
<1>4. MarksAgree'
    BY MarksQuiet DEF IInv, Identities, MarksAgree
<1>5. Validated' /\ Evidenced' /\ Lived' /\ Overtaken' /\ ReadyIsMade'
    BY DEF IInv, History, Validated, Evidenced, Lived, Overtaken, ReadyIsMade,
           InPlace, Mark
<1> QED BY <1>1, <1>2, <1>3, <1>4, <1>5 DEF IInv, Records, Identities, History

LEMMA FinishedKept ==
    ASSUME Shape, Stored, Finished, Quiet, PrepShape',
           \A q \in Requests :
              /\ Later(prep[q], prep'[q]) /\ Sound(prep'[q])
              /\ prep'[q].st = "terminal" =>
                    prep[q].st = "terminal" /\ (q \in unconfirmed' => q \in unconfirmed)
    PROVE  Finished'
<1>1. ASSUME NEW q \in Requests, prep'[q].st = "terminal"
      PROVE  /\ prep[q].st = "terminal"
             /\ q \in unconfirmed' => q \in unconfirmed
             /\ OwnerOf(q)' = OwnerOf(q) /\ prep'[q].slug = prep[q].slug
             /\ prep'[q].epoch = prep[q].epoch
    BY <1>1 DEF Later, Sound, Stored, OwnerOf
<1>2. \A c \in creators' : c.pc # "compact" /\ c.owner.req \in Requests =>
          prep'[c.owner.req].st # "terminal"
    BY <1>1 DEF Finished, Quiet
<1>3. \A r \in Requests : prep'[r].st = "terminal" =>
          Mark(OwnerOf(r)', prep'[r].slug, prep'[r].epoch) \in created'
    BY <1>1 DEF Finished, Quiet
<1>4. ASSUME NEW r \in unconfirmed', prep'[r].st = "terminal"
      PROVE  \/ InPlace(cre'[prep'[r].slug], OwnerOf(r)')
             \/ hist'[prep'[r].slug] # prep'[r].epoch
    BY <1>1, <1>4 DEF Finished, Quiet, creStore, PrepShape
<1> QED BY <1>2, <1>3, <1>4 DEF Finished

\* One record is saved, or not, and at most one worker moves.
LEMMA QuietStep ==
    ASSUME IInv, Quiet, GensGrow, WorkersFit, NoneCompacts,
           NEW r \in Requests, NEW rec, Follows(r, rec),
           Recorded(r, rec) \/ UNCHANGED prepStore, Finished'
    PROVE  IInv'
<1>1. PrepShape /\ Stored /\ Shape /\ Handing /\ UNCHANGED hist
    BY DEF IInv, Shape, PrepShape, Records, Quiet
<1>2. /\ PrepShape' /\ Stored'
      /\ \A q \in Requests : /\ prep'[q] = prep[q] \/ (q = r /\ prep'[q] = rec)
                             /\ Later(prepSafe[q], prepSafe'[q])
    BY ONLY <1>1, Follows(r, rec), r \in Requests, RecordedKept,
            Recorded(r, rec) \/ UNCHANGED prepStore
<1>3. \A q \in Requests :
          /\ Later(prep[q], prep'[q])
          /\ prep'[q].st # "terminal" /\ prep[q].st # "none" /\ prep[q].base \in Bases =>
                    prep'[q].base \in Bases
    BY <1>2 DEF Follows, Later
<1>4. \A c \in creators' : c.pc # "compact"
    BY DEF NoneCompacts, Quiet
<1>5. workers' \subseteq WorkerRecords /\ OneInside' /\ Handing'
    BY ONLY <1>1, <1>3, <1>4, WorkersFit, WorkersKept
<1> QED BY <1>2, <1>5, QuietKept

\* The same for a record that is not the last of its request.
LEMMA OpenStep ==
    ASSUME IInv, Quiet, GensGrow, WorkersFit, NoneCompacts,
           NEW r \in Requests, NEW rec, Follows(r, rec),
           Recorded(r, rec) \/ UNCHANGED prepStore,
           rec.st # "terminal"
    PROVE  IInv'
<1>1. PrepShape /\ Stored /\ Shape /\ Finished /\ UNCHANGED hist
    BY DEF IInv, Shape, PrepShape, Records, Quiet, History
<1>2. /\ PrepShape' /\ Stored'
      /\ \A q \in Requests : prep'[q] = prep[q] \/ (q = r /\ prep'[q] = rec)
      /\ unconfirmed' \subseteq unconfirmed \cup {r}
    BY ONLY <1>1, Follows(r, rec), r \in Requests, RecordedKept,
            Recorded(r, rec) \/ UNCHANGED prepStore
<1>3. prep[r].st # "terminal"
    BY DEF Follows, Later
<1>4. \A q \in Requests :
          /\ Later(prep[q], prep'[q]) /\ Sound(prep'[q])
          /\ prep'[q].st = "terminal" =>
                prep[q].st = "terminal" /\ (q \in unconfirmed' => q \in unconfirmed)
    BY <1>1, <1>2, <1>3 DEF Follows, Later, Stored
<1>5. Finished'
    BY ONLY <1>1, <1>2, <1>4, Quiet, FinishedKept
<1> QED BY <1>5, QuietStep

\* Nothing but the catalog, the launches and the workers moves.
LEMMA IdleStep ==
    ASSUME IInv, Quiet, UNCHANGED <<prepStore, gens>>,
           workers' \subseteq WorkerRecords, OneInside', Handing'
    PROVE  IInv'
<1> USE DEF prepStore, Quiet
<1>1. PrepShape' /\ Stored' /\ GensGrow
    BY DEF IInv, Shape, PrepShape, Records, Stored, GensGrow
<1>2. Finished'
    BY DEF IInv, History, Finished, creStore, OwnerOf
<1>3. \A q \in Requests : Later(prepSafe[q], prepSafe'[q])
    BY DEF Later
<1> QED BY <1>1, <1>2, <1>3, QuietKept

\* operationMu keeps everybody else out of a handoff and of a compaction.
LEMMA MuKeepsOut ==
    Mu => NoneCompacts /\ \A v \in workers : ~Critical(v)
BY DEF Mu, NoneCompacts, Critical

LEMMA InsideAlone ==
    ASSUME OneInside, NEW w \in workers, Critical(w)
    PROVE  NoneCompacts /\ \A v \in workers : v # w => ~Critical(v)
BY DEF OneInside, NoneCompacts

LEMMA StepFits ==
    ASSUME Shape, NEW w \in workers, NEW pc, Step(w, pc), pc # w.pc,
           pc \in {"claim", "name", "reserve", "bind", "install", "handoff", "fail"},
           \A v \in workers : v # w => ~Critical(v),
           HandsOver([w EXCEPT !.pc = pc])'
    PROVE  WorkersFit
<1> DEFINE n == [w EXCEPT !.pc = pc]
<1>1. w \in WorkerRecords /\ n \in WorkerRecords /\ n.pc = pc
    BY DEF Shape, WorkerRecords
<1>2. workers' = (workers \ {w}) \cup {n} /\ HandsOver(n)'
    BY DEF Step
<1> HIDE DEF n
<1> QED BY <1>1, <1>2 DEF WorkersFit

LEMMA ExitFits ==
    ASSUME NEW w \in workers, workers' = workers \ {w},
           \A v \in workers : v # w => ~Critical(v)
    PROVE  WorkersFit
BY DEF WorkersFit

LEMMA LaunchFits ==
    ASSUME NEW r \in Requests, NEW rec, NEW wk, Launched(r, rec, wk), rec.attempt \in Nat,
           prep'[r].st # "none", \A v \in workers : ~Critical(v)
    PROVE  WorkersFit
<1> DEFINE n == [req |-> r, attempt |-> rec.attempt, pc |-> "claim"]
<1>1. n \in WorkerRecords /\ HandsOver(n)'
    BY DEF WorkerRecords, HandsOver, Critical
<1>2. workers' = workers \cup {n}
    BY DEF Launched
<1> HIDE DEF n
<1> QED BY <1>1, <1>2 DEF WorkersFit

LEMMA SameFits ==
    ASSUME UNCHANGED workers, \A v \in workers : ~Critical(v)
    PROVE  WorkersFit
BY DEF WorkersFit

LEMMA GensStay == Shape /\ UNCHANGED gens => GensGrow
BY DEF Shape, GensGrow

\* A published or saved record is in memory, an unsaved one leaves what was there.
LEMMA Recording ==
    ASSUME NEW r \in Requests, NEW rec, prep \in [Requests -> PrepRecords]
    PROVE  /\ Saved(r, rec) \/ Published(r, rec) => prep'[r] = rec /\ Recorded(r, rec)
           /\ Unsaved => prep' = prep
           /\ Unsaved /\ r \notin unconfirmed => Recorded(r, rec)
           /\ Recorded(r, rec) => prep'[r] \in {prep[r], rec}
           /\ Recorded(r, rec) => r \notin unconfirmed
           /\ Saved(r, rec) => unconfirmed' = unconfirmed
BY DEF Saved, Published, Unsaved, Recorded, NotSaved, prepStore

(***************************************************************************)
(* The actions on preparations.                                            *)
(***************************************************************************)
LEMMA PostKept == ASSUME IInv, NEW r \in Requests, Post(r) PROVE IInv'
<1> DEFINE rec == [NoPrep EXCEPT !.st = "accepting", !.gen = gens[r] + 1, !.attempt = 1]
<1>1. /\ Shape /\ prep[r].st = "none" /\ Mu /\ UNCHANGED workers /\ Quiet
      /\ Saved(r, rec) \/ Published(r, rec) \/ Unsaved
      /\ gens' = [gens EXCEPT ![r] = @ + 1]
    BY DEF Post, IInv, Quiet, world
<1>2. GensGrow
    BY <1>1 DEF Shape, GensGrow
<1>3. rec \in PrepRecords /\ rec.st = "accepting" /\ rec.slug = NoSlug
    <2>1. gens[r] + 1 \in Nat
        BY <1>1 DEF Shape
    <2> QED BY <2>1 DEF PrepRecords, NoPrep
<1>4. prep[r].slug = NoSlug
    BY <1>1 DEF IInv, Records, Stored, Sound
<1>5. Follows(r, rec)
    BY <1>1, <1>3, <1>4 DEF Follows, Later, Sound
<1>6. Recorded(r, rec) \/ UNCHANGED prepStore
    BY <1>1 DEF Recorded, NotSaved, Unsaved
<1>7. NoneCompacts /\ WorkersFit
    BY <1>1, MuKeepsOut, SameFits
<1> HIDE DEF rec
<1> QED BY <1>1, <1>2, <1>3, <1>5, <1>6, <1>7, OpenStep


\* An attempt begins: its record is saved and its worker launched.
LEMMA AttemptStep ==
    ASSUME IInv, Quiet, Mu, UNCHANGED gens, NEW r \in Requests, NEW rec, Follows(r, rec),
           rec.st = "running", r \notin unconfirmed,
           \/ Saved(r, rec) /\ \E wk : Launched(r, rec, wk)
           \/ Published(r, rec) /\ UNCHANGED workers
           \/ Unsaved /\ UNCHANGED workers
    PROVE  IInv'
<1>1. Shape /\ rec.attempt \in Nat
    BY DEF IInv, Follows, PrepRecords
<1>2. Recorded(r, rec) \/ UNCHANGED prepStore
    BY DEF Recorded, NotSaved, Unsaved
<1>3. NoneCompacts /\ \A v \in workers : ~Critical(v)
    BY MuKeepsOut
<1>4. WorkersFit
    <2>1. CASE UNCHANGED workers
        BY <1>3, <2>1, SameFits
    <2>2. CASE Saved(r, rec) /\ \E wk : Launched(r, rec, wk)
        <3>1. prep'[r].st # "none"
            BY <1>1, <2>2 DEF Saved, Shape, Follows
        <3> QED BY <1>1, <1>3, <2>2, <3>1, LaunchFits
    <2> QED BY <2>1, <2>2
<1> QED BY <1>1, <1>2, <1>3, <1>4, GensStay, OpenStep

LEMMA Grounds ==
    ASSUME IInv, NEW r \in Requests
    PROVE  /\ Shape /\ prep[r] \in PrepRecords /\ Sound(prep[r])
           /\ prep[r].slug # NoSlug => prep[r].epoch <= hist[prep[r].slug]
BY DEF IInv, Shape, Records, Stored

\* The records of a request that is not settled keep its name.
LEMMA SameName ==
    ASSUME IInv, NEW r \in Requests, NEW rec \in PrepRecords,
           rec.st \notin {"none", "terminal"}, prep[r].st \notin {"none", "terminal"},
           rec.gen = prep[r].gen, rec.slug = prep[r].slug, rec.epoch = prep[r].epoch,
           prep[r].base \in Bases => rec.base \in Bases,
           rec.st = "handed_off" => rec.st = prep[r].st \/ prep[r].slug # NoSlug
    PROVE  Follows(r, rec)
BY Grounds DEF Follows, Later, Sound

LEMMA FinishAcceptingKept == ASSUME IInv, NEW r \in Requests, FinishAccepting(r) PROVE IInv'
<1> DEFINE rec == [prep[r] EXCEPT !.st = "running", !.goal = TRUE]
<1>1. prep[r] \in PrepRecords /\ rec \in PrepRecords /\ rec.st = "running"
    BY Grounds DEF PrepRecords
<1>2. Follows(r, rec)
    BY <1>1, SameName DEF PrepRecords, FinishAccepting
<1>3. Quiet /\ UNCHANGED gens
    BY DEF FinishAccepting, Quiet, world
<1> QED BY <1>1, <1>2, <1>3, AttemptStep DEF FinishAccepting

LEMMA LaunchKept == ASSUME IInv, NEW r \in Requests, Launch(r) PROVE IInv'
<1>1. Quiet /\ UNCHANGED <<gens, prepStore>> /\ Mu
    BY DEF Launch, Quiet, world
<1>2. prep[r] \in PrepRecords /\ prep[r].attempt \in Nat
    BY Grounds DEF PrepRecords
<1>3. Follows(r, prep[r]) /\ prep[r].st = "running"
    BY <1>2, SameName DEF Launch
<1>4. NoneCompacts /\ WorkersFit
    BY <1>1, <1>2, <1>3, MuKeepsOut, LaunchFits DEF Launch, prepStore
<1> QED BY <1>1, <1>3, <1>4, GensStay, OpenStep DEF IInv

LEMMA RetryKept == ASSUME IInv, NEW r \in Requests, Retry(r) PROVE IInv'
<1> DEFINE rec == [prep[r] EXCEPT !.st = "running", !.attempt = @ + 1]
<1>1. prep[r] \in PrepRecords /\ rec \in PrepRecords /\ rec.st = "running"
    <2>1. prep[r] \in PrepRecords /\ prep[r].attempt + 1 \in Nat
        BY Grounds DEF PrepRecords
    <2> QED BY <2>1 DEF PrepRecords
<1>2. Follows(r, rec)
    BY <1>1, SameName DEF PrepRecords, Retry
<1>3. Quiet /\ UNCHANGED gens
    BY DEF Retry, Quiet, world
<1> QED BY <1>1, <1>2, <1>3, AttemptStep DEF Retry

LEMMA SetNameKept ==
    ASSUME IInv, NEW r \in Requests, NEW base \in Bases, SetName(r, base)
    PROVE  IInv'
<1> DEFINE rec == [prep[r] EXCEPT !.base = base, !.custom = TRUE, !.st = "running",
                                  !.attempt = @ + 1]
<1>1. prep[r] \in PrepRecords /\ rec \in PrepRecords /\ rec.st = "running"
    <2>1. prep[r] \in PrepRecords /\ prep[r].attempt + 1 \in Nat
        BY Grounds DEF PrepRecords
    <2> QED BY <2>1 DEF PrepRecords
<1>2. Follows(r, rec)
    <2>1. prep[r].st \notin {"none", "terminal"}
        BY DEF SetName
    <2>2. /\ rec.gen = prep[r].gen /\ rec.slug = prep[r].slug /\ rec.epoch = prep[r].epoch
          /\ rec.base = base
        BY <1>1 DEF PrepRecords
    <2> HIDE DEF rec
    <2> QED BY <1>1, <2>1, <2>2, SameName
<1>3. Quiet /\ UNCHANGED gens
    BY DEF SetName, Quiet, world
<1> QED BY <1>1, <1>2, <1>3, AttemptStep DEF SetName

\* A worker moves on with the record of its request saved, or as it was.
LEMMA WorkerStep ==
    ASSUME IInv, Quiet, UNCHANGED gens, NEW w \in workers, NoneCompacts,
           \A v \in workers : v # w => ~Critical(v),
           NEW rec, Follows(w.req, rec), rec.st # "terminal",
           Recorded(w.req, rec) \/ UNCHANGED prepStore,
           NEW pc, Step(w, pc), pc # w.pc,
           pc \in {"name", "reserve", "bind", "install", "handoff", "fail"},
           HandsOver([w EXCEPT !.pc = pc])'
    PROVE  IInv'
<1>1. Shape /\ w.req \in Requests
    BY DEF IInv, Shape, WorkerRecords
<1>2. WorkersFit
    BY <1>1, StepFits
<1> QED BY <1>1, <1>2, GensStay, OpenStep

LEMMA WorkerGrounds ==
    ASSUME IInv, NEW w \in workers
    PROVE  /\ w \in WorkerRecords /\ w.req \in Requests /\ Shape /\ HandsOver(w)
           /\ prep[w.req] \in PrepRecords
BY DEF IInv, Shape, WorkerRecords, Records, Handing

\* Outside a handoff and a reservation a worker needs a request, no more.
LEMMA Outside ==
    ASSUME IInv, NEW w \in workers, NEW pc, pc \in {"claim", "name", "fail"},
           NEW rec, Follows(w.req, rec), Recorded(w.req, rec) \/ UNCHANGED prepStore
    PROVE  HandsOver([w EXCEPT !.pc = pc])'
<1>1. w \in WorkerRecords /\ prep[w.req] \in PrepRecords /\ prep[w.req].st # "none" /\ Shape
    BY WorkerGrounds DEF HandsOver
<1>2. prep'[w.req] \in {prep[w.req], rec}
    BY <1>1, Recording DEF Shape, prepStore, WorkerRecords
<1>3. prep'[w.req].st # "none"
    BY <1>1, <1>2 DEF Follows
<1>4. [w EXCEPT !.pc = pc].req = w.req /\ [w EXCEPT !.pc = pc].pc = pc
    BY <1>1 DEF WorkerRecords
<1> QED BY <1>3, <1>4 DEF HandsOver, Critical

LEMMA WorkerClaimKept == ASSUME IInv, NEW w \in workers, WorkerClaim(w) PROVE IInv'
<1> DEFINE r == w.req
           rec == [prep[r] EXCEPT !.st = "running", !.goal = TRUE]
<1>1. prep[r] \in PrepRecords /\ rec \in PrepRecords /\ rec.st = "running"
    BY WorkerGrounds DEF PrepRecords
<1>2. Follows(r, rec)
    BY <1>1, WorkerGrounds, SameName DEF PrepRecords, WorkerClaim, Current
<1>3. Quiet /\ UNCHANGED gens /\ Mu /\ w.pc = "claim"
    BY DEF WorkerClaim, Quiet, world
<1>4. NoneCompacts /\ \A v \in workers : ~Critical(v)
    BY <1>3, MuKeepsOut
<1>5. Recorded(r, rec) \/ UNCHANGED prepStore
    BY DEF WorkerClaim, Recorded
<1>6. PICK pc \in {"name", "fail"} : Step(w, pc)
    BY DEF WorkerClaim
<1> HIDE DEF rec, r
<1>7. r = w.req
    BY DEF r
<1>8. HandsOver([w EXCEPT !.pc = pc])'
    BY <1>2, <1>5, <1>6, <1>7, Outside
<1> QED BY <1>1, <1>2, <1>3, <1>4, <1>5, <1>6, <1>7, <1>8, WorkerStep

LEMMA WorkerNameKept == ASSUME IInv, NEW w \in workers, WorkerName(w) PROVE IInv'
<1> DEFINE r == w.req
<1>1. prep[r] \in PrepRecords /\ prep[r].st \notin {"none", "terminal"} /\ r \in Requests
      /\ w \in WorkerRecords /\ Shape
    BY WorkerGrounds DEF WorkerName, Current
<1>2. Quiet /\ UNCHANGED gens /\ Mu /\ w.pc = "name" /\ r \notin unconfirmed
    BY DEF WorkerName, Quiet, world
<1>3. NoneCompacts /\ \A v \in workers : ~Critical(v)
    BY <1>2, MuKeepsOut
<1>4. CASE prep[r].base # NoBase /\ Step(w, "reserve") /\ UNCHANGED prepStore
    <2>1. Follows(r, prep[r])
        BY <1>1, SameName
    <2>2. HandsOver([w EXCEPT !.pc = "reserve"])'
        BY <1>1, <1>4 DEF HandsOver, Critical, prepStore, PrepRecords, WorkerRecords
    <2> QED BY <1>1, <1>2, <1>3, <1>4, <2>1, <2>2, WorkerStep
<1>5. ASSUME NEW base \in Bases, prep[r].base = NoBase,
             LET rec == [prep[r] EXCEPT !.base = base, !.custom = (CustomOf[r] # NoBase)]
             IN \/ Saved(r, rec) /\ Step(w, "reserve")
                \/ NotSaved(r, rec) /\ Step(w, "fail")
      PROVE  IInv'
    <2> DEFINE rec == [prep[r] EXCEPT !.base = base, !.custom = (CustomOf[r] # NoBase)]
    <2>1. /\ rec \in PrepRecords /\ rec.st = prep[r].st /\ rec.base = base
          /\ rec.gen = prep[r].gen /\ rec.slug = prep[r].slug /\ rec.epoch = prep[r].epoch
        BY <1>1 DEF PrepRecords
    <2>3. \/ Saved(r, rec) /\ Step(w, "reserve")
          \/ NotSaved(r, rec) /\ Step(w, "fail")
        BY <1>5
    <2> HIDE DEF rec
    <2>2. Follows(r, rec)
        BY <1>1, <2>1, SameName
    <2>4. CASE Saved(r, rec) /\ Step(w, "reserve")
        <3>1. prep'[r] = rec
            BY <1>1, <2>4 DEF Saved, Shape
        <3>2. HandsOver([w EXCEPT !.pc = "reserve"])'
            BY <1>1, <2>1, <3>1 DEF HandsOver, Critical, WorkerRecords
        <3> QED BY <1>1, <1>2, <1>3, <2>1, <2>2, <2>4, <3>2, WorkerStep DEF Recorded
    <2>5. CASE NotSaved(r, rec) /\ Step(w, "fail")
        <3>1. Recorded(r, rec)
            BY <2>5 DEF Recorded
        <3>2. HandsOver([w EXCEPT !.pc = "fail"])'
            BY <2>2, <3>1, Outside
        <3> QED BY <1>1, <1>2, <1>3, <2>1, <2>2, <2>5, <3>1, <3>2, WorkerStep
    <2> QED BY <2>3, <2>4, <2>5
<1>6. (IF CustomOf[r] = NoBase THEN Bases ELSE {CustomOf[r]}) \subseteq Bases
    BY <1>1, SessionCreationAssumption
<1> QED BY <1>4, <1>5, <1>6 DEF WorkerName

\* The names a request may reserve are names.
LEMMA ChoicesAreNames ==
    ASSUME NEW r \in Requests, prep[r].base \in Bases PROVE Choices(r) \subseteq Slugs
<1> DEFINE all == Candidates[prep[r].base]
<1>1. all \in Seq(Slugs)
    BY SessionCreationAssumption
<1> HIDE DEF all
<1>2. \A i \in 1..Len(all) : all[i] \in Slugs
    BY <1>1
<1> QED BY <1>2 DEF Choices, all

LEMMA WorkerReserveKept == ASSUME IInv, NEW w \in workers, WorkerReserve(w) PROVE IInv'
<1> DEFINE r == w.req
<1>1. prep[r] \in PrepRecords /\ prep[r].st \notin {"none", "terminal"} /\ r \in Requests
      /\ w \in WorkerRecords /\ Shape /\ prep[r].base \in Bases
    BY WorkerGrounds DEF WorkerReserve, Current, HandsOver
<1>2. Quiet /\ UNCHANGED gens /\ Mu /\ w.pc = "reserve" /\ r \notin unconfirmed
    BY DEF WorkerReserve, Quiet, world
<1>3. NoneCompacts /\ \A v \in workers : ~Critical(v)
    BY <1>2, MuKeepsOut
<1>4. CASE prep[r].slug # NoSlug /\ Step(w, "bind") /\ UNCHANGED prepStore
    <2>1. Follows(r, prep[r])
        BY <1>1, SameName
    <2>2. HandsOver([w EXCEPT !.pc = "bind"])'
        BY <1>1, <1>2, <1>4 DEF HandsOver, Critical, prepStore, WorkerRecords
    <2> QED BY <1>1, <1>2, <1>3, <1>4, <2>1, <2>2, WorkerStep
<1>5. ASSUME NEW s \in Slugs, prep[r].slug = NoSlug,
             LET rec == [prep[r] EXCEPT !.slug = s, !.epoch = hist[s]] IN
             \/ Saved(r, rec) /\ Step(w, "bind")
             \/ NotSaved(r, rec) /\ Step(w, "fail")
      PROVE  IInv'
    <2> DEFINE rec == [prep[r] EXCEPT !.slug = s, !.epoch = hist[s]]
    <2>1. rec \in PrepRecords /\ rec.st = prep[r].st /\ rec.slug = s /\ rec.epoch = hist[s]
          /\ rec.base = prep[r].base /\ rec.gen = prep[r].gen /\ hist[s] <= hist[s] /\ s # NoSlug
        <3>1. hist[s] \in Nat /\ hist[s] <= hist[s]
            BY <1>1 DEF Shape
        <3> QED BY <1>1, <3>1, UploadCatalogAssumption DEF PrepRecords
    <2>2. \/ Saved(r, rec) /\ Step(w, "bind")
          \/ NotSaved(r, rec) /\ Step(w, "fail")
        BY <1>5
    <2> HIDE DEF rec
    <2>3. Follows(r, rec)
        BY <1>1, <1>5, <2>1 DEF Follows, Later, Sound
    <2>4. CASE Saved(r, rec) /\ Step(w, "bind")
        <3>1. prep'[r] = rec /\ unconfirmed' = unconfirmed
            BY <1>1, <2>4 DEF Saved, Shape
        <3>2. HandsOver([w EXCEPT !.pc = "bind"])'
            BY <1>1, <1>2, <2>1, <3>1 DEF HandsOver, Critical, WorkerRecords
        <3> QED BY <1>1, <1>2, <1>3, <2>1, <2>3, <2>4, <3>2, WorkerStep DEF Recorded
    <2>5. CASE NotSaved(r, rec) /\ Step(w, "fail")
        <3>1. Recorded(r, rec)
            BY <2>5 DEF Recorded
        <3>2. HandsOver([w EXCEPT !.pc = "fail"])'
            BY <2>3, <3>1, Outside
        <3> QED BY <1>1, <1>2, <1>3, <2>1, <2>3, <2>5, <3>1, <3>2, WorkerStep
    <2> QED BY <2>2, <2>4, <2>5
<1>6. Choices(r) \subseteq Slugs
    BY <1>1, ChoicesAreNames
<1> QED BY <1>4, <1>5, <1>6 DEF WorkerReserve

LEMMA WorkerBindKept == ASSUME IInv, NEW w \in workers, WorkerBind(w) PROVE IInv'
<1>1. /\ w \in WorkerRecords /\ w.req \in Requests /\ Shape /\ HandsOver(w)
      /\ prep[w.req] \in PrepRecords /\ w.pc = "bind" /\ Critical(w) /\ OneInside
      /\ prep[w.req].st \notin {"none", "terminal"} /\ w.req \notin unconfirmed
    BY WorkerGrounds DEF WorkerBind, Critical, IInv, Records, HandsOver
<1>2. Quiet /\ UNCHANGED <<gens, prepStore>>
    BY DEF WorkerBind, Quiet, world
<1>3. NoneCompacts /\ \A v \in workers : v # w => ~Critical(v)
    BY <1>1, InsideAlone
<1>4. Follows(w.req, prep[w.req])
    BY <1>1, SameName
<1>5. PICK pc \in {"install", "fail"} : Step(w, pc)
    BY DEF WorkerBind
<1>6. HandsOver([w EXCEPT !.pc = pc])'
    BY <1>1, <1>2 DEF HandsOver, Critical, prepStore, WorkerRecords
<1> QED BY <1>1, <1>2, <1>3, <1>4, <1>5, <1>6, WorkerStep

LEMMA WorkerHandoffKept == ASSUME IInv, NEW w \in workers, WorkerHandoff(w) PROVE IInv'
<1> DEFINE r == w.req
           rec == [prep[r] EXCEPT !.st = "handed_off"]
<1>1. /\ w \in WorkerRecords /\ r \in Requests /\ Shape /\ HandsOver(w)
      /\ prep[r] \in PrepRecords /\ w.pc = "handoff" /\ Critical(w) /\ OneInside
      /\ prep[r].st \notin {"none", "terminal"} /\ prep[r].slug # NoSlug
    BY WorkerGrounds DEF WorkerHandoff, Critical, IInv, Records, HandsOver
<1>2. Quiet /\ UNCHANGED gens
    BY DEF WorkerHandoff, Quiet, world
<1>3. NoneCompacts /\ \A v \in workers : v # w => ~Critical(v)
    BY <1>1, InsideAlone
<1>4. rec \in PrepRecords /\ rec.st = "handed_off"
    BY <1>1 DEF PrepRecords
<1>5. Follows(r, rec)
    BY <1>1, <1>4, SameName DEF PrepRecords
<1>6. Recorded(r, rec) /\ (Exit(w) \/ Step(w, "fail"))
    BY DEF WorkerHandoff, Recorded
<1> HIDE DEF rec
<1>7. CASE Exit(w)
    <2>1. WorkersFit
        BY <1>3, <1>7, ExitFits DEF Exit
    <2> QED BY <1>1, <1>2, <1>3, <1>4, <1>5, <1>6, <2>1, GensStay, OpenStep
<1>8. CASE Step(w, "fail")
    <2>1. HandsOver([w EXCEPT !.pc = "fail"])'
        BY <1>5, <1>6, Outside
    <2> QED BY <1>1, <1>2, <1>3, <1>4, <1>5, <1>6, <1>8, <2>1, WorkerStep
<1> QED BY <1>6, <1>7, <1>8

LEMMA WorkerErrorKept == ASSUME IInv, NEW w \in workers, WorkerError(w) PROVE IInv'
<1>1. Quiet /\ UNCHANGED <<gens, prepStore>> /\ Mu /\ w.pc # "fail" /\ Step(w, "fail")
    BY DEF WorkerError, Quiet, world
<1>2. NoneCompacts /\ \A v \in workers : ~Critical(v)
    BY <1>1, MuKeepsOut
<1>3. w \in WorkerRecords /\ Shape /\ HandsOver(w) /\ Handing
    BY WorkerGrounds DEF IInv, Records
<1>4. HandsOver([w EXCEPT !.pc = "fail"])'
    BY <1>1, <1>3 DEF HandsOver, Critical, prepStore, WorkerRecords
<1>5. WorkersFit
    BY <1>1, <1>2, <1>3, <1>4, StepFits
<1>6. \A q \in Requests : Later(prep[q], prep[q])
    BY DEF Later
<1>7. workers' \subseteq WorkerRecords /\ OneInside' /\ Handing'
    BY <1>1, <1>2, <1>3, <1>5, <1>6, WorkersKept DEF prepStore, Quiet, NoneCompacts
<1> QED BY <1>1, <1>7, IdleStep

LEMMA WorkerFailKept == ASSUME IInv, NEW w \in workers, WorkerFail(w) PROVE IInv'
<1> DEFINE r == w.req
           rec == [prep[r] EXCEPT !.st = "failed"]
<1>1. Quiet /\ UNCHANGED gens /\ Mu /\ workers' = workers \ {w}
    BY DEF WorkerFail, Quiet, world, Exit
<1>2. NoneCompacts /\ \A v \in workers : ~Critical(v)
    BY <1>1, MuKeepsOut
<1>3. WorkersFit
    BY <1>1, <1>2, ExitFits
<1>4. prep[r] \in PrepRecords /\ rec \in PrepRecords /\ rec.st = "failed" /\ r \in Requests
    BY WorkerGrounds DEF PrepRecords
<1>5. CASE Current(w) /\ Recorded(r, rec)
    <2>1. Follows(r, rec)
        BY <1>4, <1>5, SameName DEF PrepRecords, Current
    <2> HIDE DEF rec
    <2> QED BY <1>1, <1>2, <1>3, <1>4, <1>5, <2>1, GensStay, OpenStep DEF IInv
<1>6. CASE UNCHANGED prepStore
    <2>1. \A q \in Requests : Later(prep[q], prep[q])
        BY DEF Later
    <2>2. Shape /\ Handing
        BY DEF IInv, Records
    <2>3. workers' \subseteq WorkerRecords /\ OneInside' /\ Handing'
        BY <1>1, <1>2, <1>3, <1>6, <2>1, <2>2, WorkersKept DEF prepStore, Quiet, NoneCompacts
    <2> QED BY <1>1, <1>6, <2>3, IdleStep
<1> QED BY <1>5, <1>6 DEF WorkerFail, Recorded

(***************************************************************************)
(* Reconciliation, collection and confirmation.                            *)
(***************************************************************************)
\* A reconciled record that does not end its request.
LEMMA ReconcileStep ==
    ASSUME IInv, Quiet, Mu, UNCHANGED <<gens, workers>>, NEW r \in Requests, NEW rec,
           Follows(r, rec), rec.st # "terminal", Recorded(r, rec)
    PROVE  IInv'
BY MuKeepsOut, SameFits, GensStay, OpenStep DEF IInv

LEMMA ReconcileAcceptingKept ==
    ASSUME IInv, NEW r \in Requests, ReconcileAccepting(r) PROVE IInv'
<1> DEFINE held == [prep[r] EXCEPT !.st = "running", !.goal = TRUE]
           paused == [prep[r] EXCEPT !.st = "paused",
                                     !.goal = @ \/ CanHold(Compact(cat), r)]
<1>1. Quiet /\ Mu /\ UNCHANGED <<gens, workers>> /\ prep[r].st \in {"accepting", "running"}
      /\ (Recorded(r, held) \/ Recorded(r, paused))
    BY DEF ReconcileAccepting, Quiet, world, Recorded
<1>2. prep[r] \in PrepRecords /\ held \in PrepRecords /\ held.st = "running"
    BY Grounds DEF PrepRecords
<1>3. paused \in PrepRecords /\ paused.st = "paused"
    BY <1>2 DEF PrepRecords
<1>4. Follows(r, held)
    BY <1>1, <1>2, SameName DEF PrepRecords
<1>5. Follows(r, paused)
    <2>1. /\ paused.gen = prep[r].gen /\ paused.slug = prep[r].slug
          /\ paused.epoch = prep[r].epoch /\ paused.base = prep[r].base
        BY <1>2 DEF PrepRecords
    <2> HIDE DEF paused, held
    <2> QED BY <1>1, <1>3, <2>1, SameName
<1> HIDE DEF held, paused
<1> QED BY <1>1, <1>2, <1>3, <1>4, <1>5, ReconcileStep

LEMMA ReconcileClaimKept ==
    ASSUME IInv, NEW r \in Requests, ReconcileClaim(r) PROVE IInv'
<1> DEFINE rec == [prep[r] EXCEPT !.st = "failed"]
<1>1. Quiet /\ Mu /\ UNCHANGED <<gens, workers>> /\ Recorded(r, rec)
    BY DEF ReconcileClaim, Quiet, world, Recorded
<1>2. prep[r] \in PrepRecords /\ rec \in PrepRecords /\ rec.st = "failed"
    BY Grounds DEF PrepRecords
<1>3. Follows(r, rec)
    BY <1>2, SameName DEF PrepRecords, ReconcileClaim, Unfinished
<1> QED BY <1>1, <1>2, <1>3, ReconcileStep

LEMMA ReconcileHandoffKept ==
    ASSUME IInv, NEW r \in Requests, ReconcileHandoff(r) PROVE IInv'
<1> DEFINE rec(st) == [prep[r] EXCEPT !.st = st]
<1>1. PICK st \in {"handed_off", "failed"} :
          Quiet /\ Mu /\ UNCHANGED <<gens, workers>> /\ Recorded(r, rec(st))
    BY DEF ReconcileHandoff, Quiet, world, Recorded
<1>2. prep[r] \in PrepRecords /\ rec(st) \in PrepRecords /\ rec(st).st = st
    BY Grounds DEF PrepRecords
<1>3. Follows(r, rec(st))
    BY <1>2, SameName DEF PrepRecords, ReconcileHandoff, Unfinished
<1> HIDE DEF rec
<1> QED BY <1>1, <1>2, <1>3, ReconcileStep

LEMMA CollectUploadsKept == IInv /\ CollectUploads => IInv'
<1> SUFFICES ASSUME IInv, CollectUploads PROVE IInv'
    OBVIOUS
<1>1. Quiet /\ UNCHANGED <<prepStore, gens, workers>>
    BY DEF CollectUploads, Quiet, world
<1>2. workers' \subseteq WorkerRecords /\ OneInside' /\ Handing'
    BY <1>1 DEF IInv, Shape, Records, OneInside, Handing, HandsOver, prepStore, Quiet
<1> QED BY <1>1, <1>2, IdleStep

LEMMA AgeFileKept == ASSUME IInv, NEW f, AgeFile(f) PROVE IInv'
<1>1. Quiet /\ UNCHANGED <<prepStore, gens, workers>>
    BY DEF AgeFile, Quiet, world
<1>2. workers' \subseteq WorkerRecords /\ OneInside' /\ Handing'
    BY <1>1 DEF IInv, Shape, Records, OneInside, Handing, HandsOver, prepStore, Quiet
<1> QED BY <1>1, <1>2, IdleStep

LEMMA ConfirmKept == ASSUME IInv, NEW r \in Requests, Confirm(r) PROVE IInv'
<1>1. Quiet /\ UNCHANGED <<prep, prepFile, workers, gens>> /\ Shape /\ Stored
      /\ unconfirmed' = unconfirmed \ {r}
      /\ prepSafe' = [prepSafe EXCEPT ![r] = prepFile[r]]
      /\ \A w \in workers : ~Critical(w)
    BY DEF Confirm, Quiet, world, IInv, Records, Critical
<1>2. GensGrow
    BY <1>1, GensStay
<1>3. \A q \in Requests : Later(prepSafe[q], prepSafe'[q]) /\ Later(prepFile[q], prepFile[q])
    BY <1>1 DEF Shape, Stored, Later
<1>4. Sound(prepFile[r])
    BY <1>1 DEF Stored, Alike, Sound
<1>5. PrepShape' /\ Stored'
    BY <1>1, <1>3, <1>4 DEF Shape, PrepShape, Stored, Quiet
<1>6. workers' \subseteq WorkerRecords /\ OneInside' /\ Handing'
    BY <1>1 DEF IInv, Shape, Records, OneInside, Handing, HandsOver, Quiet
<1>7. Finished'
    BY <1>1 DEF IInv, History, Finished, Quiet, creStore, OwnerOf
<1> QED BY <1>1, <1>2, <1>3, <1>5, <1>6, <1>7, QuietKept

(***************************************************************************)
(* What marks say.                                                         *)
(***************************************************************************)
LEMMA MarkFields ==
    \A o, s, e : Mark(o, s, e).owner = o /\ Mark(o, s, e).slug = s /\ Mark(o, s, e).epoch = e
BY DEF Mark

LEMMA ReceiptMark ==
    ASSUME NEW s \in Slugs, cre[s].st # "none"
    PROVE  Mark(cre[s].owner, s, cre[s].epoch) \in Marks
BY DEF Marks, CreMarks

LEMMA FileMark ==
    ASSUME NEW s \in Slugs, creFile[s].st # "none"
    PROVE  Mark(creFile[s].owner, s, creFile[s].epoch) \in Marks
BY DEF Marks, FileMarks

LEMMA CreatorMark ==
    ASSUME NEW c \in creators PROVE Mark(c.owner, c.slug, c.epoch) \in Marks
BY DEF Marks, CreatorMarks

LEMMA SessionMark ==
    ASSUME NEW s \in Slugs, session[s].st # "none", session[s].owner # Nobody
    PROVE  Mark(session[s].owner, s, hist[s]) \in Marks
BY DEF Marks, SessionMarks

LEMMA MadeMark == ASSUME NEW e \in created PROVE e \in Marks
BY DEF Marks

\* A mark of a request repeats its record.
LEMMA MarkOfRequest ==
    ASSUME IInv, NEW m \in Marks, m.owner.req \in Requests
    PROVE  LET r == m.owner.req IN
           /\ m.owner = OwnerOf(r) /\ m.slug = prep[r].slug /\ m.epoch = prep[r].epoch
           /\ m.slug = prepFile[r].slug /\ m.owner.gen = prepFile[r].gen
           /\ prepFile[r].st # "none" /\ prep[r].st # "none" /\ m.slug \in Slugs
<1> DEFINE r == m.owner.req
<1>1. m \in MarkRecords /\ Anchored(m) /\ Shape /\ Stored
    BY MarksTyped DEF IInv, Identities, MarksAnchored, Records
<1>2. /\ prepSafe[r].st # "none" /\ prepSafe[r].gen = m.owner.gen
      /\ prepSafe[r].slug = m.slug /\ prepSafe[r].epoch = m.epoch
    BY <1>1 DEF Anchored
<1>3. m.slug \in Slugs /\ m.slug # NoSlug
    BY <1>1, UploadCatalogAssumption DEF MarkRecords
<1>4. /\ prepFile[r].st # "none" /\ prepFile[r].gen = m.owner.gen
      /\ prepFile[r].slug = m.slug /\ prepFile[r].epoch = m.epoch
    BY <1>1, <1>2, <1>3 DEF Stored, Later
<1>5. /\ prep[r].st # "none" /\ prep[r].gen = m.owner.gen
      /\ prep[r].slug = m.slug /\ prep[r].epoch = m.epoch
    BY <1>1, <1>4 DEF Stored, Alike
<1>6. m.owner = [req |-> r, gen |-> m.owner.gen]
    BY <1>1 DEF MarkRecords, AnyOwner
<1> QED BY <1>3, <1>4, <1>5, <1>6 DEF OwnerOf

\* Nobody has no mark, and an owner has one.
LEMMA MarkOwner == ASSUME IInv, NEW m \in Marks PROVE m.owner # Nobody /\ m \in MarkRecords
<1>1. Anchored(m) /\ m \in MarkRecords
    BY MarksTyped DEF IInv, Identities, MarksAnchored
<1>2. m.owner.req # Cli
    BY <1>1, SessionCreationAssumption DEF Anchored
<1> QED BY <1>1, <1>2, NoBodyIsNobody

LEMMA OneMark ==
    ASSUME IInv, NEW m \in Marks, NEW n \in Marks, m.owner = n.owner
    PROVE  m = n
BY DEF IInv, Identities, MarksAgree

\* Evidence found under the owner of a mark is of a session made under it.
LEMMA EvidenceMade ==
    ASSUME IInv, NEW m \in Marks, m.owner \in evidence
    PROVE  m \in created
<1>1. PICK e \in created : e.owner = m.owner
    BY DEF IInv, History, Evidenced
<1> QED BY <1>1, MadeMark, OneMark

\* A proved receipt is of a session that was made for it.
LEMMA ProvedMade ==
    ASSUME IInv, NEW s \in Slugs, cre[s].st # "none", cre[s].owner \in evidence
    PROVE  Mark(cre[s].owner, s, cre[s].epoch) \in created
BY ReceiptMark, EvidenceMade, MarkFields

LEMMA ReconcileCompactKept ==
    ASSUME IInv, NEW r \in Requests, ReconcileCompact(r) PROVE IInv'
<1> DEFINE s == prep[r].slug
           rec == Mapping(r, cre[s].st)
<1>1. Quiet /\ Mu /\ UNCHANGED <<gens, workers>> /\ Recorded(r, rec)
    BY DEF ReconcileCompact, Quiet, world, Recorded
<1>2. /\ prep[r] \in PrepRecords /\ Shape /\ prep[r].st = "handed_off"
      /\ Matches(r, cre[s]) /\ cre[s].st \in {"ready", "conflict"}
      /\ cre[s].st = "ready" => Prove(s, cre[s])
    BY Grounds DEF ReconcileCompact
<1>3. rec \in PrepRecords /\ rec.st = "terminal" /\ rec.gen = prep[r].gen
      /\ rec.slug = s /\ rec.epoch = prep[r].epoch
    BY <1>2 DEF Mapping, PrepRecords
<1>4. s \in Slugs /\ Sound(prep[r]) /\ prep[r].epoch <= hist[s]
    BY <1>2, Grounds DEF PrepRecords, Sound
<1>5. /\ cre[s].owner = OwnerOf(r) /\ cre[s].epoch = prep[r].epoch
      /\ Mark(cre[s].owner, s, cre[s].epoch) \in created
    <2>1. cre[s].owner = OwnerOf(r) /\ cre[s].epoch = prep[r].epoch /\ cre[s].owner.req = r
        BY <1>2 DEF Matches, OwnerOf
    <2>2. CASE cre[s].st = "ready"
        BY <1>2, <1>4, <2>1, <2>2, ProvedMade DEF Prove
    <2>3. CASE cre[s].st = "conflict"
        BY <1>4, <2>1, <2>3 DEF IInv, History, Overtaken
    <2> QED BY <1>2, <2>1, <2>2, <2>3
<1> HIDE DEF rec, s
<1>6. s = prep[r].slug
    BY DEF s
<1>7. Follows(r, rec)
    BY <1>2, <1>3, <1>4, <1>6 DEF Follows, Later, Sound
<1>8. PrepShape /\ Stored /\ Finished /\ UNCHANGED hist
    BY <1>1, <1>2 DEF IInv, Shape, PrepShape, Records, History, Quiet
<1>9. /\ PrepShape'
      /\ \A q \in Requests : prep'[q] = prep[q] \/ (q = r /\ prep'[q] = rec)
      /\ unconfirmed' \subseteq unconfirmed \cup {r}
    BY ONLY <1>1, <1>7, <1>8, r \in Requests, RecordedKept
<1>10. \A q \in Requests :
          /\ OwnerOf(q)' = OwnerOf(q) /\ prep'[q].slug = prep[q].slug
          /\ prep'[q].epoch = prep[q].epoch
          /\ q # r => prep'[q] = prep[q]
    BY <1>3, <1>6, <1>9 DEF OwnerOf
<1>11. Finished'
    <2>1. ASSUME NEW q \in Requests, prep'[q].st = "terminal"
          PROVE  Mark(OwnerOf(q)', prep'[q].slug, prep'[q].epoch) \in created'
        <3>1. CASE q = r
            BY <1>1, <1>5, <1>6, <1>10, <3>1 DEF Quiet
        <3>2. CASE q # r
            <4>1. prep[q].st = "terminal"
                BY <1>10, <2>1, <3>2
            <4> QED BY <1>1, <1>8, <1>10, <4>1 DEF Finished, Quiet
        <3> QED BY <3>1, <3>2
    <2>2. ASSUME NEW c \in creators', c.pc # "compact", c.owner.req \in Requests
          PROVE  prep'[c.owner.req].st # "terminal"
        <3>1. c \in creators /\ cre[c.slug].st = "running"
            BY <1>1, <2>2 DEF Quiet, IInv, Records, Creating, Working
        <3>2. CASE c.owner.req = r
            <4>1. c.slug = s
                BY <1>6, <2>2, <3>1, <3>2, CreatorMark, MarkOfRequest, MarkFields
            <4> QED BY <1>2, <1>6, <3>1, <4>1
        <3>3. CASE c.owner.req # r
            <4>1. prep[c.owner.req].st # "terminal"
                BY <1>8, <2>2, <3>1 DEF Finished
            <4> QED BY <1>10, <2>2, <3>3, <4>1
        <3> QED BY <3>2, <3>3
    <2>3. ASSUME NEW q \in unconfirmed', prep'[q].st = "terminal"
          PROVE  \/ InPlace(cre'[prep'[q].slug], OwnerOf(q)')
                 \/ hist'[prep'[q].slug] # prep'[q].epoch
        <3>1. CASE q = r
            <4>1. InPlace(cre[s], OwnerOf(r)) /\ cre' = cre
                BY <1>1, <1>2, <1>5 DEF InPlace, Quiet, creStore
            <4> QED BY <1>6, <1>10, <3>1, <4>1
        <3>2. CASE q # r
            <4>1. q \in Requests /\ q \in unconfirmed
                BY <1>8, <1>9, <2>3, <3>2 DEF PrepShape
            <4>2. prep[q].st = "terminal" /\ cre' = cre /\ hist' = hist
                BY <1>1, <1>10, <2>3, <3>2, <4>1 DEF Quiet, creStore
            <4>3. \/ InPlace(cre[prep[q].slug], OwnerOf(q))
                  \/ hist[prep[q].slug] # prep[q].epoch
                BY <1>8, <4>1, <4>2 DEF Finished
            <4> QED BY <1>10, <4>1, <4>2, <4>3
        <3> QED BY <3>1, <3>2
    <2> QED BY <2>1, <2>2, <2>3 DEF Finished
<1> QED BY <1>1, <1>2, <1>7, <1>11, GensStay, MuKeepsOut, SameFits, QuietStep

(***************************************************************************)
(* Receipts: what a step at one name leaves alone.                         *)
(***************************************************************************)
\* Nothing moves off the name s, and no owner but o is bound or unbound.
OnlyAt(s, o) ==
    /\ \A t \in Slugs \ {s} : /\ cre'[t] = cre[t] /\ creFile'[t] = creFile[t]
                              /\ session'[t] = session[t] /\ hist'[t] = hist[t]
    /\ created \subseteq created'
    /\ \A x \in AnyOwner : x # o => (x \in bound' <=> x \in bound)
    /\ \A c \in creators \cup creators' :
          c.slug # s => c \in creators /\ c \in creators' /\ c.owner # o

LEMMA CreatorsKept ==
    ASSUME IInv, NEW s \in Slugs, NEW o, OnlyAt(s, o), creators' \subseteq CreatorRecords,
           \A c \in creators' : c.slug = s => Working(c)',
           \A c, d \in creators' : c.slug = s /\ d.slug = s => c = d,
           cre'[s].st = "running" => \E c \in creators' : c.slug = s
    PROVE  Creating'
<1>1. Creating /\ creators \subseteq CreatorRecords
    BY DEF IInv, Records, Shape
<1>2. ASSUME NEW c \in creators' PROVE Working(c)'
    <2>1. CASE c.slug = s
        BY <2>1
    <2>2. CASE c.slug # s
        <3>1. c \in creators /\ Working(c) /\ c.slug \in Slugs \ {s} /\ c.owner \in AnyOwner
              /\ c.owner # o
            BY <1>1, <2>2 DEF OnlyAt, Creating, CreatorRecords
        <3>2. /\ cre'[c.slug] = cre[c.slug] /\ creFile'[c.slug] = creFile[c.slug]
              /\ session'[c.slug] = session[c.slug] /\ hist'[c.slug] = hist[c.slug]
              /\ created \subseteq created' /\ (c.owner \in bound' <=> c.owner \in bound)
            BY <3>1 DEF OnlyAt
        <3> QED BY <3>1, <3>2 DEF Working
    <2> QED BY <2>1, <2>2
<1>3. ASSUME NEW c \in creators', NEW d \in creators', c.slug = d.slug PROVE c = d
    <2>1. CASE c.slug # s
        BY <1>1, <1>3, <2>1 DEF OnlyAt, Creating
    <2> QED BY <1>3, <2>1
<1>4. ASSUME NEW t \in Slugs, cre'[t].st = "running" PROVE \E c \in creators' : c.slug = t
    <2>1. CASE t # s
        <3>1. PICK c \in creators : c.slug = t
            BY <1>1, <1>4, <2>1 DEF OnlyAt, Creating
        <3> QED BY <2>1, <3>1 DEF OnlyAt
    <2> QED BY <1>4, <2>1
<1> QED BY <1>2, <1>3, <1>4 DEF Creating

\* A step adds at most one mark, that of somebody new or of a request.
LEMMA MarksKept ==
    ASSUME IInv, GensGrow, \A q \in Requests : Later(prepSafe[q], prepSafe'[q]),
           NEW k \in MarkRecords, Marks' \subseteq Marks \cup {k}, Anchored(k)',
           k.owner.req \in Requests \/ \A m \in Marks : m.owner # k.owner
    PROVE  Identities'
<1>1. Marks \subseteq MarkRecords /\ PrepShape /\ MarksAnchored /\ MarksAgree
      /\ gens \in [Requests \cup Directs -> Nat]
    BY MarksTyped DEF IInv, Identities, Shape, PrepShape
<1>2. \A m \in Marks : Anchored(m)'
    <2> TAKE m \in Marks
    <2>1. m \in MarkRecords /\ Anchored(m)
        BY <1>1 DEF MarksAnchored
    <2> QED BY ONLY <1>1, <2>1, AnchorsKept, GensGrow,
                    \A q \in Requests : Later(prepSafe[q], prepSafe'[q])
               DEF GensGrow
<1>3. MarksAnchored'
    BY <1>2 DEF MarksAnchored
<1>4. ASSUME NEW m \in Marks', m.owner = k.owner PROVE m = k
    <2>1. CASE k.owner.req \in Requests
        <3>1. m \in MarkRecords /\ Anchored(m)' /\ m.owner.req \in Requests
            BY <1>1, <1>2, <1>4, <2>1
        <3>2. m.slug = k.slug /\ m.epoch = k.epoch
            BY <1>4, <2>1, <3>1 DEF Anchored
        <3> QED BY <1>4, <3>1, <3>2 DEF MarkRecords
    <2> QED BY <1>4, <2>1
<1>5. MarksAgree'
    BY <1>1, <1>4 DEF MarksAgree
<1> QED BY <1>3, <1>5 DEF Identities

LEMMA MarksStay ==
    ASSUME IInv, GensGrow, \A q \in Requests : Later(prepSafe[q], prepSafe'[q]),
           Marks' \subseteq Marks
    PROVE  Identities'
<1>1. Marks \subseteq MarkRecords /\ PrepShape /\ MarksAnchored /\ MarksAgree
      /\ gens \in [Requests \cup Directs -> Nat]
    BY MarksTyped DEF IInv, Identities, Shape, PrepShape
<1>2. \A m \in Marks : Anchored(m)'
    <2> TAKE m \in Marks
    <2>1. m \in MarkRecords /\ Anchored(m)
        BY <1>1 DEF MarksAnchored
    <2> QED BY ONLY <1>1, <2>1, AnchorsKept, GensGrow,
                    \A q \in Requests : Later(prepSafe[q], prepSafe'[q])
               DEF GensGrow
<1> QED BY <1>1, <1>2 DEF Identities, MarksAnchored, MarksAgree

\* The marks of a state, one kind at a time.
LEMMA MarksWithin ==
    ASSUME NEW M, created' \subseteq M,
           \A s \in Slugs : /\ cre'[s].st # "none" => Mark(cre'[s].owner, s, cre'[s].epoch) \in M
                            /\ creFile'[s].st # "none" =>
                                  Mark(creFile'[s].owner, s, creFile'[s].epoch) \in M
                            /\ session'[s].st # "none" /\ session'[s].owner # Nobody =>
                                  Mark(session'[s].owner, s, hist'[s]) \in M,
           \A c \in creators' : Mark(c.owner, c.slug, c.epoch) \in M
    PROVE  Marks' \subseteq M
BY DEF Marks, CreMarks, FileMarks, CreatorMarks, SessionMarks

(***************************************************************************)
(* A step that keeps the owner and the epoch of a receipt.                 *)
(***************************************************************************)
SlotKeeps(s, a) ==
    /\ a \in ReceiptRecords /\ a.st # "none"
    /\ a.owner = cre[s].owner /\ a.epoch = cre[s].epoch
    /\ a.owner \in bound => a.validated
    /\ a.st = "ready" => Mark(a.owner, s, a.epoch) \in created
    /\ a.st = "conflict" /\ a.owner.req \in Requests => Mark(a.owner, s, a.epoch) \in created

\* Memory, the file or both get such a receipt.
SlotMoves(s, a, b) == /\ SlotKeeps(s, a) /\ SlotKeeps(s, b) /\ cre[s].st # "none"
                      /\ cre' \in {cre, [cre EXCEPT ![s] = a]}
                      /\ creFile' \in {creFile, [creFile EXCEPT ![s] = b]}

LEMMA SlotPlaces ==
    ASSUME Shape, NEW s \in Slugs, NEW a, NEW b, SlotMoves(s, a, b)
    PROVE  /\ cre' \in [Slugs -> ReceiptRecords] /\ creFile' \in [Slugs -> ReceiptRecords]
           /\ \A t \in Slugs \ {s} : cre'[t] = cre[t] /\ creFile'[t] = creFile[t]
           /\ cre'[s] \in {cre[s], a} /\ creFile'[s] \in {creFile[s], b}
           /\ \A t \in Slugs : /\ cre'[t].st = "none" <=> cre[t].st = "none"
                               /\ cre'[t].owner = cre[t].owner /\ cre'[t].epoch = cre[t].epoch
BY DEF SlotMoves, SlotKeeps, Shape

LEMMA SlotHistory ==
    ASSUME IInv, NEW s \in Slugs, NEW a, NEW b, SlotMoves(s, a, b),
           UNCHANGED <<session, hist, bound, evidence, created>>
    PROVE  Validated' /\ Evidenced' /\ Lived' /\ Overtaken' /\ ReadyIsMade'
<1>1. /\ Shape /\ Validated /\ Evidenced /\ Lived /\ Overtaken /\ ReadyIsMade
      /\ SlotKeeps(s, a) /\ SlotKeeps(s, b) /\ cre[s].st # "none"
    BY DEF IInv, History, SlotMoves
<1>2. /\ \A t \in Slugs \ {s} : cre'[t] = cre[t] /\ creFile'[t] = creFile[t]
      /\ cre'[s] \in {cre[s], a} /\ creFile'[s] \in {creFile[s], b}
      /\ \A t \in Slugs : /\ cre'[t].st = "none" <=> cre[t].st = "none"
                          /\ cre'[t].owner = cre[t].owner /\ cre'[t].epoch = cre[t].epoch
    BY <1>1, SlotPlaces
<1>3. \A o : \A t \in Slugs : InPlace(cre'[t], o) <=> InPlace(cre[t], o)
    BY <1>2 DEF InPlace
<1>4. \A o : \A t \in Slugs : InPlace(creFile'[t], o) => InPlace(creFile[t], o) \/ InPlace(cre[t], o)
    BY <1>1, <1>2 DEF InPlace, SlotKeeps
<1>5. Validated'
    <2>1. ASSUME NEW o \in bound
          PROVE \E t \in Slugs : /\ InPlace(cre'[t], o) /\ InPlace(creFile'[t], o)
                                 /\ cre'[t].validated /\ creFile'[t].validated
        <3>1. PICK t \in Slugs : /\ InPlace(cre[t], o) /\ InPlace(creFile[t], o)
                                 /\ cre[t].validated /\ creFile[t].validated
            BY <1>1 DEF Validated
        <3>2. CASE t # s
            BY <1>2, <3>1, <3>2
        <3>3. CASE t = s
            BY <1>1, <1>2, <3>1, <3>3 DEF SlotKeeps, InPlace
        <3> QED BY <3>2, <3>3
    <2> QED BY <1>1, <2>1 DEF Validated
<1>6. Evidenced'
    BY <1>1, <1>3, <1>4 DEF Evidenced, Shape, MarkRecords
<1>7. Lived'
    BY <1>1 DEF Lived
<1>8. Overtaken'
    <2> SUFFICES ASSUME NEW t \in Slugs, NEW rec \in {cre'[t], creFile'[t]},
                        rec.st # "none", rec.owner.req \in Requests,
                        \/ rec.st = "conflict"
                        \/ session[t].st # "none" /\ session[t].owner # rec.owner
                 PROVE  Mark(rec.owner, t, rec.epoch) \in created
        BY DEF Overtaken
    <2>1. CASE rec \in {cre[t], creFile[t]}
        BY <1>1, <2>1 DEF Overtaken
    <2>2. CASE t = s /\ rec \in {a, b}
        <3>1. /\ rec.owner = cre[s].owner /\ rec.epoch = cre[s].epoch
              /\ rec.st = "conflict" => Mark(rec.owner, s, rec.epoch) \in created
            BY <1>1, <2>2 DEF SlotKeeps
        <3>2. CASE session[s].st # "none" /\ session[s].owner # rec.owner
            BY <1>1, <2>2, <3>1, <3>2 DEF Overtaken
        <3> QED BY <2>2, <3>1, <3>2
    <2> QED BY <1>2, <2>1, <2>2
<1>9. ReadyIsMade'
    <2> SUFFICES ASSUME NEW t \in Slugs, NEW rec \in {cre'[t], creFile'[t]}, rec.st = "ready"
                 PROVE  Mark(rec.owner, t, rec.epoch) \in created
        BY DEF ReadyIsMade, Mark
    <2>1. CASE rec \in {cre[t], creFile[t]}
        BY <1>1, <2>1 DEF ReadyIsMade, Mark
    <2>2. CASE t = s /\ rec \in {a, b}
        BY <1>1, <2>2 DEF SlotKeeps
    <2> QED BY <1>2, <2>1, <2>2
<1> QED BY <1>5, <1>6, <1>7, <1>8, <1>9

LEMMA SlotStep ==
    ASSUME IInv, NEW s \in Slugs, NEW a, NEW b, SlotMoves(s, a, b),
           UNCHANGED <<session, hist, bound, evidence, created, gens>>,
           PrepShape', Stored', \A q \in Requests : Later(prepSafe[q], prepSafe'[q]),
           workers' \subseteq WorkerRecords, OneInside', Handing',
           creators' \subseteq CreatorRecords, Creating', Finished',
           \A c \in creators' : Mark(c.owner, c.slug, c.epoch) \in Marks
    PROVE  IInv'
<1>1. /\ Shape /\ SlotKeeps(s, b) /\ cre[s].st # "none"
      /\ cre' \in [Slugs -> ReceiptRecords] /\ creFile' \in [Slugs -> ReceiptRecords]
      /\ \A t \in Slugs \ {s} : cre'[t] = cre[t] /\ creFile'[t] = creFile[t]
      /\ creFile'[s] \in {creFile[s], b}
      /\ \A t \in Slugs : /\ cre'[t].st = "none" <=> cre[t].st = "none"
                          /\ cre'[t].owner = cre[t].owner /\ cre'[t].epoch = cre[t].epoch
    BY SlotPlaces DEF IInv, SlotMoves
<1>2. Shape'
    BY <1>1 DEF Shape, PrepShape
<1>3. Validated' /\ Evidenced' /\ Lived' /\ Overtaken' /\ ReadyIsMade'
    BY SlotHistory
<1>4. \A t \in Slugs :
         /\ cre'[t].st # "none" => Mark(cre'[t].owner, t, cre'[t].epoch) \in Marks
         /\ creFile'[t].st # "none" => Mark(creFile'[t].owner, t, creFile'[t].epoch) \in Marks
         /\ session'[t].st # "none" /\ session'[t].owner # Nobody =>
               Mark(session'[t].owner, t, hist'[t]) \in Marks
    <2> TAKE t \in Slugs
    <2>1. cre'[t].st # "none" => Mark(cre'[t].owner, t, cre'[t].epoch) \in Marks
        BY <1>1, ReceiptMark
    <2>2. creFile'[t].st # "none" => Mark(creFile'[t].owner, t, creFile'[t].epoch) \in Marks
        BY <1>1, ReceiptMark, FileMark DEF SlotKeeps
    <2>3. session'[t].st # "none" /\ session'[t].owner # Nobody =>
             Mark(session'[t].owner, t, hist'[t]) \in Marks
        BY SessionMark
    <2> QED BY <2>1, <2>2, <2>3
<1>5. created' \subseteq Marks
    BY MadeMark
<1>6. Marks' \subseteq Marks
    BY <1>4, <1>5, MarksWithin
<1>7. Identities'
    BY <1>1, <1>6, GensStay, MarksStay
<1> QED BY <1>2, <1>3, <1>7 DEF IInv, Records, History

\* What is over stays over while no receipt leaves its place.
LEMMA FinishedStays ==
    ASSUME IInv, UNCHANGED <<prep, unconfirmed, hist>>, created \subseteq created',
           \A t \in Slugs : cre[t].st # "none" =>
               cre'[t].st # "none" /\ cre'[t].owner = cre[t].owner,
           \A c \in creators' : c.pc # "compact" /\ c.owner.req \in Requests =>
               prep[c.owner.req].st # "terminal"
    PROVE  Finished'
<1>1. Finished /\ Stored /\ Shape
    BY DEF IInv, History, Records
<1>2. \A q \in Requests : prep[q].st = "terminal" => prep[q].slug \in Slugs
    BY <1>1 DEF Stored, Sound, Shape, PrepRecords
<1>3. \A q \in Requests : OwnerOf(q)' = OwnerOf(q)
    BY DEF OwnerOf
<1>4. unconfirmed \subseteq Requests
    BY <1>1 DEF Shape
<1> QED BY <1>1, <1>2, <1>3, <1>4 DEF Finished, InPlace

LEMMA PrepStays ==
    ASSUME IInv, UNCHANGED <<prepStore, workers, hist>>
    PROVE  /\ PrepShape' /\ Stored' /\ \A q \in Requests : Later(prepSafe[q], prepSafe'[q])
           /\ workers' \subseteq WorkerRecords /\ Handing'
<1> USE DEF prepStore
<1>1. PrepShape' /\ Stored'
    BY DEF IInv, Shape, PrepShape, Records, Stored
<1>2. \A q \in Requests : Later(prepSafe[q], prepSafe'[q])
    BY DEF Later
<1>3. workers' \subseteq WorkerRecords /\ Handing'
    BY DEF IInv, Shape, Records, Handing, HandsOver
<1> QED BY <1>1, <1>2, <1>3

\* Nobody comes in.
LEMMA InsideStays ==
    ASSUME IInv, UNCHANGED workers, \A c \in creators' : c.pc = "compact" => c \in creators
    PROVE  OneInside'
BY DEF IInv, Records, OneInside

LEMMA CreatorGrounds ==
    ASSUME IInv, NEW c \in creators
    PROVE  /\ c \in CreatorRecords /\ c.slug \in Slugs /\ Working(c) /\ Shape
           /\ cre[c.slug] \in ReceiptRecords /\ cre[c.slug].st # "none"
           /\ Mark(c.owner, c.slug, c.epoch) \in Marks
           /\ \A x \in creators : x.slug = c.slug \/ x.owner = c.owner => x = c
<1>1. /\ c \in CreatorRecords /\ c.slug \in Slugs /\ Working(c) /\ Shape /\ Creating
      /\ creators \subseteq CreatorRecords
    BY DEF IInv, Shape, CreatorRecords, Records, Creating
<1>2. cre[c.slug] \in ReceiptRecords /\ cre[c.slug].st # "none"
    BY <1>1 DEF Shape, Working
<1>3. \A x \in creators : x.slug = c.slug => x = c
    BY <1>1 DEF Creating
<1>4. ASSUME NEW x \in creators, x.owner = c.owner PROVE x = c
    <2>1. Mark(x.owner, x.slug, x.epoch) = Mark(c.owner, c.slug, c.epoch)
        BY <1>4, CreatorMark, OneMark, MarkFields
    <2> QED BY <1>3, <2>1, MarkFields
<1> QED BY <1>1, <1>2, <1>3, <1>4, CreatorMark

\* Nobody works on a receipt that is not running.
LEMMA NobodyWorks ==
    ASSUME IInv, NEW s \in Slugs, cre[s].st \notin {"running", "ready"} \/
                                  (cre[s].st = "ready" /\ NoneCompacts)
    PROVE  \A c \in creators : c.slug # s
BY DEF IInv, Records, Creating, Working, NoneCompacts

\* The one creator of a receipt moves or ends.
LEMMA OneCreator ==
    ASSUME IInv, NEW c \in creators, NEW n, Working(n)', n \in CreatorRecords,
           n.slug = c.slug, n.owner = c.owner, n.epoch = c.epoch,
           creators' = (creators \ {c}) \cup {n},
           \A t \in Slugs \ {c.slug} : cre'[t] = cre[t] /\ creFile'[t] = creFile[t],
           \A t \in Slugs \ {c.slug} : session'[t] = session[t] /\ hist'[t] = hist[t],
           created \subseteq created',
           \A x \in AnyOwner : x # c.owner => (x \in bound' <=> x \in bound)
    PROVE  /\ Creating' /\ creators' \subseteq CreatorRecords
           /\ \A x \in creators' : Mark(x.owner, x.slug, x.epoch) \in Marks
<1>1. /\ c \in CreatorRecords /\ Shape /\ Mark(c.owner, c.slug, c.epoch) \in Marks
      /\ c.slug \in Slugs
      /\ \A x \in creators : x.slug = c.slug \/ x.owner = c.owner => x = c
    BY CreatorGrounds
<1>2. creators' \subseteq CreatorRecords
    BY <1>1 DEF Shape
<1>3. OnlyAt(c.slug, c.owner)
    BY <1>1 DEF OnlyAt
<1>4. \A x, y \in creators' : x.slug = c.slug /\ y.slug = c.slug => x = y
    BY <1>1
<1>5. \A x \in creators' : x.slug = c.slug => Working(x)'
    BY <1>1
<1>6. Creating'
    BY <1>1, <1>2, <1>3, <1>4, <1>5, CreatorsKept
<1>7. \A x \in creators' : Mark(x.owner, x.slug, x.epoch) \in Marks
    BY <1>1, CreatorMark
<1> QED BY <1>2, <1>6, <1>7

LEMMA LastCreator ==
    ASSUME IInv, NEW c \in creators, creators' = creators \ {c}, cre'[c.slug].st # "running",
           \A t \in Slugs \ {c.slug} : cre'[t] = cre[t] /\ creFile'[t] = creFile[t],
           UNCHANGED <<session, hist, bound, created>>
    PROVE  /\ Creating' /\ creators' \subseteq CreatorRecords
           /\ \A x \in creators' : Mark(x.owner, x.slug, x.epoch) \in Marks
<1>1. /\ c \in CreatorRecords /\ Shape /\ c.slug \in Slugs
      /\ \A x \in creators : x.slug = c.slug \/ x.owner = c.owner => x = c
    BY CreatorGrounds
<1>2. creators' \subseteq CreatorRecords
    BY <1>1 DEF Shape
<1>3. OnlyAt(c.slug, c.owner)
    BY <1>1 DEF OnlyAt
<1>4. Creating'
    BY <1>1, <1>2, <1>3, CreatorsKept
<1> QED BY <1>2, <1>4, CreatorMark

\* Somebody new works at a name where nobody did.
LEMMA NewCreator ==
    ASSUME IInv, NEW n, Working(n)', n \in CreatorRecords, \A c \in creators : c.slug # n.slug,
           \A c \in creators : c.owner # n.owner, creators' = creators \cup {n},
           \A t \in Slugs \ {n.slug} : cre'[t] = cre[t] /\ creFile'[t] = creFile[t],
           UNCHANGED <<session, hist, bound, created>>
    PROVE  Creating' /\ creators' \subseteq CreatorRecords
<1>1. n.slug \in Slugs /\ Shape
    BY DEF CreatorRecords, IInv
<1>2. creators' \subseteq CreatorRecords
    BY <1>1 DEF Shape
<1>3. OnlyAt(n.slug, n.owner)
    BY <1>1 DEF OnlyAt
<1>4. Creating'
    BY <1>1, <1>2, <1>3, CreatorsKept
<1> QED BY <1>2, <1>4

LEMMA NoCreator ==
    ASSUME IInv, NEW s \in Slugs, \A c \in creators : c.slug # s, UNCHANGED creators,
           cre'[s].st # "running",
           \A t \in Slugs \ {s} : cre'[t] = cre[t] /\ creFile'[t] = creFile[t],
           UNCHANGED <<session, hist, bound, created>>
    PROVE  /\ Creating' /\ creators' \subseteq CreatorRecords
           /\ \A x \in creators' : Mark(x.owner, x.slug, x.epoch) \in Marks
<1> DEFINE o == CHOOSE x : x \notin AnyOwner
<1>1. creators' \subseteq CreatorRecords /\ o \notin AnyOwner
    BY NoSetContainsEverything DEF IInv, Shape
<1> HIDE DEF o
<1>2. OnlyAt(s, o)
    BY <1>1 DEF OnlyAt, CreatorRecords
<1>3. Creating'
    BY <1>1, <1>2, CreatorsKept
<1> QED BY <1>1, <1>3, CreatorMark

LEMMA NewReceiptFields ==
    ASSUME NEW s \in Slugs, NEW a \in ReceiptRecords
    PROVE  /\ Creator(s, a) \in CreatorRecords /\ Creator(s, a).pc = "init"
           /\ Creator(s, a).slug = s /\ Creator(s, a).owner = a.owner
           /\ Creator(s, a).epoch = a.epoch /\ Creator(s, a).attempt = a.attempt
           /\ Creator(s, a).validated = a.validated
BY DEF Creator, CreatorRecords, ReceiptRecords

LEMMA FreshWorking ==
    ASSUME NEW s, NEW a, NEW n, n.pc = "init", n.slug = s, n.owner = a.owner,
           n.epoch = a.epoch, n.attempt = a.attempt, n.validated = a.validated,
           a.st = "running", a.owner \in bound' => a.validated,
           cre'[s] = a, creFile'[s] = a
    PROVE  Working(n)'
<1>1. /\ cre'[n.slug].owner = n.owner /\ cre'[n.slug].epoch = n.epoch
      /\ cre'[n.slug].attempt = n.attempt /\ cre'[n.slug].st = "running"
      /\ creFile'[n.slug] = cre'[n.slug] /\ cre'[n.slug].validated = n.validated
      /\ n.owner \in bound' => n.validated
    OBVIOUS
<1> QED BY <1>1 DEF Working

\* A receipt that is retried is not one whose preparation is over: the session
\* of that one was made and lives, which proves the receipt, or was removed,
\* which retires it, or its name is taken, a conflict.
LEMMA RetriedIsOpen ==
    ASSUME IInv, NEW s \in Slugs, cre[s].st \in {"paused", "failed"}, ~Retirable(s),
           ~Prove(s, cre[s]), ~Conflict(s), cre[s].owner.req \in Requests
    PROVE  prep[cre[s].owner.req].st # "terminal"
<1> DEFINE r == cre[s].owner.req
           m == Mark(cre[s].owner, s, cre[s].epoch)
<1> SUFFICES ASSUME prep[r].st = "terminal" PROVE FALSE
    OBVIOUS
<1>1. m \in Marks /\ m.owner = cre[s].owner /\ m.slug = s /\ m.epoch = cre[s].epoch
    BY ReceiptMark, MarkFields
<1>2. /\ Validated /\ Evidenced /\ Lived /\ Finished /\ Shape
      /\ evidence \subseteq bound
    BY DEF IInv, History, Validated
<1>3. cre[s].owner = OwnerOf(r) /\ prep[r].slug = s /\ prep[r].epoch = cre[s].epoch
    BY <1>1, MarkOfRequest
<1>4. m \in created
    BY <1>2, <1>3 DEF Finished
<1>5. cre[s].owner \in evidence
    BY <1>1, <1>2, <1>4 DEF Evidenced, InPlace
<1>6. ASSUME NEW t \in Slugs, NEW o, o \in bound, InPlace(cre[t], o)
      PROVE  Mark(o, t, cre[t].epoch) \in Marks
    BY <1>6, ReceiptMark DEF InPlace
<1>7. cre[s].validated
    <2>1. PICK t \in Slugs : InPlace(cre[t], cre[s].owner) /\ cre[t].validated
        BY <1>2, <1>5 DEF Validated
    <2>2. Mark(cre[s].owner, t, cre[t].epoch) = m
        BY <1>1, <1>2, <1>5, <1>6, <2>1, OneMark, MarkFields
    <2> QED BY <1>1, <2>1, <2>2, MarkFields
<1>8. hist[s] # cre[s].epoch
    <2> SUFFICES ASSUME hist[s] = cre[s].epoch PROVE FALSE
        OBVIOUS
    <2> HIDE DEF m
    <2>1. m.epoch = hist[m.slug]
        BY <1>1
    <2>2. session[m.slug] = [st |-> "ready", owner |-> m.owner]
        BY <1>2, <1>4, <2>1 DEF Lived
    <2>3. session[s] = [st |-> "ready", owner |-> cre[s].owner]
        BY <1>1, <2>2
    <2> QED BY <1>5, <1>7, <2>3 DEF Prove
<1>9. session[s].st # "none"
    BY <1>8 DEF Retirable
<1>10. CASE session[s].st = "ready"
    <2>1. session[s] \in Sessions /\ session[s].owner = cre[s].owner
        BY <1>2, <1>10 DEF Conflict, Shape
    <2>2. session[s] = [st |-> "ready", owner |-> cre[s].owner]
        BY <1>10, <2>1 DEF Sessions
    <2> QED BY <1>5, <1>7, <2>2 DEF Prove
<1>11. CASE session[s].st = "creating"
    <2>1. session[s].owner \in bound
        BY <1>2, <1>11 DEF Lived
    <2>2. PICK t \in Slugs : InPlace(cre[t], session[s].owner)
        BY <1>2, <2>1 DEF Validated
    <2>3. Mark(session[s].owner, t, cre[t].epoch) \in Marks
        BY <1>6, <2>1, <2>2
    <2>4. session[s].owner # Nobody
        BY <2>3, MarkOwner, MarkFields
    <2>5. Mark(session[s].owner, s, hist[s]) \in Marks
        BY <1>9, <2>4, SessionMark
    <2>6. t = s /\ cre[t].epoch = hist[s]
        BY <2>3, <2>5, OneMark, MarkFields
    <2> QED BY <1>8, <2>6
<1> QED BY <1>2, <1>9, <1>10, <1>11 DEF Shape, Sessions

LEMMA RetryCreationKept == ASSUME IInv, NEW s \in Slugs, RetryCreation(s) PROVE IInv'
<1>0. PICK a : a = [cre[s] EXCEPT !.st = "running", !.attempt = @ + 1]
    OBVIOUS
<1>n. PICK n : n = Creator(s, a)
    OBVIOUS
<1>1. /\ UNCHANGED <<session, hist, bound, evidence, created, gens, prepStore, workers>>
      /\ NoneCompacts /\ cre[s].st \in {"paused", "failed"} /\ Shape
      /\ cre[s] \in ReceiptRecords
    BY MuKeepsOut DEF RetryCreation, world, IInv, Shape
<1>2. /\ a \in ReceiptRecords /\ a.st = "running" /\ a.owner = cre[s].owner
      /\ a.epoch = cre[s].epoch /\ a.validated = cre[s].validated
    <2>1. cre[s].attempt + 1 \in Nat
        BY <1>1 DEF ReceiptRecords
    <2> QED BY <1>0, <1>1, <2>1 DEF ReceiptRecords
<1>3. \/ ReceiptSaved(s, a) /\ creators' = creators \cup {n}
      \/ ReceiptNotSaved(s, a) /\ UNCHANGED <<cre, creators>>
    BY <1>0, <1>n DEF RetryCreation
<1>4. /\ n \in CreatorRecords /\ n.pc = "init" /\ n.slug = s /\ n.owner = a.owner
      /\ n.epoch = a.epoch /\ n.attempt = a.attempt /\ n.validated = a.validated
    BY <1>2, <1>n, NewReceiptFields
<1>5. a.owner \in bound => a.validated
    <2> SUFFICES ASSUME a.owner \in bound PROVE a.validated
        OBVIOUS
    <2>1. PICK t \in Slugs : InPlace(cre[t], a.owner) /\ cre[t].validated
        BY DEF IInv, History, Validated
    <2>2. Mark(cre[t].owner, t, cre[t].epoch) \in Marks /\ Mark(cre[s].owner, s, cre[s].epoch) \in Marks
          /\ cre[t].owner = cre[s].owner
        BY <1>1, <1>2, <2>1, ReceiptMark DEF InPlace
    <2>3. t = s
        BY <2>2, OneMark, MarkFields
    <2> QED BY <1>2, <2>1, <2>3
<1>6. SlotMoves(s, a, a)
    BY <1>1, <1>2, <1>3, <1>5 DEF SlotMoves, SlotKeeps, ReceiptSaved, ReceiptNotSaved
<1>7. \A c \in creators : c.slug # s /\ c.owner # a.owner
    <2>1. \A c \in creators : c.slug # s
        BY <1>1, NobodyWorks
    <2>2. \A c \in creators : c.owner # cre[s].owner
        BY <1>1, <2>1, CreatorMark, ReceiptMark, OneMark, MarkFields
    <2> QED BY <1>2, <2>1, <2>2
<1>8. /\ \A t \in Slugs \ {s} : cre'[t] = cre[t] /\ creFile'[t] = creFile[t]
      /\ \A t \in Slugs : cre[t].st # "none" =>
             cre'[t].st # "none" /\ cre'[t].owner = cre[t].owner
    BY <1>1, <1>6, SlotPlaces
<1>9. Mark(a.owner, s, a.epoch) \in Marks
    BY <1>1, <1>2, ReceiptMark
<1>10. /\ Creating' /\ creators' \subseteq CreatorRecords
       /\ \A c \in creators' : Mark(c.owner, c.slug, c.epoch) \in Marks
    <2>1. CASE ReceiptSaved(s, a) /\ creators' = creators \cup {n}
        <3>1. cre'[s] = a /\ creFile'[s] = a
            BY <1>1, <2>1 DEF ReceiptSaved, Shape
        <3>2. Working(n)'
            BY <1>1, <1>2, <1>4, <1>5, <3>1, FreshWorking
        <3>3. Creating' /\ creators' \subseteq CreatorRecords
            <4>1. \A t \in Slugs \ {n.slug} : cre'[t] = cre[t] /\ creFile'[t] = creFile[t]
                BY <1>4, <1>8
            <4>2. \A c \in creators : c.slug # n.slug /\ c.owner # n.owner
                BY <1>4, <1>7
            <4> QED BY <1>1, <1>4, <2>1, <3>2, <4>1, <4>2, NewCreator
        <3> QED BY <1>4, <1>9, <2>1, <3>3, CreatorMark
    <2>2. CASE UNCHANGED <<cre, creators>>
        BY <1>1, <1>7, <1>8, <2>2, NoCreator
    <2> QED BY <1>3, <2>1, <2>2
<1>11. \A c \in creators' : c.pc # "compact" /\ c.owner.req \in Requests =>
           prep[c.owner.req].st # "terminal"
    <2>1. cre[s].owner.req \in Requests => prep[cre[s].owner.req].st # "terminal"
        BY RetriedIsOpen DEF RetryCreation
    <2>2. \A c \in creators' : c \in creators \/ c.owner = cre[s].owner
        BY <1>2, <1>3, <1>4
    <2> QED BY <2>1, <2>2 DEF IInv, History, Finished
<1>12. Finished'
    BY <1>1, <1>8, <1>11, FinishedStays DEF prepStore
<1>13. OneInside'
    BY <1>1, <1>3, <1>4, InsideStays
<1> QED BY <1>1, <1>6, <1>10, <1>12, <1>13, PrepStays, SlotStep

\* A receipt in place of somebody whom the command has bound was validated.
LEMMA BoundValidated ==
    ASSUME IInv, NEW s \in Slugs, cre[s].st # "none", cre[s].owner \in bound
    PROVE  cre[s].validated /\ creFile[s].validated /\ InPlace(creFile[s], cre[s].owner)
<1>1. PICK t \in Slugs : /\ InPlace(cre[t], cre[s].owner) /\ InPlace(creFile[t], cre[s].owner)
                         /\ cre[t].validated /\ creFile[t].validated
    BY DEF IInv, History, Validated
<1>2. Mark(cre[t].owner, t, cre[t].epoch) \in Marks /\ Mark(cre[s].owner, s, cre[s].epoch) \in Marks
      /\ cre[t].owner = cre[s].owner
    BY <1>1, ReceiptMark DEF InPlace
<1>3. t = s
    BY <1>2, OneMark, MarkFields
<1> QED BY <1>1, <1>3

LEMMA StatusReadKept == ASSUME IInv, NEW s \in Slugs, StatusRead(s) PROVE IInv'
<1>0. PICK a : a = [cre[s] EXCEPT !.st = IF Prove(s, cre[s]) THEN "paused" ELSE "conflict"]
    OBVIOUS
<1>b. PICK b : b = [cre[s] EXCEPT !.st = IF Prove(s, cre[s]) THEN "ready" ELSE "conflict"]
    OBVIOUS
<1>1. /\ UNCHANGED <<session, hist, bound, evidence, created, gens, prepStore, workers, creators>>
      /\ NoneCompacts /\ cre[s].st \in {"paused", "failed"} /\ Shape
      /\ cre[s] \in ReceiptRecords
      /\ Prove(s, cre[s]) \/ Conflict(s)
    BY MuKeepsOut DEF StatusRead, world, IInv, Shape
<1>2. Prove(s, cre[s]) => Mark(cre[s].owner, s, cre[s].epoch) \in created
    BY <1>1, ProvedMade DEF Prove
<1>3. ~Prove(s, cre[s]) /\ cre[s].owner.req \in Requests =>
          Mark(cre[s].owner, s, cre[s].epoch) \in created
    BY <1>1 DEF IInv, History, Overtaken, Conflict
<1>4. ASSUME NEW x, x \in {a, b}
      PROVE  /\ x \in ReceiptRecords /\ x.owner = cre[s].owner /\ x.epoch = cre[s].epoch
             /\ x.validated = cre[s].validated /\ x.st \in {"paused", "ready", "conflict"}
             /\ x.st = "conflict" => ~Prove(s, cre[s])
             /\ x.st = "ready" => Prove(s, cre[s])
    BY <1>0, <1>b, <1>1, <1>4 DEF ReceiptRecords
<1>5. SlotKeeps(s, a) /\ SlotKeeps(s, b)
    BY <1>1, <1>2, <1>3, <1>4, BoundValidated DEF SlotKeeps
<1>6. cre' \in {cre, [cre EXCEPT ![s] = a], [cre EXCEPT ![s] = b]}
      /\ creFile' \in {creFile, [creFile EXCEPT ![s] = b]}
    <2>1. CASE Prove(s, cre[s])
        <3>1. [cre EXCEPT ![s].st = "paused"] = [cre EXCEPT ![s] = a]
            BY <1>0, <2>1
        <3> QED BY <1>b, <2>1, <3>1 DEF StatusRead, ReceiptSaved, ReceiptNotSaved
    <2>2. CASE ~Prove(s, cre[s])
        BY <1>b, <2>2 DEF StatusRead, ReceiptSaved, ReceiptNotSaved
    <2> QED BY <2>1, <2>2
<1>7. PICK x \in {a, b} : SlotMoves(s, x, b)
    BY <1>1, <1>5, <1>6 DEF SlotMoves
<1>8. /\ \A t \in Slugs \ {s} : cre'[t] = cre[t] /\ creFile'[t] = creFile[t]
      /\ \A t \in Slugs : cre[t].st # "none" =>
             cre'[t].st # "none" /\ cre'[t].owner = cre[t].owner
      /\ cre'[s].st # "running"
    BY <1>1, <1>4, <1>7, SlotPlaces
<1>9. \A c \in creators : c.slug # s
    BY <1>1, NobodyWorks
<1>10. /\ Creating' /\ creators' \subseteq CreatorRecords
       /\ \A c \in creators' : Mark(c.owner, c.slug, c.epoch) \in Marks
    BY <1>1, <1>8, <1>9, NoCreator
<1>11. Finished'
    <2>1. \A c \in creators' : c.pc # "compact" /\ c.owner.req \in Requests =>
             prep[c.owner.req].st # "terminal"
        BY <1>1 DEF IInv, History, Finished
    <2> QED BY <1>1, <1>8, <2>1, FinishedStays DEF prepStore
<1>12. OneInside'
    BY <1>1, InsideStays
<1> QED BY <1>1, <1>7, <1>10, <1>11, <1>12, PrepStays, SlotStep

\* A creator acts on its receipt and goes on as n, with the preparations as
\* they were.
LEMMA CreatorSlotStep ==
    ASSUME IInv, NEW c \in creators, NEW a, NEW b, SlotMoves(c.slug, a, b),
           UNCHANGED <<session, hist, bound, evidence, created, gens, prepStore, workers>>,
           NEW n \in CreatorRecords, Working(n)', n.slug = c.slug, n.owner = c.owner,
           n.epoch = c.epoch, creators' = (creators \ {c}) \cup {n},
           c.pc # "compact",
           n.pc = "compact" => NoneCompacts /\ \A v \in workers : ~Critical(v)
    PROVE  IInv'
<1>1. Shape /\ c.slug \in Slugs
    BY CreatorGrounds
<1>2. /\ \A t \in Slugs \ {c.slug} : cre'[t] = cre[t] /\ creFile'[t] = creFile[t]
      /\ \A t \in Slugs : cre[t].st # "none" =>
             cre'[t].st # "none" /\ cre'[t].owner = cre[t].owner
    BY <1>1, SlotPlaces DEF SlotMoves
<1>3. /\ Creating' /\ creators' \subseteq CreatorRecords
      /\ \A x \in creators' : Mark(x.owner, x.slug, x.epoch) \in Marks
    BY <1>2, OneCreator
<1>4. Finished'
    <2>1. \A x \in creators' : x.pc # "compact" /\ x.owner.req \in Requests =>
             prep[x.owner.req].st # "terminal"
        BY DEF IInv, History, Finished
    <2> QED BY <1>2, <2>1, FinishedStays DEF prepStore
<1>5. OneInside'
    BY DEF IInv, Records, OneInside, NoneCompacts
<1> QED BY <1>1, <1>3, <1>4, <1>5, PrepStays, SlotStep

LEMMA CreatorSlotEnd ==
    ASSUME IInv, NEW c \in creators, NEW a, NEW b, SlotMoves(c.slug, a, b),
           UNCHANGED <<session, hist, bound, evidence, created, gens, prepStore, workers>>,
           creators' = creators \ {c}, cre'[c.slug].st # "running"
    PROVE  IInv'
<1>1. Shape /\ c.slug \in Slugs
    BY CreatorGrounds
<1>2. /\ \A t \in Slugs \ {c.slug} : cre'[t] = cre[t] /\ creFile'[t] = creFile[t]
      /\ \A t \in Slugs : cre[t].st # "none" =>
             cre'[t].st # "none" /\ cre'[t].owner = cre[t].owner
    BY <1>1, SlotPlaces DEF SlotMoves
<1>3. /\ Creating' /\ creators' \subseteq CreatorRecords
      /\ \A x \in creators' : Mark(x.owner, x.slug, x.epoch) \in Marks
    BY <1>2, LastCreator
<1>4. Finished'
    <2>1. \A x \in creators' : x.pc # "compact" /\ x.owner.req \in Requests =>
             prep[x.owner.req].st # "terminal"
        BY DEF IInv, History, Finished
    <2> QED BY <1>2, <2>1, FinishedStays DEF prepStore
<1>5. OneInside'
    BY InsideStays
<1> QED BY <1>1, <1>3, <1>4, <1>5, PrepStays, SlotStep

\* The receipt stays as it is.
LEMMA SlotSame ==
    ASSUME IInv, NEW c \in creators, UNCHANGED creStore
    PROVE  SlotMoves(c.slug, cre[c.slug], cre[c.slug])
<1>1. /\ cre[c.slug] \in ReceiptRecords /\ cre[c.slug].st # "none" /\ c.slug \in Slugs
      /\ Working(c)
    BY CreatorGrounds
<1>2. cre[c.slug].owner \in bound => cre[c.slug].validated
    BY <1>1, BoundValidated
<1>3. cre[c.slug].st = "ready" \/ cre[c.slug].st = "running"
    BY <1>1 DEF Working
<1>4. cre[c.slug].st = "ready" => Mark(cre[c.slug].owner, c.slug, cre[c.slug].epoch) \in created
    BY <1>1 DEF Working
<1> QED BY <1>1, <1>2, <1>3, <1>4 DEF SlotMoves, SlotKeeps, creStore

LEMMA ReceiptOfFields ==
    ASSUME NEW c \in CreatorRecords, NEW st,
           st \in {"running", "paused", "failed", "ready"}
    PROVE  /\ ReceiptOf(c, st) \in ReceiptRecords /\ ReceiptOf(c, st).st = st
           /\ ReceiptOf(c, st).owner = c.owner /\ ReceiptOf(c, st).epoch = c.epoch
           /\ ReceiptOf(c, st).attempt = c.attempt
           /\ ReceiptOf(c, st).validated = c.validated
BY DEF ReceiptOf, CreatorRecords, ReceiptRecords

LEMMA CreatorInitKept == ASSUME IInv, NEW c \in creators, CreatorInit(c) PROVE IInv'
<1> DEFINE s == c.slug
<1>v. PICK v : v = [c EXCEPT !.validated = TRUE, !.pc = "command"]
    OBVIOUS
<1>a. PICK a : a = ReceiptOf(v, "running")
    OBVIOUS
<1>1. /\ UNCHANGED <<session, hist, bound, evidence, created, gens, prepStore, workers>>
      /\ NoneCompacts /\ c.pc = "init" /\ Shape /\ c \in CreatorRecords /\ s \in Slugs
      /\ Working(c) /\ cre[s].st = "running" /\ creFile[s] = cre[s]
    BY CreatorGrounds, MuKeepsOut DEF CreatorInit, world, Working
<1>2. /\ v \in CreatorRecords /\ v.slug = s /\ v.owner = c.owner /\ v.epoch = c.epoch
      /\ v.attempt = c.attempt /\ v.validated /\ v.pc = "command"
    BY <1>v, <1>1 DEF CreatorRecords
<1>3. /\ a \in ReceiptRecords /\ a.st = "running" /\ a.owner = c.owner /\ a.epoch = c.epoch
      /\ a.attempt = c.attempt /\ a.validated
    BY <1>a, <1>2, ReceiptOfFields
<1>4. SlotKeeps(s, a) /\ cre[s].owner = c.owner /\ cre[s].epoch = c.epoch
      /\ cre[s].attempt = c.attempt
    BY <1>1, <1>3 DEF SlotKeeps, Working
<1>5. ASSUME NEW pc, pc \in {"prove", "command", "failed"}, UNCHANGED creStore, CStep(c, pc),
             pc # "failed" => c.validated
      PROVE  IInv'
    <2>n. PICK n : n = [c EXCEPT !.pc = pc]
        OBVIOUS
    <2>1. /\ n \in CreatorRecords /\ n.slug = s /\ n.owner = c.owner /\ n.epoch = c.epoch
          /\ n.attempt = c.attempt /\ n.validated = c.validated /\ n.pc = pc
        BY <2>n, <1>1, <1>5 DEF CreatorRecords
    <2>2. Working(n)'
        BY <1>1, <1>5, <2>1 DEF Working, creStore
    <2>3. SlotMoves(s, cre[s], cre[s])
        BY <1>5, SlotSame
    <2> QED BY <1>1, <1>5, <2>n, <2>1, <2>2, <2>3, CreatorSlotStep DEF CStep
<1>6. ASSUME ReceiptSaved(s, a), creators' = (creators \ {c}) \cup {v} PROVE IInv'
    <2>1. SlotMoves(s, a, a)
        BY <1>1, <1>4, <1>6 DEF SlotMoves, ReceiptSaved
    <2>2. cre'[s] = a /\ creFile'[s] = a
        BY <1>1, <1>6 DEF ReceiptSaved, Shape
    <2>3. Working(v)'
        BY <1>1, <1>2, <1>3, <2>2 DEF Working
    <2> QED BY <1>1, <1>2, <1>6, <2>1, <2>3, CreatorSlotStep
<1>7. ASSUME ReceiptNotSaved(s, a), UNCHANGED cre,
             creators' = (creators \ {c}) \cup {[v EXCEPT !.pc = "failed"]}
      PROVE  IInv'
    <2>n. PICK n : n = [v EXCEPT !.pc = "failed"]
        OBVIOUS
    <2>1. /\ n \in CreatorRecords /\ n.slug = s /\ n.owner = c.owner /\ n.epoch = c.epoch
          /\ n.attempt = c.attempt /\ n.validated /\ n.pc = "failed"
        BY <2>n, <1>2 DEF CreatorRecords
    <2>2. SlotMoves(s, a, a)
        BY <1>1, <1>4, <1>7 DEF SlotMoves, ReceiptNotSaved
    <2>3. Working(n)'
        BY <1>1, <1>4, <1>7, <2>1 DEF Working
    <2> QED BY <1>1, <1>7, <2>n, <2>1, <2>2, <2>3, CreatorSlotStep
<1>8. CreatorInit(c) => \/ UNCHANGED creStore /\ CStep(c, "prove") /\ c.validated
                        \/ UNCHANGED creStore /\ CStep(c, "command") /\ c.validated
                        \/ UNCHANGED creStore /\ CStep(c, "failed")
                        \/ ReceiptSaved(s, a) /\ creators' = (creators \ {c}) \cup {v}
                        \/ /\ ReceiptNotSaved(s, a) /\ UNCHANGED cre
                           /\ creators' = (creators \ {c}) \cup {[v EXCEPT !.pc = "failed"]}
    BY <1>v, <1>a DEF CreatorInit
<1> QED BY <1>5, <1>6, <1>7, <1>8

LEMMA CreatorOutcomeKept == ASSUME IInv, NEW c \in creators, CreatorOutcome(c) PROVE IInv'
<1> DEFINE s == c.slug
<1>a. PICK a : a = ReceiptOf(c, c.pc)
    OBVIOUS
<1>b. PICK b : b = ReceiptOf(c, "paused")
    OBVIOUS
<1>1. /\ UNCHANGED <<session, hist, bound, evidence, created, gens, prepStore, workers>>
      /\ NoneCompacts /\ c.pc \in {"ready", "failed"} /\ Shape /\ c \in CreatorRecords
      /\ s \in Slugs /\ Working(c) /\ cre[s].st = "running"
      /\ \A v \in workers : ~Critical(v)
    BY CreatorGrounds, MuKeepsOut DEF CreatorOutcome, world, Working
<1>2. /\ a \in ReceiptRecords /\ a.st = c.pc /\ a.owner = c.owner /\ a.epoch = c.epoch
      /\ a.attempt = c.attempt /\ a.validated = c.validated
    BY <1>a, <1>1, ReceiptOfFields
<1>3. /\ b \in ReceiptRecords /\ b.st = "paused" /\ b.owner = c.owner /\ b.epoch = c.epoch
      /\ b.validated = c.validated
    BY <1>b, <1>1, ReceiptOfFields
<1>4. SlotKeeps(s, a) /\ SlotKeeps(s, b)
    BY <1>1, <1>2, <1>3 DEF SlotKeeps, Working
<1>5. ASSUME ReceiptSaved(s, a), c.pc = "ready", CStep(c, "compact") PROVE IInv'
    <2>n. PICK n : n = [c EXCEPT !.pc = "compact"]
        OBVIOUS
    <2>1. /\ n \in CreatorRecords /\ n.slug = s /\ n.owner = c.owner /\ n.epoch = c.epoch
          /\ n.attempt = c.attempt /\ n.validated = c.validated /\ n.pc = "compact"
        BY <2>n, <1>1, <1>5 DEF CreatorRecords
    <2>2. SlotMoves(s, a, a)
        BY <1>1, <1>4, <1>5 DEF SlotMoves, ReceiptSaved
    <2>3. cre'[s] = a
        BY <1>1, <1>5 DEF ReceiptSaved, Shape
    <2>4. Working(n)'
        BY <1>1, <1>2, <1>5, <2>1, <2>3 DEF Working
    <2> QED BY <1>1, <1>5, <2>n, <2>1, <2>2, <2>4, CreatorSlotStep DEF CStep
<1>6. ASSUME ReceiptSaved(s, a), c.pc = "failed", CEnd(c) PROVE IInv'
    <2>1. SlotMoves(s, a, a)
        BY <1>1, <1>4, <1>6 DEF SlotMoves, ReceiptSaved
    <2>2. cre'[s].st # "running"
        BY <1>1, <1>2, <1>6 DEF ReceiptSaved, Shape
    <2> QED BY <1>1, <1>6, <2>1, <2>2, CreatorSlotEnd DEF CEnd
<1>7. ASSUME ReceiptNotSaved(s, a), CEnd(c), cre' = [cre EXCEPT ![s] = b] PROVE IInv'
    <2>1. SlotMoves(s, b, a)
        BY <1>1, <1>4, <1>7 DEF SlotMoves, ReceiptNotSaved
    <2>2. cre'[s].st # "running"
        BY <1>1, <1>3, <1>7 DEF Shape
    <2> QED BY <1>1, <1>7, <2>1, <2>2, CreatorSlotEnd DEF CEnd
<1>8. Mine(c)
    BY <1>1 DEF Mine, Working
<1> QED BY <1>a, <1>b, <1>1, <1>5, <1>6, <1>7, <1>8 DEF CreatorOutcome

LEMMA CreatorProveKept == ASSUME IInv, NEW c \in creators, CreatorProve(c) PROVE IInv'
<1> DEFINE s == c.slug
<1>1. /\ UNCHANGED <<session, hist, bound, evidence, created, gens, prepStore, workers>>
      /\ UNCHANGED creStore /\ c.pc = "prove" /\ Shape /\ c \in CreatorRecords
      /\ s \in Slugs /\ Working(c) /\ Mark(c.owner, s, c.epoch) \in Marks
    BY CreatorGrounds DEF CreatorProve, world
<1>2. PICK pc \in {"ready", "failed"} :
          CStep(c, pc) /\ (pc = "ready" => Prove(s, c))
    BY DEF CreatorProve
<1>n. PICK n : n = [c EXCEPT !.pc = pc]
    OBVIOUS
<1>3. /\ n \in CreatorRecords /\ n.slug = s /\ n.owner = c.owner /\ n.epoch = c.epoch
      /\ n.attempt = c.attempt /\ n.validated = c.validated /\ n.pc = pc
    BY <1>n, <1>1, <1>2 DEF CreatorRecords
<1>4. pc = "ready" => Mark(c.owner, s, c.epoch) \in created
    BY <1>1, <1>2, EvidenceMade, MarkFields DEF Prove
<1>5. Working(n)'
    BY <1>1, <1>2, <1>3, <1>4 DEF Working, creStore
<1>6. SlotMoves(s, cre[s], cre[s])
    BY <1>1, SlotSame
<1> QED BY <1>1, <1>2, <1>n, <1>3, <1>5, <1>6, CreatorSlotStep DEF CStep

\* The command begins: the session it makes or finds is its own.
LEMMA CommandStartKept == ASSUME IInv, NEW c \in creators, CommandStart(c) PROVE IInv'
<1> DEFINE s == c.slug
<1>1. /\ UNCHANGED <<hist, evidence, created, gens, prepStore, workers, creStore>>
      /\ c.pc = "command" /\ Shape /\ c \in CreatorRecords
      /\ s \in Slugs /\ Working(c) /\ Mark(c.owner, s, c.epoch) \in Marks
      /\ NoneCompacts /\ \A v \in workers : ~Critical(v)
      /\ cre[s].st = "running" /\ cre[s] \in ReceiptRecords
      /\ \A x \in creators : x.slug = s \/ x.owner = c.owner => x = c
    BY CreatorGrounds, MuKeepsOut DEF CommandStart, world, Working
<1>2. ASSUME CStep(c, "prove"), UNCHANGED <<bound, session>> PROVE IInv'
    <2>n. PICK n : n = [c EXCEPT !.pc = "prove"]
        OBVIOUS
    <2>1. /\ n \in CreatorRecords /\ n.slug = s /\ n.owner = c.owner /\ n.epoch = c.epoch
          /\ n.attempt = c.attempt /\ n.validated = c.validated /\ n.pc = "prove"
        BY <2>n, <1>1 DEF CreatorRecords
    <2>2. Working(n)'
        BY <1>1, <1>2, <2>1 DEF Working, creStore
    <2>3. SlotMoves(s, cre[s], cre[s])
        BY <1>1, SlotSame
    <2> QED BY <1>1, <1>2, <2>n, <2>1, <2>2, <2>3, CreatorSlotStep DEF CStep
<1>3. ASSUME CStep(c, "started"), bound' = bound \cup {c.owner},
             creFile[s].owner = c.owner, creFile[s].epoch = hist[s],
             session[s].st = "none" \/ session[s].owner = c.owner,
             session' = IF session[s].st = "none"
                        THEN [session EXCEPT ![s] = [st |-> "creating", owner |-> c.owner]]
                        ELSE session
      PROVE  IInv'
    <2>n. PICK n : n = [c EXCEPT !.pc = "started"]
        OBVIOUS
    <2>1. /\ n \in CreatorRecords /\ n.slug = s /\ n.owner = c.owner /\ n.epoch = c.epoch
          /\ n.attempt = c.attempt /\ n.validated = c.validated /\ n.pc = "started"
          /\ c.owner \in AnyOwner
        BY <2>n, <1>1 DEF CreatorRecords
    <2>2. /\ hist[s] = c.epoch /\ c.validated /\ cre[s].owner = c.owner /\ cre[s].epoch = c.epoch
          /\ cre[s].validated /\ creFile[s] = cre[s]
        BY <1>1, <1>3 DEF Working
    <2>3. /\ session' \in [Slugs -> Sessions]
          /\ \A t \in Slugs \ {s} : session'[t] = session[t]
          /\ session'[s].st # "none" /\ session'[s].owner = c.owner
          /\ session[s].st # "none" => session'[s] = session[s]
          /\ session'[s].st = "creating" \/ session'[s] = session[s]
        BY <1>1, <1>3, <2>1 DEF Shape, Sessions
    <2>4. Working(n)'
        BY <1>1, <1>3, <2>1, <2>2, <2>3 DEF Working, creStore
    <2>5. /\ Creating' /\ creators' \subseteq CreatorRecords
          /\ \A x \in creators' : Mark(x.owner, x.slug, x.epoch) \in Marks
        <3>1. \A t \in Slugs \ {s} : cre'[t] = cre[t] /\ creFile'[t] = creFile[t]
            BY <1>1 DEF creStore
        <3>2. \A t \in Slugs \ {s} : session'[t] = session[t] /\ hist'[t] = hist[t]
            BY <1>1, <2>3
        <3>3. \A x \in AnyOwner : x # c.owner => (x \in bound' <=> x \in bound)
            BY <1>3
        <3>4. creators' = (creators \ {c}) \cup {n} /\ created \subseteq created'
            BY <1>1, <1>3, <2>n DEF CStep
        <3> QED BY <2>1, <2>4, <3>1, <3>2, <3>3, <3>4, OneCreator
    <2>6. Shape'
        BY <1>1, <1>3, <2>1, <2>3, <2>5 DEF Shape, prepStore, creStore
    <2>7. OneInside'
        BY <1>1, <1>3, <2>1, <2>n, InsideStays DEF CStep
    <2>8. Marks' \subseteq Marks
        <3>1. \A t \in Slugs :
                 /\ cre'[t].st # "none" => Mark(cre'[t].owner, t, cre'[t].epoch) \in Marks
                 /\ creFile'[t].st # "none" => Mark(creFile'[t].owner, t, creFile'[t].epoch) \in Marks
                 /\ session'[t].st # "none" /\ session'[t].owner # Nobody =>
                       Mark(session'[t].owner, t, hist'[t]) \in Marks
            BY <1>1, <2>2, <2>3, ReceiptMark, FileMark, SessionMark DEF creStore
        <3>2. created' \subseteq Marks
            BY <1>1, MadeMark
        <3> QED BY <2>5, <3>1, <3>2, MarksWithin
    <2>9. PrepShape' /\ Stored' /\ Handing' /\ \A q \in Requests : Later(prepSafe[q], prepSafe'[q])
        BY <1>1, PrepStays
    <2>10. Identities'
        BY <1>1, <2>8, <2>9, GensStay, MarksStay
    <2>11. Finished'
        <3>1. \A x \in creators' : x.pc # "compact" /\ x.owner.req \in Requests =>
                 prep[x.owner.req].st # "terminal"
            <4>1. \A x \in creators' : x \in creators \/ x = n
                BY <1>3, <2>n DEF CStep
            <4>2. \A x \in creators : x.pc # "compact" /\ x.owner.req \in Requests =>
                     prep[x.owner.req].st # "terminal"
                BY DEF IInv, History, Finished
            <4> QED BY <1>1, <2>1, <4>1, <4>2
        <3> QED BY <1>1, <3>1, FinishedStays DEF prepStore, creStore
    <2>12. Validated'
        <3>1. Validated
            BY DEF IInv, History
        <3>2. InPlace(cre[s], c.owner) /\ InPlace(creFile[s], c.owner)
              /\ cre[s].validated /\ creFile[s].validated
            BY <1>1, <2>2 DEF InPlace
        <3> QED BY <1>1, <1>3, <3>1, <3>2 DEF Validated, creStore, InPlace
    <2>13. Evidenced'
        BY <1>1 DEF IInv, History, Evidenced, InPlace, creStore
    <2>14. Lived'
        <3>1. Lived /\ created \subseteq MarkRecords
            BY <1>1 DEF IInv, History, Shape
        <3>2. ASSUME NEW e \in created, e.epoch = hist[e.slug]
              PROVE  session'[e.slug] = [st |-> "ready", owner |-> e.owner]
            <4>1. session[e.slug] = [st |-> "ready", owner |-> e.owner] /\ e.slug \in Slugs
                BY <3>1, <3>2 DEF Lived, MarkRecords
            <4> QED BY <2>3, <4>1
        <3>3. \A t \in Slugs : session'[t].st = "creating" => session'[t].owner \in bound'
            BY <1>3, <2>3, <3>1 DEF Lived
        <3> QED BY <1>1, <3>1, <3>2, <3>3 DEF Lived
    <2>15. Overtaken'
        <3> SUFFICES ASSUME NEW t \in Slugs, NEW rec \in {cre[t], creFile[t]},
                            rec.st # "none", rec.owner.req \in Requests,
                            \/ rec.st = "conflict"
                            \/ session'[t].st # "none" /\ session'[t].owner # rec.owner
                     PROVE  Mark(rec.owner, t, rec.epoch) \in created
            BY <1>1 DEF Overtaken, creStore
        <3>1. CASE t = s /\ rec.st # "conflict"
            BY <2>2, <2>3, <3>1
        <3>2. CASE t # s \/ rec.st = "conflict"
            BY <2>3, <3>2 DEF IInv, History, Overtaken
        <3> QED BY <3>1, <3>2
    <2>16. ReadyIsMade'
        BY <1>1 DEF IInv, History, ReadyIsMade, creStore
    <2> QED BY <2>5, <2>6, <2>7, <2>9, <2>10, <2>11, <2>12, <2>13, <2>14, <2>15, <2>16
            DEF IInv, Records, History
<1> QED BY <1>2, <1>3 DEF CommandStart

\* The command completes: this session is made for this owner.
LEMMA CommandFinishKept == ASSUME IInv, NEW c \in creators, CommandFinish(c) PROVE IInv'
<1> DEFINE s == c.slug
<1>m. PICK m : m = Mark(c.owner, s, c.epoch)
    OBVIOUS
<1>n. PICK n : n = [c EXCEPT !.pc = "prove"]
    OBVIOUS
<1>1. /\ UNCHANGED <<hist, bound, gens, prepStore, workers, creStore>>
      /\ c.pc = "started" /\ Shape /\ c \in CreatorRecords
      /\ s \in Slugs /\ Working(c) /\ m \in Marks
      /\ cre[s].st = "running" /\ cre[s] \in ReceiptRecords
      /\ \A x \in creators : x.slug = s \/ x.owner = c.owner => x = c
      /\ creators' = (creators \ {c}) \cup {n}
    BY <1>m, <1>n, CreatorGrounds DEF CommandFinish, Working, CStep
<1>2. /\ n \in CreatorRecords /\ n.slug = s /\ n.owner = c.owner /\ n.epoch = c.epoch
      /\ n.attempt = c.attempt /\ n.validated = c.validated /\ n.pc = "prove"
      /\ c.owner \in AnyOwner
    BY <1>n, <1>1 DEF CreatorRecords
<1>3. ASSUME UNCHANGED <<session, evidence, created>> PROVE IInv'
    <2>1. Working(n)'
        BY <1>1, <1>2, <1>3 DEF Working, creStore
    <2>2. SlotMoves(s, cre[s], cre[s])
        BY <1>1, SlotSame
    <2> QED BY <1>1, <1>2, <1>3, <2>1, <2>2, CreatorSlotStep
<1>4. ASSUME session' = [session EXCEPT ![s].st = "ready"],
             evidence' = evidence \cup {c.owner}, created' = created \cup {m}
      PROVE  IInv'
    <2>1. /\ hist[s] = c.epoch /\ c.owner \in bound
          /\ session[s].st # "none" /\ session[s].owner = c.owner
          /\ cre[s].owner = c.owner /\ cre[s].epoch = c.epoch
          /\ cre[s].validated /\ creFile[s] = cre[s]
        BY <1>1 DEF Working
    <2>2. /\ m \in MarkRecords /\ m.owner = c.owner /\ m.slug = s /\ m.epoch = c.epoch
          /\ m.epoch = hist[s]
        BY <1>m, <1>1, <2>1, MarkOwner, MarkFields
    <2>3. /\ session' \in [Slugs -> Sessions]
          /\ \A t \in Slugs \ {s} : session'[t] = session[t]
          /\ session'[s] = [st |-> "ready", owner |-> c.owner]
          /\ session[s].st = "ready" => session'[s] = session[s]
        <3>1. session[s] \in Sessions
            BY <1>1 DEF Shape
        <3> QED BY <1>1, <1>2, <1>4, <2>1, <3>1 DEF Shape, Sessions
    <2>4. Working(n)'
        BY <1>1, <1>2, <1>4, <2>1 DEF Working, creStore
    <2>5. /\ Creating' /\ creators' \subseteq CreatorRecords
          /\ \A x \in creators' : Mark(x.owner, x.slug, x.epoch) \in Marks
        <3>1. \A t \in Slugs \ {s} : cre'[t] = cre[t] /\ creFile'[t] = creFile[t]
            BY <1>1 DEF creStore
        <3>2. \A t \in Slugs \ {s} : session'[t] = session[t] /\ hist'[t] = hist[t]
            BY <1>1, <2>3
        <3>3. \A x \in AnyOwner : x # c.owner => (x \in bound' <=> x \in bound)
            BY <1>1
        <3>4. created \subseteq created'
            BY <1>4
        <3> QED BY <1>1, <1>2, <2>4, <3>1, <3>2, <3>3, <3>4, OneCreator
    <2>6. Shape'
        BY <1>1, <1>2, <1>4, <2>2, <2>3, <2>5 DEF Shape, prepStore, creStore
    <2>7. OneInside'
        BY <1>1, <1>2, InsideStays
    <2>8. Marks' \subseteq Marks
        <3>1. \A t \in Slugs :
                 /\ cre'[t].st # "none" => Mark(cre'[t].owner, t, cre'[t].epoch) \in Marks
                 /\ creFile'[t].st # "none" => Mark(creFile'[t].owner, t, creFile'[t].epoch) \in Marks
                 /\ session'[t].st # "none" /\ session'[t].owner # Nobody =>
                       Mark(session'[t].owner, t, hist'[t]) \in Marks
            BY <1>m, <1>1, <2>1, <2>3, ReceiptMark, FileMark, SessionMark DEF creStore
        <3>2. created' \subseteq Marks
            BY <1>1, <1>4, MadeMark
        <3> QED BY <2>5, <3>1, <3>2, MarksWithin
    <2>9. PrepShape' /\ Stored' /\ Handing' /\ \A q \in Requests : Later(prepSafe[q], prepSafe'[q])
        BY <1>1, PrepStays
    <2>10. Identities'
        BY <1>1, <2>8, <2>9, GensStay, MarksStay
    <2>11. Finished'
        <3>1. \A x \in creators : x.pc # "compact" /\ x.owner.req \in Requests =>
                 prep[x.owner.req].st # "terminal"
            BY DEF IInv, History, Finished
        <3>2. \A x \in creators' : x.pc # "compact" /\ x.owner.req \in Requests =>
                 prep[x.owner.req].st # "terminal"
            BY <1>1, <1>2, <3>1
        <3> QED BY <1>1, <1>4, <3>2, FinishedStays DEF prepStore, creStore
    <2>12. Validated'
        BY <1>1, <1>4, <2>1 DEF IInv, History, Validated, creStore, InPlace
    <2>13. Evidenced'
        <3>1. \A e \in created' : e \in created \/ e.owner \in evidence'
            BY <1>4, <2>2
        <3>2. \A o \in evidence' : o \in evidence \/ o = m.owner
            BY <1>4, <2>2
        <3>3. m \in created' /\ created \subseteq created' /\ evidence \subseteq evidence'
            BY <1>4
        <3> QED BY <1>1, <3>1, <3>2, <3>3 DEF IInv, History, Evidenced, InPlace, creStore
    <2>14. Lived'
        <3>1. Lived /\ created \subseteq MarkRecords /\ hist[s] \in Nat
            BY <1>1 DEF IInv, History, Shape
        <3>2. ASSUME NEW e \in created, e.epoch = hist[e.slug]
              PROVE  session'[e.slug] = [st |-> "ready", owner |-> e.owner]
            <4>1. session[e.slug] = [st |-> "ready", owner |-> e.owner] /\ e.slug \in Slugs
                BY <3>1, <3>2 DEF Lived, MarkRecords
            <4> QED BY <2>3, <4>1
        <3>3. \A t \in Slugs : session'[t].st = "creating" => session'[t].owner \in bound'
            BY <1>1, <2>3, <3>1 DEF Lived
        <3>4. m.epoch <= hist[m.slug] /\ session'[m.slug] = [st |-> "ready", owner |-> m.owner]
            BY <2>2, <2>3, <3>1
        <3>5. \A e \in created' : e \in created \/ e = m
            BY <1>4
        <3> QED BY <1>1, <3>1, <3>2, <3>3, <3>4, <3>5 DEF Lived
    <2>15. Overtaken'
        <3> SUFFICES ASSUME NEW t \in Slugs, NEW rec \in {cre[t], creFile[t]},
                            rec.st # "none", rec.owner.req \in Requests,
                            \/ rec.st = "conflict"
                            \/ session'[t].st # "none" /\ session'[t].owner # rec.owner
                     PROVE  Mark(rec.owner, t, rec.epoch) \in created
            BY <1>1, <1>4 DEF Overtaken, creStore
        <3>1. CASE t = s /\ rec.st # "conflict"
            BY <2>1, <2>3, <3>1
        <3>2. CASE t # s \/ rec.st = "conflict"
            BY <2>3, <3>2 DEF IInv, History, Overtaken
        <3> QED BY <3>1, <3>2
    <2>16. ReadyIsMade'
        BY <1>1, <1>4 DEF IInv, History, ReadyIsMade, creStore
    <2> QED BY <2>5, <2>6, <2>7, <2>9, <2>10, <2>11, <2>12, <2>13, <2>14, <2>15, <2>16
            DEF IInv, Records, History
<1>5. Mark(c.owner, s, hist[s]) = m
    BY <1>m, <1>1 DEF Working
<1> QED BY <1>3, <1>4, <1>5 DEF CommandFinish, Mark

LEMMA RelatedFields ==
    ASSUME IInv, NEW s \in Slugs, NEW r \in Related(s, cre[s])
    PROVE  /\ r \in Requests /\ prep[r].st \notin {"none", "terminal"} /\ prep[r].slug = s
           /\ cre[s].owner = OwnerOf(r) /\ cre[s].epoch = prep[r].epoch
BY DEF Related, Matches, Unfinished

\* The last record of a request that is settled.
LEMMA MappingFollows ==
    ASSUME IInv, NEW r \in Requests, prep[r].st \notin {"none", "terminal"},
           prep[r].slug # NoSlug, NEW outcome \in {"ready", "conflict"}
    PROVE  /\ Follows(r, Mapping(r, outcome)) /\ Mapping(r, outcome).st = "terminal"
           /\ Mapping(r, outcome).gen = prep[r].gen /\ Mapping(r, outcome).slug = prep[r].slug
           /\ Mapping(r, outcome).epoch = prep[r].epoch
<1>1. prep[r] \in PrepRecords /\ prep[r].epoch <= hist[prep[r].slug]
    BY Grounds
<1>2. /\ Mapping(r, outcome) \in PrepRecords /\ Mapping(r, outcome).st = "terminal"
      /\ Mapping(r, outcome).gen = prep[r].gen /\ Mapping(r, outcome).slug = prep[r].slug
      /\ Mapping(r, outcome).epoch = prep[r].epoch
    BY <1>1 DEF Mapping, PrepRecords
<1> QED BY <1>1, <1>2 DEF Follows, Later, Sound

\* Settling the request of a receipt in place: nobody else works on it.
LEMMA SettledFinished ==
    ASSUME IInv, NEW s \in Slugs, NEW r \in Related(s, cre[s]), NEW outcome \in {"ready", "conflict"},
           Recorded(r, Mapping(r, outcome)), cre[s].st # "none",
           Mark(cre[s].owner, s, cre[s].epoch) \in created,
           UNCHANGED <<hist, created>>,
           \A t \in Slugs \ {s} : cre'[t] = cre[t],
           \/ cre'[s].st # "none" /\ cre'[s].owner = cre[s].owner
           \/ \A q \in unconfirmed' : OwnerOf(q) # cre[s].owner,
           \A c \in creators' : c \in creators /\ c.slug # s
    PROVE  Finished'
<1> DEFINE rec == Mapping(r, outcome)
<1>1. /\ r \in Requests /\ prep[r].st \notin {"none", "terminal"} /\ prep[r].slug = s
      /\ cre[s].owner = OwnerOf(r) /\ cre[s].epoch = prep[r].epoch /\ s # NoSlug
      /\ PrepShape /\ Stored /\ Finished /\ Shape
    BY RelatedFields, UploadCatalogAssumption DEF IInv, Shape, PrepShape, Records, History
<1>2. /\ Follows(r, rec) /\ rec.st = "terminal" /\ rec.gen = prep[r].gen
      /\ rec.slug = prep[r].slug /\ rec.epoch = prep[r].epoch
    BY <1>1, MappingFollows
<1> HIDE DEF rec
<1>3. Recorded(r, rec)
    BY DEF rec
<1>4. /\ PrepShape'
      /\ \A q \in Requests : prep'[q] = prep[q] \/ (q = r /\ prep'[q] = rec)
      /\ unconfirmed' \subseteq unconfirmed \cup {r}
    BY ONLY <1>1, <1>2, <1>3, UNCHANGED <<hist, created>>, RecordedKept
<1>5. \A q \in Requests :
          /\ OwnerOf(q)' = OwnerOf(q) /\ prep'[q].slug = prep[q].slug
          /\ prep'[q].epoch = prep[q].epoch
          /\ q # r => prep'[q] = prep[q]
    BY <1>1, <1>2, <1>4 DEF OwnerOf
<1>6. ASSUME NEW q \in Requests, prep'[q].st = "terminal"
      PROVE  Mark(OwnerOf(q)', prep'[q].slug, prep'[q].epoch) \in created'
    <2>1. CASE q = r
        BY <1>1, <1>5, <2>1
    <2>2. CASE q # r
        <3>1. prep[q].st = "terminal"
            BY <1>5, <1>6, <2>2
        <3> QED BY <1>1, <1>5, <3>1 DEF Finished
    <2> QED BY <2>1, <2>2
<1>7. ASSUME NEW c \in creators', c.pc # "compact", c.owner.req \in Requests
      PROVE  prep'[c.owner.req].st # "terminal"
    <2>1. c \in creators /\ c.slug # s
        BY <1>7
    <2>2. c.owner.req # r
        BY <1>1, <1>7, <2>1, CreatorMark, MarkOfRequest, MarkFields
    <2>3. prep[c.owner.req].st # "terminal"
        BY <1>1, <1>7, <2>1 DEF Finished
    <2> QED BY <1>5, <1>7, <2>2, <2>3
<1>8. ASSUME NEW q \in unconfirmed', prep'[q].st = "terminal"
      PROVE  \/ InPlace(cre'[prep'[q].slug], OwnerOf(q)')
             \/ hist'[prep'[q].slug] # prep'[q].epoch
    <2>1. q \in Requests
        BY <1>4 DEF PrepShape
    <2>2. CASE q = r
        BY <1>1, <1>5, <2>1, <2>2 DEF InPlace
    <2>3. CASE q # r
        <3>1. q \in unconfirmed /\ prep[q].st = "terminal"
            BY <1>4, <1>5, <1>8, <2>1, <2>3
        <3>2. \/ InPlace(cre[prep[q].slug], OwnerOf(q))
              \/ hist[prep[q].slug] # prep[q].epoch
            BY <1>1, <3>1 DEF Finished
        <3>3. prep[q].slug \in Slugs
            BY <1>1, <2>1, <3>1 DEF Stored, Sound, Shape, PrepRecords
        <3> QED BY <1>5, <2>1, <3>2, <3>3 DEF InPlace
    <2> QED BY <2>2, <2>3
<1> QED BY <1>6, <1>7, <1>8 DEF Finished

\* A settled record with nobody inside: what it means for the preparations.
LEMMA SettledPrep ==
    ASSUME IInv, NEW r \in Requests, prep[r].st \notin {"none", "terminal"},
           prep[r].slug # NoSlug, NEW outcome \in {"ready", "conflict"},
           Recorded(r, Mapping(r, outcome)), UNCHANGED <<hist, workers>>,
           \A v \in workers : ~Critical(v), \A c \in creators' : c.pc # "compact"
    PROVE  /\ PrepShape' /\ Stored' /\ \A q \in Requests : Later(prepSafe[q], prepSafe'[q])
           /\ workers' \subseteq WorkerRecords /\ OneInside' /\ Handing'
<1> DEFINE rec == Mapping(r, outcome)
<1>1. Follows(r, rec) /\ PrepShape /\ Stored /\ Shape /\ Handing
    BY MappingFollows DEF IInv, Shape, PrepShape, Records
<1> HIDE DEF rec
<1>2. Recorded(r, rec)
    BY DEF rec
<1>3. /\ PrepShape' /\ Stored'
      /\ \A q \in Requests : /\ prep'[q] = prep[q] \/ (q = r /\ prep'[q] = rec)
                             /\ Later(prepSafe[q], prepSafe'[q])
    BY ONLY <1>1, <1>2, r \in Requests, UNCHANGED <<hist, workers>>, RecordedKept
<1>4. \A q \in Requests :
          /\ Later(prep[q], prep'[q])
          /\ prep'[q].st # "terminal" /\ prep[q].st # "none" /\ prep[q].base \in Bases =>
                    prep'[q].base \in Bases
    BY <1>1, <1>3 DEF Follows, Later
<1>5. WorkersFit
    BY SameFits
<1>6. workers' \subseteq WorkerRecords /\ OneInside' /\ Handing'
    BY <1>1, <1>4, <1>5, WorkersKept
<1> QED BY <1>3, <1>6

LEMMA CreatorCompactKept == ASSUME IInv, NEW c \in creators, CreatorCompact(c) PROVE IInv'
<1> DEFINE s == c.slug
<1>a. PICK a : a = [cre[s] EXCEPT !.st = "paused"]
    OBVIOUS
<1>1. /\ UNCHANGED <<session, hist, bound, evidence, created, gens, workers, creFile>>
      /\ c.pc = "compact" /\ Shape /\ c \in CreatorRecords /\ creators' = creators \ {c}
      /\ s \in Slugs /\ Working(c) /\ cre[s].st = "ready" /\ cre[s] \in ReceiptRecords
      /\ \A x \in creators : x.slug = s => x = c
    BY CreatorGrounds DEF CreatorCompact, world, Working, CEnd
<1>2. /\ a \in ReceiptRecords /\ a.st = "paused" /\ a.owner = cre[s].owner
      /\ a.epoch = cre[s].epoch /\ a.validated = cre[s].validated
      /\ [cre EXCEPT ![s].st = "paused"] = [cre EXCEPT ![s] = a]
    BY <1>a, <1>1 DEF ReceiptRecords
<1>3. Mark(cre[s].owner, s, cre[s].epoch) \in created /\ SlotKeeps(s, cre[s])
    <2>1. Mark(cre[s].owner, s, cre[s].epoch) \in created
        BY <1>1 DEF Working
    <2> QED BY <1>1, <2>1, BoundValidated DEF SlotKeeps
<1>4. SlotKeeps(s, a)
    BY <1>1, <1>2, <1>3 DEF SlotKeeps
<1>5. CASE UNCHANGED <<prepStore, cre>>
    <2>1. SlotMoves(s, cre[s], cre[s])
        BY <1>1, <1>3, <1>5 DEF SlotMoves
    <2> QED BY <1>1, <1>5, <2>1, CreatorSlotEnd
<1>6. CASE UNCHANGED prepStore /\ cre' = [cre EXCEPT ![s].st = "paused"]
    <2>1. SlotMoves(s, a, cre[s])
        BY <1>1, <1>2, <1>3, <1>4, <1>6 DEF SlotMoves
    <2>2. cre'[s].st # "running"
        BY <1>1, <1>6 DEF Shape
    <2> QED BY <1>1, <1>6, <2>1, <2>2, CreatorSlotEnd
<1>7. ASSUME NEW r \in Related(s, cre[s]), Recorded(r, Mapping(r, "ready")),
             cre' \in {cre, [cre EXCEPT ![s].st = "paused"]}
      PROVE  IInv'
    <2>1. SlotMoves(s, a, cre[s])
        BY <1>1, <1>2, <1>3, <1>4, <1>7 DEF SlotMoves
    <2>2. /\ \A t \in Slugs \ {s} : cre'[t] = cre[t] /\ creFile'[t] = creFile[t]
          /\ cre'[s].st \in {"ready", "paused"} /\ cre'[s].owner = cre[s].owner
        BY <1>1, <1>2, <2>1, SlotPlaces
    <2>3. r \in Requests /\ prep[r].st \notin {"none", "terminal"} /\ prep[r].slug # NoSlug
        BY <1>1, RelatedFields, UploadCatalogAssumption
    <2>4. /\ Creating' /\ creators' \subseteq CreatorRecords
          /\ \A x \in creators' : Mark(x.owner, x.slug, x.epoch) \in Marks
        BY <1>1, <2>2, LastCreator
    <2>5. /\ \A v \in workers : ~Critical(v)
          /\ \A x \in creators' : x.pc # "compact"
        BY <1>1 DEF IInv, Records, OneInside
    <2>6. /\ PrepShape' /\ Stored' /\ \A q \in Requests : Later(prepSafe[q], prepSafe'[q])
          /\ workers' \subseteq WorkerRecords /\ OneInside' /\ Handing'
        BY <1>1, <1>7, <2>3, <2>5, SettledPrep
    <2>7. Finished'
        BY <1>1, <1>3, <1>7, <2>2, SettledFinished
    <2> QED BY <1>1, <2>1, <2>4, <2>6, <2>7, SlotStep
<1> QED BY <1>5, <1>6, <1>7 DEF CreatorCompact, Recorded, NotSaved

(***************************************************************************)
(* A receipt is retired.                                                   *)
(***************************************************************************)
LEMMA RetireAbsentKept == ASSUME IInv, NEW s \in Slugs, RetireAbsent(s) PROVE IInv'
<1>o. PICK o : o = cre[s].owner
    OBVIOUS
<1>1. /\ UNCHANGED <<session, hist, created, gens, workers, creators>>
      /\ NoneCompacts /\ \A v \in workers : ~Critical(v)
      /\ Shape /\ cre[s].st \in {"paused", "failed", "ready", "conflict"}
      /\ session[s].st = "none"
      /\ cre[s].st \in {"paused", "failed"} => hist[s] # cre[s].epoch
      /\ bound' = bound \ {o} /\ evidence' = evidence \ {o}
      /\ cre' = [cre EXCEPT ![s] = NoReceipt] /\ creFile' = [creFile EXCEPT ![s] = NoReceipt]
    BY <1>o, MuKeepsOut DEF RetireAbsent, Retirable, IInv
<1>2. /\ cre' \in [Slugs -> ReceiptRecords] /\ creFile' \in [Slugs -> ReceiptRecords]
      /\ \A t \in Slugs \ {s} : cre'[t] = cre[t] /\ creFile'[t] = creFile[t]
      /\ cre'[s].st = "none" /\ creFile'[s].st = "none"
    <2>1. NoReceipt \in ReceiptRecords /\ NoReceipt.st = "none"
        BY NoBodyIsNobody DEF NoReceipt, ReceiptRecords
    <2> QED BY <1>1, <2>1 DEF Shape
<1>3. Mark(o, s, cre[s].epoch) \in Marks
    BY <1>o, <1>1, ReceiptMark
<1>4. \A m \in Marks : m.owner = o => m.slug = s /\ m.epoch = cre[s].epoch
    BY <1>3, OneMark, MarkFields
<1>5. \A c \in creators : c.slug # s /\ c.owner # o
    <2>1. \A c \in creators : c.slug # s
        BY <1>1, NobodyWorks
    <2> QED BY <1>4, <2>1, CreatorMark, MarkFields
<1>6. /\ Creating' /\ creators' \subseteq CreatorRecords
      /\ \A x \in creators' : Mark(x.owner, x.slug, x.epoch) \in Marks
    <2>1. OnlyAt(s, o) /\ creators' \subseteq CreatorRecords
        BY <1>1, <1>2, <1>5 DEF OnlyAt, Shape
    <2>2. Creating'
        BY <1>1, <1>2, <1>5, <2>1, CreatorsKept
    <2> QED BY <1>1, <2>1, <2>2, CreatorMark
<1>7. Marks' \subseteq Marks
    <2>1. \A t \in Slugs :
             /\ cre'[t].st # "none" => Mark(cre'[t].owner, t, cre'[t].epoch) \in Marks
             /\ creFile'[t].st # "none" => Mark(creFile'[t].owner, t, creFile'[t].epoch) \in Marks
             /\ session'[t].st # "none" /\ session'[t].owner # Nobody =>
                   Mark(session'[t].owner, t, hist'[t]) \in Marks
        BY <1>1, <1>2, ReceiptMark, FileMark, SessionMark
    <2>2. created' \subseteq Marks
        BY <1>1, MadeMark
    <2> QED BY <1>6, <2>1, <2>2, MarksWithin
<1>8. Validated'
    <2>1. ASSUME NEW x \in bound'
          PROVE \E t \in Slugs : /\ InPlace(cre'[t], x) /\ InPlace(creFile'[t], x)
                                 /\ cre'[t].validated /\ creFile'[t].validated
        <3>1. PICK t \in Slugs : /\ InPlace(cre[t], x) /\ InPlace(creFile[t], x)
                                 /\ cre[t].validated /\ creFile[t].validated
            BY <1>1 DEF IInv, History, Validated
        <3>2. t # s
            BY <1>o, <1>1, <3>1 DEF InPlace
        <3> QED BY <1>2, <3>1, <3>2
    <2> QED BY <1>1, <2>1 DEF IInv, History, Validated
<1>9. Evidenced'
    <2>1. Evidenced
        BY DEF IInv, History
    <2>2. ASSUME NEW e \in created,
                 InPlace(cre'[e.slug], e.owner) \/ InPlace(creFile'[e.slug], e.owner)
          PROVE  e.owner \in evidence'
        <3>1. e.slug \in Slugs \ {s}
            BY <1>1, <1>2, <2>2 DEF InPlace, Shape, MarkRecords
        <3>2. e.owner \in evidence
            BY <1>2, <2>1, <2>2, <3>1 DEF Evidenced
        <3>3. e.owner # o
            BY <1>4, <3>1, MadeMark
        <3> QED BY <1>1, <3>2, <3>3
    <2> QED BY <1>1, <2>1, <2>2 DEF Evidenced
<1>10. Lived'
    <2>1. Lived
        BY DEF IInv, History
    <2>2. ASSUME NEW t \in Slugs, session[t].st = "creating" PROVE session[t].owner \in bound'
        <3>1. session[t].owner \in bound /\ t # s
            BY <1>1, <2>1, <2>2 DEF Lived
        <3>2. CASE session[t].owner = o
            <4>1. o # Nobody
                BY <1>3, MarkOwner, MarkFields
            <4> QED BY <1>4, <2>2, <3>1, <3>2, <4>1, SessionMark, MarkFields
        <3> QED BY <1>1, <3>1, <3>2
    <2> QED BY <1>1, <2>1, <2>2 DEF Lived
<1>11. Overtaken'
    BY <1>1, <1>2 DEF IInv, History, Overtaken
<1>12. ReadyIsMade'
    <2>1. ReadyIsMade
        BY DEF IInv, History
    <2>2. \A t \in Slugs : \A rec \in {cre'[t], creFile'[t]} :
             rec.st = "ready" => t # s /\ rec \in {cre[t], creFile[t]}
        BY <1>2
    <2> QED BY <1>1, <2>1, <2>2 DEF ReadyIsMade
<1>13. CASE UNCHANGED prepStore
    <2>1. PrepShape' /\ Stored' /\ Handing' /\ workers' \subseteq WorkerRecords
          /\ \A q \in Requests : Later(prepSafe[q], prepSafe'[q])
        BY <1>1, <1>13, PrepStays
    <2>2. OneInside'
        BY <1>1, InsideStays
    <2>3. \A q \in unconfirmed : cre[s].st \in {"ready", "conflict"} => OwnerOf(q) # o
        BY <1>o DEF RetireAbsent
    <2>4. Finished'
        <3>1. Finished /\ unconfirmed \subseteq Requests /\ Stored
            BY <1>1 DEF IInv, History, Shape, Records
        <3>2. ASSUME NEW q \in unconfirmed, prep[q].st = "terminal"
              PROVE  InPlace(cre'[prep[q].slug], OwnerOf(q)) \/ hist[prep[q].slug] # prep[q].epoch
            <4>1. prep[q].slug \in Slugs
                BY <1>1, <3>1, <3>2 DEF Stored, Sound, Shape, PrepRecords
            <4>2. CASE prep[q].slug = s /\ OwnerOf(q) = o
                <5>1. cre[s].st \in {"paused", "failed"}
                    BY <1>1, <2>3, <4>2
                <5>2. cre[s].epoch = prep[q].epoch
                    BY <1>3, <3>1, <4>2, MarkOfRequest, MarkFields DEF OwnerOf
                <5> QED BY <1>1, <4>2, <5>1, <5>2
            <4>3. CASE ~(prep[q].slug = s /\ OwnerOf(q) = o)
                BY <1>o, <1>2, <3>1, <3>2, <4>1, <4>3 DEF Finished, InPlace
            <4> QED BY <4>2, <4>3
        <3>3. \A q \in Requests : OwnerOf(q)' = OwnerOf(q)
            BY <1>13 DEF OwnerOf, prepStore
        <3> QED BY <1>1, <1>13, <3>1, <3>2, <3>3 DEF Finished, prepStore
    <2>5. Identities'
        BY <1>1, <1>7, <2>1, GensStay, MarksStay
    <2>6. Shape'
        BY <1>1, <1>2, <1>6, <2>1 DEF Shape, PrepShape
    <2> QED BY <1>6, <1>8, <1>9, <1>10, <1>11, <1>12, <2>1, <2>2, <2>4, <2>5, <2>6
            DEF IInv, Records, History
<1>14. ASSUME NEW r \in Related(s, cre[s]), Saved(r, Mapping(r, "conflict")),
              cre[s].st = "conflict"
       PROVE  IInv'
    <2>1. r \in Requests /\ prep[r].st \notin {"none", "terminal"} /\ prep[r].slug # NoSlug
          /\ o = OwnerOf(r)
        BY <1>o, RelatedFields, UploadCatalogAssumption
    <2>2. Recorded(r, Mapping(r, "conflict")) /\ unconfirmed' = unconfirmed
        BY <1>14 DEF Recorded, Saved
    <2>3. /\ PrepShape' /\ Stored' /\ \A q \in Requests : Later(prepSafe[q], prepSafe'[q])
          /\ workers' \subseteq WorkerRecords /\ OneInside' /\ Handing'
        BY <1>1, <2>1, <2>2, SettledPrep DEF NoneCompacts
    <2>4. Mark(cre[s].owner, s, cre[s].epoch) \in created
        <3>1. cre[s].owner.req \in Requests /\ Overtaken
            BY <1>o, <2>1 DEF IInv, History, OwnerOf
        <3> QED BY <1>14, <3>1 DEF Overtaken
    <2>5. Finished'
        <3>1. \A q \in unconfirmed' : OwnerOf(q) # cre[s].owner
            BY <1>14, <2>2 DEF RetireAbsent
        <3> QED BY <1>1, <1>2, <1>5, <1>14, <2>2, <2>4, <3>1, SettledFinished
    <2>6. Identities'
        BY <1>1, <1>7, <2>3, GensStay, MarksStay
    <2>7. Shape'
        BY <1>1, <1>2, <1>6, <2>3 DEF Shape, PrepShape
    <2> QED BY <1>6, <1>8, <1>9, <1>10, <1>11, <1>12, <2>3, <2>5, <2>6, <2>7
            DEF IInv, Records, History
<1>15. \/ UNCHANGED prepStore
       \/ /\ cre[s].st = "conflict"
          /\ \E r \in Related(s, cre[s]) : Saved(r, Mapping(r, "conflict"))
    BY DEF RetireAbsent
<1> QED BY <1>13, <1>14, <1>15

(***************************************************************************)
(* A receipt is installed where there was none.                            *)
(***************************************************************************)
LEMMA FreshStep ==
    ASSUME IInv, NEW s \in Slugs, cre[s].st = "none", session[s].st = "none",
           NEW a \in ReceiptRecords, a.st = "running",
           a.owner \notin bound, \A m \in created : m.owner # a.owner,
           \A c \in creators : c.owner # a.owner,
           Anchored(Mark(a.owner, s, a.epoch))',
           a.owner.req \in Requests \/ \A m \in Marks : m.owner # a.owner,
           a.owner.req \in Requests => prep[a.owner.req].st # "terminal",
           UNCHANGED <<session, hist, bound, evidence, created, prepStore>>, GensGrow,
           workers' \subseteq WorkerRecords, OneInside', Handing',
           \/ ReceiptSaved(s, a) /\ creators' = creators \cup {Creator(s, a)}
           \/ ReceiptNotSaved(s, a) /\ UNCHANGED <<cre, creators>>
    PROVE  IInv'
<1>n. PICK n : n = Creator(s, a)
    OBVIOUS
<1>k. PICK k : k = Mark(a.owner, s, a.epoch)
    OBVIOUS
<1>1. /\ n \in CreatorRecords /\ n.pc = "init" /\ n.slug = s /\ n.owner = a.owner
      /\ n.epoch = a.epoch /\ n.attempt = a.attempt /\ n.validated = a.validated
    BY <1>n, NewReceiptFields
<1>2. Shape
    BY DEF IInv
<1>3. /\ cre' \in [Slugs -> ReceiptRecords] /\ creFile' \in [Slugs -> ReceiptRecords]
      /\ \A t \in Slugs \ {s} : cre'[t] = cre[t] /\ creFile'[t] = creFile[t]
      /\ cre'[s] \in {cre[s], a} /\ creFile'[s] \in {creFile[s], a}
    BY <1>2 DEF Shape, ReceiptSaved, ReceiptNotSaved
<1>4. k \in MarkRecords /\ k.owner = a.owner /\ k.slug = s /\ k.epoch = a.epoch
    BY <1>k DEF Mark, MarkRecords, ReceiptRecords
<1>5. \A c \in creators : c.slug # s
    BY NobodyWorks
<1>6. /\ Creating' /\ creators' \subseteq CreatorRecords
      /\ \A c \in creators' : c \in creators \/ c = n
    <2>1. CASE ReceiptSaved(s, a) /\ creators' = creators \cup {n}
        <3>1. cre'[s] = a /\ creFile'[s] = a
            BY <1>2, <2>1 DEF ReceiptSaved, Shape
        <3>2. Working(n)'
            BY <1>1, <3>1, FreshWorking
        <3>3. \A t \in Slugs \ {n.slug} : cre'[t] = cre[t] /\ creFile'[t] = creFile[t]
            BY <1>1, <1>3
        <3>4. \A c \in creators : c.slug # n.slug /\ c.owner # n.owner
            BY <1>1, <1>5
        <3> QED BY <1>1, <2>1, <3>2, <3>3, <3>4, NewCreator
    <2>2. CASE UNCHANGED <<cre, creators>>
        BY <1>3, <1>5, <2>2, NoCreator
    <2> QED BY <1>n, <2>1, <2>2
<1>7. PrepShape' /\ Stored' /\ \A q \in Requests : Later(prepSafe[q], prepSafe'[q])
    <2>1. PrepShape' /\ Stored'
        BY <1>2 DEF IInv, Records, Stored, Shape, PrepShape, prepStore
    <2>2. \A q \in Requests : Later(prepSafe[q], prepSafe'[q])
        BY DEF Later, prepStore
    <2> QED BY <2>1, <2>2
<1>8. Shape'
    BY <1>2, <1>3, <1>6, <1>7 DEF Shape, PrepShape, GensGrow
<1>9. Identities'
    <2>1. \A t \in Slugs :
             /\ cre'[t].st # "none" => Mark(cre'[t].owner, t, cre'[t].epoch) \in Marks \cup {k}
             /\ creFile'[t].st # "none" =>
                   Mark(creFile'[t].owner, t, creFile'[t].epoch) \in Marks \cup {k}
             /\ session'[t].st # "none" /\ session'[t].owner # Nobody =>
                   Mark(session'[t].owner, t, hist'[t]) \in Marks \cup {k}
        BY <1>3, <1>k, ReceiptMark, FileMark, SessionMark
    <2>2. created' \subseteq Marks \cup {k}
        BY MadeMark
    <2>3. \A c \in creators' : Mark(c.owner, c.slug, c.epoch) \in Marks \cup {k}
        BY <1>k, <1>1, <1>6, CreatorMark
    <2>4. Marks' \subseteq Marks \cup {k}
        BY <2>1, <2>2, <2>3, MarksWithin
    <2>5. Anchored(k)'
        BY <1>k
    <2> QED BY <1>4, <1>7, <2>4, <2>5, MarksKept
<1>10. Validated'
    <2>1. ASSUME NEW x \in bound
          PROVE \E t \in Slugs : /\ InPlace(cre'[t], x) /\ InPlace(creFile'[t], x)
                                 /\ cre'[t].validated /\ creFile'[t].validated
        <3>1. PICK t \in Slugs : /\ InPlace(cre[t], x) /\ InPlace(creFile[t], x)
                                 /\ cre[t].validated /\ creFile[t].validated
            BY DEF IInv, History, Validated
        <3>2. t # s
            BY <3>1 DEF InPlace
        <3> QED BY <1>3, <3>1, <3>2
    <2> QED BY <2>1 DEF IInv, History, Validated
<1>11. Evidenced'
    <2>1. Evidenced
        BY DEF IInv, History
    <2>2. ASSUME NEW e \in created,
                 InPlace(cre'[e.slug], e.owner) \/ InPlace(creFile'[e.slug], e.owner)
          PROVE  e.owner \in evidence
        <3>1. e.slug \in Slugs
            BY <1>2 DEF Shape, MarkRecords
        <3>2. InPlace(cre[e.slug], e.owner) \/ InPlace(creFile[e.slug], e.owner)
            BY <1>3, <2>2, <3>1 DEF InPlace
        <3> QED BY <2>1, <3>2 DEF Evidenced
    <2> QED BY <2>1, <2>2 DEF Evidenced
<1>12. Lived' /\ ReadyIsMade'
    <2>1. Lived'
        BY DEF IInv, History, Lived
    <2>2. \A t \in Slugs : \A rec \in {cre'[t], creFile'[t]} :
             rec.st = "ready" => rec \in {cre[t], creFile[t]}
        BY <1>3
    <2>3. ReadyIsMade'
        BY <2>2 DEF IInv, History, ReadyIsMade
    <2> QED BY <2>1, <2>3
<1>13. Overtaken'
    BY <1>3 DEF IInv, History, Overtaken
<1>14. Finished'
    <2>1. \A c \in creators' : c.pc # "compact" /\ c.owner.req \in Requests =>
             prep[c.owner.req].st # "terminal"
        BY <1>1, <1>6 DEF IInv, History, Finished
    <2>2. \A t \in Slugs : cre[t].st # "none" =>
               cre'[t].st # "none" /\ cre'[t].owner = cre[t].owner
        BY <1>3
    <2> QED BY <2>1, <2>2, FinishedStays DEF prepStore
<1> QED BY <1>6, <1>7, <1>8, <1>9, <1>10, <1>11, <1>12, <1>13, <1>14 DEF IInv, Records, History

LEMMA NewReceiptShape ==
    ASSUME NEW o \in AnyOwner, NEW e \in Nat
    PROVE  /\ NewReceipt(o, e) \in ReceiptRecords /\ NewReceipt(o, e).st = "running"
           /\ NewReceipt(o, e).owner = o /\ NewReceipt(o, e).epoch = e
BY DEF NewReceipt, NoReceipt, ReceiptRecords

\* A form's receipt has an owner nobody had.
LEMMA AcceptKept == ASSUME IInv, NEW q \in Directs, Accept(q) PROVE IInv'
<1> DEFINE s == DirectSlug[q]
<1>o. PICK o : o = [req |-> q, gen |-> gens[q] + 1]
    OBVIOUS
<1>a. PICK a : a = NewReceipt(o, hist[s])
    OBVIOUS
<1>1. /\ UNCHANGED <<session, hist, bound, evidence, created, prepStore, workers>>
      /\ Mu /\ cre[s].st = "none" /\ session[s].st = "none" /\ s \in Slugs /\ Shape
      /\ gens' = [gens EXCEPT ![q] = @ + 1]
      /\ \/ ReceiptSaved(s, a) /\ creators' = creators \cup {Creator(s, a)}
         \/ ReceiptNotSaved(s, a) /\ UNCHANGED <<cre, creators>>
    BY <1>o, <1>a, SessionCreationAssumption DEF Accept, world, IInv
<1>2. /\ q \in Requests \cup Directs /\ gens[q] \in Nat /\ gens'[q] = gens[q] + 1
      /\ q \notin Requests
    BY <1>1, SessionCreationAssumption DEF Shape
<1>3. GensGrow
    BY <1>1, <1>2 DEF Shape, GensGrow
<1>4. o \in AnyOwner /\ o.req = q /\ o.gen = gens'[q]
    BY <1>o, <1>2 DEF AnyOwner
<1>5. /\ a \in ReceiptRecords /\ a.st = "running" /\ a.owner = o /\ a.epoch = hist[s]
    BY <1>a, <1>1, <1>4, NewReceiptShape DEF Shape
<1>6. \A m \in Marks : m.owner # o
    <2> SUFFICES ASSUME NEW m \in Marks, m.owner = o PROVE FALSE
        OBVIOUS
    <2>1. Anchored(m)
        BY DEF IInv, Identities, MarksAnchored
    <2> QED BY <1>2, <1>4, <2>1 DEF Anchored
<1>7. o \notin bound
    <2> SUFFICES ASSUME o \in bound PROVE FALSE
        OBVIOUS
    <2>1. PICK t \in Slugs : InPlace(cre[t], o)
        BY DEF IInv, History, Validated
    <2> QED BY <1>6, <2>1, ReceiptMark, MarkFields DEF InPlace
<1>8. /\ \A m \in created : m.owner # o
      /\ \A c \in creators : c.owner # o
    BY <1>6, MadeMark, CreatorMark, MarkFields
<1>9. Anchored(Mark(o, s, hist[s]))'
    BY <1>1, <1>2, <1>4 DEF Anchored, Mark
<1>10. workers' \subseteq WorkerRecords /\ Handing'
    BY <1>1, PrepStays
<1>11. OneInside'
    BY <1>1, <1>a, <1>5, InsideStays, NewReceiptFields
<1> QED BY <1>1, <1>2, <1>3, <1>4, <1>5, <1>6, <1>7, <1>8, <1>9, <1>10, <1>11, FreshStep

\* A handoff installs the receipt of its own reservation.
LEMMA WorkerInstallKept == ASSUME IInv, NEW w \in workers, WorkerInstall(w) PROVE IInv'
<1>r. PICK r : r = w.req
    OBVIOUS
<1>s. PICK s : s = prep[r].slug
    OBVIOUS
<1>1. /\ w \in WorkerRecords /\ r \in Requests /\ Shape /\ HandsOver(w)
      /\ prep[r] \in PrepRecords /\ w.pc = "install" /\ Critical(w) /\ OneInside
      /\ prep[r].st \notin {"none", "terminal"} /\ r \notin unconfirmed
      /\ s \in Slugs /\ s # NoSlug /\ Stored /\ Handing
    BY <1>r, <1>s, WorkerGrounds DEF WorkerInstall, Critical, IInv, Records, HandsOver, PrepRecords
<1>2. UNCHANGED <<prepStore, gens, session, hist, bound, evidence, created>>
    BY DEF WorkerInstall, world
<1>3. NoneCompacts /\ \A v \in workers : v # w => ~Critical(v)
    BY <1>1, InsideAlone
<1>4. Follows(r, prep[r])
    BY <1>1, SameName
<1>5. \A pc \in {"handoff", "fail"} : HandsOver([w EXCEPT !.pc = pc])'
    BY <1>1, <1>2, <1>r DEF HandsOver, Critical, prepStore, WorkerRecords
<1>6. ASSUME NEW pc \in {"handoff", "fail"}, Step(w, pc), UNCHANGED <<creStore, creators>>
      PROVE  IInv'
    <2>1. Quiet
        BY <1>2, <1>6 DEF Quiet
    <2> QED BY <1>1, <1>2, <1>3, <1>4, <1>5, <1>6, <1>r, <2>1, WorkerStep
<1>o. PICK o : o = OwnerOf(r)
    OBVIOUS
<1>a. PICK a : a = NewReceipt(o, prep[r].epoch)
    OBVIOUS
<1>7. ASSUME cre[s].st = "none", session[s].st = "none", hist[s] = prep[r].epoch,
             NEW pc \in {"handoff", "fail"}, Step(w, pc),
             \/ ReceiptSaved(s, a) /\ creators' = creators \cup {Creator(s, a)}
             \/ ReceiptNotSaved(s, a) /\ UNCHANGED <<cre, creators>>
      PROVE  IInv'
    <2>1. o \in AnyOwner /\ o.req = r /\ o.gen = prep[r].gen /\ prep[r].epoch \in Nat
        BY <1>o, <1>1 DEF OwnerOf, AnyOwner, PrepRecords
    <2>2. /\ a \in ReceiptRecords /\ a.st = "running" /\ a.owner = o
          /\ a.epoch = prep[r].epoch
        BY <1>a, <2>1, NewReceiptShape
    <2>3. WorkersFit
        BY <1>1, <1>3, <1>5, <1>7, <1>r, StepFits
    <2>4. \A c \in creators' : c.pc # "compact"
        BY <1>1, <1>3, <1>7, <2>2, NewReceiptFields DEF NoneCompacts
    <2>5. \A q \in Requests : prep'[q] = prep[q] /\ Later(prep[q], prep[q])
        BY <1>2 DEF Later, prepStore
    <2>6. workers' \subseteq WorkerRecords /\ OneInside' /\ Handing'
        BY <1>1, <2>3, <2>4, <2>5, WorkersKept
    <2>7. \A m \in Marks : m.owner = o => m.slug = s /\ m.epoch = hist[s]
        BY <1>o, <1>s, <1>1, <1>7, <2>1, MarkOfRequest
    <2>8. o \notin bound
        <3> SUFFICES ASSUME o \in bound PROVE FALSE
            OBVIOUS
        <3>1. PICK t \in Slugs : InPlace(cre[t], o)
            BY DEF IInv, History, Validated
        <3>2. t = s
            BY <2>7, <3>1, ReceiptMark, MarkFields DEF InPlace
        <3> QED BY <1>7, <3>1, <3>2 DEF InPlace
    <2>9. \A m \in created : m.owner # o
        <3> SUFFICES ASSUME NEW m \in created, m.owner = o PROVE FALSE
            OBVIOUS
        <3>1. m.slug = s /\ m.epoch = hist[m.slug]
            BY <2>7, MadeMark
        <3>2. session[m.slug] = [st |-> "ready", owner |-> m.owner]
            BY <3>1 DEF IInv, History, Lived
        <3> QED BY <1>7, <3>1, <3>2
    <2>10. \A c \in creators : c.owner # o
        <3> SUFFICES ASSUME NEW c \in creators, c.owner = o PROVE FALSE
            OBVIOUS
        <3>1. c.slug = s
            BY <2>7, CreatorMark, MarkFields
        <3>2. cre[c.slug].st # "none"
            BY CreatorGrounds
        <3> QED BY <1>7, <3>1, <3>2
    <2>11. Anchored(Mark(o, s, prep[r].epoch))'
        <3>1. /\ prepSafe[r] = prepFile[r] /\ prepFile[r].st # "none"
              /\ prepFile[r].gen = prep[r].gen /\ prepFile[r].slug = s
              /\ prepFile[r].epoch = prep[r].epoch
            BY <1>1, <1>s DEF Stored, Alike
        <3> QED BY <1>1, <1>2, <2>1, <3>1 DEF Anchored, Mark, prepStore
    <2>12. GensGrow
        BY <1>1, <1>2, GensStay
    <2>13. /\ a.owner \notin bound /\ \A m \in created : m.owner # a.owner
           /\ \A c \in creators : c.owner # a.owner
           /\ a.owner.req \in Requests /\ prep[a.owner.req].st # "terminal"
        BY <1>1, <2>1, <2>2, <2>8, <2>9, <2>10
    <2>14. Anchored(Mark(a.owner, s, a.epoch))'
        <3>1. a.owner = o /\ a.epoch = prep[r].epoch
            BY <2>2
        <3> QED BY <1>1, <1>2, <2>11, <3>1 DEF prepStore
    <2> QED BY <1>1, <1>2, <1>7, <2>2, <2>6, <2>12, <2>13, <2>14, FreshStep
<1>8. WorkerInstall(w) =>
         \/ \E pc \in {"handoff", "fail"} : Step(w, pc) /\ UNCHANGED <<creStore, creators>>
         \/ /\ cre[s].st = "none" /\ session[s].st = "none" /\ hist[s] = prep[r].epoch
            /\ \E pc \in {"handoff", "fail"} : Step(w, pc)
            /\ \/ ReceiptSaved(s, a) /\ creators' = creators \cup {Creator(s, a)}
               \/ ReceiptNotSaved(s, a) /\ UNCHANGED <<cre, creators>>
    BY <1>o, <1>a, <1>r, <1>s DEF WorkerInstall
<1> QED BY <1>6, <1>7, <1>8

(***************************************************************************)
(* The terminal.                                                           *)
(***************************************************************************)
LEMMA CliGrounds ==
    ASSUME IInv, UNCHANGED <<prepStore, workers, creStore, creators, bound, evidence, created, gens>>,
           UNCHANGED hist
    PROVE  /\ PrepShape' /\ Stored' /\ Handing' /\ workers' \subseteq WorkerRecords /\ OneInside'
           /\ Validated' /\ Evidenced' /\ ReadyIsMade'
<1>1. PrepShape' /\ Stored' /\ Handing' /\ workers' \subseteq WorkerRecords
    BY PrepStays
<1>2. OneInside'
    BY InsideStays
<1> QED BY <1>1, <1>2 DEF IInv, History, Validated, Evidenced, ReadyIsMade, InPlace, creStore

LEMMA CliStartKept == ASSUME IInv, NEW s \in Slugs, CliStart(s) PROVE IInv'
<1>1. /\ UNCHANGED <<prepStore, workers, creStore, creators, bound, evidence, created, gens>>
      /\ UNCHANGED hist /\ session[s].st = "none" /\ Reserved(s, Nobody) /\ Shape
      /\ session' = [session EXCEPT ![s] = [st |-> "ready", owner |-> Nobody]]
    BY DEF CliStart, IInv
<1>2. /\ session' \in [Slugs -> Sessions] /\ \A t \in Slugs \ {s} : session'[t] = session[t]
      /\ session'[s].st = "ready" /\ session'[s].owner = Nobody
    BY <1>1, NoBodyIsNobody DEF Shape, Sessions
<1>3. /\ PrepShape' /\ Stored' /\ Handing' /\ workers' \subseteq WorkerRecords /\ OneInside'
      /\ Validated' /\ Evidenced' /\ ReadyIsMade'
    BY <1>1, CliGrounds
<1>4. Shape'
    BY <1>1, <1>2, <1>3 DEF Shape, PrepShape, creStore
<1>5. Creating'
    <2>1. ASSUME NEW c \in creators PROVE Working(c)'
        <3>1. Working(c) /\ c.slug \in Slugs
            BY CreatorGrounds
        <3>2. c.pc = "started" => c.slug # s
            BY <1>1, <3>1 DEF Working
        <3> QED BY <1>1, <1>2, <3>1, <3>2 DEF Working, creStore
    <2> QED BY <1>1, <2>1 DEF IInv, Records, Creating, creStore
<1>6. Identities'
    <2>1. \A t \in Slugs :
             /\ cre'[t].st # "none" => Mark(cre'[t].owner, t, cre'[t].epoch) \in Marks
             /\ creFile'[t].st # "none" => Mark(creFile'[t].owner, t, creFile'[t].epoch) \in Marks
             /\ session'[t].st # "none" /\ session'[t].owner # Nobody =>
                   Mark(session'[t].owner, t, hist'[t]) \in Marks
        BY <1>1, <1>2, ReceiptMark, FileMark, SessionMark DEF creStore
    <2>2. Marks' \subseteq Marks
        BY <1>1, <2>1, MadeMark, CreatorMark, MarksWithin
    <2>3. \A q \in Requests : Later(prepSafe[q], prepSafe'[q])
        BY <1>1 DEF Later, prepStore
    <2> QED BY <1>1, <2>2, <2>3, GensStay, MarksStay
<1>7. Finished'
    BY <1>1 DEF IInv, History, Finished, creStore, prepStore, OwnerOf
<1>8. Lived'
    <2>1. Lived /\ created \subseteq MarkRecords
        BY <1>1 DEF IInv, History, Shape
    <2>2. ASSUME NEW e \in created, e.epoch = hist[e.slug]
          PROVE  session'[e.slug] = [st |-> "ready", owner |-> e.owner]
        <3>1. session[e.slug] = [st |-> "ready", owner |-> e.owner] /\ e.slug \in Slugs
            BY <2>1, <2>2 DEF Lived, MarkRecords
        <3> QED BY <1>1, <1>2, <3>1
    <2> QED BY <1>1, <1>2, <2>1, <2>2 DEF Lived
<1>9. Overtaken'
    <2> SUFFICES ASSUME NEW t \in Slugs, NEW rec \in {cre[t], creFile[t]},
                        rec.st # "none", rec.owner.req \in Requests,
                        \/ rec.st = "conflict"
                        \/ session'[t].st # "none" /\ session'[t].owner # rec.owner
                 PROVE  Mark(rec.owner, t, rec.epoch) \in created
        BY <1>1 DEF Overtaken, creStore
    <2>1. CASE t # s \/ rec.st = "conflict"
        BY <1>2, <2>1 DEF IInv, History, Overtaken
    <2>2. CASE t = s
        <3> DEFINE r == rec.owner.req
        <3>1. Mark(rec.owner, s, rec.epoch) \in Marks
            BY <2>2, ReceiptMark, FileMark
        <3>2. /\ rec.owner = OwnerOf(r) /\ prep[r].slug = s /\ prep[r].epoch = rec.epoch
              /\ prepFile[r].slug = s /\ prepFile[r].st # "none"
            BY <3>1, MarkOfRequest, MarkFields
        <3>3. prepFile[r].st = "terminal"
            <4>1. [req |-> r, gen |-> prepFile[r].gen] # Nobody
                BY SessionCreationAssumption DEF Nobody
            <4> QED BY <1>1, <3>2, <4>1 DEF Reserved, Unfinished
        <3>4. prep[r].st = "terminal"
            BY <3>3 DEF IInv, Records, Stored, Alike
        <3> QED BY <2>2, <3>2, <3>4 DEF IInv, History, Finished
    <2> QED BY <2>1, <2>2
<1> QED BY <1>3, <1>4, <1>5, <1>6, <1>7, <1>8, <1>9 DEF IInv, Records, History

LEMMA CliRemoveKept == ASSUME IInv, NEW s \in Slugs, CliRemove(s) PROVE IInv'
<1>1. /\ UNCHANGED <<prepStore, workers, creStore, creators, bound, evidence, created, gens>>
      /\ hist' = [hist EXCEPT ![s] = @ + 1] /\ session' = [session EXCEPT ![s] = NoSession]
      /\ Shape /\ session[s].st = "ready"
      /\ \A c \in creators : c.slug = s => c.pc # "started"
    BY DEF CliRemove, IInv
<1>2. /\ session' \in [Slugs -> Sessions] /\ \A t \in Slugs \ {s} : session'[t] = session[t]
      /\ session'[s].st = "none"
      /\ hist' \in [Slugs -> Nat] /\ hist'[s] = hist[s] + 1 /\ hist[s] \in Nat
      /\ \A t \in Slugs \ {s} : hist'[t] = hist[t]
      /\ \A t \in Slugs : hist[t] <= hist'[t]
    <2>1. NoSession \in Sessions /\ NoSession.st = "none"
        BY NoBodyIsNobody DEF NoSession, Sessions
    <2> QED BY <1>1, <2>1 DEF Shape
<1>3. PrepShape' /\ Stored' /\ Handing' /\ workers' \subseteq WorkerRecords
    <2>1. PrepShape /\ Stored /\ Handing /\ workers \subseteq WorkerRecords
        BY <1>1 DEF IInv, Shape, PrepShape, Records
    <2>2. \A q \in Requests : prep[q].slug # NoSlug => prep[q].epoch <= hist'[prep[q].slug]
        <3> SUFFICES ASSUME NEW q \in Requests, prep[q].slug # NoSlug
                     PROVE  prep[q].epoch <= hist'[prep[q].slug]
            OBVIOUS
        <3>1. prep[q].slug \in Slugs /\ prep[q].epoch \in Nat
            BY <2>1 DEF PrepShape, PrepRecords
        <3>2. prep[q].epoch <= hist[prep[q].slug] /\ hist[prep[q].slug] \in Nat
              /\ hist'[prep[q].slug] \in Nat
            BY <1>1, <1>2, <2>1, <3>1 DEF Stored, Shape
        <3> QED BY <1>2, <3>1, <3>2
    <2> QED BY <1>1, <2>1, <2>2 DEF Stored, PrepShape, Handing, HandsOver, prepStore
<1>4. OneInside'
    BY <1>1, InsideStays
<1>5. Shape'
    BY <1>1, <1>2, <1>3 DEF Shape, PrepShape, creStore
<1>6. Creating'
    <2>1. ASSUME NEW c \in creators PROVE Working(c)'
        <3>1. Working(c) /\ c.slug \in Slugs
            BY CreatorGrounds
        <3> QED BY <1>1, <1>2, <3>1 DEF Working, creStore
    <2> QED BY <1>1, <2>1 DEF IInv, Records, Creating, creStore
<1>7. Identities'
    <2>1. \A t \in Slugs :
             /\ cre'[t].st # "none" => Mark(cre'[t].owner, t, cre'[t].epoch) \in Marks
             /\ creFile'[t].st # "none" => Mark(creFile'[t].owner, t, creFile'[t].epoch) \in Marks
             /\ session'[t].st # "none" /\ session'[t].owner # Nobody =>
                   Mark(session'[t].owner, t, hist'[t]) \in Marks
        BY <1>1, <1>2, ReceiptMark, FileMark, SessionMark DEF creStore
    <2>2. Marks' \subseteq Marks
        BY <1>1, <2>1, MadeMark, CreatorMark, MarksWithin
    <2>3. \A q \in Requests : Later(prepSafe[q], prepSafe'[q])
        BY <1>1 DEF Later, prepStore
    <2> QED BY <1>1, <2>2, <2>3, GensStay, MarksStay
<1>8. Validated' /\ Evidenced' /\ ReadyIsMade'
    BY <1>1 DEF IInv, History, Validated, Evidenced, ReadyIsMade, InPlace, creStore
<1>9. Finished'
    <2>1. Finished /\ Stored /\ unconfirmed \subseteq Requests
        BY <1>1 DEF IInv, History, Records, Shape
    <2>2. ASSUME NEW q \in unconfirmed, prep[q].st = "terminal"
          PROVE  InPlace(cre[prep[q].slug], OwnerOf(q)) \/ hist'[prep[q].slug] # prep[q].epoch
        <3>1. /\ prep[q].slug \in Slugs /\ prep[q].epoch \in Nat
              /\ prep[q].epoch <= hist[prep[q].slug]
            BY <1>1, <2>1, <2>2 DEF Stored, Sound, Shape, PrepRecords
        <3>2. CASE prep[q].slug = s
            BY <1>2, <3>1, <3>2
        <3>3. CASE prep[q].slug # s
            BY <1>2, <2>1, <2>2, <3>1, <3>3 DEF Finished
        <3> QED BY <3>2, <3>3
    <2> QED BY <1>1, <2>1, <2>2 DEF Finished, creStore, prepStore, OwnerOf
<1>10. Lived'
    <2>1. Lived /\ created \subseteq MarkRecords
        BY <1>1 DEF IInv, History, Shape
    <2>2. ASSUME NEW e \in created
          PROVE  /\ e.epoch <= hist'[e.slug]
                 /\ e.epoch = hist'[e.slug] =>
                       session'[e.slug] = [st |-> "ready", owner |-> e.owner]
        <3>1. e.slug \in Slugs /\ e.epoch \in Nat /\ e.epoch <= hist[e.slug]
            BY <2>1 DEF Lived, MarkRecords
        <3>2. CASE e.slug = s
            BY <1>2, <3>1, <3>2
        <3>3. CASE e.slug # s
            BY <1>2, <2>1, <3>1, <3>3 DEF Lived
        <3> QED BY <3>2, <3>3
    <2> QED BY <1>1, <1>2, <2>1, <2>2 DEF Lived
<1>11. Overtaken'
    <2> SUFFICES ASSUME NEW t \in Slugs, NEW rec \in {cre[t], creFile[t]},
                        rec.st # "none", rec.owner.req \in Requests,
                        \/ rec.st = "conflict"
                        \/ session'[t].st # "none" /\ session'[t].owner # rec.owner
                 PROVE  Mark(rec.owner, t, rec.epoch) \in created
        BY <1>1 DEF Overtaken, creStore
    <2> QED BY <1>2 DEF IInv, History, Overtaken
<1> QED BY <1>3, <1>4, <1>5, <1>6, <1>7, <1>8, <1>9, <1>10, <1>11 DEF IInv, Records, History

(***************************************************************************)
(* Restarts.                                                               *)
(***************************************************************************)
\* Files that a restart may find: what was safe or what came after it.
Found(files) ==
    /\ files \in [Requests -> PrepRecords]
    /\ \A q \in Requests :
          /\ Sound(files[q]) /\ Later(prepSafe[q], files[q])
          /\ files[q].slug # NoSlug =>
                files[q].slug = prep[q].slug /\ files[q].epoch = prep[q].epoch
          /\ files[q].st = "terminal" =>
                prep[q].st = "terminal" /\ prep[q].gen = files[q].gen
          /\ Unfinished(files[q]) => Unfinished(prep[q]) \/ Unfinished(prepSafe[q])

LEMMA PausedPrep ==
    ASSUME NEW rec \in PrepRecords
    PROVE  PausedRecord(rec) \in PrepRecords /\ Alike(PausedRecord(rec), rec)
BY DEF PausedRecord, PrepRecords, Alike

LEMMA PausedReceipt ==
    ASSUME NEW rec \in ReceiptRecords
    PROVE  /\ PausedRecord(rec) \in ReceiptRecords /\ PausedRecord(rec).st # "running"
           /\ PausedRecord(rec).owner = rec.owner /\ PausedRecord(rec).epoch = rec.epoch
           /\ PausedRecord(rec).validated = rec.validated
           /\ PausedRecord(rec).st = "none" <=> rec.st = "none"
           /\ PausedRecord(rec).st \in {"ready", "conflict"} => PausedRecord(rec).st = rec.st
BY DEF PausedRecord, ReceiptRecords

LEMMA RestartKept == ASSUME IInv, NEW files, Found(files), Restart(files) PROVE IInv'
<1>1. /\ prepFile' = files /\ prepSafe' = files
      /\ prep' = [r \in Requests |-> PausedRecord(files[r])]
      /\ cre' = [s \in Slugs |-> PausedRecord(creFile[s])]
      /\ unconfirmed' = {} /\ workers' = {} /\ creators' = {}
      /\ UNCHANGED <<creFile, session, hist, bound, evidence, created, gens>>
      /\ Shape
    BY DEF Restart, world, IInv
<1>2. \A q \in Requests : /\ files[q] \in PrepRecords /\ prep'[q] \in PrepRecords
                          /\ Alike(prep'[q], files[q])
    BY <1>1, PausedPrep DEF Found
<1>3. PrepShape'
    BY <1>1, <1>2 DEF PrepShape, Found
<1>4. Stored'
    <2>1. \A q \in Requests : Later(files[q], files[q])
        BY DEF Later
    <2>2. \A q \in Requests : Sound(prep'[q])
        BY <1>2 DEF Found, Sound, Alike
    <2>3. \A q \in Requests : files[q].slug # NoSlug => files[q].epoch <= hist[files[q].slug]
        BY DEF Found, IInv, Records, Stored
    <2> QED BY <1>1, <1>2, <2>1, <2>2, <2>3 DEF Stored, Found, Alike
<1>5. \A s \in Slugs :
         /\ cre'[s] \in ReceiptRecords /\ cre'[s].st # "running"
         /\ cre'[s].owner = creFile[s].owner /\ cre'[s].epoch = creFile[s].epoch
         /\ cre'[s].validated = creFile[s].validated
         /\ cre'[s].st = "none" <=> creFile[s].st = "none"
         /\ cre'[s].st \in {"ready", "conflict"} => cre'[s].st = creFile[s].st
    BY <1>1, PausedReceipt DEF Shape
<1>6. Shape'
    BY <1>1, <1>3, <1>5 DEF Shape, PrepShape
<1>7. OneInside' /\ Handing' /\ Creating'
    BY <1>1, <1>5 DEF OneInside, Handing, Creating
<1>8. Identities'
    <2>1. \A t \in Slugs :
             /\ cre'[t].st # "none" => Mark(cre'[t].owner, t, cre'[t].epoch) \in Marks
             /\ creFile'[t].st # "none" => Mark(creFile'[t].owner, t, creFile'[t].epoch) \in Marks
             /\ session'[t].st # "none" /\ session'[t].owner # Nobody =>
                   Mark(session'[t].owner, t, hist'[t]) \in Marks
        BY <1>1, <1>5, FileMark, SessionMark
    <2>2. Marks' \subseteq Marks
        BY <1>1, <2>1, MadeMark, MarksWithin
    <2>3. \A q \in Requests : Later(prepSafe[q], prepSafe'[q])
        BY <1>1 DEF Found
    <2> QED BY <1>1, <2>2, <2>3, GensStay, MarksStay
<1>9. \A o : \A s \in Slugs : InPlace(cre'[s], o) <=> InPlace(creFile[s], o)
    BY <1>5 DEF InPlace
<1>10. Validated'
    BY <1>1, <1>5, <1>9 DEF IInv, History, Validated
<1>11. Evidenced'
    BY <1>1, <1>9 DEF IInv, History, Evidenced, Shape, MarkRecords
<1>12. Lived'
    BY <1>1 DEF IInv, History, Lived
<1>13. Finished'
    <2>1. ASSUME NEW q \in Requests, prep'[q].st = "terminal"
          PROVE  Mark(OwnerOf(q)', prep'[q].slug, prep'[q].epoch) \in created
        <3>1. /\ prep[q].st = "terminal" /\ prep'[q].gen = prep[q].gen
              /\ prep'[q].slug = prep[q].slug /\ prep'[q].epoch = prep[q].epoch
            BY <1>2, <2>1 DEF Found, Alike, Sound
        <3> QED BY <3>1 DEF IInv, History, Finished, OwnerOf
    <2> QED BY <1>1, <2>1 DEF Finished
<1>14. Overtaken'
    <2> SUFFICES ASSUME NEW t \in Slugs, NEW rec \in {cre'[t], creFile[t]},
                        rec.st # "none", rec.owner.req \in Requests,
                        \/ rec.st = "conflict"
                        \/ session[t].st # "none" /\ session[t].owner # rec.owner
                 PROVE  Mark(rec.owner, t, rec.epoch) \in created
        BY <1>1 DEF Overtaken
    <2>1. /\ creFile[t].st # "none" /\ creFile[t].owner = rec.owner /\ creFile[t].epoch = rec.epoch
          /\ rec.st = "conflict" => creFile[t].st = "conflict"
        BY <1>5
    <2> QED BY <2>1 DEF IInv, History, Overtaken
<1>15. ReadyIsMade'
    <2> SUFFICES ASSUME NEW t \in Slugs, NEW rec \in {cre'[t], creFile[t]}, rec.st = "ready"
                 PROVE  [owner |-> rec.owner, slug |-> t, epoch |-> rec.epoch] \in created
        BY <1>1 DEF ReadyIsMade
    <2>1. /\ creFile[t].st = "ready" /\ creFile[t].owner = rec.owner
          /\ creFile[t].epoch = rec.epoch
        BY <1>5
    <2>2. [owner |-> creFile[t].owner, slug |-> t, epoch |-> creFile[t].epoch] \in created
        BY <2>1 DEF IInv, History, ReadyIsMade
    <2> QED BY <2>1, <2>2
<1> QED BY <1>4, <1>6, <1>7, <1>8, <1>10, <1>11, <1>12, <1>13, <1>14, <1>15
        DEF IInv, Records, History

LEMMA CrashFound == ASSUME IInv, Crash PROVE \E files : Found(files) /\ Restart(files)
<1>1. PICK lost \in SUBSET {r \in Requests : prepSafe[r] # prepFile[r]} :
          Restart([r \in Requests |-> IF r \in lost THEN prepSafe[r] ELSE prepFile[r]])
    BY DEF Crash
<1>f. PICK files : files = [r \in Requests |-> IF r \in lost THEN prepSafe[r] ELSE prepFile[r]]
    OBVIOUS
<1>2. Shape /\ Stored
    BY DEF IInv, Records
<1>3. ASSUME NEW q \in Requests
      PROVE  /\ files[q] \in {prepSafe[q], prepFile[q]}
             /\ Sound(prepSafe[q]) /\ Sound(prepFile[q])
             /\ Later(prepSafe[q], prepSafe[q]) /\ Later(prepSafe[q], prepFile[q])
             /\ Alike(prep[q], prepFile[q])
    <2>1. Sound(prepFile[q])
        BY <1>2 DEF Stored, Sound, Alike
    <2>2. Later(prepSafe[q], prepSafe[q])
        BY DEF Later
    <2> QED BY <1>2, <1>f, <2>1, <2>2 DEF Stored
<1>4. ASSUME NEW q \in Requests, files[q].slug # NoSlug
      PROVE  files[q].slug = prep[q].slug /\ files[q].epoch = prep[q].epoch
    BY <1>3, <1>4 DEF Later, Alike
<1>5. ASSUME NEW q \in Requests, files[q].st = "terminal"
      PROVE  prep[q].st = "terminal" /\ prep[q].gen = files[q].gen
    BY <1>3, <1>5 DEF Later, Alike
<1>6. files \in [Requests -> PrepRecords]
    BY <1>2, <1>f DEF Shape
<1>7. ASSUME NEW q \in Requests, Unfinished(files[q])
      PROVE  Unfinished(prep[q]) \/ Unfinished(prepSafe[q])
    BY <1>3, <1>7 DEF Unfinished, Alike
<1>8. Found(files)
    BY <1>3, <1>4, <1>5, <1>6, <1>7 DEF Found
<1> QED BY <1>1, <1>f, <1>8

LEMMA StopFound == ASSUME IInv, Stop PROVE \E files : Found(files) /\ Restart(files)
<1>f. PICK files : files = [r \in Requests |-> PausedRecord(prep[r])]
    OBVIOUS
<1>1. unconfirmed = {} /\ Restart(files) /\ Shape /\ Stored
    BY <1>f DEF Stop, IInv, Records
<1>2. ASSUME NEW q \in Requests
      PROVE  /\ files[q] \in PrepRecords /\ Alike(files[q], prep[q])
             /\ Sound(prep[q]) /\ Later(prepSafe[q], prepSafe[q])
             /\ prepSafe[q] = prepFile[q] /\ Alike(prep[q], prepFile[q])
    <2>1. Later(prepSafe[q], prepSafe[q])
        BY DEF Later
    <2> QED BY <1>1, <1>f, <2>1, PausedPrep DEF Shape, Stored
<1>3. ASSUME NEW q \in Requests PROVE Sound(files[q]) /\ Later(prepSafe[q], files[q])
    BY <1>2 DEF Sound, Later, Alike
<1>4. files \in [Requests -> PrepRecords]
    BY <1>2, <1>f
<1>5. ASSUME NEW q \in Requests
      PROVE  Unfinished(files[q]) => Unfinished(prep[q])
    BY <1>2 DEF Unfinished, Alike
<1>6. Found(files)
    BY <1>2, <1>3, <1>4, <1>5 DEF Found, Alike
<1> QED BY <1>1, <1>6

(***************************************************************************)
(* The invariant, and what it says of ready receipts.                      *)
(***************************************************************************)
LEMMA StutterKept == IInv /\ UNCHANGED vars => IInv'
<1> SUFFICES ASSUME IInv, UNCHANGED vars PROVE IInv'
    OBVIOUS
<1>1. Quiet /\ UNCHANGED <<prepStore, workers, gens>>
    BY DEF vars, Quiet, creStore, prepStore
<1>2. GensGrow /\ PrepShape' /\ Stored' /\ Handing' /\ workers' \subseteq WorkerRecords
    BY <1>1, PrepStays, GensStay DEF IInv, Quiet
<1>3. OneInside' /\ Finished'
    BY <1>1, InsideStays DEF Quiet, creStore, prepStore, IInv, History, Finished, OwnerOf, InPlace
<1>4. \A q \in Requests : Later(prepSafe[q], prepSafe'[q])
    BY <1>1 DEF Later, prepStore
<1> QED BY <1>1, <1>2, <1>3, <1>4, QuietKept

LEMMA WorkerKept == ASSUME IInv, NEW w \in workers, Worker(w) PROVE IInv'
BY WorkerClaimKept, WorkerNameKept, WorkerReserveKept, WorkerBindKept, WorkerInstallKept,
   WorkerHandoffKept, WorkerErrorKept, WorkerFailKept DEF Worker

LEMMA CreatorStepKept == ASSUME IInv, NEW c \in creators, CreatorStep(c) PROVE IInv'
BY CreatorInitKept, CommandStartKept, CommandFinishKept, CreatorProveKept,
   CreatorOutcomeKept, CreatorCompactKept DEF CreatorStep

LEMMA IInvNext == IInv /\ [Next]_vars => IInv'
<1> SUFFICES ASSUME IInv, [Next]_vars PROVE IInv'
    OBVIOUS
<1>1. ASSUME NEW r \in Requests,
             \/ Confirm(r) \/ Post(r) \/ FinishAccepting(r) \/ Launch(r) \/ Retry(r)
             \/ ReconcileAccepting(r) \/ ReconcileClaim(r) \/ ReconcileHandoff(r)
             \/ ReconcileCompact(r)
             \/ \E base \in Bases : SetName(r, base)
      PROVE  IInv'
    BY <1>1, ConfirmKept, PostKept, FinishAcceptingKept, LaunchKept, RetryKept,
       ReconcileAcceptingKept, ReconcileClaimKept, ReconcileHandoffKept,
       ReconcileCompactKept, SetNameKept
<1>2. ASSUME NEW s \in Slugs,
             RetireAbsent(s) \/ StatusRead(s) \/ RetryCreation(s) \/ CliStart(s) \/ CliRemove(s)
      PROVE  IInv'
    BY <1>2, RetireAbsentKept, StatusReadKept, RetryCreationKept, CliStartKept, CliRemoveKept
<1>3. CASE UNCHANGED vars
    BY <1>3, StutterKept
<1> QED BY <1>1, <1>2, <1>3, WorkerKept, CreatorStepKept, AcceptKept, AgeFileKept,
           CollectUploadsKept, CrashFound, StopFound, RestartKept DEF Next

LEMMA Invariant == Spec => []IInv
BY IInvInit, IInvNext, PTL DEF Spec

\* A receipt says ready only of the session that was made for it: what
\* proveCreation takes for proof before updateCreation saves "ready" is one.
THEOREM ReadyReceiptsAreMade == Spec => []ReadyIsMade
<1>1. IInv => ReadyIsMade
    BY DEF IInv, History
<1> QED BY Invariant, <1>1, PTL

(***************************************************************************)
(* The refinement: what the promise's variables stand for.                 *)
(***************************************************************************)
HeldNow == {r \in Requests : Unfinished(prep[r]) \/ Unfinished(prepSafe[r])}
GoneNow == {r \in Requests : MadeFor(r) > 0 /\ Removed(r)}
IsMade(r) == \E m \in created : m.owner.req = r

\* A request got no session or one, under its name.
LEMMA MadeOf ==
    ASSUME IInv, NEW r \in Requests
    PROVE  /\ ~IsMade(r) => MadeFor(r) = 0
           /\ IsMade(r) => /\ MadeFor(r) = 1 /\ prep[r].slug # NoSlug
                           /\ Mark(OwnerOf(r), prep[r].slug, prep[r].epoch) \in created
<1> DEFINE S == {m \in created : m.owner.req = r}
           k == Mark(OwnerOf(r), prep[r].slug, prep[r].epoch)
<1>1. CASE ~IsMade(r)
    <2>1. S = {}
        BY <1>1 DEF IsMade
    <2> QED BY <1>1, <2>1, FS_EmptySet DEF MadeFor
<1>2. CASE IsMade(r)
    <2>1. ASSUME NEW m \in S PROVE m = k /\ prep[r].slug # NoSlug
        <3>1. /\ m \in Marks /\ m \in MarkRecords /\ m.owner.req = r
            BY MadeMark, MarksTyped DEF IInv
        <3>2. /\ m.owner = OwnerOf(r) /\ m.slug = prep[r].slug /\ m.epoch = prep[r].epoch
              /\ m.slug \in Slugs
            BY <3>1, MarkOfRequest
        <3> QED BY <3>1, <3>2, UploadCatalogAssumption DEF Mark, MarkRecords
    <2>2. PICK m \in created : m.owner.req = r
        BY <1>2 DEF IsMade
    <2>3. S = {k} /\ k \in created /\ prep[r].slug # NoSlug
        BY <2>1, <2>2
    <2>4. MadeFor(r) = 1
        BY <2>3, FS_Singleton DEF MadeFor
    <2> QED BY <1>2, <2>3, <2>4
<1> QED BY <1>1, <1>2

LEMMA MadeUnder ==
    ASSUME IInv, NEW r \in Requests
    PROVE  /\ MadeFor(r) \in {0, 1} /\ (MadeFor(r) = 1 <=> IsMade(r))
           /\ r \in GoneNow <=> IsMade(r) /\ hist[prep[r].slug] # prep[r].epoch
BY MadeOf DEF GoneNow, Removed

LEMMA HeldWhile ==
    ASSUME IInv, NEW r \in Requests
    PROVE  /\ prep[r].st \notin {"none", "terminal"} => r \in HeldNow
           /\ r \notin unconfirmed => (r \in HeldNow <=> prep[r].st \notin {"none", "terminal"})
           /\ prep[r].st = "none" => r \notin HeldNow /\ prep[r].slug = NoSlug
           /\ r \in HeldNow => prep[r].st # "none"
<1>1. Stored
    BY DEF IInv, Records
<1> QED BY <1>1 DEF Stored, Later, Alike, Sound, HeldNow, Unfinished

\* Nothing is made or removed, and the names stay.
LEMMA MadeStays ==
    ASSUME IInv, UNCHANGED <<created, hist>>,
           \A q \in Requests : /\ prep'[q].slug = prep[q].slug /\ prep'[q].epoch = prep[q].epoch
                               \/ ~IsMade(q)
    PROVE  \A q \in Requests : MadeFor(q)' = MadeFor(q) /\ (q \in GoneNow' <=> q \in GoneNow)
<1>1. ASSUME NEW q \in Requests PROVE MadeFor(q)' = MadeFor(q)
    BY DEF MadeFor
<1>2. ASSUME NEW q \in Requests PROVE q \in GoneNow' <=> q \in GoneNow
    <2>1. CASE ~IsMade(q)
        BY <1>1, <2>1, MadeOf DEF GoneNow
    <2>2. CASE IsMade(q)
        BY <1>1, <2>2 DEF GoneNow, Removed
    <2> QED BY <2>1, <2>2
<1> QED BY <1>1, <1>2

\* What each step of the portal does for the promise.
Kept(q) == prep'[q].slug = prep[q].slug /\ prep'[q].epoch = prep[q].epoch
Promising == [Promised!PromiseNext]_(Promised!promise)

LEMMA StutterPromise ==
    ASSUME IInv, UNCHANGED <<created, hist>>, \A q \in Requests : Kept(q),
           \A q \in Requests : q \in HeldNow' <=> q \in HeldNow
    PROVE  Promising
<1>1. \A q \in Requests : MadeFor(q)' = MadeFor(q) /\ (q \in GoneNow' <=> q \in GoneNow)
    BY MadeStays DEF Kept
<1>2. HeldNow' = HeldNow /\ GoneNow' = GoneNow
    BY <1>1 DEF HeldNow, GoneNow
<1>3. [q \in Requests |-> prep'[q].slug] = [q \in Requests |-> prep[q].slug]
    BY DEF Kept
<1> QED BY <1>1, <1>2, <1>3 DEF Promising, Promised!promise, HeldNow, GoneNow

\* A step that leaves the records, what was made and what was removed.
LEMMA OtherPromise ==
    ASSUME IInv, UNCHANGED <<prepStore, created, hist>>
    PROVE  Promising
<1>1. \A q \in Requests : Kept(q)
    BY DEF Kept, prepStore
<1>2. HeldNow' = HeldNow
    BY DEF HeldNow, Unfinished, prepStore
<1> QED BY <1>1, <1>2, StutterPromise

\* What saving a record does to the requests that are not settled.
LEMMA HeldRecorded ==
    ASSUME IInv, NEW r \in Requests, NEW rec, Recorded(r, rec) \/ UNCHANGED prepStore
    PROVE  /\ \A q \in Requests \ {r} : Kept(q) /\ (q \in HeldNow' <=> q \in HeldNow)
           /\ UNCHANGED prepStore \/ prep'[r] = rec
           /\ Saved(r, rec) => prepSafe'[r] = rec
           /\ ~Saved(r, rec) => prepSafe' = prepSafe
<1>1. Shape
    BY DEF IInv
<1>2. \A q \in Requests \ {r} : prep'[q] = prep[q] /\ prepSafe'[q] = prepSafe[q]
    BY <1>1 DEF Recorded, NotSaved, Saved, Published, Unsaved, prepStore, Shape
<1>3. /\ UNCHANGED prepStore \/ prep'[r] = rec
      /\ Saved(r, rec) => prepSafe'[r] = rec
      /\ ~Saved(r, rec) => prepSafe' = prepSafe
    BY <1>1 DEF Recorded, NotSaved, Saved, Published, Unsaved, prepStore, Shape
<1> QED BY <1>2, <1>3 DEF Kept, HeldNow

\* An unfinished request stays one under its name.
LEMMA OpenPromise ==
    ASSUME IInv, UNCHANGED <<created, hist>>, NEW r \in Requests,
           NEW rec, Recorded(r, rec) \/ UNCHANGED prepStore,
           prep[r].st \notin {"none", "terminal"}, rec.st \notin {"none", "terminal"},
           rec.slug = prep[r].slug, rec.epoch = prep[r].epoch
    PROVE  Promising
<1>1. /\ \A q \in Requests \ {r} : Kept(q) /\ (q \in HeldNow' <=> q \in HeldNow)
      /\ UNCHANGED prepStore \/ prep'[r] = rec
    BY HeldRecorded
<1>2. Kept(r) /\ r \in HeldNow /\ r \in HeldNow'
    BY <1>1 DEF Kept, HeldNow, Unfinished, prepStore
<1> QED BY <1>1, <1>2, StutterPromise

\* A request is settled, and the promise knows when no crash can take it back.
LEMMA SettlePromise ==
    ASSUME IInv, UNCHANGED <<created, hist>>, NEW r \in Requests, NEW rec, Recorded(r, rec),
           prep[r].st \notin {"none", "terminal"}, rec.st = "terminal",
           rec.slug = prep[r].slug, rec.epoch = prep[r].epoch, prep[r].slug # NoSlug
    PROVE  Promising
<1>1. /\ \A q \in Requests \ {r} : Kept(q) /\ (q \in HeldNow' <=> q \in HeldNow)
      /\ UNCHANGED prepStore \/ prep'[r] = rec
      /\ Saved(r, rec) => prepSafe'[r] = rec
      /\ ~Saved(r, rec) => prepSafe' = prepSafe
    BY HeldRecorded
<1>2. Kept(r) /\ r \in HeldNow
    BY <1>1 DEF Kept, prepStore, HeldNow, Unfinished
<1>3. CASE r \in HeldNow'
    BY <1>1, <1>2, <1>3, StutterPromise
<1>4. CASE r \notin HeldNow'
    <2>1. /\ \A q \in Requests : Kept(q)
          /\ \A q \in Requests : MadeFor(q)' = MadeFor(q) /\ (q \in GoneNow' <=> q \in GoneNow)
        BY <1>1, <1>2, MadeStays DEF Kept
    <2>2. HeldNow' = HeldNow \ {r} /\ GoneNow' = GoneNow
        BY <1>1, <1>4, <2>1 DEF HeldNow, GoneNow
    <2>3. [q \in Requests |-> prep'[q].slug] = [q \in Requests |-> prep[q].slug]
        BY <2>1 DEF Kept
    <2>4. Promised!Settle(r)
        BY <1>2, <2>1, <2>2, <2>3 DEF Promised!Settle, HeldNow, GoneNow
    <2> QED BY <2>4 DEF Promising, Promised!PromiseNext
<1> QED BY <1>3, <1>4

LEMMA PostPromise == ASSUME IInv, NEW r \in Requests, Post(r) PROVE Promising
<1>r. PICK rec : rec = [NoPrep EXCEPT !.st = "accepting", !.gen = gens[r] + 1, !.attempt = 1]
    OBVIOUS
<1>1. /\ Saved(r, rec) \/ Published(r, rec) \/ Unsaved
      /\ UNCHANGED <<created, hist>> /\ prep[r].st = "none"
    BY <1>r DEF Post, world
<1>2. rec.st = "accepting" /\ rec.slug = NoSlug
    BY <1>r DEF NoPrep
<1>3. CASE Unsaved
    BY <1>1, <1>3, OtherPromise DEF Unsaved
<1>4. CASE Saved(r, rec) \/ Published(r, rec)
    <2>1. prep \in [Requests -> PrepRecords] /\ r \notin HeldNow /\ prep[r].slug = NoSlug
        BY <1>1, HeldWhile DEF IInv, Shape
    <2>2. Recorded(r, rec) /\ prep'[r] = rec
        BY <1>4, <2>1, Recording
    <2>3. \A q \in Requests \ {r} : Kept(q) /\ (q \in HeldNow' <=> q \in HeldNow)
        BY <2>2, HeldRecorded
    <2>4. ~IsMade(r) /\ r \in HeldNow'
        BY <1>2, <2>1, <2>2, MadeOf DEF HeldNow, Unfinished
    <2>5. \A q \in Requests : MadeFor(q)' = MadeFor(q) /\ (q \in GoneNow' <=> q \in GoneNow)
        BY <1>1, <2>3, <2>4, MadeStays DEF Kept
    <2>6. HeldNow' = HeldNow \cup {r} /\ GoneNow' = GoneNow
        BY <2>3, <2>4, <2>5 DEF HeldNow, GoneNow
    <2>7. [q \in Requests |-> prep'[q].slug] = [q \in Requests |-> prep[q].slug]
        BY <1>2, <2>1, <2>2, <2>3 DEF Kept
    <2>8. Promised!Hold(r)
        BY <2>1, <2>5, <2>6, <2>7 DEF Promised!Hold, HeldNow, GoneNow
    <2> QED BY <2>8 DEF Promising, Promised!PromiseNext
<1> QED BY <1>1, <1>3, <1>4

\* A name that is free is held by no other request, unless its session is gone.
LEMMA FreeName ==
    ASSUME IInv, NEW r \in Requests, NEW s \in Slugs, ~Occupied(s, OwnerOf(r)),
           NEW q \in HeldNow \ {r}, prep[q].slug = s
    PROVE  q \in GoneNow
<1>1. q \in Requests /\ OwnerOf(q) # OwnerOf(r) /\ s # NoSlug
    BY UploadCatalogAssumption DEF HeldNow, OwnerOf
<1>2. prep[q].st = "terminal"
    <2>1. ~Unfinished(prep[q]) /\ prep[q].st # "none"
        BY <1>1, HeldWhile DEF Occupied
    <2> QED BY <2>1 DEF Unfinished
<1>3. q \in unconfirmed
    BY <1>1, <1>2, HeldWhile
<1>4. ~InPlace(cre[s], OwnerOf(q))
    BY <1>1 DEF Occupied, InPlace
<1>5. /\ Mark(OwnerOf(q), prep[q].slug, prep[q].epoch) \in created
      /\ hist[s] # prep[q].epoch
    BY <1>1, <1>2, <1>3, <1>4 DEF IInv, History, Finished
<1>6. IsMade(q)
    BY <1>5 DEF IsMade, Mark, OwnerOf
<1> QED BY <1>1, <1>5, <1>6, MadeUnder

LEMMA ReservePromise == ASSUME IInv, NEW w \in workers, WorkerReserve(w) PROVE Promising
<1>r. PICK r : r = w.req
    OBVIOUS
<1>1. /\ r \in Requests /\ prep[r] \in PrepRecords /\ prep[r].base \in Bases /\ Shape
      /\ prep[r].st \notin {"none", "terminal"} /\ r \notin unconfirmed
      /\ UNCHANGED <<created, hist>>
    BY <1>r, WorkerGrounds DEF WorkerReserve, Current, HandsOver, world
<1>2. CASE UNCHANGED prepStore
    BY <1>1, <1>2, OtherPromise
<1>3. ASSUME NEW s \in Slugs, ~Occupied(s, OwnerOf(r)), prep[r].slug = NoSlug,
             NEW rec, rec = [prep[r] EXCEPT !.slug = s, !.epoch = hist[s]],
             Recorded(r, rec), ~UNCHANGED prepStore
      PROVE  Promising
    <2>1. rec.st = prep[r].st /\ rec.slug = s
        BY <1>1, <1>3 DEF PrepRecords
    <2>2. /\ \A q \in Requests \ {r} : Kept(q) /\ (q \in HeldNow' <=> q \in HeldNow)
          /\ prep'[r] = rec
        BY <1>1, <1>3, HeldRecorded
    <2>3. r \in HeldNow /\ r \in HeldNow' /\ ~IsMade(r)
        BY <1>1, <1>3, <2>1, <2>2, MadeOf DEF HeldNow, Unfinished
    <2>4. \A q \in Requests : MadeFor(q)' = MadeFor(q) /\ (q \in GoneNow' <=> q \in GoneNow)
        BY <1>1, <2>2, <2>3, MadeStays DEF Kept
    <2>5. HeldNow' = HeldNow /\ GoneNow' = GoneNow
        BY <2>2, <2>3, <2>4 DEF HeldNow, GoneNow
    <2>6. \A q \in HeldNow \ {r} : prep[q].slug = s => q \in GoneNow
        BY <1>1, <1>3, FreeName
    <2>7. [q \in Requests |-> prep'[q].slug] =
              [[q \in Requests |-> prep[q].slug] EXCEPT ![r] = s]
        BY <1>1, <2>1, <2>2 DEF Kept
    <2>8. Promised!Reserve(r, s)
        <3>1. \A q \in HeldNow : q \in Requests
            BY DEF HeldNow
        <3> QED BY <1>1, <1>3, <2>3, <2>4, <2>5, <2>6, <2>7, <3>1
                DEF Promised!Reserve, HeldNow, GoneNow
    <2> QED BY <1>1, <1>3, <2>8 DEF Promising, Promised!PromiseNext
<1>4. ASSUME NEW s \in Choices(r)
      PROVE  s \in Slugs /\ ~Occupied(s, OwnerOf(r))
    <2>1. s \in Slugs
        BY <1>1, ChoicesAreNames
    <2>2. ~Occupied(s, OwnerOf(r))
        BY DEF Choices
    <2> QED BY <2>1, <2>2
<1>5. \/ UNCHANGED prepStore
      \/ /\ prep[r].slug = NoSlug
         /\ \E s \in Choices(r) : Recorded(r, [prep[r] EXCEPT !.slug = s, !.epoch = hist[s]])
    BY <1>r DEF WorkerReserve, Recorded
<1> QED BY <1>2, <1>3, <1>4, <1>5

LEMMA FinishPromise == ASSUME IInv, NEW c \in creators, CommandFinish(c) PROVE Promising
<1>1. /\ UNCHANGED <<prepStore, hist>> /\ c \in CreatorRecords /\ c.slug \in Slugs
      /\ c.pc = "started" /\ Working(c) /\ hist[c.slug] = c.epoch
      /\ Mark(c.owner, c.slug, c.epoch) \in Marks
    BY CreatorGrounds DEF CommandFinish, Working
<1>k. PICK k : k = Mark(c.owner, c.slug, c.epoch)
    OBVIOUS
<1>2. created' \in {created, created \cup {k}} /\ k.owner = c.owner
    BY <1>1, <1>k DEF CommandFinish, Mark
<1>3. \A q \in Requests : Kept(q)
    BY <1>1 DEF Kept, prepStore
<1>4. HeldNow' = HeldNow
    BY <1>1 DEF HeldNow, Unfinished, prepStore
<1>5. CASE created' = created
    BY <1>1, <1>5, OtherPromise
<1>6. CASE created' = created \cup {k} /\ k \notin created /\ c.owner.req \notin Requests
    <2>1. \A q \in Requests :
             {m \in created' : m.owner.req = q} = {m \in created : m.owner.req = q}
        BY <1>2, <1>6
    <2>2. \A q \in Requests : MadeFor(q)' = MadeFor(q)
        BY <2>1 DEF MadeFor
    <2>3. GoneNow' = GoneNow
        BY <1>1, <2>2 DEF GoneNow, Removed, prepStore
    <2>4. [q \in Requests |-> prep'[q].slug] = [q \in Requests |-> prep[q].slug]
        BY <1>3 DEF Kept
    <2> QED BY <1>4, <2>2, <2>3, <2>4 DEF Promising, Promised!promise, HeldNow, GoneNow
<1>7. ASSUME created' = created \cup {k}, k \notin created, NEW r \in Requests, c.owner.req = r
      PROVE  Promising
    <2>1. /\ c.owner = OwnerOf(r) /\ c.slug = prep[r].slug /\ c.epoch = prep[r].epoch
          /\ prep[r].st # "none"
        <3>1. k \in Marks /\ k.owner.req = r /\ k.slug = c.slug /\ k.epoch = c.epoch
            BY <1>1, <1>2, <1>k, <1>7 DEF Mark
        <3> QED BY <1>2, <3>1, MarkOfRequest
    <2>2. prep[r].st # "terminal"
        BY <1>1, <1>7 DEF IInv, History, Finished
    <2>3. r \in HeldNow /\ prep[r].slug # NoSlug
        BY <1>1, <2>1, <2>2, HeldWhile, UploadCatalogAssumption
    <2>4. ~IsMade(r)
        BY <1>k, <1>7, <2>1, MadeOf
    <2>5. MadeFor(r) = 0
        BY <2>4, MadeOf
    <2>6. MadeFor(r)' = 1
        <3>1. {m \in created' : m.owner.req = r} = {k}
            BY <1>2, <1>7, <2>4 DEF IsMade
        <3> QED BY <3>1, FS_Singleton DEF MadeFor
    <2>7. \A q \in Requests \ {r} : MadeFor(q)' = MadeFor(q)
        <3>1. \A q \in Requests \ {r} :
                 {m \in created' : m.owner.req = q} = {m \in created : m.owner.req = q}
            BY <1>2, <1>7
        <3> QED BY <3>1 DEF MadeFor
    <2>8. GoneNow' = GoneNow
        <3>1. ~Removed(r)' /\ ~Removed(r)
            BY <1>1, <2>1 DEF Removed, prepStore
        <3>2. \A q \in Requests : Removed(q)' <=> Removed(q)
            BY <1>1 DEF Removed, prepStore
        <3> QED BY <2>7, <3>1, <3>2 DEF GoneNow
    <2>9. [q \in Requests |-> prep'[q].slug] = [q \in Requests |-> prep[q].slug]
        BY <1>3 DEF Kept
    <2>10. [q \in Requests |-> MadeFor(q)'] = [[q \in Requests |-> MadeFor(q)] EXCEPT ![r] = 1]
        BY <2>6, <2>7
    <2>11. Promised!Make(r)
        BY <1>4, <2>3, <2>5, <2>8, <2>9, <2>10 DEF Promised!Make, HeldNow, GoneNow
    <2> QED BY <1>7, <2>11 DEF Promising, Promised!PromiseNext
<1>8. CASE k \in created
    BY <1>2, <1>5, <1>8
<1> QED BY <1>2, <1>5, <1>6, <1>7, <1>8

LEMMA RemovePromise == ASSUME IInv, NEW s \in Slugs, CliRemove(s) PROVE Promising
<1>1. /\ UNCHANGED <<prepStore, created>> /\ hist' = [hist EXCEPT ![s] = @ + 1] /\ Shape
      /\ hist[s] \in Nat
    BY DEF CliRemove, IInv, Shape
<1>2. \A q \in Requests : Kept(q)
    BY <1>1 DEF Kept, prepStore
<1>3. HeldNow' = HeldNow
    BY <1>1 DEF HeldNow, Unfinished, prepStore
<1>4. \A q \in Requests : MadeFor(q)' = MadeFor(q)
    BY <1>1 DEF MadeFor
<1>5. [q \in Requests |-> prep'[q].slug] = [q \in Requests |-> prep[q].slug]
    BY <1>2 DEF Kept
<1>6. ASSUME NEW q \in Requests, q \in GoneNow PROVE q \in GoneNow'
    <2>1. IsMade(q) /\ prep[q].slug # NoSlug /\ prep[q].epoch # hist[prep[q].slug]
        BY <1>6, MadeUnder, MadeOf
    <2>2. prep[q].slug \in Slugs /\ prep[q].epoch \in Nat /\ prep[q].epoch <= hist[prep[q].slug]
        BY <1>1, <2>1, Grounds DEF PrepRecords
    <2>3. hist'[prep[q].slug] # prep[q].epoch
        <3>1. hist[prep[q].slug] \in Nat
            BY <1>1, <2>2 DEF Shape
        <3> QED BY <1>1, <2>1, <2>2, <3>1 DEF Shape
    <2> QED BY <1>1, <1>4, <1>6, <2>3 DEF GoneNow, Removed, prepStore
<1>7. ASSUME NEW q \in Requests, q \in GoneNow', q \notin GoneNow
      PROVE  IsMade(q) /\ session[s].owner = OwnerOf(q)
    <2>1. prep[q].slug # NoSlug /\ hist'[prep[q].slug] # prep[q].epoch /\ MadeFor(q) > 0
        BY <1>1, <1>4, <1>7 DEF GoneNow, Removed, prepStore
    <2>2. IsMade(q)
        BY <2>1, MadeOf
    <2>3. hist[prep[q].slug] = prep[q].epoch
        BY <1>7, <2>2, MadeUnder
    <2>4. prep[q].slug = s
        BY <1>1, <2>1, <2>3 DEF Shape
    <2>5. Mark(OwnerOf(q), s, hist[s]) \in created
        BY <2>2, <2>3, <2>4, MadeOf
    <2>6. session[s] = [st |-> "ready", owner |-> OwnerOf(q)]
        BY <2>5, MarkFields DEF IInv, History, Lived
    <2> QED BY <2>2, <2>6
<1>8. CASE GoneNow' = GoneNow
    BY <1>3, <1>4, <1>5, <1>8 DEF Promising, Promised!promise, HeldNow, GoneNow
<1>9. CASE GoneNow' # GoneNow
    <2>1. PICK r \in Requests : r \in GoneNow' /\ r \notin GoneNow
        BY <1>6, <1>9 DEF GoneNow
    <2>2. MadeFor(r) = 1
        BY <1>7, <2>1, MadeOf
    <2>3. ASSUME NEW q \in Requests, q \in GoneNow', q \notin GoneNow PROVE q = r
        <3>1. OwnerOf(q) = OwnerOf(r)
            BY <1>7, <2>1, <2>3
        <3> QED BY <3>1 DEF OwnerOf
    <2>4. GoneNow' = GoneNow \cup {r}
        BY <1>6, <2>1, <2>3 DEF GoneNow
    <2>5. Promised!Remove(r)
        BY <1>3, <1>4, <1>5, <2>2, <2>4 DEF Promised!Remove, HeldNow, GoneNow
    <2> QED BY <2>5 DEF Promising, Promised!PromiseNext
<1> QED BY <1>8, <1>9

LEMMA ConfirmPromise == ASSUME IInv, NEW r \in Requests, Confirm(r) PROVE Promising
<1>1. /\ UNCHANGED <<prep, created, hist>> /\ Shape /\ Stored
      /\ prepSafe' = [prepSafe EXCEPT ![r] = prepFile[r]]
    BY DEF Confirm, world, IInv, Records
<1>2. \A q \in Requests : Kept(q)
    BY <1>1 DEF Kept
<1>3. /\ \A q \in Requests \ {r} : q \in HeldNow' <=> q \in HeldNow
      /\ r \in HeldNow' <=> Unfinished(prep[r]) \/ Unfinished(prepFile[r])
    BY <1>1 DEF HeldNow, Unfinished, Shape
<1>4. r \in HeldNow' <=> Unfinished(prep[r])
    BY <1>1, <1>3 DEF Unfinished, Stored, Alike
<1>5. CASE r \in HeldNow' \/ r \notin HeldNow
    <2>1. r \in HeldNow' <=> r \in HeldNow
        BY <1>4, <1>5 DEF HeldNow
    <2> QED BY <1>1, <1>2, <1>3, <2>1, StutterPromise
<1>6. CASE r \notin HeldNow' /\ r \in HeldNow
    <2>1. prep[r].st = "terminal" /\ prep[r].slug # NoSlug
        <3>1. prep[r].st = "terminal"
            BY <1>4, <1>6, HeldWhile DEF Unfinished
        <3> QED BY <3>1, Grounds DEF Sound
    <2>2. \A q \in Requests : MadeFor(q)' = MadeFor(q) /\ (q \in GoneNow' <=> q \in GoneNow)
        BY <1>1, <1>2, MadeStays DEF Kept
    <2>3. HeldNow' = HeldNow \ {r} /\ GoneNow' = GoneNow
        BY <1>3, <1>6, <2>2 DEF HeldNow, GoneNow
    <2>4. [q \in Requests |-> prep'[q].slug] = [q \in Requests |-> prep[q].slug]
        BY <1>2 DEF Kept
    <2>5. Promised!Settle(r)
        BY <1>6, <2>1, <2>2, <2>3, <2>4 DEF Promised!Settle, HeldNow, GoneNow
    <2> QED BY <2>5 DEF Promising, Promised!PromiseNext
<1> QED BY <1>5, <1>6

\* A restart loses requests of which nothing was made, and settles others.
LEMMA RestartPromise ==
    ASSUME IInv, NEW files, Found(files), Restart(files)
    PROVE  Promising
<1>1. /\ prepSafe' = files /\ prep' = [r \in Requests |-> PausedRecord(files[r])]
      /\ UNCHANGED <<created, hist>> /\ Shape /\ Stored
    BY DEF Restart, world, IInv, Records
<1>2. \A q \in Requests : /\ Alike(prep'[q], files[q]) /\ prep'[q].slug = files[q].slug
                          /\ files[q].slug # NoSlug => Kept(q)
    BY <1>1, PausedPrep DEF Found, Alike, Kept
<1>3. \A q \in Requests : q \in HeldNow' <=> Unfinished(files[q])
    BY <1>1, <1>2 DEF HeldNow, Unfinished, Alike
<1>4. ASSUME NEW q \in Requests, IsMade(q)
      PROVE  files[q].slug # NoSlug
    <2>1. Mark(OwnerOf(q), prep[q].slug, prep[q].epoch) \in Marks /\ prep[q].slug # NoSlug
        BY <1>4, MadeOf, MadeMark
    <2>2. prepSafe[q].slug = prep[q].slug
        BY <2>1 DEF IInv, Identities, MarksAnchored, Anchored, Mark, OwnerOf
    <2> QED BY <2>1, <2>2 DEF Found, Later
<1>5. \A q \in Requests : MadeFor(q)' = MadeFor(q) /\ (q \in GoneNow' <=> q \in GoneNow)
    BY <1>1, <1>2, <1>4, MadeStays DEF Kept
<1>6. GoneNow' = GoneNow /\ HeldNow' \subseteq HeldNow
    BY <1>3, <1>5 DEF GoneNow, HeldNow, Found
<1> DEFINE rs == {q \in Requests : files[q].slug = NoSlug}
<1>7. \A q \in rs : MadeFor(q) = 0
    BY <1>4, MadeOf
<1>8. [q \in Requests |-> prep'[q].slug] =
          [q \in Requests |-> IF q \in rs THEN NoSlug
                              ELSE [p \in Requests |-> prep[p].slug][q]]
    BY <1>2 DEF Kept
<1>9. \A q \in HeldNow \ HeldNow' : q \in rs \/ prep[q].slug # NoSlug
    BY <1>2 DEF Kept, HeldNow
<1>10. Promised!Lose(rs)
    <2>1. \A q \in HeldNow : q \in Requests
        BY DEF HeldNow
    <2> HIDE DEF rs
    <2>2. rs \subseteq Requests
        BY DEF rs
    <2> QED BY <1>5, <1>6, <1>7, <1>8, <1>9, <2>1, <2>2 DEF Promised!Lose, HeldNow, GoneNow
<1>11. rs \in SUBSET Requests
    OBVIOUS
<1> QED BY <1>10, <1>11 DEF Promising, Promised!PromiseNext

LEMMA CompactPromise == ASSUME IInv, NEW c \in creators, CreatorCompact(c) PROVE Promising
<1>1. UNCHANGED <<created, hist>> /\ c.slug \in Slugs
    BY CreatorGrounds DEF CreatorCompact, world
<1>2. ASSUME NEW r \in Related(c.slug, cre[c.slug]), Recorded(r, Mapping(r, "ready"))
      PROVE  Promising
    <2>1. /\ r \in Requests /\ prep[r].st \notin {"none", "terminal"}
          /\ prep[r].slug = c.slug /\ prep[r].slug # NoSlug
        BY <1>1, RelatedFields, UploadCatalogAssumption
    <2> QED BY <1>1, <1>2, <2>1, MappingFollows, SettlePromise
<1>3. \/ UNCHANGED prepStore
      \/ \E r \in Related(c.slug, cre[c.slug]) : Recorded(r, Mapping(r, "ready"))
    BY DEF CreatorCompact, Recorded
<1> QED BY <1>1, <1>2, <1>3, OtherPromise

LEMMA RetirePromise == ASSUME IInv, NEW s \in Slugs, RetireAbsent(s) PROVE Promising
<1>1. UNCHANGED <<created, hist>>
    BY DEF RetireAbsent
<1>2. ASSUME NEW r \in Related(s, cre[s]), Saved(r, Mapping(r, "conflict"))
      PROVE  Promising
    <2>1. /\ r \in Requests /\ prep[r].st \notin {"none", "terminal"}
          /\ prep[r].slug = s /\ prep[r].slug # NoSlug
        BY RelatedFields, UploadCatalogAssumption
    <2> QED BY <1>1, <1>2, <2>1, MappingFollows, SettlePromise DEF Recorded
<1>3. \/ UNCHANGED prepStore
      \/ \E r \in Related(s, cre[s]) : Saved(r, Mapping(r, "conflict"))
    BY DEF RetireAbsent
<1> QED BY <1>1, <1>2, <1>3, OtherPromise

LEMMA ReconcilePromise == ASSUME IInv, NEW r \in Requests, ReconcileCompact(r) PROVE Promising
<1>1. /\ UNCHANGED <<created, hist>> /\ prep[r].st = "handed_off"
      /\ cre[prep[r].slug].st \in {"ready", "conflict"}
      /\ Recorded(r, Mapping(r, cre[prep[r].slug].st))
    BY DEF ReconcileCompact, world, Recorded
<1>2. prep[r].slug # NoSlug
    BY <1>1, Grounds DEF Sound
<1> QED BY <1>1, <1>2, MappingFollows, SettlePromise

\* The steps that work on an unfinished request.
LEMMA WorkPromise ==
    ASSUME IInv, UNCHANGED <<created, hist>>, NEW r \in Requests,
           prep[r].st \notin {"none", "terminal"},
           NEW rec, rec.st \notin {"none", "terminal"},
           rec.slug = prep[r].slug, rec.epoch = prep[r].epoch,
           \/ Saved(r, rec) \/ Published(r, rec) \/ Unsaved \/ NotSaved(r, rec)
           \/ UNCHANGED prepStore
    PROVE  Promising
BY OpenPromise DEF Recorded, NotSaved, Unsaved

LEMMA AttemptPromise ==
    ASSUME IInv, NEW r \in Requests,
           FinishAccepting(r) \/ Retry(r) \/ \E base \in Bases : SetName(r, base)
    PROVE  Promising
<1>1. /\ UNCHANGED <<created, hist>> /\ prep[r].st \notin {"none", "terminal"}
      /\ prep[r] \in PrepRecords
    BY Grounds DEF FinishAccepting, Retry, SetName, world
<1>2. ASSUME FinishAccepting(r) PROVE Promising
    <2> DEFINE rec == [prep[r] EXCEPT !.st = "running", !.goal = TRUE]
    <2>1. /\ rec.st \notin {"none", "terminal"} /\ rec.slug = prep[r].slug
          /\ rec.epoch = prep[r].epoch
        BY <1>1 DEF PrepRecords
    <2>2. \/ Saved(r, rec) \/ Published(r, rec) \/ Unsaved \/ NotSaved(r, rec)
          \/ UNCHANGED prepStore
        BY <1>2 DEF FinishAccepting, prepStore
    <2> HIDE DEF rec
    <2> QED BY <1>1, <2>1, <2>2, WorkPromise
<1>3. ASSUME Retry(r) PROVE Promising
    <2> DEFINE rec == [prep[r] EXCEPT !.st = "running", !.attempt = @ + 1]
    <2>1. /\ rec.st \notin {"none", "terminal"} /\ rec.slug = prep[r].slug
          /\ rec.epoch = prep[r].epoch
        BY <1>1 DEF PrepRecords
    <2>2. \/ Saved(r, rec) \/ Published(r, rec) \/ Unsaved \/ NotSaved(r, rec)
          \/ UNCHANGED prepStore
        BY <1>3 DEF Retry, prepStore
    <2> HIDE DEF rec
    <2> QED BY <1>1, <2>1, <2>2, WorkPromise
<1>4. ASSUME NEW base \in Bases, SetName(r, base) PROVE Promising
    <2> DEFINE rec == [prep[r] EXCEPT !.base = base, !.custom = TRUE, !.st = "running",
                                      !.attempt = @ + 1]
    <2>1. /\ rec.st \notin {"none", "terminal"} /\ rec.slug = prep[r].slug
          /\ rec.epoch = prep[r].epoch
        BY <1>1 DEF PrepRecords
    <2>2. \/ Saved(r, rec) \/ Published(r, rec) \/ Unsaved \/ NotSaved(r, rec)
          \/ UNCHANGED prepStore
        BY <1>4 DEF SetName, prepStore
    <2> HIDE DEF rec
    <2> QED BY <1>1, <2>1, <2>2, WorkPromise
<1> QED BY <1>2, <1>3, <1>4

LEMMA ReconcileOpenPromise ==
    ASSUME IInv, NEW r \in Requests,
           ReconcileAccepting(r) \/ ReconcileClaim(r) \/ ReconcileHandoff(r)
    PROVE  Promising
<1>1. /\ UNCHANGED <<created, hist>> /\ prep[r].st # "terminal" /\ prep[r] \in PrepRecords
      /\ prep[r].st # "none"
    BY Grounds DEF ReconcileAccepting, ReconcileClaim, ReconcileHandoff, world, Unfinished
<1>2. ASSUME ReconcileAccepting(r) PROVE Promising
    <2> DEFINE held == [prep[r] EXCEPT !.st = "running", !.goal = TRUE]
               paused == [prep[r] EXCEPT !.st = "paused", !.goal = @ \/ CanHold(Compact(cat), r)]
    <2>1. /\ held.st \notin {"none", "terminal"} /\ held.slug = prep[r].slug
          /\ held.epoch = prep[r].epoch
        BY <1>1 DEF PrepRecords
    <2>2. /\ paused.st \notin {"none", "terminal"} /\ paused.slug = prep[r].slug
          /\ paused.epoch = prep[r].epoch
        BY <1>1 DEF PrepRecords
    <2>3. \/ Saved(r, held) \/ NotSaved(r, held)
          \/ Saved(r, paused) \/ NotSaved(r, paused)
        BY <1>2 DEF ReconcileAccepting
    <2> HIDE DEF held, paused
    <2> QED BY <1>1, <2>1, <2>2, <2>3, WorkPromise
<1>3. ASSUME ReconcileClaim(r) PROVE Promising
    <2> DEFINE rec == [prep[r] EXCEPT !.st = "failed"]
    <2>1. /\ rec.st \notin {"none", "terminal"} /\ rec.slug = prep[r].slug
          /\ rec.epoch = prep[r].epoch
        BY <1>1 DEF PrepRecords
    <2>2. \/ Saved(r, rec) \/ Published(r, rec) \/ Unsaved \/ NotSaved(r, rec)
          \/ UNCHANGED prepStore
        BY <1>3 DEF ReconcileClaim, prepStore
    <2> HIDE DEF rec
    <2> QED BY <1>1, <2>1, <2>2, WorkPromise
<1>4. ASSUME ReconcileHandoff(r) PROVE Promising
    <2> DEFINE rec == [prep[r] EXCEPT !.st =
                          IF Matches(r, cre[prep[r].slug]) THEN "handed_off" ELSE "failed"]
    <2>1. /\ rec.st \notin {"none", "terminal"} /\ rec.slug = prep[r].slug
          /\ rec.epoch = prep[r].epoch
        BY <1>1 DEF PrepRecords
    <2>2. \/ Saved(r, rec) \/ Published(r, rec) \/ Unsaved \/ NotSaved(r, rec)
          \/ UNCHANGED prepStore
        BY <1>4 DEF ReconcileHandoff, prepStore
    <2> HIDE DEF rec
    <2> QED BY <1>1, <2>1, <2>2, WorkPromise
<1> QED BY <1>2, <1>3, <1>4

LEMMA WorkerPromise == ASSUME IInv, NEW w \in workers, Worker(w) PROVE Promising
<1>r. PICK r : r = w.req
    OBVIOUS
<1>0. r \in Requests /\ prep[r] \in PrepRecords /\ HandsOver(w)
    BY <1>r, WorkerGrounds
<1>1. ASSUME WorkerClaim(w) \/ WorkerName(w) \/ WorkerHandoff(w) \/ WorkerFail(w),
             ~UNCHANGED prepStore
      PROVE  /\ UNCHANGED <<created, hist>> /\ prep[r].st \notin {"none", "terminal"}
             /\ r \in Requests /\ prep[r] \in PrepRecords
    BY <1>r, <1>0, <1>1 DEF WorkerClaim, WorkerName, WorkerHandoff, WorkerFail, Current, world,
                            HandsOver, Critical, prepStore
<1>2. ASSUME WorkerClaim(w), ~UNCHANGED prepStore PROVE Promising
    <2> DEFINE rec == [prep[r] EXCEPT !.st = "running", !.goal = TRUE]
    <2>1. /\ rec.st \notin {"none", "terminal"} /\ rec.slug = prep[r].slug
          /\ rec.epoch = prep[r].epoch
        BY <1>1, <1>2 DEF PrepRecords
    <2>2. \/ Saved(r, rec) \/ Published(r, rec) \/ Unsaved \/ NotSaved(r, rec)
          \/ UNCHANGED prepStore
        BY <1>2, <1>r DEF WorkerClaim, prepStore
    <2> HIDE DEF rec
    <2> QED BY <1>1, <1>2, <2>1, <2>2, WorkPromise
<1>3. ASSUME WorkerName(w), ~UNCHANGED prepStore PROVE Promising
    <2>1. PICK base, rec : /\ rec = [prep[r] EXCEPT !.base = base,
                                                    !.custom = (CustomOf[r] # NoBase)]
                           /\ Saved(r, rec) \/ NotSaved(r, rec)
        BY <1>3, <1>r DEF WorkerName, prepStore
    <2>2. /\ rec.st \notin {"none", "terminal"} /\ rec.slug = prep[r].slug
          /\ rec.epoch = prep[r].epoch
        BY <1>1, <1>3, <2>1 DEF PrepRecords
    <2> QED BY <1>1, <1>3, <2>1, <2>2, WorkPromise
<1>4. ASSUME WorkerHandoff(w), ~UNCHANGED prepStore PROVE Promising
    <2> DEFINE rec == [prep[r] EXCEPT !.st = "handed_off"]
    <2>1. /\ rec.st \notin {"none", "terminal"} /\ rec.slug = prep[r].slug
          /\ rec.epoch = prep[r].epoch
        BY <1>1, <1>4 DEF PrepRecords
    <2>2. \/ Saved(r, rec) \/ Published(r, rec) \/ Unsaved \/ NotSaved(r, rec)
          \/ UNCHANGED prepStore
        BY <1>4, <1>r DEF WorkerHandoff, prepStore
    <2> HIDE DEF rec
    <2> QED BY <1>1, <1>4, <2>1, <2>2, WorkPromise
<1>5. ASSUME WorkerFail(w), ~UNCHANGED prepStore PROVE Promising
    <2> DEFINE rec == [prep[r] EXCEPT !.st = "failed"]
    <2>1. /\ rec.st \notin {"none", "terminal"} /\ rec.slug = prep[r].slug
          /\ rec.epoch = prep[r].epoch
        BY <1>1, <1>5 DEF PrepRecords
    <2>2. \/ Saved(r, rec) \/ Published(r, rec) \/ Unsaved \/ NotSaved(r, rec)
          \/ UNCHANGED prepStore
        BY <1>5, <1>r DEF WorkerFail, prepStore
    <2> HIDE DEF rec
    <2> QED BY <1>1, <1>5, <2>1, <2>2, WorkPromise
<1>6. ASSUME ~WorkerReserve(w), UNCHANGED prepStore PROVE Promising
    <2>1. UNCHANGED <<created, hist>>
        BY <1>6 DEF Worker, WorkerClaim, WorkerName, WorkerBind, WorkerInstall, WorkerHandoff,
                    WorkerError, WorkerFail, world
    <2> QED BY <1>6, <2>1, OtherPromise
<1>7. WorkerBind(w) \/ WorkerInstall(w) \/ WorkerError(w) => UNCHANGED prepStore
    BY DEF WorkerBind, WorkerInstall, WorkerError
<1> QED BY <1>2, <1>3, <1>4, <1>5, <1>6, <1>7, ReservePromise DEF Worker

LEMMA CreatorPromise == ASSUME IInv, NEW c \in creators, CreatorStep(c) PROVE Promising
<1>1. CASE CreatorInit(c) \/ CommandStart(c) \/ CreatorProve(c) \/ CreatorOutcome(c)
    <2>1. UNCHANGED <<prepStore, created, hist>>
        BY <1>1 DEF CreatorInit, CommandStart, CreatorProve, CreatorOutcome, world
    <2> QED BY <2>1, OtherPromise
<1> QED BY <1>1, FinishPromise, CompactPromise DEF CreatorStep

LEMMA PromiseKept == IInv /\ [Next]_vars => Promising
<1> SUFFICES ASSUME IInv, [Next]_vars PROVE Promising
    OBVIOUS
<1>1. ASSUME NEW r \in Requests,
             \/ Confirm(r) \/ Post(r) \/ FinishAccepting(r) \/ Launch(r) \/ Retry(r)
             \/ ReconcileAccepting(r) \/ ReconcileClaim(r) \/ ReconcileHandoff(r)
             \/ ReconcileCompact(r)
             \/ \E base \in Bases : SetName(r, base)
      PROVE  Promising
    <2>1. CASE Launch(r)
        BY <2>1, OtherPromise DEF Launch, world
    <2> QED BY <1>1, <2>1, ConfirmPromise, PostPromise, AttemptPromise, ReconcileOpenPromise,
               ReconcilePromise
<1>2. ASSUME NEW s \in Slugs,
             RetireAbsent(s) \/ StatusRead(s) \/ RetryCreation(s) \/ CliStart(s) \/ CliRemove(s)
      PROVE  Promising
    <2>1. CASE StatusRead(s) \/ RetryCreation(s) \/ CliStart(s)
        <3>1. UNCHANGED <<prepStore, created, hist>>
            BY <2>1 DEF StatusRead, RetryCreation, CliStart, world
        <3> QED BY <3>1, OtherPromise
    <2> QED BY <1>2, <2>1, RetirePromise, RemovePromise
<1>3. CASE \/ \E q \in Directs : Accept(q)
           \/ \E f \in Files : AgeFile(f)
           \/ CollectUploads \/ UNCHANGED vars
    <2>1. UNCHANGED <<prepStore, created, hist>>
        BY <1>3 DEF Accept, AgeFile, CollectUploads, world, vars, prepStore
    <2> QED BY <2>1, OtherPromise
<1>4. CASE Crash \/ Stop
    BY <1>4, CrashFound, StopFound, RestartPromise
<1> QED BY <1>1, <1>2, <1>3, <1>4, WorkerPromise, CreatorPromise DEF Next

LEMMA PromiseBegins == Init => Promised!PromiseInit
<1> SUFFICES ASSUME Init PROVE Promised!PromiseInit
    OBVIOUS
<1>1. \A r \in Requests : prep[r] = NoPrep /\ prepSafe[r] = NoPrep /\ ~Unfinished(NoPrep)
                          /\ NoPrep.slug = NoSlug
    BY DEF Init, Unfinished, NoPrep
<1>2. HeldNow = {}
    BY <1>1 DEF HeldNow
<1>3. \A r \in Requests : MadeFor(r) = 0
    <2>1. \A r \in Requests : {m \in created : m.owner.req = r} = {}
        BY DEF Init
    <2> QED BY <2>1, FS_EmptySet DEF MadeFor
<1>4. GoneNow = {}
    BY <1>3 DEF GoneNow
<1> QED BY <1>1, <1>2, <1>3, <1>4 DEF Promised!PromiseInit, HeldNow, GoneNow

\* The portal's records, workers and command keep the promise of
\* SessionRequests: a request keeps its one name, nobody else unfinished gets
\* it before the session made under it was removed, and no retry, lost
\* answer, failed sync or crash makes a second session for a request.
THEOREM CreationKeepsPromise == Spec => KeepsPromise
<1>1. Spec => Promised!PromiseInit
    BY PromiseBegins DEF Spec
<1>2. IInv /\ [Next]_vars => [Promised!PromiseNext]_(Promised!promise)
    BY PromiseKept DEF Promising
<1> QED BY <1>1, <1>2, Invariant, PTL DEF Spec, KeepsPromise, Promised!Promise

\* What the promise keeps, step by step.
PromiseInv == Promised!PromiseType /\ Promised!MadeOnce /\ Promised!NamesApart

LEMMA PromiseInvInit == Promised!PromiseInit => PromiseInv
BY DEF PromiseInv, Promised!PromiseInit, Promised!PromiseType, Promised!MadeOnce,
       Promised!NamesApart

LEMMA PromiseInvNext == PromiseInv /\ [Promised!PromiseNext]_(Promised!promise) => PromiseInv'
<1> SUFFICES ASSUME PromiseInv, [Promised!PromiseNext]_(Promised!promise) PROVE PromiseInv'
    OBVIOUS
<1> USE DEF PromiseInv, Promised!PromiseType, Promised!MadeOnce, Promised!NamesApart
<1>1. ASSUME NEW r \in Requests, Promised!Hold(r) PROVE PromiseInv'
    BY <1>1 DEF Promised!Hold
<1>2. ASSUME NEW r \in Requests, NEW n \in Slugs, Promised!Reserve(r, n) PROVE PromiseInv'
    BY <1>2 DEF Promised!Reserve
<1>3. ASSUME NEW rs \in SUBSET Requests, Promised!Lose(rs) PROVE PromiseInv'
    <2>1. Promised!PromiseType'
        BY <1>3 DEF Promised!Lose
    <2>2. Promised!MadeOnce'
        <3>1. \A q \in Requests : /\ MadeFor(q)' = MadeFor(q) /\ (q \in rs => MadeFor(q) = 0)
                                  /\ q \notin rs => prep'[q].slug = prep[q].slug
            BY <1>3 DEF Promised!Lose
        <3>2. \A q \in Requests : /\ MadeFor(q) \in Nat /\ MadeFor(q) <= 1
                                  /\ MadeFor(q) = 1 => prep[q].slug # NoSlug
            OBVIOUS
        <3>3. ASSUME NEW q \in Requests
              PROVE  MadeFor(q)' <= 1 /\ (MadeFor(q)' = 1 => prep'[q].slug # NoSlug)
            BY <3>1, <3>2
        <3> QED BY <3>3
    <2>3. Promised!NamesApart'
        BY <1>3 DEF Promised!Lose
    <2> QED BY <2>1, <2>2, <2>3
<1>4. ASSUME NEW r \in Requests, Promised!Make(r) PROVE PromiseInv'
    <2>1. \A q \in Requests : /\ MadeFor(q)' = IF q = r THEN 1 ELSE MadeFor(q)
                              /\ prep'[q].slug = prep[q].slug
        BY <1>4 DEF Promised!Make
    <2>2. HeldNow' = HeldNow /\ GoneNow' = GoneNow /\ r \in HeldNow /\ prep[r].slug # NoSlug
        BY <1>4 DEF Promised!Make, HeldNow, GoneNow
    <2>3. Promised!PromiseType'
        BY <2>1, <2>2 DEF HeldNow, GoneNow
    <2>4. Promised!MadeOnce'
        BY <2>1, <2>2
    <2>5. Promised!NamesApart'
        BY <2>1, <2>2 DEF HeldNow, GoneNow
    <2> QED BY <2>3, <2>4, <2>5
<1>5. ASSUME NEW r \in Requests, Promised!Remove(r) PROVE PromiseInv'
    BY <1>5 DEF Promised!Remove
<1>6. ASSUME NEW r \in Requests, Promised!Settle(r) PROVE PromiseInv'
    BY <1>6 DEF Promised!Settle
<1>7. CASE UNCHANGED Promised!promise
    BY <1>7 DEF Promised!promise
<1> QED BY <1>1, <1>2, <1>3, <1>4, <1>5, <1>6, <1>7 DEF Promised!PromiseNext

\* newSession and the receipt store, in states rather than steps: no request
\* has two sessions, and two unfinished requests hold one name only when the
\* session of one of them was made under it and removed.
THEOREM NamesStayApart == Spec => [](Promised!MadeOnce /\ Promised!NamesApart)
<1>1. PromiseInv => Promised!MadeOnce /\ Promised!NamesApart
    BY DEF PromiseInv
<1> QED BY CreationKeepsPromise, PromiseInvInit, PromiseInvNext, <1>1, PTL
        DEF KeepsPromise, Promised!Promise

=============================================================================
