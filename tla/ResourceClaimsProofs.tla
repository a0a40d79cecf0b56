------------------------ MODULE ResourceClaimsProofs ------------------------
(***************************************************************************)
(* Resource claims exclude each other, for every set of owners, requests   *)
(* and resources and any number of deaths between the two file writes.     *)
(*                                                                         *)
(* The invariant has four parts, each a predicate of the values it relates *)
(* so that a lemma can speak of the claims before and after a step of the  *)
(* file claims.json (Sync) as well as of the state.                        *)
(***************************************************************************)
EXTENDS ResourceClaims, FiniteSetTheorems, TLAPS

ClaimRecord == [state : ClaimStates, seq : Nat, pending : BOOLEAN]
FenceRecord == [command : Commands \cup {"none"}, completed : BOOLEAN]

(* L has the jobs and reservations.  A job is in the way of a held claim   *)
(* only when it came back late over it.                                    *)
ExclOK(cs, L) ==
    /\ \A r, q \in Requests :
          cs[r].state = "held" /\ cs[q].state = "held" /\ r # q
            => Needs[r] \cap Needs[q] = {}
    /\ \A r \in Requests : \A j \in Jobs :
          cs[r].state = "held" /\ L.job[j] \in {"claimed", "late"}
            => \/ Needs[r] \cap Uses[j] = {}
               \/ L.job[j] = "late" /\ r \in L.over[j]
    /\ \A r \in Requests : \A v \in Reservations :
          cs[r].state = "held" /\ L.rsv[v] = "live" => MachineOf[v] \notin Needs[r]

FenceOK(cs, f) ==
    \A r \in Requests : cs[r].state = "held" => f[OwnerOf[r]].command = "none"

(* A cut request is canceled, or still queued behind the fence. *)
CutOK(cs, f, k) ==
    \A r \in k : \/ cs[r].state = "canceled"
                 \/ cs[r].state = "waiting" /\ f[OwnerOf[r]].command # "none"

ClaimInv ==
    /\ TypeOK
    /\ ExclOK(claims, legacy)
    /\ FenceOK(claims, fence)
    /\ CutOK(claims, fence, cut)

(* Following the fences grants nothing and forgets no cut request. *)
LEMMA SyncKeeps ==
    ASSUME NEW cs \in [Requests -> ClaimRecord],
           NEW f \in [Owners -> FenceRecord]
    PROVE  /\ Sync(cs, f) \in [Requests -> ClaimRecord]
           /\ \A L : ExclOK(cs, L) => ExclOK(Sync(cs, f), L)
           /\ \A g : FenceOK(cs, g) => FenceOK(Sync(cs, f), g)
           /\ \A g, k : k \subseteq Requests /\ CutOK(cs, g, k)
                          => CutOK(Sync(cs, f), g, k)
           /\ \A r \in Requests :
                 f[OwnerOf[r]].command # "none" => Sync(cs, f)[r].state # "waiting"
<1> DEFINE T == Sync(cs, f)
<1>1. \A r \in Requests :
         \/ T[r] = cs[r]
         \/ /\ cs[r].state = "waiting"
            /\ T[r] = [state |-> "canceled", seq |-> cs[r].seq, pending |-> FALSE]
  BY DEF Sync, ClaimRecord
<1>2. T \in [Requests -> ClaimRecord]
  <2>1. ASSUME NEW r \in Requests
        PROVE  T[r] \in ClaimRecord
    <3>1. cs[r] \in ClaimRecord
      OBVIOUS
    <3>2. CASE T[r] = cs[r]
      BY <3>1, <3>2
    <3>3. CASE /\ cs[r].state = "waiting"
               /\ T[r] = [state |-> "canceled", seq |-> cs[r].seq, pending |-> FALSE]
      BY <3>1, <3>3 DEF ClaimRecord, ClaimStates
    <3> QED BY <1>1, <3>2, <3>3
  <2> QED BY <2>1 DEF Sync
<1>3. \A r \in Requests : /\ T[r].state = "held" => T[r] = cs[r]
                          /\ T[r].state = "waiting" => T[r] = cs[r]
                          /\ cs[r].state = "canceled" => T[r] = cs[r]
                          /\ cs[r].state = "waiting"
                               => T[r].state = "canceled" \/ T[r] = cs[r]
  <2> HIDE DEF T
  <2>1. ASSUME NEW r \in Requests, T[r] # cs[r]
        PROVE  cs[r].state = "waiting" /\ T[r].state = "canceled"
    <3>1. /\ cs[r].state = "waiting"
          /\ T[r] = [state |-> "canceled", seq |-> cs[r].seq, pending |-> FALSE]
      BY <1>1, <2>1, Zenon
    <3> QED BY <3>1
  <2> QED BY <2>1
<1>5. \A L : ExclOK(cs, L) => ExclOK(T, L) BY <1>3 DEF ExclOK
<1>6. \A g : FenceOK(cs, g) => FenceOK(T, g) BY <1>3 DEF FenceOK
<1>7. \A g, k : k \subseteq Requests /\ CutOK(cs, g, k) => CutOK(T, g, k)
  BY <1>3 DEF CutOK
<1>8. \A r \in Requests : f[OwnerOf[r]].command # "none" => T[r].state # "waiting"
  BY DEF Sync, ClaimRecord
<1> QED BY <1>2, <1>5, <1>6, <1>7, <1>8

(* Either form of a ledger transaction keeps what the claims file has. *)
LEMMA CommitKeeps ==
    ASSUME ClaimInv, NEW dies \in BOOLEAN, Commit(dies),
           fence' \in [Owners -> FenceRecord]
    PROVE  /\ claims' \in [Requests -> ClaimRecord]
           /\ crashes' \in 0..MaxCrash
           /\ \A L : ExclOK(claims, L) => ExclOK(claims', L)
           /\ \A g : FenceOK(claims, g) => FenceOK(claims', g)
           /\ \A g, k : k \subseteq Requests /\ CutOK(claims, g, k)
                          => CutOK(claims', g, k)
<1>1. claims \in [Requests -> ClaimRecord]
  BY DEF ClaimInv, TypeOK, ClaimRecord
<1>2. CASE dies
  <2>1. claims' = claims /\ crashes < MaxCrash /\ crashes' = crashes + 1
    BY <1>2 DEF Commit
  <2>2. crashes' \in 0..MaxCrash
    BY <2>1, ClaimsAssumption DEF ClaimInv, TypeOK
  <2>3. claims' \in [Requests -> ClaimRecord]
    BY <1>1, <2>1
  <2> QED BY <2>1, <2>2, <2>3, Zenon
<1>3. CASE ~dies
  <2>1. claims' = Sync(claims, fence') /\ crashes' = crashes
    BY <1>3 DEF Commit
  <2>2. crashes' \in 0..MaxCrash
    BY <2>1 DEF ClaimInv, TypeOK
  <2> QED BY <1>1, <2>1, <2>2, SyncKeeps, Zenon
<1> QED BY <1>2, <1>3

(* A claim of one request changes and takes no resource that is busy. *)
LEMMA ChangeKeeps ==
    ASSUME ClaimInv, NEW r, NEW c, claims' = [claims EXCEPT ![r] = c],
           r \in Requests => c \in ClaimRecord,
           UNCHANGED <<fence, legacy, cut>>,
           r \in Requests /\ c.state = "waiting" => r \notin cut,
           r \in Requests /\ c.state = "held"
             => /\ r \notin cut
                /\ ~Fenced(OwnerOf[r])
                /\ \/ claims[r].state = "held"
                   \/ Needs[r] \cap Busy = {},
           r \in Requests /\ r \in cut => c.state = "canceled"
    PROVE  /\ claims' \in [Requests -> ClaimRecord]
           /\ ExclOK(claims', legacy')
           /\ FenceOK(claims', fence')
           /\ CutOK(claims', fence', cut')
<1>1. claims \in [Requests -> ClaimRecord]
  BY DEF ClaimInv, TypeOK, ClaimRecord
<1>2. claims' \in [Requests -> ClaimRecord]
  BY <1>1
<1>3. \A q \in Requests : claims'[q] = IF q = r THEN c ELSE claims[q]
  BY <1>1
<1>5. ExclOK(claims', legacy')
  <2>1. ASSUME NEW q \in Requests, claims'[q].state = "held"
        PROVE  \/ claims[q].state = "held"
               \/ q = r /\ Needs[r] \cap Busy = {}
    BY <1>3, <2>1
  <2>2. ASSUME NEW q \in Requests, claims[q].state = "held",
               NEW p \in Requests, Needs[p] \cap Busy = {}
        PROVE  Needs[p] \cap Needs[q] = {}
    BY <2>2 DEF Busy, HeldResources, InState
  <2>3. ASSUME NEW p \in Requests, Needs[p] \cap Busy = {}
        PROVE  /\ \A j \in Jobs : legacy.job[j] \in {"claimed", "late"}
                                     => Needs[p] \cap Uses[j] = {}
               /\ \A v \in Reservations : legacy.rsv[v] = "live"
                                             => MachineOf[v] \notin Needs[p]
    BY <2>3 DEF Busy, JobResources, InClaim, LiveMachines
  <2>4. ASSUME NEW q \in Requests, NEW p \in Requests, p # q,
               claims'[q].state = "held", claims'[p].state = "held"
        PROVE  Needs[p] \cap Needs[q] = {}
    <3>1. CASE claims[q].state = "held" /\ claims[p].state = "held"
      BY <2>4, <3>1 DEF ClaimInv, ExclOK
    <3>2. CASE claims[q].state # "held"
      <4>1. q = r /\ Needs[q] \cap Busy = {} /\ claims[p].state = "held"
        BY <2>1, <2>4, <3>2
      <4>2. Needs[q] \cap Needs[p] = {}
        BY <2>2, <4>1
      <4> QED BY <4>2
    <3>3. CASE claims[p].state # "held"
      <4>1. p = r /\ Needs[p] \cap Busy = {} /\ claims[q].state = "held"
        BY <2>1, <2>4, <3>3
      <4> QED BY <2>2, <4>1
    <3> QED BY <3>1, <3>2, <3>3
  <2>5. ASSUME NEW q \in Requests, claims'[q].state = "held",
               NEW j \in Jobs, legacy'.job[j] \in {"claimed", "late"}
        PROVE  \/ Needs[q] \cap Uses[j] = {}
               \/ legacy'.job[j] = "late" /\ q \in legacy'.over[j]
    BY <2>1, <2>3, <2>5 DEF ClaimInv, ExclOK
  <2>6. ASSUME NEW q \in Requests, claims'[q].state = "held",
               NEW v \in Reservations, legacy'.rsv[v] = "live"
        PROVE  MachineOf[v] \notin Needs[q]
    BY <2>1, <2>3, <2>6 DEF ClaimInv, ExclOK
  <2> QED BY <2>4, <2>5, <2>6 DEF ExclOK
<1>6. FenceOK(claims', fence')
  BY <1>3 DEF ClaimInv, FenceOK, Fenced
<1>7. CutOK(claims', fence', cut')
  BY <1>3 DEF ClaimInv, CutOK, TypeOK
<1> QED BY <1>2, <1>5, <1>6, <1>7

(* The parts of the type invariant that no claim is involved in. *)
RestType ==
    /\ fence \in [Owners -> FenceRecord]
    /\ reviving \in SUBSET Owners
    /\ suspended \in BOOLEAN
    /\ outbox \in [Requests -> NoticeStates]
    /\ legacy \in LegacyRecord
    /\ moved \in SUBSET Requests
    /\ sweep \in [on : BOOLEAN, victims : SUBSET Resources]
    /\ tick \in [owner : Owners \cup {NoOwner},
                 step : {"idle", "grant", "announce", "clear"},
                 left : SUBSET Requests]
    /\ mail \in SUBSET Requests
    /\ crashes \in 0..MaxCrash
    /\ cut \in SUBSET Requests

(* The type invariant, split into the claims and the rest. *)
LEMMA TypeParts == TypeOK <=> claims \in [Requests -> ClaimRecord] /\ RestType
BY DEF TypeOK, RestType, ClaimRecord, FenceRecord

(* The scheduler between two passes is well typed. *)
LEMMA IdleType ==
    Idle \in [owner : Owners \cup {NoOwner},
              step : {"idle", "grant", "announce", "clear"},
              left : SUBSET Requests]
BY DEF Idle

(* The steps of the scheduler, the notifier and the collector that touch   *)
(* no claim, fence or retained job.                                        *)
Bystander ==
    \/ \E r \in Requests : Remap(r) \/ SendStart(r) \/ SendKilled(r)
    \/ \E o \in Owners : TickStart(o)
    \/ TickRefused \/ TickOwed \/ TickEnd \/ TickKilled
    \/ SweepStart \/ SweepEnd
    \/ \E x \in GitDirectories : SweepRemove(x)

(* Bystanders keep the invariant. *)
LEMMA BystanderStep ==
    ASSUME ClaimInv, Bystander
    PROVE  ClaimInv'
<1>1. UNCHANGED <<claims, fence, legacy, cut, outbox, reviving, suspended>>
  BY DEF Bystander, Remap, SendStart, SendKilled, TickStart, TickRefused,
         TickOwed, TickEnd, TickKilled, SweepStart, SweepEnd, SweepRemove
<1>2. RestType
  BY TypeParts DEF ClaimInv
<1>3. moved' \in SUBSET Requests /\ mail' \in SUBSET Requests
  BY <1>2 DEF RestType, Bystander, Remap, SendStart, SendKilled, TickStart,
     TickRefused, TickOwed, TickEnd, TickKilled, SweepStart, SweepEnd, SweepRemove
<1>4. crashes' \in 0..MaxCrash
  BY <1>2, ClaimsAssumption DEF RestType, Bystander, Remap, SendStart,
     SendKilled, TickStart, TickRefused, TickOwed, TickEnd, TickKilled,
     SweepStart, SweepEnd, SweepRemove
<1>5. tick' \in [owner : Owners \cup {NoOwner},
                step : {"idle", "grant", "announce", "clear"},
                left : SUBSET Requests]
  <2>1. CASE \E o \in Owners : TickStart(o)
    BY <2>1 DEF TickStart, InState
  <2>2. CASE TickOwed
    BY <1>2, <2>2 DEF RestType, TickOwed
  <2>3. CASE tick' = Idle
    BY <2>3, IdleType
  <2>4. CASE tick' = tick
    BY <1>2, <2>4 DEF RestType
  <2>5. \/ \E o \in Owners : TickStart(o)
        \/ TickOwed
        \/ tick' = Idle
        \/ tick' = tick
    BY DEF Bystander, Remap, SendStart, SendKilled, TickRefused, TickEnd,
           TickKilled, SweepStart, SweepEnd, SweepRemove
  <2> QED BY <2>1, <2>2, <2>3, <2>4, <2>5
<1>6. sweep' \in [on : BOOLEAN, victims : SUBSET Resources]
  <2>1. CASE SweepStart \/ SweepEnd
    <3>1. PICK on \in BOOLEAN : sweep' = [on |-> on, victims |-> {}]
      BY <2>1, Zenon DEF SweepStart, SweepEnd
    <3> QED BY <3>1
  <2>2. CASE \E x \in GitDirectories : SweepRemove(x)
    BY <1>2, <2>2 DEF RestType, SweepRemove, GitDirectories
  <2>3. CASE sweep' = sweep
    BY <1>2, <2>3 DEF RestType
  <2>4. \/ SweepStart \/ SweepEnd
        \/ \E x \in GitDirectories : SweepRemove(x)
        \/ sweep' = sweep
    BY DEF Bystander, Remap, SendStart, SendKilled, TickStart, TickRefused,
           TickOwed, TickEnd, TickKilled
  <2> QED BY <2>1, <2>2, <2>3, <2>4
<1>7. RestType'
  BY <1>1, <1>2, <1>3, <1>4, <1>5, <1>6 DEF RestType
<1>8. TypeOK'
  <2>1. claims' \in [Requests -> ClaimRecord]
    BY <1>1, TypeParts DEF ClaimInv
  <2> QED BY <1>7, <2>1 DEF TypeOK, RestType, ClaimRecord, FenceRecord
<1> QED BY <1>1, <1>8 DEF ClaimInv

(* Ledger transactions: the claims follow the fences, or the process dies. *)
LEMMA LedgerStep ==
    ASSUME ClaimInv, NEW dies \in BOOLEAN, Commit(dies), RestType',
           ExclOK(claims, legacy'), FenceOK(claims, fence'),
           CutOK(claims, fence', cut')
    PROVE  ClaimInv'
<1>1. fence' \in [Owners -> FenceRecord] /\ cut' \subseteq Requests
  BY DEF RestType
<1>2. /\ claims' \in [Requests -> ClaimRecord]
      /\ ExclOK(claims', legacy')
      /\ FenceOK(claims', fence')
      /\ CutOK(claims', fence', cut')
  BY <1>1, CommitKeeps, Zenon
<1>3. TypeOK'
  BY <1>2 DEF TypeOK, RestType, ClaimRecord, FenceRecord
<1> QED BY <1>2, <1>3 DEF ClaimInv

(* A transaction counts the death of its process within the bound. *)
LEMMA CommitCrashes ==
    ASSUME ClaimInv, NEW dies \in BOOLEAN, Commit(dies)
    PROVE  crashes' \in 0..MaxCrash
BY ClaimsAssumption DEF ClaimInv, TypeOK, Commit

(* Recording a notice in the ledger keeps the invariant. *)
LEMMA TickEventStep ==
    ASSUME ClaimInv, NEW dies \in BOOLEAN, TickEvent(dies)
    PROVE  ClaimInv'
<1>1. RestType
  BY TypeParts DEF ClaimInv
<1>2. outbox' \in [Requests -> NoticeStates]
  BY <1>1 DEF RestType, TickEvent, NoticeStates
<1>3. tick' \in [owner : Owners \cup {NoOwner},
                step : {"idle", "grant", "announce", "clear"},
                left : SUBSET Requests]
  <2>1. CASE dies
    BY <2>1, IdleType DEF TickEvent
  <2>2. CASE ~dies
    BY <1>1, <2>2 DEF TickEvent, RestType
  <2> QED BY <2>1, <2>2
<1>4. RestType'
  BY <1>1, <1>2, <1>3, CommitCrashes DEF RestType, TickEvent
<1> QED BY <1>4, LedgerStep DEF TickEvent, ClaimInv

(* Recording the answer of a send keeps the invariant. *)
LEMMA SendEndStep ==
    ASSUME ClaimInv, NEW r \in Requests, NEW a \in {"delivered", "failed"},
           SendEnd(r, a)
    PROVE  ClaimInv'
<1>1. RestType
  BY TypeParts DEF ClaimInv
<1>2. outbox' \in [Requests -> NoticeStates]
  BY <1>1 DEF RestType, SendEnd, NoticeStates
<1>3. RestType'
  BY <1>1, <1>2, CommitCrashes DEF RestType, SendEnd
<1> QED BY <1>3, LedgerStep DEF SendEnd, ClaimInv

(* The fence lands on an owner that holds nothing. *)
LEMMA BindLifecycleStep ==
    ASSUME ClaimInv, NEW o \in Owners, NEW c \in Commands,
           NEW dies \in BOOLEAN, BindLifecycle(o, c, dies)
    PROVE  ClaimInv'
<1>1. RestType
  BY TypeParts DEF ClaimInv
<1>2. outbox' \in [Requests -> NoticeStates]
  BY <1>1 DEF RestType, BindLifecycle, NoticeStates
<1>3. fence' \in [Owners -> FenceRecord]
  BY <1>1 DEF RestType, BindLifecycle, FenceRecord
<1>4. cut' \in SUBSET Requests
  BY <1>1 DEF RestType, BindLifecycle, InState
<1>5. RestType'
  BY <1>1, <1>2, <1>3, <1>4, CommitCrashes DEF RestType, BindLifecycle
<1>6. \A p \in Owners : fence'[p].command =
                          IF p = o THEN c ELSE fence[p].command
  BY <1>1 DEF RestType, BindLifecycle
<1>7. \A r \in Requests : OwnerOf[r] \in Owners
  BY ClaimsAssumption
<1>8. FenceOK(claims, fence')
  BY <1>6, <1>7 DEF BindLifecycle, ClaimsIdle, InState, FenceOK, ClaimInv
<1>9. CutOK(claims, fence', cut')
  <2>1. c # "none"
    BY DEF Commands
  <2>2. ASSUME NEW r \in cut'
        PROVE  \/ claims[r].state = "canceled"
               \/ claims[r].state = "waiting"
                    /\ fence'[OwnerOf[r]].command # "none"
    <3>1. r \in Requests
      BY <1>4
    <3>2. CASE r \in cut
      BY <1>6, <1>7, <2>1, <3>1, <3>2 DEF ClaimInv, CutOK
    <3>3. CASE r \notin cut
      BY <1>6, <1>7, <2>1, <3>1, <3>3 DEF BindLifecycle, InState
    <3> QED BY <3>2, <3>3
  <2> QED BY <2>2 DEF CutOK
<1> QED BY <1>5, <1>8, <1>9, LedgerStep DEF BindLifecycle, ClaimInv

(* Completing a lifecycle operation leaves the owner fenced. *)
LEMMA LifecycleCompletedStep ==
    ASSUME ClaimInv, NEW o \in Owners, NEW dies \in BOOLEAN,
           LifecycleCompleted(o, dies)
    PROVE  ClaimInv'
<1>1. RestType
  BY TypeParts DEF ClaimInv
<1>2. fence' \in [Owners -> FenceRecord]
  <2>1. fence \in [Owners -> FenceRecord]
    BY <1>1 DEF RestType
  <2>2. [fence[o] EXCEPT !.completed = TRUE] \in FenceRecord
    BY <2>1 DEF FenceRecord
  <2>3. fence' = [fence EXCEPT ![o] = [fence[o] EXCEPT !.completed = TRUE]]
    BY <2>1 DEF LifecycleCompleted
  <2> QED BY <2>1, <2>2, <2>3
<1>3. RestType'
  BY <1>1, <1>2, CommitCrashes DEF RestType, LifecycleCompleted
<1>4. \A p \in Owners : fence'[p].command = fence[p].command
  BY <1>1 DEF RestType, LifecycleCompleted, FenceRecord
<1>5. \A r \in Requests : OwnerOf[r] \in Owners
  BY ClaimsAssumption
<1>6. FenceOK(claims, fence')
  BY <1>4, <1>5 DEF FenceOK, ClaimInv
<1>7. CutOK(claims, fence', cut')
  BY <1>1, <1>4, <1>5 DEF CutOK, ClaimInv, LifecycleCompleted, RestType
<1> QED BY <1>3, <1>6, <1>7, LedgerStep DEF LifecycleCompleted, ClaimInv

(* Ledger transactions that change no fence and occupy nothing. *)
LEMMA HostTransactionStep ==
    ASSUME ClaimInv,
           \/ \E o \in Owners, dies \in BOOLEAN : BindRevival(o, dies)
           \/ \E value, dies \in BOOLEAN : SetSuspended(value, dies)
           \/ \E v \in Reservations : ReservationEnd(v)
    PROVE  ClaimInv'
<1>1. RestType
  BY TypeParts DEF ClaimInv
<1>2. ASSUME NEW o \in Owners, NEW dies \in BOOLEAN, BindRevival(o, dies)
      PROVE  ClaimInv'
  <2>1. RestType'
    BY <1>1, <1>2, CommitCrashes DEF RestType, BindRevival
  <2> QED BY <1>2, <2>1, LedgerStep DEF BindRevival, ClaimInv
<1>3. ASSUME NEW value \in BOOLEAN, NEW dies \in BOOLEAN,
             SetSuspended(value, dies)
      PROVE  ClaimInv'
  <2>1. RestType'
    BY <1>1, <1>3, CommitCrashes DEF RestType, SetSuspended
  <2> QED BY <1>3, <2>1, LedgerStep DEF SetSuspended, ClaimInv
<1>4. ASSUME NEW v \in Reservations, ReservationEnd(v)
      PROVE  ClaimInv'
  <2>1. /\ legacy' = [job |-> [j \in Jobs |-> IF ReservationOf[j] = v THEN "ended"
                                              ELSE legacy.job[j]],
                      over |-> legacy.over, tried |-> legacy.tried,
                      rsv |-> [legacy.rsv EXCEPT ![v] = "released"]]
    BY <1>1, <1>4 DEF RestType, LegacyRecord, ReservationEnd
  <2>2. legacy' \in LegacyRecord
    BY <1>1, <2>1 DEF RestType, LegacyRecord
  <2>3. RestType'
    BY <1>1, <1>4, <2>2, CommitCrashes DEF RestType, ReservationEnd
  <2>4. /\ \A j \in Jobs : legacy'.job[j] \in {legacy.job[j], "ended"}
        /\ legacy'.over = legacy.over
        /\ \A w \in Reservations : legacy'.rsv[w] \in {legacy.rsv[w], "released"}
    BY <1>1, <2>1 DEF RestType, LegacyRecord
  <2>5. ExclOK(claims, legacy')
    BY <2>4 DEF ExclOK, ClaimInv
  <2> QED BY <1>4, <2>3, <2>5, LedgerStep DEF ReservationEnd, ClaimInv
<1> QED BY <1>2, <1>3, <1>4

(* A job that is claimed, put back or settled leaves the others alone. *)
LEMMA OneJob ==
    ASSUME ClaimInv, NEW j \in Jobs,
           NEW state \in {"open", "claimed", "late", "ended"},
           NEW over \in SUBSET Requests, NEW tried \in SUBSET Jobs,
           NEW rsv \in [Reservations -> {"requested", "live", "released"}],
           legacy' = [job |-> [legacy.job EXCEPT ![j] = state],
                      over |-> [legacy.over EXCEPT ![j] = over],
                      tried |-> tried, rsv |-> rsv],
           \A r \in InState("held") :
              state \in {"claimed", "late"} =>
                 \/ Needs[r] \cap Uses[j] = {}
                 \/ state = "late" /\ r \in over,
           \A r \in InState("held"), v \in Reservations :
              rsv[v] = "live" => legacy.rsv[v] = "live" \/ MachineOf[v] \notin Needs[r]
    PROVE  legacy' \in LegacyRecord /\ ExclOK(claims, legacy')
<1>1. legacy \in LegacyRecord
  BY DEF ClaimInv, TypeOK
<1>2. legacy' \in LegacyRecord
  BY <1>1 DEF LegacyRecord
<1>3. \A k \in Jobs : /\ legacy'.job[k] = IF k = j THEN state ELSE legacy.job[k]
                      /\ legacy'.over[k] = IF k = j THEN over ELSE legacy.over[k]
  BY <1>1 DEF LegacyRecord
<1>4. legacy'.rsv = rsv
  OBVIOUS
<1>5. ASSUME NEW r \in Requests, NEW k \in Jobs, claims[r].state = "held",
             legacy'.job[k] \in {"claimed", "late"}
      PROVE  \/ Needs[r] \cap Uses[k] = {}
             \/ legacy'.job[k] = "late" /\ r \in legacy'.over[k]
  BY <1>3, <1>5 DEF ClaimInv, ExclOK, InState
<1>6. ASSUME NEW r \in Requests, NEW v \in Reservations,
             claims[r].state = "held", legacy'.rsv[v] = "live"
      PROVE  MachineOf[v] \notin Needs[r]
  BY <1>4, <1>6 DEF ClaimInv, ExclOK, InState
<1>7. \A r, q \in Requests :
          claims[r].state = "held" /\ claims[q].state = "held" /\ r # q
            => Needs[r] \cap Needs[q] = {}
  BY DEF ClaimInv, ExclOK
<1>8. ExclOK(claims, legacy')
  BY <1>5, <1>6, <1>7 DEF ExclOK
<1> QED BY <1>2, <1>8

(* claim_ready claims a job, and its machine, where no claim is held. *)
LEMMA JobClaimStep ==
    ASSUME ClaimInv, NEW j \in Jobs, JobClaim(j)
    PROVE  ClaimInv'
<1> DEFINE rsv == [v \in Reservations |->
                     IF v = ReservationOf[j] /\ legacy.rsv[v] = "requested"
                     THEN "live" ELSE legacy.rsv[v]]
<1>1. RestType /\ legacy \in LegacyRecord
  BY TypeParts DEF ClaimInv, TypeOK
<1>2. legacy' = [job |-> [legacy.job EXCEPT ![j] = "claimed"],
                 over |-> [legacy.over EXCEPT ![j] = legacy.over[j]],
                 tried |-> legacy.tried \cup {j}, rsv |-> rsv]
  BY <1>1 DEF LegacyRecord, JobClaim
<1>3. \A r \in InState("held") : Needs[r] \cap Uses[j] = {}
  BY DEF JobClaim, HeldResources
<1>4. \A r \in InState("held"), v \in Reservations :
         rsv[v] = "live" => legacy.rsv[v] = "live" \/ MachineOf[v] \notin Needs[r]
  <2> SUFFICES ASSUME NEW r \in InState("held"), NEW v \in Reservations,
                      rsv[v] = "live", legacy.rsv[v] # "live"
               PROVE  MachineOf[v] \notin Needs[r]
    OBVIOUS
  <2>1. v = ReservationOf[j]
    OBVIOUS
  <2>2. MachineOf[v] \in Uses[j]
    BY <2>1, ClaimsAssumption
  <2> QED BY <1>3, <2>2
<1>5. rsv \in [Reservations -> {"requested", "live", "released"}]
  BY <1>1 DEF LegacyRecord
<1>6. legacy.over[j] \in SUBSET Requests /\ legacy.tried \cup {j} \in SUBSET Jobs
  BY <1>1 DEF LegacyRecord
<1> HIDE DEF rsv
<1>7. legacy' \in LegacyRecord /\ ExclOK(claims, legacy')
  BY <1>2, <1>3, <1>4, <1>5, <1>6, OneJob
<1>8. RestType'
  BY <1>1, <1>7, CommitCrashes DEF RestType, JobClaim
<1> QED BY <1>7, <1>8, LedgerStep DEF JobClaim, ClaimInv

(* A late transition asks no claim and is recorded over those held. *)
LEMMA JobLateStep ==
    ASSUME ClaimInv, NEW j \in Jobs, JobLate(j)
    PROVE  ClaimInv'
<1> DEFINE over == {r \in InState("held") : Needs[r] \cap Uses[j] # {}}
<1>1. RestType /\ legacy \in LegacyRecord
  BY TypeParts DEF ClaimInv, TypeOK
<1>2. legacy' = [job |-> [legacy.job EXCEPT ![j] = "late"],
                 over |-> [legacy.over EXCEPT ![j] = over],
                 tried |-> legacy.tried, rsv |-> legacy.rsv]
  BY <1>1 DEF LegacyRecord, JobLate
<1>3. over \in SUBSET Requests
  BY DEF InState
<1>4. \A r \in InState("held") : Needs[r] \cap Uses[j] = {} \/ r \in over
  OBVIOUS
<1> HIDE DEF over
<1>5. /\ legacy.tried \in SUBSET Jobs
      /\ legacy.rsv \in [Reservations -> {"requested", "live", "released"}]
  BY <1>1 DEF LegacyRecord
<1>6. legacy' \in LegacyRecord /\ ExclOK(claims, legacy')
  BY <1>2, <1>3, <1>4, <1>5, OneJob
<1>7. RestType'
  BY <1>1, <1>6, CommitCrashes DEF RestType, JobLate
<1> QED BY <1>6, <1>7, LedgerStep DEF JobLate, ClaimInv

(* A settled job is in nobody's way. *)
LEMMA JobSettleStep ==
    ASSUME ClaimInv, NEW j \in Jobs, NEW settled \in {"open", "ended"},
           JobSettle(j, settled)
    PROVE  ClaimInv'
<1>1. RestType /\ legacy \in LegacyRecord
  BY TypeParts DEF ClaimInv, TypeOK
<1>2. legacy' = [job |-> [legacy.job EXCEPT ![j] = settled],
                 over |-> [legacy.over EXCEPT ![j] = {}],
                 tried |-> legacy.tried, rsv |-> legacy.rsv]
  BY <1>1 DEF LegacyRecord, JobSettle
<1>3. /\ legacy.tried \in SUBSET Jobs
      /\ legacy.rsv \in [Reservations -> {"requested", "live", "released"}]
      /\ settled \notin {"claimed", "late"}
  BY <1>1 DEF LegacyRecord
<1>4. legacy' \in LegacyRecord /\ ExclOK(claims, legacy')
  BY <1>2, <1>3, OneJob
<1>5. RestType'
  BY <1>1, <1>4, CommitCrashes DEF RestType, JobSettle
<1> QED BY <1>4, <1>5, LedgerStep DEF JobSettle, ClaimInv

(* The fence is lifted after the queued claims behind it were canceled. *)
LEMMA RevivedStep ==
    ASSUME ClaimInv, NEW o \in Owners, Revived(o)
    PROVE  ClaimInv'
<1>1. RestType /\ claims \in [Requests -> ClaimRecord]
  BY TypeParts DEF ClaimInv
<1>2. fence \in [Owners -> FenceRecord]
  BY <1>1 DEF RestType
<1>3. /\ claims' \in [Requests -> ClaimRecord]
      /\ ExclOK(claims', legacy)
      /\ FenceOK(claims', fence)
      /\ CutOK(claims', fence, cut)
      /\ \A r \in Requests :
            fence[OwnerOf[r]].command # "none" => claims'[r].state # "waiting"
  <2>1. cut \subseteq Requests
    BY <1>1 DEF RestType
  <2>2. claims' = Sync(claims, fence)
    BY DEF Revived
  <2>3. /\ ExclOK(claims, legacy)
        /\ FenceOK(claims, fence)
        /\ CutOK(claims, fence, cut)
    BY DEF ClaimInv
  <2> QED BY <1>1, <1>2, <2>1, <2>2, <2>3, SyncKeeps, Zenon
<1>4. fence' \in [Owners -> FenceRecord]
  BY <1>2 DEF Revived, FenceRecord
<1>5. outbox' \in [Requests -> NoticeStates]
  BY <1>1 DEF RestType, Revived, ResumeNotices, NoticeStates
<1>6. RestType'
  BY <1>1, <1>4, <1>5 DEF RestType, Revived
<1>7. \A p \in Owners : fence'[p].command =
                          IF p = o THEN "none" ELSE fence[p].command
  BY <1>2 DEF Revived
<1>8. \A r \in Requests : OwnerOf[r] \in Owners
  BY ClaimsAssumption
<1>9. FenceOK(claims', fence')
  BY <1>3, <1>7, <1>8 DEF FenceOK
<1>10. CutOK(claims', fence', cut')
  <2>1. cut' = cut /\ cut \subseteq Requests
    BY <1>1 DEF Revived, RestType
  <2> QED BY <1>3, <1>7, <1>8, <2>1 DEF CutOK
<1>11. TypeOK'
  BY <1>3, <1>6 DEF TypeOK, RestType, ClaimRecord, FenceRecord
<1>12. ExclOK(claims', legacy')
  BY <1>3 DEF Revived
<1> QED BY <1>3, <1>9, <1>10, <1>11, <1>12 DEF ClaimInv

(* Steps that change one claim leave the rest of the state alone. *)
LEMMA OneClaim ==
    ASSUME ClaimInv, RestType',
           claims' \in [Requests -> ClaimRecord],
           ExclOK(claims', legacy'), FenceOK(claims', fence'),
           CutOK(claims', fence', cut')
    PROVE  ClaimInv'
BY DEF ClaimInv, TypeOK, RestType, ClaimRecord, FenceRecord

(* A new request is held only over resources that are not busy. *)
LEMMA AcquireStep ==
    ASSUME ClaimInv, NEW r \in Requests, Acquire(r)
    PROVE  ClaimInv'
<1> DEFINE seq == Cardinality(Requests \ InState("absent")) + 1
           blocked == ~PreparationShared \/ Blocked(r, seq)
           c == [state |-> IF blocked THEN "waiting" ELSE "held",
                 seq |-> seq, pending |-> FALSE]
<1>1. RestType
  BY TypeParts DEF ClaimInv
<1>2. RestType'
  BY <1>1 DEF RestType, Acquire
<1>3. seq \in Nat
  <2>1. IsFiniteSet(Requests \ InState("absent"))
    BY ClaimsAssumption, FS_Difference
  <2>2. Cardinality(Requests \ InState("absent")) \in Nat
    BY <2>1, FS_CardinalityType
  <2> QED BY <2>2
<1>4. c \in ClaimRecord
  <2> HIDE DEF seq, blocked
  <2> QED BY <1>3 DEF ClaimRecord, ClaimStates
<1>5. claims' = [claims EXCEPT ![r] = c]
  BY DEF Acquire
<1>6. c.state = "held" => Needs[r] \cap Busy = {}
  BY DEF Blocked
<1>7. c.state \in {"waiting", "held"}
  OBVIOUS
<1>8. r \notin cut
  BY DEF Acquire, ClaimInv, CutOK
<1>9. ~Fenced(OwnerOf[r]) /\ UNCHANGED <<fence, legacy, cut>>
  BY DEF Acquire, Live
<1> HIDE DEF c, seq, blocked
<1>10. /\ claims' \in [Requests -> ClaimRecord]
        /\ ExclOK(claims', legacy')
       /\ FenceOK(claims', fence')
       /\ CutOK(claims', fence', cut')
  <2>1. r \in Requests /\ c.state = "waiting" => r \notin cut
    BY <1>8
  <2>2. r \in Requests /\ c.state = "held"
          => /\ r \notin cut
             /\ ~Fenced(OwnerOf[r])
             /\ \/ claims[r].state = "held"
                \/ Needs[r] \cap Busy = {}
    BY <1>6, <1>7, <1>8, <1>9
  <2> QED BY <1>4, <1>5, <1>8, <1>9, <2>1, <2>2, ChangeKeeps, Zenon
<1> QED BY <1>2, <1>10, OneClaim

(* Release and cancel only give resources back. *)
LEMMA ChangeClaimStep ==
    ASSUME ClaimInv, NEW r \in Requests, Release(r) \/ Cancel(r)
    PROVE  ClaimInv'
<1>1. RestType /\ claims \in [Requests -> ClaimRecord]
  BY TypeParts DEF ClaimInv
<1>2. PICK d \in {"released", "canceled"} :
         /\ claims' = [claims EXCEPT ![r] = [state |-> d, seq |-> claims[r].seq,
                                             pending |-> FALSE]]
         /\ claims[r].state \in {"held", "waiting"}
         /\ claims[r].state = "held" => d = "released"
         /\ claims[r].state = "waiting" => d = "canceled"
         /\ moved' = moved \ {r}
         /\ UNCHANGED <<fence, reviving, suspended, outbox, legacy, sweep, tick,
                        mail, crashes, cut>>
  BY DEF Release, Cancel, ChangeClaim
<1> DEFINE c == [state |-> d, seq |-> claims[r].seq, pending |-> FALSE]
<1>4. c \in ClaimRecord
  BY <1>1 DEF ClaimRecord, ClaimStates
<1>5. claims' = [claims EXCEPT ![r] = c]
  BY <1>2
<1>6. RestType'
  BY <1>1, <1>2 DEF RestType
<1>7. c.state = d /\ c.state \notin {"held", "waiting"}
  OBVIOUS
<1>8. r \in cut => c.state = "canceled"
  BY <1>2, <1>7 DEF ClaimInv, CutOK
<1> HIDE DEF c
<1>9. /\ claims' \in [Requests -> ClaimRecord]
      /\ ExclOK(claims', legacy')
      /\ FenceOK(claims', fence')
      /\ CutOK(claims', fence', cut')
  BY <1>2, <1>4, <1>5, <1>7, <1>8, ChangeKeeps
<1> QED BY <1>6, <1>9, OneClaim

(* The scheduler grants a live owner's request over idle resources. *)
LEMMA TickGrantStep ==
    ASSUME ClaimInv, TickGrant
    PROVE  ClaimInv'
<1> DEFINE r == First(tick.left)
           c == QueueGrant(claims[r])
<1>1. RestType /\ claims \in [Requests -> ClaimRecord]
  BY TypeParts DEF ClaimInv
<1>2. UNCHANGED <<fence, reviving, suspended, outbox, legacy, moved, sweep,
                  mail, crashes, cut>>
  BY DEF TickGrant
<1>3. tick' \in [owner : Owners \cup {NoOwner},
                step : {"idle", "grant", "announce", "clear"},
                left : SUBSET Requests]
  BY <1>1 DEF RestType, TickGrant
<1>4. RestType'
  BY <1>1, <1>2, <1>3 DEF RestType
<1>5. CASE claims' = claims
  BY <1>1, <1>2, <1>4, <1>5, OneClaim DEF ClaimInv
<1>6. CASE /\ claims[r].state = "waiting"
           /\ ~Blocked(r, claims[r].seq)
           /\ claims' = [claims EXCEPT ![r] = c]
  <2>1. Needs[r] \cap Busy = {}
    BY <1>6 DEF Blocked
  <2>2. r \in Requests => c \in ClaimRecord /\ c.state = "held"
    <3> SUFFICES ASSUME r \in Requests
                 PROVE  c \in ClaimRecord /\ c.state = "held"
      OBVIOUS
    <3>1. claims[r] \in ClaimRecord
      BY <1>1
    <3>2. c = [state |-> "held", seq |-> claims[r].seq, pending |-> TRUE]
      BY DEF QueueGrant
    <3>3. claims[r].seq \in Nat
      BY <3>1 DEF ClaimRecord
    <3> HIDE DEF c
    <3> QED BY <3>2, <3>3 DEF ClaimRecord, ClaimStates
  <2>3. r \in Requests => ~Fenced(OwnerOf[r]) /\ r \notin cut
    <3> SUFFICES ASSUME r \in Requests
                 PROVE  ~Fenced(OwnerOf[r]) /\ r \notin cut
      OBVIOUS
    <3>1. ~Fenced(OwnerOf[r])
      BY DEF TickGrant, Live
    <3> QED BY <1>6, <3>1 DEF ClaimInv, CutOK, Fenced
  <2> HIDE DEF c, r
  <2>4. /\ claims' \in [Requests -> ClaimRecord]
        /\ ExclOK(claims', legacy')
        /\ FenceOK(claims', fence')
        /\ CutOK(claims', fence', cut')
    <3>1. r \in Requests /\ c.state = "waiting" => r \notin cut
      BY <2>2
    <3>2. r \in Requests /\ c.state = "held"
            => /\ r \notin cut
               /\ ~Fenced(OwnerOf[r])
               /\ \/ claims[r].state = "held"
                  \/ Needs[r] \cap Busy = {}
      BY <2>1, <2>2, <2>3
    <3>3. claims' = [claims EXCEPT ![r] = c] /\ UNCHANGED <<fence, legacy, cut>>
      BY <1>2, <1>6
    <3> QED BY <2>2, <2>3, <3>1, <3>2, <3>3, ChangeKeeps, Zenon
  <2> QED BY <1>4, <2>4, OneClaim
<1> QED BY <1>5, <1>6 DEF TickGrant

(* Clearing a notice debt changes no claim's state. *)
LEMMA TickClearStep ==
    ASSUME ClaimInv, TickClear
    PROVE  ClaimInv'
<1> DEFINE r == First(tick.left)
<1>1. RestType /\ claims \in [Requests -> ClaimRecord]
  BY TypeParts DEF ClaimInv
<1>2. UNCHANGED <<fence, reviving, suspended, outbox, legacy, moved, sweep,
                  mail, crashes, cut>>
  BY DEF TickClear
<1>3. tick' \in [owner : Owners \cup {NoOwner},
                step : {"idle", "grant", "announce", "clear"},
                left : SUBSET Requests]
  BY <1>1 DEF RestType, TickClear
<1>4. RestType'
  BY <1>1, <1>2, <1>3 DEF RestType
<1>5. claims' = [claims EXCEPT ![r].pending = FALSE]
  BY DEF TickClear
<1> HIDE DEF r
<1>6. claims' \in [Requests -> ClaimRecord]
  BY <1>1, <1>5 DEF ClaimRecord
<1>7. \A q \in Requests : claims'[q].state = claims[q].state
  BY <1>1, <1>5 DEF ClaimRecord
<1>9. ExclOK(claims', legacy')
  BY <1>2, <1>7 DEF ClaimInv, ExclOK
<1>10. FenceOK(claims', fence')
  BY <1>2, <1>7 DEF ClaimInv, FenceOK
<1>11. CutOK(claims', fence', cut')
  BY <1>1, <1>2, <1>7 DEF ClaimInv, CutOK, RestType
<1> QED BY <1>4, <1>6, <1>9, <1>10, <1>11, OneClaim

(* An empty ledger and an empty claims file satisfy the invariant. *)
LEMMA InitClaimInv == Init => ClaimInv
<1> SUFFICES ASSUME Init PROVE ClaimInv
  OBVIOUS
<1>1. claims \in [Requests -> ClaimRecord]
  BY DEF Init, ClaimRecord, ClaimStates
<1>2. \A r \in Requests : claims[r].state = "absent"
  BY DEF Init
<1>3. RestType
  <2>1. fence \in [Owners -> FenceRecord]
    BY DEF Init, FenceRecord, Commands
  <2>2. outbox \in [Requests -> NoticeStates]
    BY DEF Init, NoticeStates
  <2>3. sweep \in [on : BOOLEAN, victims : SUBSET Resources]
    BY DEF Init
  <2>4. crashes \in 0..MaxCrash
    BY ClaimsAssumption DEF Init
  <2>5. tick = Idle
    BY DEF Init
  <2>6. /\ reviving = {} /\ suspended = FALSE
        /\ moved = {} /\ mail = {} /\ cut = {}
    BY DEF Init
  <2>7. legacy \in LegacyRecord
    BY DEF Init, LegacyRecord
  <2> QED BY <2>1, <2>2, <2>3, <2>4, <2>5, <2>6, <2>7, IdleType DEF RestType
<1>4. TypeOK
  BY <1>1, <1>3, TypeParts
<1>5. cut = {}
  BY DEF Init
<1> QED BY <1>2, <1>4, <1>5 DEF ClaimInv, ExclOK, FenceOK, CutOK

(* Every step keeps the invariant. *)
LEMMA NextClaimInv == ClaimInv /\ [Next]_vars => ClaimInv'
<1> SUFFICES ASSUME ClaimInv, [Next]_vars PROVE ClaimInv'
  OBVIOUS
<1>1. CASE UNCHANGED vars
  BY <1>1 DEF vars, ClaimInv, TypeOK, ExclOK, FenceOK, CutOK
<1>2. CASE Session
  BY <1>2, AcquireStep, ChangeClaimStep, BystanderStep DEF Session, Bystander
<1>3. CASE Scheduler
  BY <1>3, TickGrantStep, TickClearStep, TickEventStep, BystanderStep
     DEF Scheduler, TickStep, Bystander
<1>4. CASE Notifier
  BY <1>4, SendEndStep, BystanderStep DEF Notifier, Bystander
<1>5. CASE Lifecycle
  BY <1>5, BindLifecycleStep, LifecycleCompletedStep, HostTransactionStep,
     RevivedStep DEF Lifecycle
<1>6. CASE Host
  BY <1>6, HostTransactionStep, JobClaimStep, JobLateStep, JobSettleStep,
     BystanderStep DEF Host, Bystander
<1> QED BY <1>1, <1>2, <1>3, <1>4, <1>5, <1>6 DEF Next

(* The inductive invariant of claims.json and the ledger's fences. *)
THEOREM ClaimInvHolds == Spec => []ClaimInv
BY InitClaimInv, NextClaimInv, PTL DEF Spec

(* Held claims exclude each other, live reservations and every claimed job *)
(* but one a late transition put back over them: acquire_claim, tick_claims *)
(* and claim_ready never grant a resource twice, and transition may.       *)
THEOREM Exclusion == Spec => []HeldExclusive
<1>1. ASSUME ClaimInv PROVE HeldExclusive
  <2>1. \A r, q \in InState("held") : r # q => Needs[r] \cap Needs[q] = {}
    BY <1>1 DEF ClaimInv, ExclOK, InState
  <2>2. HeldResources \cap LiveMachines = {}
    BY <1>1 DEF ClaimInv, ExclOK, HeldResources, LiveMachines, InState
  <2>3. \A r \in InState("held"), j \in InClaim :
          Needs[r] \cap Uses[j] # {}
            => legacy.job[j] = "late" /\ r \in legacy.over[j]
    BY <1>1 DEF ClaimInv, ExclOK, InState, InClaim
  <2> QED BY <2>1, <2>2, <2>3 DEF HeldExclusive
<1> QED BY <1>1, ClaimInvHolds, PTL

(* Behind the fence of fence_owners! nothing is held. *)
THEOREM FenceClean == Spec => []FencedHoldsNothing
<1>1. ClaimInv => FencedHoldsNothing
  BY DEF ClaimInv, FenceOK, FencedHoldsNothing, InState, Fenced
<1> QED BY <1>1, ClaimInvHolds, PTL

(* A request queued when its session was fenced is never granted, whatever *)
(* process died between ledger.json and claims.json.                       *)
THEOREM CutStaysCut == Spec => []CutNeverGranted
<1>1. ClaimInv => CutNeverGranted
  BY DEF ClaimInv, CutOK, CutNeverGranted
<1> QED BY <1>1, ClaimInvHolds, PTL

(* Only acquire_claim and the scheduler's pass grant, and each grants a    *)
(* request that claim_blocked? lets through under its sequence number.     *)
LEMMA GrantUnblocked ==
    ASSUME ClaimInv, [Next]_vars, NEW r \in Requests, Granted(r)
    PROVE  ~Blocked(r, claims'[r].seq)
<1>1. claims \in [Requests -> ClaimRecord]
  BY TypeParts DEF ClaimInv
<1>2. claims[r].state # "held" /\ claims'[r].state = "held"
  BY DEF Granted
<1>3. claims' # claims
  BY <1>2
<1>4. \A f : \A q \in Requests :
        Sync(claims, f)[q].state = "held" => claims[q].state = "held"
  BY <1>1 DEF Sync, ClaimRecord
<1>5. ASSUME NEW dies \in BOOLEAN, Commit(dies) PROVE FALSE
  BY <1>2, <1>3, <1>4, <1>5, Zenon DEF Commit
<1>6. CASE Session
  <2>1. CASE Acquire(r)
    <3> DEFINE seq == Cardinality(Requests \ InState("absent")) + 1
               blocked == ~PreparationShared \/ Blocked(r, seq)
    <3>1. claims' = [claims EXCEPT ![r] =
                       [state |-> IF blocked THEN "waiting" ELSE "held",
                        seq |-> seq, pending |-> FALSE]]
      BY <2>1 DEF Acquire
    <3> HIDE DEF seq, blocked
    <3>2. claims'[r].seq = seq /\ ~blocked
      BY <1>1, <1>2, <3>1
    <3> QED BY <3>2 DEF blocked
  <2>2. CASE \E q \in Requests : q # r /\ Acquire(q)
    BY <1>1, <1>2, <2>2 DEF Acquire
  <2>3. CASE \E q \in Requests : Release(q) \/ Cancel(q)
    <3>1. PICK q \in Requests, d \in {"released", "canceled"} :
            claims' = [claims EXCEPT ![q] = [state |-> d, seq |-> claims[q].seq,
                                             pending |-> FALSE]]
      BY <2>3, Zenon DEF Release, Cancel, ChangeClaim
    <3>2. claims'[q].state = d
      BY <1>1, <3>1 DEF ClaimRecord
    <3>3. q # r => claims'[r] = claims[r]
      BY <1>1, <3>1
    <3> QED BY <1>2, <3>2, <3>3
  <2>4. CASE \E q \in Requests : Remap(q)
    BY <1>3, <2>4 DEF Remap
  <2> QED BY <1>6, <2>1, <2>2, <2>3, <2>4 DEF Session
<1>7. CASE TickGrant
  <2> DEFINE w == First(tick.left)
  <2>1. /\ claims[w].state = "waiting"
        /\ ~Blocked(w, claims[w].seq)
        /\ claims' = [claims EXCEPT ![w] = QueueGrant(@)]
    BY <1>3, <1>7 DEF TickGrant
  <2> HIDE DEF w
  <2>2. w = r
    BY <1>1, <1>2, <2>1
  <2>3. claims'[r].seq = claims[r].seq
    BY <1>1, <2>1, <2>2 DEF QueueGrant
  <2> QED BY <2>1, <2>2, <2>3
<1>8. CASE TickClear
  BY <1>1, <1>2, <1>8 DEF TickClear
<1>9. CASE \E o \in Owners : Revived(o)
  BY <1>2, <1>4, <1>9, Zenon DEF Revived
<1>10. CASE UNCHANGED claims
  BY <1>3, <1>10
<1>11. CASE \E dies \in BOOLEAN : Commit(dies)
  BY <1>5, <1>11
<1>12. CASE Scheduler
  BY <1>7, <1>8, <1>10, <1>11, <1>12 DEF Scheduler, TickStep, TickStart,
     TickRefused, TickOwed, TickEnd, TickEvent, TickKilled
<1>13. CASE Notifier
  BY <1>10, <1>11, <1>13 DEF Notifier, SendStart, SendEnd, SendKilled
<1>14. CASE Lifecycle
  BY <1>9, <1>11, <1>14 DEF Lifecycle, BindLifecycle, LifecycleCompleted,
     BindRevival
<1>15. CASE Host
  BY <1>10, <1>11, <1>15 DEF Host, SetSuspended, JobClaim, JobLate,
     JobSettle, ReservationEnd, SweepStart, SweepRemove, SweepEnd
<1> QED BY <1>6, <1>10, <1>12, <1>13, <1>14, <1>15 DEF Next, vars

(* An earlier queued request that asks for no more is never overtaken, by  *)
(* acquire_claim or by the scheduler: were it blocked by a busy resource,  *)
(* the later request would be blocked by the same one.                     *)
THEOREM QueueOrder == Spec => NoOvertaking
<1>1. ASSUME ClaimInv, [Next]_vars, NEW r \in Requests, Granted(r),
             NEW q \in InState("waiting") \ {r}, Needs[q] \subseteq Needs[r],
             claims[q].seq < claims'[r].seq
      PROVE  FALSE
  <2>1. ~Blocked(r, claims'[r].seq)
    BY <1>1, GrantUnblocked
  <2>2. Needs[q] \cap Busy = {}
    BY <1>1, <2>1 DEF Blocked
  <2>3. Needs[q] \cap Needs[r] # {}
    BY <1>1, ClaimsAssumption DEF InState
  <2> QED BY <1>1, <2>1, <2>2, <2>3 DEF Blocked
<1>2. ClaimInv /\ [Next]_vars =>
        [\A r \in Requests : Granted(r) =>
           ~\E q \in InState("waiting") \ {r} :
               /\ Needs[q] \subseteq Needs[r]
               /\ claims[q].seq < claims'[r].seq]_vars
  BY <1>1
<1> QED BY <1>2, ClaimInvHolds, PTL DEF Spec, NoOvertaking

(* The collector's lock excludes every step that grants: while it is held  *)
(* the scheduler is between two owners and nothing is granted.             *)
SweepInv ==
    /\ sweep.on => tick = Idle
    /\ ~sweep.on => sweep.victims = {}
    /\ SweepUndisturbed

LEMMA SweepExcludes ==
    ASSUME ClaimInv, sweep.on, tick = Idle, Next, sweep' = sweep
    PROVE  /\ tick' = Idle
           /\ \A j \in Jobs : legacy'.job[j] = "claimed" => legacy.job[j] = "claimed"
           /\ \A r \in Requests :
                 claims'[r].state = "held" => claims[r].state = "held"
<1>1. claims \in [Requests -> ClaimRecord]
  BY TypeParts DEF ClaimInv
<1>2. \A f : \A q \in Requests :
        Sync(claims, f)[q].state = "held" => claims[q].state = "held"
  BY <1>1 DEF Sync, ClaimRecord
<1>3. ASSUME NEW dies \in BOOLEAN, Commit(dies)
      PROVE  \A r \in Requests :
                claims'[r].state = "held" => claims[r].state = "held"
  BY <1>2, <1>3, Zenon DEF Commit
<1>4. tick.step = "idle" /\ tick.owner = NoOwner
  BY DEF Idle
<1>5. CASE Session
  <2>1. CASE \E q \in Requests : Acquire(q)
    <3>1. PICK q \in Requests : Acquire(q)
      BY <2>1
    <3>2. PICK seq : claims' = [claims EXCEPT ![q] =
                       [state |-> "waiting", seq |-> seq, pending |-> FALSE]]
      BY <3>1 DEF Acquire, PreparationShared
    <3>3. \A r \in Requests : claims'[r].state = "held" => claims[r].state = "held"
      BY <1>1, <3>2
    <3>4. UNCHANGED <<tick, legacy>>
      BY <3>1 DEF Acquire
    <3> QED BY <3>3, <3>4
  <2>2. CASE \E q \in Requests : Release(q) \/ Cancel(q)
    <3>1. PICK q \in Requests, d \in {"released", "canceled"} :
            claims' = [claims EXCEPT ![q] = [state |-> d, seq |-> claims[q].seq,
                                             pending |-> FALSE]]
      BY <2>2, Zenon DEF Release, Cancel, ChangeClaim
    <3>2. claims'[q].state = d
      BY <1>1, <3>1 DEF ClaimRecord
    <3>3. \A r \in Requests : q # r => claims'[r] = claims[r]
      BY <1>1, <3>1
    <3>4. UNCHANGED <<tick, legacy>>
      BY <2>2 DEF Release, Cancel, ChangeClaim
    <3> QED BY <3>2, <3>3, <3>4
  <2>3. CASE \E q \in Requests : Remap(q)
    BY <2>3 DEF Remap
  <2> QED BY <1>5, <2>1, <2>2, <2>3 DEF Session
<1>6. CASE Scheduler
  BY <1>4, <1>6 DEF Scheduler, TickStart, TickStep, TickGrant, TickRefused, TickOwed,
     TickClear, TickEnd, TickEvent, TickKilled
<1>7. CASE Notifier
  BY <1>3, <1>7 DEF Notifier, SendStart, SendKilled, SendEnd
<1>8. CASE Lifecycle
  <2>1. CASE \E o \in Owners : Revived(o)
    BY <1>2, <2>1 DEF Revived
  <2>2. CASE \E o \in Owners : \E dies \in BOOLEAN :
                \/ \E c \in Commands : BindLifecycle(o, c, dies)
                \/ LifecycleCompleted(o, dies) \/ BindRevival(o, dies)
    BY <1>3, <2>2 DEF BindLifecycle, LifecycleCompleted, BindRevival
  <2> QED BY <1>8, <2>1, <2>2 DEF Lifecycle
<1>9. CASE Host
  <2>1. CASE \E value, dies \in BOOLEAN : SetSuspended(value, dies)
    BY <1>3, <2>1 DEF SetSuspended
  <2>2. CASE \E j \in Jobs : \/ JobClaim(j) \/ JobLate(j)
                             \/ \E settled \in {"open", "ended"} : JobSettle(j, settled)
    <3>1. legacy \in LegacyRecord
      BY DEF ClaimInv, TypeOK
    <3>2. PICK j \in Jobs :
             JobLate(j) \/ \E settled \in {"open", "ended"} : JobSettle(j, settled)
      BY <2>2 DEF JobClaim
    <3>6. \E state \in {"late", "open", "ended"} :
             legacy'.job = [legacy.job EXCEPT ![j] = state]
      <4>1. CASE JobLate(j)
        BY <3>1, <4>1 DEF LegacyRecord, JobLate
      <4>2. ASSUME NEW settled \in {"open", "ended"}, JobSettle(j, settled)
            PROVE  legacy'.job = [legacy.job EXCEPT ![j] = settled]
        BY <3>1, <4>2 DEF LegacyRecord, JobSettle
      <4> QED BY <3>2, <4>1, <4>2
    <3>3. \A k \in Jobs : legacy'.job[k] = "claimed" => legacy.job[k] = "claimed"
      BY <3>1, <3>6 DEF LegacyRecord
    <3>4. tick' = tick
      BY <2>2 DEF JobClaim, JobLate, JobSettle
    <3>5. \A r \in Requests : claims'[r].state = "held" => claims[r].state = "held"
      BY <1>3, <2>2 DEF JobClaim, JobLate, JobSettle
    <3> QED BY <3>3, <3>4, <3>5
  <2>4. CASE \E v \in Reservations : ReservationEnd(v)
    <3>1. \A k \in Jobs : legacy'.job[k] = "claimed" => legacy.job[k] = "claimed"
      BY <2>4 DEF ReservationEnd, ClaimInv, TypeOK, LegacyRecord
    <3> QED BY <1>3, <2>4, <3>1 DEF ReservationEnd
  <2>3. CASE SweepStart \/ SweepEnd \/ \E x \in GitDirectories : SweepRemove(x)
    BY <2>3 DEF SweepStart, SweepEnd, SweepRemove
  <2> QED BY <1>9, <2>1, <2>2, <2>3, <2>4 DEF Host
<1> QED BY <1>5, <1>6, <1>7, <1>8, <1>9 DEF Next

LEMMA SweepChanges ==
    ASSUME Next, sweep' # sweep
    PROVE  SweepStart \/ SweepEnd \/ \E x \in GitDirectories : SweepRemove(x)
BY DEF Next, Session, Acquire, Release, Cancel, ChangeClaim, Remap, Scheduler, TickStart,
   TickStep, TickGrant, TickRefused, TickOwed, TickClear, TickEnd, TickEvent, TickKilled,
   Notifier, SendStart, SendKilled, SendEnd, Lifecycle, Revived, BindLifecycle,
   LifecycleCompleted, BindRevival, Host, SetSuspended, JobClaim, JobLate, JobSettle,
   ReservationEnd

LEMMA SweepNext ==
    ASSUME ClaimInv, SweepInv, [Next]_vars
    PROVE  SweepInv'
<1>0. sweep \in [on : BOOLEAN, victims : SUBSET Resources]
  BY DEF ClaimInv, TypeOK
<1>1. CASE UNCHANGED vars
  BY <1>1 DEF vars, SweepInv, SweepUndisturbed, GrantedResources, HeldResources, InState
<1>2. CASE Next /\ sweep' = sweep
  <2>1. CASE ~sweep.on
    BY <1>2, <2>1 DEF SweepInv, SweepUndisturbed
  <2>2. CASE sweep.on
    <3>1. /\ tick' = Idle
          /\ \A j \in Jobs : legacy'.job[j] = "claimed" => legacy.job[j] = "claimed"
          /\ \A r \in Requests :
                claims'[r].state = "held" => claims[r].state = "held"
      BY <1>2, <2>2, SweepExcludes DEF SweepInv
    <3>2. GrantedResources' \subseteq GrantedResources
      BY <3>1 DEF GrantedResources, HeldResources, InState
    <3> QED BY <1>2, <2>2, <3>1, <3>2 DEF SweepInv, SweepUndisturbed
  <2> QED BY <2>1, <2>2
<1>3. CASE Next /\ sweep' # sweep
  <2>1. CASE SweepStart
    <3>1. sweep'.on = TRUE /\ sweep'.victims = {} /\ tick' = Idle
      BY <2>1 DEF SweepStart
    <3> QED BY <3>1 DEF SweepInv, SweepUndisturbed
  <2>2. CASE SweepEnd
    <3>1. sweep'.on = FALSE /\ sweep'.victims = {}
      BY <2>2 DEF SweepEnd
    <3> QED BY <3>1 DEF SweepInv, SweepUndisturbed
  <2>3. ASSUME NEW x \in GitDirectories, SweepRemove(x) PROVE SweepInv'
    <3>1. /\ sweep.on /\ x \notin Busy /\ UNCHANGED <<claims, legacy, tick>>
          /\ sweep' = [sweep EXCEPT !.victims = sweep.victims \cup {x}]
      BY <2>3 DEF SweepRemove
    <3>2. sweep'.on /\ sweep'.victims = sweep.victims \cup {x}
      BY <1>0, <3>1
    <3>3. GrantedResources' = GrantedResources /\ GrantedResources \subseteq Busy
      BY <3>1 DEF GrantedResources, Busy, JobResources, InClaim, HeldResources, InState
    <3> QED BY <3>1, <3>2, <3>3 DEF SweepInv, SweepUndisturbed
  <2> QED BY <1>3, <2>1, <2>2, <2>3, SweepChanges
<1> QED BY <1>1, <1>2, <1>3

(* While the collector removes worktrees, no removed directory is held or  *)
(* claimed: neither acquire_claim nor the scheduler grants behind its      *)
(* exclusive preparation lock, and it removes nothing that is busy.        *)
THEOREM CollectorAlone == Spec => []SweepUndisturbed
<1>1. Init => SweepInv
  BY DEF Init, SweepInv, SweepUndisturbed
<1>2. ClaimInv /\ SweepInv /\ [Next]_vars => SweepInv'
  BY SweepNext
<1>3. SweepInv => SweepUndisturbed
  BY DEF SweepInv
<1> QED BY <1>1, <1>2, <1>3, ClaimInvHolds, PTL DEF Spec

=============================================================================
