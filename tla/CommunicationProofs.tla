------------------------- MODULE CommunicationProofs -------------------------
(***************************************************************************)
(* Delivery between leads, for every set of sessions, messages and grants, *)
(* every size of the state file and any number of restarts: a message is   *)
(* submitted at most once and only under its grant, history is true, and   *)
(* no grant outlives a session.                                            *)
(*                                                                         *)
(* The first three need one invariant.  A submission that left makes       *)
(* its message submitting or delivered, so neither a revocation nor a      *)
(* later dispatch treats it as unsent; and a dispatch about to submit      *)
(* still has what it checked, because it holds the locks.                  *)
(***************************************************************************)
EXTENDS Communication, TLAPS

MessageRecord == [status : Statuses, grant : SUBSET Grants,
                  from : SUBSET Identities, to : SUBSET Identities,
                  options : BOOLEAN, detail : BOOLEAN]

Types ==
    /\ lead \in [Slugs -> [inc : 1..MaxInc, phase : {"open", "closing", "expired"}]]
    /\ msgs \in [Ids -> MessageRecord]
    /\ calls \in [Ids -> Nat]
    /\ accepted \in [Ids -> Nat]
    /\ holder \in [step : {"free", "send", "await"}, id : SUBSET Ids]

(* What has left is not taken for unsent. *)
LeftOnce ==
    \A i \in Ids :
        /\ calls[i] <= 1
        /\ calls[i] > 0 => msgs[i].status \in {"submitting", "delivered"}
        /\ msgs[i].status = "delivered" => accepted[i] > 0

(* The dispatch that holds the locks. *)
Submitting ==
    \A i \in holder.id :
        /\ msgs[i].status = "submitting"
        /\ holder.step = "send" => calls[i] = 0 /\ Allowed(i)

MailInv == Types /\ LeftOnce /\ Submitting

(* A message with another status and detail is a message. *)
LEMMA RecordChanged ==
    ASSUME NEW m \in MessageRecord, NEW status \in Statuses, NEW detail \in BOOLEAN
    PROVE  [m EXCEPT !.status = status, !.detail = detail] \in MessageRecord
BY DEF MessageRecord

LEMMA OptionsChanged ==
    ASSUME NEW m \in MessageRecord, NEW status \in Statuses
    PROVE  [m EXCEPT !.status = status, !.options = TRUE, !.detail = FALSE]
              \in MessageRecord
BY DEF MessageRecord

(* A dispatch outside a submission changes the status of one message: not  *)
(* one that has left, unless it stays submitting or was accepted.          *)
LEMMA SettleKeeps ==
    ASSUME MailInv, NEW i \in Ids, NEW status \in Statuses, Settle(i, status),
           UNCHANGED <<lead, grants, calls, accepted>>,
           holder' = Free,
           calls[i] > 0 => status \in {"submitting", "delivered"},
           status = "delivered" => accepted[i] > 0
    PROVE  MailInv'
<1>1. msgs' = [msgs EXCEPT ![i].status = status,
                           ![i].detail = (status # "delivered")]
  BY DEF Settle
<1>2. Types'
  <2>1. msgs' \in [Ids -> MessageRecord]
    <3>1. (status # "delivered") \in BOOLEAN
      OBVIOUS
    <3>2. msgs[i] \in MessageRecord
      BY DEF MailInv, Types
    <3>3. [msgs[i] EXCEPT !.status = status, !.detail = (status # "delivered")]
            \in MessageRecord
      BY <3>1, <3>2, RecordChanged
    <3>4. msgs' = [msgs EXCEPT ![i] = [msgs[i] EXCEPT !.status = status,
                                          !.detail = (status # "delivered")]]
      BY <1>1 DEF MailInv, Types
    <3> QED BY <3>3, <3>4 DEF MailInv, Types
  <2> QED BY <2>1 DEF MailInv, Types, Free
<1>3. \A k \in Ids : /\ k # i => msgs'[k] = msgs[k]
                     /\ k = i => msgs'[k].status = status
  BY <1>1 DEF MailInv, Types, MessageRecord
<1>4. LeftOnce'
  BY <1>3 DEF MailInv, LeftOnce
<1>5. Submitting'
  BY DEF Submitting, Free
<1> QED BY <1>2, <1>4, <1>5 DEF MailInv

(* A revocation or an expiry changes only messages that have not left. *)
LEMMA CancelKeeps ==
    ASSUME MailInv, NEW R, msgs' = CancelUnsent(msgs, R), holder = Free,
           lead' \in [Slugs -> [inc : 1..MaxInc,
                                phase : {"open", "closing", "expired"}]],
           UNCHANGED <<holder, calls, accepted>>
    PROVE  MailInv'
<1>1. \A k \in Ids :
         \/ msgs'[k] = msgs[k]
         \/ /\ msgs[k].status \in {"pending", "held"}
            /\ msgs'[k] = [msgs[k] EXCEPT !.status = "canceled", !.detail = TRUE]
  BY DEF CancelUnsent
<1>2. msgs' \in [Ids -> MessageRecord]
  <2>1. \A k \in Ids : msgs'[k] \in MessageRecord
    <3> SUFFICES ASSUME NEW k \in Ids PROVE msgs'[k] \in MessageRecord
      OBVIOUS
    <3>1. msgs[k] \in MessageRecord /\ "canceled" \in Statuses /\ TRUE \in BOOLEAN
      BY DEF MailInv, Types, Statuses
    <3>2. [msgs[k] EXCEPT !.status = "canceled", !.detail = TRUE] \in MessageRecord
      BY <3>1, RecordChanged
    <3> QED BY <1>1, <3>1, <3>2
  <2> QED BY <2>1 DEF CancelUnsent
<1>3. Types'
  BY <1>2 DEF MailInv, Types
<1>4. \A k \in Ids :
         \/ msgs'[k].status = msgs[k].status
         \/ msgs[k].status \in {"pending", "held"} /\ msgs'[k].status = "canceled"
  <2> SUFFICES ASSUME NEW k \in Ids
               PROVE  \/ msgs'[k].status = msgs[k].status
                      \/ /\ msgs[k].status \in {"pending", "held"}
                         /\ msgs'[k].status = "canceled"
    OBVIOUS
  <2>1. msgs[k] \in MessageRecord
    BY DEF MailInv, Types
  <2>2. [msgs[k] EXCEPT !.status = "canceled", !.detail = TRUE].status = "canceled"
    BY <2>1 DEF MessageRecord
  <2> QED BY <1>1, <2>2
<1>5. LeftOnce'
  BY <1>4 DEF MailInv, LeftOnce
<1>6. Submitting'
  BY DEF Submitting, Free
<1> QED BY <1>3, <1>5, <1>6 DEF MailInv

(* The initial state. *)
LEMMA MailInit == Init => MailInv
<1> SUFFICES ASSUME Init PROVE MailInv
  OBVIOUS
<1>1. Types
  BY CommunicationAssumption DEF Init, Types, MessageRecord, Statuses, Free
<1>2. LeftOnce
  BY DEF Init, LeftOnce
<1>3. Submitting
  BY DEF Init, Submitting, Free
<1> QED BY <1>1, <1>2, <1>3 DEF MailInv

(* Every step keeps the invariant. *)
LEMMA MailNext == MailInv /\ [Next]_vars => MailInv'
<1> SUFFICES ASSUME MailInv, [Next]_vars PROVE MailInv'
  OBVIOUS
<1>1. ASSUME NEW s \in Slugs, NEW p \in Slugs, Allow(s, p)
      PROVE  MailInv'
  BY <1>1 DEF Allow, StoreFree, Free, MailInv, Types, LeftOnce, Submitting
<1>2. ASSUME NEW s \in Slugs, NEW p \in Slugs, Revoke(s, p)
      PROVE  MailInv'
  <2>1. PICK R : msgs' = CancelUnsent(msgs, R)
    BY <1>2 DEF Revoke
  <2>2. holder = Free /\ UNCHANGED <<lead, holder, calls, accepted>>
    BY <1>2 DEF Revoke, StoreFree
  <2> QED BY <2>1, <2>2, CancelKeeps DEF MailInv, Types
<1>3. ASSUME NEW i \in Ids, NEW s \in Slugs, NEW p \in Slugs, SendMessage(i, s, p)
      PROVE  MailInv'
  <2>1. PICK m \in MessageRecord :
           m.status = "pending" /\ msgs' = [msgs EXCEPT ![i] = m]
    <3> DEFINE m == [status |-> "pending", grant |-> Live(Identity(s), Identity(p)),
                     from |-> {Identity(s)}, to |-> {Identity(p)},
                     options |-> FALSE, detail |-> FALSE]
    <3>1. Identity(s) \in Identities /\ Identity(p) \in Identities
      BY DEF MailInv, Types, Identity, Identities
    <3>2. m \in MessageRecord
      BY <3>1 DEF MessageRecord, Statuses, Unfinished, Live
    <3>3. m.status = "pending" /\ msgs' = [msgs EXCEPT ![i] = m]
      BY <1>3 DEF SendMessage
    <3> QED BY <3>2, <3>3
  <2>2. holder = Free /\ UNCHANGED <<lead, holder, calls, accepted>>
        /\ msgs[i].status = "absent"
    BY <1>3 DEF SendMessage, StoreFree
  <2>3. Types'
    BY <2>1, <2>2 DEF MailInv, Types
  <2>4. LeftOnce'
    BY <2>1, <2>2 DEF MailInv, Types, LeftOnce
  <2>5. Submitting'
    BY <2>2 DEF Submitting, Free
  <2> QED BY <2>3, <2>4, <2>5 DEF MailInv
<1>4. ASSUME NEW i \in Ids, Dispatch(i)
      PROVE  MailInv'
  <2> USE DEF Statuses, Unfinished
  <2>1. CASE DispatchFound(i)
    BY <2>1, SettleKeeps DEF DispatchFound, StoreFree
  <2>2. CASE DispatchUncertain(i)
    BY <2>2, SettleKeeps DEF DispatchUncertain, StoreFree
  <2>3. Unsent(i) => calls[i] = 0
    BY DEF Unsent, ReconciledAbsent, MailInv, LeftOnce, Types
  <2>4. CASE DispatchDisallowed(i)
    BY <2>3, <2>4, SettleKeeps DEF DispatchDisallowed, StoreFree
  <2>5. CASE DispatchHeld(i)
    BY <2>3, <2>5, SettleKeeps DEF DispatchHeld, StoreFree
  <2>6. CASE DispatchSubmit(i)
    <3>1. /\ msgs' = [msgs EXCEPT ![i].status = "submitting", ![i].options = TRUE,
                                  ![i].detail = FALSE]
          /\ holder' = [step |-> "send", id |-> {i}]
          /\ UNCHANGED <<lead, grants, calls, accepted>>
          /\ Allowed(i) /\ calls[i] = 0
      BY <2>3, <2>6 DEF DispatchSubmit
    <3>2. Types'
      <4>1. [msgs[i] EXCEPT !.status = "submitting", !.options = TRUE,
                            !.detail = FALSE] \in MessageRecord
        <5>1. msgs[i] \in MessageRecord /\ "submitting" \in Statuses
          BY DEF MailInv, Types, Statuses
        <5> QED BY <5>1, OptionsChanged
      <4>2. msgs' = [msgs EXCEPT ![i] = [msgs[i] EXCEPT !.status = "submitting",
                                            !.options = TRUE, !.detail = FALSE]]
        BY <3>1 DEF MailInv, Types
      <4> QED BY <3>1, <4>1, <4>2 DEF MailInv, Types
    <3>3. /\ \A k \in Ids \ {i} : msgs'[k] = msgs[k]
          /\ msgs'[i].status = "submitting"
          /\ msgs'[i].grant = msgs[i].grant
          /\ msgs'[i].from = msgs[i].from
          /\ msgs'[i].to = msgs[i].to
      BY <3>1 DEF MailInv, Types, MessageRecord
    <3>4. LeftOnce'
      BY <3>1, <3>3 DEF MailInv, LeftOnce
    <3>5. Allowed(i)'
      BY <3>1, <3>3 DEF Allowed, Resolves, Identity
    <3>6. Submitting'
      BY <3>1, <3>3, <3>5 DEF Submitting
    <3> QED BY <3>2, <3>4, <3>6 DEF MailInv
  <2> QED BY <1>4, <2>1, <2>2, <2>4, <2>5, <2>6 DEF Dispatch
<1>5. ASSUME NEW i \in Ids, Submission(i)
      PROVE  MailInv'
  <2>1. CASE SendCall(i)
    <3>1. /\ holder = [step |-> "send", id |-> {i}]
          /\ holder' = [step |-> "await", id |-> {i}]
          /\ calls' = [calls EXCEPT ![i] = @ + 1]
          /\ UNCHANGED <<lead, grants, msgs, accepted>>
      BY <2>1 DEF SendCall
    <3>2. calls[i] = 0 /\ msgs[i].status = "submitting"
      BY <3>1 DEF MailInv, Submitting
    <3>3. Types'
      BY <3>1 DEF MailInv, Types
    <3>4. LeftOnce'
      BY <3>1, <3>2 DEF MailInv, Types, LeftOnce
    <3>5. Submitting'
      BY <3>1, <3>2 DEF Submitting
    <3> QED BY <3>3, <3>4, <3>5 DEF MailInv
  <2>2. CASE SendUnknown(i)
    BY <2>2, SettleKeeps DEF SendUnknown, Unconfirmed, Statuses, Unfinished
  <2>3. CASE SendConfirmed(i)
    BY <2>3, SettleKeeps DEF SendConfirmed, Statuses, Unfinished
  <2> QED BY <1>5, <2>1, <2>2, <2>3 DEF Submission
<1>6. ASSUME NEW s \in Slugs, Close(s)
      PROVE  MailInv'
  <2>1. /\ lead' = [lead EXCEPT ![s].phase = "closing"]
        /\ UNCHANGED <<grants, msgs, holder, calls, accepted>>
        /\ SessionFree(s)
    BY <1>6 DEF Close
  <2>2. Types'
    BY <2>1 DEF MailInv, Types
  <2>3. LeftOnce'
    BY <2>1 DEF MailInv, LeftOnce
  <2>4. ASSUME NEW i \in holder.id, Allowed(i)
        PROVE  Allowed(i)'
    <3>1. \A x \in msgs[i].from \cup msgs[i].to : x.slug \in Slugs /\ x.slug # s
      BY <2>1, <2>4 DEF SessionFree, MailInv, Types, MessageRecord, Identities
    <3>2. \A r \in Slugs \ {s} : lead'[r] = lead[r]
      BY <2>1 DEF MailInv, Types
    <3> QED BY <2>1, <2>4, <3>1, <3>2 DEF Allowed, Resolves, Identity
  <2>5. Submitting'
    BY <2>1, <2>4 DEF MailInv, Submitting
  <2> QED BY <2>2, <2>3, <2>5 DEF MailInv
<1>7. ASSUME NEW s \in Slugs, Expire(s)
      PROVE  MailInv'
  <2>1. PICK R : msgs' = CancelUnsent(msgs, R)
    BY <1>7 DEF Expire
  <2>2. holder = Free /\ UNCHANGED <<holder, calls, accepted>>
        /\ lead' = [lead EXCEPT ![s].phase = "expired"]
    BY <1>7 DEF Expire, StoreFree
  <2>3. lead' \in [Slugs -> [inc : 1..MaxInc, phase : {"open", "closing", "expired"}]]
    BY <2>2 DEF MailInv, Types
  <2> QED BY <2>1, <2>2, <2>3, CancelKeeps
<1>8. ASSUME NEW s \in Slugs, NEW inc \in 1..MaxInc, Reopen(s, inc)
      PROVE  MailInv'
  <2>1. /\ lead[s].phase = "expired"
        /\ lead' = [lead EXCEPT ![s] = [inc |-> inc, phase |-> "open"]]
        /\ UNCHANGED <<grants, msgs, holder, calls, accepted>>
    BY <1>8 DEF Reopen
  <2>2. Types'
    BY <2>1 DEF MailInv, Types
  <2>3. LeftOnce'
    BY <2>1 DEF MailInv, LeftOnce
  <2>4. ASSUME NEW i \in holder.id, Allowed(i)
        PROVE  Allowed(i)'
    <3>1. \A x \in msgs[i].from \cup msgs[i].to : x.slug \in Slugs /\ x.slug # s
      BY <2>1, <2>4 DEF Allowed, Resolves, MailInv, Types, MessageRecord, Identities
    <3>2. \A r \in Slugs \ {s} : lead'[r] = lead[r]
      BY <2>1 DEF MailInv, Types
    <3> QED BY <2>1, <2>4, <3>1, <3>2 DEF Allowed, Resolves, Identity
  <2>5. Submitting'
    BY <2>1, <2>4 DEF MailInv, Submitting
  <2> QED BY <2>2, <2>3, <2>5 DEF MailInv
<1>9. ASSUME NEW i \in Ids, Accept(i) \/ Lose(i)
      PROVE  MailInv'
  <2>1. /\ UNCHANGED <<lead, grants, msgs, holder, calls>>
        /\ accepted' \in [Ids -> Nat]
        /\ \A k \in Ids : accepted'[k] >= accepted[k]
    BY <1>9 DEF Accept, Lose, MailInv, Types
  <2>2. Types'
    BY <2>1 DEF MailInv, Types
  <2>3. LeftOnce'
    BY <2>1 DEF MailInv, Types, LeftOnce
  <2>4. Submitting'
    BY <2>1 DEF MailInv, Submitting, Allowed, Resolves, Identity
  <2> QED BY <2>2, <2>3, <2>4 DEF MailInv
<1>10. ASSUME Killed
       PROVE  MailInv'
  BY <1>10 DEF Killed, Free, MailInv, Types, LeftOnce, Submitting
<1>11. CASE UNCHANGED vars
  BY <1>11 DEF vars, MailInv, Types, LeftOnce, Submitting, Allowed, Resolves, Identity
<1> QED
  BY <1>1, <1>2, <1>3, <1>4, <1>5, <1>6, <1>7, <1>8, <1>9, <1>10, <1>11
     DEF Next, Command, Lifecycle, Native

(* Every reachable state has the invariant. *)
LEMMA MailInvariant == Spec => []MailInv
BY MailInit, MailNext, PTL DEF Spec

(* The service never submits a message twice, whatever is lost, late or    *)
(* restarted between its saves (Service.Dispatch).                         *)
THEOREM OnceOnly == Spec => []SubmittedOnce
<1>1. MailInv => SubmittedOnce
  BY DEF MailInv, LeftOnce, SubmittedOnce
<1> QED BY <1>1, MailInvariant, PTL

(* A message recorded as delivered was accepted, and one recorded as       *)
(* canceled never left (Service.Dispatch, revoke and Expire).              *)
THEOREM TrueHistory == Spec => []HistoryTrue
<1>1. MailInv => HistoryTrue
  BY DEF MailInv, Types, LeftOnce, HistoryTrue
<1> QED BY <1>1, MailInvariant, PTL

(* No submission leaves without a live grant for exactly the sessions that *)
(* are there (the locks of Service.Dispatch, Service.Run and Expire).      *)
THEOREM OnlyUnderGrant == Spec => SentUnderGrant
<1>1. MailInv /\ [Next]_vars
        => [\A i \in Ids : calls'[i] > calls[i] => Allowed(i)]_vars
  <2> SUFFICES ASSUME MailInv, Next, NEW i \in Ids, calls'[i] > calls[i]
               PROVE  Allowed(i)
    OBVIOUS
  <2>1. PICK k \in Ids : SendCall(k)
    <3>1. calls' # calls
      BY DEF MailInv, Types
    <3> QED
      BY <3>1 DEF Next, Command, Lifecycle, Native, Dispatch, Submission, Killed,
           Allow, Revoke, SendMessage, Close, Expire, Reopen, Accept, Lose,
           DispatchFound, DispatchUncertain, DispatchDisallowed, DispatchHeld,
           DispatchSubmit, SendUnknown, SendConfirmed
  <2>2. k = i
    BY <2>1 DEF SendCall, MailInv, Types
  <2> QED BY <2>1, <2>2 DEF SendCall, MailInv, Submitting
<1> QED BY <1>1, MailInvariant, PTL DEF Spec, SentUnderGrant

(* The grants of a session end with it: GrantsEndWithSession is inductive  *)
(* once the type of the grants is known.                                   *)
GrantTypes ==
    /\ lead \in [Slugs -> [inc : 1..MaxInc, phase : {"open", "closing", "expired"}]]
    /\ grants \in [Grants -> [state : {"none", "live", "revoked"},
                              pair : SUBSET Identities]]

LEMMA GrantsInit == Init => GrantTypes /\ GrantsEndWithSession
<1> SUFFICES ASSUME Init PROVE GrantTypes /\ GrantsEndWithSession
  OBVIOUS
<1>1. GrantTypes
  BY CommunicationAssumption DEF Init, GrantTypes
<1>2. GrantsEndWithSession
  BY DEF Init, GrantsEndWithSession
<1> QED BY <1>1, <1>2

(* Only an approval makes a grant live, and only of sessions that are      *)
(* open; an expiry leaves none of its slug.                                *)
LEMMA GrantsNext ==
    GrantTypes /\ GrantsEndWithSession /\ [Next]_vars
        => GrantTypes' /\ GrantsEndWithSession'
<1> SUFFICES ASSUME GrantTypes, GrantsEndWithSession, [Next]_vars
             PROVE  GrantTypes' /\ GrantsEndWithSession'
  OBVIOUS
<1>1. ASSUME NEW s \in Slugs, NEW p \in Slugs, Allow(s, p)
      PROVE  GrantTypes' /\ GrantsEndWithSession'
  <2>1. Identity(s) \in Identities /\ Identity(p) \in Identities
    BY DEF GrantTypes, Identity, Identities
  <2>2. PICK g \in Grants :
          grants' = [grants EXCEPT ![g] = [state |-> "live",
                                           pair |-> {Identity(s), Identity(p)}]]
    BY <1>1 DEF Allow
  <2>3. lead' = lead /\ lead[s].phase = "open" /\ lead[p].phase = "open"
    BY <1>1 DEF Allow, Resolves
  <2>4. GrantTypes'
    BY <2>1, <2>2, <2>3 DEF GrantTypes
  <2>5. /\ \A h \in Grants \ {g} : grants'[h] = grants[h]
        /\ grants'[g].pair = {Identity(s), Identity(p)}
    BY <2>2 DEF GrantTypes
  <2>6. \A x \in {Identity(s), Identity(p)} : x.slug \in {s, p}
    BY DEF Identity
  <2>7. GrantsEndWithSession'
    BY <2>3, <2>5, <2>6 DEF GrantsEndWithSession
  <2> QED BY <2>4, <2>7
<1>2. ASSUME NEW R \in SUBSET Grants, grants' = Revoked(grants, R)
      PROVE  /\ grants' \in [Grants -> [state : {"none", "live", "revoked"},
                                        pair : SUBSET Identities]]
             /\ \A g \in Grants : grants'[g].state = "live"
                   => g \notin R /\ grants'[g] = grants[g]
  BY <1>2 DEF Revoked, GrantTypes
<1>3. ASSUME NEW s \in Slugs, NEW p \in Slugs, Revoke(s, p)
      PROVE  GrantTypes' /\ GrantsEndWithSession'
  <2>1. PICK R \in SUBSET Grants : grants' = Revoked(grants, R)
    BY <1>3 DEF Revoke, Live
  <2>2. lead' = lead
    BY <1>3 DEF Revoke
  <2> QED BY <1>2, <2>1, <2>2 DEF GrantTypes, GrantsEndWithSession
<1>4. ASSUME NEW s \in Slugs, Expire(s)
      PROVE  GrantTypes' /\ GrantsEndWithSession'
  <2> DEFINE R == {g \in Grants : /\ grants[g].state = "live"
                                  /\ \E x \in grants[g].pair : x.slug = s}
  <2>1. grants' = Revoked(grants, R) /\ lead' = [lead EXCEPT ![s].phase = "expired"]
    BY <1>4 DEF Expire
  <2>2. R \in SUBSET Grants
    OBVIOUS
  <2>3. GrantTypes'
    <3>1. grants' \in [Grants -> [state : {"none", "live", "revoked"},
                                  pair : SUBSET Identities]]
      <4> HIDE DEF R
      <4> QED BY <1>2, <2>1, <2>2
    <3>2. lead' \in [Slugs -> [inc : 1..MaxInc,
                               phase : {"open", "closing", "expired"}]]
      BY <2>1 DEF GrantTypes
    <3> QED BY <3>1, <3>2 DEF GrantTypes
  <2>4. \A g \in Grants : grants'[g].state = "live"
           => g \notin R /\ grants'[g] = grants[g]
    BY <1>2, <2>1, <2>2
  <2>5. \A r \in Slugs \ {s} : lead'[r] = lead[r]
    BY <2>1 DEF GrantTypes
  <2>6. GrantsEndWithSession'
    BY <2>4, <2>5 DEF GrantsEndWithSession
  <2> QED BY <2>3, <2>6
<1>5. ASSUME NEW s \in Slugs,
             \/ Close(s)
             \/ \E inc \in 1..MaxInc : Reopen(s, inc)
      PROVE  GrantTypes' /\ GrantsEndWithSession'
  <2>1. GrantTypes'
    BY <1>5 DEF Close, Reopen, GrantTypes
  <2>2. grants' = grants /\ \A r \in Slugs :
           lead'[r].phase = "expired" => lead[r].phase = "expired"
    BY <1>5 DEF Close, Reopen, GrantTypes
  <2> QED BY <2>1, <2>2 DEF GrantsEndWithSession
<1>6. CASE UNCHANGED <<lead, grants>>
  BY <1>6 DEF GrantTypes, GrantsEndWithSession
<1>7. ASSUME \/ Native \/ Killed \/ UNCHANGED vars
             \/ \E i \in Ids : Dispatch(i) \/ Submission(i)
             \/ \E s, p \in Slugs : \E i \in Ids : SendMessage(i, s, p)
      PROVE  UNCHANGED <<lead, grants>>
  BY <1>7 DEF Native, Killed, vars, Dispatch, Submission, SendMessage, Accept, Lose,
       DispatchFound, DispatchUncertain, DispatchDisallowed, DispatchHeld,
       DispatchSubmit, SendCall, SendUnknown, SendConfirmed
<1> QED
  BY <1>1, <1>3, <1>4, <1>5, <1>6, <1>7 DEF Next, Command, Lifecycle

(* No grant is live while its session is archived or deleted (revoke and   *)
(* Expire of Service, called by dev-session's expire_communication!).      *)
THEOREM GrantsEnd == Spec => []GrantsEndWithSession
BY GrantsInit, GrantsNext, PTL DEF Spec

=============================================================================
