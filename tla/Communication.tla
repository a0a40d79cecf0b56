---------------------------- MODULE Communication ----------------------------
(***************************************************************************)
(* Messages between session leads: portal/internal/communication and the   *)
(* portal's worker that delivers them.                                     *)
(*                                                                         *)
(* A user's approval is a grant for one pair of leads, identified by slug, *)
(* thread and directory.  A message is stored under a grant as pending;    *)
(* the worker saves it as submitting, submits it to the recipient's thread *)
(* and records the answer.  Grants end by revocation and by the archival   *)
(* or deletion of either session.                                          *)
(*                                                                         *)
(* Every command and every dispatch holds the session locks of both sides  *)
(* shared and then the store's lock exclusively; a lifecycle operation     *)
(* holds the lock of its session exclusively.  The store's lock is kept    *)
(* during the submission, so only the native side moves meanwhile, or the  *)
(* process dies.                                                           *)
(***************************************************************************)
EXTENDS Integers, FiniteSets

CONSTANTS
    Slugs,          \* session slugs
    Ids,            \* message ids chosen by the senders
    Grants,         \* grant ids
    MaxInc,         \* bound: incarnations of a slug
    MaxCrash,       \* bound: processes that die during a submission
    MaxState,       \* 16 MiB: the size of state.json
    GrantBytes,     \* the largest new grant
    MessageBytes,   \* the largest new message
    OptionsBytes,   \* 64 KiB: delivery options
    ReceiptBytes,   \* 4 KiB: a native receipt
    TransitionBytes \* 512: a revocation, a status and its detail

ASSUME CommunicationAssumption ==
    /\ IsFiniteSet(Slugs) /\ IsFiniteSet(Ids) /\ IsFiniteSet(Grants)
    /\ MaxInc \in Nat \ {0} /\ MaxCrash \in Nat /\ MaxState \in Nat
    /\ GrantBytes \in Nat /\ MessageBytes \in Nat /\ OptionsBytes \in Nat
    /\ ReceiptBytes \in Nat /\ TransitionBytes \in Nat

VARIABLES
    lead,       \* the incarnation of every session and its lifecycle
    grants,     \* state.json: grants
    msgs,       \* state.json: messages
    holder,     \* the dispatch that has the store's lock during a submission
    calls,      \* submissions of a message that left the process
    flying,     \* submissions not yet accepted or lost
    accepted,   \* submissions the recipient's thread accepted
    crashes

vars == <<lead, grants, msgs, holder, calls, flying, accepted, crashes>>

Identities == [slug : Slugs, inc : 1..MaxInc]
Unfinished == {"pending", "held", "submitting"}
Statuses == Unfinished \cup {"absent", "delivered", "canceled"}
Free == [step |-> "free", id |-> {}]

(* One record per grant, message and session. *)
TypeOK ==
    /\ lead \in [Slugs -> [inc : 1..MaxInc,
                           phase : {"open", "closing", "expired"}]]
    /\ grants \in [Grants -> [state : {"none", "live", "revoked"},
                              pair : SUBSET Identities]]
    /\ msgs \in [Ids -> [status : Statuses, grant : SUBSET Grants,
                         from : SUBSET Identities, to : SUBSET Identities,
                         options : BOOLEAN, detail : BOOLEAN]]
    /\ holder \in [step : {"free", "send", "await"}, id : SUBSET Ids]
    /\ calls \in [Ids -> Nat]
    /\ flying \in [Ids -> Nat]
    /\ accepted \in [Ids -> Nat]
    /\ crashes \in 0..MaxCrash

Init ==
    /\ lead = [s \in Slugs |-> [inc |-> 1, phase |-> "open"]]
    /\ grants = [g \in Grants |-> [state |-> "none", pair |-> {}]]
    /\ msgs = [i \in Ids |-> [status |-> "absent", grant |-> {}, from |-> {},
                              to |-> {}, options |-> FALSE, detail |-> FALSE]]
    /\ holder = Free
    /\ calls = [i \in Ids |-> 0]
    /\ flying = [i \in Ids |-> 0]
    /\ accepted = [i \in Ids |-> 0]
    /\ crashes = 0

-----------------------------------------------------------------------------
(* What the code reads. *)

ResolvesWhileClosing(s) == TRUE

(* IdentityFor: a session with an unfinished lifecycle operation, or none, *)
(* has no lead.                                                            *)
Resolves(s) == lead[s].phase = "open"
Identity(s) == [slug |-> s, inc |-> lead[s].inc]

StoreSharedDuringSend == TRUE

(* The store's lock is free. *)
StoreFree == holder = Free

(* The exclusive lock of s is free: no dispatch holds it shared. *)
SessionFree(s) ==
    \A i \in holder.id : \A x \in msgs[i].from \cup msgs[i].to : x.slug # s

Live(x, y) == {g \in Grants : grants[g].state = "live" /\ grants[g].pair = {x, y}}

(* The largest encoding of a state. *)
Bytes(gs, ms) ==
    GrantBytes * Cardinality({g \in Grants : gs[g].state # "none"})
    + TransitionBytes * Cardinality({g \in Grants : gs[g].state = "revoked"})
    + MessageBytes * Cardinality({i \in Ids : ms[i].status # "absent"})
    + OptionsBytes * Cardinality({i \in Ids : ms[i].options})
    + TransitionBytes * Cardinality({i \in Ids : ms[i].detail})
    + ReceiptBytes * Cardinality({i \in Ids : ms[i].status = "delivered"})

(* save: a state that does not fit is refused. *)
Saved(gs, ms) == Bytes(gs, ms) <= MaxState

(* admit: what every live grant and unfinished message may still add. *)
Reserved(gs, ms) ==
    TransitionBytes * Cardinality({g \in Grants : gs[g].state = "live"})
    + (TransitionBytes + ReceiptBytes)
        * Cardinality({i \in Ids : ms[i].status \in Unfinished})
    + OptionsBytes
        * Cardinality({i \in Ids : ms[i].status \in Unfinished /\ ~ms[i].options})

Admitted(gs, ms) == Bytes(gs, ms) + Reserved(gs, ms) <= MaxState

CancelUnfinished(ms, R) ==
    [i \in Ids |-> IF ms[i].grant \cap R # {} /\ ms[i].status \in Unfinished
                   THEN [ms[i] EXCEPT !.status = "canceled", !.detail = TRUE]
                   ELSE ms[i]]

(* revoke cancels what was not submitted; a submission stays to be         *)
(* reconciled.                                                             *)
CancelUnsent(ms, R) ==
    [i \in Ids |-> IF ms[i].grant \cap R # {} /\ ms[i].status \in {"pending", "held"}
                   THEN [ms[i] EXCEPT !.status = "canceled", !.detail = TRUE]
                   ELSE ms[i]]

Revoked(gs, R) == [g \in Grants |-> IF g \in R THEN [gs[g] EXCEPT !.state = "revoked"]
                                    ELSE gs[g]]

-----------------------------------------------------------------------------
(* Service.Run: the commands of a lead, a browser or the command line. *)

Allow(s, p) ==
    /\ StoreFree /\ s # p /\ Resolves(s) /\ Resolves(p)
    /\ Live(Identity(s), Identity(p)) = {}
    /\ \E g \in Grants :
          /\ grants[g].state = "none"
          /\ grants' = [grants EXCEPT ![g] = [state |-> "live",
                                              pair |-> {Identity(s), Identity(p)}]]
    /\ Admitted(grants', msgs)
    /\ UNCHANGED <<lead, msgs, holder, calls, flying, accepted, crashes>>

Revoke(s, p) ==
    /\ StoreFree /\ s # p /\ Resolves(s) /\ Resolves(p)
    /\ LET R == Live(Identity(s), Identity(p))
       IN /\ R # {}
          /\ grants' = Revoked(grants, R)
          /\ msgs' = CancelUnsent(msgs, R)
    /\ Saved(grants', msgs')
    /\ UNCHANGED <<lead, holder, calls, flying, accepted, crashes>>

(* send and reply: an id seen before changes nothing. *)
SendMessage(i, s, p) ==
    /\ StoreFree /\ s # p /\ Resolves(s) /\ Resolves(p)
    /\ msgs[i].status = "absent"
    /\ LET R == Live(Identity(s), Identity(p))
       IN /\ R # {}
          /\ msgs' = [msgs EXCEPT ![i] =
                        [status |-> "pending", grant |-> R, from |-> {Identity(s)},
                         to |-> {Identity(p)}, options |-> FALSE, detail |-> FALSE]]
    /\ Admitted(grants, msgs')
    /\ UNCHANGED <<lead, grants, holder, calls, flying, accepted, crashes>>

-----------------------------------------------------------------------------
(* Service.Dispatch. *)

ReconciledAbsentOrLost(i) == accepted[i] = 0

(* Transport.Reconcile finds neither an accepted nor an attempted          *)
(* submission; an uncertain one is an error.                               *)
ReconciledAbsent(i) == calls[i] = 0

(* The grant is live and both sessions are still the ones it names. *)
Allowed(i) ==
    /\ \E g \in msgs[i].grant : grants[g].state = "live"
    /\ \A x \in msgs[i].from \cup msgs[i].to : Resolves(x.slug) /\ x = Identity(x.slug)

VisitedUnsent(i) == msgs[i].status \in {"pending", "held"}

(* Messages the worker visits: Pending. *)
Visited(i) == msgs[i].status \in Unfinished

(* Neither accepted nor in doubt: an old submission was proved absent. *)
Unsent(i) ==
    \/ msgs[i].status \in {"pending", "held"}
    \/ msgs[i].status = "submitting" /\ ReconciledAbsent(i)

(* The dispatch of i ends in one save. *)
Settle(i, status) ==
    /\ msgs' = [msgs EXCEPT ![i].status = status,
                            ![i].detail = (status # "delivered")]
    /\ Saved(grants, msgs')

DispatchFound(i) ==
    /\ StoreFree /\ Visited(i)
    /\ msgs[i].status = "submitting" /\ accepted[i] > 0
    /\ Settle(i, "delivered")
    /\ UNCHANGED <<lead, grants, holder, calls, flying, accepted, crashes>>

DispatchUncertain(i) ==
    /\ StoreFree /\ Visited(i)
    /\ msgs[i].status = "submitting"
    /\ Settle(i, "submitting")
    /\ UNCHANGED <<lead, grants, holder, calls, flying, accepted, crashes>>

DispatchDisallowed(i) ==
    /\ StoreFree /\ Visited(i)
    /\ Unsent(i) /\ ~Allowed(i)
    /\ Settle(i, "canceled")
    /\ UNCHANGED <<lead, grants, holder, calls, flying, accepted, crashes>>

(* The recipient is not ready, or its settings cannot be read. *)
DispatchHeld(i) ==
    /\ StoreFree /\ Visited(i)
    /\ Unsent(i) /\ Allowed(i)
    /\ Settle(i, "held")
    /\ UNCHANGED <<lead, grants, holder, calls, flying, accepted, crashes>>

(* The options and the status are on disk before the submission. *)
DispatchSubmit(i) ==
    /\ StoreFree /\ Visited(i)
    /\ Unsent(i) /\ Allowed(i)
    /\ msgs' = [msgs EXCEPT ![i].status = "submitting", ![i].options = TRUE,
                            ![i].detail = FALSE]
    /\ Saved(grants, msgs')
    /\ holder' = [step |-> "send", id |-> {i}]
    /\ UNCHANGED <<lead, grants, calls, flying, accepted, crashes>>

(* Transport.Send: the submission leaves, or is refused before it does. *)
SendCall(i) ==
    /\ holder = [step |-> "send", id |-> {i}]
    /\ calls' = [calls EXCEPT ![i] = @ + 1]
    /\ flying' = [flying EXCEPT ![i] = @ + 1]
    /\ holder' = [step |-> "await", id |-> {i}]
    /\ UNCHANGED <<lead, grants, msgs, accepted, crashes>>

(* An error leaves the message to be reconciled. *)
Unconfirmed(i) == Settle(i, "submitting")

SendUnknown(i) ==
    /\ holder.step \in {"send", "await"} /\ holder.id = {i}
    /\ Unconfirmed(i)
    /\ holder' = Free
    /\ UNCHANGED <<lead, grants, calls, flying, accepted, crashes>>

SendConfirmed(i) ==
    /\ holder = [step |-> "await", id |-> {i}]
    /\ accepted[i] > 0
    /\ Settle(i, "delivered")
    /\ holder' = Free
    /\ UNCHANGED <<lead, grants, calls, flying, accepted, crashes>>

(* The portal dies, is restarted or loses its context; the locks are free. *)
Killed ==
    /\ holder # Free
    /\ crashes < MaxCrash
    /\ crashes' = crashes + 1
    /\ holder' = Free
    /\ UNCHANGED <<lead, grants, msgs, calls, flying, accepted>>

-----------------------------------------------------------------------------
(* Session lifecycles: dev-session archive, delete and revive. *)

(* The journal of an archival or deletion is published. *)
Close(s) ==
    /\ lead[s].phase = "open" /\ SessionFree(s)
    /\ lead' = [lead EXCEPT ![s].phase = "closing"]
    /\ UNCHANGED <<grants, msgs, holder, calls, flying, accepted, crashes>>

(* expire_communication! ends every grant of the slug. *)
Expire(s) ==
    /\ lead[s].phase = "closing" /\ StoreFree
    /\ LET R == {g \in Grants : /\ grants[g].state = "live"
                                /\ \E x \in grants[g].pair : x.slug = s}
       IN grants' = Revoked(grants, R) /\ msgs' = CancelUnsent(msgs, R)
    /\ Saved(grants', msgs')
    /\ lead' = [lead EXCEPT ![s].phase = "expired"]
    /\ UNCHANGED <<holder, calls, flying, accepted, crashes>>

(* A revival keeps thread and directory, a new session has new ones. *)
Reopen(s, inc) ==
    /\ lead[s].phase = "expired"
    /\ inc \in {lead[s].inc, lead[s].inc + 1} /\ inc <= MaxInc
    /\ lead' = [lead EXCEPT ![s] = [inc |-> inc, phase |-> "open"]]
    /\ UNCHANGED <<grants, msgs, holder, calls, flying, accepted, crashes>>

-----------------------------------------------------------------------------
(* The recipient's thread. *)

Accept(i) ==
    /\ flying[i] > 0
    /\ flying' = [flying EXCEPT ![i] = @ - 1]
    /\ accepted' = [accepted EXCEPT ![i] = @ + 1]
    /\ UNCHANGED <<lead, grants, msgs, holder, calls, crashes>>

Lose(i) ==
    /\ flying[i] > 0
    /\ flying' = [flying EXCEPT ![i] = @ - 1]
    /\ UNCHANGED <<lead, grants, msgs, holder, calls, accepted, crashes>>

-----------------------------------------------------------------------------
Command ==
    \E s, p \in Slugs : Allow(s, p) \/ Revoke(s, p) \/ \E i \in Ids : SendMessage(i, s, p)

Dispatch(i) ==
    \/ DispatchFound(i) \/ DispatchUncertain(i) \/ DispatchDisallowed(i)
    \/ DispatchHeld(i) \/ DispatchSubmit(i)

Submission(i) == SendCall(i) \/ SendUnknown(i) \/ SendConfirmed(i)

Lifecycle ==
    \E s \in Slugs : Close(s) \/ Expire(s) \/ \E inc \in 1..MaxInc : Reopen(s, inc)

Native == \E i \in Ids : Accept(i) \/ Lose(i)

Next ==
    \/ Command \/ Lifecycle \/ Native \/ Killed
    \/ \E i \in Ids : Dispatch(i) \/ Submission(i)

Spec == Init /\ [][Next]_vars

(* The portal's worker visits every unfinished message again and again (at *)
(* most 16 in one round of its two-second ticker, in rotation), its calls  *)
(* end within their deadline, and a thread that accepted a message is      *)
(* found to have done so by some reconciliation.                           *)
Fairness ==
    \A i \in Ids : WF_vars(Submission(i)) /\ SF_vars(DispatchFound(i))

FairSpec == Spec /\ Fairness

-----------------------------------------------------------------------------
(* Properties. *)

(* A message is submitted at most once: the service itself never repeats a *)
(* submission that has been, or may still be, accepted, whatever answer,   *)
(* timeout, restart or revocation comes in between.                        *)
SubmittedOnce == \A i \in Ids : calls[i] <= 1

(* What history says is true: a delivered message was accepted, and a      *)
(* canceled one never left and never will.                                 *)
HistoryTrue ==
    \A i \in Ids :
        /\ msgs[i].status = "delivered" => accepted[i] > 0
        /\ msgs[i].status = "canceled" => calls[i] = 0

(* A submission leaves only under a live grant for exactly the sessions    *)
(* that are there at that moment, although the check was made before the   *)
(* save.                                                                   *)
SentUnderGrant ==
    [][\A i \in Ids : calls'[i] > calls[i] => Allowed(i)]_vars

(* Grants do not outlive a session: once its archival or deletion has      *)
(* expired them, none is live until it is open again, and an identity that *)
(* comes back by revival finds none from before.                           *)
GrantsEndWithSession ==
    \A s \in Slugs : lead[s].phase = "expired" =>
        \A g \in Grants : grants[g].state = "live" =>
            \A x \in grants[g].pair : x.slug # s

(* Under the worker's fairness an accepted message is recorded as          *)
(* delivered, also when its grant was revoked meanwhile.                   *)
AcceptedIsRecorded ==
    \A i \in Ids : accepted[i] > 0 ~> msgs[i].status = "delivered"

=============================================================================
