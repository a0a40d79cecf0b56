--------------------------- MODULE SessionRequests ---------------------------
(***************************************************************************)
(* What the portal promises to whoever asks it for a new session: a request *)
(* gets one name, no other unfinished request gets that name before the    *)
(* session made under it was removed, and at most one session is ever made *)
(* for it, under that name.  Crashes, retries and lost answers are the     *)
(* business of SessionCreation, which implements this.                     *)
(***************************************************************************)
EXTENDS Naturals

CONSTANTS
    Asked,   \* the requests
    Names,   \* session names
    NoName

VARIABLES
    name,   \* the name reserved for each request, NoName before
    held,   \* the requests that are not settled
    made,   \* how many sessions were made for each request
    gone    \* the requests whose session was removed again

promise == <<name, held, made, gone>>

PromiseType == /\ name \in [Asked -> Names \cup {NoName}]
               /\ held \subseteq Asked
               /\ made \in [Asked -> Nat]
               /\ gone \subseteq Asked

PromiseInit == /\ name = [r \in Asked |-> NoName]
               /\ held = {}
               /\ made = [r \in Asked |-> 0]
               /\ gone = {}

Hold(r) == /\ r \notin held /\ held' = held \cup {r}
           /\ name[r] = NoName /\ UNCHANGED <<name, made, gone>>

\* A request whose session is gone does not keep its name from others, though
\* it may not be settled yet.
Reserve(r, n) == /\ r \in held /\ name[r] = NoName
                 /\ \A q \in held \ {r} : name[q] = n => q \in gone
                 /\ name' = [name EXCEPT ![r] = n]
                 /\ UNCHANGED <<held, made, gone>>

\* A crash may lose what was not confirmed, while nothing was made of it, and
\* settles what was about to be.
Lose(rs) == /\ \A r \in rs : made[r] = 0
            /\ name' = [r \in Asked |-> IF r \in rs THEN NoName ELSE name[r]]
            /\ held' \in SUBSET held
            /\ \A r \in held \ held' : r \in rs \/ name[r] # NoName
            /\ UNCHANGED <<made, gone>>

Make(r) == /\ r \in held /\ name[r] # NoName /\ made[r] = 0
           /\ made' = [made EXCEPT ![r] = 1]
           /\ UNCHANGED <<name, held, gone>>

Remove(r) == made[r] = 1 /\ gone' = gone \cup {r} /\ UNCHANGED <<name, held, made>>

Settle(r) == /\ r \in held /\ name[r] # NoName /\ held' = held \ {r}
             /\ UNCHANGED <<name, made, gone>>

PromiseNext == \/ \E r \in Asked : Hold(r) \/ Make(r) \/ Remove(r) \/ Settle(r)
               \/ \E r \in Asked, n \in Names : Reserve(r, n)
               \/ \E rs \in SUBSET Asked : Lose(rs)

Promise == PromiseInit /\ [][PromiseNext]_promise

\* A request is never answered with two sessions, and a session is only made
\* under a reserved name.
MadeOnce == \A r \in Asked : made[r] <= 1 /\ (made[r] = 1 => name[r] # NoName)

\* Two unfinished requests hold the same name only when the session of one of
\* them was made under it and removed.
NamesApart == \A r, q \in held :
    r # q /\ name[r] # NoName /\ name[r] = name[q] => r \in gone \/ q \in gone
=============================================================================
