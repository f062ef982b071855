------------------------------ MODULE Sessions ------------------------------
(***************************************************************************)
(* Sessions of the request services of DMOD, kept in Redis.  A user who    *)
(* asks for one gets the session known for the user, or a new one under    *)
(* the next id.                                                            *)
(*                                                                         *)
(* Creating a session watches the counter of ids, but no transaction is    *)
(* ever begun: every command takes effect at once, and those of several    *)
(* processes interleave.  A process handles one request at a time, and may *)
(* be restarted in the middle of it.  No service removes or refreshes      *)
(* sessions, and none minds whether one has expired.                       *)
(***************************************************************************)
EXTENDS Integers, Sequences

CONSTANTS
    Processes,    \* request services that share one Redis
    Users,
    MaxRequests,  \* bound on the requests for a session
    MaxId,        \* bound on the ids that are read
    MaxCrashes,   \* bound on restarts in the middle of a request
    None

ASSUME BoundsAssumption == MaxRequests \in Nat /\ MaxId \in Nat \ {0} /\ MaxCrashes \in Nat
ASSUME NoneAssumption == None \notin Users

Requests == 1 .. MaxRequests
Ids == 1 .. MaxId

\* The commands that write a session, in their order: the fields of its hash,
\* and the hashes that find its id from its secret and from its user.  The
\* address goes with the secret, and the times with the user.
Fields == {"secret", "user"}
Commands == <<"secret", "user", "secrets", "users">>
NoFields == [f \in Fields |-> 0]

VARIABLES
    next,      \* next_session_id, 0 when the key is not there
    record,    \* session:<id>: for each field, the request it was written for
    secrets,   \* all_session_secrets, by the request whose secret it is
    users,     \* all_users
    at,        \* where each process is
    req,       \* the request it handles
    id,        \* the id it has read or taken
    asked,     \* who asked, by request
    answer,    \* fields of the session that answered a request
    crashes,
    beside     \* ghost: pairs of requests whose creations overlapped

shared == <<next, record, secrets, users>>
vars == <<shared, at, req, id, asked, answer, crashes, beside>>

Places == {"idle", "needs", "known", "get", "bump", "check"} \union
          {Commands[n] : n \in DOMAIN Commands}
Creating == Places \ {"idle", "needs", "known"}

TypeOK == /\ next \in Nat
          /\ record \in [Ids -> [Fields -> 0 .. MaxRequests]]
          /\ secrets \in [Requests -> 0 .. MaxId]
          /\ users \in [Users -> 0 .. MaxId]
          /\ at \in [Processes -> Places]
          /\ req \in [Processes -> 0 .. MaxRequests]
          /\ id \in [Processes -> 0 .. MaxId]
          /\ asked \in [Requests -> Users \union {None}]
          /\ answer \in [Requests -> [Fields -> 0 .. MaxRequests]]
          /\ crashes \in 0 .. MaxCrashes
          /\ beside \subseteq Requests \X Requests

Init == /\ next = 0 /\ record = [i \in Ids |-> NoFields]
        /\ secrets = [r \in Requests |-> 0] /\ users = [u \in Users |-> 0]
        /\ at = [p \in Processes |-> "idle"]
        /\ req = [p \in Processes |-> 0] /\ id = [p \in Processes |-> 0]
        /\ asked = [r \in Requests |-> None]
        /\ answer = [r \in Requests |-> NoFields]
        /\ crashes = 0 /\ beside = {}

Go(p, place) == at' = [at EXCEPT ![p] = place]
User(p) == asked[req[p]]
-----------------------------------------------------------------------------
\* A client asks for a session, at any of the services.
Ask(p, u) ==
    /\ at[p] = "idle"
    /\ \E r \in Requests :
        /\ asked[r] = None /\ \A q \in 1 .. r - 1 : asked[q] # None
        /\ asked' = [asked EXCEPT ![r] = u]
        /\ req' = [req EXCEPT ![p] = r]
    /\ Go(p, "needs")
    /\ UNCHANGED <<shared, id, answer, beside, crashes>>

\* Faulty variant: a new session for every request.
NeedsAlways(p) ==
    /\ at[p] = "needs"
    /\ Go(p, "get")
    /\ beside' = beside \union
        UNION {{<<req[p], req[q]>>, <<req[q], req[p]>>} :
                 q \in {q \in Processes : q # p /\ at[q] \in Creating}}
    /\ UNCHANGED <<shared, req, id, asked, answer, crashes>>

\* is_needs_new_session: only a user without a session gets a new one.
Needs(p) ==
    /\ at[p] = "needs"
    /\ IF users[User(p)] = 0
       THEN /\ Go(p, "get")
            /\ beside' = beside \union
                UNION {{<<req[p], req[q]>>, <<req[q], req[p]>>} :
                         q \in {q \in Processes : q # p /\ at[q] \in Creating}}
       ELSE Go(p, "known") /\ UNCHANGED beside
    /\ UNCHANGED <<shared, req, id, asked, answer, crashes>>

Done(p, fields) ==
    /\ answer' = [answer EXCEPT ![req[p]] = fields]
    /\ Go(p, "idle") /\ req' = [req EXCEPT ![p] = 0] /\ id' = [id EXCEPT ![p] = 0]

\* lookup_session_by_username: the id and then the record, of which nothing goes
\* away in between.
Known(p) ==
    /\ at[p] = "known"
    /\ Done(p, record[users[User(p)]])
    /\ UNCHANGED <<shared, asked, beside, crashes>>

\* _get_next_session_id_via_pipeline: the counter is read and then bumped.
Get(p) ==
    /\ at[p] = "get" /\ next <= MaxId
    /\ id' = [id EXCEPT ![p] = next]
    /\ Go(p, "bump")
    /\ UNCHANGED <<shared, req, asked, answer, beside, crashes>>

\* Faulty variant: the counter is set once and never bumped.
BumpOnce(p) ==
    /\ at[p] = "bump"
    /\ IF id[p] = 0 THEN next' = 1 /\ id' = [id EXCEPT ![p] = 1]
                    ELSE UNCHANGED <<next, id>>
    /\ Go(p, "check")
    /\ UNCHANGED <<record, secrets, users, req, asked, answer, beside, crashes>>

\* Who found no counter starts it after the first id, whatever others have
\* made of it since.
Bump(p) ==
    /\ at[p] = "bump"
    /\ IF id[p] = 0 THEN next' = 2 /\ id' = [id EXCEPT ![p] = 1]
                    ELSE next' = next + 1 /\ UNCHANGED id
    /\ Go(p, "check")
    /\ UNCHANGED <<record, secrets, users, req, asked, answer, beside, crashes>>

\* Faulty variant: the id is trusted to be free.
CheckNothing(p) ==
    /\ at[p] = "check"
    /\ Go(p, Commands[1])
    /\ UNCHANGED <<shared, req, id, asked, answer, beside, crashes>>

\* An id that has a record is passed over.
Check(p) ==
    /\ at[p] = "check"
    /\ Go(p, IF record[id[p]] = NoFields THEN Commands[1] ELSE "get")
    /\ UNCHANGED <<shared, req, id, asked, answer, beside, crashes>>

\* The nth command of a session's writes, in the given order.
WriteIn(p, order) ==
    \E n \in DOMAIN Commands :
        /\ at[p] = Commands[n]
        /\ record' = IF order[n] \in Fields
                     THEN [record EXCEPT ![id[p]][order[n]] = req[p]] ELSE record
        /\ secrets' = IF order[n] = "secrets"
                      THEN [secrets EXCEPT ![req[p]] = id[p]] ELSE secrets
        /\ users' = IF order[n] = "users"
                    THEN [users EXCEPT ![User(p)] = id[p]] ELSE users
        /\ IF n < Len(Commands) THEN Go(p, Commands[n + 1]) /\ UNCHANGED <<req, id, answer>>
                                ELSE Done(p, [f \in Fields |-> req[p]])
        /\ UNCHANGED <<next, asked, beside, crashes>>

\* create_session writes the session, command by command, and returns it.
Write(p) == WriteIn(p, Commands)

\* A process is restarted, and forgets the request it had.
Crash(p) ==
    /\ at[p] # "idle" /\ crashes < MaxCrashes
    /\ crashes' = crashes + 1
    /\ Go(p, "idle") /\ req' = [req EXCEPT ![p] = 0] /\ id' = [id EXCEPT ![p] = 0]
    /\ UNCHANGED <<shared, asked, answer, beside>>

Handle(p) == Needs(p) \/ Known(p) \/ Get(p) \/ Bump(p) \/ Check(p) \/ Write(p)

Next == \E p \in Processes : Handle(p) \/ Crash(p) \/ \E u \in Users : Ask(p, u)

Spec == Init /\ [][Next]_vars

\* A service that runs goes on with its request; nobody has to ask.
FairSpec == Spec /\ \A p \in Processes : WF_vars(Handle(p))
-----------------------------------------------------------------------------
(* Properties. *)

Created == {r \in Requests : answer[r]["secret"] = r}
Alone(r) == \A q \in Requests : <<r, q>> \notin beside

\* Whatever is restarted and when, a session that can be found by its secret or
\* by its user has all its fields, so that lookups never fail half way.  The
\* secret of a session finds that session and none of another user, unless one
\* created beside it took the same id.  That the counter can be set back, and
\* that a restart leaves an id half written, does not take that away.  And types.
OwnSessionUnlessBeside ==
    /\ TypeOK
    /\ \A i \in Ids :
        (\E r \in Requests : secrets[r] = i) \/ (\E u \in Users : users[u] = i)
        => \A f \in Fields : record[i][f] # 0
    /\ \A r \in Created :
        \/ secrets[r] # 0 /\ record[secrets[r]] = [f \in Fields |-> r]
        \/ \E q \in Requests : <<r, q>> \in beside /\ \E f \in Fields : record[secrets[r]][f] = q

\* A user whose session was created with no other beside it is given that
\* session by every service from then on.
SessionIsShared ==
    [][\A r \in Created, q \in Requests :
         /\ Alone(r) /\ asked[q] = asked[r]
         /\ answer[q] = NoFields /\ answer'[q] # NoFields
         => answer'[q] = [f \in Fields |-> r]]_vars

\* Every request a service takes is answered, unless it is restarted: looking
\* for a free id comes to an end.
RequestsEnd == \A p \in Processes : at[p] # "idle" ~> at[p] = "idle"
=============================================================================
