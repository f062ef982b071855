---------------------------- MODULE ResourcePool ----------------------------
(***************************************************************************)
(* The records of compute resources in Redis and the optimistic            *)
(* transactions of RedisManager that take CPUs and memory from a resource  *)
(* (allocate_resource) and give them back (release_resource).  Every       *)
(* client command is a step: WATCH, HGETALL, MULTI...EXEC.  EXEC writes    *)
(* back the whole record computed from what HGETALL returned, and fails if *)
(* the watched record changed since WATCH.  release_resource tries again   *)
(* then; in allocate_resource the EXEC stands after the try statement, so  *)
(* the WatchError leaves the function.                                     *)
(***************************************************************************)
EXTENDS ResourceRecord, FiniteSets

CONSTANTS Clients,     \* callers of a RedisManager
          Resources,   \* ids of the resources of the pool
          Total,       \* the assets of each resource
          AskCpus,     \* CPU counts that are asked for
          AskMemory,   \* amounts of memory that are asked for
          AllocIds     \* creation times that tell allocations apart

ASSUME PoolAssumption == /\ Total \in [Resources -> Assets]
                         /\ AskCpus \subseteq Nat \ {0}
                         /\ AskMemory \subseteq Nat

VARIABLES avail,   \* the resource records: what is left of each resource
          held,    \* allocations each client has been granted
          op,      \* the operation each client is executing
          dirty,   \* whether a watched record changed since WATCH
          last,    \* how the last operation of each client ended
          out      \* history: assets granted and not given back

vars == <<avail, held, op, dirty, last, out>>

Idle == [kind |-> "idle"]

Asks == [res : Resources, cpus : AskCpus, memory : AskMemory, partial : BOOLEAN]

Allocs == [id : AllocIds, res : Resources, cpus : Nat, memory : Nat]

\* An operation: the request or the allocation it is about, the command it
\* is at, and the record as HGETALL returned it.
Commands == {"watch", "read", "exec"}

AllocateOps == [kind : {"allocate"}, ask : Asks, at : Commands, seen : Assets]
ReleaseOps == [kind : {"release"}, ask : Allocs, at : Commands, seen : Assets]

Ops == {Idle} \union AllocateOps \union ReleaseOps

Outcomes == {"none", "granted", "refused", "raised", "released"}

TypeOK == /\ avail \in [Resources -> Assets]
          /\ held \in [Clients -> SUBSET Allocs]
          /\ op \in [Clients -> Ops]
          /\ dirty \in [Clients -> BOOLEAN]
          /\ last \in [Clients -> Outcomes]
          /\ out \in [Resources -> [cpus : Int, memory : Int]]

Init == /\ avail = Total
        /\ held = [c \in Clients |-> {}]
        /\ op = [c \in Clients |-> Idle]
        /\ dirty = [c \in Clients |-> FALSE]
        /\ last = [c \in Clients |-> "none"]
        /\ out = [r \in Resources |-> NoAssets]
-----------------------------------------------------------------------------
\* Faulty variant: a part may be nothing.
GrantsAnyPart(seen, ask) == Suffices(seen, ask) \/ ask.partial

\* The request is granted whole, or a part of it that is of use.
Grants(seen, ask) == Suffices(seen, ask) \/ (ask.partial /\ PartOf(seen, ask))

\* The allocation record of a grant names what was taken.
AllocOf(id, ask, taken) == [id |-> id, res |-> ask.res,
                            cpus |-> taken.cpus, memory |-> taken.memory]

LiveIds == {a.id : a \in UNION {held[c] : c \in Clients}}

Busy(c) == op[c].kind # "idle"

At(c, kind, command) == op[c].kind = kind /\ op[c].at = command

\* EXEC touched record r: everybody else's WATCH on it is broken.
DirtyBy(c, r) == [d \in Clients |->
                    d # c /\ (dirty[d] \/ (Busy(d) /\ op[d].at # "watch"
                                       /\ op[d].ask.res = r))]

Finish(c, outcome) == /\ op' = [op EXCEPT ![c] = Idle]
                      /\ last' = [last EXCEPT ![c] = outcome]

StartAllocate(c, ask) ==
    /\ op[c] = Idle
    /\ op' = [op EXCEPT ![c] = [kind |-> "allocate", ask |-> ask,
                                at |-> "watch", seen |-> NoAssets]]
    /\ last' = [last EXCEPT ![c] = "none"]
    /\ UNCHANGED <<avail, held, dirty, out>>

StartRelease(c, a) ==
    /\ op[c] = Idle
    /\ a \in held[c]
    /\ op' = [op EXCEPT ![c] = [kind |-> "release", ask |-> a,
                                at |-> "watch", seen |-> NoAssets]]
    /\ last' = [last EXCEPT ![c] = "none"]
    /\ UNCHANGED <<avail, held, dirty, out>>

Watch(c) ==
    /\ Busy(c) /\ op[c].at = "watch"
    /\ op' = [op EXCEPT ![c].at = "read"]
    /\ dirty' = [dirty EXCEPT ![c] = FALSE]
    /\ UNCHANGED <<avail, held, last, out>>

Read(c) ==
    /\ Busy(c) /\ op[c].at = "read"
    /\ op' = [op EXCEPT ![c].at = "exec", ![c].seen = avail[op[c].ask.res]]
    /\ UNCHANGED <<avail, held, dirty, last, out>>

\* EXEC of a transaction of client c runs unless its WATCH is broken.
ExecRuns(c) == ~dirty[c]

ExecGrant(c, id) ==
    /\ At(c, "allocate", "exec")
    /\ Grants(op[c].seen, op[c].ask)
    /\ ExecRuns(c)
    /\ id \in AllocIds \ LiveIds
    /\ LET r == op[c].ask.res
           t == Taken(op[c].seen, op[c].ask)
       IN  /\ avail' = [avail EXCEPT ![r] = Less(op[c].seen, t)]
           /\ held' = [held EXCEPT ![c] = @ \union {AllocOf(id, op[c].ask, t)}]
           /\ out' = [out EXCEPT ![r] = Plus(@, t)]
           /\ dirty' = DirtyBy(c, r)
    /\ Finish(c, "granted")

\* The try statement ends before EXEC: a broken WATCH is not retried.
ExecRaise(c) ==
    /\ At(c, "allocate", "exec")
    /\ ~ExecRuns(c)
    /\ Finish(c, "raised")
    /\ dirty' = [dirty EXCEPT ![c] = FALSE]
    /\ UNCHANGED <<avail, held, out>>

\* Nothing is queued for a refused request, so a client library that does
\* not send an empty transaction does not notice a broken WATCH either.
ExecRefuse(c) ==
    /\ At(c, "allocate", "exec")
    /\ ~Grants(op[c].seen, op[c].ask)
    /\ Finish(c, "refused")
    /\ dirty' = [dirty EXCEPT ![c] = FALSE]
    /\ UNCHANGED <<avail, held, out>>

ExecRelease(c) ==
    /\ At(c, "release", "exec")
    /\ ExecRuns(c)
    /\ LET a == op[c].ask
       IN  /\ avail' = [avail EXCEPT ![a.res] = Plus(op[c].seen, a)]
           /\ held' = [held EXCEPT ![c] = @ \ {a}]
           /\ out' = [out EXCEPT ![a.res] = Less(@, a)]
           /\ dirty' = DirtyBy(c, a.res)
    /\ Finish(c, "released")

\* Faulty variant: the loop starts at the read, without a new WATCH.
RetryReleaseUnwatched(c) ==
    /\ At(c, "release", "exec")
    /\ ~ExecRuns(c)
    /\ op' = [op EXCEPT ![c].at = "read"]
    /\ UNCHANGED <<avail, held, dirty, last, out>>

\* Faulty variant: the loop starts at EXEC, without a new read.
RetryReleaseUnread(c) ==
    /\ At(c, "release", "exec")
    /\ ~ExecRuns(c)
    /\ dirty' = [dirty EXCEPT ![c] = FALSE]
    /\ UNCHANGED <<avail, held, op, last, out>>

\* The loop of release_resource starts over with a new WATCH.
RetryRelease(c) ==
    /\ At(c, "release", "exec")
    /\ ~ExecRuns(c)
    /\ op' = [op EXCEPT ![c].at = "watch", ![c].seen = NoAssets]
    /\ dirty' = [dirty EXCEPT ![c] = FALSE]
    /\ UNCHANGED <<avail, held, last, out>>

ClientStep(c) ==
    \/ \E ask \in Asks : StartAllocate(c, ask)
    \/ \E a \in held[c] : StartRelease(c, a)
    \/ Watch(c)
    \/ Read(c)
    \/ \E id \in AllocIds : ExecGrant(c, id)
    \/ ExecRaise(c)
    \/ ExecRefuse(c)
    \/ ExecRelease(c)
    \/ RetryRelease(c)

Next == \E c \in Clients : ClientStep(c)

\* A client runs its commands one after the other without waiting for
\* anybody; new requests are never owed.
Continue(c) == \/ Watch(c) \/ Read(c) \/ ExecRaise(c) \/ ExecRefuse(c)
               \/ ExecRelease(c) \/ RetryRelease(c)
               \/ \E id \in AllocIds : ExecGrant(c, id)

Spec == Init /\ [][Next]_vars

FairSpec == Spec /\ \A c \in Clients : WF_vars(Continue(c))
-----------------------------------------------------------------------------
(***************************************************************************)
(* What a resource record shows as left and what was granted from it and   *)
(* not given back always make up the resource: no interleaving of          *)
(* allocate_resource and release_resource loses an update.                 *)
(***************************************************************************)
Conservation == \A r \in Resources : Plus(avail[r], out[r]) = Total[r]

(***************************************************************************)
(* A transaction of one client changes a record only if the record is      *)
(* still the one the client read, so a grant is never computed from a      *)
(* stale count.                                                            *)
(***************************************************************************)
NoStaleWrite ==
    [][\A c \in Clients : \A r \in Resources :
          (Busy(c) /\ op[c].ask.res = r /\ op[c].at = "exec"
             /\ ~Busy(c)' /\ avail'[r] # avail[r])
          => op[c].seen = avail[r]]_vars

(***************************************************************************)
(* A release under way is completed unless other clients keep changing the *)
(* same record for ever: the retry loop of release_resource ends.          *)
(***************************************************************************)
ReleaseEnds ==
    \A c \in Clients :
        <>[][\A d \in Clients \ {c} : avail' = avail \/ op'[d] = op[d]]_vars
            => (op[c].kind = "release" ~> op[c] = Idle)

\* A call as its caller sees it; a refusal is settled once the record is read.
CallOf(c) ==
    IF op[c] = Idle THEN Idle
    ELSE [kind |-> op[c].kind, ask |-> op[c].ask,
          refused |-> At(c, "allocate", "exec") /\ ~Grants(op[c].seen, op[c].ask)]

Promise == INSTANCE AbstractPool WITH left <- avail, raced <- dirty,
                                      call <- [c \in Clients |-> CallOf(c)]

(***************************************************************************)
(* Whatever the interleaving of their commands, calls behave as if each    *)
(* took effect in one step: what is granted is there and is what the       *)
(* allocation records, a refusal was justified while the call went on, and *)
(* a WatchError means that somebody else did change the record.            *)
(***************************************************************************)
CallsAreAtomic == Promise!Spec
=============================================================================
