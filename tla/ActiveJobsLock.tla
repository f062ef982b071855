--------------------------- MODULE ActiveJobsLock ---------------------------
(***************************************************************************)
(* The lock on the active jobs, kept as one Redis key that expires after   *)
(* 30 seconds.  Its users are the management loops of the scheduler, of    *)
(* the partitioner and the two of the data service (data checks, data      *)
(* provision).  Each Redis command is a step of its own: lock_active_jobs  *)
(* is SET NX followed by GET, unlock_active_jobs is GET followed by an     *)
(* unconditional DELETE, and the key may expire between any two commands.  *)
(*                                                                         *)
(* A lock id is a fresh UUID per iteration of a loop, so the value u of    *)
(* lock stands for the id user u took in its current iteration; an id left *)
(* behind by a process that died is Orphan, which nobody uses again.       *)
(***************************************************************************)
EXTENDS Naturals

CONSTANTS Users,       \* the management loops
          Processes,   \* sets of loops that run in one OS process
          NoLock,      \* the key does not exist
          Orphan,      \* the key holds the id of an iteration that died
          MaxCrashes   \* bound on the number of process crashes

ASSUME LockAssumption == /\ NoLock \notin Users /\ Orphan \notin Users
                         /\ NoLock # Orphan
                         /\ Processes \subseteq SUBSET Users
                         /\ MaxCrashes \in Nat

VARIABLES lock,      \* value of the Redis key
          pc,        \* where each loop stands
          overrun,   \* history: loops whose key expired under their section
          crashes    \* number of crashes so far

lockVars == <<lock, pc, overrun, crashes>>

\* "idle"  sleeping between two iterations
\* "set"   about to send SET NX, a first time or after the 2 s sleep
\* "get"   SET NX sent, about to GET the key
\* "crit"  lock_active_jobs returned True, working on the active jobs
\* "del"   unlock_active_jobs has read its own id, about to DELETE the key
PCs == {"idle", "set", "get", "crit", "del"}

InSection(u) == pc[u] \in {"crit", "del"}

LockTypeOK == /\ lock \in Users \union {NoLock, Orphan}
              /\ pc \in [Users -> PCs]
              /\ overrun \subseteq Users
              /\ crashes \in 0 .. MaxCrashes

LockInit == /\ lock = NoLock
            /\ pc = [u \in Users |-> "idle"]
            /\ overrun = {}
            /\ crashes = 0

\* The sleep of 5 s ends and the loop draws a fresh lock id.
Begin(u) == /\ pc[u] = "idle"
            /\ pc' = [pc EXCEPT ![u] = "set"]
            /\ UNCHANGED <<lock, overrun, crashes>>

\* Faulty variant: the option NX is forgotten.
KeyAfterPlainSet(u) == u

\* What the key holds after SET NX by u.
KeyAfterSetNX(u) == IF lock = NoLock THEN u ELSE lock

SetNX(u) == /\ pc[u] = "set"
            /\ lock' = KeyAfterSetNX(u)
            /\ pc' = [pc EXCEPT ![u] = "get"]
            /\ UNCHANGED <<overrun, crashes>>

\* lock_active_jobs returns whether the key holds the id of the caller; a
\* caller told False sleeps 2 s and tries again with the same id.
AfterGet(u) == IF lock = u THEN "crit" ELSE "set"

CheckHolder(u) == /\ pc[u] = "get"
                  /\ pc' = [pc EXCEPT ![u] = AfterGet(u)]
                  /\ UNCHANGED <<lock, overrun, crashes>>

\* The GET of unlock_active_jobs: only an id equal to the caller's leads to
\* the DELETE; no key, or another id, ends the call.
BeginUnlock(u) == /\ pc[u] = "crit"
                  /\ pc' = [pc EXCEPT ![u] = IF lock = u THEN "del" ELSE "idle"]
                  /\ UNCHANGED <<lock, overrun, crashes>>

\* DELETE takes no value: it removes whatever the key holds by now.
DeleteKey(u) == /\ pc[u] = "del"
                /\ lock' = NoLock
                /\ pc' = [pc EXCEPT ![u] = "idle"]
                /\ UNCHANGED <<overrun, crashes>>

\* Faulty variant: the option PX is forgotten.
NeverDue == FALSE

\* px=30000: the key goes 30 s after it was set, whatever its holder does.
ExpiryDue == lock # NoLock

Expire == /\ ExpiryDue
          /\ lock' = NoLock
          /\ overrun' = overrun \union {u \in Users : lock = u /\ InSection(u)}
          /\ UNCHANGED <<pc, crashes>>

\* An exception in a loop ends its process, which the container runtime
\* starts again; the key stays in Redis until it expires.
Crash(P) == /\ crashes < MaxCrashes
            /\ crashes' = crashes + 1
            /\ lock' = IF lock \in P THEN Orphan ELSE lock
            /\ pc' = [u \in Users |-> IF u \in P THEN "idle" ELSE pc[u]]
            /\ overrun' = overrun

UserStep(u) == \/ Begin(u)
               \/ SetNX(u)
               \/ CheckHolder(u)
               \/ BeginUnlock(u)
               \/ DeleteKey(u)

LockNext == \/ \E u \in Users : UserStep(u)
            \/ Expire
            \/ \E P \in Processes : Crash(P)

LockSpec == LockInit /\ [][LockNext]_lockVars

\* Loops run on event loops that keep scheduling them, and Redis does expire
\* the key; crashes are never owed.
Fairness == WF_lockVars(Expire) /\ \A u \in Users : WF_lockVars(UserStep(u))

FairLockSpec == LockSpec /\ Fairness
-----------------------------------------------------------------------------
Exclusive(U) == \A u, v \in U : InSection(u) /\ InSection(v) => u = v

(***************************************************************************)
(* As long as no key has expired under the section it protects, at most    *)
(* one loop works on the active jobs: SET NX followed by GET, GET followed *)
(* by DELETE, and crashed processes never let two in.                      *)
(***************************************************************************)
ExclusiveUnlessOverrun == overrun = {} => Exclusive(Users)

(***************************************************************************)
(* The DELETE of unlock_active_jobs only ever removes the id of its own    *)
(* loop as long as no section has outlived its key: the GET before it is   *)
(* then never stale.                                                       *)
(***************************************************************************)
TimelyUnlockFreesOwnLock ==
    [][overrun = {} => \A u \in Users : DeleteKey(u) => lock = u]_lockVars

(***************************************************************************)
(* If in the long run keys outlive the round trip between SET NX and GET,  *)
(* then whenever a loop asks for the lock some loop gets to work on the    *)
(* active jobs: a holder that died blocks the system no longer than the    *)
(* expiry, although nobody ever releases its key.                          *)
(***************************************************************************)
SomebodyEnters ==
    <>[][~(Expire /\ lock \in Users /\ pc[lock] = "get")]_lockVars
        => ((\E u \in Users : pc[u] = "set") ~> (\E u \in Users : pc[u] = "crit"))
=============================================================================
