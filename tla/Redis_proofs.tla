---------------------------- MODULE Redis_proofs ----------------------------
(***************************************************************************)
(* Proofs about what programs share in Redis: the lock on the active jobs, *)
(* for any set of loops, any grouping of them into processes and any       *)
(* number of crashes; and the transactions on resource records, for any    *)
(* clients, resources and requests.                                        *)
(***************************************************************************)
EXTENDS ActiveJobsLock, ResourcePool, TLAPS

-----------------------------------------------------------------------------
(* The lock on the active jobs *)

\* While nobody has overrun, a loop in its section owns the key: this is what
\* the GET of lock_active_jobs establishes, and no command of another loop
\* destroys it.
OwnerInSection == overrun = {} => \A u \in Users : InSection(u) => lock = u

LockIInv == LockTypeOK /\ OwnerInSection

\* The invariant holds before any loop has started.
LEMMA InitLockIInv == LockInit => LockIInv
BY LockAssumption DEF LockInit, LockIInv, LockTypeOK, OwnerInSection, InSection, PCs

\* Every Redis command, expiry and crash keeps the types.
LEMMA NextType == LockTypeOK /\ [LockNext]_lockVars => LockTypeOK'
<1> SUFFICES ASSUME LockTypeOK, [LockNext]_lockVars PROVE LockTypeOK'
  OBVIOUS
<1> USE LockAssumption DEF LockTypeOK, PCs
<1>1. ASSUME NEW u \in Users, Begin(u) PROVE LockTypeOK'
  BY <1>1 DEF Begin
<1>2. ASSUME NEW u \in Users, SetNX(u) PROVE LockTypeOK'
  BY <1>2 DEF SetNX, KeyAfterSetNX
<1>3. ASSUME NEW u \in Users, CheckHolder(u) PROVE LockTypeOK'
  BY <1>3 DEF CheckHolder, AfterGet
<1>4. ASSUME NEW u \in Users, BeginUnlock(u) PROVE LockTypeOK'
  BY <1>4 DEF BeginUnlock
<1>5. ASSUME NEW u \in Users, DeleteKey(u) PROVE LockTypeOK'
  BY <1>5 DEF DeleteKey
<1>6. CASE Expire
  BY <1>6 DEF Expire
<1>7. ASSUME NEW P \in Processes, Crash(P) PROVE LockTypeOK'
  BY <1>7 DEF Crash
<1>8. CASE UNCHANGED lockVars
  BY <1>8 DEF lockVars
<1> QED
  BY <1>1, <1>2, <1>3, <1>4, <1>5, <1>6, <1>7, <1>8 DEF LockNext, UserStep

\* Every Redis command, expiry and crash keeps the key with the loop it
\* protects, or records an overrun.
LEMMA NextOwner == LockIInv /\ [LockNext]_lockVars => OwnerInSection'
<1> SUFFICES ASSUME LockTypeOK, OwnerInSection, [LockNext]_lockVars, overrun' = {},
                    NEW v \in Users, InSection(v)'
             PROVE  lock' = v
  BY DEF LockIInv, OwnerInSection
<1> USE LockAssumption DEF LockTypeOK, InSection, OwnerInSection
<1>1. ASSUME NEW u \in Users, Begin(u) PROVE lock' = v
  BY <1>1 DEF Begin
<1>2. ASSUME NEW u \in Users, SetNX(u) PROVE lock' = v
  BY <1>2 DEF SetNX, KeyAfterSetNX
<1>3. ASSUME NEW u \in Users, CheckHolder(u) PROVE lock' = v
  BY <1>3 DEF CheckHolder, AfterGet
<1>4. ASSUME NEW u \in Users, BeginUnlock(u) PROVE lock' = v
  BY <1>4 DEF BeginUnlock
<1>5. ASSUME NEW u \in Users, DeleteKey(u) PROVE lock' = v
  <2>1. lock = u
    BY <1>5 DEF DeleteKey
  <2>2. v # u
    BY <1>5 DEF DeleteKey
  <2> QED
    BY <1>5, <2>1, <2>2 DEF DeleteKey
<1>6. CASE Expire
  BY <1>6 DEF Expire
<1>7. ASSUME NEW P \in Processes, Crash(P) PROVE lock' = v
  BY <1>7 DEF Crash
<1>8. CASE UNCHANGED lockVars
  BY <1>8 DEF lockVars
<1> QED
  BY <1>1, <1>2, <1>3, <1>4, <1>5, <1>6, <1>7, <1>8 DEF LockNext, UserStep

\* The inductive invariant of the lock.
THEOREM LockInvariant == LockSpec => []LockIInv
<1>1. LockInit => LockIInv
  BY InitLockIInv
<1>2. LockIInv /\ [LockNext]_lockVars => LockIInv'
  BY NextType, NextOwner DEF LockIInv
<1> QED
  BY <1>1, <1>2, PTL DEF LockSpec

(***************************************************************************)
(* The Redis key, the positions of the loops and the history keep their    *)
(* types (job_util.py, lock_active_jobs and unlock_active_jobs).           *)
(***************************************************************************)
THEOREM LockTypeCorrect == LockSpec => []LockTypeOK
<1>1. LockIInv => LockTypeOK
  BY DEF LockIInv
<1> QED
  BY <1>1, LockInvariant, PTL

(***************************************************************************)
(* For every set of loops: as long as no key expired under its section, at *)
(* most one loop works on the active jobs.                                 *)
(***************************************************************************)
THEOREM LockExclusive == LockSpec => []ExclusiveUnlessOverrun
<1>1. LockIInv => ExclusiveUnlessOverrun
  BY DEF LockIInv, OwnerInSection, ExclusiveUnlessOverrun, Exclusive
<1> QED
  BY <1>1, LockInvariant, PTL

(***************************************************************************)
(* For every set of loops: while nobody has outlived a key, the DELETE of  *)
(* unlock_active_jobs removes the id of the loop that sends it.            *)
(***************************************************************************)
THEOREM LockTimelyUnlock == LockSpec => TimelyUnlockFreesOwnLock
<1>1. LockIInv => (overrun = {} => \A u \in Users : DeleteKey(u) => lock = u)
  BY DEF LockIInv, OwnerInSection, InSection, DeleteKey
<1>2. LockIInv /\ [LockNext]_lockVars
        => [overrun = {} => \A u \in Users : DeleteKey(u) => lock = u]_lockVars
  BY <1>1
<1> QED
  BY <1>2, LockInvariant, PTL DEF LockSpec, TimelyUnlockFreesOwnLock

-----------------------------------------------------------------------------
(* The transactions on resource records *)

\* A transaction whose WATCH still stands has read the record as it is now:
\* the reason why writing the whole record back loses no update.
WatchInv == \A c \in Clients :
                Busy(c) /\ op[c].at = "exec" /\ ~dirty[c]
                    => op[c].seen = avail[op[c].ask.res]

IInv == TypeOK /\ Conservation /\ WatchInv

\* What the type of an operation says of the parts of a running one.
LEMMA BusyOp ==
    ASSUME TypeOK, NEW c \in Clients, Busy(c)
    PROVE  /\ op[c].ask.res \in Resources
           /\ op[c].ask.cpus \in Nat /\ op[c].ask.memory \in Nat
           /\ op[c].seen \in Assets
           /\ op[c].kind = "allocate" => op[c].ask \in Asks
           /\ op[c].kind = "release" => op[c].ask \in Allocs
           /\ op[c].kind \in {"allocate", "release"}
<1>1. op[c] \in AllocateOps \/ op[c] \in ReleaseOps
  <2>1. op[c] \in Ops
    BY DEF TypeOK
  <2>2. op[c] # Idle
    BY DEF Busy, Idle
  <2> QED
    BY <2>1, <2>2 DEF Ops
<1>2. CASE op[c] \in AllocateOps
  <2>1. op[c].ask \in Asks /\ op[c].kind = "allocate" /\ op[c].seen \in Assets
    BY <1>2 DEF AllocateOps
  <2>2. /\ op[c].ask.res \in Resources
        /\ op[c].ask.cpus \in Nat /\ op[c].ask.memory \in Nat
    BY <2>1, PoolAssumption DEF Asks
  <2> QED
    BY <2>1, <2>2
<1>3. CASE op[c] \in ReleaseOps
  <2>1. op[c].ask \in Allocs /\ op[c].kind = "release" /\ op[c].seen \in Assets
    BY <1>3 DEF ReleaseOps
  <2>2. /\ op[c].ask.res \in Resources
        /\ op[c].ask.cpus \in Nat /\ op[c].ask.memory \in Nat
    BY <2>1 DEF Allocs
  <2> QED
    BY <2>1, <2>2
<1> QED
  BY <1>1, <1>2, <1>3

\* Taking splits the assets of a record exactly.
LEMMA TakenSplits ==
    ASSUME NEW seen \in Assets, NEW ask, ask.cpus \in Nat, ask.memory \in Nat
    PROVE  /\ Taken(seen, ask) \in Assets
           /\ Less(seen, Taken(seen, ask)) \in Assets
           /\ Plus(Less(seen, Taken(seen, ask)), Taken(seen, ask)) = seen
BY DEF Assets, Taken, Less, Plus, Least

\* Before the first request nothing is granted.
LEMMA InitIInv == Init => IInv
<1> SUFFICES ASSUME Init PROVE IInv
  OBVIOUS
<1>1. TypeOK
  BY PoolAssumption DEF Init, TypeOK, Ops, Outcomes, NoAssets, Assets, Idle
<1>2. Conservation
  BY PoolAssumption DEF Init, Conservation, Plus, NoAssets, Assets
<1>3. WatchInv
  BY DEF Init, WatchInv, Busy, Idle
<1> QED
  BY <1>1, <1>2, <1>3 DEF IInv

\* Moving a running operation to another command keeps its type.
LEMMA OpUpdate ==
    ASSUME TypeOK, NEW c \in Clients, Busy(c),
           NEW k \in Commands, NEW s \in Assets
    PROVE  /\ [op[c] EXCEPT !.at = k] \in Ops
           /\ [op[c] EXCEPT !.at = k, !.seen = s] \in Ops
<1>1. op[c] \in AllocateOps \/ op[c] \in ReleaseOps
  BY DEF TypeOK, Ops, Busy, Idle
<1>2. CASE op[c] \in AllocateOps
  BY <1>2 DEF Ops, AllocateOps
<1>3. CASE op[c] \in ReleaseOps
  BY <1>3 DEF Ops, ReleaseOps
<1> QED
  BY <1>1, <1>2, <1>3

\* Starting an operation touches neither the records nor anybody's WATCH.
LEMMA StartStep ==
    ASSUME IInv, NEW c \in Clients,
           \/ \E ask \in Asks : StartAllocate(c, ask)
           \/ \E a \in held[c] : StartRelease(c, a)
    PROVE  IInv'
<1> USE DEF IInv
<1>1. PICK x \in Ops : /\ x.at = "watch"
                      /\ op' = [op EXCEPT ![c] = x]
                      /\ UNCHANGED <<avail, held, dirty, out>>
                      /\ last' \in [Clients -> Outcomes]
  <2>1. ASSUME NEW ask \in Asks, StartAllocate(c, ask)
        PROVE  \E x \in Ops : /\ x.at = "watch"
                             /\ op' = [op EXCEPT ![c] = x]
                             /\ UNCHANGED <<avail, held, dirty, out>>
                             /\ last' \in [Clients -> Outcomes]
    BY <2>1 DEF StartAllocate, Ops, AllocateOps, Commands, NoAssets, Assets,
                TypeOK, Outcomes
  <2>2. ASSUME NEW a \in held[c], StartRelease(c, a)
        PROVE  \E x \in Ops : /\ x.at = "watch"
                             /\ op' = [op EXCEPT ![c] = x]
                             /\ UNCHANGED <<avail, held, dirty, out>>
                             /\ last' \in [Clients -> Outcomes]
    <3>1. a \in Allocs
      BY DEF TypeOK
    <3> QED
      BY <2>2, <3>1 DEF StartRelease, Ops, ReleaseOps, Commands, NoAssets,
                        Assets, TypeOK, Outcomes
  <2> QED
    BY <2>1, <2>2
<1>2. TypeOK'
  BY <1>1 DEF TypeOK
<1>3. Conservation'
  BY <1>1 DEF Conservation
<1>4. WatchInv'
  BY <1>1 DEF WatchInv, Busy, TypeOK
<1> QED
  BY <1>2, <1>3, <1>4

\* WATCH and HGETALL: the record read is the record as it is.
LEMMA WatchReadStep ==
    ASSUME IInv, NEW c \in Clients, Watch(c) \/ Read(c)
    PROVE  IInv'
<1> USE DEF IInv
<1>1. CASE Watch(c)
  <2>1. [op[c] EXCEPT !.at = "read"] \in Ops
    <3>1. NoAssets \in Assets /\ "read" \in Commands /\ Busy(c)
      BY <1>1 DEF Watch, Commands, NoAssets, Assets
    <3> QED
      BY <3>1, OpUpdate
  <2>2. TypeOK'
    BY <1>1, <2>1 DEF Watch, TypeOK
  <2>3. Conservation'
    BY <1>1 DEF Watch, Conservation
  <2>4. WatchInv'
    BY <1>1, <2>1 DEF Watch, WatchInv, TypeOK, Busy
  <2> QED
    BY <2>2, <2>3, <2>4
<1>2. CASE Read(c)
  <2>1. avail[op[c].ask.res] \in Assets
    BY <1>2, BusyOp DEF Read, TypeOK
  <2>2. [op[c] EXCEPT !.at = "exec", !.seen = avail[op[c].ask.res]] \in Ops
    BY <1>2, <2>1, OpUpdate DEF Read, Commands
  <2>3. op' = [op EXCEPT ![c] = [op[c] EXCEPT !.at = "exec",
                                              !.seen = avail[op[c].ask.res]]]
    BY <1>2 DEF Read, TypeOK
  <2>4. TypeOK'
    BY <1>2, <2>2, <2>3 DEF Read, TypeOK
  <2>5. Conservation'
    BY <1>2 DEF Read, Conservation
  <2>6. op'[c].seen = avail[op[c].ask.res] /\ op'[c].ask = op[c].ask
    <3>1. op[c] \in AllocateOps \/ op[c] \in ReleaseOps
      BY <1>2 DEF TypeOK, Ops, Busy, Idle, Read
    <3> QED
      BY <2>3, <3>1 DEF AllocateOps, ReleaseOps, TypeOK
  <2>7. WatchInv'
    BY <1>2, <2>3, <2>6 DEF Read, WatchInv, TypeOK, Busy
  <2> QED
    BY <2>4, <2>5, <2>7
<1> QED
  BY <1>1, <1>2

\* A granting EXEC moves what is taken from the record to the client.
LEMMA GrantStep ==
    ASSUME IInv, NEW c \in Clients, NEW id \in AllocIds, ExecGrant(c, id)
    PROVE  IInv'
<1> USE DEF IInv
<1> DEFINE r == op[c].ask.res
           t == Taken(op[c].seen, op[c].ask)
<1>1. /\ Busy(c) /\ r \in Resources /\ op[c].seen \in Assets
      /\ op[c].ask \in Asks
      /\ op[c].ask.cpus \in Nat /\ op[c].ask.memory \in Nat
  <2>1. Busy(c) /\ op[c].kind = "allocate"
    BY DEF ExecGrant, At, Busy
  <2> QED
    BY <2>1, BusyOp
<1>2. op[c].seen = avail[r]
  BY <1>1 DEF ExecGrant, ExecRuns, At, WatchInv
<1>3. /\ t \in Assets /\ Less(avail[r], t) \in Assets
      /\ Plus(Less(avail[r], t), t) = avail[r]
  <2>1. ASSUME NEW ask, ask = op[c].ask
        PROVE  ask.cpus \in Nat /\ ask.memory \in Nat
    BY <1>1, <2>1
  <2> QED
    BY <1>1, <1>2, <2>1, TakenSplits
<1>4. /\ avail' = [avail EXCEPT ![r] = Less(avail[r], t)]
      /\ out' = [out EXCEPT ![r] = Plus(out[r], t)]
      /\ held' = [held EXCEPT ![c] = held[c] \union {AllocOf(id, op[c].ask, t)}]
      /\ dirty' = DirtyBy(c, r)
      /\ op' = [op EXCEPT ![c] = Idle]
      /\ last' = [last EXCEPT ![c] = "granted"]
  BY <1>2 DEF ExecGrant, Finish
<1> HIDE DEF r, t
<1>5. TypeOK'
  <2>1. avail' \in [Resources -> Assets]
    BY <1>1, <1>3, <1>4 DEF TypeOK
  <2>2. out' \in [Resources -> [cpus : Int, memory : Int]]
    <3>1. Plus(out[r], t) \in [cpus : Int, memory : Int]
      BY <1>1, <1>3 DEF TypeOK, Plus, Assets
    <3> QED
      BY <1>4, <3>1 DEF TypeOK
  <2>3. AllocOf(id, op[c].ask, t) \in Allocs
    BY <1>1, <1>3 DEF AllocOf, Allocs, Assets, r
  <2>4. held' \in [Clients -> SUBSET Allocs]
    BY <1>4, <2>3 DEF TypeOK
  <2>5. dirty' \in [Clients -> BOOLEAN]
    BY <1>4 DEF DirtyBy, TypeOK
  <2>6. op' \in [Clients -> Ops] /\ last' \in [Clients -> Outcomes]
    BY <1>4 DEF TypeOK, Ops, Outcomes
  <2> QED
    BY <2>1, <2>2, <2>4, <2>5, <2>6 DEF TypeOK
<1>6. Conservation'
  <2> SUFFICES ASSUME NEW q \in Resources PROVE Plus(avail'[q], out'[q]) = Total[q]
    BY DEF Conservation
  <2>1. CASE q # r
    BY <1>4, <2>1 DEF Conservation, TypeOK
  <2>2. CASE q = r
    <3>1. avail'[q] = Less(avail[r], t) /\ out'[q] = Plus(out[r], t)
      BY <1>1, <1>4, <2>2 DEF TypeOK
    <3>2. Plus(Less(avail[r], t), Plus(out[r], t)) = Plus(avail[r], out[r])
      BY <1>1, <1>3 DEF TypeOK, Plus, Less, Assets
    <3> QED
      BY <1>1, <3>1, <3>2, <2>2 DEF Conservation
  <2> QED
    BY <2>1, <2>2
<1>7. WatchInv'
  <2> SUFFICES ASSUME NEW d \in Clients, Busy(d)', op'[d].at = "exec", ~dirty'[d]
               PROVE  op'[d].seen = avail'[op'[d].ask.res]
    BY DEF WatchInv
  <2>1. d # c /\ op'[d] = op[d] /\ Busy(d)
    BY <1>4 DEF TypeOK, Busy, Idle
  <2>2. ~dirty[d] /\ op[d].ask.res # r
    BY <1>4, <2>1 DEF DirtyBy
  <2>3. op[d].ask.res \in Resources
    BY <2>1, BusyOp
  <2> QED
    BY <1>4, <2>1, <2>2, <2>3 DEF WatchInv, TypeOK
<1> QED
  BY <1>5, <1>6, <1>7

\* The EXEC of a release returns what the allocation records.
LEMMA ReleaseStep ==
    ASSUME IInv, NEW c \in Clients, ExecRelease(c)
    PROVE  IInv'
<1> USE DEF IInv
<1> DEFINE r == op[c].ask.res
           a == op[c].ask
<1>1. Busy(c) /\ r \in Resources /\ a \in Allocs
  <2>1. Busy(c) /\ op[c].kind = "release"
    BY DEF ExecRelease, At, Busy
  <2> QED
    BY <2>1, BusyOp
<1>2. op[c].seen = avail[r]
  BY <1>1 DEF ExecRelease, ExecRuns, At, WatchInv
<1>3. /\ avail' = [avail EXCEPT ![r] = Plus(avail[r], a)]
      /\ out' = [out EXCEPT ![r] = Less(out[r], a)]
      /\ held' = [held EXCEPT ![c] = held[c] \ {a}]
      /\ dirty' = DirtyBy(c, r)
      /\ op' = [op EXCEPT ![c] = Idle]
      /\ last' = [last EXCEPT ![c] = "released"]
  BY <1>2 DEF ExecRelease, Finish
<1> HIDE DEF r, a
<1>4. TypeOK'
  <2>1. Plus(avail[r], a) \in Assets
    BY <1>1 DEF TypeOK, Plus, Assets, Allocs
  <2>2. avail' \in [Resources -> Assets]
    BY <1>1, <1>3, <2>1 DEF TypeOK
  <2>3. Less(out[r], a) \in [cpus : Int, memory : Int]
    BY <1>1 DEF TypeOK, Less, Allocs
  <2>4. out' \in [Resources -> [cpus : Int, memory : Int]]
    BY <1>3, <2>3 DEF TypeOK
  <2>5. held' \in [Clients -> SUBSET Allocs]
    BY <1>3 DEF TypeOK
  <2>6. dirty' \in [Clients -> BOOLEAN]
    BY <1>3 DEF DirtyBy, TypeOK
  <2>7. op' \in [Clients -> Ops] /\ last' \in [Clients -> Outcomes]
    BY <1>3 DEF TypeOK, Ops, Outcomes
  <2> QED
    BY <2>2, <2>4, <2>5, <2>6, <2>7 DEF TypeOK
<1>5. Conservation'
  <2> SUFFICES ASSUME NEW q \in Resources PROVE Plus(avail'[q], out'[q]) = Total[q]
    BY DEF Conservation
  <2>1. CASE q # r
    BY <1>3, <2>1 DEF Conservation, TypeOK
  <2>2. CASE q = r
    <3>1. avail'[q] = Plus(avail[r], a) /\ out'[q] = Less(out[r], a)
      BY <1>1, <1>3, <2>2 DEF TypeOK
    <3>2. Plus(Plus(avail[r], a), Less(out[r], a)) = Plus(avail[r], out[r])
      BY <1>1 DEF TypeOK, Plus, Less, Assets, Allocs
    <3> QED
      BY <1>1, <3>1, <3>2, <2>2 DEF Conservation
  <2> QED
    BY <2>1, <2>2
<1>6. WatchInv'
  <2> SUFFICES ASSUME NEW d \in Clients, Busy(d)', op'[d].at = "exec", ~dirty'[d]
               PROVE  op'[d].seen = avail'[op'[d].ask.res]
    BY DEF WatchInv
  <2>1. d # c /\ op'[d] = op[d] /\ Busy(d)
    BY <1>3 DEF TypeOK, Busy, Idle
  <2>2. ~dirty[d] /\ op[d].ask.res # r
    BY <1>3, <2>1 DEF DirtyBy
  <2>3. op[d].ask.res \in Resources
    BY <2>1, BusyOp
  <2> QED
    BY <1>3, <2>1, <2>2, <2>3 DEF WatchInv, TypeOK
<1> QED
  BY <1>4, <1>5, <1>6

\* Transactions that fail or find too little change no record.
LEMMA NoGrantStep ==
    ASSUME IInv, NEW c \in Clients,
           ExecRaise(c) \/ ExecRefuse(c) \/ RetryRelease(c)
    PROVE  IInv'
<1> USE DEF IInv
<1>1. CASE ExecRaise(c) \/ ExecRefuse(c)
  <2>1. PICK o \in Outcomes : /\ op' = [op EXCEPT ![c] = Idle]
                             /\ last' = [last EXCEPT ![c] = o]
                             /\ dirty' = [dirty EXCEPT ![c] = FALSE]
                             /\ UNCHANGED <<avail, held, out>>
    BY <1>1 DEF ExecRaise, ExecRefuse, Finish, Outcomes
  <2>2. TypeOK'
    BY <2>1 DEF TypeOK, Ops
  <2>3. Conservation'
    BY <2>1 DEF Conservation
  <2>4. WatchInv'
    BY <2>1 DEF WatchInv, TypeOK, Busy, Idle
  <2> QED
    BY <2>2, <2>3, <2>4
<1>2. CASE RetryRelease(c)
  <2>1. Busy(c) /\ "watch" \in Commands /\ NoAssets \in Assets
    BY <1>2 DEF RetryRelease, At, Busy, Commands, NoAssets, Assets
  <2>2. [op[c] EXCEPT !.at = "watch", !.seen = NoAssets] \in Ops
    BY <2>1, OpUpdate
  <2>3. op' = [op EXCEPT ![c] = [op[c] EXCEPT !.at = "watch", !.seen = NoAssets]]
    BY <1>2 DEF RetryRelease, TypeOK
  <2>4. TypeOK'
    BY <1>2, <2>2, <2>3 DEF RetryRelease, TypeOK
  <2>5. Conservation'
    BY <1>2 DEF RetryRelease, Conservation
  <2>6. op'[c].at = "watch"
    <3>1. op[c] \in AllocateOps \/ op[c] \in ReleaseOps
      BY <2>1 DEF TypeOK, Ops, Busy, Idle
    <3> QED
      BY <2>3, <3>1 DEF AllocateOps, ReleaseOps, TypeOK
  <2>7. WatchInv'
    BY <1>2, <2>3, <2>6 DEF RetryRelease, WatchInv, TypeOK, Busy
  <2> QED
    BY <2>4, <2>5, <2>7
<1> QED
  BY <1>1, <1>2

\* The inductive invariant of the transactions.
THEOREM PoolInvariant == Spec => []IInv
<1>1. Init => IInv
  BY InitIInv
<1>2. ASSUME IInv, [Next]_vars PROVE IInv'
  <2>1. CASE Next
    <3>1. PICK c \in Clients : ClientStep(c)
      BY <2>1 DEF Next
    <3> QED
      BY <1>2, <3>1, StartStep, WatchReadStep, GrantStep, ReleaseStep, NoGrantStep
         DEF ClientStep
  <2>2. CASE UNCHANGED vars
    BY <1>2, <2>2 DEF vars, IInv, TypeOK, Conservation, WatchInv, Busy
  <2> QED
    BY <1>2, <2>1, <2>2
<1> QED
  BY <1>1, <1>2, PTL DEF Spec

(***************************************************************************)
(* Records, operations and allocations keep their types; in particular the *)
(* CPUs and the memory left on a resource are never negative               *)
(* (Resource.allocate).                                                    *)
(***************************************************************************)
THEOREM PoolTypeCorrect == Spec => []TypeOK
<1>1. IInv => TypeOK
  BY DEF IInv
<1> QED
  BY <1>1, PoolInvariant, PTL

(***************************************************************************)
(* For any number of clients: what is left of a resource and what was      *)
(* granted from it make up the resource, whatever the interleaving of      *)
(* allocate_resource and release_resource.                                 *)
(***************************************************************************)
THEOREM PoolConservation == Spec => []Conservation
<1>1. IInv => Conservation
  BY DEF IInv
<1> QED
  BY <1>1, PoolInvariant, PTL

\* A step of client c alone decides whether c is still busy, and only its
\* unbroken transactions write records.
LEMMA WriterHasRead ==
    ASSUME IInv, NEW d \in Clients, ClientStep(d),
           NEW c \in Clients, NEW r \in Resources,
           Busy(c), op[c].ask.res = r, op[c].at = "exec",
           ~Busy(c)', avail'[r] # avail[r]
    PROVE  op[c].seen = avail[r]
<1> USE DEF IInv
<1>1. d = c
  <2> SUFFICES ASSUME d # c PROVE op'[c] = op[c]
    BY DEF Busy
  <2>1. PICK x : op' = [op EXCEPT ![d] = x]
    BY DEF ClientStep, StartAllocate, StartRelease, Watch, Read, ExecGrant,
           ExecRaise, ExecRefuse, ExecRelease, RetryRelease, Finish, TypeOK
  <2> QED
    BY <2>1 DEF TypeOK
<1>2. ~dirty[c]
  BY <1>1 DEF ClientStep, StartAllocate, StartRelease, Watch, Read, ExecGrant,
              ExecRaise, ExecRefuse, ExecRelease, RetryRelease, ExecRuns
<1> QED
  BY <1>2 DEF WatchInv

(***************************************************************************)
(* For any number of clients: a client's transaction changes a record only *)
(* if the record is still what the client read.                            *)
(***************************************************************************)
THEOREM PoolNoStaleWrite == Spec => NoStaleWrite
<1> DEFINE A == \A c \in Clients : \A r \in Resources :
                  (Busy(c) /\ op[c].ask.res = r /\ op[c].at = "exec"
                     /\ ~Busy(c)' /\ avail'[r] # avail[r])
                  => op[c].seen = avail[r]
<1>1. IInv /\ [Next]_vars => [A]_vars
  BY WriterHasRead DEF Next
<1> QED
  BY <1>1, PoolInvariant, PTL DEF Spec, NoStaleWrite
-----------------------------------------------------------------------------
(* That calls behave as if each took effect in one step. *)

\* Nobody notices a change before the record is watched.
QuietInv == \A c \in Clients : op[c] = Idle \/ op[c].at = "watch" => ~dirty[c]

RInv == IInv /\ QuietInv

Calls == [c \in Clients |-> CallOf(c)]

\* A step of one client is a step of its call.
LEMMA OneCall ==
    ASSUME TypeOK, NEW c \in Clients, NEW x, op' = [op EXCEPT ![c] = x]
    PROVE  Calls' = [Calls EXCEPT ![c] = CallOf(c)']
<1>1. \A d \in Clients \ {c} : op'[d] = op[d]
  BY DEF TypeOK
<1>2. \A d \in Clients \ {c} : CallOf(d)' = CallOf(d)
  BY <1>1 DEF CallOf, At
<1>3. \A d \in Clients : Calls'[d] = CallOf(d)' /\ Calls[d] = CallOf(d)
  BY DEF Calls
<1> QED
  BY <1>2, <1>3 DEF Calls

\* Between commands of a client that is not idle only its refusal shows.
LEMMA BusyCall ==
    ASSUME TypeOK, NEW c \in Clients, Busy(c)
    PROVE  /\ Calls[c] # Idle
           /\ Calls[c].kind = op[c].kind
           /\ Calls[c].ask = op[c].ask
           /\ Calls[c].refused = (/\ At(c, "allocate", "exec")
                                  /\ ~Grants(op[c].seen, op[c].ask))
<1>1. op[c] # Idle
  BY DEF Busy, Idle
<1>2. op[c].kind # "idle"
  BY DEF Busy
<1> QED
  BY <1>1, <1>2 DEF Calls, CallOf, Idle

\* An idle client calls nobody.
LEMMA IdleCall ==
    ASSUME NEW c \in Clients
    PROVE  (op[c] = Idle <=> Calls[c] = Idle) /\ (op'[c] = Idle => CallOf(c)' = Idle)
BY DEF Calls, CallOf, Idle

\* A new operation is a new call.
LEMMA BeginSim ==
    ASSUME TypeOK, NEW c \in Clients,
           \/ \E ask \in Asks : StartAllocate(c, ask)
           \/ \E a \in held[c] : StartRelease(c, a)
    PROVE  Promise!BeginAllocate(c) \/ Promise!BeginRelease(c)
<1>1. ASSUME NEW ask \in Asks, StartAllocate(c, ask)
      PROVE  Promise!BeginAllocate(c)
  <2>1. op'[c] = [kind |-> "allocate", ask |-> ask, at |-> "watch", seen |-> NoAssets]
    BY <1>1 DEF StartAllocate, TypeOK
  <2>2. CallOf(c)' = Promise!Begun("allocate", ask)
    <3>1. op'[c] # Idle /\ op'[c].kind = "allocate" /\ op'[c].ask = ask
      BY <2>1 DEF Idle
    <3>2. (At(c, "allocate", "exec") /\ ~Grants(op[c].seen, op[c].ask))' = FALSE
      BY <2>1 DEF At
    <3> QED
      BY <3>1, <3>2 DEF CallOf, Promise!Begun
  <2>3. Calls' = [Calls EXCEPT ![c] = Promise!Begun("allocate", ask)]
    BY <1>1, <2>2, OneCall DEF StartAllocate
  <2>4. Calls[c] = Promise!Idle
    BY <1>1 DEF StartAllocate, Calls, CallOf, Idle, Promise!Idle
  <2>5. Promise!Begin(c, "allocate", ask)
    BY <1>1, <2>3, <2>4 DEF StartAllocate, Promise!Begin, Calls
  <2> QED
    BY <2>5 DEF Promise!BeginAllocate, Asks
<1>2. ASSUME NEW a \in held[c], StartRelease(c, a)
      PROVE  Promise!BeginRelease(c)
  <2>1. op'[c] = [kind |-> "release", ask |-> a, at |-> "watch", seen |-> NoAssets]
    BY <1>2 DEF StartRelease, TypeOK
  <2>2. CallOf(c)' = Promise!Begun("release", a)
    <3>1. op'[c] # Idle /\ op'[c].kind = "release" /\ op'[c].ask = a
      BY <2>1 DEF Idle
    <3>2. (At(c, "allocate", "exec") /\ ~Grants(op[c].seen, op[c].ask))' = FALSE
      BY <2>1 DEF At
    <3> QED
      BY <3>1, <3>2 DEF CallOf, Promise!Begun
  <2>3. Calls' = [Calls EXCEPT ![c] = Promise!Begun("release", a)]
    BY <1>2, <2>2, OneCall DEF StartRelease
  <2>4. Calls[c] = Promise!Idle
    BY <1>2 DEF StartRelease, Calls, CallOf, Idle, Promise!Idle
  <2>5. Promise!Begin(c, "release", a)
    BY <1>2, <2>3, <2>4 DEF StartRelease, Promise!Begin, Calls
  <2> QED
    BY <2>5 DEF Promise!BeginRelease
<1> QED
  BY <1>1, <1>2

\* Watching shows nothing of the call.
LEMMA WatchSim ==
    ASSUME RInv, NEW c \in Clients, Watch(c)
    PROVE  UNCHANGED Promise!vars
<1>1. /\ op' = [op EXCEPT ![c] = [op[c] EXCEPT !.at = "read"]]
      /\ ~dirty[c] /\ op[c] # Idle /\ TypeOK
  BY DEF Watch, RInv, IInv, QuietInv, TypeOK, Busy, Idle
<1>2. /\ op'[c] # Idle /\ op'[c].kind = op[c].kind
      /\ op'[c].ask = op[c].ask /\ op'[c].at = "read"
  <2>1. op[c] \in AllocateOps \/ op[c] \in ReleaseOps
    BY <1>1 DEF TypeOK, Ops
  <2>2. op'[c] = [op[c] EXCEPT !.at = "read"]
    BY <1>1 DEF TypeOK
  <2> QED
    BY <2>1, <2>2 DEF AllocateOps, ReleaseOps, Idle
<1>3. CallOf(c)' = CallOf(c)
  BY <1>1, <1>2 DEF CallOf, At, Watch
<1>4. Calls' = Calls
  BY <1>1, <1>3, OneCall DEF Calls
<1>5. dirty' = dirty
  BY <1>1 DEF Watch, TypeOK
<1> QED
  BY <1>4, <1>5 DEF Watch, Promise!vars, Calls

\* What no part of a record can serve is too little in the promise's words.
LEMMA RefusalIsJust ==
    ASSUME NEW seen \in Assets, NEW ask \in Asks, ~Grants(seen, ask)
    PROVE  Promise!TooLittle(seen, ask)
<1>1. /\ ask.cpus \in Nat \ {0} /\ ask.memory \in Nat
      /\ seen.cpus \in Nat /\ seen.memory \in Nat
  BY PoolAssumption DEF Asks, Assets
<1>2. ~Promise!Suffices(seen, ask)
  BY DEF Grants, Suffices, Promise!Suffices
<1>3. ASSUME ask.partial PROVE Promise!Exhausted(seen)
  <2>1. \/ ~(Least(ask.cpus, seen.cpus) > 0)
        \/ ~(Least(ask.memory, seen.memory) > 0) /\ ask.memory # 0
    BY <1>3 DEF Grants, PartOf, Taken
  <2> QED
    BY <1>1, <2>1 DEF Least, Promise!Exhausted
<1> QED
  BY <1>2, <1>3 DEF Promise!TooLittle

\* Reading the record may settle a refusal.
LEMMA ReadSim ==
    ASSUME RInv, NEW c \in Clients, Read(c)
    PROVE  Promise!Decide(c) \/ UNCHANGED Promise!vars
<1> DEFINE r == op[c].ask.res
<1>1. TypeOK /\ Busy(c) /\ op[c].at = "read" /\ op[c] # Idle
  BY DEF Read, RInv, IInv, Busy, Idle
<1>2. /\ op'[c] # Idle /\ op'[c].kind = op[c].kind /\ op'[c].ask = op[c].ask
      /\ op'[c].at = "exec" /\ op'[c].seen = avail[r]
  <2>1. op[c] \in AllocateOps \/ op[c] \in ReleaseOps
    BY <1>1 DEF TypeOK, Ops
  <2>2. op'[c] = [op[c] EXCEPT !.at = "exec", !.seen = avail[r]]
    BY <1>1 DEF TypeOK, Read
  <2> QED
    BY <2>1, <2>2 DEF AllocateOps, ReleaseOps, Idle
<1>3. PICK x : op' = [op EXCEPT ![c] = x]
  BY DEF Read
<1>4. Calls' = [Calls EXCEPT ![c] = CallOf(c)']
  BY <1>1, <1>3, OneCall
<1>5. Calls[c] = [kind |-> op[c].kind, ask |-> op[c].ask, refused |-> FALSE]
  <2>1. (At(c, "allocate", "exec") /\ ~Grants(op[c].seen, op[c].ask)) = FALSE
    BY <1>1 DEF At
  <2> QED
    BY <1>1, <2>1 DEF Calls, CallOf
<1>6. CASE op[c].kind = "allocate" /\ ~Grants(avail[r], op[c].ask)
  <2>1. CallOf(c)' = [kind |-> op[c].kind, ask |-> op[c].ask, refused |-> TRUE]
    <3>1. (At(c, "allocate", "exec") /\ ~Grants(op[c].seen, op[c].ask))' = TRUE
      BY <1>2, <1>6 DEF At
    <3> QED
      BY <1>2, <3>1 DEF CallOf
  <2>2. Calls' = [Calls EXCEPT ![c].refused = TRUE]
    <3>1. PICK y, n : y = TRUE /\ n = FALSE
      OBVIOUS
    <3>2. Calls[c] = [kind |-> op[c].kind, ask |-> op[c].ask, refused |-> n]
      BY <1>5, <3>1
    <3>3. [Calls[c] EXCEPT !.refused = y]
             = [kind |-> op[c].kind, ask |-> op[c].ask, refused |-> y]
      BY <3>2
    <3>4. [Calls[c] EXCEPT !.refused = TRUE] = CallOf(c)'
      BY <2>1, <3>1, <3>3
    <3> QED
      BY <1>4, <3>4
  <2>3. Promise!TooLittle(avail[r], op[c].ask)
    <3>1. op[c].ask \in Asks /\ r \in Resources
      BY <1>1, <1>6, BusyOp
    <3>2. avail[r] \in Assets
      BY <1>1, <3>1 DEF TypeOK
    <3> QED
      BY <1>6, <3>1, <3>2, RefusalIsJust
  <2>4. Promise!Calling(c, "allocate") /\ ~Calls[c].refused
    BY <1>5, <1>6 DEF Promise!Calling, Calls
  <2> QED
    BY <1>5, <2>2, <2>3, <2>4 DEF Promise!Decide, Read, Calls
<1>7. CASE ~(op[c].kind = "allocate" /\ ~Grants(avail[r], op[c].ask))
  <2>1. CallOf(c)' = Calls[c]
    <3>1. (At(c, "allocate", "exec") /\ ~Grants(op[c].seen, op[c].ask))' = FALSE
      BY <1>2, <1>7 DEF At
    <3> QED
      BY <1>2, <1>5, <3>1 DEF CallOf
  <2>2. Calls' = Calls
    BY <1>4, <2>1 DEF Calls
  <2> QED
    BY <2>2 DEF Promise!vars, Read, Calls
<1> QED
  BY <1>6, <1>7

\* What is taken from a record that grants is what may be given.
LEMMA TakenMayBeGiven ==
    ASSUME NEW seen \in Assets, NEW ask \in Asks, Grants(seen, ask)
    PROVE  /\ Taken(seen, ask) \in [cpus : 1 .. ask.cpus, memory : 0 .. ask.memory]
           /\ Promise!MayGive(Taken(seen, ask), seen, ask)
<1> DEFINE g == Taken(seen, ask)
<1>1. /\ ask.cpus \in Nat \ {0} /\ ask.memory \in Nat
      /\ seen.cpus \in Nat /\ seen.memory \in Nat
  BY PoolAssumption DEF Asks, Assets
<1>2. /\ g = [cpus |-> g.cpus, memory |-> g.memory]
      /\ g.cpus = Least(ask.cpus, seen.cpus)
      /\ g.memory = Least(ask.memory, seen.memory)
  BY DEF Taken
<1>3. g.cpus > 0 /\ (Suffices(seen, ask) \/ (ask.partial /\ PartOf(seen, ask)))
  BY <1>1, <1>2 DEF Grants, PartOf, Suffices, Least
<1>4. /\ g.cpus \in 1 .. ask.cpus /\ g.memory \in 0 .. ask.memory
      /\ g.cpus <= seen.cpus /\ g.memory <= seen.memory
  BY <1>1, <1>2, <1>3 DEF Least
<1>5. \/ g.cpus = ask.cpus /\ g.memory = ask.memory
      \/ ask.partial /\ (g.memory > 0 \/ ask.memory = 0)
  <2>1. CASE Suffices(seen, ask)
    BY <1>1, <1>2, <2>1 DEF Suffices, Least
  <2>2. CASE ask.partial /\ PartOf(seen, ask)
    BY <2>2 DEF PartOf
  <2> QED
    BY <1>3, <2>1, <2>2
<1>6. g \in [cpus : 1 .. ask.cpus, memory : 0 .. ask.memory]
  BY <1>2, <1>4
<1> QED
  BY <1>4, <1>5, <1>6 DEF Promise!MayGive

\* The WATCHes an EXEC breaks are those of calls on the same resource.
LEMMA DirtyDisturbs ==
    ASSUME TypeOK, NEW c \in Clients, NEW r, dirty' = DirtyBy(c, r)
    PROVE  Promise!Disturb(c, r)
<1> SUFFICES ASSUME NEW d \in Clients, dirty'[d]
             PROVE  d # c /\ (dirty[d] \/ (Calls[d] # Promise!Idle /\ Calls[d].ask.res = r))
  BY DEF Promise!Disturb, DirtyBy, Calls, TypeOK
<1>1. d # c /\ (dirty[d] \/ (Busy(d) /\ op[d].ask.res = r))
  BY DEF DirtyBy
<1> QED
  BY <1>1, BusyCall DEF Idle, Promise!Idle

\* An operation that ends ends its call.
LEMMA FinishSim ==
    ASSUME TypeOK, NEW c \in Clients, NEW o, Finish(c, o)
    PROVE  Promise!End(c, o)
<1>1. op'[c] = Idle
  BY DEF Finish, TypeOK
<1>2. CallOf(c)' = Promise!Idle
  BY <1>1 DEF CallOf, Idle, Promise!Idle
<1>3. Calls' = [Calls EXCEPT ![c] = Promise!Idle]
  BY <1>2, OneCall DEF Finish
<1> QED
  BY <1>3 DEF Finish, Promise!End, Calls

\* A granting EXEC is a grant of what is there at that moment.
LEMMA GrantSim ==
    ASSUME RInv, NEW c \in Clients, NEW id \in AllocIds, ExecGrant(c, id)
    PROVE  Promise!Grant(c)
<1> DEFINE ask == op[c].ask
           r == op[c].ask.res
           t == Taken(op[c].seen, op[c].ask)
<1>1. TypeOK /\ Busy(c) /\ At(c, "allocate", "exec") /\ ~dirty[c]
  BY DEF ExecGrant, ExecRuns, RInv, IInv, At, Busy
<1>2. op[c].seen = avail[r] /\ Grants(op[c].seen, ask)
  BY <1>1 DEF ExecGrant, RInv, IInv, WatchInv, At
<1>3. ask \in Asks /\ r \in Resources /\ op[c].seen \in Assets
  BY <1>1, BusyOp DEF At
<1>4. /\ Calls[c].kind = "allocate" /\ ~Calls[c].refused /\ Calls[c].ask = ask
  BY <1>1, <1>2, BusyCall DEF At
<1>5. /\ t \in [cpus : 1 .. ask.cpus, memory : 0 .. ask.memory]
      /\ Promise!MayGive(t, avail[r], ask)
  BY <1>2, <1>3, TakenMayBeGiven
<1>6. Promise!Less(avail[r], t) = Less(op[c].seen, t)
  BY <1>2 DEF Less, Promise!Less
<1>7. Promise!Disturb(c, r)
  BY <1>1, DirtyDisturbs DEF ExecGrant
<1>8. Promise!End(c, "granted")
  BY <1>1, FinishSim DEF ExecGrant
<1>9. /\ avail' = [avail EXCEPT ![r] = Promise!Less(avail[r], t)]
      /\ held' = [held EXCEPT ![c] = held[c] \union
            {[id |-> id, res |-> r, cpus |-> t.cpus, memory |-> t.memory]}]
  BY <1>6 DEF ExecGrant, AllocOf
<1> HIDE DEF ask, r, t
<1>10. \E g \in [cpus : 1 .. ask.cpus, memory : 0 .. ask.memory] :
          /\ Promise!MayGive(g, avail[r], ask)
          /\ avail' = [avail EXCEPT ![r] = Promise!Less(avail[r], g)]
          /\ \E i \in AllocIds : held' = [held EXCEPT ![c] = held[c] \union
               {[id |-> i, res |-> r, cpus |-> g.cpus, memory |-> g.memory]}]
          /\ Promise!Disturb(c, r)
  BY <1>5, <1>7, <1>9
<1>11. r = ask.res
  BY DEF r, ask
<1> QED
  BY <1>4, <1>8, <1>10, <1>11 DEF Promise!Grant, Promise!Calling, Calls

\* An EXEC that refuses ends a call whose refusal is settled.
LEMMA RefuseSim ==
    ASSUME RInv, NEW c \in Clients, ExecRefuse(c)
    PROVE  Promise!Refuse(c)
<1>1. TypeOK /\ Busy(c) /\ At(c, "allocate", "exec")
  BY DEF ExecRefuse, RInv, IInv, At, Busy
<1>2. Calls[c].kind = "allocate" /\ Calls[c].refused
  BY <1>1, BusyCall DEF ExecRefuse, At
<1>3. Promise!End(c, "refused")
  BY <1>1, FinishSim DEF ExecRefuse
<1> QED
  BY <1>2, <1>3 DEF ExecRefuse, Promise!Refuse, Promise!Calling, Calls

\* A WatchError ends a call whose resource another call has changed.
LEMMA RaiseSim ==
    ASSUME RInv, NEW c \in Clients, ExecRaise(c)
    PROVE  Promise!Raise(c)
<1>1. TypeOK /\ Busy(c) /\ At(c, "allocate", "exec") /\ dirty[c]
  BY DEF ExecRaise, ExecRuns, RInv, IInv, At, Busy
<1>2. Calls[c].kind = "allocate"
  BY <1>1, BusyCall DEF At
<1>3. Promise!End(c, "raised")
  BY <1>1, FinishSim DEF ExecRaise
<1> QED
  BY <1>1, <1>2, <1>3 DEF ExecRaise, Promise!Raise, Promise!Calling, Calls

\* The EXEC of a release is the release.
LEMMA ReleaseSim ==
    ASSUME RInv, NEW c \in Clients, ExecRelease(c)
    PROVE  Promise!Release(c)
<1> DEFINE a == op[c].ask
<1>1. TypeOK /\ Busy(c) /\ At(c, "release", "exec") /\ ~dirty[c]
  BY DEF ExecRelease, ExecRuns, RInv, IInv, At, Busy
<1>2. op[c].seen = avail[a.res]
  BY <1>1 DEF RInv, IInv, WatchInv, At
<1>3. Calls[c].kind = "release" /\ Calls[c].ask = a
  BY <1>1, BusyCall DEF At
<1>4. Promise!Disturb(c, a.res) /\ Promise!End(c, "released")
  BY <1>1, DirtyDisturbs, FinishSim DEF ExecRelease
<1>5. /\ avail' = [avail EXCEPT ![a.res] = Promise!Plus(avail[a.res], a)]
      /\ held' = [held EXCEPT ![c] = held[c] \ {a}]
  BY <1>2 DEF ExecRelease, Plus, Promise!Plus
<1> HIDE DEF a
<1> QED
  BY <1>3, <1>4, <1>5 DEF Promise!Release, Promise!Calling, Calls

\* A release whose transaction failed begins again; its call goes on.
LEMMA RetrySim ==
    ASSUME RInv, NEW c \in Clients, RetryRelease(c)
    PROVE  Promise!TryAgain(c)
<1>1. TypeOK /\ Busy(c) /\ At(c, "release", "exec") /\ dirty[c] /\ op[c] # Idle
  BY DEF RetryRelease, ExecRuns, RInv, IInv, At, Busy, Idle
<1>2. op'[c] # Idle /\ op'[c].kind = op[c].kind /\ op'[c].ask = op[c].ask
  <2>1. op[c] \in AllocateOps \/ op[c] \in ReleaseOps
    BY <1>1 DEF TypeOK, Ops
  <2>2. op'[c] = [op[c] EXCEPT !.at = "watch", !.seen = NoAssets]
    BY <1>1 DEF TypeOK, RetryRelease
  <2> QED
    BY <2>1, <2>2 DEF AllocateOps, ReleaseOps, Idle
<1>3. CallOf(c)' = CallOf(c)
  <2>1. ~At(c, "allocate", "exec") /\ ~At(c, "allocate", "exec")'
    BY <1>1, <1>2 DEF At
  <2> QED
    BY <1>1, <1>2, <2>1 DEF CallOf
<1>4. PICK x : op' = [op EXCEPT ![c] = x]
  BY DEF RetryRelease
<1>5. Calls' = Calls
  BY <1>1, <1>3, <1>4, OneCall DEF Calls
<1>6. Calls[c].kind = "release"
  BY <1>1, BusyCall DEF At
<1> QED
  BY <1>1, <1>5, <1>6 DEF RetryRelease, Promise!TryAgain, Promise!Calling, Calls

\* A WATCH is only broken between it and the EXEC.
LEMMA QuietStep ==
    ASSUME RInv, NEW c \in Clients, ClientStep(c)
    PROVE  QuietInv'
<1> SUFFICES ASSUME NEW d \in Clients, op'[d] = Idle \/ op'[d].at = "watch"
             PROVE  ~dirty'[d]
  BY DEF QuietInv
<1>1. TypeOK /\ (op[d] = Idle \/ op[d].at = "watch" => ~dirty[d])
  BY DEF RInv, IInv, QuietInv
<1>2. CASE \/ \E ask \in Asks : StartAllocate(c, ask)
           \/ \E a \in held[c] : StartRelease(c, a)
  BY <1>1, <1>2 DEF StartAllocate, StartRelease, TypeOK
<1>3. CASE Watch(c)
  BY <1>1, <1>3 DEF Watch, TypeOK
<1>4. CASE Read(c)
  <2>1. CASE d = c
    <3>1. op[c] \in AllocateOps \/ op[c] \in ReleaseOps
      BY <1>1, <1>4 DEF TypeOK, Ops, Read, Busy, Idle
    <3>2. op'[c].at = "exec" /\ op'[c] # Idle
      BY <1>1, <1>4, <3>1 DEF Read, TypeOK, AllocateOps, ReleaseOps, Idle
    <3> QED
      BY <2>1, <3>2
  <2>2. CASE d # c
    BY <1>1, <1>4, <2>2 DEF Read, TypeOK
  <2> QED
    BY <2>1, <2>2
<1>5. CASE (\E id \in AllocIds : ExecGrant(c, id)) \/ ExecRelease(c)
  <2>1. PICK r : /\ dirty' = DirtyBy(c, r)
                /\ op' = [op EXCEPT ![c] = Idle]
    BY <1>5 DEF ExecGrant, ExecRelease, Finish
  <2>2. CASE d # c
    <3>1. op'[d] = op[d]
      BY <1>1, <2>1, <2>2 DEF TypeOK
    <3>2. ~dirty[d] /\ ~(Busy(d) /\ op[d].at # "watch")
      BY <1>1, <3>1 DEF Busy, Idle
    <3> QED
      BY <2>1, <3>2 DEF DirtyBy
  <2> QED
    BY <2>1, <2>2 DEF DirtyBy
<1>6. CASE ExecRaise(c) \/ ExecRefuse(c) \/ RetryRelease(c)
  BY <1>1, <1>6 DEF ExecRaise, ExecRefuse, RetryRelease, Finish, TypeOK
<1> QED
  BY <1>2, <1>3, <1>4, <1>5, <1>6 DEF ClientStep

(***************************************************************************)
(* For any number of clients, resources and requests: calls of             *)
(* allocate_resource and release_resource, made of WATCH, HGETALL and EXEC *)
(* that interleave, behave as if each took effect in one step of the       *)
(* abstract pool.                                                          *)
(***************************************************************************)
THEOREM PoolCallsAreAtomic == Spec => CallsAreAtomic
<1>1. Init => QuietInv /\ Promise!Init
  BY DEF Init, QuietInv, CallOf, Idle, Promise!Init, Promise!Idle
<1>2. RInv /\ [Next]_vars => QuietInv'
  <2>1. RInv /\ UNCHANGED vars => QuietInv'
    BY DEF RInv, QuietInv, vars
  <2> QED
    BY <2>1, QuietStep DEF Next
<1>3. RInv /\ [Next]_vars => [Promise!Next]_(Promise!vars)
  <2> SUFFICES ASSUME RInv, [Next]_vars
               PROVE  [Promise!Next]_(Promise!vars)
    OBVIOUS
  <2>1. ASSUME NEW c \in Clients, ClientStep(c)
        PROVE  [Promise!Next]_(Promise!vars)
    <3>1. TypeOK
      BY DEF RInv, IInv
    <3> QED
      BY <2>1, <3>1, BeginSim, WatchSim, ReadSim, GrantSim, RefuseSim, RaiseSim,
         ReleaseSim, RetrySim DEF ClientStep, Promise!Next
  <2>2. CASE UNCHANGED vars
    BY <2>2 DEF vars, Promise!vars, CallOf, At
  <2> QED
    BY <2>1, <2>2 DEF Next
<1>4. IInv /\ QuietInv <=> RInv
  BY DEF RInv
<1> QED
  BY <1>1, <1>2, <1>3, <1>4, PoolInvariant, PTL
     DEF Spec, CallsAreAtomic, Promise!Spec
==============================================================================
