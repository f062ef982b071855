------------------------- MODULE Evaluations_proofs -------------------------
(***************************************************************************)
(* Proofs about the evaluation service: what its records show, that they   *)
(* expire, and that clients hear of their evaluations, for any number of   *)
(* clients, names, launches and workers.                                   *)
(***************************************************************************)
EXTENDS Evaluations, FiniteSetTheorems, TLAPS

Stages == {"none", "sent", "pooled"} \union Working \union Ended

Types == /\ client \in [Consumers -> {"new", "open", "closed"}]
         /\ channel \in [Consumers -> Names \union {None}]
         /\ pending \in [Consumers -> Names \union {None}]
         /\ made \in 0 .. MaxLaunches
         /\ id \in [Launches -> Names \union {None}]
         /\ asker \in [Launches -> Consumers \union {None}]
         /\ stage \in [Launches -> Stages]
         /\ queue \in Seq(Launches)
         /\ runner \in {"connecting", "listening", "failing", "closing", "exited"}
         /\ pool \in Seq(Launches)
         /\ core \in [Ids -> [status : Lists, complete : BOOLEAN, failed : BOOLEAN]]
         /\ info \in [Ids -> Lists] /\ error \in [Ids -> Lists]
         /\ faults \in 0 .. MaxFaults
         /\ heard \in [Consumers -> SUBSET Launches]
         /\ verdict \in [Launches -> {"none", "success", "failure"}]
         /\ shared \subseteq Ids

\* Workers do not exceed the pool.
Staffed == Cardinality(Busy) <= Limit

Pending == {c \in Consumers : pending[c] # None}

\* There is a number left for each launch a consumer is about to publish.
Reserved == IsFiniteSet(Pending) /\ made + Cardinality(Pending) <= MaxLaunches

Launched == \A k \in Launches : /\ id[k] # None <=> k <= made
                                /\ stage[k] # "none" <=> k <= made

\* What waits for the runner or for a worker waits there once.
Lined(st, line, s) == /\ \A i \in 1 .. Len(line) : st[line[i]] = s
                      /\ \A i, j \in 1 .. Len(line) : line[i] = line[j] => i = j

Waits == /\ Lined(stage, queue, "sent") /\ Lined(stage, pool, "pooled")
         /\ runner # "listening" => queue = <<>> /\ pool = <<>>

\* A consumer listens to the name of all its launches while it is connected, a
\* name without spaces.
Listeners ==
    /\ \A c \in Consumers : pending[c] # None => client[c] = "open" /\ channel[c] = pending[c]
    /\ \A c \in Consumers : channel[c] # None => Underscored[channel[c]] = channel[c]
    /\ \A k \in Launches : asker[k] # None =>
          /\ id[k] # None /\ client[asker[k]] # "new"
          /\ client[asker[k]] = "open" => channel[asker[k]] = id[k]

\* Records without a time to live belong to a launch that has just begun.
KeptForNow == \A n \in Ids : core[n].status = "kept" \/ info[n] = "kept" =>
                \E k \in Launches : stage[k] = "registered" /\ Of(k) = n

\* Errors without a time to live are those of a launch that has failed.
ErrorsOfFailures == \A n \in Ids : error[n] = "kept" =>
                       \E k \in Launches : k <= made /\ Of(k) = n /\ verdict[k] = "failure"

\* A launch that has registered has a record.
Registered == {"registered", "running", "written", "rejected", "raised", "failed"}

Recorded == \A k \in Launches : stage[k] \in Registered => core[Of(k)].status # "none"

\* Unless a name is shared, its launches follow each other.
Successive == \A k, l \in Launches :
    k <= made /\ l < k /\ Of(l) = Of(k) /\ Of(k) \notin shared => stage[l] \in Ended

Fresh == {"none", "sent", "pooled", "delayed", "registered", "running"}

Verdicts == \A k \in Launches :
    /\ stage[k] \in Fresh => verdict[k] = "none"
    /\ stage[k] = "written" => verdict[k] = "success"
    /\ stage[k] \in {"rejected", "raised", "failed", "refused"} => verdict[k] = "failure"

Waiting == {"sent", "pooled", "delayed", "lost"}

Settled(k) == /\ stage[k] \in {"finished", "refused"} /\ core[Of(k)].status # "none"
              /\ \A l \in Later(k) : stage[l] \in Waiting

\* The flags of launch k, alone with its name, tell what became of it.
Shown(k) ==
    k <= made /\ Of(k) \notin shared =>
        /\ stage[k] \in {"running", "written", "rejected", "raised"}
             => ~core[Of(k)].complete /\ ~core[Of(k)].failed
        /\ stage[k] = "failed" => ~core[Of(k)].complete /\ core[Of(k)].failed
        /\ Settled(k) => /\ core[Of(k)].failed <=> verdict[k] = "failure"
                         /\ core[Of(k)].complete <=> stage[k] = "finished"

IInv == /\ Types /\ Staffed /\ Reserved /\ Launched /\ Waits /\ Listeners
        /\ KeptForNow /\ ErrorsOfFailures /\ Recorded /\ Successive /\ Verdicts /\ LaunchersHear
        /\ \A k \in Launches : Shown(k)
-----------------------------------------------------------------------------
LEMMA Numbers ==
  /\ MaxLaunches \in Nat /\ Limit \in Nat /\ MaxFaults \in Nat
  /\ \A k \in Launches : k \in Nat /\ k >= 1 /\ k <= MaxLaunches
  /\ IsFiniteSet(Launches)
<1>1. MaxLaunches \in Nat /\ Limit \in Nat /\ MaxFaults \in Nat
  BY BoundsAssumption
<1>2. \A k \in Launches : k \in Nat /\ k >= 1 /\ k <= MaxLaunches
  BY <1>1 DEF Launches
<1>3. IsFiniteSet(Launches)
  BY <1>1, FS_Interval DEF Launches
<1> QED BY <1>1, <1>2, <1>3

\* A launch that was made has a name, under which its records are.
LEMMA OfFacts ==
  ASSUME Types, Launched, NEW k \in Launches, k <= made
  PROVE  id[k] \in Names /\ Of(k) \in Ids /\ stage[k] # "none"
  BY DEF Types, Launched, Of, Ids

\* A worker that is busy is at a launch that was made.
LEMMA BusyFacts ==
  ASSUME Types, Launched, NEW k \in Launches, stage[k] # "none"
  PROVE  k <= made /\ id[k] \in Names /\ Of(k) \in Ids
  BY OfFacts DEF Launched

LEMMA ListFacts ==
  ASSUME NEW l \in Lists
  PROVE  /\ Pushed(l) \in Lists /\ Pushed(l) # "none" /\ (Pushed(l) = "kept" \/ Pushed(l) = l)
         /\ Sunset(l) \in Lists /\ Sunset(l) # "kept" /\ (Sunset(l) = "none" <=> l = "none")
  BY DEF Lists, Pushed, Sunset

LEMMA LinedAppend ==
  ASSUME NEW st, NEW st2, NEW s, NEW line \in Seq(Launches), NEW k \in Launches,
         Lined(st, line, s), st[k] # s, st2[k] = s,
         \A l \in Launches : l # k => st2[l] = st[l]
  PROVE  Lined(st2, Append(line, k), s)
<1> DEFINE new == Append(line, k)
<1>1. /\ Len(line) \in Nat /\ Len(new) = Len(line) + 1
      /\ \A i \in 1 .. Len(line) : new[i] = line[i] /\ line[i] \in Launches
      /\ new[Len(line) + 1] = k
  OBVIOUS
<1> HIDE DEF new
<1>2. \A i \in 1 .. Len(line) : st[line[i]] = s /\ line[i] # k
  BY DEF Lined
<1>3. \A i \in 1 .. Len(new) : i \in 1 .. Len(line) \/ i = Len(line) + 1
  BY <1>1
<1>4. \A i \in 1 .. Len(new) : st2[new[i]] = s
  BY <1>1, <1>2, <1>3
<1>5. \A i, j \in 1 .. Len(new) : new[i] = new[j] => i = j
  BY <1>1, <1>2, <1>3 DEF Lined
<1> QED BY <1>4, <1>5 DEF Lined, new

LEMMA LinedHead ==
  ASSUME NEW st, NEW s, NEW line \in Seq(Launches), line # <<>>, Lined(st, line, s)
  PROVE  Head(line) \in Launches /\ st[Head(line)] = s
<1>1. 1 \in 1 .. Len(line) /\ Head(line) = line[1] /\ line[1] \in Launches
  OBVIOUS
<1> QED BY <1>1 DEF Lined

LEMMA LinedTail ==
  ASSUME NEW st, NEW st2, NEW s, NEW line \in Seq(Launches), line # <<>>,
         Lined(st, line, s), \A l \in Launches : l # Head(line) => st2[l] = st[l]
  PROVE  Tail(line) \in Seq(Launches) /\ Lined(st2, Tail(line), s)
<1> DEFINE new == Tail(line)
<1>1. /\ Len(line) \in Nat /\ Len(line) >= 1 /\ Len(new) = Len(line) - 1
      /\ Head(line) = line[1]
      /\ \A i \in 1 .. Len(new) : new[i] = line[i + 1]
      /\ \A i \in 1 .. Len(line) : line[i] \in Launches
      /\ new \in Seq(Launches)
  OBVIOUS
<1> HIDE DEF new
<1>2. \A i \in 1 .. Len(new) : i + 1 \in 1 .. Len(line) /\ i + 1 # 1
  BY <1>1
<1>3. 1 \in 1 .. Len(line)
  BY <1>1
<1>4. \A i \in 1 .. Len(new) : new[i] # Head(line) /\ new[i] \in Launches /\ st[new[i]] = s
  BY <1>1, <1>2, <1>3 DEF Lined
<1>5. \A i \in 1 .. Len(new) : st2[new[i]] = s
  BY <1>4
<1>6. \A i, j \in 1 .. Len(new) : new[i] = new[j] => i = j
  <2> SUFFICES ASSUME NEW i \in 1 .. Len(new), NEW j \in 1 .. Len(new), new[i] = new[j]
               PROVE  i = j
    OBVIOUS
  <2>1. i + 1 = j + 1
    BY <1>1, <1>2 DEF Lined
  <2> QED BY <2>1
<1>7. Lined(st2, new, s)
  BY <1>5, <1>6 DEF Lined
<1> QED BY <1>1, <1>7 DEF new

LEMMA LinedKept ==
  ASSUME NEW st, NEW st2, NEW s, NEW line \in Seq(Launches), Lined(st, line, s),
         \A l \in Launches : st[l] = s => st2[l] = s
  PROVE  Lined(st2, line, s)
<1>1. \A i \in 1 .. Len(line) : line[i] \in Launches
  OBVIOUS
<1> QED BY <1>1 DEF Lined

LEMMA NobodyLined == ASSUME NEW st, NEW s PROVE Lined(st, <<>>, s)
  BY DEF Lined

\* No worker begins.
LEMMA StaffedKept ==
  ASSUME Staffed, \A k \in Launches : stage'[k] \in Working => stage[k] \in Working
  PROVE  Staffed'
<1> DEFINE a == Cardinality(Busy)
           b == Cardinality(Busy')
<1>1. Busy' \subseteq Busy /\ IsFiniteSet(Busy)
  BY Numbers, FS_Subset DEF Busy
<1>2. a \in Nat /\ b \in Nat /\ b <= a
  BY <1>1, FS_Subset, FS_CardinalityType
<1>3. a <= Limit
  BY DEF Staffed
<1> HIDE DEF a, b
<1>4. b <= Limit
  BY <1>2, <1>3, Numbers
<1> QED BY <1>4 DEF Staffed, b

\* A launch goes on on its way to a worker, or is lost; records stay.
OnItsWay(k) == \/ stage'[k] = stage[k]
               \/ stage[k] \in {"sent", "pooled"} /\ stage'[k] \in {"pooled", "delayed", "lost"}

LEMMA QuietRecords ==
  ASSUME IInv, \A k \in Launches : OnItsWay(k), Types',
         \A c \in Consumers : client[c] = "closed" => client'[c] = "closed",
         UNCHANGED <<made, id, asker, core, info, error, heard, verdict, shared>>
  PROVE  /\ Launched' /\ KeptForNow' /\ ErrorsOfFailures' /\ Recorded' /\ Successive'
         /\ Verdicts' /\ LaunchersHear' /\ \A k \in Launches : Shown(k)'
<1>1. /\ \A k \in Launches : Of(k)' = Of(k)
      /\ \A k \in Launches : Later(k)' = Later(k)
  BY DEF Of, Later
<1>2. /\ Launched' /\ ErrorsOfFailures' /\ Recorded' /\ Verdicts'
  BY <1>1 DEF IInv, OnItsWay, Launched, ErrorsOfFailures, Recorded, Registered, Verdicts, Fresh
<1>3. KeptForNow'
  <2> SUFFICES ASSUME NEW n \in Ids, core[n].status = "kept" \/ info[n] = "kept"
               PROVE  \E k \in Launches : stage'[k] = "registered" /\ Of(k)' = n
    BY DEF KeptForNow
  <2>1. PICK k \in Launches : stage[k] = "registered" /\ Of(k) = n
    BY DEF IInv, KeptForNow
  <2> QED BY <1>1, <2>1 DEF OnItsWay
<1>4. Successive'
  <2> SUFFICES ASSUME NEW k \in Launches, NEW l \in Launches,
                      k <= made, l < k, Of(l) = Of(k), Of(k) \notin shared
               PROVE  stage'[l] \in Ended
    BY <1>1 DEF Successive
  <2>1. stage[l] \in Ended
    BY DEF IInv, Successive
  <2> QED BY <2>1 DEF OnItsWay, Ended
<1>5. LaunchersHear'
  <2> SUFFICES ASSUME NEW k \in Launches, stage'[k] = "finished", asker[k] # None
               PROVE  client'[asker[k]] = "closed" \/ k \in heard[asker[k]]
    BY <1>1 DEF LaunchersHear
  <2>1. stage[k] = "finished" /\ asker[k] \in Consumers
    BY DEF OnItsWay, IInv, Types
  <2> QED BY <2>1 DEF IInv, LaunchersHear
<1>6. ASSUME NEW k \in Launches PROVE Shown(k)'
  <2>1. Shown(k)
    BY DEF IInv
  <2>2. stage'[k] \notin {"sent", "pooled", "delayed", "lost"} => stage'[k] = stage[k]
    BY DEF OnItsWay
  <2>3. Settled(k)' => Settled(k) /\ stage'[k] = stage[k]
    <3> SUFFICES ASSUME Settled(k)' PROVE Settled(k) /\ stage'[k] = stage[k]
      OBVIOUS
    <3>1. stage'[k] \in {"finished", "refused"} /\ core[Of(k)].status # "none"
      BY <1>1 DEF Settled
    <3>2. \A l \in Later(k) : l \in Launches /\ stage'[l] \in Waiting
      BY <1>1 DEF Settled, Later
    <3>3. \A l \in Later(k) : stage[l] \in Waiting
      BY <3>2 DEF OnItsWay, Waiting
    <3> QED BY <2>2, <3>1, <3>3 DEF Settled
  <2> QED BY <1>1, <2>1, <2>2, <2>3 DEF Shown
<1> QED BY <1>2, <1>3, <1>4, <1>5, <1>6
-----------------------------------------------------------------------------
\* A consumer reserves a number, or gives one up, when it is about to publish.
LEMMA PendingGrows ==
  ASSUME IInv, NEW c \in Consumers, NEW n, pending[c] = None,
         pending' = [pending EXCEPT ![c] = n], made' = made,
         made + Cardinality(Pending) < MaxLaunches
  PROVE  Reserved'
<1> DEFINE a == Cardinality(Pending)
           b == Cardinality(Pending')
<1>1. IsFiniteSet(Pending) /\ made \in Nat /\ MaxLaunches \in Nat
  BY Numbers DEF IInv, Reserved, Types
<1>2. Pending' \subseteq Pending \union {c}
  BY DEF IInv, Types, Pending
<1>3. /\ IsFiniteSet(Pending \union {c})
      /\ Cardinality(Pending \union {c}) = Cardinality(Pending) + 1
  BY <1>1, FS_AddElement DEF Pending
<1>4. IsFiniteSet(Pending') /\ b <= Cardinality(Pending \union {c})
  BY <1>2, <1>3, FS_Subset
<1>5. a \in Nat /\ b \in Nat
  BY <1>1, <1>4, FS_CardinalityType
<1>6. b <= a + 1 /\ made + a < MaxLaunches
  BY <1>3, <1>4
<1> HIDE DEF a, b
<1>7. made + b <= MaxLaunches
  BY <1>1, <1>5, <1>6
<1> QED BY <1>4, <1>7 DEF Reserved, b

LEMMA ConnectInv == ASSUME IInv, NEW c \in Consumers, Connect(c) PROVE IInv'
<1>1. /\ client[c] = "new" /\ client' = [client EXCEPT ![c] = "open"]
      /\ UNCHANGED <<channel, pending, made, id, asker, stage, runners, records,
                     heard, verdict, shared>>
  BY DEF Connect
<1>2. Types'
  BY <1>1 DEF IInv, Types, runners, records
<1>3. Staffed' /\ Reserved' /\ Waits'
  BY <1>1 DEF IInv, Staffed, Busy, Reserved, Pending, Waits, runners
<1>4. /\ \A d \in Consumers : client'[d] = IF d = c THEN "open" ELSE client[d]
  BY <1>1 DEF IInv, Types
<1>5. Listeners'
  <2>1. \A k \in Launches : asker[k] # None => asker[k] \in Consumers
    BY DEF IInv, Types
  <2> QED BY <1>1, <1>4, <2>1 DEF IInv, Listeners
<1>6. \A k \in Launches : OnItsWay(k)
  BY <1>1 DEF OnItsWay
<1> QED BY <1>1, <1>2, <1>3, <1>4, <1>5, <1>6, QuietRecords DEF IInv, records

LEMMA SubscribeInv == ASSUME IInv, NEW c \in Consumers, NEW n \in Names, Subscribe(c, n) PROVE IInv'
<1>1. /\ client[c] = "open" /\ pending[c] = None
      /\ made + Cardinality(Pending) < MaxLaunches
      /\ channel[c] = None => Underscored[n] = n
      /\ channel' = [channel EXCEPT ![c] = IF @ = None THEN n ELSE @]
      /\ pending' = [pending EXCEPT ![c] = channel'[c]]
      /\ UNCHANGED <<client, made, id, asker, stage, runners, records, heard, verdict, shared>>
  BY DEF Subscribe, Pending
<1>2. /\ \A d \in Consumers : channel'[d] = IF d = c /\ channel[c] = None THEN n ELSE channel[d]
      /\ \A d \in Consumers : pending'[d] = IF d = c THEN channel'[c] ELSE pending[d]
      /\ channel'[c] \in Names
  BY <1>1 DEF IInv, Types
<1>3. Types'
  BY <1>1, <1>2 DEF IInv, Types, runners, records
<1>4. Staffed' /\ Waits'
  BY <1>1 DEF IInv, Staffed, Busy, Waits, runners
<1>5. Reserved'
  BY <1>1, PendingGrows
<1>6. Listeners'
  <2>1. \A k \in Launches : asker[k] # None /\ client[asker[k]] = "open"
           => asker[k] \in Consumers /\ channel'[asker[k]] = channel[asker[k]]
    <3> SUFFICES ASSUME NEW k \in Launches, asker[k] # None, client[asker[k]] = "open"
                 PROVE  asker[k] \in Consumers /\ channel'[asker[k]] = channel[asker[k]]
      OBVIOUS
    <3>1. asker[k] \in Consumers /\ channel[asker[k]] = id[k]
      BY DEF IInv, Types, Listeners
    <3>2. id[k] # None
      BY DEF IInv, Listeners
    <3> QED BY <1>2, <3>1, <3>2
  <2>2. \A d \in Consumers : channel'[d] # None => Underscored[channel'[d]] = channel'[d]
    BY <1>1, <1>2 DEF IInv, Listeners
  <2>3. \A d \in Consumers : pending'[d] # None => client'[d] = "open" /\ channel'[d] = pending'[d]
    BY <1>1, <1>2 DEF IInv, Listeners
  <2> QED BY <1>1, <2>1, <2>2, <2>3 DEF IInv, Listeners
<1>7. \A k \in Launches : OnItsWay(k)
  BY <1>1 DEF OnItsWay
<1> QED BY <1>1, <1>3, <1>4, <1>5, <1>6, <1>7, QuietRecords DEF IInv, records

LEMMA DisconnectInv == ASSUME IInv, NEW c \in Consumers, Disconnect(c) PROVE IInv'
<1>1. /\ client[c] = "open" /\ pending[c] = None
      /\ client' = [client EXCEPT ![c] = "closed"]
      /\ channel' = [channel EXCEPT ![c] = None]
      /\ UNCHANGED <<pending, made, id, asker, stage, runners, records, heard, verdict, shared>>
  BY DEF Disconnect
<1>2. /\ \A d \in Consumers : client'[d] = IF d = c THEN "closed" ELSE client[d]
      /\ \A d \in Consumers : d # c => channel'[d] = channel[d]
      /\ channel'[c] = None
  BY <1>1 DEF IInv, Types
<1>3. Types'
  BY <1>1 DEF IInv, Types, runners, records
<1>4. Staffed' /\ Reserved' /\ Waits'
  BY <1>1 DEF IInv, Staffed, Busy, Reserved, Pending, Waits, runners
<1>5. Listeners'
  <2>1. \A k \in Launches : asker[k] # None => asker[k] \in Consumers
    BY DEF IInv, Types
  <2> QED BY <1>1, <1>2, <2>1 DEF IInv, Listeners
<1>6. \A k \in Launches : OnItsWay(k)
  BY <1>1 DEF OnItsWay
<1> QED BY <1>1, <1>2, <1>3, <1>4, <1>5, <1>6, QuietRecords DEF IInv, records

\* What the runner does to the launches that wait for it or for a worker.
LEMMA RunnerInv ==
  ASSUME IInv, Types', Staffed', Waits', \A k \in Launches : OnItsWay(k),
         UNCHANGED <<clients, records, heard, verdict, shared>>
  PROVE  IInv'
<1>1. Reserved' /\ Listeners'
  BY DEF IInv, Reserved, Pending, Listeners, clients
<1> QED BY <1>1, QuietRecords DEF IInv, clients, records

LEMMA IdleRunnerInv == ASSUME IInv, Listen \/ Joined PROVE IInv'
<1>1. /\ runner \in {"connecting", "failing", "closing"}
      /\ runner' \in {"listening", "connecting", "exited"}
      /\ UNCHANGED <<clients, stage, queue, pool, faults, records, heard, verdict, shared>>
  BY DEF Listen, Joined
<1>2. Types'
  BY <1>1 DEF IInv, Types, clients, records
<1>3. Staffed' /\ Waits' /\ \A k \in Launches : OnItsWay(k)
  BY <1>1 DEF IInv, Staffed, Busy, Waits, OnItsWay
<1> QED BY <1>1, <1>2, <1>3, RunnerInv

LEMMA TakeInv == ASSUME IInv, Take PROVE IInv'
<1> DEFINE h == Head(queue)
<1>1. /\ runner = "listening" /\ queue # <<>>
      /\ queue' = Tail(queue)
      /\ stage' = [stage EXCEPT ![h] = "pooled"]
      /\ pool' = Append(pool, h)
      /\ UNCHANGED <<clients, runner, faults, records, heard, verdict, shared>>
  BY DEF Take
<1>2. /\ queue \in Seq(Launches) /\ pool \in Seq(Launches) /\ stage \in [Launches -> Stages]
      /\ Lined(stage, queue, "sent") /\ Lined(stage, pool, "pooled")
  BY DEF IInv, Types, Waits
<1>3. h \in Launches /\ stage[h] = "sent"
  BY <1>1, <1>2, LinedHead
<1> HIDE DEF h
<1>4. \A l \in Launches : stage'[l] = IF l = h THEN "pooled" ELSE stage[l]
  BY <1>1, <1>2
<1>5. queue' \in Seq(Launches) /\ Lined(stage', queue', "sent")
  BY <1>1, <1>2, <1>4, LinedTail DEF h
<1>6. Lined(stage', pool', "pooled")
  BY <1>1, <1>2, <1>3, <1>4, LinedAppend
<1>7. pool' \in Seq(Launches)
  BY <1>1, <1>2, <1>3
<1>8. stage' \in [Launches -> Stages]
  BY <1>1, <1>2 DEF Stages
<1>9. Types'
  BY <1>1, <1>5, <1>7, <1>8 DEF IInv, Types, clients, records
<1>10. Staffed'
  BY <1>4, StaffedKept DEF IInv, Working
<1>11. Waits'
  BY <1>1, <1>5, <1>6 DEF Waits
<1>12. \A k \in Launches : OnItsWay(k)
  BY <1>3, <1>4 DEF OnItsWay
<1> QED BY <1>1, <1>9, <1>10, <1>11, <1>12, RunnerInv

LEMMA BeginInv == ASSUME IInv, Begin PROVE IInv'
<1> DEFINE h == Head(pool)
<1>1. /\ runner = "listening" /\ pool # <<>> /\ Cardinality(Busy) < Limit
      /\ pool' = Tail(pool)
      /\ stage' = [stage EXCEPT ![h] = "delayed"]
      /\ UNCHANGED <<clients, queue, runner, faults, records, heard, verdict, shared>>
  BY DEF Begin, Move
<1>2. /\ queue \in Seq(Launches) /\ pool \in Seq(Launches) /\ stage \in [Launches -> Stages]
      /\ Lined(stage, queue, "sent") /\ Lined(stage, pool, "pooled")
  BY DEF IInv, Types, Waits
<1>3. h \in Launches /\ stage[h] = "pooled"
  BY <1>1, <1>2, LinedHead
<1> HIDE DEF h
<1>4. \A l \in Launches : stage'[l] = IF l = h THEN "delayed" ELSE stage[l]
  BY <1>1, <1>2
<1>5. pool' \in Seq(Launches) /\ Lined(stage', pool', "pooled")
  BY <1>1, <1>2, <1>4, LinedTail DEF h
<1>6. Lined(stage', queue', "sent")
  BY <1>1, <1>2, <1>3, <1>4, LinedKept
<1>7. stage' \in [Launches -> Stages]
  BY <1>1, <1>2 DEF Stages, Working
<1>8. Types'
  BY <1>1, <1>5, <1>7 DEF IInv, Types, clients, records
<1>9. Staffed'
  <2>1. Busy' = Busy \union {h} /\ h \notin Busy
    BY <1>3, <1>4 DEF Busy, Working
  <2>2. IsFiniteSet(Busy)
    BY Numbers, FS_Subset DEF Busy
  <2> DEFINE a == Cardinality(Busy)
             b == Cardinality(Busy')
  <2>3. a \in Nat /\ b = a + 1 /\ a < Limit
    BY <1>1, <2>1, <2>2, FS_AddElement, FS_CardinalityType
  <2> HIDE DEF a, b
  <2>4. b <= Limit
    BY <2>3, Numbers
  <2> QED BY <2>4 DEF Staffed, b
<1>10. Waits'
  BY <1>1, <1>5, <1>6 DEF Waits
<1>11. \A k \in Launches : OnItsWay(k)
  BY <1>3, <1>4 DEF OnItsWay
<1> QED BY <1>1, <1>8, <1>9, <1>10, <1>11, RunnerInv

LEMMA DropPoolInv ==
  ASSUME IInv, NEW next \in {"failing", "closing"}, DropPool(next), faults' \in 0 .. MaxFaults
  PROVE  IInv'
<1>1. /\ runner' = next /\ queue' = <<>> /\ pool' = <<>>
      /\ stage' = [k \in Launches |-> IF stage[k] \in {"sent", "pooled"}
                                      THEN "lost" ELSE stage[k]]
      /\ UNCHANGED <<clients, records, heard, verdict, shared>>
  BY DEF DropPool
<1>2. stage' \in [Launches -> Stages]
  BY <1>1 DEF IInv, Types, Stages, Ended
<1>3. Types'
  BY <1>1, <1>2 DEF IInv, Types, clients, records
<1>4. Staffed'
  BY <1>1, StaffedKept DEF IInv, Working
<1>5. Waits'
  BY <1>1, NobodyLined DEF Waits
<1>6. \A k \in Launches : OnItsWay(k)
  BY <1>1 DEF OnItsWay
<1> QED BY <1>1, <1>3, <1>4, <1>5, <1>6, RunnerInv

LEMMA LeavingInv == ASSUME IInv, Interrupted \/ ListenFails PROVE IInv'
<1>1. faults' \in 0 .. MaxFaults
  BY Numbers DEF Interrupted, ListenFails, IInv, Types
<1> QED BY <1>1, DropPoolInv DEF Interrupted, ListenFails
-----------------------------------------------------------------------------
\* A launch is published, and its name shared if another one is under way.
LEMMA PublishedInv ==
  ASSUME IInv, NEW n \in Names, NEW c \in Consumers \union {None}, Published(n, c),
         made < MaxLaunches, Reserved', pending' \in [Consumers -> Names \union {None}],
         \A d \in Consumers : pending'[d] # None => pending'[d] = pending[d],
         c # None => client[c] = "open" /\ channel[c] = n,
         UNCHANGED <<client, channel, runner, pool, faults, records, heard, verdict>>
  PROVE  IInv'
<1> DEFINE k == made + 1
           go == IF runner = "listening" THEN "sent" ELSE "lost"
<1>1. /\ made' = k
      /\ id' = [id EXCEPT ![k] = n] /\ asker' = [asker EXCEPT ![k] = c]
      /\ stage' = [stage EXCEPT ![k] = go]
      /\ queue' = IF runner = "listening" THEN Append(queue, k) ELSE queue
      /\ shared' = IF \E l \in Alive : Of(l) = Underscored[n]
                   THEN shared \union {Underscored[n]} ELSE shared
  BY DEF Published
<1>2. made \in Nat /\ k \in Nat /\ k \in Launches /\ k \in 0 .. MaxLaunches
  BY Numbers DEF IInv, Types, Launches
<1>3. \A l \in Launches : l <= made => l # k
  BY <1>2, Numbers
<1>4. stage[k] = "none" /\ id[k] = None
  <2>1. ~(k <= made)
    BY <1>2
  <2> QED BY <1>2, <2>1 DEF IInv, Launched
<1>5. \A l \in Launches : l <= made' <=> l <= made \/ l = k
  BY <1>1, <1>2, Numbers
<1> HIDE DEF k
<1>6. go \in {"sent", "lost"} /\ go \in Stages
  BY DEF Stages, Ended
<1> HIDE DEF go
<1>7. /\ \A l \in Launches : id'[l] = IF l = k THEN n ELSE id[l]
      /\ \A l \in Launches : asker'[l] = IF l = k THEN c ELSE asker[l]
      /\ \A l \in Launches : stage'[l] = IF l = k THEN go ELSE stage[l]
  BY <1>1, <1>2 DEF IInv, Types
<1>8. /\ \A l \in Launches : Of(l)' = IF l = k THEN Underscored[n] ELSE Of(l)
      /\ Underscored[n] \in Ids
  BY <1>7 DEF Of, Ids
<1>9. /\ shared \subseteq shared' /\ shared' \subseteq Ids
  BY <1>1, <1>8 DEF IInv, Types
<1>10. /\ queue \in Seq(Launches) /\ Lined(stage, queue, "sent")
       /\ pool \in Seq(Launches) /\ Lined(stage, pool, "pooled")
       /\ stage \in [Launches -> Stages]
  BY DEF IInv, Types, Waits
<1>11. queue' \in Seq(Launches) /\ Lined(stage', queue', "sent")
  <2>1. CASE runner = "listening"
    <3>1. go = "sent" /\ queue' = Append(queue, k)
      BY <1>1, <2>1 DEF go
    <3> QED BY <1>2, <1>4, <1>7, <1>10, <3>1, LinedAppend
  <2>2. CASE runner # "listening"
    <3>1. \A l \in Launches : stage[l] = "sent" => stage'[l] = "sent"
      BY <1>4, <1>7
    <3> QED BY <1>1, <1>10, <2>2, <3>1, LinedKept
  <2> QED BY <2>1, <2>2
<1>12. Waits'
  <2>1. \A l \in Launches : stage[l] = "pooled" => stage'[l] = "pooled"
    BY <1>4, <1>7
  <2>2. Lined(stage', pool', "pooled")
    BY <1>10, <2>1, LinedKept
  <2> QED BY <1>1, <1>11, <2>2 DEF IInv, Waits
<1>13. Types'
  <2>1. stage' \in [Launches -> Stages] /\ id' \in [Launches -> Names \union {None}]
    BY <1>1, <1>6 DEF IInv, Types
  <2>2. asker' \in [Launches -> Consumers \union {None}]
    BY <1>1 DEF IInv, Types
  <2> QED BY <1>1, <1>2, <1>9, <1>11, <2>1, <2>2 DEF IInv, Types, records
<1>14. Staffed'
  BY <1>6, <1>7, StaffedKept DEF IInv, Working
<1>15. Launched'
  BY <1>5, <1>6, <1>7, NamesAssumption DEF IInv, Launched
<1>16. Listeners'
  <2>1. \A l \in Launches : asker'[l] # None =>
           /\ id'[l] # None /\ client[asker'[l]] # "new"
           /\ client[asker'[l]] = "open" => channel[asker'[l]] = id'[l]
    BY <1>7, NamesAssumption DEF IInv, Listeners
  <2> QED BY <2>1 DEF IInv, Listeners
<1>17. KeptForNow'
  <2> SUFFICES ASSUME NEW m \in Ids, core[m].status = "kept" \/ info[m] = "kept"
               PROVE  \E l \in Launches : stage'[l] = "registered" /\ Of(l)' = m
    BY DEF KeptForNow, records
  <2>1. PICK l \in Launches : stage[l] = "registered" /\ Of(l) = m
    BY DEF IInv, KeptForNow
  <2> QED BY <1>4, <1>7, <1>8, <2>1
<1>18. Recorded' /\ Verdicts' /\ ErrorsOfFailures'
  <2>1. Recorded' /\ Verdicts'
    BY <1>4, <1>6, <1>7, <1>8 DEF IInv, Recorded, Registered, Verdicts, Fresh, records
  <2>2. ErrorsOfFailures'
    BY <1>3, <1>5, <1>8 DEF IInv, ErrorsOfFailures, records
  <2> QED BY <2>1, <2>2
<1>19. Successive'
  <2> SUFFICES ASSUME NEW j \in Launches, NEW l \in Launches, j <= made', l < j,
                      Of(l)' = Of(j)', Of(j)' \notin shared'
               PROVE  stage'[l] \in Ended
    BY DEF Successive
  <2>1. CASE j = k
    <3>1. l <= made /\ l # k
      BY <1>2, <1>3, <2>1, Numbers DEF k
    <3>2. Of(l) = Underscored[n] /\ Underscored[n] \notin shared'
      BY <1>8, <2>1, <3>1
    <3>3. l \notin Alive
      BY <1>1, <3>2
    <3>4. stage[l] # "none"
      BY <3>1 DEF IInv, Launched
    <3> QED BY <1>7, <3>1, <3>3, <3>4 DEF Alive
  <2>2. CASE j # k
    <3>1. j <= made /\ l <= made
      BY <1>2, <1>5, <2>2, Numbers
    <3>2. l # k
      BY <1>3, <3>1
    <3>3. stage[l] \in Ended
      BY <1>8, <1>9, <2>2, <3>1, <3>2 DEF IInv, Successive
    <3> QED BY <1>7, <3>2, <3>3
  <2> QED BY <2>1, <2>2
<1>20. LaunchersHear'
  <2> SUFFICES ASSUME NEW l \in Launches, stage'[l] = "finished", asker'[l] # None
               PROVE  client[asker'[l]] = "closed" \/ l \in heard[asker'[l]]
    BY DEF LaunchersHear
  <2>1. l # k
    BY <1>6, <1>7
  <2> QED BY <1>7, <1>8, <2>1 DEF IInv, LaunchersHear
<1>21. ASSUME NEW j \in Launches PROVE Shown(j)'
  <2>1. CASE j = k
    BY <1>6, <1>7, <2>1 DEF Shown, Settled
  <2>2. CASE j # k
    <3>1. stage'[j] = stage[j] /\ Of(j)' = Of(j) /\ (j <= made' <=> j <= made)
      BY <1>5, <1>7, <1>8, <2>2
    <3>2. \A l \in Later(j) : l \in Launches /\ l \in Later(j)' /\ stage'[l] = stage[l]
      <4> SUFFICES ASSUME NEW l \in Launches, l > j, id[l] # None, Of(l) = Of(j)
                   PROVE  l \in Later(j)' /\ stage'[l] = stage[l]
        BY DEF Later
      <4>1. l # k
        BY <1>4
      <4> QED BY <1>7, <1>8, <3>1, <4>1 DEF Later
    <3>3. Settled(j)' => Settled(j)
      <4> SUFFICES ASSUME Settled(j)' PROVE Settled(j)
        OBVIOUS
      <4>1. stage[j] \in {"finished", "refused"} /\ core[Of(j)].status # "none"
        BY <3>1 DEF Settled, records
      <4>2. \A l \in Later(j)' : stage'[l] \in Waiting
        BY DEF Settled
      <4> QED BY <3>2, <4>1, <4>2 DEF Settled
    <3>4. Shown(j)
      BY DEF IInv
    <3> QED BY <1>9, <3>1, <3>3, <3>4 DEF Shown, records
  <2> QED BY <2>1, <2>2
<1> QED BY <1>12, <1>13, <1>14, <1>15, <1>16, <1>17, <1>18, <1>19, <1>20, <1>21 DEF IInv

LEMMA LaunchInv == ASSUME IInv, NEW c \in Consumers, Launch(c) PROVE IInv'
<1>1. /\ client[c] = "open" /\ pending[c] # None
      /\ Published(pending[c], c)
      /\ pending' = [pending EXCEPT ![c] = None]
      /\ UNCHANGED <<client, channel, runner, pool, faults, records, heard, verdict>>
  BY DEF Launch
<1>2. pending[c] \in Names /\ channel[c] = pending[c]
  BY <1>1 DEF IInv, Types, Listeners
<1>3. /\ pending' \in [Consumers -> Names \union {None}]
      /\ \A d \in Consumers : pending'[d] = IF d = c THEN None ELSE pending[d]
  BY <1>1 DEF IInv, Types
<1> DEFINE a == Cardinality(Pending)
           b == Cardinality(Pending')
<1>4. IsFiniteSet(Pending) /\ made + a <= MaxLaunches
  BY DEF IInv, Reserved
<1>5. Pending' = Pending \ {c} /\ c \in Pending
  BY <1>1, <1>3 DEF Pending
<1>6. IsFiniteSet(Pending') /\ a \in Nat /\ b \in Nat /\ b = a - 1
  BY <1>4, <1>5, FS_RemoveElement, FS_CardinalityType
<1> HIDE DEF a, b
<1>7. made \in Nat /\ MaxLaunches \in Nat /\ made' = made + 1
  BY <1>1, Numbers DEF Published, IInv, Types
<1>8. made < MaxLaunches /\ made' + b <= MaxLaunches
  BY <1>4, <1>6, <1>7
<1>9. Reserved'
  BY <1>6, <1>8 DEF Reserved, b
<1> QED BY <1>1, <1>2, <1>3, <1>8, <1>9, PublishedInv

LEMMA PostInv == ASSUME IInv, NEW n \in Names, Post(n) PROVE IInv'
<1>1. /\ made + Cardinality(Pending) < MaxLaunches
      /\ Published(Underscored[n], None)
      /\ UNCHANGED <<client, channel, pending, runner, pool, faults, records,
                     heard, verdict>>
  BY DEF Post, Pending
<1>2. Underscored[n] \in Names /\ pending \in [Consumers -> Names \union {None}]
  BY NamesAssumption DEF IInv, Types
<1> DEFINE a == Cardinality(Pending)
<1>3. IsFiniteSet(Pending) /\ a \in Nat
  BY FS_CardinalityType DEF IInv, Reserved
<1>4. made + a < MaxLaunches
  BY <1>1
<1> HIDE DEF a
<1>5. made \in Nat /\ MaxLaunches \in Nat /\ made' = made + 1
  BY <1>1, Numbers DEF Published, IInv, Types
<1>6. made < MaxLaunches /\ made' + a <= MaxLaunches
  BY <1>3, <1>4, <1>5
<1>7. Reserved'
  BY <1>1, <1>3, <1>6 DEF Reserved, Pending, a
<1> QED BY <1>1, <1>2, <1>6, <1>7, PublishedInv
-----------------------------------------------------------------------------
\* What a worker may do at the stage it is at; it works on the records of its
\* own name only.
After == [delayed    |-> {"registered", "killed"},
          registered |-> {"running", "killed"},
          running    |-> {"rejected", "raised", "written", "killed"},
          written    |-> {"finished", "killed"},
          rejected   |-> {"refused", "killed"},
          raised     |-> {"failed", "killed"},
          failed     |-> {"finished", "killed"}]

\* A stage without a launch for its own name, in records and in what is heard.
Others(k) ==
    /\ \A l \in Launches : l # k => stage'[l] = stage[l] /\ verdict'[l] = verdict[l]
    /\ \A n \in Ids : n # Of(k) => core'[n] = core[n] /\ info'[n] = info[n]
    /\ \A c \in Consumers : heard[c] \subseteq heard'[c]

\* The flags of the launch a worker is at, without looking at later ones.
Told(k) ==
    /\ stage[k] \in {"running", "written", "rejected", "raised"}
         => ~core[Of(k)].complete /\ ~core[Of(k)].failed
    /\ stage[k] = "failed" => ~core[Of(k)].complete /\ core[Of(k)].failed
    /\ stage[k] \in {"finished", "refused"} =>
         /\ core[Of(k)].failed <=> verdict[k] = "failure"
         /\ core[Of(k)].complete <=> stage[k] = "finished"

LEMMA WorkInv ==
  ASSUME IInv, NEW k \in Launches, Types', UNCHANGED <<clients, runners, shared>>,
         stage[k] \in Working, stage'[k] \in After[stage[k]], Others(k),
         core[Of(k)].status # "none" \/ stage'[k] = "registered" => core'[Of(k)].status # "none",
         \/ stage'[k] = "registered"
         \/ core'[Of(k)].status # "kept" /\ info'[Of(k)] # "kept"
         \/ /\ stage[k] # "registered"
            /\ core'[Of(k)].status = core[Of(k)].status /\ info'[Of(k)] = info[Of(k)],
         stage'[k] = "written" => verdict'[k] = "success",
         stage'[k] \in {"rejected", "raised"} => verdict'[k] = "failure",
         stage[k] # "running" => verdict'[k] = verdict[k],
         \A n \in Ids : error'[n] = "kept" => error[n] = "kept" \/ (n = Of(k) /\ verdict'[k] = "failure"),
         stage'[k] = "finished" => \A c \in Hears(Of(k)) : k \in heard'[c],
         Of(k) \notin shared => Told(k)'
  PROVE  IInv'
<1>1. /\ k <= made /\ id[k] \in Names /\ Of(k) \in Ids
  BY BusyFacts DEF IInv, Working
<1>2. /\ stage'[k] \in (Registered \union Ended) \ {"lost"}
      /\ stage'[k] \notin Waiting /\ stage'[k] # "none"
      /\ stage'[k] \in {"refused", "failed"} => stage[k] \in {"rejected", "raised"}
      /\ stage'[k] \in Registered => stage[k] \in Registered \/ stage'[k] = "registered"
      /\ stage'[k] \in Fresh => stage[k] \in Fresh \ {"running"}
      /\ stage[k] = "running" => stage[k] \in Fresh
      /\ stage'[k] \in {"finished", "refused", "failed", "killed"} \/ stage'[k] \in Working
  BY DEF After, Working, Registered, Ended, Waiting, Fresh
<1>3. /\ \A l \in Launches : Of(l)' = Of(l) /\ Later(l)' = Later(l)
      /\ UNCHANGED <<client, channel, pending, made, id, asker, queue, runner, pool, faults>>
  BY DEF Of, Later, clients, runners
<1>4. \A l \in Launches : l # k => stage'[l] = stage[l] /\ verdict'[l] = verdict[l]
  BY DEF Others
<1>5. Staffed' /\ Reserved' /\ Launched' /\ Listeners'
  <2>1. Staffed'
    BY <1>4, StaffedKept DEF IInv
  <2>2. Launched'
    BY <1>1, <1>2, <1>3, <1>4, NamesAssumption DEF IInv, Launched
  <2> QED BY <1>3, <2>1, <2>2 DEF IInv, Reserved, Pending, Listeners
<1>6. Waits'
  <2>1. \A s \in {"sent", "pooled"} : \A l \in Launches : stage[l] = s => stage'[l] = s
    BY <1>4 DEF Working
  <2>2. queue \in Seq(Launches) /\ pool \in Seq(Launches)
    BY DEF IInv, Types
  <2>3. Lined(stage', queue, "sent")
    BY <2>1, <2>2, LinedKept DEF IInv, Waits
  <2>4. Lined(stage', pool, "pooled")
    BY <2>1, <2>2, LinedKept DEF IInv, Waits
  <2> QED BY <1>3, <2>3, <2>4 DEF IInv, Waits
<1>7. KeptForNow'
  <2> SUFFICES ASSUME NEW n \in Ids, core'[n].status = "kept" \/ info'[n] = "kept"
               PROVE  \E l \in Launches : stage'[l] = "registered" /\ Of(l) = n
    BY <1>3 DEF KeptForNow
  <2>1. CASE n = Of(k) /\ stage'[k] = "registered"
    BY <2>1
  <2>2. CASE n # Of(k)
    <3>1. core[n].status = "kept" \/ info[n] = "kept"
      BY <2>2 DEF Others
    <3>2. PICK l \in Launches : stage[l] = "registered" /\ Of(l) = n
      BY <3>1 DEF IInv, KeptForNow
    <3> QED BY <1>4, <2>2, <3>2
  <2>3. CASE n = Of(k) /\ stage'[k] # "registered"
    <3>1. stage[k] # "registered" /\ (core[n].status = "kept" \/ info[n] = "kept")
      BY <2>3
    <3>2. PICK l \in Launches : stage[l] = "registered" /\ Of(l) = n
      BY <3>1 DEF IInv, KeptForNow
    <3> QED BY <1>4, <3>1, <3>2
  <2> QED BY <2>1, <2>2, <2>3
<1>8. Recorded'
  <2> SUFFICES ASSUME NEW l \in Launches, stage'[l] \in Registered
               PROVE  core'[Of(l)].status # "none"
    BY <1>3 DEF Recorded
  <2>1. (stage'[l] = "registered" /\ l = k) \/ stage[l] \in Registered
    BY <1>2, <1>4
  <2>2. stage[l] \in Registered => core[Of(l)].status # "none" /\ Of(l) \in Ids
    BY BusyFacts DEF IInv, Recorded, Registered
  <2> QED BY <2>1, <2>2 DEF Others
<1>9. Successive'
  <2> SUFFICES ASSUME NEW j \in Launches, NEW l \in Launches, j <= made, l < j,
                      Of(l) = Of(j), Of(j) \notin shared
               PROVE  stage'[l] \in Ended
    BY <1>3 DEF Successive
  <2>1. stage[l] \in Ended
    BY DEF IInv, Successive
  <2>2. l # k
    BY <2>1 DEF Ended, Working
  <2> QED BY <1>4, <2>1, <2>2
<1>10. Verdicts'
  <2>1. /\ stage'[k] = "written" => verdict'[k] = "success"
        /\ stage'[k] \in {"rejected", "raised", "failed", "refused"} => verdict'[k] = "failure"
        /\ stage'[k] \in Fresh => verdict'[k] = "none"
    BY <1>2 DEF IInv, Verdicts
  <2> QED BY <1>4, <2>1 DEF IInv, Verdicts
<1>11. LaunchersHear'
  <2> SUFFICES ASSUME NEW l \in Launches, stage'[l] = "finished", asker[l] # None
               PROVE  client[asker[l]] = "closed" \/ l \in heard'[asker[l]]
    BY <1>3 DEF LaunchersHear
  <2>1. asker[l] \in Consumers
    BY DEF IInv, Types
  <2>2. CASE l # k
    BY <1>4, <2>1, <2>2 DEF IInv, LaunchersHear, Others
  <2>3. CASE l = k
    <3>1. client[asker[k]] = "open" => asker[k] \in Hears(Of(k))
      <4> SUFFICES ASSUME client[asker[k]] = "open" PROVE asker[k] \in Hears(Of(k))
        OBVIOUS
      <4>1. channel[asker[k]] = id[k] /\ id[k] # None
        BY <1>1, <2>3, NamesAssumption DEF IInv, Listeners
      <4>2. Underscored[id[k]] = id[k]
        BY <2>1, <2>3, <4>1 DEF IInv, Listeners
      <4> QED BY <2>1, <2>3, <4>1, <4>2 DEF Hears, Of
    <3>2. client[asker[k]] \in {"open", "closed"}
      BY <2>1, <2>3 DEF IInv, Listeners, Types
    <3> QED BY <2>3, <3>1, <3>2
  <2> QED BY <2>2, <2>3
<1>12. ASSUME NEW j \in Launches PROVE Shown(j)'
  <2> SUFFICES ASSUME j <= made, Of(j) \notin shared PROVE Shown(j)'
    BY <1>3 DEF Shown
  <2>1. Of(j) \in Ids
    BY OfFacts DEF IInv
  <2>2. CASE j = k
    BY <1>3, <2>2 DEF Told, Shown, Settled
  <2>3. CASE j # k /\ Of(j) # Of(k)
    <3>1. /\ stage'[j] = stage[j] /\ verdict'[j] = verdict[j] /\ core'[Of(j)] = core[Of(j)]
      BY <1>4, <2>1, <2>3 DEF Others
    <3>2. \A l \in Later(j) : l \in Launches /\ l # k /\ stage'[l] = stage[l]
      BY <1>4, <2>3 DEF Later
    <3>3. Settled(j)' => Settled(j)
      BY <1>3, <3>1, <3>2 DEF Settled
    <3>4. Shown(j)
      BY DEF IInv
    <3> QED BY <1>3, <3>1, <3>3, <3>4 DEF Shown
  <2>4. CASE j < k /\ Of(j) = Of(k)
    <3>1. stage[j] \in Ended /\ stage'[j] = stage[j]
      BY <1>1, <1>4, <2>4, Numbers DEF IInv, Successive
    <3>2. k \in Later(j)
      BY <1>1, <2>4, Numbers, NamesAssumption DEF Later
    <3>3. ~Settled(j)'
      BY <1>2, <1>3, <3>2 DEF Settled
    <3> QED BY <3>1, <3>3 DEF Shown, Ended
  <2>5. CASE j > k /\ Of(j) = Of(k)
    <3>1. stage[k] \in Ended
      BY <2>5, Numbers DEF IInv, Successive
    <3> QED BY <3>1 DEF Ended, Working
  <2> QED BY <2>2, <2>3, <2>4, <2>5, Numbers
<1>13. ErrorsOfFailures'
  <2>1. \A l \in Launches : verdict[l] = "failure" => verdict'[l] = "failure"
    BY <1>2, <1>4 DEF IInv, Verdicts
  <2> QED BY <1>1, <1>3, <2>1 DEF IInv, ErrorsOfFailures
<1> QED BY <1>5, <1>6, <1>7, <1>8, <1>9, <1>10, <1>11, <1>12, <1>13 DEF IInv

\* Before its step: the record of a launch at work and its flags.
LEMMA AtWork ==
  ASSUME IInv, NEW k \in Launches, stage[k] \in Working
  PROVE  /\ k <= made /\ Of(k) \in Ids
         /\ core[Of(k)] \in [status : Lists, complete : BOOLEAN, failed : BOOLEAN]
         /\ info[Of(k)] \in Lists /\ error[Of(k)] \in Lists
         /\ stage \in [Launches -> Stages] /\ verdict[k] \in {"none", "success", "failure"}
         /\ stage[k] \in Registered => core[Of(k)].status # "none"
         /\ Of(k) \notin shared =>
              /\ stage[k] \in {"running", "written", "rejected", "raised"}
                   => ~core[Of(k)].complete /\ ~core[Of(k)].failed
              /\ stage[k] = "failed" => ~core[Of(k)].complete /\ core[Of(k)].failed
<1>1. k <= made /\ Of(k) \in Ids
  BY BusyFacts DEF IInv, Working
<1>2. Shown(k)
  BY DEF IInv
<1> QED BY <1>1, <1>2 DEF IInv, Types, Recorded, Shown

\* The types of what a worker changes.
LEMMA WorkTypes ==
  ASSUME IInv, NEW k \in Launches, NEW s \in Stages, Move(k, s),
         core' \in [Ids -> [status : Lists, complete : BOOLEAN, failed : BOOLEAN]],
         info' \in [Ids -> Lists], error' \in [Ids -> Lists],
         heard' \in [Consumers -> SUBSET Launches],
         verdict' \in [Launches -> {"none", "success", "failure"}],
         UNCHANGED <<clients, runners, shared>>
  PROVE  Types' /\ stage'[k] = s /\ \A l \in Launches : l # k => stage'[l] = stage[l]
<1>1. stage \in [Launches -> Stages] /\ stage' = [stage EXCEPT ![k] = s]
  BY DEF IInv, Types, Move
<1>2. stage' \in [Launches -> Stages] /\ stage'[k] = s
  BY <1>1
<1>3. \A l \in Launches : l # k => stage'[l] = stage[l]
  BY <1>1
<1>4. Types'
  BY <1>2 DEF IInv, Types, clients, runners
<1> QED BY <1>2, <1>3, <1>4

LEMMA RegisterInv == ASSUME IInv, NEW k \in Launches, Register(k) PROVE IInv'
<1> DEFINE n == Of(k)
<1>1. /\ stage[k] = "delayed" /\ Move(k, "registered")
      /\ core' = [core EXCEPT ![n].status = Pushed(@)]
      /\ info' = [info EXCEPT ![n] = Pushed(@)]
      /\ UNCHANGED <<clients, runners, error, heard, verdict, shared>>
  BY DEF Register
<1>2. /\ n \in Ids /\ core[n].status \in Lists /\ info[n] \in Lists
      /\ core \in [Ids -> [status : Lists, complete : BOOLEAN, failed : BOOLEAN]]
      /\ info \in [Ids -> Lists]
  BY <1>1, AtWork DEF IInv, Types, Working
<1> HIDE DEF n
<1>3. Pushed(core[n].status) \in Lists /\ Pushed(core[n].status) # "none" /\ Pushed(info[n]) \in Lists
  BY <1>2, ListFacts
<1>4. /\ core' \in [Ids -> [status : Lists, complete : BOOLEAN, failed : BOOLEAN]]
      /\ info' \in [Ids -> Lists]
      /\ core'[n].status # "none"
      /\ \A m \in Ids : m # n => core'[m] = core[m] /\ info'[m] = info[m]
  BY <1>1, <1>2, <1>3
<1>5. /\ Types' /\ stage'[k] = "registered"
      /\ \A l \in Launches : l # k => stage'[l] = stage[l]
  BY <1>1, <1>4, WorkTypes DEF IInv, Types, Stages, Working
<1>6. Others(k) /\ Told(k)'
  BY <1>1, <1>4, <1>5 DEF Others, Told, n
<1> QED BY <1>1, <1>4, <1>5, <1>6, WorkInv DEF Working, After, n

LEMMA FirstUpdateInv == ASSUME IInv, NEW k \in Launches, FirstUpdate(k) PROVE IInv'
<1> DEFINE n == Of(k)
<1>1. /\ stage[k] = "registered" /\ Move(k, "running")
      /\ core' = [core EXCEPT ![n] = [status |-> Sunset(@.status),
                                      complete |-> FALSE, failed |-> FALSE]]
      /\ info' = [info EXCEPT ![n] = Sunset(@)]
      /\ error' = [error EXCEPT ![n] = Sunset(@)]
      /\ UNCHANGED <<clients, runners, heard, verdict, shared>>
  BY DEF FirstUpdate
<1>2. /\ n \in Ids /\ core[n].status \in Lists /\ info[n] \in Lists /\ error[n] \in Lists
      /\ core[n].status # "none"
      /\ core \in [Ids -> [status : Lists, complete : BOOLEAN, failed : BOOLEAN]]
      /\ info \in [Ids -> Lists] /\ error \in [Ids -> Lists]
  BY <1>1, AtWork DEF IInv, Types, Working, Registered
<1>3. Of(k)' = n
  BY <1>1 DEF Of, clients
<1> HIDE DEF n
<1>4. /\ Sunset(core[n].status) \in Lists \ {"kept", "none"}
      /\ Sunset(info[n]) \in Lists \ {"kept"} /\ Sunset(error[n]) \in Lists \ {"kept"}
  BY <1>2, ListFacts
<1>5. /\ core' \in [Ids -> [status : Lists, complete : BOOLEAN, failed : BOOLEAN]]
      /\ info' \in [Ids -> Lists] /\ error' \in [Ids -> Lists]
      /\ core'[n].status \notin {"none", "kept"} /\ info'[n] # "kept"
      /\ ~core'[n].complete /\ ~core'[n].failed
      /\ \A m \in Ids : m # n => core'[m] = core[m] /\ info'[m] = info[m]
      /\ \A m \in Ids : error'[m] = "kept" => error[m] = "kept"
  BY <1>1, <1>2, <1>4
<1>6. /\ Types' /\ stage'[k] = "running"
      /\ \A l \in Launches : l # k => stage'[l] = stage[l]
  BY <1>1, <1>5, WorkTypes DEF IInv, Types, Stages, Working
<1>7. Others(k) /\ Told(k)'
  BY <1>1, <1>3, <1>5, <1>6 DEF Others, Told, n
<1> QED BY <1>1, <1>5, <1>6, <1>7, WorkInv DEF Working, After, n

LEMMA FailInv == ASSUME IInv, NEW k \in Launches, Fail(k) PROVE IInv'
<1>1. PICK s \in {"rejected", "raised"} : Move(k, s)
  BY DEF Fail
<1>2. /\ stage[k] = "running"
      /\ error' = [error EXCEPT ![Of(k)] = Pushed(@)]
      /\ verdict' = [verdict EXCEPT ![k] = "failure"]
      /\ UNCHANGED <<clients, runners, core, info, heard, shared>>
  BY DEF Fail
<1>3. /\ Of(k) \in Ids /\ error[Of(k)] \in Lists /\ Of(k)' = Of(k)
      /\ error \in [Ids -> Lists] /\ verdict \in [Launches -> {"none", "success", "failure"}]
      /\ Of(k) \notin shared => ~core[Of(k)].complete /\ ~core[Of(k)].failed
  BY <1>2, AtWork DEF IInv, Types, Working, Of, clients
<1>4. error' \in [Ids -> Lists] /\ \A n \in Ids : n # Of(k) => error'[n] = error[n]
  BY <1>2, <1>3, ListFacts
<1>5. /\ verdict' \in [Launches -> {"none", "success", "failure"}] /\ verdict'[k] = "failure"
      /\ \A l \in Launches : l # k => verdict'[l] = verdict[l]
  BY <1>2, <1>3
<1>6. /\ Types' /\ stage'[k] = s
      /\ \A l \in Launches : l # k => stage'[l] = stage[l]
  BY <1>1, <1>2, <1>4, <1>5, WorkTypes DEF IInv, Types, Stages, Working
<1>7. Others(k) /\ (Of(k) \notin shared => Told(k)')
  BY <1>2, <1>3, <1>5, <1>6 DEF Others, Told
<1>8. /\ \A n \in Ids : error'[n] = "kept" => error[n] = "kept" \/ (n = Of(k) /\ verdict'[k] = "failure")
  BY <1>4, <1>5
<1> QED BY <1>2, <1>5, <1>6, <1>7, <1>8, WorkInv DEF Working, After

LEMMA SucceedInv == ASSUME IInv, NEW k \in Launches, Succeed(k) PROVE IInv'
<1>1. /\ stage[k] = "running" /\ Move(k, "written")
      /\ verdict' = [verdict EXCEPT ![k] = "success"]
      /\ UNCHANGED <<clients, runners, core, info, error, heard, shared>>
  BY DEF Succeed, records
<1>2. /\ Of(k) \in Ids /\ Of(k)' = Of(k)
      /\ verdict \in [Launches -> {"none", "success", "failure"}]
      /\ Of(k) \notin shared => ~core[Of(k)].complete /\ ~core[Of(k)].failed
  BY <1>1, AtWork DEF IInv, Types, Working, Of, clients
<1>3. /\ verdict' \in [Launches -> {"none", "success", "failure"}] /\ verdict'[k] = "success"
      /\ \A l \in Launches : l # k => verdict'[l] = verdict[l]
  BY <1>1, <1>2
<1>4. /\ Types' /\ stage'[k] = "written"
      /\ \A l \in Launches : l # k => stage'[l] = stage[l]
  BY <1>1, <1>3, WorkTypes DEF IInv, Types, Stages, Working
<1>5. Others(k) /\ (Of(k) \notin shared => Told(k)')
  BY <1>1, <1>2, <1>3, <1>4 DEF Others, Told
<1> QED BY <1>1, <1>3, <1>4, <1>5, WorkInv DEF Working, After

LEMMA MarkFailedInv == ASSUME IInv, NEW k \in Launches, MarkFailed(k) PROVE IInv'
<1> DEFINE n == Of(k)
<1>0. PICK s \in {"refused", "failed"} :
         Move(k, s) /\ s = IF stage[k] = "rejected" THEN "refused" ELSE "failed"
  BY DEF MarkFailed
<1>1. /\ stage[k] \in {"rejected", "raised"} /\ Move(k, s)
      /\ core' = [core EXCEPT ![n].failed = TRUE]
      /\ UNCHANGED <<clients, runners, info, error, heard, verdict, shared>>
  BY <1>0 DEF MarkFailed
<1>2. /\ n \in Ids /\ Of(k)' = n /\ core[n].status # "none"
      /\ core \in [Ids -> [status : Lists, complete : BOOLEAN, failed : BOOLEAN]]
      /\ n \notin shared => ~core[n].complete /\ ~core[n].failed
      /\ verdict[k] = "failure"
  BY <1>1, AtWork DEF IInv, Types, Working, Registered, Of, clients, Verdicts
<1> HIDE DEF n
<1>3. /\ core' \in [Ids -> [status : Lists, complete : BOOLEAN, failed : BOOLEAN]]
      /\ core'[n].status = core[n].status /\ core'[n].complete = core[n].complete
      /\ core'[n].failed
      /\ \A m \in Ids : m # n => core'[m] = core[m]
  BY <1>1, <1>2
<1>4. s \in Stages /\ s \in After[stage[k]]
  BY <1>0, <1>1 DEF Stages, Working, Ended, After
<1>5. /\ Types' /\ stage'[k] = s
      /\ \A l \in Launches : l # k => stage'[l] = stage[l]
  BY <1>1, <1>3, <1>4, WorkTypes DEF IInv, Types
<1>6. Others(k) /\ (n \notin shared => Told(k)')
  BY <1>0, <1>1, <1>2, <1>3, <1>5 DEF Others, Told, n
<1> QED BY <1>1, <1>2, <1>3, <1>4, <1>5, <1>6, WorkInv DEF Working, n

\* The finally clause marks the evaluation and tells those who listen.
LEMMA CompletedFacts ==
  ASSUME IInv, NEW k \in Launches, Of(k) \in Ids, Completed(k)
  PROVE  /\ core' \in [Ids -> [status : Lists, complete : BOOLEAN, failed : BOOLEAN]]
         /\ core'[Of(k)].status = core[Of(k)].status /\ core'[Of(k)].failed = core[Of(k)].failed
         /\ core'[Of(k)].complete
         /\ \A m \in Ids : m # Of(k) => core'[m] = core[m]
         /\ heard' \in [Consumers -> SUBSET Launches]
         /\ \A c \in Consumers : heard[c] \subseteq heard'[c]
         /\ \A c \in Hears(Of(k)) : k \in heard'[c]
<1> DEFINE n == Of(k)
<1>1. /\ core' = [core EXCEPT ![n].complete = TRUE]
      /\ heard' = [c \in Consumers |-> IF c \in Hears(n) THEN heard[c] \union {k} ELSE heard[c]]
  BY DEF Completed
<1>2. /\ core \in [Ids -> [status : Lists, complete : BOOLEAN, failed : BOOLEAN]]
      /\ heard \in [Consumers -> SUBSET Launches] /\ Hears(n) \subseteq Consumers /\ n \in Ids
  BY DEF IInv, Types, Hears
<1> HIDE DEF n
<1>3. /\ heard' \in [Consumers -> SUBSET Launches]
      /\ \A c \in Consumers : heard[c] \subseteq heard'[c]
      /\ \A c \in Hears(n) : k \in heard'[c]
  BY <1>1, <1>2
<1>4. /\ core' \in [Ids -> [status : Lists, complete : BOOLEAN, failed : BOOLEAN]]
      /\ core'[n].status = core[n].status /\ core'[n].failed = core[n].failed
      /\ core'[n].complete
      /\ \A m \in Ids : m # n => core'[m] = core[m]
  BY <1>1, <1>2
<1> QED BY <1>3, <1>4 DEF n

LEMMA CompleteInv == ASSUME IInv, NEW k \in Launches, Complete(k) PROVE IInv'
<1>1. /\ stage[k] \in {"written", "failed"} /\ Move(k, "finished") /\ Completed(k)
      /\ UNCHANGED <<clients, runners, info, error, verdict, shared>>
  BY DEF Complete
<1>2. /\ Of(k) \in Ids /\ Of(k)' = Of(k) /\ core[Of(k)].status # "none"
      /\ Of(k) \notin shared => (core[Of(k)].failed <=> stage[k] = "failed")
      /\ verdict[k] = "failure" <=> stage[k] = "failed"
  BY <1>1, AtWork DEF IInv, Working, Registered, Of, clients, Verdicts
<1>3. /\ Types' /\ stage'[k] = "finished"
      /\ \A l \in Launches : l # k => stage'[l] = stage[l]
  BY <1>1, <1>2, CompletedFacts, WorkTypes DEF IInv, Types, Stages, Ended
<1>4. Others(k) /\ (Of(k) \notin shared => Told(k)')
  BY <1>1, <1>2, <1>3, CompletedFacts DEF Others, Told
<1> QED BY <1>1, <1>2, <1>3, <1>4, CompletedFacts, WorkInv DEF Working, After

LEMMA TerminateInv == ASSUME IInv, NEW k \in Launches, Terminate(k) PROVE IInv'
<1> DEFINE n == Of(k)
<1>1. /\ stage[k] \in Working /\ Move(k, "killed")
      /\ UNCHANGED <<clients, runners, verdict, shared>>
  BY DEF Terminate, Busy
<1>2. /\ n \in Ids /\ core[n].status \in Lists /\ info[n] \in Lists /\ error[n] \in Lists
      /\ core \in [Ids -> [status : Lists, complete : BOOLEAN, failed : BOOLEAN]]
      /\ info \in [Ids -> Lists] /\ error \in [Ids -> Lists]
      /\ heard \in [Consumers -> SUBSET Launches]
  BY <1>1, AtWork DEF IInv, Types
<1>3. "killed" \in Stages /\ "killed" \in After[stage[k]]
  BY <1>1 DEF Stages, Ended, After, Working
<1>4. /\ core' \in [Ids -> [status : Lists, complete : BOOLEAN, failed : BOOLEAN]]
      /\ info' \in [Ids -> Lists] /\ error' \in [Ids -> Lists]
      /\ heard' \in [Consumers -> SUBSET Launches]
      /\ \A c \in Consumers : heard[c] \subseteq heard'[c]
      /\ \A m \in Ids : m # n => core'[m] = core[m] /\ info'[m] = info[m]
      /\ core[n].status # "none" => core'[n].status # "none"
      /\ \A m \in Ids : error'[m] = "kept" => error[m] = "kept"
      /\ \/ core'[n].status # "kept" /\ info'[n] # "kept"
         \/ /\ stage[k] # "registered"
            /\ core'[n].status = core[n].status /\ info'[n] = info[n]
  <2>1. CASE stage[k] = "registered"
    <3>1. /\ core' = [core EXCEPT ![n].status = Sunset(@)]
          /\ info' = [info EXCEPT ![n] = Sunset(@)]
          /\ error' = [error EXCEPT ![n] = Sunset(@)] /\ UNCHANGED heard
      BY <2>1 DEF Terminate, SunsetAll
    <3> HIDE DEF n
    <3>2. /\ Sunset(core[n].status) \in Lists \ {"kept"}
          /\ core[n].status # "none" => Sunset(core[n].status) # "none"
          /\ Sunset(info[n]) \in Lists \ {"kept"} /\ Sunset(error[n]) \in Lists \ {"kept"}
      BY <1>2, ListFacts
    <3> QED BY <1>2, <3>1, <3>2
  <2>2. CASE stage[k] \in {"running", "written", "raised", "failed"}
    <3>1. Completed(k) /\ UNCHANGED <<info, error>>
      BY <2>2 DEF Terminate
    <3> QED BY <1>2, <2>2, <3>1, CompletedFacts
  <2>3. CASE stage[k] \in {"delayed", "rejected"}
    <3>1. UNCHANGED <<core, info, error, heard>>
      BY <2>3 DEF Terminate, records
    <3> QED BY <1>2, <2>3, <3>1
  <2> QED BY <1>1, <2>1, <2>2, <2>3 DEF Working
<1>5. /\ Types' /\ stage'[k] = "killed"
      /\ \A l \in Launches : l # k => stage'[l] = stage[l]
  BY <1>1, <1>3, <1>4, WorkTypes DEF IInv, Types
<1>6. Others(k) /\ Told(k)'
  BY <1>1, <1>4, <1>5 DEF Others, Told
<1> QED BY <1>1, <1>3, <1>4, <1>5, <1>6, WorkInv

LEMMA ExpireInv == ASSUME IInv, NEW n \in Ids, Expire(n) PROVE IInv'
<1>1. /\ \A k \in Busy : Of(k) # n
      /\ core' = [core EXCEPT ![n] = IF @.status = "expiring" THEN NoCore ELSE @]
      /\ info' = [info EXCEPT ![n] = IF @ = "expiring" THEN "none" ELSE @]
      /\ error' = [error EXCEPT ![n] = IF @ = "expiring" THEN "none" ELSE @]
      /\ UNCHANGED <<clients, stage, runners, heard, verdict, shared>>
  BY DEF Expire
<1>2. /\ core \in [Ids -> [status : Lists, complete : BOOLEAN, failed : BOOLEAN]]
      /\ info \in [Ids -> Lists] /\ error \in [Ids -> Lists]
  BY DEF IInv, Types
<1>3. /\ \A m \in Ids : core'[m] = core[m] \/ (m = n /\ core'[m] = NoCore)
      /\ \A m \in Ids : info'[m] = info[m] \/ info'[m] = "none"
      /\ \A m \in Ids : error'[m] = error[m] \/ error'[m] = "none"
      /\ NoCore \in [status : Lists, complete : BOOLEAN, failed : BOOLEAN] /\ "none" \in Lists
      /\ NoCore.status = "none"
  <2>1. NoCore \in [status : Lists, complete : BOOLEAN, failed : BOOLEAN] /\ "none" \in Lists
    BY DEF NoCore, Lists
  <2>2. NoCore.status = "none"
    BY DEF NoCore
  <2>3. \A m \in Ids : core'[m] = core[m] \/ (m = n /\ core'[m] = NoCore)
    <3> DEFINE new == IF core[n].status = "expiring" THEN NoCore ELSE core[n]
    <3>1. core' = [core EXCEPT ![n] = new]
      BY <1>1
    <3>2. new = core[n] \/ new = NoCore
      OBVIOUS
    <3> HIDE DEF new
    <3>3. core'[n] = new /\ \A m \in Ids \ {n} : core'[m] = core[m]
      BY <1>2, <3>1
    <3> QED BY <3>2, <3>3
  <2>4. \A m \in Ids : (info'[m] = info[m] \/ info'[m] = "none")
                       /\ (error'[m] = error[m] \/ error'[m] = "none")
    BY <1>1, <1>2
  <2> QED BY <2>1, <2>2, <2>3, <2>4
<1>4. /\ core' \in [Ids -> [status : Lists, complete : BOOLEAN, failed : BOOLEAN]]
      /\ info' \in [Ids -> Lists] /\ error' \in [Ids -> Lists]
  BY <1>1, <1>2, <1>3
<1>5. /\ \A k \in Launches : Of(k)' = Of(k) /\ Later(k)' = Later(k)
  BY <1>1 DEF Of, Later, clients
<1>6. Types'
  BY <1>1, <1>4 DEF IInv, Types, clients, runners
<1>7. Staffed' /\ Reserved' /\ Launched' /\ Waits' /\ Listeners' /\ Successive' /\ Verdicts'
  BY <1>1, <1>5 DEF IInv, Staffed, Busy, Reserved, Pending, Launched, Waits, Listeners,
                    Successive, Verdicts, clients, runners
<1>8. LaunchersHear'
  BY <1>1, <1>5 DEF IInv, LaunchersHear, clients
<1>9. KeptForNow'
  <2>1. \A m \in Ids : /\ core'[m].status = "kept" => core[m].status = "kept"
                       /\ info'[m] = "kept" => info[m] = "kept"
    BY <1>3
  <2> QED BY <1>1, <1>5, <2>1 DEF IInv, KeptForNow
<1>10. \A k \in Launches : stage[k] \in Working => Of(k) \in Ids /\ core'[Of(k)] = core[Of(k)]
  <2> SUFFICES ASSUME NEW k \in Launches, stage[k] \in Working
               PROVE  Of(k) \in Ids /\ core'[Of(k)] = core[Of(k)]
    OBVIOUS
  <2>1. Of(k) \in Ids
    BY AtWork
  <2>2. Of(k) # n
    BY <1>1 DEF Busy
  <2> QED BY <1>3, <2>1, <2>2
<1>11. Recorded'
  <2>1. Registered \subseteq Working
    BY DEF Registered, Working
  <2> QED BY <1>1, <1>5, <1>10, <2>1 DEF IInv, Recorded
<1>12. ASSUME NEW k \in Launches PROVE Shown(k)'
  <2> SUFFICES ASSUME k <= made, Of(k) \notin shared PROVE Shown(k)'
    BY <1>1, <1>5 DEF Shown, clients
  <2>1. Of(k) \in Ids /\ Shown(k)
    BY OfFacts DEF IInv
  <2>2. CASE core'[Of(k)] = core[Of(k)]
    BY <1>1, <1>5, <2>1, <2>2 DEF Shown, Settled, clients
  <2>3. CASE core'[Of(k)] = NoCore /\ stage[k] \notin Working
    <3>1. ~Settled(k)'
      BY <1>3, <1>5, <2>3 DEF Settled
    <3> QED BY <1>1, <2>3, <3>1 DEF Shown, Working
  <2> QED BY <1>3, <1>10, <2>1, <2>2, <2>3
<1>13. ErrorsOfFailures'
  <2>1. \A m \in Ids : error'[m] = "kept" => error[m] = "kept"
    BY <1>3
  <2> QED BY <1>1, <1>5, <2>1 DEF IInv, ErrorsOfFailures, clients
<1> QED BY <1>6, <1>7, <1>8, <1>9, <1>11, <1>12, <1>13 DEF IInv
-----------------------------------------------------------------------------
LEMMA InitInv == Init => IInv
<1> SUFFICES ASSUME Init PROVE IInv
  OBVIOUS
<1>1. /\ pending = [c \in Consumers |-> None] /\ made = 0
      /\ id = [k \in Launches |-> None] /\ asker = [k \in Launches |-> None]
      /\ stage = [k \in Launches |-> "none"] /\ queue = <<>> /\ pool = <<>>
      /\ core = [n \in Ids |-> NoCore] /\ info = [n \in Ids |-> "none"]
      /\ error = [n \in Ids |-> "none"] /\ channel = [c \in Consumers |-> None]
      /\ verdict = [k \in Launches |-> "none"]
      /\ NoCore.status = "none"
  BY DEF Init, NoCore
<1>2. NoCore \in [status : Lists, complete : BOOLEAN, failed : BOOLEAN] /\ "none" \in Lists
  BY DEF NoCore, Lists
<1>3. <<>> \in Seq(Launches)
  OBVIOUS
<1>4. Types
  BY <1>2, <1>3, Numbers DEF Init, Types, Stages
<1>5. Staffed
  <2>1. Busy = {}
    BY <1>1 DEF Busy, Working
  <2> QED BY <2>1, FS_EmptySet, Numbers DEF Staffed
<1>6. Reserved
  <2>1. Pending = {}
    BY <1>1 DEF Pending
  <2>2. IsFiniteSet(Pending) /\ Cardinality(Pending) = 0
    BY <2>1, FS_EmptySet
  <2> QED BY <1>1, <2>2, Numbers DEF Reserved
<1>7. \A k \in Launches : ~(k <= made)
  BY <1>1, Numbers
<1>8. Launched /\ Successive /\ \A k \in Launches : Shown(k)
  BY <1>1, <1>7 DEF Launched, Successive, Shown
<1>9. Waits
  BY <1>1, NobodyLined DEF Waits
<1>10. Listeners /\ LaunchersHear
  BY <1>1 DEF Listeners, LaunchersHear
<1>11. KeptForNow /\ ErrorsOfFailures /\ Recorded /\ Verdicts
  BY <1>1 DEF KeptForNow, ErrorsOfFailures, Recorded, Registered, Verdicts
<1> QED BY <1>4, <1>5, <1>6, <1>8, <1>9, <1>10, <1>11 DEF IInv

LEMMA StutterInv == IInv /\ UNCHANGED vars => IInv'
<1> SUFFICES ASSUME IInv, UNCHANGED vars PROVE IInv'
  OBVIOUS
<1>1. Types'
  BY DEF IInv, Types, vars, clients, runners, records
<1>2. Staffed' /\ Reserved' /\ Waits' /\ Listeners'
  BY DEF IInv, Staffed, Busy, Reserved, Pending, Waits, Listeners, vars, clients, runners
<1>3. \A k \in Launches : OnItsWay(k)
  BY DEF OnItsWay, vars
<1> QED BY <1>1, <1>2, <1>3, QuietRecords DEF IInv, vars, clients, records

\* The invariant holds after every step of a client, the runner, a worker,
\* and of time.
THEOREM EvaluationsInvariant == Spec => []IInv
<1>1. ASSUME IInv, Next PROVE IInv'
  <2>1. ASSUME NEW k \in Launches, Work(k) PROVE IInv'
    BY <1>1, <2>1, RegisterInv, FirstUpdateInv, FailInv, SucceedInv, MarkFailedInv,
       CompleteInv, TerminateInv DEF Work
  <2> QED BY <1>1, <2>1, ConnectInv, LaunchInv, DisconnectInv, SubscribeInv, PostInv,
             IdleRunnerInv, TakeInv, BeginInv, LeavingInv, ExpireInv DEF Next, Run
<1>2. IInv /\ [Next]_vars => IInv'
  BY <1>1, StutterInv
<1> QED BY <1>2, InitInv, PTL DEF Spec

(***************************************************************************)
(* Of a name under which one evaluation at a time is under way, the record *)
(* shows what has become of the evaluation, and never the outcome of an    *)
(* earlier one, whatever fails, is killed or expires; and types.           *)
(***************************************************************************)
THEOREM RecordsShowTheEvaluation == Spec => []ShownAsItIs
<1>1. ASSUME IInv PROVE ShownAsItIs
  <2>1. TypeOK
    <3> DEFINE a == Cardinality(Busy)
    <3>1. IsFiniteSet(Busy)
      BY Numbers, FS_Subset DEF Busy
    <3>2. a \in Nat /\ a <= Limit
      BY <1>1, <3>1, FS_CardinalityType DEF IInv, Staffed
    <3> HIDE DEF a
    <3>3. a \in 0 .. Limit
      BY <3>2, Numbers
    <3> USE DEF a
    <3> QED BY <1>1, <3>3 DEF IInv, Types, TypeOK, Stages
  <2>2. ASSUME NEW k \in Launches, id[k] # None, Of(k) \notin shared
        PROVE  LET r == core[Of(k)]
                   settled == /\ stage[k] \in {"finished", "refused"} /\ r.status # "none"
                              /\ \A l \in Later(k) : stage[l] \in Waiting
               IN  /\ stage[k] \in {"running", "written", "rejected", "raised"}
                        => r.status # "none" /\ ~r.complete /\ ~r.failed
                   /\ settled => /\ r.failed <=> verdict[k] = "failure"
                                 /\ r.complete <=> stage[k] = "finished"
    <3>1. k <= made /\ Shown(k)
      BY <1>1, <2>2 DEF IInv, Launched
    <3>2. stage[k] \in Registered => core[Of(k)].status # "none"
      BY <1>1 DEF IInv, Recorded
    <3> QED BY <2>2, <3>1, <3>2 DEF Shown, Settled, Registered
  <2> QED BY <2>1, <2>2 DEF ShownAsItIs, Waiting
<1> QED BY <1>1, EvaluationsInvariant, PTL

(***************************************************************************)
(* Flags and messages that never expire belong to an evaluation under way: *)
(* none of its ends leaves any behind.  Errors that never expire are those *)
(* of an evaluation that has failed.                                       *)
(***************************************************************************)
THEOREM NoRecordStaysForGood == Spec => []RecordsExpire
<1>1. ASSUME IInv PROVE RecordsExpire
  <2>1. ASSUME NEW n \in Ids, \A k \in Alive : Of(k) # n
        PROVE  core[n].status # "kept" /\ info[n] # "kept"
    <3>1. \A k \in Launches : stage[k] = "registered" => k \in Alive
      BY DEF Alive, Ended
    <3> QED BY <1>1, <2>1, <3>1 DEF IInv, KeptForNow
  <2>2. ASSUME NEW n \in Ids, error[n] = "kept"
        PROVE  \E k \in Launches : id[k] # None /\ Of(k) = n /\ verdict[k] = "failure"
    BY <1>1, <2>2 DEF IInv, ErrorsOfFailures, Launched
  <2> QED BY <2>1, <2>2 DEF RecordsExpire
<1> QED BY <1>1, EvaluationsInvariant, PTL

(***************************************************************************)
(* A client that stays connected hears the end of each evaluation it has   *)
(* launched, however many it launches and whatever names it gives later.   *)
(***************************************************************************)
THEOREM ClientsHearTheEnd == Spec => []LaunchersHear
<1>1. IInv => LaunchersHear
  BY DEF IInv
<1> QED BY <1>1, EvaluationsInvariant, PTL
=============================================================================
