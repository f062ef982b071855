---------------------------- MODULE DataService ----------------------------
(***************************************************************************)
(* The data service of DMOD: datasets kept in memory by a dataset manager  *)
(* and in the buckets of an object store, the links between datasets and   *)
(* the jobs that use them, and the background tasks that check the         *)
(* requirements of jobs, provision their data, and sweep temporary         *)
(* datasets.                                                               *)
(*                                                                         *)
(* All of it runs on one event loop, and no iteration of a task suspends   *)
(* before its end (the coroutines it awaits never wait for anything), so   *)
(* the handling of one job, and a sweep, is one step.  The steps of one    *)
(* iteration that handles several jobs are as many steps here.             *)
(***************************************************************************)
EXTENDS Integers, FiniteSets, Functions

CONSTANTS
    Jobs,        \* ids of jobs
    Inputs,      \* names clients and operators give to input datasets
    Outputs,     \* names of the output datasets, one for each job
    OutputOf,    \* the name made of the id of a job
    Kinds,       \* what a requirement asks for: a category and a domain
    KindOf,      \* the kind of requirement an input dataset fulfils
    Needs,       \* the kinds of requirements of each job
    Derivable,   \* kinds the service says it can derive
    Stores,      \* what the buckets may hold when the service first starts
    MaxTime,     \* bound on the clock
    MaxRemoved,  \* bound on the datasets clients have removed
    MaxRestarts, \* bound on the restarts of the service
    MaxLost,     \* bound on the saves Redis loses
    None, Absent, Bare, Never

Names == Inputs \union Outputs
Tasks == {"checks", "provision", "sweep"}
Expiries == 0 .. MaxTime \union {Never}

\* The steps of a job, those of other services between two of the data
\* service's taken together.
Steps == {"NEW", "AWAITING_DATA_CHECK", "CHECKED", "AWAITING_DATA",
          "AWAITING_SCHEDULING", "DATA_UNPROVIDEABLE", "DATA_FAILURE", "DONE"}

ASSUME NamesAssumption == Inputs \intersect Outputs = {}
ASSUME OutputsAssumption ==
    /\ OutputOf \in [Jobs -> Outputs]
    /\ \A i, j \in Jobs : OutputOf[i] = OutputOf[j] => i = j
ASSUME NeedsAssumption == Needs \in [Jobs -> SUBSET Kinds]
ASSUME KindAssumption == KindOf \in [Inputs -> Kinds]
ASSUME StoresAssumption ==
    /\ Stores \subseteq [Names -> 0 .. MaxTime \union {Never, Absent}]
    /\ \A s \in Stores, n \in Outputs : s[n] = Absent
ASSUME ValuesAssumption ==
    /\ MaxTime \in Nat /\ None \notin Names
    /\ Never \notin 0 .. MaxTime
    /\ Absent \notin Expiries \union {Bare} /\ Bare \notin Expiries
ASSUME BoundsAssumption == MaxRestarts \in Nat /\ MaxLost \in Nat

VARIABLES
    known,     \* DatasetManager._datasets: when a dataset expires
    bucket,    \* the object store: what the bucket says of the dataset
    usage,     \* DatasetManager._dataset_usage: the users of a dataset
    links,     \* DatasetUser.datasets_and_managers: the datasets of a user
    marked,    \* TempDataTaskManager._marked_expired_datasets
    alive,     \* background tasks that no exception has ended
    step,      \* the status step of each job in Redis
    filled,    \* fulfilled_by of each requirement of a job in Redis
    now,
    restarts, lost,
    swept,     \* ghost: names the sweep has removed
    removed,   \* ghost: names a client has had removed
    forgotten, \* ghost: jobs whose links a restart has forgotten
    unsaved    \* ghost: jobs with an output dataset whose save did not happen

store == <<known, bucket>>
uses == <<usage, links>>
jobs == <<step, filled>>
faults == <<now, restarts, lost>>
ghosts == <<swept, removed, forgotten, unsaved>>
vars == <<store, uses, marked, alive, jobs, faults, ghosts>>

TypeOK == /\ known \in [Names -> Expiries \union {Absent}]
          /\ bucket \in [Names -> Expiries \union {Absent, Bare}]
          /\ usage \in [Names -> SUBSET Jobs]
          /\ links \in [Jobs -> SUBSET Names]
          /\ marked \subseteq Names /\ alive \subseteq Tasks
          /\ step \in [Jobs -> Steps]
          /\ filled \in [Jobs -> [Kinds -> Inputs \union {None}]]
          /\ now \in 0 .. MaxTime
          /\ restarts \in 0 .. MaxRestarts /\ lost \in 0 .. MaxLost
          /\ swept \subseteq Names /\ removed \subseteq Names
          /\ forgotten \subseteq Jobs /\ unsaved \subseteq Jobs

Known == {n \in Names : known[n] # Absent}

Temporary == {n \in Known : known[n] # Never}
Expired(n) == known[n] # Never /\ known[n] <= now
Unfilled(j) == {k \in Needs[j] : filled[j][k] = None}
ActiveJobs == {j \in Jobs : step[j] \in {"AWAITING_DATA_CHECK", "CHECKED",
                                         "AWAITING_DATA", "AWAITING_SCHEDULING"}}

\* The service starts on buckets an operator has filled: an input dataset is
\* there or not, for good or until some time, and is loaded with its expiry.
Init == /\ bucket \in Stores
        /\ known = bucket
        /\ usage = [n \in Names |-> {}] /\ links = [j \in Jobs |-> {}]
        /\ marked = {} /\ alive = Tasks
        /\ step = [j \in Jobs |-> "NEW"]
        /\ filled = [j \in Jobs |-> [k \in Kinds |-> None]]
        /\ now = 0 /\ restarts = 0 /\ lost = 0
        /\ swept = {} /\ removed = {} /\ forgotten = {} /\ unsaved = {}
-----------------------------------------------------------------------------
(* The dataset manager. *)

\* Faulty variant: the description of the dataset is not stored.
CreatedUnsaved(n) ==
    /\ known[n] = Absent /\ bucket[n] = Absent
    /\ known' = [known EXCEPT ![n] = Never]
    /\ bucket' = [bucket EXCEPT ![n] = Bare]

\* create: neither a dataset nor a bucket of that name may exist.  The
\* expiry of a temporary dataset goes into a keyword the dataset does not
\* have, so none is ever given one.
Created(n) ==
    /\ known[n] = Absent /\ bucket[n] = Absent
    /\ known' = [known EXCEPT ![n] = Never]
    /\ bucket' = [bucket EXCEPT ![n] = Never]

CannotCreate(n) == known[n] # Absent \/ bucket[n] # Absent

\* delete removes a dataset that equals itself, which an expired one does
\* not; its users are not asked.
Deletable(n) == n \in Known /\ ~ Expired(n)

Without(gone) ==
    /\ known' = [n \in Names |-> IF n \in gone THEN Absent ELSE known[n]]
    /\ bucket' = [n \in Names |-> IF n \in gone THEN Absent ELSE bucket[n]]

\* link_to_dataset for each of the datasets ns.
Linked(j, ns) ==
    /\ usage' = [n \in Names |-> IF n \in ns THEN usage[n] \union {j} ELSE usage[n]]
    /\ links' = [links EXCEPT ![j] = @ \union ns]

\* Faulty variant: the manager forgets every user of the dataset.
UnlinkedAll(j, n) ==
    /\ usage' = [usage EXCEPT ![n] = {}]
    /\ links' = [links EXCEPT ![j] = @ \ {n}]

Unlinked(j, n) ==
    /\ usage' = [usage EXCEPT ![n] = @ \ {j}]
    /\ links' = [links EXCEPT ![j] = @ \ {n}]

\* Jobs with a user object the manager still holds (_get_ds_users).
Users == UNION {usage[n] : n \in Names}
-----------------------------------------------------------------------------
(* Messages of clients. *)

CreateDataset(n) ==
    /\ Created(n)
    /\ UNCHANGED <<uses, marked, alive, jobs, faults, ghosts>>

DeleteDataset(n) ==
    /\ Deletable(n) /\ Cardinality(removed) < MaxRemoved
    /\ Without({n})
    /\ removed' = removed \union {n}
    /\ UNCHANGED <<uses, marked, alive, jobs, faults, swept, forgotten, unsaved>>
-----------------------------------------------------------------------------
(* The checks of required data. *)

Fulfils(n, k) == n \in Known \intersect Inputs /\ KindOf[n] = k

Findable(k) == \E n \in Inputs : Fulfils(n, k)

\* perform_checks_for_job takes the requirements in their order: those found
\* so far are linked and written into the job object even when a later one
\* cannot be fulfilled.
Choices(j, ks) == {f \in [ks -> Inputs] : \A k \in ks : Fulfils(f[k], k)}

FilledWith(j, f) ==
    [filled EXCEPT ![j] = [k \in Kinds |-> IF k \in DOMAIN f THEN f[k] ELSE @[k]]]

Save(j, s, f) == /\ step' = [step EXCEPT ![j] = s]
                 /\ filled' = FilledWith(j, f)

\* The save may fail: the loop ignores it and goes on.
SaveOrLose(j, s, f) == \/ Save(j, s, f) /\ lost' = lost
                       \/ lost < MaxLost /\ lost' = lost + 1 /\ UNCHANGED jobs


Checking(j) == "checks" \in alive /\ step[j] = "AWAITING_DATA_CHECK"

\* Every requirement can be fulfilled: output dataset, next step, save.
Pass(j, f) == /\ Created(OutputOf[j])
              /\ Linked(j, Range(f))
              /\ SaveOrLose(j, "CHECKED", f)
              /\ unsaved' = IF lost' = lost THEN unsaved ELSE unsaved \union {j}

CheckPasses(j) ==
    /\ Checking(j)
    /\ \A k \in Unfilled(j) : Findable(k) \/ k \in Derivable
    /\ \E f \in Choices(j, {k \in Unfilled(j) : Findable(k)}) : Pass(j, f)
    /\ UNCHANGED <<marked, alive, now, restarts, swept, removed, forgotten>>

\* The name of the output dataset is taken: the exception ends the task.
CheckRaises(j) ==
    /\ Checking(j)
    /\ \A k \in Unfilled(j) : Findable(k) \/ k \in Derivable
    /\ CannotCreate(OutputOf[j])
    /\ \E f \in Choices(j, {k \in Unfilled(j) : Findable(k)}) : Linked(j, Range(f))
    /\ alive' = alive \ {"checks"}
    /\ UNCHANGED <<store, marked, jobs, faults, ghosts>>

CheckFails(j) ==
    /\ Checking(j)
    /\ \E bad \in Unfilled(j) : ~ Findable(bad) /\ bad \notin Derivable
    /\ \E ks \in SUBSET {k \in Unfilled(j) : Findable(k)} :
         \E f \in Choices(j, ks) :
            /\ Linked(j, Range(f))
            /\ SaveOrLose(j, "DATA_UNPROVIDEABLE", f)
    /\ UNCHANGED <<store, marked, alive, now, restarts, ghosts>>
-----------------------------------------------------------------------------
(* The provision of data. *)

Provisioning(j) == "provision" \in alive /\ step[j] = "AWAITING_DATA"

StepOnly(j, s) == step' = [step EXCEPT ![j] = s] /\ filled' = filled

\* Nothing to derive, and the volumes were initialised.
Provide(j) == Unfilled(j) = {} /\ StepOnly(j, "AWAITING_SCHEDULING")

ProvisionSucceeds(j) ==
    /\ Provisioning(j) /\ Provide(j)
    /\ UNCHANGED <<store, uses, marked, alive, faults, ghosts>>

\* Derivation creates a dataset, whose initial data cannot be added, and
\* deletes it again; or Docker refuses the service that mounts the volumes.
ProvisionFails(j) ==
    /\ Provisioning(j)
    /\ StepOnly(j, "DATA_FAILURE")
    /\ UNCHANGED <<store, uses, marked, alive, faults, ghosts>>

\* Faulty variant: users of jobs that still run are taken for finished.
FinishedUsersOfAnyJob == Users

FinishedUsers == Users \ ActiveJobs

\* _unlink_finished_jobs iterates the dictionary that unlinking shrinks: the
\* first link is removed, or found to be to a deleted dataset, and either
\* way an exception ends the task.
UnlinkFinished ==
    /\ "provision" \in alive
    /\ \E j \in FinishedUsers : \E n \in links[j] :
         IF n \in Known THEN Unlinked(j, n) ELSE UNCHANGED uses
    /\ alive' = alive \ {"provision"}
    /\ UNCHANGED <<store, marked, jobs, faults, ghosts>>
-----------------------------------------------------------------------------
(* The mark and sweep of temporary datasets. *)

\* get_user_ids_for_dataset looks a Dataset up among names: it finds none, so
\* no dataset is unmarked and none has its life extended.
InUse(n) == FALSE

Spared == {n \in Temporary : InUse(n)}
Doomed == marked \ Spared

Candidates == Temporary \ Doomed

ToMark == {n \in Candidates : known[n] = Never \/ known[n] > now}

Sweep ==
    /\ "sweep" \in alive /\ marked \subseteq Temporary
    /\ LET gone == {n \in Doomed : Deletable(n)}
       IN Without(gone) /\ swept' = swept \union gone
    /\ marked' = Doomed \union ToMark
    /\ UNCHANGED <<uses, alive, jobs, faults, removed, forgotten, unsaved>>

\* A marked name is no longer that of a temporary dataset: those before it
\* are deleted, the KeyError ends the task.
SweepRaises ==
    /\ "sweep" \in alive /\ ~ marked \subseteq Temporary
    /\ \E before \in SUBSET (marked \intersect Temporary) :
         LET gone == {n \in before : Deletable(n)}
         IN Without(gone) /\ swept' = swept \union gone
    /\ alive' = alive \ {"sweep"}
    /\ UNCHANGED <<uses, marked, jobs, faults, removed, forgotten, unsaved>>
-----------------------------------------------------------------------------
(* The other services, time, and failures. *)

\* Scheduler and partitioner take a job on; it may end at any time.
Others(j) ==
    /\ \/ step[j] = "NEW" /\ StepOnly(j, "AWAITING_DATA_CHECK")
       \/ step[j] = "CHECKED" /\ StepOnly(j, "AWAITING_DATA")
       \/ step[j] \in {"CHECKED", "AWAITING_SCHEDULING"} /\ StepOnly(j, "DONE")
    /\ UNCHANGED <<store, uses, marked, alive, faults, ghosts>>

Tick == /\ now < MaxTime /\ now' = now + 1
        /\ UNCHANGED <<store, uses, marked, alive, jobs, restarts, lost, ghosts>>

Reloaded == [n \in Names |-> IF bucket'[n] = Bare THEN Absent ELSE bucket'[n]]

PastCheck == {j \in Jobs : step[j] \in {"CHECKED", "AWAITING_DATA",
                                       "AWAITING_SCHEDULING"}}

\* A crash may fall between the bucket of a new dataset and the description
\* stored in it, or between an output dataset and the save of its job.
HalfDone == {<<n, Bare>> : n \in Inputs}
            \union {<<OutputOf[j], b>> : j \in {i \in Jobs : Checking(i)}, b \in {Bare, Never}}

\* The process ends and starts again: datasets are in the buckets, links in
\* memory only.
Restart ==
    /\ restarts < MaxRestarts /\ restarts' = restarts + 1
    /\ \/ bucket' = bucket /\ unsaved' = unsaved
       \/ \E h \in HalfDone :
            /\ ~ CannotCreate(h[1])
            /\ bucket' = [bucket EXCEPT ![h[1]] = h[2]]
            /\ unsaved' = unsaved \union {j \in Jobs : OutputOf[j] = h[1]}
    /\ known' = Reloaded
    /\ usage' = [n \in Names |-> {}] /\ links' = [j \in Jobs |-> {}]
    /\ marked' = {} /\ alive' = Tasks
    /\ forgotten' = forgotten \union PastCheck
    /\ UNCHANGED <<jobs, now, lost, swept, removed>>

Check(j) == CheckPasses(j) \/ CheckRaises(j) \/ CheckFails(j)
Provision(j) == ProvisionSucceeds(j) \/ ProvisionFails(j)

Next == \/ \E n \in Inputs : CreateDataset(n) \/ DeleteDataset(n)
        \/ \E n \in Outputs : DeleteDataset(n)
        \/ \E j \in Jobs : Check(j) \/ Provision(j) \/ Others(j)
        \/ UnlinkFinished \/ Sweep \/ SweepRaises
        \/ Tick \/ Restart

Spec == Init /\ [][Next]_vars

\* Each task of the loop is run again and again while it lives.
FairSpec == /\ Spec
            /\ \A j \in Jobs : WF_vars(Check(j)) /\ WF_vars(Provision(j))
            /\ WF_vars(UnlinkFinished)
-----------------------------------------------------------------------------
\* Types; and the manager's record of users and each user's record of datasets
\* agree, whatever has been created, deleted, checked or half unlinked.
UsageMatchesLinks ==
    /\ TypeOK
    /\ \A j \in Jobs, n \in Names : j \in usage[n] <=> n \in links[j]

\* A job between its check and its end is linked to every dataset found for
\* it, unless the service has been restarted since: no other job's end, no
\* deletion and no second check after a lost save takes the link away. When it
\* reaches the scheduler, something fulfils each of its requirements, and is
\* still there unless a client or the sweep has removed it.
JobsKeepTheirData ==
    /\ \A j \in PastCheck \ forgotten : \A k \in Needs[j] :
          filled[j][k] # None => filled[j][k] \in links[j]
    /\ \A j \in Jobs : step[j] = "AWAITING_SCHEDULING" =>
          \A k \in Needs[j] : filled[j][k] \in Known \union removed \union swept

\* A restart brings back exactly the datasets the service had, but for one
\* whose creation it interrupted; and the sweep takes away nothing but
\* temporary datasets that an earlier sweep of the same process has marked.
DatasetsStay ==
    [][/\ restarts' # restarts =>
            /\ \A n \in Known : known'[n] = known[n]
            /\ Cardinality({n \in Names : known'[n] # known[n]}) <= 1
       /\ \A n \in swept' \ swept : known[n] # Never /\ n \in marked]_vars


\* The docstring of the task: a job that waits for its check is moved on when
\* its requirements can be fulfilled, and to DATA_UNPROVIDEABLE when not.
ChecksGoOn ==
    \A j \in Jobs : step[j] = "AWAITING_DATA_CHECK" ~> step[j] # "AWAITING_DATA_CHECK"
=============================================================================
