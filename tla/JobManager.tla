----------------------------- MODULE JobManager -----------------------------
(***************************************************************************)
(* The scheduler service: the loop of RedisBackedJobManager that takes     *)
(* jobs through their steps, and the handlers of SchedulerHandler for the  *)
(* requests of clients.  An iteration of the loop does not wait between    *)
(* taking and releasing the lock on the active jobs, so that handlers run  *)
(* between iterations only; it is still a sequence of steps, one for each  *)
(* effect outside the process (a Redis transaction, Docker services, CPUs  *)
(* of the pool), as the process may die between any two of them.           *)
(*                                                                         *)
(* The data service and the partitioner are processes of their own.  They  *)
(* hold the lock while they work, which the handlers do not mind: jobs are *)
(* loaded at once and saved one by one, much later, and whatever a handler *)
(* has saved of them in between is overwritten.  (That the lock excludes   *)
(* the loops from each other is taken from ActiveJobsLock, whose caveats   *)
(* apply.)  A pool of one node is enough to tell jobs that fit from jobs   *)
(* that do not: AllocationParadigms has the nodes.                         *)
(***************************************************************************)
EXTENDS JobStatus, Integers, FiniteSets, FiniteSetsExt

CONSTANTS Jobs,           \* ids of jobs
          None,           \* no record, nothing to save
          Cpus,           \* CPUs each job asks for
          FillJobs,       \* jobs with the FILL_NODES paradigm
          Workers,        \* allocations, and so Docker services, of a job
          PoolCpus,       \* CPUs of the pool
          Priorities,     \* priorities jobs are submitted with
          HighAbove,      \* 100 in the code
          MediumAbove,    \* 49 in the code
          AgeBoost,       \* 10 in the code
          MaxPriority,    \* bound: priorities stay there
          UpdateSteps,    \* steps that update messages report
          PromptReports,  \* whether no update message is overtaken by events
          MaxCrashes      \* bound on the crashes of the process

ASSUME ManagerAssumption ==
    /\ None \notin Jobs
    /\ Cpus \in [Jobs -> Nat \ {0}] /\ FillJobs \subseteq Jobs
    /\ Workers \in Nat \ {0} /\ PoolCpus \in Nat
    /\ MaxPriority \in Nat /\ Priorities \subseteq 0 .. MaxPriority
    /\ HighAbove \in Nat /\ MediumAbove \in Nat /\ AgeBoost \in Nat
    /\ UpdateSteps \subseteq Steps /\ PromptReports \in BOOLEAN
    /\ MaxCrashes \in Nat

VARIABLES
    rec,       \* job records in Redis
    active,    \* the set of active jobs in Redis
    free,      \* CPUs left according to the resource record
    services,  \* how many Docker services of each job exist
    reports,   \* update messages under way
    snap,      \* jobs another service has loaded and not yet served
    pc,        \* where the loop stands in its iteration
    mem,       \* the job objects of the iteration
    todo,      \* jobs the current loop over jobs still has to visit
    skipped,   \* jobs of the current queue that got no CPUs
    bump,      \* those of them that a later job of the queue has overtaken
    saving,    \* a job object whose change still has to be saved
    raised,    \* history: whether an iteration ended in an exception
    crashes,   \* number of crashes so far
    drift      \* history: CPUs lost, or won, by deaths and stale saves

stored == <<rec, active>>
iteration == <<mem, todo, skipped, bump>>
history == <<raised, crashes, drift>>
vars == <<stored, free, services, reports, pc, iteration, saving, history, snap>>

Records == [status : Statuses, alloc : BOOLEAN, priority : 0 .. MaxPriority]
Unsaved == [job : Jobs, rec : Records]

ASSUME NoneAssumption == None \notin Records /\ None \notin Unsaved

PCs == {"idle", "stop", "prune", "organize", "release",
        "high", "medium", "low", "schedule"}

ManagerTypeOK ==
          /\ rec \in [Jobs -> Records \union {None}]
          /\ active \subseteq Jobs
          /\ free \in Int
          /\ services \in [Jobs -> 0 .. Workers]
          /\ reports \subseteq [job : Jobs, step : UpdateSteps]
          /\ pc \in PCs
          /\ mem \in [Jobs -> Records \union {None}]
          /\ todo \subseteq Jobs /\ skipped \subseteq Jobs /\ bump \subseteq Jobs
          /\ saving \in Unsaved \union {None}
          /\ raised \in BOOLEAN
          /\ crashes \in 0 .. MaxCrashes
          /\ drift \in Int

TypeOK == ManagerTypeOK /\ snap \in [Jobs -> Records \union {None}]

NoJobs == [j \in Jobs |-> None]

Init == /\ rec = NoJobs /\ active = {}
        /\ free = PoolCpus
        /\ services = [j \in Jobs |-> 0]
        /\ reports = {}
        /\ pc = "idle" /\ mem = NoJobs
        /\ todo = {} /\ skipped = {} /\ bump = {}
        /\ saving = None
        /\ raised = FALSE /\ crashes = 0 /\ drift = 0
        /\ snap = NoJobs
-----------------------------------------------------------------------------
Loaded == {j \in Jobs : mem[j] # None}

AtStep(s) == {j \in Loaded : mem[j].status.step = s}

StepTo(r, s) == [r EXCEPT !.status = WithStep(r.status, s)]

\* Faulty variant: ids are only ever added.
ActiveAfterAddOnly(j, r) == IF IsActive(r.status) THEN active \union {j} ELSE active

\* The active set once save_job has stored record r of job j.
ActiveAfter(j, r) == IF IsActive(r.status) THEN active \union {j} ELSE active \ {j}

\* save_job: one transaction on the record and the set of active jobs.
SaveJob(j, r) == /\ rec' = [rec EXCEPT ![j] = r]
                 /\ active' = ActiveAfter(j, r)

\* The loop, at pc, has nothing left to save; at "idle" handlers may run.
At(p) == pc = p /\ saving = None

\* A change is in the job object, its save is the next thing to happen.
Change(j, r) == /\ mem' = [mem EXCEPT ![j] = r]
                /\ saving' = [job |-> j, rec |-> r]

Save == /\ saving # None
        /\ SaveJob(saving.job, saving.rec)
        /\ saving' = None
        /\ UNCHANGED <<free, services, reports, pc, iteration, history>>

\* The process is gone: an exception has ended it, or a crash.  The lock it
\* held expires and the container runtime starts it again.
Restarted == /\ pc' = "idle" /\ mem' = NoJobs
             /\ todo' = {} /\ skipped' = {} /\ bump' = {}
             /\ saving' = None

Raise == /\ Restarted /\ raised' = TRUE
         /\ UNCHANGED <<stored, services, reports, crashes>>

\* The lock: no other service is at work on the active jobs.
HasLock == snap = NoJobs

\* get_all_active_jobs: every id of the set needs a record.
Load == /\ At("idle") /\ HasLock
        /\ \A j \in active : rec[j] # None
        /\ mem' = [j \in Jobs |-> IF j \in active THEN rec[j] ELSE None]
        /\ pc' = "stop"
        /\ UNCHANGED <<stored, free, services, reports, todo, skipped, bump,
                       saving, history>>

LoadFails == /\ At("idle") /\ HasLock
             /\ \E j \in active : rec[j] = None
             /\ Raise
             /\ UNCHANGED <<free, drift>>

\* Faulty variant: a stop that failed is taken for one that worked.
StopJobUnchecked(j) ==
    /\ At("stop") /\ j \in AtStep("STOPPING")
    /\ \E left \in 0 .. services[j] : services' = [services EXCEPT ![j] = left]
    /\ Change(j, StepTo(mem[j], "STOPPED"))
    /\ UNCHANGED <<stored, free, reports, pc, todo, skipped, bump, history>>

\* Stopping a job removes its services one after the other; a missing or
\* refused one, or a job without allocations, ends that in an exception.
StopJob(j) ==
    /\ At("stop") /\ j \in AtStep("STOPPING")
    /\ \/ /\ mem[j].alloc /\ services[j] = Workers
          /\ services' = [services EXCEPT ![j] = 0]
          /\ Change(j, StepTo(mem[j], "STOPPED"))
       \/ \E left \in 0 .. services[j] :
             /\ services' = [services EXCEPT ![j] = left]
             /\ Change(j, StepTo(mem[j], "FAILED"))
    /\ UNCHANGED <<stored, free, reports, pc, todo, skipped, bump, history>>

StopDone == /\ At("stop") /\ AtStep("STOPPING") = {}
            /\ pc' = "prune"
            /\ UNCHANGED <<stored, free, services, reports, iteration, saving, history>>

\* Jobs that completed their phase are removed from the list the loop is
\* going through, which makes it skip the job behind each removed one.  As
\* the list may be in any order, any job preceded by a removed one may stay.
Completing == {j \in Loaded : mem[j].status.step \in CompletingSteps}

Prune == /\ At("prune")
         /\ \E stay \in SUBSET Completing :
               LET gone == Completing \ stay
               IN  /\ Cardinality(stay) <= Cardinality(gone)
                   /\ rec' = [j \in Jobs |-> IF j \in gone THEN mem[j] ELSE rec[j]]
                   /\ active' = active \ gone
                   /\ mem' = [j \in Jobs |-> IF j \in gone THEN None ELSE mem[j]]
                   /\ todo' = Loaded \ gone
         /\ pc' = "organize"
         /\ UNCHANGED <<free, services, reports, skipped, bump, saving, history>>

\* _organize_active_jobs: a new job enters the first step of its run, a
\* stopped one is queued again, one with CPUs goes on without asking.
Entered(r) == IF r.status.phase = "INIT"
              THEN [r EXCEPT !.status = StatusOfPhase("MODEL_EXEC")] ELSE r
Requeued(r) == IF r.status.step = "STOPPED" THEN StepTo(r, "AWAITING_ALLOCATION") ELSE r

\* Faulty variant: the allocations of the job are not looked at.
PassedUnchecked(r) == IF r.status.step = "AWAITING_ALLOCATION"
                      THEN StepTo(r, "AWAITING_DATA") ELSE r

Passed(r) == IF r.status.step = "AWAITING_ALLOCATION" /\ r.alloc
             THEN StepTo(r, "AWAITING_DATA") ELSE r
Organized(r) == Passed(Requeued(Entered(r)))

Organize(j) == /\ At("organize") /\ j \in todo
               /\ LET r == Organized(mem[j])
                  IN  IF r = mem[j] THEN UNCHANGED <<stored, mem>>
                      ELSE SaveJob(j, r) /\ mem' = [mem EXCEPT ![j] = r]
               /\ todo' = todo \ {j}
               /\ UNCHANGED <<free, services, reports, pc, skipped, bump, saving, history>>

OrganizeDone == /\ At("organize") /\ todo = {}
                /\ todo' = {j \in Loaded : ShouldReleaseResources(mem[j].status)}
                /\ pc' = "release"
                /\ UNCHANGED <<stored, free, services, reports, mem, skipped, bump,
                               saving, history>>

\* Faulty variant: CPUs come back that are not held.
FreeAfterReleaseAlways(j, r) == free + Cpus[j]

\* What the pool has left once r, of job j, has given its CPUs back.
FreeAfterRelease(j, r) == IF r.alloc THEN free + Cpus[j] ELSE free

\* release_allocations works on a fresh copy of the record.  A resource
\* record beyond the size of its resource cannot be read any more.
ReleaseJob(j) == /\ free' = FreeAfterRelease(j, rec[j])
                 /\ saving' = [job |-> j, rec |-> [rec[j] EXCEPT !.alloc = FALSE]]

Unreadable == free > PoolCpus

ReleaseCompleted(j) ==
    /\ At("release") /\ j \in todo
    /\ IF Unreadable /\ rec[j].alloc THEN Raise /\ UNCHANGED <<free, drift>>
       ELSE /\ ReleaseJob(j)
            /\ todo' = todo \ {j}
            /\ UNCHANGED <<stored, services, reports, pc, mem, skipped, bump, history>>
-----------------------------------------------------------------------------
Capped(p) == IF p <= MaxPriority THEN p ELSE MaxPriority

Eligible == {j \in AtStep("AWAITING_ALLOCATION") : ~mem[j].alloc}

Tier(r) == IF r.priority > HighAbove THEN "high"
           ELSE IF r.priority > MediumAbove THEN "medium" ELSE "low"

Queue(objects, tier) == {j \in Eligible : Tier(objects[j]) = tier}

\* Jobs not updated for an hour gain priority, in the job objects only.
BuildQueues ==
    /\ At("release") /\ todo = {}
    /\ \E aged \in SUBSET Eligible :
          LET boosted == [j \in Jobs |-> IF j \in aged
                            THEN [mem[j] EXCEPT !.priority = Capped(@ + AgeBoost)]
                            ELSE mem[j]]
          IN  mem' = boosted /\ todo' = Queue(boosted, "high")
    /\ pc' = "high"
    /\ UNCHANGED <<stored, free, services, reports, skipped, bump, saving, history>>

First(j) == \A k \in todo : mem[k].priority <= mem[j].priority

\* request_allocations for the first job of the queue.
Allocate(j) ==
    /\ pc \in {"high", "medium", "low"} /\ saving = None
    /\ j \in todo /\ First(j)
    /\ \/ /\ free >= Cpus[j] /\ ~Unreadable /\ j \notin FillJobs
          /\ free' = free - Cpus[j]
          /\ Change(j, [StepTo(mem[j], "AWAITING_DATA") EXCEPT !.alloc = TRUE])
          /\ bump' = skipped
          /\ todo' = todo \ {j}
          /\ UNCHANGED <<stored, services, reports, pc, skipped, history>>
       \/ /\ free < Cpus[j] /\ ~Unreadable
          /\ skipped' = skipped \union {j}
          /\ todo' = todo \ {j}
          /\ UNCHANGED <<stored, free, services, reports, pc, mem, bump, saving, history>>

\* FILL_NODES raises once it has taken all it needs, and any look at an
\* unreadable resource record raises.
AllocateFails(j) ==
    /\ pc \in {"high", "medium", "low"} /\ saving = None
    /\ j \in todo /\ First(j)
    /\ \/ /\ j \in FillJobs /\ free >= Cpus[j] /\ ~Unreadable
          /\ free' = free - Cpus[j] /\ drift' = drift + Cpus[j]
       \/ Unreadable /\ UNCHANGED <<free, drift>>
    /\ Raise

\* The queue is empty: overtaken jobs gain priority, and the next queue
\* follows, unless a job of high priority is still without CPUs.
NextQueue == CASE pc = "high" /\ skipped = {} -> "medium"
               [] pc = "medium" -> "low"
               [] OTHER -> "schedule"

QueueDone ==
    /\ pc \in {"high", "medium", "low"} /\ saving = None /\ todo = {}
    /\ mem' = [j \in Jobs |-> IF j \in bump
                  THEN [mem[j] EXCEPT !.priority = Capped(@ + 1)] ELSE mem[j]]
    /\ rec' = [j \in Jobs |-> IF j \in bump THEN mem'[j] ELSE rec[j]]
    /\ active' = active \union bump
    /\ pc' = NextQueue
    /\ todo' = IF NextQueue = "schedule" THEN {} ELSE Queue(mem', NextQueue)
    /\ skipped' = {} /\ bump' = {}
    /\ UNCHANGED <<free, services, reports, saving, history>>

\* start_job creates the services one by one; a failure, such as a name
\* that is taken, leaves those that were created before it.
StartJob(j) ==
    /\ At("schedule") /\ j \in AtStep("AWAITING_SCHEDULING")
    /\ \/ /\ mem[j].alloc /\ services[j] = 0
          /\ services' = [services EXCEPT ![j] = Workers]
          /\ Change(j, StepTo(mem[j], "SCHEDULED"))
       \/ \E now \in services[j] .. Workers :
             /\ mem[j].alloc \/ now = services[j]
             /\ now < Workers \/ services[j] > 0
             /\ services' = [services EXCEPT ![j] = now]
             /\ Change(j, StepTo(mem[j], "FAILED"))
    /\ UNCHANGED <<stored, free, reports, pc, todo, skipped, bump, history>>

Unlock == /\ At("schedule") /\ AtStep("AWAITING_SCHEDULING") = {}
          /\ pc' = "idle" /\ mem' = NoJobs
          /\ UNCHANGED <<stored, free, services, reports, todo, skipped, bump,
                         saving, history>>

Iterate  == \/ Load \/ LoadFails
            \/ StopDone \/ Prune \/ OrganizeDone \/ BuildQueues \/ QueueDone \/ Unlock
            \/ \E j \in Jobs : \/ StopJob(j) \/ Organize(j) \/ ReleaseCompleted(j)
                               \/ Allocate(j) \/ AllocateFails(j) \/ StartJob(j)

LoopStep == Save \/ Iterate

\* What a death between an effect on the pool and its save does: CPUs that
\* are granted to nobody, or a grant that can be given back a second time.
UnsavedCpus == IF saving = None THEN 0
               ELSE IF saving.rec.alloc = rec[saving.job].alloc THEN 0
               ELSE IF saving.rec.alloc THEN Cpus[saving.job] ELSE -Cpus[saving.job]

Crash == /\ crashes < MaxCrashes /\ (pc # "idle" \/ saving # None)
         /\ crashes' = crashes + 1
         /\ drift' = drift + UnsavedCpus
         /\ Restarted
         /\ UNCHANGED <<stored, free, services, reports, raised>>
-----------------------------------------------------------------------------
\* Handlers of client requests: the record is loaded, changed and saved
\* while the loop sleeps.
Handle(j, r) == /\ SaveJob(j, r)
                /\ UNCHANGED <<free, services, reports, pc, iteration, saving, history>>

Known(j) == At("idle") /\ rec[j] # None

\* Ids are random: one that anything still refers to is not drawn again.
Create(j) == /\ At("idle") /\ rec[j] = None /\ j \notin active /\ snap[j] = None
             /\ services[j] = 0 /\ \A m \in reports : m.job # j
             /\ \E p \in Priorities :
                   Handle(j, [status |-> StatusOfPhase("INIT"), alloc |-> FALSE,
                              priority |-> p])

\* Faulty variant: a job is stopped wherever it is on its way.
RequestStopAnywhere(j) == /\ Known(j) /\ IsActive(rec[j].status)
                          /\ Handle(j, StepTo(rec[j], "STOPPING"))

RequestStop(j) == /\ Known(j) /\ rec[j].status.step = "RUNNING"
                  /\ Handle(j, StepTo(rec[j], "STOPPING"))

RequestRestart(j) == /\ Known(j) /\ rec[j].status.step = "STOPPED"
                     /\ Handle(j, StepTo(rec[j], "AWAITING_SCHEDULING"))

\* An unreadable resource record ends the request with an error reply.
RequestRelease(j) == /\ Known(j) /\ ShouldReleaseResources(rec[j].status)
                     /\ ~(Unreadable /\ rec[j].alloc)
                     /\ ReleaseJob(j)
                     /\ UNCHANGED <<stored, services, reports, pc, iteration, history>>

\* Update messages come from watching the services of a job.  One that is
\* under way for a while tells what the job was like when it was sent.
Watched(j) == rec[j] # None /\ rec[j].status.step \in {"SCHEDULED", "RUNNING"}

Report(j) == /\ At("idle") /\ Watched(j) /\ ~PromptReports
             /\ \A m \in reports : m.job # j
             /\ \E s \in UpdateSteps : reports' = reports \union {[job |-> j, step |-> s]}
             /\ UNCHANGED <<stored, free, services, pc, iteration, saving, history>>

\* _handle_update_message takes any status, for an active job.
Update(j, s) == IF IsActive(rec[j].status) THEN SaveJob(j, StepTo(rec[j], s))
                ELSE UNCHANGED stored

UpdateAtOnce(j) == /\ At("idle") /\ Watched(j) /\ PromptReports
                   /\ \E s \in UpdateSteps : Update(j, s)
                   /\ UNCHANGED <<free, services, reports, pc, iteration, saving, history>>

UpdateLate(m) == /\ Known(m.job) /\ m \in reports
                 /\ Update(m.job, m.step)
                 /\ reports' = reports \ {m}
                 /\ UNCHANGED <<free, services, pc, iteration, saving, history>>

\* delete_job removes the key of the record, not the id, from the active set.
Delete(j) ==
    /\ Known(j)
    /\ rec' = [rec EXCEPT ![j] = None]
    /\ ~(Unreadable /\ rec[j].alloc)
    /\ IF ShouldReleaseResources(rec[j].status)
       THEN free' = FreeAfterRelease(j, rec[j]) /\ drift' = drift
       ELSE free' = free /\ drift' = drift + IF rec[j].alloc THEN Cpus[j] ELSE 0
    /\ UNCHANGED <<active, services, reports, pc, iteration, saving, raised, crashes>>

Request(j) == Create(j) \/ RequestStop(j) \/ RequestRestart(j) \/ RequestRelease(j)
                        \/ Report(j) \/ UpdateAtOnce(j)

\* The services that move a job on: data checks, partitioning, provision.
MovesOn == [AWAITING_DATA_CHECK   |-> {"AWAITING_PARTITIONING", "AWAITING_ALLOCATION",
                                       "DATA_UNPROVIDEABLE"},
            AWAITING_PARTITIONING |-> {"AWAITING_ALLOCATION", "PARTITIONING_FAILED"},
            AWAITING_DATA         |-> {"AWAITING_SCHEDULING", "DATA_FAILURE"}]

\* One of these services takes the lock and loads the active jobs that wait
\* for it, which is not between the two steps of a handler.
Serve(step) ==
    /\ At("idle") /\ HasLock
    /\ snap' = [j \in Jobs |-> IF /\ j \in active /\ rec[j] # None
                                  /\ rec[j].status.step = step
                               THEN rec[j] ELSE None]
    /\ snap' # NoJobs
    /\ UNCHANGED <<stored, free, services, reports, pc, iteration, saving, history>>

\* CPUs that a save over the record drops, or makes up.
OverwrittenCpus(j) ==
    (IF rec[j] # None /\ rec[j].alloc THEN Cpus[j] ELSE 0)
      - (IF snap[j].alloc THEN Cpus[j] ELSE 0)

\* It saves the job as it was loaded, but for its step.
MoveOn(j) == /\ At("idle") /\ snap[j] # None
             /\ \E s \in MovesOn[snap[j].status.step] : SaveJob(j, StepTo(snap[j], s))
             /\ snap' = [snap EXCEPT ![j] = None]
             /\ drift' = drift + OverwrittenCpus(j)
             /\ UNCHANGED <<free, services, reports, pc, iteration, saving, raised,
                            crashes>>

\* It is done, could not save the others, or has died and the lock expired.
ServiceEnds ==
    /\ ~HasLock
    /\ snap' = NoJobs
    /\ UNCHANGED <<stored, free, services, reports, pc, iteration, saving, history>>

ServiceStep == \/ \E step \in DOMAIN MovesOn : Serve(step)
               \/ \E j \in Jobs : MoveOn(j)
               \/ ServiceEnds

ManagerStep == \/ LoopStep \/ Crash
               \/ \E j \in Jobs : Request(j)
               \/ \E m \in reports : UpdateLate(m)

Next == \/ ManagerStep /\ UNCHANGED snap
        \/ ServiceStep

Spec == Init /\ [][Next]_vars

\* The event loop turns to the management loop between any two requests
\* again and again, which tries for the lock until it gets it; no service
\* keeps the lock for good, as it expires.  Requests, update messages,
\* crashes and what the other services do to a job are never owed.
FairSpec == /\ Spec
            /\ WF_vars(Save /\ UNCHANGED snap) /\ SF_vars(Iterate /\ UNCHANGED snap)
            /\ WF_vars(ServiceEnds)

\* With delete_job, which no service calls yet.
DeleteSpec == Init /\ [][Next \/ \E j \in Jobs : Delete(j) /\ UNCHANGED snap]_vars
-----------------------------------------------------------------------------
(***************************************************************************)
(* A job is in the active set of Redis exactly if its record has an active *)
(* status, after every save of the loop and of a handler: a stale entry    *)
(* would end the loop, a missing one would have a job forgotten.           *)
(***************************************************************************)
ActiveSetExact ==
    \A j \in Jobs : j \in active <=> (rec[j] # None /\ IsActive(rec[j].status))

Holders == {j \in Jobs : rec[j] # None /\ rec[j].alloc}

(***************************************************************************)
(* The CPUs left in the pool, those the records of jobs hold, the grant or *)
(* release that waits for its save and what deaths of the process and      *)
(* saves of stale copies made of such ones add up to the pool: nothing     *)
(* else leaks CPUs or gives them back twice, whatever the requests of      *)
(* clients and their order.  With prompt update messages and no deaths     *)
(* there are none of those, and no iteration of the loop ends in an        *)
(* exception, which would take the whole scheduler down.                   *)
(***************************************************************************)
Conservation ==
    /\ free + MapThenSumSet(LAMBDA j : Cpus[j], Holders) + UnsavedCpus + drift = PoolCpus
    /\ PromptReports /\ FillJobs = {} /\ crashes = 0 => drift = 0 /\ ~raised

(***************************************************************************)
(* A job that waits for its data, for its start, or runs, holds its CPUs:  *)
(* no restart, late update message or crash lets a job go on without.      *)
(***************************************************************************)
ExecutingJobsHoldCpus ==
    \A j \in Jobs : rec[j] # None
        /\ rec[j].status.step \in {"AWAITING_DATA", "AWAITING_SCHEDULING", "SCHEDULED",
                                    "RUNNING", "STOPPING"}
        => rec[j].alloc

(***************************************************************************)
(* Docker has the services of a job from its start to its stop, and none   *)
(* before: no job runs unknown to its record, or is started twice.         *)
(***************************************************************************)
ServicesMatch ==
    \A j \in Jobs : (rec[j] # None /\ (saving = None \/ saving.job # j)) =>
        LET s == rec[j].status.step
        IN  /\ s \in {"SCHEDULED", "RUNNING", "STOPPING"} => services[j] = Workers
            /\ services[j] > 0 => s \in {"SCHEDULED", "RUNNING", "STOPPING",
                                         "COMPLETED", "FAILED"}

(***************************************************************************)
(* What the data service or the partitioner is about to save is the record *)
(* as it is, but for the step: although handlers do not take the lock, no  *)
(* request changes a job that waits for one of these services.  (A late    *)
(* update message may.)                                                    *)
(***************************************************************************)
SnapshotsAreCurrent == \A j \in Jobs : snap[j] # None => snap[j] = rec[j]

Recorded(j, s) == rec[j] # None /\ rec[j].status.step = s

Owed(j) == \E s \in {"STOPPING", "AWAITING_SCHEDULING"} : Recorded(j, s)

(***************************************************************************)
(* A job whose stop was accepted, or that waits to be scheduled, does not  *)
(* stay so: it is stopped, started or fails, although either can fail      *)
(* halfway and the loop also serves every other job.                       *)
(***************************************************************************)
LoopServes == \A j \in Jobs : Owed(j) ~> ~Owed(j)

(***************************************************************************)
(* _request_job_stop is to "watch to see that a job enters the STOPPED     *)
(* step": unless stopping fails, a job whose stop was accepted should be   *)
(* seen at STOPPED by a handler, that is, between two iterations.          *)
(***************************************************************************)
StopIsSeen ==
    \A j \in Jobs : Recorded(j, "STOPPING")
        ~> (pc = "idle" /\ \/ Recorded(j, "STOPPED") \/ Recorded(j, "FAILED")
                           \/ Recorded(j, "COMPLETED"))
=============================================================================
