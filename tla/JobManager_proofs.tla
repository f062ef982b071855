------------------------- MODULE JobManager_proofs -------------------------
(***************************************************************************)
(* Proofs about the scheduler service: its types, that the active set of   *)
(* Redis and the job records agree, that no job goes on without CPUs, that *)
(* Docker has the services of the jobs that run, and that CPUs are neither *)
(* lost nor given out twice, for any number of jobs, any pool and any      *)
(* steps update messages report.                                           *)
(***************************************************************************)
EXTENDS JobManager, FoldTheorems, FiniteSetTheorems, TLAPS

ExecSteps == {"AWAITING_DATA", "AWAITING_SCHEDULING", "SCHEDULED", "RUNNING", "STOPPING",
              "STOPPED"}

\* A record or a job object that makes sense by itself: a new job has not
\* moved yet, and the steps that come with CPUs have them.
Sound(r) == /\ r.status.phase \in {"INIT", "MODEL_EXEC"}
            /\ r.status.phase = "INIT" => r.status.step = "DEFAULT" /\ ~r.alloc
            /\ r.status.step \in ExecSteps => r.alloc

\* What may replace record r without reviving the job or dropping its CPUs.
MayFollow(r, m) == /\ ~IsActive(r.status) => ~IsActive(m.status)
                   /\ r.alloc /\ IsActive(r.status) => m.alloc

Queues == {"high", "medium", "low"}

RecordsSound == \A j \in Jobs : rec[j] # None => Sound(rec[j])

\* A job object has the status that Redis has, or will have once it is saved.
ObjectsSound == \A j \in Jobs : mem[j] # None =>
                    /\ rec[j] # None /\ Sound(mem[j]) /\ MayFollow(rec[j], mem[j])
                    /\ saving = None \/ saving.job # j => mem[j].status = rec[j].status

SavingSound == saving # None =>
                 /\ rec[saving.job] # None
                 /\ Sound(saving.rec)
                 /\ MayFollow(rec[saving.job], saving.rec)
                 /\ mem[saving.job] # None => /\ MayFollow(saving.rec, mem[saving.job])
                                              /\ saving.rec.status = mem[saving.job].status

QueuesSound == /\ todo \subseteq Loaded
               /\ pc \in Queues => todo \subseteq Eligible
               /\ skipped \subseteq Eligible /\ bump \subseteq skipped
               /\ todo \intersect skipped = {}
               /\ pc \notin Queues => skipped = {}
               /\ pc = "release" => \A j \in todo : ShouldReleaseResources(mem[j].status)
               /\ pc = "schedule" => todo = {}

ReportsSound == \A m \in reports :
                   rec[m.job] # None /\ (rec[m.job].alloc \/ ~IsActive(rec[m.job].status))

IdleIsEmpty == pc = "idle" => mem = NoJobs

IInv == /\ ManagerTypeOK /\ ActiveSetExact
        /\ RecordsSound /\ ObjectsSound /\ SavingSound
        /\ QueuesSound /\ ReportsSound /\ IdleIsEmpty
-----------------------------------------------------------------------------
\* What set_status_step does to a record.
LEMMA StepToFacts ==
  ASSUME NEW r \in Records, NEW s \in Steps
  PROVE  /\ StepTo(r, s) \in Records
         /\ StepTo(r, s).status.step = s
         /\ StepTo(r, s).status.phase = r.status.phase
         /\ StepTo(r, s).alloc = r.alloc
  BY DEF StepTo, WithStep, Records, Statuses

\* A record has a known status.
LEMMA RecordFacts ==
  ASSUME NEW r \in Records
  PROVE  /\ r.status.phase \in Phases /\ r.status.step \in Steps
         /\ r.alloc \in BOOLEAN /\ r # None
  BY NoneAssumption DEF Records, Statuses

\* An object may always follow itself, and MayFollow looks at the activity
\* and the CPUs of the two only.
LEMMA FollowFacts ==
  ASSUME NEW r \in Records
  PROVE  MayFollow(r, r)
  BY DEF MayFollow

\* A step of the run of a job that needs no CPUs, or has them.
LEMMA SoundStep ==
  ASSUME NEW r \in Records, NEW s \in Steps, Sound(r),
         r.status.phase # "INIT", s \in ExecSteps => r.alloc
  PROVE  Sound(StepTo(r, s))
  BY StepToFacts DEF Sound

\* From an active record any step may follow that keeps the CPUs.
LEMMA FollowStep ==
  ASSUME NEW r \in Records, NEW s \in Steps, IsActive(r.status)
  PROVE  MayFollow(r, StepTo(r, s))
  BY StepToFacts DEF MayFollow

\* save_job keeps the active set and the records in agreement.
LEMMA SaveJobFacts ==
  ASSUME ManagerTypeOK, ActiveSetExact, NEW j \in Jobs, NEW r \in Records, SaveJob(j, r)
  PROVE  /\ rec' \in [Jobs -> Records \union {None}] /\ active' \subseteq Jobs
         /\ rec'[j] = r /\ \A k \in Jobs : k # j => rec'[k] = rec[k]
         /\ ActiveSetExact'
<1>1. rec' = [rec EXCEPT ![j] = r] /\ rec \in [Jobs -> Records \union {None}]
  BY DEF SaveJob, ManagerTypeOK
<1>2. /\ rec' \in [Jobs -> Records \union {None}]
      /\ rec'[j] = r /\ \A k \in Jobs : k # j => rec'[k] = rec[k]
  BY <1>1
<1>3. active' = ActiveAfter(j, r) /\ active \subseteq Jobs
  BY DEF SaveJob, ManagerTypeOK
<1>4. r # None
  BY RecordFacts
<1>5. active' \subseteq Jobs /\ ActiveSetExact'
  BY <1>2, <1>3, <1>4 DEF ActiveAfter, ActiveSetExact
<1> QED BY <1>2, <1>5

\* Storing a record that may follow the one in Redis leaves the watched
\* jobs of update messages sound.
LEMMA StoredSound ==
  ASSUME IInv, NEW j \in Jobs, NEW r \in Records, SaveJob(j, r), Sound(r),
         rec[j] # None => MayFollow(rec[j], r),
         reports' \subseteq reports
  PROVE  RecordsSound' /\ ReportsSound'
<1>1. rec'[j] = r /\ \A k \in Jobs : k # j => rec'[k] = rec[k]
  BY SaveJobFacts DEF IInv
<1>2. RecordsSound'
  BY <1>1 DEF IInv, RecordsSound
<1>3. ASSUME NEW m \in reports'
      PROVE  rec'[m.job] # None /\ (rec'[m.job].alloc \/ ~IsActive(rec'[m.job].status))
  <2>1. /\ m \in reports /\ m.job \in Jobs
        /\ rec[m.job] # None /\ (rec[m.job].alloc \/ ~IsActive(rec[m.job].status))
    BY <1>3 DEF IInv, ReportsSound, ManagerTypeOK
  <2>2. CASE m.job = j
    BY <1>1, <2>1, <2>2, RecordFacts DEF MayFollow
  <2>3. CASE m.job # j
    BY <1>1, <2>1, <2>3
  <2> QED BY <2>2, <2>3
<1> QED BY <1>2, <1>3 DEF ReportsSound
-----------------------------------------------------------------------------
\* The state of an iteration stays sound if nothing of it changes and no
\* record is touched while it has one loaded.
LEMMA QueuesKept ==
  ASSUME QueuesSound, UNCHANGED <<iteration, pc>>
  PROVE  QueuesSound'
  BY DEF QueuesSound, iteration, Loaded, Eligible, AtStep

\* Between two iterations any record may be stored that may follow.
LEMMA IdleStoreInv ==
  ASSUME IInv, NEW j \in Jobs, NEW r \in Records, At("idle"), SaveJob(j, r),
         Sound(r), rec[j] # None => MayFollow(rec[j], r), reports' \subseteq reports,
         UNCHANGED <<free, services, pc, iteration, saving, history>>
  PROVE  IInv'
<1>1. ManagerTypeOK'
  BY SaveJobFacts DEF IInv, ManagerTypeOK, iteration, history
<1>2. ActiveSetExact'
  BY SaveJobFacts DEF IInv
<1>3. RecordsSound' /\ ReportsSound'
  BY StoredSound
<1>4. mem' = NoJobs /\ saving' = None /\ IdleIsEmpty'
  BY DEF IInv, IdleIsEmpty, At, iteration
<1>5. ObjectsSound' /\ SavingSound'
  BY <1>4 DEF ObjectsSound, SavingSound, NoJobs
<1>6. QueuesSound'
  BY QueuesKept DEF IInv
<1> QED BY <1>1, <1>2, <1>3, <1>4, <1>5, <1>6 DEF IInv

\* What the record of a job is known to be between two iterations.
LEMMA KnownFacts ==
  ASSUME IInv, NEW j \in Jobs, rec[j] # None
  PROVE  /\ rec[j] \in Records /\ Sound(rec[j])
         /\ \A s \in Steps : rec[j].status.step = s /\ s \notin CompletingSteps
                                 => IsActive(rec[j].status)
<1>1. rec[j] \in Records /\ Sound(rec[j])
  BY DEF IInv, ManagerTypeOK, RecordsSound
<1> QED BY <1>1 DEF Sound, IsActive, ActivePhases

\* A handler that moves an active job to another step.
LEMMA StepStoreInv ==
  ASSUME IInv, NEW j \in Jobs, NEW s \in Steps, At("idle"), rec[j] # None,
         IsActive(rec[j].status), rec[j].status.phase # "INIT",
         s \in ExecSteps => rec[j].alloc,
         SaveJob(j, StepTo(rec[j], s)), reports' \subseteq reports,
         UNCHANGED <<free, services, pc, iteration, saving, history>>
  PROVE  IInv'
<1>1. rec[j] \in Records /\ Sound(rec[j])
  BY KnownFacts
<1>2. StepTo(rec[j], s) \in Records /\ Sound(StepTo(rec[j], s))
  BY <1>1, StepToFacts, SoundStep
<1>3. MayFollow(rec[j], StepTo(rec[j], s))
  BY <1>1, FollowStep
<1> QED BY <1>2, <1>3, IdleStoreInv

LEMMA CreateInv == ASSUME IInv, NEW j \in Jobs, Create(j) PROVE IInv'
<1>1. PICK p \in Priorities :
         Handle(j, [status |-> StatusOfPhase("INIT"), alloc |-> FALSE, priority |-> p])
  BY DEF Create
<1> DEFINE r == [status |-> StatusOfPhase("INIT"), alloc |-> FALSE, priority |-> p]
<1>2. r \in Records
  BY ManagerAssumption DEF Records, Statuses, StatusOfPhase, DefaultStartStep, Phases, Steps
<1>3. Sound(r)
  BY DEF Sound, StatusOfPhase, DefaultStartStep, ExecSteps
<1>4. rec[j] = None /\ At("idle")
  BY DEF Create
<1> HIDE DEF r
<1> QED BY <1>1, <1>2, <1>3, <1>4, IdleStoreInv DEF Handle, r

LEMMA RequestStopInv == ASSUME IInv, NEW j \in Jobs, RequestStop(j) PROVE IInv'
<1>1. /\ At("idle") /\ rec[j] # None /\ rec[j].status.step = "RUNNING"
      /\ Handle(j, StepTo(rec[j], "STOPPING"))
  BY DEF RequestStop, Known
<1>2. IsActive(rec[j].status)
  BY <1>1, KnownFacts DEF Steps, CompletingSteps, ErrorSteps
<1>3. rec[j].status.phase # "INIT" /\ rec[j].alloc
  BY <1>1, KnownFacts DEF Sound, ExecSteps
<1>4. "STOPPING" \in Steps
  BY DEF Steps
<1> QED BY <1>1, <1>2, <1>3, <1>4, StepStoreInv DEF Handle

LEMMA RequestRestartInv == ASSUME IInv, NEW j \in Jobs, RequestRestart(j) PROVE IInv'
<1>1. /\ At("idle") /\ rec[j] # None /\ rec[j].status.step = "STOPPED"
      /\ Handle(j, StepTo(rec[j], "AWAITING_SCHEDULING"))
  BY DEF RequestRestart, Known
<1>2. IsActive(rec[j].status)
  BY <1>1, KnownFacts DEF Steps, CompletingSteps, ErrorSteps
<1>3. rec[j].status.phase # "INIT" /\ rec[j].alloc
  BY <1>1, KnownFacts DEF Sound, ExecSteps
<1>4. "AWAITING_SCHEDULING" \in Steps
  BY DEF Steps
<1> QED BY <1>1, <1>2, <1>3, <1>4, StepStoreInv DEF Handle

LEMMA ReportInv == ASSUME IInv, NEW j \in Jobs, Report(j) PROVE IInv'
<1>1. PICK s \in UpdateSteps : reports' = reports \union {[job |-> j, step |-> s]}
  BY DEF Report
<1>2. rec[j] # None /\ rec[j].status.step \in {"SCHEDULED", "RUNNING"}
  BY DEF Report, Watched
<1>3. rec[j].alloc
  BY <1>2, KnownFacts DEF Sound, ExecSteps
<1>4. UNCHANGED <<stored, free, services, pc, iteration, saving, history>>
  BY DEF Report
<1>5. ManagerTypeOK'
  BY <1>1, <1>4 DEF IInv, ManagerTypeOK, stored, iteration, history
<1>6. ReportsSound'
  BY <1>1, <1>2, <1>3, <1>4 DEF IInv, ReportsSound, stored
<1>7. QueuesSound'
  BY <1>4, QueuesKept DEF IInv
<1>8. ActiveSetExact' /\ RecordsSound' /\ ObjectsSound' /\ SavingSound' /\ IdleIsEmpty'
  BY <1>4 DEF IInv, ActiveSetExact, RecordsSound, ObjectsSound, SavingSound, IdleIsEmpty,
              stored, iteration
<1> QED BY <1>5, <1>6, <1>7, <1>8 DEF IInv

\* An update message about a job with CPUs, or one that is over.
LEMMA UpdateInv ==
  ASSUME IInv, NEW j \in Jobs, NEW s \in UpdateSteps, At("idle"), rec[j] # None,
         rec[j].alloc \/ ~IsActive(rec[j].status), Update(j, s), reports' \subseteq reports,
         UNCHANGED <<free, services, pc, iteration, saving, history>>
  PROVE  IInv'
<1>1. CASE IsActive(rec[j].status)
  <2>1. SaveJob(j, StepTo(rec[j], s)) /\ rec[j].alloc
    BY <1>1 DEF Update
  <2>2. rec[j].status.phase # "INIT"
    BY <2>1, KnownFacts DEF Sound
  <2>3. s \in Steps
    BY ManagerAssumption
  <2> QED BY <1>1, <2>1, <2>2, <2>3, StepStoreInv
<1>2. CASE ~IsActive(rec[j].status)
  <2>1. UNCHANGED <<stored, free, services, pc, iteration, saving, history>>
    BY <1>2 DEF Update
  <2>2. ManagerTypeOK'
    BY <2>1 DEF IInv, ManagerTypeOK, stored, iteration, history
  <2>3. ReportsSound'
    BY <2>1 DEF IInv, ReportsSound, stored
  <2>4. QueuesSound'
    BY <2>1, QueuesKept DEF IInv
  <2>5. ActiveSetExact' /\ RecordsSound' /\ ObjectsSound' /\ SavingSound' /\ IdleIsEmpty'
    BY <2>1 DEF IInv, ActiveSetExact, RecordsSound, ObjectsSound, SavingSound,
                IdleIsEmpty, stored, iteration
  <2> QED BY <2>2, <2>3, <2>4, <2>5 DEF IInv
<1> QED BY <1>1, <1>2

LEMMA UpdateAtOnceInv == ASSUME IInv, NEW j \in Jobs, UpdateAtOnce(j) PROVE IInv'
<1>1. PICK s \in UpdateSteps : Update(j, s)
  BY DEF UpdateAtOnce
<1>2. rec[j] # None /\ rec[j].status.step \in {"SCHEDULED", "RUNNING"}
  BY DEF UpdateAtOnce, Watched
<1>3. rec[j].alloc
  BY <1>2, KnownFacts DEF Sound, ExecSteps
<1> QED BY <1>1, <1>2, <1>3, UpdateInv DEF UpdateAtOnce

LEMMA UpdateLateInv == ASSUME IInv, NEW m \in reports, UpdateLate(m) PROVE IInv'
<1>1. m.job \in Jobs /\ m.step \in UpdateSteps
  BY DEF IInv, ManagerTypeOK
<1>2. rec[m.job] # None /\ (rec[m.job].alloc \/ ~IsActive(rec[m.job].status))
  BY DEF IInv, ReportsSound
<1>3. At("idle") /\ Update(m.job, m.step) /\ reports' \subseteq reports
  BY DEF UpdateLate, Known
<1> QED BY <1>1, <1>2, <1>3, UpdateInv DEF UpdateLate

\* Giving CPUs back prepares a save that may follow what Redis has and
\* what the iteration, if any, holds of the job.
LEMMA ReleaseSaving ==
  ASSUME IInv, NEW j \in Jobs, rec[j] # None, ShouldReleaseResources(rec[j].status),
         saving = None, ReleaseJob(j), UNCHANGED <<stored, mem>>
  PROVE  ObjectsSound' /\ SavingSound' /\ saving' \in Unsaved /\ free' \in Int
<1> DEFINE r == [rec[j] EXCEPT !.alloc = FALSE]
<1>1. rec[j] \in Records /\ Sound(rec[j])
  BY KnownFacts
<1>2. r \in Records /\ r.status = rec[j].status /\ ~r.alloc
  BY <1>1 DEF Records
<1>3. ~IsActive(rec[j].status) /\ rec[j].status.step \notin ExecSteps
  <2>1. CASE rec[j].status.step \in {"FAILED", "COMPLETED", "CANCELED"}
    BY <2>1 DEF IsActive, CompletingSteps, ErrorSteps, ExecSteps
  <2>2. CASE rec[j].status.phase = "CLOSED"
    BY <1>1, <2>2 DEF Sound
  <2> QED BY <2>1, <2>2 DEF ShouldReleaseResources
<1>4. Sound(r)
  BY <1>1, <1>2, <1>3 DEF Sound
<1>5. MayFollow(rec[j], r)
  BY <1>2, <1>3 DEF MayFollow
<1>6. mem[j] # None => MayFollow(r, mem[j]) /\ r.status = mem[j].status
  BY <1>2, <1>3 DEF IInv, ObjectsSound, MayFollow
<1>7. saving' = [job |-> j, rec |-> r] /\ rec' = rec /\ mem' = mem
  BY DEF ReleaseJob, stored
<1> HIDE DEF r
<1>8. SavingSound' /\ saving' \in Unsaved
  BY <1>2, <1>4, <1>5, <1>6, <1>7 DEF SavingSound, Unsaved
<1>9. ObjectsSound'
  BY <1>7 DEF IInv, ObjectsSound
<1>10. free' \in Int
  BY ManagerAssumption DEF ReleaseJob, FreeAfterRelease, IInv, ManagerTypeOK
<1> QED BY <1>8, <1>9, <1>10

LEMMA RequestReleaseInv == ASSUME IInv, NEW j \in Jobs, RequestRelease(j) PROVE IInv'
<1>1. /\ rec[j] # None /\ ReleaseJob(j) /\ ShouldReleaseResources(rec[j].status)
      /\ saving = None /\ UNCHANGED <<stored, services, reports, pc, iteration, history>>
  BY DEF RequestRelease, Known, At
<1>2. ObjectsSound' /\ SavingSound' /\ saving' \in Unsaved /\ free' \in Int
  BY <1>1, ReleaseSaving DEF iteration
<1>3. ManagerTypeOK'
  BY <1>1, <1>2 DEF IInv, ManagerTypeOK, stored, iteration, history
<1>4. QueuesSound'
  BY <1>1, QueuesKept DEF IInv
<1>5. ActiveSetExact' /\ RecordsSound' /\ ReportsSound' /\ IdleIsEmpty'
  BY <1>1 DEF IInv, ActiveSetExact, RecordsSound, ReportsSound, IdleIsEmpty,
              stored, iteration
<1> QED BY <1>2, <1>3, <1>4, <1>5 DEF IInv
-----------------------------------------------------------------------------
LEMMA SaveInv == ASSUME IInv, Save PROVE IInv'
<1> DEFINE j == saving.job
           r == saving.rec
<1>1. saving # None /\ SaveJob(j, r) /\ saving' = None
      /\ UNCHANGED <<free, services, reports, pc, iteration, history>>
  BY DEF Save
<1>2. j \in Jobs /\ r \in Records
  BY <1>1 DEF IInv, ManagerTypeOK, Unsaved
<1>3. /\ rec[j] # None /\ Sound(r) /\ MayFollow(rec[j], r)
      /\ mem[j] # None => MayFollow(r, mem[j]) /\ r.status = mem[j].status
  BY <1>1 DEF IInv, SavingSound
<1> HIDE DEF j, r
<1>4. /\ rec' \in [Jobs -> Records \union {None}] /\ active' \subseteq Jobs
      /\ rec'[j] = r /\ \A k \in Jobs : k # j => rec'[k] = rec[k]
      /\ ActiveSetExact'
  BY <1>1, <1>2, SaveJobFacts DEF IInv
<1>5. ManagerTypeOK'
  BY <1>1, <1>4 DEF IInv, ManagerTypeOK, iteration, history
<1>6. RecordsSound' /\ ReportsSound'
  BY <1>1, <1>2, <1>3, StoredSound
<1>7. r # None
  BY <1>2, RecordFacts
<1>8. ASSUME NEW k \in Jobs, mem'[k] # None
      PROVE  /\ rec'[k] # None /\ Sound(mem'[k]) /\ MayFollow(rec'[k], mem'[k])
             /\ mem'[k].status = rec'[k].status
  <2>1. mem' = mem
    BY <1>1 DEF iteration
  <2>2. CASE k = j
    BY <1>3, <1>4, <1>7, <1>8, <2>1, <2>2 DEF IInv, ObjectsSound
  <2>3. CASE k # j
    BY <1>4, <1>8, <2>1, <2>3 DEF IInv, ObjectsSound, j
  <2> QED BY <2>2, <2>3
<1>9. QueuesSound' /\ SavingSound' /\ IdleIsEmpty'
  BY <1>1, QueuesKept DEF IInv, SavingSound, IdleIsEmpty, iteration
<1> QED BY <1>4, <1>5, <1>6, <1>8, <1>9 DEF IInv, ObjectsSound

LEMMA LoadInv == ASSUME IInv, Load PROVE IInv'
<1>1. /\ At("idle") /\ \A j \in active : rec[j] # None
      /\ mem' = [j \in Jobs |-> IF j \in active THEN rec[j] ELSE None]
      /\ pc' = "stop"
      /\ UNCHANGED <<stored, free, services, reports, todo, skipped, bump, saving, history>>
  BY DEF Load
<1>2. ManagerTypeOK'
  BY <1>1 DEF IInv, ManagerTypeOK, stored, history, PCs
<1>3. \A j \in Jobs : mem'[j] # None =>
          /\ rec'[j] # None /\ Sound(mem'[j]) /\ MayFollow(rec'[j], mem'[j])
          /\ mem'[j].status = rec'[j].status
  BY <1>1, FollowFacts DEF IInv, ManagerTypeOK, RecordsSound, stored
<1>4. mem = NoJobs
  BY <1>1 DEF IInv, IdleIsEmpty, At
<1>5. todo = {} /\ skipped = {} /\ bump = {}
  BY <1>1, <1>4 DEF IInv, QueuesSound, Loaded, NoJobs, At, Queues, Eligible, AtStep
<1>6. QueuesSound'
  BY <1>1, <1>5 DEF QueuesSound, Queues
<1>7. SavingSound' /\ IdleIsEmpty'
  BY <1>1 DEF SavingSound, IdleIsEmpty, At
<1>8. ActiveSetExact' /\ RecordsSound' /\ ReportsSound'
  BY <1>1 DEF IInv, ActiveSetExact, RecordsSound, ReportsSound, stored
<1> QED BY <1>2, <1>3, <1>6, <1>7, <1>8 DEF IInv, ObjectsSound

\* A process that starts anew has nothing in memory.
LEMMA RestartedInv ==
  ASSUME IInv, Restarted, UNCHANGED <<stored, services, reports>>,
         free' \in Int, raised' \in BOOLEAN, crashes' \in 0 .. MaxCrashes, drift' \in Int
  PROVE  IInv'
<1>1. ManagerTypeOK'
  BY DEF IInv, ManagerTypeOK, Restarted, NoJobs, stored, PCs
<1>2. QueuesSound' /\ IdleIsEmpty' /\ SavingSound'
  BY DEF Restarted, QueuesSound, IdleIsEmpty, SavingSound, Queues
<1>3. ObjectsSound'
  BY DEF Restarted, ObjectsSound, NoJobs
<1>4. ActiveSetExact' /\ RecordsSound' /\ ReportsSound'
  BY DEF IInv, ActiveSetExact, RecordsSound, ReportsSound, stored
<1> QED BY <1>1, <1>2, <1>3, <1>4 DEF IInv

LEMMA RaiseInv == ASSUME IInv, Raise, free' \in Int, drift' \in Int PROVE IInv'
  BY RestartedInv DEF Raise, IInv, ManagerTypeOK

LEMMA LoadFailsInv == ASSUME IInv, LoadFails PROVE IInv'
  BY RaiseInv DEF LoadFails, IInv, ManagerTypeOK

LEMMA CrashInv == ASSUME IInv, Crash PROVE IInv'
<1>1. crashes' \in 0 .. MaxCrashes
  BY ManagerAssumption DEF Crash, IInv, ManagerTypeOK
<1>2. UnsavedCpus \in Int
  BY ManagerAssumption DEF UnsavedCpus, IInv, ManagerTypeOK, Unsaved
<1>3. drift' \in Int
  BY <1>2 DEF Crash, IInv, ManagerTypeOK
<1> QED BY <1>1, <1>3, RestartedInv DEF Crash, IInv, ManagerTypeOK

\* A change of a job object that waits for its save.
LEMMA ChangeSound ==
  ASSUME IInv, NEW j \in Loaded, NEW r \in Records, Sound(r), MayFollow(mem[j], r),
         mem[j].alloc => r.alloc, saving = None, Change(j, r), UNCHANGED rec
  PROVE  /\ ObjectsSound' /\ SavingSound'
         /\ mem' \in [Jobs -> Records \union {None}] /\ saving' \in Unsaved
         /\ mem'[j] = r /\ \A k \in Jobs : k # j => mem'[k] = mem[k]
<1>1. j \in Jobs /\ mem[j] # None /\ mem[j] \in Records
  BY DEF Loaded, IInv, ManagerTypeOK
<1>2. /\ mem' \in [Jobs -> Records \union {None}]
      /\ mem'[j] = r /\ \A k \in Jobs : k # j => mem'[k] = mem[k]
  BY <1>1 DEF Change, IInv, ManagerTypeOK
<1>3. rec[j] # None /\ MayFollow(rec[j], mem[j])
  BY <1>1 DEF IInv, ObjectsSound
<1>4. MayFollow(rec[j], r)
  BY <1>1, <1>3, RecordFacts DEF MayFollow
<1>5. saving' = [job |-> j, rec |-> r]
  BY DEF Change
<1>6. ASSUME NEW k \in Jobs, mem'[k] # None
      PROVE  /\ rec'[k] # None /\ Sound(mem'[k]) /\ MayFollow(rec'[k], mem'[k])
             /\ saving' = None \/ saving'.job # k => mem'[k].status = rec'[k].status
  <2>1. CASE k = j
    BY <1>2, <1>3, <1>4, <1>5, <2>1, NoneAssumption DEF Unsaved
  <2>2. CASE k # j
    BY <1>2, <1>6, <2>2 DEF IInv, ObjectsSound
  <2> QED BY <2>1, <2>2
<1>7. SavingSound' /\ saving' \in Unsaved
  BY <1>1, <1>2, <1>3, <1>4, <1>5, FollowFacts DEF SavingSound, Unsaved
<1> QED BY <1>2, <1>6, <1>7 DEF ObjectsSound

\* What the object of a job is known to be.
LEMMA LoadedFacts ==
  ASSUME IInv, NEW j \in Loaded
  PROVE  /\ j \in Jobs /\ mem[j] \in Records /\ Sound(mem[j]) /\ rec[j] # None
         /\ \A s \in Steps : mem[j].status.step = s /\ s \notin CompletingSteps
                                 => IsActive(mem[j].status)
<1>1. j \in Jobs /\ mem[j] # None /\ mem[j] \in Records /\ Sound(mem[j]) /\ rec[j] # None
  BY DEF Loaded, IInv, ManagerTypeOK, ObjectsSound
<1> QED BY <1>1 DEF Sound, IsActive, ActivePhases

\* A change of the step of a job outside the queues.
LEMMA ChangeStepInv ==
  ASSUME IInv, NEW j \in Loaded, NEW s \in Steps, pc \notin Queues, pc \notin {"idle", "release"},
         IsActive(mem[j].status), mem[j].status.phase # "INIT",
         s \in ExecSteps => mem[j].alloc, saving = None,
         Change(j, StepTo(mem[j], s)), services' \in [Jobs -> 0 .. Workers],
         UNCHANGED <<stored, free, reports, pc, todo, skipped, bump, history>>
  PROVE  IInv'
<1>1. j \in Jobs /\ mem[j] \in Records /\ Sound(mem[j])
  BY LoadedFacts
<1> DEFINE r == StepTo(mem[j], s)
<1>2. r \in Records /\ Sound(r) /\ MayFollow(mem[j], r) /\ r.alloc = mem[j].alloc
  BY <1>1, StepToFacts, SoundStep, FollowStep
<1> HIDE DEF r
<1>3. /\ ObjectsSound' /\ SavingSound'
      /\ mem' \in [Jobs -> Records \union {None}] /\ saving' \in Unsaved
      /\ mem'[j] = r /\ \A k \in Jobs : k # j => mem'[k] = mem[k]
  BY <1>2, ChangeSound DEF r, stored
<1>4. ManagerTypeOK'
  BY <1>3 DEF IInv, ManagerTypeOK, stored, history
<1>5. Loaded' = Loaded
  BY <1>2, <1>3, RecordFacts DEF Loaded
<1>6. QueuesSound'
  BY <1>5 DEF IInv, QueuesSound
<1>7. ActiveSetExact' /\ RecordsSound' /\ ReportsSound' /\ IdleIsEmpty'
  BY DEF IInv, ActiveSetExact, RecordsSound, ReportsSound, IdleIsEmpty, stored
<1> QED BY <1>3, <1>4, <1>6, <1>7 DEF IInv

LEMMA StopJobInv == ASSUME IInv, NEW j \in Jobs, StopJob(j) PROVE IInv'
<1>1. /\ j \in Loaded /\ mem[j].status.step = "STOPPING" /\ At("stop")
      /\ UNCHANGED <<stored, free, reports, pc, todo, skipped, bump, history>>
  BY DEF StopJob, AtStep
<1>2. mem[j].alloc /\ mem[j].status.phase # "INIT"
  BY <1>1, LoadedFacts DEF Sound, ExecSteps
<1>3. IsActive(mem[j].status)
  BY <1>1, LoadedFacts DEF Steps, CompletingSteps, ErrorSteps
<1>4. PICK s \in {"STOPPED", "FAILED"} : Change(j, StepTo(mem[j], s))
  BY DEF StopJob
<1>5. services' \in [Jobs -> 0 .. Workers]
  BY ManagerAssumption DEF StopJob, IInv, ManagerTypeOK
<1>6. s \in Steps
  BY DEF Steps
<1> QED BY <1>1, <1>2, <1>3, <1>4, <1>5, <1>6, ChangeStepInv DEF Queues, At

LEMMA StartJobInv == ASSUME IInv, NEW j \in Jobs, StartJob(j) PROVE IInv'
<1>1. /\ j \in Loaded /\ mem[j].status.step = "AWAITING_SCHEDULING" /\ At("schedule")
      /\ UNCHANGED <<stored, free, reports, pc, todo, skipped, bump, history>>
  BY DEF StartJob, AtStep
<1>2. mem[j].alloc /\ mem[j].status.phase # "INIT"
  BY <1>1, LoadedFacts DEF Sound, ExecSteps
<1>3. IsActive(mem[j].status)
  BY <1>1, LoadedFacts DEF Steps, CompletingSteps, ErrorSteps
<1>4. PICK s \in {"SCHEDULED", "FAILED"} : Change(j, StepTo(mem[j], s))
  BY DEF StartJob
<1>5. services' \in [Jobs -> 0 .. Workers]
  BY ManagerAssumption DEF StartJob, IInv, ManagerTypeOK
<1>6. s \in Steps
  BY DEF Steps
<1> QED BY <1>1, <1>2, <1>3, <1>4, <1>5, <1>6, ChangeStepInv DEF Queues, At

\* Steps of the loop that change none of the records and job objects.
LEMMA PlainInv ==
  ASSUME IInv, pc' \in PCs \ {"idle", "schedule"}, todo' \subseteq Loaded, pc' \notin Queues,
         skipped' = {}, bump' = {},
         pc' = "release" => \A j \in todo' : ShouldReleaseResources(mem[j].status),
         UNCHANGED <<stored, free, services, reports, mem, saving, history>>
  PROVE  IInv'
<1>1. ManagerTypeOK'
  BY DEF IInv, ManagerTypeOK, stored, history, Loaded
<1>2. QueuesSound' /\ IdleIsEmpty'
  BY DEF QueuesSound, IdleIsEmpty, Loaded
<1>3. ActiveSetExact' /\ RecordsSound' /\ ObjectsSound' /\ SavingSound' /\ ReportsSound'
  BY DEF IInv, ActiveSetExact, RecordsSound, ObjectsSound, SavingSound, ReportsSound, stored
<1> QED BY <1>1, <1>2, <1>3 DEF IInv

LEMMA StopDoneInv == ASSUME IInv, StopDone PROVE IInv'
  BY PlainInv DEF StopDone, At, IInv, QueuesSound, Queues, PCs, iteration

LEMMA OrganizeDoneInv == ASSUME IInv, OrganizeDone PROVE IInv'
  BY PlainInv DEF OrganizeDone, At, IInv, QueuesSound, Queues, PCs

LEMMA PruneInv == ASSUME IInv, Prune PROVE IInv'
<1>1. PICK stay \in SUBSET Completing :
         LET gone == Completing \ stay
         IN  /\ Cardinality(stay) <= Cardinality(gone)
             /\ rec' = [j \in Jobs |-> IF j \in gone THEN mem[j] ELSE rec[j]]
             /\ active' = active \ gone
             /\ mem' = [j \in Jobs |-> IF j \in gone THEN None ELSE mem[j]]
             /\ todo' = Loaded \ gone
  BY DEF Prune
<1> DEFINE gone == Completing \ stay
<1>2. /\ pc = "prune" /\ saving = None /\ pc' = "organize"
      /\ UNCHANGED <<free, services, reports, skipped, bump, saving, history>>
  BY DEF Prune, At
<1>3. \A j \in gone : /\ j \in Jobs /\ mem[j] # None /\ mem[j] \in Records
                      /\ Sound(mem[j]) /\ ~IsActive(mem[j].status)
  BY DEF Completing, Loaded, IInv, ManagerTypeOK, ObjectsSound, IsActive
<1>4. /\ \A j \in gone : rec'[j] = mem[j] /\ mem'[j] = None
      /\ \A j \in Jobs \ gone : rec'[j] = rec[j] /\ mem'[j] = mem[j]
      /\ active' = active \ gone /\ todo' = Loaded \ gone
  BY <1>1, <1>3
<1>5. /\ rec' \in [Jobs -> Records \union {None}] /\ mem' \in [Jobs -> Records \union {None}]
  BY <1>1, <1>3 DEF IInv, ManagerTypeOK
<1> HIDE DEF gone
<1>6. ManagerTypeOK'
  BY <1>2, <1>4, <1>5 DEF IInv, ManagerTypeOK, history, PCs, Loaded
<1>7. ActiveSetExact' /\ RecordsSound'
  BY <1>3, <1>4 DEF IInv, ManagerTypeOK, ActiveSetExact, RecordsSound
<1>8. ReportsSound'
  BY <1>2, <1>3, <1>4 DEF IInv, ManagerTypeOK, ReportsSound
<1>9. ObjectsSound' /\ SavingSound' /\ IdleIsEmpty'
  BY <1>2, <1>3, <1>4 DEF IInv, ObjectsSound, SavingSound, IdleIsEmpty
<1>10. QueuesSound'
  BY <1>2, <1>3, <1>4 DEF IInv, QueuesSound, Queues, Loaded
<1> QED BY <1>6, <1>7, <1>8, <1>9, <1>10 DEF IInv

\* Organizing keeps the CPUs of a job, and whether it is active.
LEMMA OrganizedFacts ==
  ASSUME NEW r \in Records, Sound(r)
  PROVE  /\ Organized(r) \in Records /\ Sound(Organized(r))
         /\ Organized(r).alloc = r.alloc
         /\ IsActive(Organized(r).status) <=> IsActive(r.status)
<1> DEFINE Same(a, b) == /\ b \in Records /\ Sound(b) /\ b.alloc = a.alloc
                         /\ IsActive(b.status) <=> IsActive(a.status)
<1>1. Same(r, Entered(r))
  <2>1. CASE r.status.phase = "INIT"
    <3>1. /\ Entered(r) \in Records /\ Entered(r).alloc = r.alloc
          /\ Entered(r).status = [phase |-> "MODEL_EXEC", step |-> "AWAITING_DATA_CHECK"]
      BY <2>1 DEF Entered, Records, Statuses, StatusOfPhase, DefaultStartStep, Phases, Steps
    <3>2. Sound(Entered(r))
      BY <3>1 DEF Sound, ExecSteps
    <3>3. IsActive(Entered(r).status) /\ IsActive(r.status)
      BY <2>1, <3>1 DEF IsActive, ActivePhases, CompletingSteps, ErrorSteps, Sound
    <3> QED BY <3>1, <3>2, <3>3
  <2>2. CASE r.status.phase # "INIT"
    BY <2>2 DEF Entered
  <2> QED BY <2>1, <2>2
<1>2. ASSUME NEW a \in Records, Sound(a), NEW s \in Steps, a.status.step # "DEFAULT",
             a.status.step \notin CompletingSteps, s \notin CompletingSteps,
             s \in ExecSteps => a.alloc
      PROVE  Same(a, StepTo(a, s))
  BY <1>2, SoundStep, StepToFacts DEF IsActive, Sound
<1> DEFINE b == Entered(r)
           c == Requeued(b)
<1>3. Same(b, c)
  <2>1. CASE b.status.step = "STOPPED"
    BY <1>1, <1>2, <2>1 DEF Requeued, Steps, CompletingSteps, ErrorSteps, ExecSteps
  <2>2. CASE b.status.step # "STOPPED"
    BY <1>1, <2>2 DEF Requeued
  <2> QED BY <2>1, <2>2
<1>4. Same(c, Passed(c))
  <2>1. CASE c.status.step = "AWAITING_ALLOCATION" /\ c.alloc
    BY <1>2, <1>3, <2>1 DEF Passed, Steps, CompletingSteps, ErrorSteps
  <2>2. CASE ~(c.status.step = "AWAITING_ALLOCATION" /\ c.alloc)
    BY <1>3, <2>2 DEF Passed
  <2> QED BY <2>1, <2>2
<1> QED BY <1>1, <1>3, <1>4 DEF Organized

LEMMA OrganizeInv == ASSUME IInv, NEW j \in Jobs, Organize(j) PROVE IInv'
<1> DEFINE r == Organized(mem[j])
<1>1. /\ pc = "organize" /\ saving = None /\ j \in Loaded /\ todo' = todo \ {j}
      /\ UNCHANGED <<free, services, reports, pc, skipped, bump, saving, history>>
  BY DEF Organize, At, IInv, QueuesSound
<1>2. skipped' = {} /\ bump' = {} /\ todo' \subseteq Loaded
  BY <1>1 DEF IInv, QueuesSound, Queues
<1>3. /\ mem[j] \in Records /\ Sound(mem[j]) /\ rec[j] # None /\ mem[j] # None
      /\ MayFollow(rec[j], mem[j])
  BY <1>1, LoadedFacts DEF IInv, ObjectsSound, Loaded
<1>4. /\ r \in Records /\ Sound(r) /\ MayFollow(rec[j], r)
  BY <1>3, OrganizedFacts DEF MayFollow
<1>5. CASE r = mem[j]
  BY <1>1, <1>2, <1>5, PlainInv DEF Organize, PCs, Queues
<1>6. CASE SaveJob(j, r) /\ mem' = [mem EXCEPT ![j] = r]
  <2> HIDE DEF r
  <2>1. /\ rec' \in [Jobs -> Records \union {None}] /\ active' \subseteq Jobs
        /\ rec'[j] = r /\ \A k \in Jobs : k # j => rec'[k] = rec[k]
        /\ ActiveSetExact'
    BY <1>4, <1>6, SaveJobFacts DEF IInv
  <2>2. /\ mem' \in [Jobs -> Records \union {None}]
        /\ mem'[j] = r /\ \A k \in Jobs : k # j => mem'[k] = mem[k]
    BY <1>4, <1>6 DEF IInv, ManagerTypeOK
  <2>3. ManagerTypeOK'
    BY <1>1, <2>1, <2>2 DEF IInv, ManagerTypeOK, history
  <2>4. RecordsSound' /\ ReportsSound'
    BY <1>1, <1>4, <1>6, StoredSound
  <2>5. ObjectsSound'
    BY <1>1, <1>4, <2>1, <2>2, FollowFacts, RecordFacts DEF IInv, ObjectsSound
  <2>6. Loaded' = Loaded
    BY <1>3, <1>4, <2>2, RecordFacts DEF Loaded
  <2>7. QueuesSound' /\ SavingSound' /\ IdleIsEmpty'
    BY <1>1, <1>2, <2>6 DEF QueuesSound, Queues, SavingSound, IdleIsEmpty
  <2> QED BY <2>1, <2>3, <2>4, <2>5, <2>7 DEF IInv
<1> QED BY <1>1, <1>5, <1>6 DEF Organize

LEMMA ReleaseCompletedInv == ASSUME IInv, NEW j \in Jobs, ReleaseCompleted(j) PROVE IInv'
<1>1. pc = "release" /\ saving = None /\ j \in todo /\ j \in Loaded
  BY DEF ReleaseCompleted, At, IInv, QueuesSound
<1>2. CASE Unreadable /\ rec[j].alloc
  BY <1>2, RaiseInv DEF ReleaseCompleted, IInv, ManagerTypeOK
<1>3. CASE ~(Unreadable /\ rec[j].alloc)
  <2>1. /\ ReleaseJob(j) /\ todo' = todo \ {j}
        /\ UNCHANGED <<stored, services, reports, pc, mem, skipped, bump, history>>
    BY <1>3 DEF ReleaseCompleted
  <2>2. rec[j] # None /\ ShouldReleaseResources(rec[j].status)
    BY <1>1 DEF IInv, ObjectsSound, QueuesSound, Loaded
  <2>3. ObjectsSound' /\ SavingSound' /\ saving' \in Unsaved /\ free' \in Int
    BY <1>1, <2>1, <2>2, ReleaseSaving
  <2>4. ManagerTypeOK'
    BY <2>1, <2>3 DEF IInv, ManagerTypeOK, stored, history
  <2>5. QueuesSound' /\ IdleIsEmpty'
    BY <1>1, <2>1 DEF IInv, QueuesSound, IdleIsEmpty, Queues, Loaded, Eligible, AtStep
  <2>6. ActiveSetExact' /\ RecordsSound' /\ ReportsSound'
    BY <2>1 DEF IInv, ActiveSetExact, RecordsSound, ReportsSound, stored
  <2> QED BY <2>3, <2>4, <2>5, <2>6 DEF IInv
<1> QED BY <1>2, <1>3
-----------------------------------------------------------------------------
\* A change of priority changes nothing else that the invariant looks at.
LEMMA PriorityFacts ==
  ASSUME NEW r \in Records, NEW d \in Nat
  PROVE  LET q == [r EXCEPT !.priority = Capped(@ + d)]
         IN  q \in Records /\ q.status = r.status /\ q.alloc = r.alloc
<1>1. r.priority \in 0 .. MaxPriority
  BY DEF Records
<1>2. Capped(r.priority + d) \in 0 .. MaxPriority
  BY <1>1, ManagerAssumption DEF Capped
<1> QED BY <1>2 DEF Records

\* Nor does it change which jobs are loaded, and which wait for CPUs.
LEMMA ReprioritizedFacts ==
  ASSUME IInv, NEW moved \in SUBSET Loaded, NEW d \in Nat,
         mem' = [j \in Jobs |-> IF j \in moved
                   THEN [mem[j] EXCEPT !.priority = Capped(@ + d)] ELSE mem[j]]
  PROVE  /\ mem' \in [Jobs -> Records \union {None}]
         /\ \A j \in Jobs : mem'[j] # None <=> mem[j] # None
         /\ \A j \in Loaded : mem'[j].status = mem[j].status /\ mem'[j].alloc = mem[j].alloc
         /\ Loaded' = Loaded /\ Eligible' = Eligible
<1>1. \A j \in Loaded : j \in Jobs /\ mem[j] \in Records /\ mem[j] # None
  BY DEF IInv, ManagerTypeOK, Loaded
<1>2. \A j \in moved : /\ mem'[j] \in Records /\ mem'[j] # None
                       /\ mem'[j].status = mem[j].status /\ mem'[j].alloc = mem[j].alloc
  BY <1>1, PriorityFacts, RecordFacts
<1>3. \A j \in Jobs \ moved : mem'[j] = mem[j]
  OBVIOUS
<1>4. mem' \in [Jobs -> Records \union {None}]
  <2>1. \A j \in Jobs : mem'[j] \in Records \union {None}
    BY <1>2, <1>3 DEF IInv, ManagerTypeOK
  <2> QED BY <2>1
<1>5. \A j \in Jobs : mem'[j] # None <=> mem[j] # None
  BY <1>1, <1>2, <1>3
<1>6. \A j \in Loaded : mem'[j].status = mem[j].status /\ mem'[j].alloc = mem[j].alloc
  BY <1>1, <1>2, <1>3
<1>7. Loaded' = Loaded
  BY <1>5 DEF Loaded
<1>8. Eligible' = Eligible
  BY <1>6, <1>7 DEF Eligible, AtStep
<1> QED BY <1>4, <1>5, <1>6, <1>7, <1>8

LEMMA BuildQueuesInv == ASSUME IInv, BuildQueues PROVE IInv'
<1>1. /\ pc = "release" /\ saving = None /\ pc' = "high"
      /\ UNCHANGED <<stored, free, services, reports, skipped, bump, saving, history>>
  BY DEF BuildQueues, At
<1>2. PICK aged \in SUBSET Eligible :
         /\ mem' = [j \in Jobs |-> IF j \in aged
                     THEN [mem[j] EXCEPT !.priority = Capped(@ + AgeBoost)] ELSE mem[j]]
         /\ todo' \subseteq Eligible
  BY DEF BuildQueues, Queue
<1>3. aged \in SUBSET Loaded
  BY <1>2 DEF Eligible, AtStep
<1>4. /\ mem' \in [Jobs -> Records \union {None}]
      /\ \A j \in Jobs : mem'[j] # None <=> mem[j] # None
      /\ \A j \in Loaded : mem'[j].status = mem[j].status /\ mem'[j].alloc = mem[j].alloc
      /\ Loaded' = Loaded /\ Eligible' = Eligible
  BY <1>2, <1>3, ReprioritizedFacts, ManagerAssumption
<1>5. Eligible \subseteq Loaded /\ Loaded \subseteq Jobs
  BY DEF Eligible, AtStep, Loaded
<1>6. ManagerTypeOK'
  BY <1>1, <1>2, <1>4, <1>5 DEF IInv, ManagerTypeOK, stored, history, PCs
<1>7. ObjectsSound'
  BY <1>1, <1>4 DEF IInv, ObjectsSound, Loaded, Sound, MayFollow, stored
<1>8. QueuesSound'
  BY <1>1, <1>2, <1>4, <1>5 DEF IInv, QueuesSound, Queues
<1>9. ActiveSetExact' /\ RecordsSound' /\ ReportsSound' /\ SavingSound' /\ IdleIsEmpty'
  BY <1>1 DEF IInv, ActiveSetExact, RecordsSound, ReportsSound, SavingSound, IdleIsEmpty,
              stored
<1> QED BY <1>6, <1>7, <1>8, <1>9 DEF IInv

LEMMA AllocateInv == ASSUME IInv, NEW j \in Jobs, Allocate(j) PROVE IInv'
<1>1. /\ pc \in Queues /\ saving = None /\ j \in todo /\ j \in Eligible
      /\ UNCHANGED <<stored, services, reports, pc, history>> /\ todo' = todo \ {j}
  BY DEF Allocate, IInv, QueuesSound, Queues
<1>2. j \in Loaded /\ mem[j].status.step = "AWAITING_ALLOCATION" /\ ~mem[j].alloc
  BY <1>1 DEF Eligible, AtStep
<1> DEFINE r == [StepTo(mem[j], "AWAITING_DATA") EXCEPT !.alloc = TRUE]
<1>3. CASE /\ Change(j, r) /\ free' = free - Cpus[j] /\ bump' = skipped
           /\ UNCHANGED skipped
  <2>1. mem[j] \in Records /\ mem[j].status.phase # "INIT" /\ IsActive(mem[j].status)
    BY <1>2, LoadedFacts DEF Sound, Steps, CompletingSteps, ErrorSteps
  <2>2. "AWAITING_DATA" \in Steps
    BY DEF Steps
  <2>3. /\ r \in Records /\ r.alloc /\ r.status.step = "AWAITING_DATA"
        /\ r.status.phase = mem[j].status.phase
    BY <2>1, <2>2, StepToFacts DEF Records
  <2>4. Sound(r) /\ MayFollow(mem[j], r)
    BY <1>2, <2>1, <2>3, LoadedFacts DEF Sound, MayFollow
  <2> HIDE DEF r
  <2>5. /\ ObjectsSound' /\ SavingSound'
        /\ mem' \in [Jobs -> Records \union {None}] /\ saving' \in Unsaved
        /\ mem'[j] = r /\ \A k \in Jobs : k # j => mem'[k] = mem[k]
    BY <1>1, <1>2, <1>3, <2>3, <2>4, ChangeSound DEF stored
  <2>6. free' \in Int
    BY <1>3, ManagerAssumption DEF IInv, ManagerTypeOK
  <2>7. ManagerTypeOK'
    BY <1>1, <1>3, <2>5, <2>6 DEF IInv, ManagerTypeOK, stored, history
  <2>8. /\ \A k \in Eligible : k # j => k \in Eligible'
        /\ Loaded' = Loaded
    BY <1>2, <2>3, <2>5, RecordFacts DEF Eligible, AtStep, Loaded
  <2>9. QueuesSound' /\ IdleIsEmpty'
    BY <1>1, <1>3, <2>8 DEF IInv, QueuesSound, Queues, IdleIsEmpty
  <2>10. ActiveSetExact' /\ RecordsSound' /\ ReportsSound'
    BY <1>1 DEF IInv, ActiveSetExact, RecordsSound, ReportsSound, stored
  <2> QED BY <2>5, <2>7, <2>9, <2>10 DEF IInv
<1>4. CASE /\ skipped' = skipped \union {j} /\ UNCHANGED <<free, mem, bump, saving>>
  <2>1. ManagerTypeOK'
    BY <1>1, <1>4 DEF IInv, ManagerTypeOK, stored, history
  <2>2. QueuesSound' /\ IdleIsEmpty'
    BY <1>1, <1>4 DEF IInv, QueuesSound, Queues, IdleIsEmpty, Loaded, Eligible, AtStep
  <2>3. ActiveSetExact' /\ RecordsSound' /\ ObjectsSound' /\ SavingSound' /\ ReportsSound'
    BY <1>1, <1>4 DEF IInv, ActiveSetExact, RecordsSound, ObjectsSound, SavingSound,
                      ReportsSound, stored
  <2> QED BY <2>1, <2>2, <2>3 DEF IInv
<1> QED BY <1>3, <1>4 DEF Allocate

LEMMA AllocateFailsInv == ASSUME IInv, NEW j \in Jobs, AllocateFails(j) PROVE IInv'
<1>1. free' \in Int /\ drift' \in Int /\ Raise
  BY ManagerAssumption DEF AllocateFails, IInv, ManagerTypeOK
<1> QED BY <1>1, RaiseInv

LEMMA QueueDoneInv == ASSUME IInv, QueueDone PROVE IInv'
<1>1. /\ pc \in Queues /\ saving = None /\ pc' = NextQueue
      /\ mem' = [j \in Jobs |-> IF j \in bump
                   THEN [mem[j] EXCEPT !.priority = Capped(@ + 1)] ELSE mem[j]]
      /\ rec' = [j \in Jobs |-> IF j \in bump THEN mem'[j] ELSE rec[j]]
      /\ active' = active \union bump
      /\ todo' = IF NextQueue = "schedule" THEN {} ELSE Queue(mem', NextQueue)
      /\ skipped' = {} /\ bump' = {}
      /\ UNCHANGED <<free, services, reports, saving, history>>
  BY DEF QueueDone, Queues
<1>2. bump \subseteq Eligible /\ Eligible \subseteq Loaded /\ Loaded \subseteq Jobs
  BY DEF IInv, QueuesSound, Eligible, AtStep, Loaded
<1>3. /\ mem' \in [Jobs -> Records \union {None}]
      /\ \A j \in Jobs : mem'[j] # None <=> mem[j] # None
      /\ \A j \in Loaded : mem'[j].status = mem[j].status /\ mem'[j].alloc = mem[j].alloc
      /\ Loaded' = Loaded /\ Eligible' = Eligible
  BY <1>1, <1>2, ReprioritizedFacts
<1>4. \A j \in bump : /\ rec[j] # None /\ Sound(mem[j]) /\ mem'[j] \in Records
                      /\ mem'[j] # None /\ ~mem[j].alloc /\ IsActive(mem[j].status)
                      /\ MayFollow(rec[j], mem[j])
  <2>1. "AWAITING_ALLOCATION" \in Steps \ CompletingSteps
    BY DEF Steps, CompletingSteps, ErrorSteps
  <2> QED BY <1>2, <1>3, <2>1, LoadedFacts DEF Eligible, AtStep, Loaded, IInv, ObjectsSound
<1>5. /\ \A j \in bump : rec'[j] = mem'[j]
      /\ \A j \in Jobs \ bump : rec'[j] = rec[j] /\ mem'[j] = mem[j]
  BY <1>1, <1>2
<1>6. rec' \in [Jobs -> Records \union {None}]
  BY <1>1, <1>3 DEF IInv, ManagerTypeOK
<1>7. pc' \in PCs \ {"idle", "release"}
  BY <1>1 DEF NextQueue, Queues, PCs
<1>8. todo' \subseteq Eligible /\ (pc' \notin Queues => todo' = {})
  BY <1>1 DEF Queue, NextQueue, Queues
<1>9. ManagerTypeOK'
  BY <1>1, <1>2, <1>3, <1>6, <1>7, <1>8 DEF IInv, ManagerTypeOK, history
<1>10. ActiveSetExact'
  BY <1>1, <1>2, <1>3, <1>4, <1>5 DEF IInv, ActiveSetExact
<1>11. RecordsSound'
  BY <1>2, <1>3, <1>4, <1>5 DEF IInv, RecordsSound, Sound
<1>12. ObjectsSound'
  BY <1>1, <1>2, <1>3, <1>4, <1>5, FollowFacts DEF IInv, ObjectsSound, Sound
<1>13. ReportsSound'
  BY <1>1, <1>4, <1>5 DEF IInv, ManagerTypeOK, ReportsSound, MayFollow
<1>14. QueuesSound' /\ SavingSound' /\ IdleIsEmpty'
  BY <1>1, <1>2, <1>3, <1>7, <1>8 DEF QueuesSound, Queues, SavingSound, IdleIsEmpty, PCs
<1> QED BY <1>9, <1>10, <1>11, <1>12, <1>13, <1>14 DEF IInv

LEMMA UnlockInv == ASSUME IInv, Unlock PROVE IInv'
<1>1. /\ saving = None /\ pc' = "idle" /\ mem' = NoJobs /\ todo = {} /\ skipped = {}
      /\ UNCHANGED <<stored, free, services, reports, todo, skipped, bump, saving, history>>
  BY DEF Unlock, At, IInv, QueuesSound, Queues
<1>2. ManagerTypeOK'
  BY <1>1 DEF IInv, ManagerTypeOK, stored, history, NoJobs, PCs
<1>3. QueuesSound' /\ ObjectsSound' /\ SavingSound' /\ IdleIsEmpty'
  BY <1>1 DEF IInv, QueuesSound, Queues, ObjectsSound, NoJobs, SavingSound, IdleIsEmpty
<1>4. ActiveSetExact' /\ RecordsSound' /\ ReportsSound'
  BY <1>1 DEF IInv, ActiveSetExact, RecordsSound, ReportsSound, stored
<1> QED BY <1>2, <1>3, <1>4 DEF IInv
-----------------------------------------------------------------------------
LEMMA InitInv == Init => IInv
<1> SUFFICES ASSUME Init PROVE IInv
  OBVIOUS
<1>1. ManagerTypeOK
  <2>1. 0 \in 0 .. Workers /\ 0 \in 0 .. MaxCrashes /\ free \in Int /\ drift \in Int
    BY ManagerAssumption DEF Init
  <2>2. rec \in [Jobs -> Records \union {None}] /\ mem \in [Jobs -> Records \union {None}]
    BY DEF Init, NoJobs
  <2>3. services \in [Jobs -> 0 .. Workers]
    BY <2>1 DEF Init
  <2> QED BY <2>1, <2>2, <2>3 DEF Init, ManagerTypeOK, PCs
<1>2. ActiveSetExact /\ RecordsSound /\ ObjectsSound /\ SavingSound /\ IdleIsEmpty
  BY DEF Init, ActiveSetExact, RecordsSound, ObjectsSound, SavingSound, IdleIsEmpty, NoJobs
<1>3. QueuesSound /\ ReportsSound
  BY DEF Init, QueuesSound, ReportsSound, Queues
<1> QED BY <1>1, <1>2, <1>3 DEF IInv

LEMMA StutterInv == IInv /\ UNCHANGED vars => IInv'
<1> SUFFICES ASSUME IInv, UNCHANGED vars PROVE IInv'
  OBVIOUS
<1>1. ManagerTypeOK' /\ ActiveSetExact' /\ RecordsSound'
  BY DEF IInv, ManagerTypeOK, ActiveSetExact, RecordsSound, vars, stored, iteration, history
<1>2. ObjectsSound' /\ SavingSound' /\ ReportsSound' /\ IdleIsEmpty'
  BY DEF IInv, ObjectsSound, SavingSound, ReportsSound, IdleIsEmpty, vars, stored, iteration
<1>3. QueuesSound'
  BY QueuesKept DEF IInv, vars
<1> QED BY <1>1, <1>2, <1>3 DEF IInv

-----------------------------------------------------------------------------
\* No late update message can reach a job that another service has loaded.
Steady(j) == PromptReports \/ ~snap[j].alloc

\* What another service has loaded: jobs that wait for it, which handlers may
\* have changed since only if they have CPUs and an update message was late.
SnapshotsSound ==
    \A j \in Jobs : snap[j] # None =>
        /\ pc = "idle"
        /\ Sound(snap[j]) /\ snap[j].status.step \in DOMAIN MovesOn
        /\ rec[j] # None
        /\ Steady(j) => /\ rec[j] = snap[j]
                        /\ saving = None \/ saving.job # j

PromptIsPrompt == PromptReports => reports = {}

Inv == TypeOK /\ IInv /\ SnapshotsSound /\ PromptIsPrompt

\* A step at which a job waits for another service is one of an active job,
\* and the steps that follow need no CPUs unless it does.
LEMMA WaitingFacts ==
  ASSUME NEW r \in Records, Sound(r), r.status.step \in DOMAIN MovesOn
  PROVE  /\ IsActive(r.status) /\ r.status.phase # "INIT"
         /\ ~ShouldReleaseResources(r.status)
         /\ r.status.step \notin {"SCHEDULED", "RUNNING", "STOPPED"}
         /\ \A s \in MovesOn[r.status.step] :
              s \in Steps /\ (s \in ExecSteps => r.alloc)
<1>1. r.status.step \in {"AWAITING_DATA_CHECK", "AWAITING_PARTITIONING", "AWAITING_DATA"}
  BY DEF MovesOn
<1>2. r.status.phase = "MODEL_EXEC"
  BY <1>1 DEF Sound
<1>3. IsActive(r.status) /\ ~ShouldReleaseResources(r.status)
  BY <1>1, <1>2 DEF IsActive, ActivePhases, CompletingSteps, ErrorSteps,
                    ShouldReleaseResources
<1>4. ASSUME NEW s \in MovesOn[r.status.step]
      PROVE  s \in Steps /\ (s \in ExecSteps => r.alloc)
  <2>1. CASE r.status.step = "AWAITING_DATA"
    BY <1>4, <2>1 DEF MovesOn, Steps, Sound, ExecSteps
  <2>2. CASE r.status.step \in {"AWAITING_DATA_CHECK", "AWAITING_PARTITIONING"}
    BY <1>4, <2>2 DEF MovesOn, Steps, ExecSteps
  <2> QED BY <1>1, <2>1, <2>2
<1> QED BY <1>1, <1>2, <1>3, <1>4

\* The step of another service that loads jobs, or forgets them.
LEMMA SnapshotInv ==
  ASSUME Inv,
         UNCHANGED <<stored, free, services, reports, pc, iteration, saving, history>>
  PROVE  IInv'
<1>1. ManagerTypeOK' /\ ActiveSetExact' /\ RecordsSound'
  BY DEF Inv, IInv, ManagerTypeOK, ActiveSetExact, RecordsSound, stored, iteration, history
<1>2. ObjectsSound' /\ SavingSound' /\ ReportsSound' /\ IdleIsEmpty'
  BY DEF Inv, IInv, ObjectsSound, SavingSound, ReportsSound, IdleIsEmpty, stored, iteration
<1>3. QueuesSound'
  BY QueuesKept DEF Inv, IInv
<1> QED BY <1>1, <1>2, <1>3 DEF IInv

LEMMA ServeInv ==
  ASSUME Inv, NEW step \in DOMAIN MovesOn, Serve(step)
  PROVE  Inv'
<1>1. /\ pc' = "idle" /\ saving' = None /\ rec' = rec
      /\ UNCHANGED <<stored, free, services, reports, pc, iteration, saving, history>>
  BY DEF Serve, At, stored
<1>2. snap' = [j \in Jobs |-> IF /\ j \in active /\ rec[j] # None
                                /\ rec[j].status.step = step
                             THEN rec[j] ELSE None]
  BY DEF Serve
<1>3. TypeOK'
  BY <1>1, <1>2, SnapshotInv DEF Inv, TypeOK, IInv, ManagerTypeOK
<1>4. SnapshotsSound' /\ PromptIsPrompt'
  BY <1>1, <1>2 DEF Inv, IInv, RecordsSound, SnapshotsSound, PromptIsPrompt
<1> QED BY <1>1, <1>3, <1>4, SnapshotInv DEF Inv

LEMMA ServiceEndsInv == ASSUME Inv, ServiceEnds PROVE Inv'
<1>1. /\ snap' = NoJobs
      /\ UNCHANGED <<stored, free, services, reports, pc, iteration, saving, history>>
  BY DEF ServiceEnds
<1>2. TypeOK'
  BY <1>1, SnapshotInv DEF Inv, TypeOK, IInv, NoJobs
<1>3. SnapshotsSound' /\ PromptIsPrompt'
  BY <1>1 DEF Inv, SnapshotsSound, NoJobs, PromptIsPrompt
<1> QED BY <1>1, <1>2, <1>3, SnapshotInv DEF Inv

\* Saving a stale copy of a job can revive one that is over, with CPUs that
\* somebody has released; but it has them, in the record.
LEMMA MoveOnInv == ASSUME Inv, NEW j \in Jobs, MoveOn(j) PROVE Inv'
<1>1. /\ pc = "idle" /\ saving = None /\ snap[j] # None
      /\ snap' = [snap EXCEPT ![j] = None]
      /\ UNCHANGED <<free, services, reports, pc, iteration, saving, raised, crashes>>
  BY DEF MoveOn, At
<1>2. /\ snap[j] \in Records /\ Sound(snap[j]) /\ rec[j] # None
      /\ snap[j].status.step \in DOMAIN MovesOn
      /\ ~snap[j].alloc => rec[j] = snap[j]
  BY <1>1 DEF Inv, TypeOK, SnapshotsSound, Steady
<1>3. PICK s \in MovesOn[snap[j].status.step] : SaveJob(j, StepTo(snap[j], s))
  BY DEF MoveOn
<1> DEFINE r == StepTo(snap[j], s)
<1>4. /\ r \in Records /\ Sound(r) /\ r # None /\ r.alloc = snap[j].alloc
  BY <1>2, <1>3, WaitingFacts, StepToFacts, SoundStep, RecordFacts
<1> HIDE DEF r
<1>5. /\ rec' \in [Jobs -> Records \union {None}] /\ active' \subseteq Jobs
      /\ rec'[j] = r /\ \A k \in Jobs : k # j => rec'[k] = rec[k]
      /\ ActiveSetExact'
  BY <1>3, <1>4, SaveJobFacts DEF Inv, IInv, r
<1>6. drift' \in Int
  <2>1. OverwrittenCpus(j) \in Int
    BY ManagerAssumption DEF OverwrittenCpus
  <2> QED BY <2>1 DEF MoveOn, Inv, IInv, ManagerTypeOK
<1>7. ManagerTypeOK'
  BY <1>1, <1>5, <1>6 DEF Inv, IInv, ManagerTypeOK, iteration
<1>8. RecordsSound'
  BY <1>4, <1>5 DEF Inv, IInv, RecordsSound
<1>9. ReportsSound'
  <2> SUFFICES ASSUME NEW m \in reports
               PROVE  /\ rec'[m.job] # None
                      /\ rec'[m.job].alloc \/ ~IsActive(rec'[m.job].status)
    BY <1>1 DEF ReportsSound
  <2>1. /\ m.job \in Jobs
        /\ rec[m.job] # None /\ (rec[m.job].alloc \/ ~IsActive(rec[m.job].status))
    BY DEF Inv, IInv, ReportsSound, ManagerTypeOK
  <2>2. CASE m.job = j
    BY <1>2, <1>4, <1>5, <2>1, <2>2, WaitingFacts
  <2>3. CASE m.job # j
    BY <1>5, <2>1, <2>3
  <2> QED BY <2>2, <2>3
<1>10. mem' = NoJobs /\ saving' = None /\ IdleIsEmpty'
  BY <1>1 DEF Inv, IInv, IdleIsEmpty, iteration
<1>11. ObjectsSound' /\ SavingSound'
  BY <1>10 DEF ObjectsSound, SavingSound, NoJobs
<1>12. QueuesSound'
  BY <1>1, QueuesKept DEF Inv, IInv
<1>13. TypeOK'
  BY <1>1, <1>7 DEF Inv, TypeOK
<1>14. SnapshotsSound'
  BY <1>1, <1>5 DEF Inv, TypeOK, SnapshotsSound, Steady
<1>15. PromptIsPrompt'
  BY <1>1 DEF Inv, PromptIsPrompt
<1> QED
  BY <1>5, <1>7, <1>8, <1>9, <1>10, <1>11, <1>12, <1>13, <1>14, <1>15 DEF Inv, IInv

\* Update messages that are prompt are never under way.
LEMMA PromptKept == ASSUME PromptIsPrompt, ManagerStep PROVE PromptIsPrompt'
<1>1. LoopStep => reports' = reports
  BY DEF LoopStep, Save, Iterate, Load, LoadFails, Raise, StopDone, Prune, OrganizeDone,
         BuildQueues, QueueDone, Unlock, StopJob, Organize, ReleaseCompleted, ReleaseJob,
         Allocate, AllocateFails, StartJob
<1>2. Crash => reports' = reports
  BY DEF Crash
<1>3. ASSUME NEW j \in Jobs, Request(j) PROVE reports' = reports \/ ~PromptReports
  BY <1>3 DEF Request, Create, RequestStop, RequestRestart, Handle, RequestRelease, Report,
              UpdateAtOnce
<1>4. ASSUME NEW m \in reports PROVE ~PromptReports
  BY <1>4 DEF PromptIsPrompt
<1> QED BY <1>1, <1>2, <1>3, <1>4 DEF ManagerStep, PromptIsPrompt

\* Between iterations a step of the scheduler keeps the record of every job
\* that another service has loaded, and as it is if no update is late for it.
LEMMA LoadedKept ==
  ASSUME Inv, ManagerStep, NEW j \in Jobs, snap[j] # None
  PROVE  /\ pc' = "idle" /\ rec'[j] # None
         /\ Steady(j) => /\ rec'[j] = rec[j]
                         /\ saving' = None \/ saving'.job # j
<1>1. /\ pc = "idle" /\ rec[j] # None /\ ~HasLock /\ snap[j] \in Records
      /\ Sound(snap[j]) /\ snap[j].status.step \in DOMAIN MovesOn
      /\ Steady(j) => rec[j] = snap[j] /\ (saving = None \/ saving.job # j)
      /\ rec \in [Jobs -> Records \union {None}]
  BY DEF Inv, TypeOK, IInv, ManagerTypeOK, SnapshotsSound, HasLock, NoJobs
<1>2. Steady(j) => /\ rec[j] = snap[j] /\ IsActive(rec[j].status)
                   /\ PromptReports \/ ~rec[j].alloc
                   /\ ~ShouldReleaseResources(rec[j].status)
                   /\ rec[j].status.step \notin {"SCHEDULED", "RUNNING", "STOPPED"}
  BY <1>1, WaitingFacts DEF Steady
<1>3. ASSUME NEW k \in Jobs, NEW r \in Records, SaveJob(k, r), k = j => ~Steady(j),
             UNCHANGED <<pc, saving>>
      PROVE  /\ pc' = "idle" /\ rec'[j] # None
             /\ Steady(j) => /\ rec'[j] = rec[j]
                             /\ saving' = None \/ saving'.job # j
  BY <1>1, <1>3, NoneAssumption DEF SaveJob
<1>4. CASE Save
  <2>1. /\ saving # None /\ SaveJob(saving.job, saving.rec) /\ saving' = None
        /\ UNCHANGED pc
    BY <1>4 DEF Save
  <2>2. saving.job \in Jobs /\ saving.rec \in Records
    BY <2>1 DEF Inv, IInv, ManagerTypeOK, Unsaved
  <2> QED BY <1>1, <2>1, <2>2, NoneAssumption DEF SaveJob
<1>5. CASE Crash
  BY <1>1, <1>5 DEF Crash, Restarted, stored
<1>6. ~Iterate
  BY <1>1 DEF Iterate, Load, LoadFails, StopDone, Prune, OrganizeDone, BuildQueues,
              QueueDone, Unlock, StopJob, Organize, ReleaseCompleted, Allocate,
              AllocateFails, StartJob, At
<1>7. ASSUME NEW k \in Jobs, NEW r \in Records, Handle(k, r), k = j => ~Steady(j)
      PROVE  /\ pc' = "idle" /\ rec'[j] # None
             /\ Steady(j) => /\ rec'[j] = rec[j]
                             /\ saving' = None \/ saving'.job # j
  BY <1>3, <1>7 DEF Handle
<1>8. ASSUME NEW k \in Jobs, Create(k)
      PROVE  k # j /\ \E r \in Records : Handle(k, r)
  <2>1. PICK p \in Priorities :
          Handle(k, [status |-> StatusOfPhase("INIT"), alloc |-> FALSE, priority |-> p])
    BY <1>8 DEF Create
  <2>2. [status |-> StatusOfPhase("INIT"), alloc |-> FALSE, priority |-> p] \in Records
    BY ManagerAssumption DEF Records, Statuses, StatusOfPhase, DefaultStartStep, Phases, Steps
  <2>3. k # j
    BY <1>1, <1>8 DEF Create
  <2> QED BY <2>1, <2>2, <2>3
<1>9. ASSUME NEW k \in Jobs, NEW s \in Steps, rec[k] # None, k = j => ~Steady(j),
             SaveJob(k, StepTo(rec[k], s)), UNCHANGED <<pc, saving>>
      PROVE  /\ pc' = "idle" /\ rec'[j] # None
             /\ Steady(j) => /\ rec'[j] = rec[j]
                             /\ saving' = None \/ saving'.job # j
  <2>1. StepTo(rec[k], s) \in Records
    BY <1>1, <1>9, StepToFacts
  <2> QED BY <1>3, <1>9, <2>1
<1>10. ASSUME NEW k \in Jobs, RequestStop(k) \/ RequestRestart(k)
       PROVE  /\ rec[k] # None /\ (k = j => ~Steady(j)) /\ UNCHANGED <<pc, saving>>
              /\ \E s \in Steps : SaveJob(k, StepTo(rec[k], s))
  BY <1>2, <1>10 DEF RequestStop, RequestRestart, Known, Handle, Steps
<1>11. ASSUME NEW k \in Jobs, RequestRelease(k)
       PROVE  /\ pc' = "idle" /\ rec'[j] # None
              /\ Steady(j) => /\ rec'[j] = rec[j]
                              /\ saving' = None \/ saving'.job # j
  <2>1. /\ ShouldReleaseResources(rec[k].status) /\ rec' = rec /\ pc' = pc
        /\ saving' = [job |-> k, rec |-> [rec[k] EXCEPT !.alloc = FALSE]]
    BY <1>11 DEF RequestRelease, ReleaseJob, stored
  <2> QED BY <1>1, <1>2, <2>1
<1>12. ASSUME NEW k \in Jobs, Report(k)
       PROVE  UNCHANGED <<rec, pc, saving>>
  BY <1>12 DEF Report, stored
<1>13. ASSUME NEW k \in Jobs, NEW s \in UpdateSteps, Update(k, s), rec[k] # None,
              UNCHANGED <<pc, saving>>, k = j => ~Steady(j)
       PROVE  /\ pc' = "idle" /\ rec'[j] # None
              /\ Steady(j) => /\ rec'[j] = rec[j]
                              /\ saving' = None \/ saving'.job # j
  BY <1>1, <1>9, <1>13, ManagerAssumption DEF Update, stored
<1>14. ASSUME NEW k \in Jobs, UpdateAtOnce(k)
       PROVE  /\ rec[k] # None /\ (k = j => ~Steady(j)) /\ UNCHANGED <<pc, saving>>
              /\ \E s \in UpdateSteps : Update(k, s)
  BY <1>2, <1>14 DEF UpdateAtOnce, Watched
<1>15. ASSUME NEW m \in reports, UpdateLate(m)
       PROVE  /\ m.job \in Jobs /\ m.step \in UpdateSteps /\ rec[m.job] # None
              /\ (m.job = j => ~Steady(j)) /\ UNCHANGED <<pc, saving>>
              /\ Update(m.job, m.step)
  <2>1. ~PromptReports
    BY <1>15 DEF Inv, PromptIsPrompt
  <2>2. /\ m.job \in Jobs /\ m.step \in UpdateSteps /\ rec[m.job] # None
        /\ rec[m.job].alloc \/ ~IsActive(rec[m.job].status)
    BY <1>15 DEF Inv, IInv, ReportsSound, ManagerTypeOK
  <2>3. m.job = j => ~Steady(j)
    BY <1>2, <2>1, <2>2
  <2>4. UNCHANGED <<pc, saving>> /\ Update(m.job, m.step)
    BY <1>15 DEF UpdateLate
  <2> QED BY <2>2, <2>3, <2>4
<1>16. ASSUME NEW k \in Jobs, Request(k)
       PROVE  /\ pc' = "idle" /\ rec'[j] # None
              /\ Steady(j) => /\ rec'[j] = rec[j]
                              /\ saving' = None \/ saving'.job # j
  <2>1. CASE Create(k)
    BY <1>7, <1>8, <2>1
  <2>2. CASE RequestStop(k) \/ RequestRestart(k)
    BY <1>9, <1>10, <2>2
  <2>3. CASE RequestRelease(k)
    BY <1>11, <2>3
  <2>4. CASE Report(k)
    BY <1>1, <1>12, <2>4
  <2>5. CASE UpdateAtOnce(k)
    BY <1>13, <1>14, <2>5
  <2> QED BY <1>16, <2>1, <2>2, <2>3, <2>4, <2>5 DEF Request
<1>17. ASSUME NEW m \in reports, UpdateLate(m)
       PROVE  /\ pc' = "idle" /\ rec'[j] # None
              /\ Steady(j) => /\ rec'[j] = rec[j]
                              /\ saving' = None \/ saving'.job # j
  BY <1>13, <1>15, <1>17
<1> QED BY <1>4, <1>5, <1>6, <1>16, <1>17 DEF ManagerStep, LoopStep

(***************************************************************************)
(* The inductive invariant holds in every state of the scheduler: after    *)
(* each step of the loop, each handler, and each death of the process.     *)
(***************************************************************************)
THEOREM JobManagerInvariant == Spec => []Inv
<1>1. IInv /\ LoopStep => IInv'
  BY SaveInv, LoadInv, LoadFailsInv, StopDoneInv, PruneInv, OrganizeDoneInv, BuildQueuesInv,
     QueueDoneInv, UnlockInv, StopJobInv, OrganizeInv, ReleaseCompletedInv, AllocateInv,
     AllocateFailsInv, StartJobInv
  DEF LoopStep, Iterate
<1>2. ASSUME IInv, NEW j \in Jobs, Request(j) PROVE IInv'
  BY <1>2, CreateInv, RequestStopInv, RequestRestartInv, RequestReleaseInv, ReportInv,
     UpdateAtOnceInv DEF Request
<1>3. IInv /\ ManagerStep => IInv'
  BY <1>1, <1>2, CrashInv, UpdateLateInv DEF ManagerStep
<1>4. ASSUME Inv, ManagerStep, UNCHANGED snap PROVE Inv'
  <2>1. IInv' /\ TypeOK'
    BY <1>3, <1>4 DEF Inv, IInv, TypeOK
  <2>2. SnapshotsSound'
    BY <1>4, LoadedKept DEF Inv, SnapshotsSound, Steady
  <2>3. PromptIsPrompt'
    BY <1>4, PromptKept DEF Inv
  <2> QED BY <2>1, <2>2, <2>3 DEF Inv
<1>5. ASSUME Inv, ServiceStep PROVE Inv'
  BY <1>5, ServeInv, MoveOnInv, ServiceEndsInv DEF ServiceStep
<1>6. ASSUME Inv, UNCHANGED vars PROVE Inv'
  <2>1. IInv' /\ TypeOK'
    BY <1>6, StutterInv DEF Inv, IInv, TypeOK, vars
  <2>2. SnapshotsSound' /\ PromptIsPrompt'
    BY <1>6 DEF Inv, SnapshotsSound, Steady, PromptIsPrompt, vars, stored
  <2> QED BY <2>1, <2>2 DEF Inv
<1>7. Inv /\ [Next]_vars => Inv'
  BY <1>4, <1>5, <1>6 DEF Next
<1>8. Init => Inv
  <2>1. ASSUME Init PROVE TypeOK /\ SnapshotsSound /\ PromptIsPrompt
    BY <2>1, InitInv DEF IInv, TypeOK, Init, NoJobs, SnapshotsSound, PromptIsPrompt
  <2> QED BY <2>1, InitInv DEF Inv
<1> QED BY <1>7, <1>8, PTL DEF Spec

(***************************************************************************)
(* Every variable of the scheduler keeps its type: records stay readable,  *)
(* priorities stay in range, no job has more services than workers.        *)
(***************************************************************************)
THEOREM JobManagerTypeCorrect == Spec => []TypeOK
<1>1. Inv => TypeOK
  BY DEF Inv
<1> QED BY <1>1, JobManagerInvariant, PTL

(***************************************************************************)
(* The active set of Redis has exactly the jobs whose record is active,    *)
(* whatever is saved by the loop, by a handler or lost with the process.   *)
(***************************************************************************)
THEOREM ActiveSetAgrees == Spec => []ActiveSetExact
<1>1. Inv => ActiveSetExact
  BY DEF Inv, IInv
<1> QED BY <1>1, JobManagerInvariant, PTL

(***************************************************************************)
(* No job waits for its data or its start, runs or stops without CPUs,     *)
(* even with update messages that arrive late and a process that dies      *)
(* between a grant and its save.                                           *)
(***************************************************************************)
THEOREM ExecutingJobsHoldTheirCpus == Spec => []ExecutingJobsHoldCpus
<1>1. Inv => ExecutingJobsHoldCpus
  BY DEF Inv, IInv, RecordsSound, Sound, ExecSteps, ExecutingJobsHoldCpus
<1> QED BY <1>1, JobManagerInvariant, PTL

(***************************************************************************)
(* As long as update messages are prompt, what the data service or the     *)
(* partitioner saves after its long awaits is the record as it is: no      *)
(* request changes a job that waits for one of them, for any number of     *)
(* jobs and deaths of the scheduler.                                       *)
(***************************************************************************)
THEOREM LoadedJobsAreCurrent ==
  ASSUME PromptReports
  PROVE  Spec => []SnapshotsAreCurrent
<1>1. Inv => SnapshotsAreCurrent
  BY DEF Inv, SnapshotsSound, Steady, SnapshotsAreCurrent
<1> QED BY <1>1, JobManagerInvariant, PTL
-----------------------------------------------------------------------------
\* The steps of a job whose services Docker has, and those that may leave
\* some of them behind.
Manned == {"SCHEDULED", "RUNNING", "STOPPING"}
Ended == {"COMPLETED", "FAILED"}

Fits(s, n) == (s \in Manned => n = Workers) /\ (n > 0 => s \in Manned \union Ended)

\* The step a job has, or will have once its change is saved.
StepOf(j) == IF saving # None /\ saving.job = j THEN saving.rec.status.step
             ELSE rec[j].status.step

ServicesFit == \A j \in Jobs : rec[j] # None => Fits(StepOf(j), services[j])

\* Update messages tell of services at work and of their end.
Telling == UpdateSteps \subseteq {"SCHEDULED", "RUNNING"} \union Ended

\* A job has no services at the steps before its start and after its stop.
LEMMA FitFacts ==
  ASSUME NEW s, NEW n \in 0 .. Workers, Fits(s, n)
  PROVE  /\ s \notin Manned \union Ended => n = 0
         /\ \A t : n = 0 /\ t \notin Manned => Fits(t, n)
         /\ \A t \in Ended : Fits(t, n)
         /\ s \in Manned => \A t \in Manned \union Ended : Fits(t, n)
  BY ManagerAssumption DEF Fits, Manned, Ended

\* A job object of the iteration is at the step of its job.
LEMMA ObjectStep ==
  ASSUME Inv, NEW j \in Jobs, mem[j] # None
  PROVE  rec[j] # None /\ StepOf(j) = mem[j].status.step
  BY DEF Inv, IInv, ObjectsSound, SavingSound, StepOf

\* Nothing to show for steps that leave the services and every step alone.
LEMMA StepsKept ==
  ASSUME ServicesFit, services' = services,
         \A j \in Jobs : rec'[j] # None => rec[j] # None /\ StepOf(j)' = StepOf(j)
  PROVE  ServicesFit'
  BY DEF ServicesFit

\* One job goes on, and its services with it.
LEMMA OneMoves ==
  ASSUME ServicesFit, NEW j \in Jobs, Fits(StepOf(j)', services'[j]),
         \A k \in Jobs \ {j} :
            /\ services'[k] = services[k]
            /\ rec'[k] # None => rec[k] # None /\ StepOf(k)' = StepOf(k)
  PROVE  ServicesFit'
  BY DEF ServicesFit

\* A record that is stored at once, between two steps of the loop.
LEMMA StoreFits ==
  ASSUME Inv, ServicesFit, NEW j \in Jobs, NEW r \in Records, SaveJob(j, r), saving = None,
         UNCHANGED <<services, saving>>, Fits(r.status.step, services[j])
  PROVE  ServicesFit'
<1>1. /\ rec'[j] = r /\ \A k \in Jobs : k # j => rec'[k] = rec[k]
  BY SaveJobFacts DEF Inv, IInv
<1>2. StepOf(j)' = r.status.step /\ \A k \in Jobs \ {j} : StepOf(k)' = StepOf(k)
  BY <1>1 DEF StepOf
<1> QED BY <1>1, <1>2, OneMoves

\* The same for a change that waits for its save.
LEMMA ChangeFits ==
  ASSUME Inv, ServicesFit, NEW j \in Jobs, NEW r \in Records, saving = None,
         saving' = [job |-> j, rec |-> r], UNCHANGED stored,
         Fits(r.status.step, services'[j]),
         \A k \in Jobs \ {j} : services'[k] = services[k]
  PROVE  ServicesFit'
<1>1. saving' # None
  BY NoneAssumption DEF Unsaved
<1>2. StepOf(j)' = r.status.step /\ \A k \in Jobs \ {j} : StepOf(k)' = StepOf(k)
  BY <1>1 DEF StepOf, stored
<1>3. rec' = rec
  BY DEF stored
<1> QED BY <1>2, <1>3, OneMoves

LEMMA SaveFits == ASSUME Inv, ServicesFit, Save PROVE ServicesFit'
<1>1. /\ saving # None /\ SaveJob(saving.job, saving.rec) /\ saving' = None
      /\ services' = services
  BY DEF Save
<1>2. saving.job \in Jobs /\ saving.rec \in Records
  BY <1>1 DEF Inv, IInv, ManagerTypeOK, Unsaved
<1>3. rec[saving.job] # None
  BY <1>1 DEF Inv, IInv, SavingSound
<1>4. /\ rec'[saving.job] = saving.rec
      /\ \A k \in Jobs : k # saving.job => rec'[k] = rec[k]
  BY <1>1, <1>2, SaveJobFacts DEF Inv, IInv
<1>5. \A j \in Jobs : rec'[j] # None => rec[j] # None /\ StepOf(j)' = StepOf(j)
  BY <1>1, <1>3, <1>4 DEF StepOf
<1> QED BY <1>1, <1>5, StepsKept

\* The steps of the loop that only look, and its end by an exception.
LEMMA PlainFits ==
  ASSUME ServicesFit, saving = None, saving' = None, rec' = rec, services' = services
  PROVE  ServicesFit'
  BY StepsKept DEF StepOf

\* Records that are replaced by job objects of the iteration.
LEMMA StoredObjectsFit ==
  ASSUME Inv, ServicesFit, saving = None, saving' = None, services' = services,
         NEW S \in SUBSET Loaded,
         \A j \in S : rec'[j] # None => rec'[j].status = mem[j].status,
         \A j \in Jobs \ S : rec'[j] = rec[j]
  PROVE  ServicesFit'
<1>1. ASSUME NEW j \in Jobs, rec'[j] # None
      PROVE  rec[j] # None /\ StepOf(j)' = StepOf(j)
  <2>1. CASE j \in S
    <3>1. mem[j] # None
      BY <2>1 DEF Loaded
    <3> QED BY <1>1, <2>1, <3>1, ObjectStep DEF StepOf
  <2>2. CASE j \notin S
    BY <1>1, <2>2 DEF StepOf
  <2> QED BY <2>1, <2>2
<1> QED BY <1>1, StepsKept

LEMMA PruneFits == ASSUME Inv, ServicesFit, Prune PROVE ServicesFit'
<1>1. PICK stay \in SUBSET Completing :
         rec' = [j \in Jobs |-> IF j \in Completing \ stay THEN mem[j] ELSE rec[j]]
  BY DEF Prune
<1>2. Completing \ stay \in SUBSET Loaded /\ Completing \subseteq Jobs
  BY DEF Completing, Loaded
<1>3. saving = None /\ saving' = None /\ services' = services
  BY DEF Prune, At
<1> QED BY <1>1, <1>2, <1>3, StoredObjectsFit

LEMMA QueueDoneFits == ASSUME Inv, ServicesFit, QueueDone PROVE ServicesFit'
<1>1. /\ mem' = [j \in Jobs |-> IF j \in bump
                   THEN [mem[j] EXCEPT !.priority = Capped(@ + 1)] ELSE mem[j]]
      /\ rec' = [j \in Jobs |-> IF j \in bump THEN mem'[j] ELSE rec[j]]
      /\ saving = None /\ saving' = None /\ services' = services
  BY DEF QueueDone
<1>2. bump \in SUBSET Loaded /\ bump \subseteq Jobs
  BY DEF Inv, IInv, QueuesSound, Eligible, AtStep, Loaded
<1>3. \A j \in bump : rec'[j] = mem'[j]
  BY <1>1, <1>2
<1>4. \A j \in Loaded : mem'[j].status = mem[j].status
  BY <1>1, <1>2, ReprioritizedFacts DEF Inv
<1>5. \A j \in Jobs \ bump : rec'[j] = rec[j]
  BY <1>1
<1>6. \A j \in bump : rec'[j] # None => rec'[j].status = mem[j].status
  BY <1>2, <1>3, <1>4
<1> QED BY <1>1, <1>2, <1>5, <1>6, StoredObjectsFit

\* Organizing moves only jobs that have no services, to steps without.
LEMMA OrganizedSteps ==
  ASSUME NEW r \in Records, Sound(r)
  PROVE  \/ Organized(r).status.step = r.status.step
         \/ /\ r.status.step \notin Manned \union Ended
            /\ Organized(r).status.step \notin Manned
<1> DEFINE b == Entered(r)
           c == Requeued(b)
<1>1. b \in Records
  BY DEF Entered, Records, Statuses, StatusOfPhase, DefaultStartStep, Phases, Steps
<1>2. \/ b.status.step = r.status.step
      \/ r.status.step = "DEFAULT" /\ b.status.step = "AWAITING_DATA_CHECK"
  BY DEF Entered, Sound, StatusOfPhase, DefaultStartStep, Records
<1> HIDE DEF b
<1>3. c \in Records /\ \/ c.status.step = b.status.step
                       \/ b.status.step = "STOPPED" /\ c.status.step = "AWAITING_ALLOCATION"
  BY <1>1, StepToFacts DEF Requeued, Steps
<1> HIDE DEF c
<1>4. \/ Passed(c).status.step = c.status.step
      \/ c.status.step = "AWAITING_ALLOCATION" /\ Passed(c).status.step = "AWAITING_DATA"
  BY <1>3, StepToFacts DEF Passed, Steps
<1>5. Organized(r) = Passed(c)
  BY DEF Organized, b, c
<1> QED BY <1>2, <1>3, <1>4, <1>5 DEF Manned, Ended

LEMMA OrganizeFits == ASSUME Inv, ServicesFit, NEW j \in Jobs, Organize(j) PROVE ServicesFit'
<1>1. /\ saving = None /\ saving' = None /\ services' = services /\ j \in Loaded
  BY DEF Organize, At, Inv, IInv, QueuesSound
<1>2. /\ mem[j] \in Records /\ Sound(mem[j]) /\ mem[j] # None /\ Inv
  BY <1>1, LoadedFacts DEF Inv, Loaded
<1>3. CASE UNCHANGED stored
  BY <1>1, <1>3, PlainFits DEF stored
<1>4. CASE SaveJob(j, Organized(mem[j]))
  <2>1. Organized(mem[j]) \in Records
    BY <1>2, OrganizedFacts
  <2>2. Fits(mem[j].status.step, services[j]) /\ services[j] \in 0 .. Workers
    BY <1>2, ObjectStep DEF ServicesFit, Inv, IInv, ManagerTypeOK
  <2>3. Fits(Organized(mem[j]).status.step, services[j])
    BY <1>2, <2>2, OrganizedSteps, FitFacts
  <2> QED BY <1>1, <1>4, <2>1, <2>3, StoreFits
<1> QED BY <1>3, <1>4 DEF Organize

\* Giving CPUs back keeps the step of the job.
LEMMA ReleaseFits ==
  ASSUME Inv, ServicesFit, NEW j \in Jobs, rec[j] # None, saving = None, ReleaseJob(j),
         UNCHANGED <<stored, services>>
  PROVE  ServicesFit'
<1> DEFINE r == [rec[j] EXCEPT !.alloc = FALSE]
<1>1. rec[j] \in Records
  BY KnownFacts DEF Inv
<1>2. r \in Records /\ r.status = rec[j].status
  BY <1>1 DEF Records
<1>3. Fits(rec[j].status.step, services[j])
  BY DEF ServicesFit, StepOf
<1>4. saving' = [job |-> j, rec |-> r]
  BY DEF ReleaseJob
<1> HIDE DEF r
<1> QED BY <1>2, <1>3, <1>4, ChangeFits

LEMMA ReleaseCompletedFits ==
  ASSUME Inv, ServicesFit, NEW j \in Jobs, ReleaseCompleted(j) PROVE ServicesFit'
<1>1. saving = None /\ j \in todo /\ j \in Loaded
  BY DEF ReleaseCompleted, At, Inv, IInv, QueuesSound
<1>2. rec[j] # None
  BY <1>1 DEF Inv, IInv, ObjectsSound, Loaded
<1>3. CASE Raise
  BY <1>1, <1>3, PlainFits DEF Raise, Restarted, stored
<1>4. CASE ReleaseJob(j) /\ UNCHANGED <<stored, services>>
  BY <1>1, <1>2, <1>4, ReleaseFits
<1> QED BY <1>3, <1>4 DEF ReleaseCompleted

LEMMA AllocateFits == ASSUME Inv, ServicesFit, NEW j \in Jobs, Allocate(j) PROVE ServicesFit'
<1>1. /\ saving = None /\ j \in Eligible /\ UNCHANGED <<stored, services>>
  BY DEF Allocate, Inv, IInv, QueuesSound, Queues
<1>2. /\ j \in Loaded /\ mem[j].status.step = "AWAITING_ALLOCATION" /\ mem[j] # None
      /\ mem[j] \in Records
  BY <1>1, LoadedFacts DEF Eligible, AtStep, Loaded, Inv
<1> DEFINE r == [StepTo(mem[j], "AWAITING_DATA") EXCEPT !.alloc = TRUE]
<1>3. CASE UNCHANGED saving
  BY <1>1, <1>3, PlainFits DEF stored
<1>4. CASE saving' = [job |-> j, rec |-> r]
  <2>1. "AWAITING_DATA" \in Steps
    BY DEF Steps
  <2>2. r \in Records /\ r.status.step = "AWAITING_DATA"
    BY <1>2, <2>1, StepToFacts DEF Records
  <2>3. Fits("AWAITING_ALLOCATION", services[j]) /\ services[j] \in 0 .. Workers
    BY <1>2, ObjectStep DEF ServicesFit, Inv, IInv, ManagerTypeOK
  <2>4. Fits("AWAITING_DATA", services[j])
    BY <2>3, FitFacts DEF Manned, Ended
  <2> HIDE DEF r
  <2> QED BY <1>1, <1>4, <2>2, <2>4, ChangeFits
<1> QED BY <1>3, <1>4 DEF Allocate, Change

\* A job is stopped when its services are gone, and started when they all
\* are there; one that fails may leave any of them.
LEMMA StopJobFits == ASSUME Inv, ServicesFit, NEW j \in Jobs, StopJob(j) PROVE ServicesFit'
<1>1. /\ saving = None /\ j \in Loaded /\ mem[j] \in Records /\ UNCHANGED stored
  BY LoadedFacts DEF StopJob, At, AtStep, Inv
<1>2. PICK s \in {"STOPPED", "FAILED"} :
         /\ saving' = [job |-> j, rec |-> StepTo(mem[j], s)]
         /\ Fits(s, services'[j])
         /\ \A k \in Jobs \ {j} : services'[k] = services[k]
  <2>1. CASE services' = [services EXCEPT ![j] = 0] /\ Change(j, StepTo(mem[j], "STOPPED"))
    BY <2>1 DEF Change, Fits, Manned, Inv, IInv, ManagerTypeOK
  <2>2. CASE /\ \E left \in 0 .. services[j] : services' = [services EXCEPT ![j] = left]
             /\ Change(j, StepTo(mem[j], "FAILED"))
    BY <2>2 DEF Change, Fits, Manned, Ended, Inv, IInv, ManagerTypeOK
  <2> QED BY <2>1, <2>2 DEF StopJob
<1>3. StepTo(mem[j], s) \in Records /\ StepTo(mem[j], s).status.step = s
  BY <1>1, StepToFacts DEF Steps
<1> QED BY <1>1, <1>2, <1>3, ChangeFits

LEMMA StartJobFits == ASSUME Inv, ServicesFit, NEW j \in Jobs, StartJob(j) PROVE ServicesFit'
<1>1. /\ saving = None /\ j \in Loaded /\ mem[j] \in Records /\ UNCHANGED stored
  BY LoadedFacts DEF StartJob, At, AtStep, Inv
<1>2. PICK s \in {"SCHEDULED", "FAILED"} :
         /\ saving' = [job |-> j, rec |-> StepTo(mem[j], s)]
         /\ Fits(s, services'[j])
         /\ \A k \in Jobs \ {j} : services'[k] = services[k]
  <2>1. CASE /\ services' = [services EXCEPT ![j] = Workers]
             /\ Change(j, StepTo(mem[j], "SCHEDULED"))
    BY <2>1 DEF Change, Fits, Manned, Inv, IInv, ManagerTypeOK
  <2>2. CASE /\ \E now \in services[j] .. Workers : services' = [services EXCEPT ![j] = now]
             /\ Change(j, StepTo(mem[j], "FAILED"))
    BY <2>2 DEF Change, Fits, Manned, Ended, Inv, IInv, ManagerTypeOK
  <2> QED BY <2>1, <2>2 DEF StartJob
<1>3. StepTo(mem[j], s) \in Records /\ StepTo(mem[j], s).status.step = s
  BY <1>1, StepToFacts DEF Steps
<1> QED BY <1>1, <1>2, <1>3, ChangeFits

LEMMA LoopFits == ASSUME Inv, ServicesFit, LoopStep PROVE ServicesFit'
<1>1. CASE Save
  BY <1>1, SaveFits
<1>2. CASE \/ Load \/ LoadFails \/ StopDone \/ OrganizeDone \/ BuildQueues \/ Unlock
           \/ \E j \in Jobs : AllocateFails(j)
  BY <1>2, PlainFits DEF Load, LoadFails, StopDone, OrganizeDone, BuildQueues, Unlock, At,
       AllocateFails, Raise, Restarted, stored, BuildQueues
<1> QED BY <1>1, <1>2, PruneFits, QueueDoneFits, OrganizeFits, ReleaseCompletedFits,
           AllocateFits, StopJobFits, StartJobFits DEF LoopStep, Iterate

\* A handler that moves a job to another step.
LEMMA HandlerFits ==
  ASSUME Inv, ServicesFit, NEW j \in Jobs, NEW s \in Steps, rec[j] # None, saving = None,
         SaveJob(j, StepTo(rec[j], s)), UNCHANGED <<services, saving>>,
         \/ rec[j].status.step \in Manned /\ s \in Manned \union Ended
         \/ rec[j].status.step \notin Manned \union Ended /\ s \notin Manned
  PROVE  ServicesFit'
<1>1. rec[j] \in Records /\ Fits(rec[j].status.step, services[j])
  BY KnownFacts DEF Inv, ServicesFit, StepOf
<1>2. StepTo(rec[j], s) \in Records /\ StepTo(rec[j], s).status.step = s
  BY <1>1, StepToFacts
<1>3. services[j] \in 0 .. Workers
  BY DEF Inv, IInv, ManagerTypeOK
<1>4. Fits(s, services[j])
  BY <1>1, <1>3, FitFacts
<1> QED BY <1>2, <1>4, StoreFits

LEMMA RequestFits ==
  ASSUME Inv, ServicesFit, PromptReports, Telling, NEW j \in Jobs, Request(j)
  PROVE  ServicesFit'
<1>1. CASE Create(j)
  <2>1. /\ saving = None /\ services[j] = 0 /\ UNCHANGED <<services, saving>>
    BY <1>1 DEF Create, Handle, At
  <2>2. PICK p \in Priorities :
          SaveJob(j, [status |-> StatusOfPhase("INIT"), alloc |-> FALSE, priority |-> p])
    BY <1>1 DEF Create, Handle
  <2> DEFINE r == [status |-> StatusOfPhase("INIT"), alloc |-> FALSE, priority |-> p]
  <2>3. r \in Records /\ r.status.step = "DEFAULT"
    BY ManagerAssumption
       DEF Records, Statuses, StatusOfPhase, DefaultStartStep, Phases, Steps
  <2>4. Fits("DEFAULT", services[j])
    BY <2>1 DEF Fits, Manned
  <2> HIDE DEF r
  <2> QED BY <2>1, <2>2, <2>3, <2>4, StoreFits DEF r
<1>2. CASE RequestStop(j)
  BY <1>2, HandlerFits DEF RequestStop, Known, At, Handle, Steps, Manned
<1>3. CASE RequestRestart(j)
  BY <1>3, HandlerFits DEF RequestRestart, Known, At, Handle, Steps, Manned, Ended
<1>4. CASE RequestRelease(j)
  BY <1>4, ReleaseFits DEF RequestRelease, Known, At
<1>5. CASE Report(j)
  BY <1>5 DEF Report
<1>6. CASE UpdateAtOnce(j)
  <2>1. /\ rec[j] # None /\ rec[j].status.step \in Manned
        /\ saving = None /\ UNCHANGED <<services, saving>>
    BY <1>6 DEF UpdateAtOnce, Watched, At, Manned
  <2>2. PICK s \in UpdateSteps : Update(j, s)
    BY <1>6 DEF UpdateAtOnce
  <2>3. s \in Steps /\ s \in Manned \union Ended
    BY ManagerAssumption DEF Telling, Manned
  <2>4. CASE SaveJob(j, StepTo(rec[j], s))
    BY <2>1, <2>3, <2>4, HandlerFits
  <2>5. CASE UNCHANGED stored
    BY <2>1, <2>5, PlainFits DEF stored
  <2> QED BY <2>2, <2>4, <2>5 DEF Update
<1> QED BY <1>1, <1>2, <1>3, <1>4, <1>5, <1>6 DEF Request

\* Another service moves on a job that has no services yet.
LEMMA MoveOnFits ==
  ASSUME Inv, ServicesFit, PromptReports, NEW j \in Jobs, MoveOn(j)
  PROVE  ServicesFit'
<1>1. /\ saving = None /\ snap[j] # None /\ UNCHANGED <<services, saving>>
  BY DEF MoveOn, At
<1>2. /\ rec[j] # None /\ rec[j] = snap[j] /\ rec[j].status.step \in DOMAIN MovesOn
      /\ Sound(rec[j]) /\ rec[j] \in Records
  BY <1>1 DEF Inv, TypeOK, SnapshotsSound, Steady
<1>3. PICK s \in MovesOn[rec[j].status.step] : SaveJob(j, StepTo(rec[j], s))
  BY <1>2 DEF MoveOn
<1>4. s \in Steps
  BY <1>2, <1>3, WaitingFacts
<1>5. rec[j].status.step \notin Manned \union Ended /\ s \notin Manned
  BY <1>2, <1>3 DEF MovesOn, Manned, Ended
<1> QED BY <1>1, <1>2, <1>3, <1>4, <1>5, HandlerFits

(***************************************************************************)
(* Docker has all services of a job that is scheduled, runs or is to stop, *)
(* and none of a job that has not started or has stopped, for any number   *)
(* of jobs and workers and all failures of starting and stopping, provided *)
(* that update messages are prompt, that they tell of running services or  *)
(* of their end, and that the process does not die: each of the three can  *)
(* break it.                                                               *)
(***************************************************************************)
THEOREM ServicesMatchTheirJobs ==
  ASSUME PromptReports, Telling, MaxCrashes = 0
  PROVE  Spec => []ServicesMatch
<1>1. Init => ServicesFit
  BY DEF Init, ServicesFit, NoJobs
<1>2. ASSUME Inv, ServicesFit, ManagerStep PROVE ServicesFit'
  <2>1. ~Crash
    BY <1>2 DEF Crash, Inv, IInv, ManagerTypeOK
  <2>2. ~\E m \in reports : UpdateLate(m)
    BY <1>2 DEF Inv, PromptIsPrompt
  <2> QED BY <1>2, <2>1, <2>2, LoopFits, RequestFits DEF ManagerStep
<1>3. ASSUME Inv, ServicesFit, ServiceStep PROVE ServicesFit'
  <2>1. CASE \/ ServiceEnds \/ \E step \in DOMAIN MovesOn : Serve(step)
    BY <1>3, <2>1, StepsKept DEF ServiceEnds, Serve, stored, StepOf
  <2> QED BY <1>3, <2>1, MoveOnFits DEF ServiceStep
<1>4. ASSUME Inv, ServicesFit, UNCHANGED vars PROVE ServicesFit'
  BY <1>4, StepsKept DEF vars, stored, StepOf
<1>5. Inv /\ ServicesFit /\ [Next]_vars => ServicesFit'
  BY <1>2, <1>3, <1>4 DEF Next
<1>6. ServicesFit => ServicesMatch
  BY DEF ServicesFit, ServicesMatch, StepOf, Fits, Manned, Ended
<1> QED BY <1>1, <1>5, <1>6, JobManagerInvariant, PTL DEF Spec
-----------------------------------------------------------------------------
\* Whether a job holds CPUs, or will once its change is saved.
AllocOf(j) == IF saving # None /\ saving.job = j THEN saving.rec.alloc ELSE rec[j].alloc

Granted == {j \in Jobs : rec[j] # None /\ AllocOf(j)}

Early == {"stop", "prune", "organize"}

\* A job object knows whether its job holds CPUs, unless they were released
\* in this iteration: that is done on a fresh copy.
ObjectsAgree ==
    \A j \in Jobs : mem[j] # None =>
        \/ mem[j].alloc = AllocOf(j)
        \/ pc \notin Early /\ ShouldReleaseResources(mem[j].status)

Balanced == /\ IsFiniteSet(Granted)
            /\ free + SumOf(Cpus, Granted) + drift = PoolCpus

\* A job that waits for CPUs or for its start has not been released.
LEMMA AgreeFacts ==
  ASSUME ObjectsAgree, NEW j \in Jobs, mem[j] # None,
         \/ pc \in Early
         \/ mem[j] \in Records /\ Sound(mem[j])
              /\ mem[j].status.step \in {"AWAITING_ALLOCATION", "AWAITING_SCHEDULING"}
  PROVE  mem[j].alloc = AllocOf(j)
  BY DEF ObjectsAgree, ShouldReleaseResources, Sound

\* What the sum of the grants becomes when one job is granted its CPUs.
LEMMA GrantSum ==
  ASSUME NEW G \in SUBSET Jobs, IsFiniteSet(G), NEW j \in Jobs \ G
  PROVE  /\ IsFiniteSet(G \union {j}) /\ Cpus[j] \in Nat
         /\ SumOf(Cpus, G) \in Nat /\ SumOf(Cpus, G \union {j}) \in Nat
         /\ SumOf(Cpus, G \union {j}) = SumOf(Cpus, G) + Cpus[j]
<1>1. \A x \in Jobs : Cpus[x] \in Nat
  BY ManagerAssumption
<1>2. IsFiniteSet(G \union {j})
  BY FS_AddElement
<1>3. SumOf(Cpus, G) \in Nat /\ SumOf(Cpus, G \union {j}) \in Nat
  BY <1>1, <1>2, SumType
<1>4. SumOf(Cpus, G \union {j}) = SumOf(Cpus, G) + Cpus[j]
  BY <1>1, SumWith
<1> QED BY <1>1, <1>2, <1>3, <1>4

LEMMA ReleaseSum ==
  ASSUME NEW G \in SUBSET Jobs, IsFiniteSet(G), NEW j \in G
  PROVE  /\ IsFiniteSet(G \ {j}) /\ Cpus[j] \in Nat
         /\ SumOf(Cpus, G) \in Nat /\ SumOf(Cpus, G \ {j}) \in Nat
         /\ SumOf(Cpus, G) = Cpus[j] + SumOf(Cpus, G \ {j})
<1>1. \A x \in Jobs : Cpus[x] \in Nat
  BY ManagerAssumption
<1>2. IsFiniteSet(G \ {j})
  BY FS_RemoveElement
<1>3. SumOf(Cpus, G) \in Nat /\ SumOf(Cpus, G \ {j}) \in Nat
  BY <1>1, <1>2, SumType
<1>4. SumOf(Cpus, G) = Cpus[j] + SumOf(Cpus, G \ {j})
  BY <1>1, SumWithout
<1> QED BY <1>1, <1>2, <1>3, <1>4

\* The CPUs that one job is granted.
GrantOf(j) == IF j \in Granted THEN Cpus[j] ELSE 0

\* A step that moves the grant of one job at most, and with it its CPUs.
LEMMA OneGrantMoves ==
  ASSUME Inv, Balanced, NEW j \in Jobs, free' \in Int, drift' \in Int,
         \A k \in Jobs \ {j} :
            (rec'[k] # None /\ AllocOf(k)') <=> (rec[k] # None /\ AllocOf(k)),
         free' + drift' + GrantOf(j)' = free + drift + GrantOf(j)
  PROVE  Balanced'
<1> DEFINE G == Granted
           H == Granted'
           c == Cpus[j]
           sum == SumOf(Cpus, G)
           sums == SumOf(Cpus, H)
           f == free + drift
           g == free' + drift'
<1>1. free \in Int /\ drift \in Int /\ PoolCpus \in Int
  BY ManagerAssumption DEF Inv, IInv, ManagerTypeOK
<1>2. G \in SUBSET Jobs /\ IsFiniteSet(G)
  BY DEF Granted, Balanced
<1>3. \A k \in Jobs \ {j} : k \in H <=> k \in G
  BY DEF Granted
<1>4. H \subseteq Jobs
  BY DEF Granted
<1>5. f \in Int /\ g \in Int
  BY <1>1
<1>6. /\ j \in G => GrantOf(j) = c
      /\ j \notin G => GrantOf(j) = 0
      /\ j \in H => GrantOf(j)' = c
      /\ j \notin H => GrantOf(j)' = 0
  BY DEF GrantOf
<1>7. g + GrantOf(j)' = f + GrantOf(j)
  OBVIOUS
<1>8. sum \in Nat
  BY <1>2, SumType, ManagerAssumption
<1>9. f + sum = PoolCpus
  <2> HIDE DEF sum
  <2>1. free + sum + drift = PoolCpus
    BY DEF Balanced, sum
  <2> QED BY <1>1, <1>8, <2>1
<1>10. c \in Nat
  BY ManagerAssumption
<1> HIDE DEF G, H, f, g, c
<1>11. IsFiniteSet(H) /\ sums \in Nat /\ g + sums = PoolCpus
  <2>1. CASE j \in G /\ j \in H
    <3>1. H = G
      <4>1. \A k \in Jobs : k \in H <=> k \in G
        BY <1>3, <2>1
      <4> QED BY <1>2, <1>4, <4>1
    <3>2. g = f
      BY <1>5, <1>6, <1>7, <1>10, <2>1
    <3>3. sums = sum
      BY <3>1
    <3> HIDE DEF sum, sums
    <3> QED BY <1>2, <1>8, <1>9, <3>1, <3>2, <3>3
  <2>2. CASE j \notin G /\ j \notin H
    <3>1. H = G
      <4>1. \A k \in Jobs : k \in H <=> k \in G
        BY <1>3, <2>2
      <4> QED BY <1>2, <1>4, <4>1
    <3>2. g = f
      BY <1>5, <1>6, <1>7, <2>2
    <3>3. sums = sum
      BY <3>1
    <3> HIDE DEF sum, sums
    <3> QED BY <1>2, <1>8, <1>9, <3>1, <3>2, <3>3
  <2>3. CASE j \in G /\ j \notin H
    <3>1. H = G \ {j}
      BY <1>2, <1>3, <1>4, <2>3
    <3>2. g = f + c
      BY <1>5, <1>6, <1>7, <1>10, <2>3
    <3>3. IsFiniteSet(H) /\ sums \in Nat /\ sum = c + sums
      BY <1>2, <2>3, <3>1, ReleaseSum DEF c
    <3> HIDE DEF sum, sums
    <3> QED BY <1>1, <1>5, <1>8, <1>9, <1>10, <3>2, <3>3
  <2>4. CASE j \notin G /\ j \in H
    <3>1. H = G \union {j}
      BY <1>2, <1>3, <1>4, <2>4
    <3>2. g + c = f
      BY <1>5, <1>6, <1>7, <1>10, <2>4
    <3>3. IsFiniteSet(H) /\ sums \in Nat /\ sums = sum + c
      BY <1>2, <2>4, <3>1, GrantSum DEF c
    <3> HIDE DEF sum, sums
    <3> QED BY <1>1, <1>5, <1>8, <1>9, <1>10, <3>2, <3>3
  <2> QED BY <2>1, <2>2, <2>3, <2>4
<1> HIDE DEF sums
<1>12. free' + sums + drift' = PoolCpus
  <2>1. sums \in Nat /\ (free' + drift') + sums = PoolCpus
    BY <1>11 DEF g
  <2>2. \A a, b, s \in Int : (a + b) + s = a + s + b
    OBVIOUS
  <2>3. sums \in Int /\ free' \in Int /\ drift' \in Int
    BY <2>1
  <2>4. (free' + drift') + sums = free' + sums + drift'
    BY <2>2, <2>3, Zenon
  <2> QED BY <2>1, <2>4, Zenon
<1> QED BY <1>11, <1>12, Zenon DEF Balanced, sums, H

\* A step that keeps the grants as they are.
LEMMA GrantsKept ==
  ASSUME Inv, Balanced, UNCHANGED <<free, drift>>,
         \A k \in Jobs : (rec'[k] # None /\ AllocOf(k)') <=> (rec[k] # None /\ AllocOf(k))
  PROVE  Balanced'
<1>1. Granted' = Granted
  BY DEF Granted
<1> QED BY <1>1 DEF Balanced

Balance == ObjectsAgree /\ Balanced

\* A step that keeps the CPUs of jobs and of job objects as they are.
LEMMA SameGrants ==
  ASSUME Inv, Balance, UNCHANGED <<free, drift>>,
         \A k \in Jobs : rec'[k] # None <=> rec[k] # None,
         \A k \in Jobs : rec[k] # None => AllocOf(k)' = AllocOf(k),
         \A k \in Jobs : mem'[k] # None =>
            /\ mem[k] # None /\ mem'[k].alloc = mem[k].alloc
            /\ \/ pc' \in Early
               \/ ShouldReleaseResources(mem[k].status)
                    => ShouldReleaseResources(mem'[k].status),
         pc' \in Early => pc \in Early
  PROVE  Balance'
<1>1. Balanced'
  BY GrantsKept DEF Balance
<1>2. \A k \in Jobs : mem[k] # None => rec[k] # None
  BY DEF Inv, IInv, ObjectsSound
<1>3. ObjectsAgree'
  BY <1>2 DEF Balance, ObjectsAgree
<1> QED BY <1>1, <1>3 DEF Balance

\* Nothing is loaded: no object can be wrong about the CPUs of its job.
LEMMA NothingLoaded == ASSUME mem' = NoJobs PROVE ObjectsAgree'
  BY DEF ObjectsAgree, NoJobs

LEMMA NoObjects == ASSUME Inv, At("idle") PROVE mem = NoJobs /\ saving = None
  BY DEF Inv, IInv, IdleIsEmpty, At

\* Between iterations, a record is stored over another, and what the CPUs
\* of the two differ by is entered in drift.
Held(j) == IF rec[j] # None /\ rec[j].alloc THEN Cpus[j] ELSE 0

LEMMA StoreBalance ==
  ASSUME Inv, Balance, At("idle"), NEW j \in Jobs, NEW r \in Records, SaveJob(j, r),
         UNCHANGED <<free, saving, mem>>, drift' \in Int,
         drift' = drift + Held(j) - (IF r.alloc THEN Cpus[j] ELSE 0)
  PROVE  Balance'
<1>1. mem' = NoJobs /\ saving = None /\ saving' = None
  BY NoObjects
<1>2. /\ rec'[j] = r /\ r # None /\ \A k \in Jobs : k # j => rec'[k] = rec[k]
  BY SaveJobFacts, RecordFacts DEF Inv, IInv
<1>3. \A k \in Jobs \ {j} :
         (rec'[k] # None /\ AllocOf(k)') <=> (rec[k] # None /\ AllocOf(k))
  BY <1>1, <1>2 DEF AllocOf
<1>4. GrantOf(j) = Held(j)
  BY <1>1 DEF GrantOf, Granted, AllocOf, Held
<1>5. GrantOf(j)' = IF r.alloc THEN Cpus[j] ELSE 0
  BY <1>1, <1>2 DEF GrantOf, Granted, AllocOf
<1>6. free \in Int /\ free' \in Int /\ drift \in Int /\ Cpus[j] \in Nat
  BY ManagerAssumption DEF Inv, IInv, ManagerTypeOK
<1>7. GrantOf(j) \in Int /\ GrantOf(j)' \in Int /\ drift' = drift + GrantOf(j) - GrantOf(j)'
  BY <1>4, <1>5, <1>6 DEF Held
<1>8. free' + drift' + GrantOf(j)' = free + drift + GrantOf(j)
  BY <1>6, <1>7
<1>9. Balanced'
  BY <1>3, <1>6, <1>8, OneGrantMoves DEF Balance
<1> QED BY <1>1, <1>9, NothingLoaded DEF Balance

\* Most handlers leave the CPUs with the job.
LEMMA HandleBalance ==
  ASSUME Inv, Balance, At("idle"), NEW j \in Jobs, NEW r \in Records, SaveJob(j, r),
         r.alloc <=> rec[j] # None /\ rec[j].alloc,
         UNCHANGED <<free, saving, mem, drift>>
  PROVE  Balance'
<1>1. drift \in Int /\ Cpus[j] \in Nat
  BY ManagerAssumption DEF Inv, IInv, ManagerTypeOK
<1>2. /\ Held(j) = IF r.alloc THEN Cpus[j] ELSE 0
      /\ Held(j) \in Int
  BY <1>1 DEF Held
<1>3. drift' = drift + Held(j) - (IF r.alloc THEN Cpus[j] ELSE 0)
  BY <1>1, <1>2
<1> QED BY <1>1, <1>3, StoreBalance

LEMMA StepBalance ==
  ASSUME Inv, Balance, At("idle"), NEW j \in Jobs, NEW s \in Steps, rec[j] # None,
         SaveJob(j, StepTo(rec[j], s)), UNCHANGED <<free, saving, mem, drift>>
  PROVE  Balance'
<1>1. rec[j] \in Records
  BY DEF Inv, IInv, ManagerTypeOK
<1>2. StepTo(rec[j], s) \in Records /\ StepTo(rec[j], s).alloc = rec[j].alloc
  BY <1>1, StepToFacts
<1>3. rec[j].alloc \in BOOLEAN
  BY <1>1, RecordFacts
<1> QED BY <1>2, <1>3, HandleBalance

LEMMA CreateBalance == ASSUME Inv, Balance, NEW j \in Jobs, Create(j) PROVE Balance'
<1>1. PICK p \in Priorities :
         Handle(j, [status |-> StatusOfPhase("INIT"), alloc |-> FALSE, priority |-> p])
  BY DEF Create
<1> DEFINE r == [status |-> StatusOfPhase("INIT"), alloc |-> FALSE, priority |-> p]
<1>2. r \in Records /\ ~r.alloc
  BY ManagerAssumption DEF Records, Statuses, StatusOfPhase, DefaultStartStep, Phases, Steps
<1>3. At("idle") /\ rec[j] = None
  BY DEF Create
<1> HIDE DEF r
<1> QED BY <1>1, <1>2, <1>3, HandleBalance DEF Handle, iteration, history, r

LEMMA RequestStopBalance == ASSUME Inv, Balance, NEW j \in Jobs, RequestStop(j) PROVE Balance'
  BY StepBalance DEF RequestStop, Known, Handle, iteration, history, Steps

LEMMA RequestRestartBalance ==
  ASSUME Inv, Balance, NEW j \in Jobs, RequestRestart(j) PROVE Balance'
  BY StepBalance DEF RequestRestart, Known, Handle, iteration, history, Steps

\* Nothing that the balance is about changes.
LEMMA StillBalance ==
  ASSUME Inv, Balance, UNCHANGED <<free, drift, rec, saving>>,
         mem' = NoJobs \/ UNCHANGED <<mem, pc>>
  PROVE  Balance'
<1>1. \A k \in Jobs : AllocOf(k)' = AllocOf(k)
  BY DEF AllocOf
<1>2. Balanced'
  BY <1>1, GrantsKept DEF Balance
<1>3. CASE mem' = NoJobs
  BY <1>2, <1>3, NothingLoaded DEF Balance
<1>4. CASE UNCHANGED <<mem, pc>>
  BY <1>1, <1>2, <1>4 DEF Balance, ObjectsAgree
<1> QED BY <1>3, <1>4

LEMMA UpdateBalance ==
  ASSUME Inv, Balance, At("idle"), NEW j \in Jobs, NEW s \in UpdateSteps, rec[j] # None,
         Update(j, s), UNCHANGED <<free, saving, mem, drift, pc>>
  PROVE  Balance'
<1>1. s \in Steps
  BY ManagerAssumption
<1>2. CASE IsActive(rec[j].status)
  BY <1>1, <1>2, StepBalance DEF Update
<1>3. CASE ~IsActive(rec[j].status)
  BY <1>3, StillBalance DEF Update, stored
<1> QED BY <1>2, <1>3

LEMMA RequestBalance ==
  ASSUME Inv, Balance, NEW j \in Jobs, Report(j) \/ UpdateAtOnce(j)
  PROVE  Balance'
<1>1. CASE Report(j)
  BY <1>1, StillBalance DEF Report, stored, iteration, history
<1>2. CASE UpdateAtOnce(j)
  BY <1>2, UpdateBalance DEF UpdateAtOnce, Watched, iteration, history
<1> QED BY <1>1, <1>2

LEMMA UpdateLateBalance == ASSUME Inv, Balance, NEW m \in reports, UpdateLate(m) PROVE Balance'
<1>1. m.job \in Jobs /\ m.step \in UpdateSteps
  BY DEF Inv, IInv, ManagerTypeOK
<1> QED BY <1>1, UpdateBalance DEF UpdateLate, Known, iteration, history

\* A release takes the CPUs from the job, once its save is done, and gives
\* them to the pool, at once.
LEMMA ReleaseBalanced ==
  ASSUME Inv, Balance, NEW j \in Jobs, rec[j] # None, saving = None, ReleaseJob(j),
         UNCHANGED <<rec, drift>>
  PROVE  Balanced'
<1>1. /\ free' = FreeAfterRelease(j, rec[j])
      /\ saving' = [job |-> j, rec |-> [rec[j] EXCEPT !.alloc = FALSE]]
  BY DEF ReleaseJob
<1>2. rec[j] \in Records
  BY DEF Inv, IInv, ManagerTypeOK
<1>3. saving' # None /\ saving'.job = j /\ ~saving'.rec.alloc
  <2>1. [rec[j] EXCEPT !.alloc = FALSE] \in Records /\ ~[rec[j] EXCEPT !.alloc = FALSE].alloc
    BY <1>2 DEF Records
  <2>2. saving' \in Unsaved
    BY <1>1, <2>1 DEF Unsaved
  <2> QED BY <1>1, <2>1, <2>2, NoneAssumption
<1>4. free \in Int /\ drift \in Int /\ Cpus[j] \in Nat
  BY ManagerAssumption DEF Inv, IInv, ManagerTypeOK
<1>5. \A k \in Jobs \ {j} :
         (rec'[k] # None /\ AllocOf(k)') <=> (rec[k] # None /\ AllocOf(k))
  BY <1>3 DEF AllocOf
<1>6. GrantOf(j) = (IF rec[j].alloc THEN Cpus[j] ELSE 0) /\ GrantOf(j)' = 0
  BY <1>3 DEF GrantOf, Granted, AllocOf
<1>7. free' \in Int /\ free' = free + GrantOf(j) /\ GrantOf(j) \in Int
  BY <1>1, <1>4, <1>6 DEF FreeAfterRelease
<1>8. free' + drift' + GrantOf(j)' = free + drift + GrantOf(j)
  BY <1>4, <1>6, <1>7
<1> QED BY <1>4, <1>5, <1>7, <1>8, OneGrantMoves DEF Balance

LEMMA RequestReleaseBalance ==
  ASSUME Inv, Balance, NEW j \in Jobs, RequestRelease(j) PROVE Balance'
<1>1. /\ At("idle") /\ rec[j] # None /\ ReleaseJob(j)
      /\ UNCHANGED <<stored, services, reports, pc, iteration, history>>
  BY DEF RequestRelease, Known
<1>2. saving = None /\ mem' = NoJobs /\ UNCHANGED <<rec, drift>>
  BY <1>1, NoObjects DEF iteration, stored, history
<1> QED BY <1>1, <1>2, ReleaseBalanced, NothingLoaded DEF Balance
-----------------------------------------------------------------------------
LEMMA SaveBalance == ASSUME Inv, Balance, Save PROVE Balance'
<1> DEFINE j == saving.job
           r == saving.rec
<1>1. /\ saving # None /\ saving' = None /\ SaveJob(j, r)
      /\ UNCHANGED <<free, mem, pc, drift>>
  BY DEF Save, iteration, history
<1>2. j \in Jobs /\ r \in Records /\ rec[j] # None
  BY <1>1 DEF Inv, IInv, ManagerTypeOK, Unsaved, SavingSound
<1>3. /\ rec'[j] = r /\ r # None /\ \A k \in Jobs : k # j => rec'[k] = rec[k]
  BY <1>1, <1>2, SaveJobFacts, RecordFacts DEF Inv, IInv
<1>4. \A k \in Jobs : rec[k] # None => AllocOf(k)' = AllocOf(k)
  BY <1>1, <1>3 DEF AllocOf
<1> QED BY <1>1, <1>2, <1>3, <1>4, SameGrants

LEMMA LoadBalance == ASSUME Inv, Balance, Load PROVE Balance'
<1>1. /\ saving = None /\ UNCHANGED <<rec, free, saving, drift>>
      /\ mem' = [j \in Jobs |-> IF j \in active THEN rec[j] ELSE None]
  BY DEF Load, At, stored, history
<1>2. \A k \in Jobs : AllocOf(k)' = AllocOf(k) /\ AllocOf(k) = rec[k].alloc
  BY <1>1 DEF AllocOf
<1>3. Balanced'
  BY <1>1, <1>2, GrantsKept DEF Balance
<1>4. ObjectsAgree'
  BY <1>1, <1>2 DEF ObjectsAgree
<1> QED BY <1>3, <1>4 DEF Balance

\* The step of a job that has its CPUs by its object is changed.
LEMMA ChangeBalance ==
  ASSUME Inv, Balance, NEW j \in Loaded, NEW r \in Records, r.alloc = AllocOf(j),
         mem[j].alloc = AllocOf(j), saving = None, Change(j, r),
         pc \in Early \/ ~ShouldReleaseResources(mem[j].status),
         UNCHANGED <<rec, free, pc, drift>>
  PROVE  Balance'
<1>1. j \in Jobs /\ mem[j] # None /\ mem \in [Jobs -> Records \union {None}]
  BY DEF Loaded, Inv, IInv, ManagerTypeOK
<1>2. /\ mem' = [mem EXCEPT ![j] = r]
      /\ saving' = [job |-> j, rec |-> r]
  BY DEF Change
<1>3. saving' # None /\ saving'.job = j /\ saving'.rec = r
  BY <1>1, <1>2, NoneAssumption DEF Unsaved
<1>4. \A k \in Jobs : AllocOf(k)' = AllocOf(k)
  BY <1>3 DEF AllocOf
<1> QED BY <1>1, <1>2, <1>4, SameGrants

LEMMA StopJobBalance == ASSUME Inv, Balance, NEW j \in Jobs, StopJob(j) PROVE Balance'
<1>1. /\ pc = "stop" /\ saving = None /\ j \in Loaded
      /\ UNCHANGED <<stored, free, reports, pc, todo, skipped, bump, history>>
  BY DEF StopJob, At, AtStep
<1>2. PICK s \in {"STOPPED", "FAILED"} : Change(j, StepTo(mem[j], s))
  BY DEF StopJob
<1>3. mem[j] \in Records /\ mem[j] # None /\ s \in Steps
  BY <1>1, LoadedFacts, RecordFacts DEF Inv, Steps
<1>4. /\ StepTo(mem[j], s) \in Records /\ StepTo(mem[j], s).alloc = mem[j].alloc
  BY <1>3, StepToFacts
<1>5. mem[j].alloc = AllocOf(j)
  BY <1>1, <1>3, AgreeFacts DEF Balance, Early
<1> QED BY <1>1, <1>2, <1>4, <1>5, ChangeBalance DEF Early, stored, history

LEMMA StartJobBalance == ASSUME Inv, Balance, NEW j \in Jobs, StartJob(j) PROVE Balance'
<1>1. /\ saving = None /\ j \in Loaded /\ mem[j].status.step = "AWAITING_SCHEDULING"
      /\ UNCHANGED <<stored, free, reports, pc, todo, skipped, bump, history>>
  BY DEF StartJob, At, AtStep
<1>2. PICK s \in {"SCHEDULED", "FAILED"} : Change(j, StepTo(mem[j], s))
  BY DEF StartJob
<1>3. mem[j] \in Records /\ mem[j] # None /\ Sound(mem[j]) /\ s \in Steps
  BY <1>1, LoadedFacts, RecordFacts DEF Inv, Steps
<1>4. /\ StepTo(mem[j], s) \in Records /\ StepTo(mem[j], s).alloc = mem[j].alloc
  BY <1>3, StepToFacts
<1>5. mem[j].alloc = AllocOf(j)
  BY <1>1, <1>3, AgreeFacts DEF Balance
<1>6. ~ShouldReleaseResources(mem[j].status)
  BY <1>1, <1>3 DEF ShouldReleaseResources, Sound
<1> QED BY <1>1, <1>2, <1>4, <1>5, <1>6, ChangeBalance DEF stored, history

\* Steps of the loop that change neither records nor what objects say of
\* status and CPUs.
LEMMA LoopBalance ==
  ASSUME Inv, Balance, UNCHANGED <<rec, free, saving, drift>>,
         \A k \in Jobs : mem'[k] # None =>
            mem[k] # None /\ mem'[k].alloc = mem[k].alloc /\ mem'[k].status = mem[k].status,
         pc' \in Early => pc \in Early
  PROVE  Balance'
<1>1. \A k \in Jobs : AllocOf(k)' = AllocOf(k)
  BY DEF AllocOf
<1> QED BY <1>1, SameGrants

LEMMA StopDoneBalance == ASSUME Inv, Balance, StopDone PROVE Balance'
  BY LoopBalance DEF StopDone, At, Early, stored, iteration, history

LEMMA OrganizeDoneBalance == ASSUME Inv, Balance, OrganizeDone PROVE Balance'
  BY LoopBalance DEF OrganizeDone, At, Early, stored, history

LEMMA UnlockBalance == ASSUME Inv, Balance, Unlock PROVE Balance'
  BY StillBalance DEF Unlock, stored, history

LEMMA PruneBalance == ASSUME Inv, Balance, Prune PROVE Balance'
<1>1. PICK stay \in SUBSET Completing :
         LET gone == Completing \ stay
         IN  /\ rec' = [j \in Jobs |-> IF j \in gone THEN mem[j] ELSE rec[j]]
             /\ mem' = [j \in Jobs |-> IF j \in gone THEN None ELSE mem[j]]
  BY DEF Prune
<1>2. /\ pc = "prune" /\ saving = None /\ pc' = "organize"
      /\ UNCHANGED <<free, saving, drift>>
  BY DEF Prune, At, history
<1> DEFINE gone == Completing \ stay
<1>3. \A k \in gone : k \in Jobs /\ mem[k] # None /\ rec[k] # None
  BY DEF Completing, Loaded, Inv, IInv, ObjectsSound
<1>4. \A k \in gone : mem[k].alloc = AllocOf(k)
  BY <1>2, <1>3, AgreeFacts DEF Balance, Early
<1>5. /\ \A k \in Jobs : rec'[k] = IF k \in gone THEN mem[k] ELSE rec[k]
      /\ \A k \in Jobs : mem'[k] = IF k \in gone THEN None ELSE mem[k]
  BY <1>1
<1> HIDE DEF gone
<1>6. \A k \in Jobs : rec[k] # None => AllocOf(k)' = AllocOf(k)
  BY <1>2, <1>4, <1>5 DEF AllocOf
<1>7. \A k \in Jobs : rec'[k] # None <=> rec[k] # None
  BY <1>3, <1>5
<1>8. \A k \in Jobs : mem'[k] # None => mem[k] # None /\ mem'[k].alloc = mem[k].alloc
  BY <1>5
<1> QED BY <1>2, <1>6, <1>7, <1>8, SameGrants DEF Early

LEMMA OrganizeBalance == ASSUME Inv, Balance, NEW j \in Jobs, Organize(j) PROVE Balance'
<1> DEFINE r == Organized(mem[j])
<1>1. /\ pc = "organize" /\ saving = None /\ j \in Loaded
      /\ UNCHANGED <<free, pc, saving, drift>>
  BY DEF Organize, At, Inv, IInv, QueuesSound, history
<1>2. j \in Jobs /\ mem[j] \in Records /\ mem[j] # None /\ Sound(mem[j]) /\ rec[j] # None
  BY <1>1, LoadedFacts, RecordFacts DEF Inv
<1>3. r \in Records /\ r # None /\ r.alloc = mem[j].alloc
  BY <1>2, OrganizedFacts, RecordFacts
<1>4. mem[j].alloc = AllocOf(j)
  BY <1>1, <1>2, AgreeFacts DEF Balance, Early
<1> HIDE DEF r
<1>5. CASE UNCHANGED <<stored, mem>>
  BY <1>1, <1>5, StillBalance DEF stored
<1>6. CASE SaveJob(j, r) /\ mem' = [mem EXCEPT ![j] = r]
  <2>1. /\ rec'[j] = r /\ \A k \in Jobs : k # j => rec'[k] = rec[k]
    BY <1>3, <1>6, SaveJobFacts DEF Inv, IInv
  <2>2. \A k \in Jobs : AllocOf(k)' = AllocOf(k)
    BY <1>1, <1>3, <1>4, <2>1 DEF AllocOf
  <2>3. \A k \in Jobs : rec'[k] # None <=> rec[k] # None
    BY <1>2, <1>3, <2>1
  <2>4. mem \in [Jobs -> Records \union {None}]
    BY DEF Inv, IInv, ManagerTypeOK
  <2>5. \A k \in Jobs : mem'[k] # None => mem[k] # None /\ mem'[k].alloc = mem[k].alloc
    BY <1>2, <1>3, <1>6, <2>4
  <2> QED BY <1>1, <2>2, <2>3, <2>5, SameGrants DEF Early
<1> QED BY <1>5, <1>6 DEF Organize, r

LEMMA BuildQueuesBalance == ASSUME Inv, Balance, BuildQueues PROVE Balance'
<1>1. pc' = "high" /\ UNCHANGED <<rec, free, saving, drift>>
  BY DEF BuildQueues, stored, history
<1>2. PICK aged \in SUBSET Eligible :
         mem' = [j \in Jobs |-> IF j \in aged
                     THEN [mem[j] EXCEPT !.priority = Capped(@ + AgeBoost)] ELSE mem[j]]
  BY DEF BuildQueues
<1>3. aged \in SUBSET Loaded /\ AgeBoost \in Nat
  BY ManagerAssumption DEF Eligible, AtStep
<1>4. /\ \A j \in Jobs : mem'[j] # None <=> mem[j] # None
      /\ \A j \in Loaded : mem'[j].status = mem[j].status /\ mem'[j].alloc = mem[j].alloc
  BY <1>2, <1>3, ReprioritizedFacts DEF Inv
<1> QED BY <1>1, <1>4, LoopBalance DEF Early, Loaded

LEMMA QueueDoneBalance == ASSUME Inv, Balance, QueueDone PROVE Balance'
<1>1. /\ pc' \notin Early /\ saving = None /\ UNCHANGED <<free, saving, drift>>
      /\ mem' = [j \in Jobs |-> IF j \in bump
                   THEN [mem[j] EXCEPT !.priority = Capped(@ + 1)] ELSE mem[j]]
      /\ rec' = [j \in Jobs |-> IF j \in bump THEN mem'[j] ELSE rec[j]]
  BY DEF QueueDone, NextQueue, Early, history
<1>2. bump \subseteq Eligible /\ bump \in SUBSET Loaded
  BY DEF Inv, IInv, QueuesSound, Eligible, AtStep
<1>3. /\ \A j \in Jobs : mem'[j] # None <=> mem[j] # None
      /\ \A j \in Loaded : mem'[j].status = mem[j].status /\ mem'[j].alloc = mem[j].alloc
  BY <1>1, <1>2, ReprioritizedFacts DEF Inv
<1>4. \A k \in bump : k \in Jobs /\ k \in Loaded /\ mem[k] # None /\ rec[k] # None
  BY <1>2 DEF Loaded, Inv, IInv, ObjectsSound
<1>5. \A k \in bump : mem[k].alloc = AllocOf(k)
  <2> SUFFICES ASSUME NEW k \in bump PROVE mem[k].alloc = AllocOf(k)
    OBVIOUS
  <2>1. /\ mem[k] \in Records /\ Sound(mem[k])
        /\ mem[k].status.step = "AWAITING_ALLOCATION"
    BY <1>2, <1>4, LoadedFacts DEF Inv, Eligible, AtStep
  <2> QED BY <1>4, <2>1, AgreeFacts DEF Balance
<1>6. \A k \in Jobs : rec'[k] # None <=> rec[k] # None
  BY <1>1, <1>3, <1>4
<1>7. \A k \in Jobs : rec[k] # None => AllocOf(k)' = AllocOf(k)
  BY <1>1, <1>3, <1>4, <1>5 DEF AllocOf
<1> QED BY <1>1, <1>3, <1>6, <1>7, SameGrants DEF Loaded

LEMMA ReleaseCompletedBalance ==
  ASSUME Inv, Balance, NEW j \in Jobs, ReleaseCompleted(j) PROVE Balance'
<1>1. /\ pc = "release" /\ saving = None /\ j \in Loaded
      /\ ShouldReleaseResources(mem[j].status)
  BY DEF ReleaseCompleted, At, Inv, IInv, QueuesSound
<1>2. CASE Raise /\ UNCHANGED <<free, drift>>
  BY <1>1, <1>2, StillBalance DEF Raise, Restarted, stored
<1>3. CASE /\ ReleaseJob(j)
           /\ UNCHANGED <<stored, services, reports, pc, mem, skipped, bump, history>>
  <2>1. j \in Jobs /\ rec[j] # None /\ UNCHANGED <<rec, drift, pc, mem>>
    BY <1>1, <1>3, LoadedFacts DEF Inv, stored, history
  <2>2. Balanced'
    BY <1>1, <1>3, <2>1, ReleaseBalanced
  <2>3. rec[j] \in Records
    BY <2>1 DEF Inv, IInv, ManagerTypeOK
  <2>4. saving' = [job |-> j, rec |-> [rec[j] EXCEPT !.alloc = FALSE]] /\ saving'.job = j
    BY <1>3 DEF ReleaseJob
  <2>5. \A k \in Jobs : k # j => AllocOf(k)' = AllocOf(k)
    BY <1>1, <2>1, <2>4 DEF AllocOf
  <2>6. ObjectsAgree'
    BY <1>1, <2>1, <2>5 DEF Balance, ObjectsAgree, Early
  <2> QED BY <2>2, <2>6 DEF Balance
<1> QED BY <1>2, <1>3 DEF ReleaseCompleted

LEMMA AllocateBalance == ASSUME Inv, Balance, NEW j \in Jobs, Allocate(j) PROVE Balance'
<1>1. /\ pc \in Queues /\ saving = None /\ j \in Eligible /\ j \in Loaded
      /\ UNCHANGED <<rec, pc, drift>>
  BY DEF Allocate, Inv, IInv, QueuesSound, Queues, Eligible, AtStep, stored, history
<1>2. CASE UNCHANGED <<free, saving, mem>>
  BY <1>1, <1>2, StillBalance
<1>3. CASE /\ free' = free - Cpus[j]
           /\ Change(j, [StepTo(mem[j], "AWAITING_DATA") EXCEPT !.alloc = TRUE])
  <2> DEFINE r == [StepTo(mem[j], "AWAITING_DATA") EXCEPT !.alloc = TRUE]
  <2>1. /\ mem[j] \in Records /\ mem[j] # None /\ Sound(mem[j]) /\ rec[j] # None
        /\ mem[j].status.step = "AWAITING_ALLOCATION" /\ ~mem[j].alloc
    BY <1>1, LoadedFacts, RecordFacts DEF Inv, Eligible, AtStep
  <2>2. r \in Records /\ r.alloc
    <3>1. StepTo(mem[j], "AWAITING_DATA") \in Records
      BY <2>1, StepToFacts DEF Steps
    <3> QED BY <3>1 DEF Records
  <2> HIDE DEF r
  <2>3. mem' = [mem EXCEPT ![j] = r] /\ saving' = [job |-> j, rec |-> r]
    BY <1>3 DEF Change, r
  <2>4. saving' # None /\ saving'.job = j /\ saving'.rec = r
    BY <2>2, <2>3, NoneAssumption DEF Unsaved
  <2>5. ~AllocOf(j) /\ AllocOf(j)'
    BY <2>1, <2>2, <2>4, AgreeFacts DEF Balance, AllocOf
  <2>6. \A k \in Jobs : k # j => AllocOf(k)' = AllocOf(k)
    BY <1>1, <2>4 DEF AllocOf
  <2>7. free \in Int /\ drift \in Int /\ Cpus[j] \in Nat
    BY ManagerAssumption DEF Inv, IInv, ManagerTypeOK
  <2>8. GrantOf(j) = 0 /\ GrantOf(j)' = Cpus[j]
    BY <1>1, <2>1, <2>5 DEF GrantOf, Granted
  <2>9. free' \in Int /\ free' + drift' + GrantOf(j)' = free + drift + GrantOf(j)
    BY <1>1, <1>3, <2>7, <2>8
  <2>10. Balanced'
    BY <1>1, <2>6, <2>7, <2>9, OneGrantMoves DEF Balance
  <2>11. \A k \in Jobs : k # j => mem'[k] = mem[k]
    BY <2>3 DEF Inv, IInv, ManagerTypeOK
  <2>12. mem'[j].alloc = AllocOf(j)'
    BY <2>1, <2>2, <2>3, <2>5, RecordFacts DEF Inv, IInv, ManagerTypeOK, AllocOf
  <2>13. ObjectsAgree'
    BY <1>1, <2>6, <2>11, <2>12 DEF Balance, ObjectsAgree
  <2> QED BY <2>10, <2>13 DEF Balance
<1> QED BY <1>2, <1>3 DEF Allocate

LEMMA AllocateFailsBalance ==
  ASSUME Inv, Balance, NEW j \in Jobs, AllocateFails(j) PROVE Balance'
<1>1. /\ saving = None /\ saving' = None /\ mem' = NoJobs /\ UNCHANGED rec
  BY DEF AllocateFails, Raise, Restarted, stored
<1>2. CASE UNCHANGED <<free, drift>>
  BY <1>1, <1>2, StillBalance
<1>3. CASE free' = free - Cpus[j] /\ drift' = drift + Cpus[j]
  <2>1. free \in Int /\ drift \in Int /\ Cpus[j] \in Nat
    BY ManagerAssumption DEF Inv, IInv, ManagerTypeOK
  <2>2. \A k \in Jobs : AllocOf(k)' = AllocOf(k)
    BY <1>1 DEF AllocOf
  <2>3. GrantOf(j)' = GrantOf(j) /\ GrantOf(j) \in Int
    BY <1>1, <2>1, <2>2 DEF GrantOf, Granted
  <2>4. free' + drift' + GrantOf(j)' = free + drift + GrantOf(j)
    BY <1>3, <2>1, <2>3
  <2> QED BY <1>1, <1>3, <2>1, <2>2, <2>4, OneGrantMoves, NothingLoaded DEF Balance
<1> QED BY <1>2, <1>3 DEF AllocateFails

LEMMA LoadFailsBalance == ASSUME Inv, Balance, LoadFails PROVE Balance'
  BY StillBalance DEF LoadFails, At, Raise, Restarted, stored

\* A death enters in drift what it leaves without a save.
LEMMA CrashBalance == ASSUME Inv, Balance, Crash PROVE Balance'
<1>1. /\ mem' = NoJobs /\ saving' = None /\ drift' = drift + UnsavedCpus
      /\ UNCHANGED <<rec, free>>
  BY DEF Crash, Restarted, stored
<1>2. free \in Int /\ drift \in Int
  BY DEF Inv, IInv, ManagerTypeOK
<1>3. CASE saving = None
  <2>1. UNCHANGED drift
    BY <1>1, <1>2, <1>3 DEF UnsavedCpus
  <2> QED BY <1>1, <1>3, <2>1, StillBalance
<1>4. CASE saving # None
  <2>0. saving.job \in Jobs
    BY <1>4 DEF Inv, IInv, ManagerTypeOK, Unsaved
  <2> PICK j \in Jobs : j = saving.job
    BY <2>0
  <2> DEFINE r == saving.rec
  <2>1. j \in Jobs /\ rec[j] # None /\ Cpus[j] \in Nat
    BY <1>4, ManagerAssumption DEF Inv, IInv, ManagerTypeOK, Unsaved, SavingSound
  <2>2. r.alloc \in BOOLEAN /\ rec[j].alloc \in BOOLEAN
    BY <1>4, <2>1, RecordFacts DEF Inv, IInv, ManagerTypeOK, Unsaved
  <2>3. GrantOf(j) = IF r.alloc THEN Cpus[j] ELSE 0
    BY <1>4, <2>1 DEF GrantOf, Granted, AllocOf
  <2>4. GrantOf(j)' = IF rec[j].alloc THEN Cpus[j] ELSE 0
    BY <1>1, <2>1 DEF GrantOf, Granted, AllocOf
  <2>5. \A k \in Jobs \ {j} :
           (rec'[k] # None /\ AllocOf(k)') <=> (rec[k] # None /\ AllocOf(k))
    BY <1>1, <1>4 DEF AllocOf
  <2>6. drift' = drift + (IF r.alloc = rec[j].alloc THEN 0
                          ELSE IF r.alloc THEN Cpus[j] ELSE -Cpus[j])
    BY <1>1, <1>4 DEF UnsavedCpus
  <2> HIDE DEF r
  <2>7. CASE r.alloc = rec[j].alloc
    <3>1. drift' = drift /\ GrantOf(j)' = GrantOf(j) /\ GrantOf(j) \in Int
      BY <1>2, <2>1, <2>3, <2>4, <2>6, <2>7
    <3> QED BY <1>1, <1>2, <2>1, <2>5, <3>1, OneGrantMoves, NothingLoaded DEF Balance
  <2>8. CASE r.alloc /\ ~rec[j].alloc
    <3>1. drift' = drift + Cpus[j] /\ GrantOf(j) = Cpus[j] /\ GrantOf(j)' = 0
      BY <2>3, <2>4, <2>6, <2>8
    <3>2. free' + drift' + GrantOf(j)' = free + drift + GrantOf(j) /\ drift' \in Int
      BY <1>1, <1>2, <2>1, <3>1
    <3> QED BY <1>1, <1>2, <2>1, <2>5, <3>2, OneGrantMoves, NothingLoaded DEF Balance
  <2>9. CASE ~r.alloc /\ rec[j].alloc
    <3>1. drift' = drift + (-Cpus[j]) /\ GrantOf(j) = 0 /\ GrantOf(j)' = Cpus[j]
      BY <2>3, <2>4, <2>6, <2>9
    <3>2. free' + drift' + GrantOf(j)' = free + drift + GrantOf(j) /\ drift' \in Int
      BY <1>1, <1>2, <2>1, <3>1
    <3> QED BY <1>1, <1>2, <2>1, <2>5, <3>2, OneGrantMoves, NothingLoaded DEF Balance
  <2> QED BY <2>2, <2>7, <2>8, <2>9
<1> QED BY <1>3, <1>4

\* A save of a stale copy enters in drift what the copy is wrong about.
LEMMA MoveOnBalance == ASSUME Inv, Balance, NEW j \in Jobs, MoveOn(j) PROVE Balance'
<1>1. /\ At("idle") /\ snap[j] # None /\ drift' = drift + OverwrittenCpus(j)
      /\ UNCHANGED <<free, saving, mem>>
  BY DEF MoveOn, iteration
<1>2. snap[j] \in Records /\ Sound(snap[j]) /\ snap[j].status.step \in DOMAIN MovesOn
  BY <1>1 DEF Inv, TypeOK, SnapshotsSound
<1>3. PICK s \in MovesOn[snap[j].status.step] : SaveJob(j, StepTo(snap[j], s))
  BY DEF MoveOn
<1>4. s \in Steps
  BY <1>2, WaitingFacts
<1>5. StepTo(snap[j], s) \in Records /\ StepTo(snap[j], s).alloc = snap[j].alloc
  BY <1>2, <1>4, StepToFacts
<1>6. drift \in Int /\ Cpus[j] \in Nat
  BY ManagerAssumption DEF Inv, IInv, ManagerTypeOK
<1>7. Held(j) \in Int /\ (IF snap[j].alloc THEN Cpus[j] ELSE 0) \in Int
  BY <1>6 DEF Held
<1>8. drift' = drift + (Held(j) - (IF snap[j].alloc THEN Cpus[j] ELSE 0))
  BY <1>1 DEF OverwrittenCpus, Held
<1>9. drift' \in Int /\ drift' = drift + Held(j) - (IF StepTo(snap[j], s).alloc THEN Cpus[j] ELSE 0)
  BY <1>5, <1>6, <1>7, <1>8
<1> QED BY <1>1, <1>3, <1>5, <1>9, StoreBalance

LEMMA ServiceBalance == ASSUME Inv, Balance, ServiceStep PROVE Balance'
<1>1. ASSUME NEW s \in DOMAIN MovesOn, Serve(s) PROVE Balance'
  BY <1>1, StillBalance DEF Serve, stored, iteration, history
<1>2. CASE ServiceEnds
  BY <1>2, StillBalance DEF ServiceEnds, stored, iteration, history
<1> QED BY <1>1, <1>2, MoveOnBalance DEF ServiceStep

LEMMA ManagerBalance == ASSUME Inv, Balance, ManagerStep PROVE Balance'
<1>1. CASE Iterate
  BY <1>1, LoadBalance, LoadFailsBalance, StopDoneBalance, PruneBalance,
     OrganizeDoneBalance, BuildQueuesBalance, QueueDoneBalance, UnlockBalance,
     StopJobBalance, OrganizeBalance, ReleaseCompletedBalance, AllocateBalance,
     AllocateFailsBalance, StartJobBalance
  DEF Iterate
<1>2. ASSUME NEW j \in Jobs, Request(j) PROVE Balance'
  BY <1>2, CreateBalance, RequestStopBalance, RequestRestartBalance,
     RequestReleaseBalance, RequestBalance DEF Request
<1> QED BY <1>1, <1>2, SaveBalance, CrashBalance, UpdateLateBalance DEF ManagerStep, LoopStep
-----------------------------------------------------------------------------
(***************************************************************************)
(* With prompt update messages, no job that fills nodes and no death, no   *)
(* CPU is ever lost, so that the resource record can always be read, and   *)
(* nothing raises.                                                         *)
(***************************************************************************)
Calm == PromptReports /\ FillJobs = {} /\ crashes = 0

NoLoss == Calm => drift = 0 /\ ~raised

LEMMA Readable == ASSUME Inv, Balance, drift = 0 PROVE ~Unreadable
<1> DEFINE sum == SumOf(Cpus, Granted)
<1>1. Granted \subseteq Jobs /\ IsFiniteSet(Granted)
  BY DEF Granted, Balance, Balanced
<1>2. sum \in Nat
  BY <1>1, SumType, ManagerAssumption
<1>3. free + sum + drift = PoolCpus
  BY DEF Balance, Balanced
<1> HIDE DEF sum
<1>4. free \in Int /\ PoolCpus \in Nat
  BY ManagerAssumption DEF Inv, IInv, ManagerTypeOK
<1> QED BY <1>2, <1>3, <1>4 DEF Unreadable

LEMMA NoLossKept == ASSUME Inv, Balance, NoLoss, [Next]_vars PROVE NoLoss'
<1>1. CASE UNCHANGED <<drift, raised, crashes>>
  BY <1>1 DEF NoLoss, Calm
<1>2. CASE Crash
  <2>1. crashes \in Nat /\ crashes' = crashes + 1
    BY <1>2, ManagerAssumption DEF Crash, Inv, IInv, ManagerTypeOK
  <2>2. crashes' # 0
    BY <2>1
  <2> QED BY <2>2 DEF NoLoss, Calm
<1>3. ASSUME Raise, Calm, LoadFails \/ Unreadable \/ FillJobs # {} PROVE FALSE
  <2>1. ~Unreadable
    BY <1>3, Readable DEF NoLoss
  <2>2. ~LoadFails
    BY DEF LoadFails, Inv, IInv, ManagerTypeOK, ActiveSetExact
  <2> QED BY <1>3, <2>1, <2>2 DEF Calm
<1>4. ASSUME Raise, LoadFails \/ Unreadable \/ FillJobs # {} PROVE NoLoss'
  <2>1. Calm' <=> Calm
    BY <1>4 DEF Raise, Calm
  <2> QED BY <1>3, <1>4, <2>1 DEF NoLoss
<1>5. ASSUME NEW j \in Jobs, MoveOn(j) PROVE NoLoss'
  <2>1. snap[j] # None /\ drift' = drift + OverwrittenCpus(j) /\ UNCHANGED <<raised, crashes>>
    BY <1>5 DEF MoveOn
  <2>2. ASSUME Calm PROVE OverwrittenCpus(j) = 0
    <3>1. rec[j] = snap[j]
      BY <2>1, <2>2 DEF Inv, SnapshotsSound, Steady, Calm
    <3>2. Cpus[j] \in Nat
      BY ManagerAssumption
    <3> QED BY <2>1, <3>1, <3>2 DEF OverwrittenCpus
  <2>3. drift \in Int
    BY DEF Inv, IInv, ManagerTypeOK
  <2> QED BY <2>1, <2>2, <2>3 DEF NoLoss, Calm
<1>6. CASE ServiceStep
  BY <1>1, <1>5, <1>6 DEF ServiceStep, Serve, ServiceEnds, history
<1>7. CASE Save
  BY <1>1, <1>7 DEF Save, history
<1>8. CASE Iterate
  <2>1. CASE LoadFails
    BY <1>4, <2>1 DEF LoadFails
  <2>2. ASSUME NEW j \in Jobs, ReleaseCompleted(j) PROVE NoLoss'
    BY <1>1, <1>4, <2>2 DEF ReleaseCompleted, history
  <2>3. ASSUME NEW j \in Jobs, AllocateFails(j) PROVE NoLoss'
    BY <1>4, <2>3 DEF AllocateFails
  <2>4. ASSUME NEW j \in Jobs, StopJob(j) \/ Organize(j) \/ Allocate(j) \/ StartJob(j)
        PROVE  NoLoss'
    BY <1>1, <2>4 DEF StopJob, Organize, Allocate, StartJob, history
  <2>5. CASE Load \/ StopDone \/ Prune \/ OrganizeDone \/ BuildQueues \/ QueueDone \/ Unlock
    BY <1>1, <2>5 DEF Load, StopDone, Prune, OrganizeDone, BuildQueues, QueueDone, Unlock, history
  <2> QED BY <1>8, <2>1, <2>2, <2>3, <2>4, <2>5 DEF Iterate
<1>9. ASSUME NEW j \in Jobs, Request(j) PROVE NoLoss'
  BY <1>1, <1>9 DEF Request, Create, RequestStop, RequestRestart, RequestRelease, Report,
                    UpdateAtOnce, Handle, history
<1>10. ASSUME NEW m \in reports, UpdateLate(m) PROVE NoLoss'
  BY <1>1, <1>10 DEF UpdateLate, history
<1>11. CASE UNCHANGED vars
  BY <1>1, <1>11 DEF vars, history
<1> QED BY <1>2, <1>6, <1>7, <1>8, <1>9, <1>10, <1>11 DEF Next, ManagerStep, LoopStep

LEMMA InitBalance == Init => Balance /\ NoLoss
<1> SUFFICES ASSUME Init PROVE Balance /\ NoLoss
  OBVIOUS
<1>1. Granted = {} /\ free = PoolCpus /\ drift = 0 /\ mem = NoJobs /\ ~raised
  BY DEF Init, Granted, NoJobs
<1>2. IsFiniteSet({}) /\ SumOf(Cpus, {}) = 0
  BY FS_EmptySet, SumUnfolds
<1>3. PoolCpus + 0 + 0 = PoolCpus
  BY ManagerAssumption
<1>4. Balanced
  BY <1>1, <1>2, <1>3 DEF Balanced
<1> QED BY <1>1, <1>4 DEF Balance, ObjectsAgree, NoLoss, NoJobs

\* The grants are those of the records and the one that waits for its save.
LEMMA BalanceConserves == ASSUME Inv, Balance, NoLoss PROVE Conservation
<1> DEFINE held == SumOf(Cpus, Holders)
           sum == SumOf(Cpus, Granted)
<1>1. free \in Int /\ drift \in Int /\ PoolCpus \in Int /\ UnsavedCpus \in Int
  <2>1. saving # None => Cpus[saving.job] \in Nat
    BY ManagerAssumption DEF Inv, IInv, ManagerTypeOK, Unsaved
  <2> QED BY <2>1, ManagerAssumption DEF UnsavedCpus, Inv, IInv, ManagerTypeOK
<1>2. Granted \in SUBSET Jobs /\ IsFiniteSet(Granted) /\ Holders \in SUBSET Jobs
  BY DEF Granted, Holders, Balance, Balanced
<1>3. sum \in Nat
  BY <1>2, SumType, ManagerAssumption
<1>4. free + sum + drift = PoolCpus
  BY DEF Balance, Balanced
<1>5. held \in Nat /\ held + UnsavedCpus = sum
  <2> DEFINE j == saving.job
             r == saving.rec
             c == Cpus[j]
  <2>1. CASE saving = None
    <3>1. Holders = Granted
      BY <2>1 DEF Holders, Granted, AllocOf
    <3>2. held = sum /\ UnsavedCpus = 0
      BY <2>1, <3>1 DEF UnsavedCpus
    <3> HIDE DEF held, sum
    <3> QED BY <1>3, <3>2
  <2>2. ASSUME saving # None
        PROVE  /\ j \in Jobs /\ rec[j] # None /\ c \in Nat
               /\ r.alloc \in BOOLEAN /\ rec[j].alloc \in BOOLEAN
               /\ j \in Granted <=> r.alloc
               /\ j \in Holders <=> rec[j].alloc
               /\ \A k \in Jobs : k # j => (k \in Granted <=> k \in Holders)
    <3>1. j \in Jobs /\ rec[j] # None /\ c \in Nat
      BY <2>2, ManagerAssumption DEF Inv, IInv, ManagerTypeOK, Unsaved, SavingSound
    <3>2. r.alloc \in BOOLEAN /\ rec[j].alloc \in BOOLEAN
      BY <2>2, <3>1, RecordFacts DEF Inv, IInv, ManagerTypeOK, Unsaved
    <3> QED BY <2>2, <3>1, <3>2 DEF Granted, Holders, AllocOf
  <2>3. CASE saving # None /\ r.alloc = rec[j].alloc
    <3>1. \A k \in Jobs : k \in Granted <=> k \in Holders
      BY <2>2, <2>3
    <3>2. Holders = Granted
      BY <1>2, <3>1
    <3>3. held = sum /\ UnsavedCpus = 0
      BY <2>3, <3>2 DEF UnsavedCpus
    <3> HIDE DEF held, sum
    <3> QED BY <1>3, <3>3
  <2>4. CASE saving # None /\ r.alloc /\ ~rec[j].alloc
    <3>1. j \in Granted /\ c \in Nat
      BY <2>2, <2>4
    <3>2. Holders = Granted \ {j}
      BY <1>2, <2>2, <2>4
    <3>3. UnsavedCpus = c
      BY <2>2, <2>4 DEF UnsavedCpus
    <3>4. held \in Nat /\ sum = c + held
      BY <1>2, <3>1, <3>2, ReleaseSum
    <3> HIDE DEF held, sum, c
    <3> QED BY <1>3, <3>1, <3>3, <3>4
  <2>5. CASE saving # None /\ ~r.alloc /\ rec[j].alloc
    <3>1. j \in Jobs \ Granted /\ c \in Nat
      BY <2>2, <2>5
    <3>2. Holders = Granted \union {j}
      BY <1>2, <2>2, <2>5
    <3>3. UnsavedCpus = -c
      BY <2>2, <2>5 DEF UnsavedCpus
    <3>4. held \in Nat /\ held = sum + c
      BY <1>2, <3>1, <3>2, GrantSum
    <3> HIDE DEF held, sum, c
    <3> QED BY <1>3, <3>1, <3>3, <3>4
  <2> QED BY <2>1, <2>2, <2>3, <2>4, <2>5
<1> HIDE DEF held, sum
<1>6. free + held + UnsavedCpus + drift = PoolCpus
  BY <1>1, <1>3, <1>4, <1>5
<1>7. free + MapThenSumSet(LAMBDA x : Cpus[x], Holders) + UnsavedCpus + drift = PoolCpus
  BY <1>6, Zenon DEF held, SumOf
<1> QED BY <1>7 DEF Conservation, NoLoss, Calm

(***************************************************************************)
(* CPUs are neither lost nor given out twice: what the pool has left, what *)
(* the records of jobs hold, the grant or release that waits for its save  *)
(* and the named losses of deaths, FILL_NODES and stale saves add up to    *)
(* the pool, for any number of jobs and any interleaving of the loop, the  *)
(* handlers and the other services; and without those losses no iteration  *)
(* of the loop raises.                                                     *)
(***************************************************************************)
THEOREM CpusAreConserved == Spec => []Conservation
<1>1. Init => Balance /\ NoLoss
  BY InitBalance
<1>2. Inv /\ Balance /\ NoLoss /\ [Next]_vars => Balance' /\ NoLoss'
  <2> SUFFICES ASSUME Inv, Balance, NoLoss, [Next]_vars PROVE Balance' /\ NoLoss'
    OBVIOUS
  <2>1. ASSUME UNCHANGED vars PROVE Balance'
    BY <2>1, StillBalance DEF vars, stored, iteration, history
  <2>2. ASSUME Next PROVE Balance'
    BY <2>2, ManagerBalance, ServiceBalance DEF Next
  <2>3. NoLoss'
    BY NoLossKept
  <2> QED BY <2>1, <2>2, <2>3
<1>3. Inv /\ Balance /\ NoLoss => Conservation
  BY BalanceConserves
<1> QED BY <1>1, <1>2, <1>3, JobManagerInvariant, PTL DEF Spec
=============================================================================
