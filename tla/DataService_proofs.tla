-------------------------- MODULE DataService_proofs --------------------------
(***************************************************************************)
(* Proofs about the data service.                                          *)
(***************************************************************************)
EXTENDS DataService, FiniteSetTheorems, TLAPS

-----------------------------------------------------------------------------
(* The inductive invariant *)

\* The users a dataset has on record are those that have it on record.
LinksAgree == \A j \in Jobs, n \in Names : j \in usage[n] <=> n \in links[j]

\* Memory and object store agree, but for buckets that say nothing.
StoresAgree == \A n \in Names : \/ bucket[n] = known[n]
                                \/ known[n] = Absent /\ bucket[n] = Bare

\* Nothing is written into a job before its check ends.
UncheckedJobs == \A j \in Jobs : step[j] \in {"NEW", "AWAITING_DATA_CHECK"} =>
                    \A k \in Kinds : filled[j][k] = None

LinkedJobs == \A j \in PastCheck \ forgotten : \A k \in Needs[j] :
                 filled[j][k] # None => filled[j][k] \in links[j]

\* What was found for a job is there, or was taken away in one of two ways.
FoundData == \A j \in Jobs : \A k \in Needs[j] :
    filled[j][k] # None => filled[j][k] \in Known \union removed \union swept

ScheduledJobs == \A j \in Jobs : step[j] = "AWAITING_SCHEDULING" =>
                    \A k \in Needs[j] : filled[j][k] # None

IInv == /\ TypeOK /\ LinksAgree /\ StoresAgree
        /\ UncheckedJobs /\ LinkedJobs /\ FoundData /\ ScheduledJobs

-----------------------------------------------------------------------------
(* What the operations do *)

LEMMA AbsentIsDifferent == /\ Absent \notin Expiries /\ Bare \notin Expiries
                           /\ Absent # Bare /\ Never \in Expiries /\ Never # Absent
                           /\ Never # Bare
BY ValuesAssumption DEF Expiries

LEMMA FoundInputs ==
    ASSUME NEW j \in Jobs, NEW ks \in SUBSET Kinds, NEW f \in Choices(j, ks)
    PROVE  /\ f \in [ks -> Inputs] /\ DOMAIN f = ks
           /\ \A k \in ks : f[k] \in Inputs /\ f[k] \in Names /\ f[k] \in Known
           /\ \A k \in ks : f[k] \in Range(f)
           /\ Range(f) \subseteq Names
BY DEF Choices, Fulfils, Range, Names

LEMMA LinkingAgrees ==
    ASSUME usage \in [Names -> SUBSET Jobs], links \in [Jobs -> SUBSET Names],
           LinksAgree, NEW j \in Jobs, NEW ns \in SUBSET Names, Linked(j, ns)
    PROVE  /\ usage' \in [Names -> SUBSET Jobs] /\ links' \in [Jobs -> SUBSET Names]
           /\ LinksAgree'
           /\ \A i \in Jobs : links[i] \subseteq links'[i]
           /\ ns \subseteq links'[j]
<1>1. /\ \A n \in Names : usage'[n] = IF n \in ns THEN usage[n] \union {j} ELSE usage[n]
      /\ links'[j] = links[j] \union ns
      /\ \A i \in Jobs \ {j} : links'[i] = links[i]
      /\ usage' \in [Names -> SUBSET Jobs] /\ links' \in [Jobs -> SUBSET Names]
  BY DEF Linked
<1>2. LinksAgree'
  BY <1>1 DEF LinksAgree
<1> QED BY <1>1, <1>2

LEMMA UnlinkingAgrees ==
    ASSUME usage \in [Names -> SUBSET Jobs], links \in [Jobs -> SUBSET Names],
           LinksAgree, NEW j \in Jobs, NEW n \in Names, Unlinked(j, n)
    PROVE  /\ usage' \in [Names -> SUBSET Jobs] /\ links' \in [Jobs -> SUBSET Names]
           /\ LinksAgree'
           /\ \A i \in Jobs \ {j} : links'[i] = links[i]
<1>1. /\ usage'[n] = usage[n] \ {j}
      /\ \A m \in Names \ {n} : usage'[m] = usage[m]
      /\ links'[j] = links[j] \ {n}
      /\ \A i \in Jobs \ {j} : links'[i] = links[i]
      /\ usage' \in [Names -> SUBSET Jobs] /\ links' \in [Jobs -> SUBSET Names]
  BY DEF Unlinked
<1>2. LinksAgree'
  BY <1>1 DEF LinksAgree
<1> QED BY <1>1, <1>2

LEMMA CreatingAgrees ==
    ASSUME TypeOK, StoresAgree, NEW n \in Names, Created(n)
    PROVE  /\ known' \in [Names -> Expiries \union {Absent}]
           /\ bucket' \in [Names -> Expiries \union {Absent, Bare}]
           /\ StoresAgree'
           /\ Known \subseteq Known'
<1>1. /\ known'[n] = Never /\ bucket'[n] = Never /\ known[n] = Absent
      /\ \A m \in Names \ {n} : known'[m] = known[m] /\ bucket'[m] = bucket[m]
      /\ known' \in [Names -> Expiries \union {Absent}]
      /\ bucket' \in [Names -> Expiries \union {Absent, Bare}]
  BY AbsentIsDifferent DEF TypeOK, Created
<1>2. StoresAgree'
  BY <1>1 DEF StoresAgree
<1>3. Known \subseteq Known'
  BY <1>1 DEF Known
<1> QED BY <1>1, <1>2, <1>3

LEMMA RemovingAgrees ==
    ASSUME TypeOK, StoresAgree, NEW gone \in SUBSET Names, Without(gone)
    PROVE  /\ known' \in [Names -> Expiries \union {Absent}]
           /\ bucket' \in [Names -> Expiries \union {Absent, Bare}]
           /\ StoresAgree'
           /\ Known \subseteq Known' \union gone
<1>1. /\ \A n \in gone : known'[n] = Absent /\ bucket'[n] = Absent
      /\ \A n \in Names \ gone : known'[n] = known[n] /\ bucket'[n] = bucket[n]
      /\ known' \in [Names -> Expiries \union {Absent}]
      /\ bucket' \in [Names -> Expiries \union {Absent, Bare}]
  BY DEF TypeOK, Without
<1>2. StoresAgree'
  BY <1>1 DEF StoresAgree
<1>3. Known \subseteq Known' \union gone
  BY <1>1 DEF Known
<1> QED BY <1>1, <1>2, <1>3

\* Whatever is done to the stores, what jobs found stays if known datasets stay
\* or are recorded as taken away.
LEMMA FoundDataStays ==
    ASSUME IInv, UNCHANGED jobs,
           Known \subseteq Known' \union removed' \union swept',
           removed \subseteq removed', swept \subseteq swept'
    PROVE  FoundData'
<1> USE DEF jobs
<1>1. SUFFICES ASSUME NEW j \in Jobs, NEW k \in Needs[j], filled[j][k] # None
               PROVE  filled[j][k] \in Known' \union removed' \union swept'
  BY DEF FoundData
<1> QED BY <1>1 DEF IInv, FoundData

LEMMA LosingKeeps ==
    ASSUME IInv, UNCHANGED <<jobs, removed, swept, forgotten>>,
           \A i \in Jobs : links[i] \subseteq links'[i], Known \subseteq Known'
    PROVE  UncheckedJobs' /\ LinkedJobs' /\ FoundData' /\ ScheduledJobs'
<1> USE DEF jobs
<1>1. FoundData'
  BY FoundDataStays
<1>2. UncheckedJobs' /\ ScheduledJobs'
  BY DEF IInv, UncheckedJobs, ScheduledJobs
<1>3. PastCheck' = PastCheck
  BY DEF PastCheck
<1>4. LinkedJobs'
  <2> SUFFICES ASSUME NEW j \in PastCheck \ forgotten, NEW k \in Needs[j],
                      filled[j][k] # None
               PROVE  filled[j][k] \in links'[j]
    BY <1>3 DEF LinkedJobs
  <2>1. j \in Jobs /\ filled[j][k] \in links[j]
    BY DEF IInv, LinkedJobs, PastCheck
  <2> QED BY <2>1
<1> QED BY <1>1, <1>2, <1>4

LEMMA SavingKeeps ==
    ASSUME IInv, NEW j \in Jobs, step[j] = "AWAITING_DATA_CHECK",
           NEW s \in {"CHECKED", "DATA_UNPROVIDEABLE"},
           NEW ks \in SUBSET Needs[j], NEW f \in Choices(j, ks), SaveOrLose(j, s, f),
           \A i \in Jobs : links[i] \subseteq links'[i], Range(f) \subseteq links'[j],
           Known \subseteq Known', UNCHANGED <<removed, swept, forgotten>>
    PROVE  /\ step' \in [Jobs -> Steps]
           /\ filled' \in [Jobs -> [Kinds -> Inputs \union {None}]]
           /\ lost' \in 0 .. MaxLost
           /\ UncheckedJobs' /\ LinkedJobs' /\ FoundData' /\ ScheduledJobs'
<1>1. /\ f \in [ks -> Inputs] /\ DOMAIN f = ks /\ Needs[j] \subseteq Kinds
      /\ \A k \in ks : f[k] \in Inputs /\ f[k] \in Known /\ f[k] \in Range(f)
  BY NeedsAssumption, FoundInputs
<1>2. CASE Save(j, s, f) /\ lost' = lost
  <2>1. /\ step'[j] = s /\ \A i \in Jobs \ {j} : step'[i] = step[i]
        /\ step' \in [Jobs -> Steps]
    BY <1>2 DEF Save, IInv, TypeOK, Steps
  <2>2. /\ \A k \in Kinds : filled'[j][k] = IF k \in ks THEN f[k] ELSE filled[j][k]
        /\ \A i \in Jobs \ {j} : filled'[i] = filled[i]
        /\ filled' \in [Jobs -> [Kinds -> Inputs \union {None}]]
    BY <1>1, <1>2 DEF Save, FilledWith, IInv, TypeOK
  <2>3. \A k \in Kinds : filled'[j][k] # None => k \in ks /\ filled'[j][k] = f[k]
    BY <2>2 DEF IInv, UncheckedJobs
  <2>4. UncheckedJobs' /\ ScheduledJobs'
    BY <2>1, <2>2 DEF IInv, UncheckedJobs, ScheduledJobs
  <2>5. LinkedJobs'
    <3> SUFFICES ASSUME NEW i \in PastCheck' \ forgotten, NEW k \in Needs[i],
                        filled'[i][k] # None
                 PROVE  filled'[i][k] \in links'[i]
      BY DEF LinkedJobs
    <3>1. CASE i = j
      BY <1>1, <2>3, <3>1
    <3>2. CASE i # j
      <4>1. i \in PastCheck \ forgotten /\ filled'[i] = filled[i] /\ i \in Jobs
        BY <2>1, <2>2, <3>2 DEF PastCheck
      <4> QED BY <4>1 DEF IInv, LinkedJobs
    <3> QED BY <3>1, <3>2
  <2>6. FoundData'
    <3> SUFFICES ASSUME NEW i \in Jobs, NEW k \in Needs[i], filled'[i][k] # None
                 PROVE  filled'[i][k] \in Known' \union removed \union swept
      BY DEF FoundData
    <3>1. CASE i = j
      BY <1>1, <2>3, <3>1
    <3>2. CASE i # j
      BY <2>2, <3>2 DEF IInv, FoundData
    <3> QED BY <3>1, <3>2
  <2> QED BY <1>2, <2>1, <2>2, <2>4, <2>5, <2>6 DEF IInv, TypeOK
<1>3. CASE lost < MaxLost /\ lost' = lost + 1 /\ UNCHANGED jobs
  <2>1. lost' \in 0 .. MaxLost
    BY <1>3, BoundsAssumption DEF IInv, TypeOK
  <2>2. UncheckedJobs' /\ LinkedJobs' /\ FoundData' /\ ScheduledJobs'
    BY <1>3, LosingKeeps
  <2> QED BY <1>3, <2>1, <2>2 DEF IInv, TypeOK, jobs
<1> QED BY <1>2, <1>3 DEF SaveOrLose

-----------------------------------------------------------------------------
(* The steps *)

LEMMA InitHolds == Init => IInv
<1> SUFFICES ASSUME Init PROVE IInv
  OBVIOUS
<1> USE DEF Init
<1>1. TypeOK
  <2>1. /\ \A n \in Names : known[n] \in Expiries \union {Absent}
        /\ bucket \in [Names -> Expiries \union {Absent, Bare}]
        /\ known \in [Names -> Expiries \union {Absent}]
    BY StoresAssumption DEF Expiries
  <2> QED BY <2>1, ValuesAssumption, BoundsAssumption DEF TypeOK, Steps
<1>2. LinksAgree /\ StoresAgree /\ UncheckedJobs /\ LinkedJobs /\ FoundData
        /\ ScheduledJobs
  BY NeedsAssumption DEF LinksAgree, StoresAgree, UncheckedJobs, LinkedJobs,
     FoundData, ScheduledJobs, PastCheck
<1> QED BY <1>1, <1>2 DEF IInv

LEMMA CreateDatasetKeeps ==
    ASSUME IInv, NEW n \in Inputs, CreateDataset(n)
    PROVE  IInv'
<1> USE DEF CreateDataset, uses, jobs, faults, ghosts
<1>1. /\ known' \in [Names -> Expiries \union {Absent}]
      /\ bucket' \in [Names -> Expiries \union {Absent, Bare}]
      /\ StoresAgree' /\ Known \subseteq Known'
  BY CreatingAgrees DEF IInv, Names
<1>2. TypeOK' /\ LinksAgree'
  BY <1>1 DEF IInv, TypeOK, LinksAgree
<1>3. UncheckedJobs' /\ LinkedJobs' /\ FoundData' /\ ScheduledJobs'
  BY <1>1, LosingKeeps
<1> QED BY <1>1, <1>2, <1>3 DEF IInv

\* Steps that take datasets away and record it.
LEMMA TakingAwayKeeps ==
    ASSUME IInv, NEW gone \in SUBSET Names, Without(gone),
           UNCHANGED <<uses, jobs, faults, forgotten, unsaved>>,
           marked' \subseteq Names, alive' \subseteq Tasks,
           removed' \subseteq Names, swept' \subseteq Names,
           removed \subseteq removed', swept \subseteq swept',
           gone \subseteq removed' \union swept'
    PROVE  IInv'
<1> USE DEF uses, jobs, faults
<1>1. /\ known' \in [Names -> Expiries \union {Absent}]
      /\ bucket' \in [Names -> Expiries \union {Absent, Bare}]
      /\ StoresAgree' /\ Known \subseteq Known' \union gone
  BY RemovingAgrees DEF IInv
<1>2. TypeOK' /\ LinksAgree'
  BY <1>1 DEF IInv, TypeOK, LinksAgree
<1>3. FoundData'
  BY <1>1, FoundDataStays
<1>4. UncheckedJobs' /\ LinkedJobs' /\ ScheduledJobs'
  BY DEF IInv, UncheckedJobs, LinkedJobs, ScheduledJobs, PastCheck
<1> QED BY <1>1, <1>2, <1>3, <1>4 DEF IInv

LEMMA DeleteDatasetKeeps ==
    ASSUME IInv, NEW n \in Names, DeleteDataset(n)
    PROVE  IInv'
BY TakingAwayKeeps DEF DeleteDataset, IInv, TypeOK

\* The sweep takes away marked, temporary datasets only.
LEMMA SweepTakesMarked ==
    ASSUME IInv, Sweep \/ SweepRaises
    PROVE  \E gone \in SUBSET Names :
              /\ Without(gone) /\ swept' = swept \union gone
              /\ gone \subseteq marked /\ gone \subseteq Temporary
<1>1. CASE Sweep
  <2> DEFINE gone == {n \in Doomed : Deletable(n)}
  <2>1. Without(gone) /\ swept' = swept \union gone
    BY <1>1 DEF Sweep
  <2>2. gone \subseteq marked /\ gone \subseteq Temporary /\ gone \subseteq Names
    BY <1>1 DEF Sweep, Doomed, IInv, TypeOK
  <2> QED BY <2>1, <2>2
<1>2. CASE SweepRaises
  <2>1. PICK before \in SUBSET (marked \intersect Temporary) :
           LET gone == {n \in before : Deletable(n)}
           IN Without(gone) /\ swept' = swept \union gone
    BY <1>2 DEF SweepRaises
  <2> DEFINE gone == {n \in before : Deletable(n)}
  <2>2. Without(gone) /\ swept' = swept \union gone
    BY <2>1
  <2>3. gone \subseteq marked /\ gone \subseteq Temporary /\ gone \subseteq Names
    BY DEF IInv, TypeOK
  <2> QED BY <2>2, <2>3
<1> QED BY <1>1, <1>2

LEMMA SweepKeeps ==
    ASSUME IInv, Sweep \/ SweepRaises
    PROVE  IInv'
<1>1. PICK gone \in SUBSET Names : Without(gone) /\ swept' = swept \union gone
  BY SweepTakesMarked
<1>2. marked' \subseteq Names /\ alive' \subseteq Tasks
  <2>1. CASE Sweep
    BY <2>1 DEF Sweep, Doomed, ToMark, Candidates, Temporary, Known, IInv, TypeOK
  <2>2. CASE SweepRaises
    BY <2>2 DEF SweepRaises, IInv, TypeOK
  <2> QED BY <2>1, <2>2
<1>3. UNCHANGED <<uses, jobs, faults, removed, forgotten, unsaved>>
  BY DEF Sweep, SweepRaises
<1> QED BY <1>1, <1>2, <1>3, TakingAwayKeeps DEF IInv, TypeOK

LEMMA CheckPassesKeeps ==
    ASSUME IInv, NEW j \in Jobs, CheckPasses(j)
    PROVE  IInv'
<1> DEFINE ks == {k \in Unfilled(j) : Findable(k)}
<1>1. ks \in SUBSET Needs[j] /\ ks \in SUBSET Kinds
  BY NeedsAssumption DEF Unfilled
<1>2. PICK f \in Choices(j, ks) : Pass(j, f)
  BY DEF CheckPasses
<1> HIDE DEF ks
<1>3. step[j] = "AWAITING_DATA_CHECK"
        /\ UNCHANGED <<marked, alive, now, restarts, swept, removed, forgotten>>
  BY DEF CheckPasses, Checking
<1>4. /\ known' \in [Names -> Expiries \union {Absent}]
      /\ bucket' \in [Names -> Expiries \union {Absent, Bare}]
      /\ StoresAgree' /\ Known \subseteq Known'
  <2>1. OutputOf[j] \in Names
    BY OutputsAssumption DEF Names
  <2> QED BY <1>2, <2>1, CreatingAgrees DEF IInv, Pass
<1>5. /\ usage' \in [Names -> SUBSET Jobs] /\ links' \in [Jobs -> SUBSET Names]
      /\ LinksAgree' /\ Range(f) \subseteq links'[j]
      /\ \A i \in Jobs : links[i] \subseteq links'[i]
  BY <1>1, <1>2, FoundInputs, LinkingAgrees DEF IInv, TypeOK, Pass
<1>6. /\ step' \in [Jobs -> Steps]
      /\ filled' \in [Jobs -> [Kinds -> Inputs \union {None}]]
      /\ lost' \in 0 .. MaxLost
      /\ UncheckedJobs' /\ LinkedJobs' /\ FoundData' /\ ScheduledJobs'
  BY <1>1, <1>2, <1>3, <1>4, <1>5, SavingKeeps DEF Pass
<1>7. TypeOK'
  BY <1>2, <1>3, <1>4, <1>5, <1>6 DEF IInv, TypeOK, Pass
<1> QED BY <1>4, <1>5, <1>6, <1>7 DEF IInv

LEMMA CheckFailsKeeps ==
    ASSUME IInv, NEW j \in Jobs, CheckFails(j)
    PROVE  IInv'
<1>0. PICK ks \in SUBSET {k \in Unfilled(j) : Findable(k)} :
         \E f \in Choices(j, ks) :
            Linked(j, Range(f)) /\ SaveOrLose(j, "DATA_UNPROVIDEABLE", f)
  BY DEF CheckFails
<1>1. PICK f \in Choices(j, ks) :
         Linked(j, Range(f)) /\ SaveOrLose(j, "DATA_UNPROVIDEABLE", f)
  BY <1>0
<1>2. ks \in SUBSET Needs[j] /\ ks \in SUBSET Kinds
  BY NeedsAssumption DEF Unfilled
<1>3. step[j] = "AWAITING_DATA_CHECK"
        /\ UNCHANGED <<store, marked, alive, now, restarts, ghosts>>
  BY DEF CheckFails, Checking
<1>4. StoresAgree' /\ Known \subseteq Known'
  BY <1>3 DEF IInv, StoresAgree, Known, store
<1>5. /\ usage' \in [Names -> SUBSET Jobs] /\ links' \in [Jobs -> SUBSET Names]
      /\ LinksAgree' /\ Range(f) \subseteq links'[j]
      /\ \A i \in Jobs : links[i] \subseteq links'[i]
  BY <1>1, <1>2, FoundInputs, LinkingAgrees DEF IInv, TypeOK
<1>6. /\ step' \in [Jobs -> Steps]
      /\ filled' \in [Jobs -> [Kinds -> Inputs \union {None}]]
      /\ lost' \in 0 .. MaxLost
      /\ UncheckedJobs' /\ LinkedJobs' /\ FoundData' /\ ScheduledJobs'
  BY <1>1, <1>2, <1>3, <1>4, <1>5, SavingKeeps DEF ghosts
<1>7. TypeOK'
  BY <1>3, <1>5, <1>6 DEF IInv, TypeOK, ghosts, store
<1> QED BY <1>4, <1>5, <1>6, <1>7 DEF IInv

LEMMA CheckRaisesKeeps ==
    ASSUME IInv, NEW j \in Jobs, CheckRaises(j)
    PROVE  IInv'
<1> DEFINE ks == {k \in Unfilled(j) : Findable(k)}
<1>1. ks \in SUBSET Needs[j] /\ ks \in SUBSET Kinds
  BY NeedsAssumption DEF Unfilled
<1>2. PICK f \in Choices(j, ks) : Linked(j, Range(f))
  BY DEF CheckRaises
<1> HIDE DEF ks
<1>3. alive' = alive \ {"checks"} /\ UNCHANGED <<store, marked, jobs, faults, ghosts>>
  BY DEF CheckRaises
<1>4. /\ usage' \in [Names -> SUBSET Jobs] /\ links' \in [Jobs -> SUBSET Names]
      /\ LinksAgree' /\ \A i \in Jobs : links[i] \subseteq links'[i]
  BY <1>1, <1>2, FoundInputs, LinkingAgrees DEF IInv, TypeOK
<1>5. TypeOK'
  BY <1>3, <1>4 DEF IInv, TypeOK, store, jobs, faults, ghosts
<1>6. StoresAgree' /\ Known \subseteq Known'
  BY <1>3 DEF IInv, StoresAgree, Known, store
<1>7. UncheckedJobs' /\ LinkedJobs' /\ FoundData' /\ ScheduledJobs'
  BY <1>3, <1>4, <1>6, LosingKeeps DEF ghosts
<1> QED BY <1>4, <1>5, <1>6, <1>7 DEF IInv

\* Steps that only move a job on: not into its check or past it, and to the
\* scheduler with its requirements fulfilled.
LEMMA MovingOnKeeps ==
    ASSUME IInv, NEW j \in Jobs, NEW s \in Steps, StepOnly(j, s),
           UNCHANGED <<store, uses, marked, alive, faults, ghosts>>,
           s = "AWAITING_DATA_CHECK" => step[j] = "NEW",
           s = "NEW" => FALSE,
           s \in {"CHECKED", "AWAITING_DATA", "AWAITING_SCHEDULING"} => j \in PastCheck,
           s = "AWAITING_SCHEDULING" => Unfilled(j) = {}
    PROVE  IInv'
<1> USE DEF StepOnly, store, uses, faults, ghosts
<1>1. /\ step'[j] = s /\ \A i \in Jobs \ {j} : step'[i] = step[i]
      /\ step' \in [Jobs -> Steps] /\ filled' = filled
  BY DEF IInv, TypeOK
<1>2. TypeOK' /\ LinksAgree' /\ StoresAgree'
  BY <1>1 DEF IInv, TypeOK, LinksAgree, StoresAgree
<1>3. PastCheck' \subseteq PastCheck
  BY <1>1 DEF PastCheck
<1>4. LinkedJobs'
  BY <1>1, <1>3 DEF IInv, LinkedJobs
<1>5. FoundData'
  BY <1>1 DEF IInv, FoundData, Known
<1>6. UncheckedJobs'
  BY <1>1 DEF IInv, UncheckedJobs
<1>7. ScheduledJobs'
  BY <1>1 DEF IInv, ScheduledJobs, Unfilled
<1> QED BY <1>2, <1>4, <1>5, <1>6, <1>7 DEF IInv

LEMMA ProvisionKeeps ==
    ASSUME IInv, NEW j \in Jobs, Provision(j)
    PROVE  IInv'
<1>1. CASE ProvisionSucceeds(j)
  BY <1>1, MovingOnKeeps DEF ProvisionSucceeds, Provisioning, Provide, PastCheck, Steps
<1>2. CASE ProvisionFails(j)
  BY <1>2, MovingOnKeeps DEF ProvisionFails, Steps
<1> QED BY <1>1, <1>2 DEF Provision

LEMMA OthersKeep ==
    ASSUME IInv, NEW j \in Jobs, Others(j)
    PROVE  IInv'
<1>1. UNCHANGED <<store, uses, marked, alive, faults, ghosts>>
  BY DEF Others
<1>2. CASE step[j] = "NEW" /\ StepOnly(j, "AWAITING_DATA_CHECK")
  BY <1>1, <1>2, MovingOnKeeps DEF Steps
<1>3. CASE step[j] = "CHECKED" /\ StepOnly(j, "AWAITING_DATA")
  BY <1>1, <1>3, MovingOnKeeps DEF Steps, PastCheck
<1>4. CASE StepOnly(j, "DONE")
  BY <1>1, <1>4, MovingOnKeeps DEF Steps
<1> QED BY <1>2, <1>3, <1>4 DEF Others

LEMMA UnlinkFinishedKeeps ==
    ASSUME IInv, UnlinkFinished
    PROVE  IInv'
<1>0. PICK j \in FinishedUsers : \E n \in links[j] :
         IF n \in Known THEN Unlinked(j, n) ELSE UNCHANGED uses
  BY DEF UnlinkFinished
<1>1. PICK n \in links[j] : IF n \in Known THEN Unlinked(j, n) ELSE UNCHANGED uses
  BY <1>0
<1>2. alive' = alive \ {"provision"} /\ UNCHANGED <<store, marked, jobs, faults, ghosts>>
  BY DEF UnlinkFinished
<1>3. j \in Jobs /\ n \in Names /\ j \notin PastCheck
  BY DEF FinishedUsers, Users, ActiveJobs, PastCheck, IInv, TypeOK
<1>4. /\ usage' \in [Names -> SUBSET Jobs] /\ links' \in [Jobs -> SUBSET Names]
      /\ LinksAgree' /\ \A i \in Jobs \ {j} : links'[i] = links[i]
  <2>1. CASE Unlinked(j, n)
    BY <1>3, <2>1, UnlinkingAgrees DEF IInv, TypeOK
  <2>2. CASE UNCHANGED uses
    BY <2>2 DEF IInv, TypeOK, LinksAgree, uses
  <2> QED BY <1>1, <2>1, <2>2
<1>5. TypeOK' /\ StoresAgree'
  BY <1>2, <1>4 DEF IInv, TypeOK, StoresAgree, store, jobs, faults, ghosts
<1>6. UncheckedJobs' /\ FoundData' /\ ScheduledJobs'
  BY <1>2 DEF IInv, UncheckedJobs, FoundData, ScheduledJobs, Known, store, jobs, ghosts
<1>7. LinkedJobs'
  <2>1. PastCheck' = PastCheck /\ PastCheck \subseteq Jobs
    BY <1>2 DEF PastCheck, jobs
  <2> QED BY <1>2, <1>3, <1>4, <2>1 DEF IInv, LinkedJobs, jobs, ghosts
<1> QED BY <1>4, <1>5, <1>6, <1>7 DEF IInv

LEMMA TickKeeps ==
    ASSUME IInv, Tick
    PROVE  IInv'
<1> USE DEF Tick, store, uses, jobs, ghosts
<1>1. TypeOK'
  BY ValuesAssumption DEF IInv, TypeOK
<1>2. LinksAgree' /\ StoresAgree'
  BY DEF IInv, LinksAgree, StoresAgree
<1>3. UncheckedJobs' /\ LinkedJobs' /\ FoundData' /\ ScheduledJobs'
  BY LosingKeeps DEF Known
<1> QED BY <1>1, <1>2, <1>3 DEF IInv

LEMMA ReloadingBrings ==
    ASSUME IInv, Restart
    PROVE  /\ known' \in [Names -> Expiries \union {Absent}]
           /\ bucket' \in [Names -> Expiries \union {Absent, Bare}]
           /\ StoresAgree'
           /\ \A n \in Known : known'[n] = known[n]
           /\ \E m : {n \in Names : known'[n] # known[n]} \subseteq {m}
<1>1. \A n \in Names : known'[n] = IF bucket'[n] = Bare THEN Absent ELSE bucket'[n]
  BY DEF Restart, Reloaded
<1>2. known' = [n \in Names |-> IF bucket'[n] = Bare THEN Absent ELSE bucket'[n]]
  BY DEF Restart, Reloaded
<1>3. ASSUME NEW n \in Names
      PROVE  /\ bucket[n] # Bare => bucket[n] = known[n]
             /\ bucket[n] = Bare => known[n] = Absent
  BY AbsentIsDifferent DEF IInv, TypeOK, StoresAgree
<1>4. CASE bucket' = bucket
  <2>1. \A n \in Names : known'[n] = known[n]
    BY <1>1, <1>3, <1>4
  <2>2. known' = known
    BY <1>2, <2>1 DEF IInv, TypeOK
  <2> QED BY <1>4, <2>1, <2>2 DEF IInv, TypeOK, StoresAgree, Known
<1>5. CASE \E h \in HalfDone : /\ ~ CannotCreate(h[1])
                               /\ bucket' = [bucket EXCEPT ![h[1]] = h[2]]
  <2>1. PICK h \in HalfDone : /\ ~ CannotCreate(h[1])
                              /\ bucket' = [bucket EXCEPT ![h[1]] = h[2]]
    BY <1>5
  <2> DEFINE m == h[1]
  <2>2. m \in Names /\ h[2] \in {Bare, Never}
    BY OutputsAssumption DEF HalfDone, Names
  <2>3. known[m] = Absent /\ bucket[m] = Absent
    BY <2>1 DEF CannotCreate
  <2>4. /\ bucket'[m] = h[2] /\ \A n \in Names \ {m} : bucket'[n] = bucket[n]
        /\ bucket' \in [Names -> Expiries \union {Absent, Bare}]
    BY <2>1, <2>2, AbsentIsDifferent DEF IInv, TypeOK
  <2> HIDE DEF m
  <2>5. \A n \in Names \ {m} : known'[n] = known[n]
    BY <1>1, <1>3, <2>4
  <2>6. /\ known'[m] \in {Absent, Never}
        /\ bucket'[m] = known'[m] \/ (known'[m] = Absent /\ bucket'[m] = Bare)
    BY <1>1, <2>2, <2>4
  <2>7. known' \in [Names -> Expiries \union {Absent}]
    <3>1. \A n \in Names : known'[n] \in Expiries \union {Absent}
      BY <2>5, <2>6, AbsentIsDifferent DEF IInv, TypeOK
    <3> QED BY <1>2, <3>1
  <2>8. StoresAgree'
    BY <1>3, <2>4, <2>5, <2>6 DEF StoresAgree
  <2>9. \A n \in Known : known'[n] = known[n]
    BY <2>3, <2>5 DEF Known
  <2> QED BY <2>4, <2>5, <2>7, <2>8, <2>9
<1> QED BY <1>4, <1>5 DEF Restart

LEMMA RestartKeeps ==
    ASSUME IInv, Restart
    PROVE  IInv'
<1> USE DEF Restart, jobs
<1>1. /\ known' \in [Names -> Expiries \union {Absent}]
      /\ bucket' \in [Names -> Expiries \union {Absent, Bare}]
      /\ StoresAgree'
      /\ \A n \in Known : known'[n] = known[n]
  BY ReloadingBrings
<1>2. TypeOK'
  <2>1. unsaved' \subseteq Jobs
    BY DEF IInv, TypeOK
  <2> QED BY <1>1, <2>1, BoundsAssumption DEF IInv, TypeOK, PastCheck
<1>3. LinksAgree'
  BY DEF LinksAgree
<1>4. FoundData'
  BY <1>1, FoundDataStays DEF Known
<1>5. UncheckedJobs' /\ ScheduledJobs'
  BY DEF IInv, UncheckedJobs, ScheduledJobs
<1>6. LinkedJobs'
  BY DEF LinkedJobs, PastCheck
<1> QED BY <1>1, <1>2, <1>3, <1>4, <1>5, <1>6 DEF IInv

LEMMA StutterKeeps ==
    ASSUME IInv, UNCHANGED vars
    PROVE  IInv'
<1> USE DEF vars, store, uses, faults, ghosts
<1>1. TypeOK' /\ LinksAgree' /\ StoresAgree'
  BY DEF IInv, TypeOK, LinksAgree, StoresAgree, jobs
<1>2. UncheckedJobs' /\ LinkedJobs' /\ FoundData' /\ ScheduledJobs'
  BY LosingKeeps DEF Known
<1> QED BY <1>1, <1>2 DEF IInv

LEMMA StepKeeps == IInv /\ [Next]_vars => IInv'
<1> SUFFICES ASSUME IInv, [Next]_vars PROVE IInv'
  OBVIOUS
<1>1. CASE \E n \in Inputs : CreateDataset(n) \/ DeleteDataset(n)
  BY <1>1, CreateDatasetKeeps, DeleteDatasetKeeps DEF Names
<1>2. CASE \E n \in Outputs : DeleteDataset(n)
  BY <1>2, DeleteDatasetKeeps DEF Names
<1>3. CASE \E j \in Jobs : Check(j) \/ Provision(j) \/ Others(j)
  BY <1>3, CheckPassesKeeps, CheckRaisesKeeps, CheckFailsKeeps, ProvisionKeeps,
     OthersKeep DEF Check
<1>4. CASE UnlinkFinished \/ Sweep \/ SweepRaises
  BY <1>4, UnlinkFinishedKeeps, SweepKeeps
<1>5. CASE Tick \/ Restart
  BY <1>5, TickKeeps, RestartKeeps
<1>6. CASE UNCHANGED vars
  BY <1>6, StutterKeeps
<1> QED BY <1>1, <1>2, <1>3, <1>4, <1>5, <1>6 DEF Next

LEMMA AlwaysInvariant == Spec => []IInv
BY InitHolds, StepKeeps, PTL DEF Spec

-----------------------------------------------------------------------------
(* Why the task of the checks ends *)

\* The output dataset of a job that has not passed its check is not there,
\* unless one was made and the job was not saved.
OutputsAreNew == \A j \in Jobs :
    step[j] \in {"NEW", "AWAITING_DATA_CHECK"} /\ j \notin unsaved
        => known[OutputOf[j]] = Absent /\ bucket[OutputOf[j]] = Absent

\* The task of the checks ends only after the save of a job was lost, or was
\* preceded by the end of the process, with its output dataset already made.
ChecksEndForCause == "checks" \notin alive => unsaved # {}

LEMMA CreatingOthers ==
    ASSUME TypeOK, NEW n \in Names, NEW m \in Names, n # m, Created(n)
    PROVE  known'[m] = known[m] /\ bucket'[m] = bucket[m]
BY DEF TypeOK, Created

LEMMA RemovingLeavesAbsent ==
    ASSUME TypeOK, NEW gone \in SUBSET Names, Without(gone), NEW n \in Names,
           known[n] = Absent, bucket[n] = Absent
    PROVE  known'[n] = Absent /\ bucket'[n] = Absent
BY DEF TypeOK, Without

LEMMA OutputNames ==
    /\ \A j \in Jobs : OutputOf[j] \in Names /\ OutputOf[j] \notin Inputs
    /\ \A i, j \in Jobs : i # j => OutputOf[i] # OutputOf[j]
BY OutputsAssumption, NamesAssumption DEF Names

LEMMA PassLeavesOutputsNew ==
    ASSUME TypeOK, OutputsAreNew, NEW j \in Jobs, CheckPasses(j)
    PROVE  OutputsAreNew'
<1>1. PICK f : Pass(j, f)
  BY DEF CheckPasses
<1>2. \A i \in Jobs \ {j} : /\ known'[OutputOf[i]] = known[OutputOf[i]]
                            /\ bucket'[OutputOf[i]] = bucket[OutputOf[i]]
  BY <1>1, CreatingOthers, OutputNames DEF Pass
<1>3. CASE Save(j, "CHECKED", f) /\ lost' = lost
  <2>1. step'[j] = "CHECKED" /\ \A i \in Jobs \ {j} : step'[i] = step[i]
    BY <1>3 DEF Save, TypeOK
  <2>2. unsaved' = unsaved
    BY <1>1, <1>3 DEF Pass
  <2> QED BY <1>2, <2>1, <2>2 DEF OutputsAreNew
<1>4. CASE lost' = lost + 1 /\ UNCHANGED jobs
  <2>1. lost' # lost
    BY <1>4 DEF TypeOK
  <2>2. unsaved' = unsaved \union {j} /\ step' = step
    BY <1>1, <1>4, <2>1 DEF Pass, jobs
  <2> QED BY <1>2, <2>2 DEF OutputsAreNew
<1> QED BY <1>1, <1>3, <1>4 DEF Pass, SaveOrLose

LEMMA RestartLeavesOutputsNew ==
    ASSUME TypeOK, StoresAgree, OutputsAreNew, Restart
    PROVE  OutputsAreNew'
<1> USE AbsentIsDifferent
<1>0. step' = step
  BY DEF Restart, jobs
<1>1. \A n \in Names : bucket'[n] = Absent => known'[n] = Absent
  BY DEF Restart, Reloaded
<1>2. CASE bucket' = bucket /\ unsaved' = unsaved
  BY <1>0, <1>1, <1>2, OutputNames DEF OutputsAreNew
<1>3. CASE \E h \in HalfDone :
              /\ ~ CannotCreate(h[1])
              /\ bucket' = [bucket EXCEPT ![h[1]] = h[2]]
              /\ unsaved' = unsaved \union {j \in Jobs : OutputOf[j] = h[1]}
  <2>1. PICK h \in HalfDone :
              /\ bucket' = [bucket EXCEPT ![h[1]] = h[2]]
              /\ unsaved' = unsaved \union {j \in Jobs : OutputOf[j] = h[1]}
    BY <1>3
  <2>2. ASSUME NEW i \in Jobs, step'[i] \in {"NEW", "AWAITING_DATA_CHECK"},
               i \notin unsaved'
        PROVE  known'[OutputOf[i]] = Absent /\ bucket'[OutputOf[i]] = Absent
    <3>1. OutputOf[i] # h[1] /\ i \notin unsaved
      BY <2>1, <2>2
    <3>2. bucket'[OutputOf[i]] = bucket[OutputOf[i]]
      BY <2>1, <3>1, OutputNames DEF TypeOK
    <3> QED BY <1>0, <1>1, <2>2, <3>1, <3>2, OutputNames DEF OutputsAreNew
  <2> QED BY <2>2 DEF OutputsAreNew
<1> QED BY <1>2, <1>3 DEF Restart

LEMMA OutputsStayNew == IInv /\ OutputsAreNew /\ [Next]_vars => OutputsAreNew'
<1> SUFFICES ASSUME IInv, OutputsAreNew, [Next]_vars PROVE OutputsAreNew'
  OBVIOUS
<1>0. TypeOK /\ StoresAgree
  BY DEF IInv
<1>1. ASSUME NEW n \in Inputs, CreateDataset(n) PROVE OutputsAreNew'
  <2>1. \A i \in Jobs : /\ known'[OutputOf[i]] = known[OutputOf[i]]
                        /\ bucket'[OutputOf[i]] = bucket[OutputOf[i]]
    BY <1>0, <1>1, CreatingOthers, OutputNames DEF CreateDataset, Names
  <2> QED BY <1>1, <2>1 DEF OutputsAreNew, CreateDataset, jobs, ghosts
<1>2. ASSUME NEW gone \in SUBSET Names, Without(gone), UNCHANGED <<jobs, unsaved>>
      PROVE  OutputsAreNew'
  BY <1>0, <1>2, RemovingLeavesAbsent, OutputNames DEF OutputsAreNew, jobs
<1>3. ASSUME NEW n \in Names, DeleteDataset(n) PROVE OutputsAreNew'
  BY <1>2, <1>3 DEF DeleteDataset
<1>4. ASSUME Sweep \/ SweepRaises PROVE OutputsAreNew'
  BY <1>2, <1>4, SweepTakesMarked DEF Sweep, SweepRaises
<1>5. ASSUME NEW j \in Jobs, Check(j) PROVE OutputsAreNew'
  <2>1. CASE CheckPasses(j)
    BY <1>0, <2>1, PassLeavesOutputsNew
  <2>2. CASE CheckRaises(j)
    BY <2>2 DEF CheckRaises, OutputsAreNew, store, jobs, ghosts
  <2>3. CASE CheckFails(j)
    <3>1. \A i \in Jobs : step'[i] \in {"NEW", "AWAITING_DATA_CHECK"} => step'[i] = step[i]
      BY <1>0, <2>3 DEF CheckFails, SaveOrLose, Save, jobs, TypeOK
    <3> QED BY <2>3, <3>1 DEF CheckFails, OutputsAreNew, store, ghosts
  <2> QED BY <1>5, <2>1, <2>2, <2>3 DEF Check
<1>6. ASSUME NEW j \in Jobs, Provision(j) \/ Others(j) PROVE OutputsAreNew'
  <2>1. UNCHANGED <<store, ghosts>>
    BY <1>6 DEF Provision, ProvisionSucceeds, ProvisionFails, Others
  <2>2. \A i \in Jobs : step'[i] \in {"NEW", "AWAITING_DATA_CHECK"}
                           => step[i] \in {"NEW", "AWAITING_DATA_CHECK"}
    BY <1>0, <1>6 DEF Provision, ProvisionSucceeds, Provide, ProvisionFails, Others,
       StepOnly, TypeOK
  <2> QED BY <2>1, <2>2 DEF OutputsAreNew, store, ghosts
<1>7. CASE UnlinkFinished \/ Tick \/ UNCHANGED vars
  BY <1>7 DEF UnlinkFinished, Tick, vars, OutputsAreNew, store, jobs, ghosts
<1>8. CASE Restart
  BY <1>0, <1>8, RestartLeavesOutputsNew
<1> QED BY <1>1, <1>3, <1>4, <1>5, <1>6, <1>7, <1>8 DEF Next, Names

LEMMA ChecksStillEndForCause ==
    IInv /\ OutputsAreNew /\ ChecksEndForCause /\ [Next]_vars => ChecksEndForCause'
<1> SUFFICES ASSUME IInv, OutputsAreNew, ChecksEndForCause, [Next]_vars
             PROVE  ChecksEndForCause'
  OBVIOUS
<1>1. ASSUME alive' = alive, unsaved \subseteq unsaved' PROVE ChecksEndForCause'
  BY <1>1 DEF ChecksEndForCause
<1>2. CASE \E n \in Inputs : CreateDataset(n) \/ DeleteDataset(n)
  BY <1>1, <1>2 DEF CreateDataset, DeleteDataset, ghosts
<1>3. CASE \E n \in Outputs : DeleteDataset(n)
  BY <1>1, <1>3 DEF DeleteDataset
<1>4. ASSUME NEW j \in Jobs, Check(j) PROVE ChecksEndForCause'
  <2>1. CASE CheckPasses(j)
    BY <1>1, <2>1 DEF CheckPasses, Pass
  <2>2. CASE CheckRaises(j)
    <3>1. j \in unsaved
      BY <2>2 DEF CheckRaises, Checking, CannotCreate, OutputsAreNew
    <3> QED BY <2>2, <3>1 DEF CheckRaises, ghosts, ChecksEndForCause
  <2>3. CASE CheckFails(j)
    BY <1>1, <2>3 DEF CheckFails, ghosts
  <2> QED BY <1>4, <2>1, <2>2, <2>3 DEF Check
<1>5. ASSUME NEW j \in Jobs, Provision(j) \/ Others(j) PROVE ChecksEndForCause'
  BY <1>1, <1>5 DEF Provision, ProvisionSucceeds, ProvisionFails, Others, ghosts
<1>6. CASE UnlinkFinished \/ SweepRaises
  BY <1>6 DEF UnlinkFinished, SweepRaises, ChecksEndForCause, ghosts
<1>7. CASE Sweep \/ Tick \/ UNCHANGED vars
  BY <1>1, <1>7 DEF Sweep, Tick, vars, ghosts
<1>8. CASE Restart
  BY <1>8 DEF Restart, ChecksEndForCause, Tasks
<1> QED BY <1>2, <1>3, <1>4, <1>5, <1>6, <1>7, <1>8 DEF Next

-----------------------------------------------------------------------------
(* The theorems *)

\* For any jobs and datasets, whatever is created, deleted, checked, swept or
\* restarted, the users DatasetManager has on record for a dataset are those
\* whose DatasetUser has the dataset on record.
THEOREM LinksMatch == Spec => []UsageMatchesLinks
<1>1. IInv => UsageMatchesLinks
  BY DEF IInv, UsageMatchesLinks, LinksAgree
<1> QED BY <1>1, AlwaysInvariant, PTL

\* For any jobs, a job that passed its check stays linked to what was found for
\* it until a restart, and one that waits for the scheduler has something for
\* each requirement, there unless a client or the sweep has removed it.
THEOREM CheckedJobsKeepTheirData == Spec => []JobsKeepTheirData
<1>1. IInv => JobsKeepTheirData
  BY DEF IInv, JobsKeepTheirData, LinkedJobs, FoundData, ScheduledJobs
<1> QED BY <1>1, AlwaysInvariant, PTL

\* For any datasets, a restart brings back those the service had, and at most
\* one it was creating; the sweep removes none it had not marked.
THEOREM RestartsAndSweepsSpare == Spec => DatasetsStay
<1> DEFINE Kept ==
       /\ restarts' # restarts =>
            /\ \A n \in Known : known'[n] = known[n]
            /\ Cardinality({n \in Names : known'[n] # known[n]}) <= 1
       /\ \A n \in swept' \ swept : known[n] # Never /\ n \in marked
<1>1. IInv /\ [Next]_vars => [Kept]_vars
  <2> SUFFICES ASSUME IInv, Next PROVE Kept
    OBVIOUS
  <2>1. ASSUME Restart PROVE Kept
    <3>1. \A n \in Known : known'[n] = known[n]
      BY <2>1, ReloadingBrings
    <3>2. PICK m : {n \in Names : known'[n] # known[n]} \subseteq {m}
      BY <2>1, ReloadingBrings
    <3>3. Cardinality({n \in Names : known'[n] # known[n]}) <= 1
      <4> DEFINE D == {n \in Names : known'[n] # known[n]}
      <4>1. IsFiniteSet({m}) /\ Cardinality({m}) = 1
        BY FS_Singleton
      <4>2. Cardinality(D) <= Cardinality({m})
        BY <3>2, <4>1, FS_Subset
      <4> QED BY <4>1, <4>2
    <3>4. swept' = swept
      BY <2>1 DEF Restart
    <3> QED BY <3>1, <3>3, <3>4
  <2>2. ASSUME Sweep \/ SweepRaises PROVE Kept
    <3>1. restarts' = restarts
      BY <2>2 DEF Sweep, SweepRaises, faults
    <3>2. PICK gone \in SUBSET Names :
             /\ swept' = swept \union gone
             /\ gone \subseteq marked /\ gone \subseteq Temporary
      BY <2>2, SweepTakesMarked
    <3> QED BY <3>1, <3>2 DEF Temporary
  <2>3. ASSUME UNCHANGED <<restarts, swept>> PROVE Kept
    BY <2>3
  <2>4. CASE \E n \in Inputs : CreateDataset(n) \/ DeleteDataset(n)
    BY <2>3, <2>4 DEF CreateDataset, DeleteDataset, faults, ghosts
  <2>5. CASE \E n \in Outputs : DeleteDataset(n)
    BY <2>3, <2>5 DEF DeleteDataset, faults
  <2>6. CASE \E j \in Jobs : Check(j) \/ Provision(j) \/ Others(j)
    <3>1. UNCHANGED <<restarts, swept>>
      BY <2>6 DEF Check, CheckPasses, CheckRaises, CheckFails, Provision,
         ProvisionSucceeds, ProvisionFails, Others, faults, ghosts
    <3> QED BY <2>3, <3>1
  <2>7. CASE UnlinkFinished
    BY <2>3, <2>7 DEF UnlinkFinished, faults, ghosts
  <2>8. CASE Tick
    BY <2>3, <2>8 DEF Tick, ghosts
  <2> QED BY <2>1, <2>2, <2>4, <2>5, <2>6, <2>7, <2>8 DEF Next
<1> QED BY <1>1, AlwaysInvariant, PTL DEF Spec, DatasetsStay

\* For any jobs and datasets, nothing ends the task that checks the data of
\* jobs but an output dataset left by a save that was lost or a process that
\* ended: no want of data, no deletion and no sweep.
THEOREM OnlyLossesEndTheChecks == Spec => []ChecksEndForCause
<1>1. Init => OutputsAreNew /\ ChecksEndForCause
  BY StoresAssumption, OutputsAssumption DEF Init, OutputsAreNew, ChecksEndForCause, Tasks
<1>2. IInv /\ OutputsAreNew /\ ChecksEndForCause /\ [Next]_vars
        => OutputsAreNew' /\ ChecksEndForCause'
  BY OutputsStayNew, ChecksStillEndForCause
<1> QED BY <1>1, <1>2, AlwaysInvariant, PTL DEF Spec

=============================================================================
