----------------------------- MODULE ObjectStore -----------------------------
(***************************************************************************)
(* The manager of the datasets in the object store.  A dataset is a bucket *)
(* that holds its items and, so that the manager finds it again after a    *)
(* restart, a record of the dataset itself; while it runs the manager goes *)
(* by the datasets it has in memory.                                       *)
(*                                                                         *)
(* A call of the manager is synchronous, so there is one at a time, and it *)
(* makes its requests to the store one after the other.  A request can     *)
(* fail, before or after it took effect, and then the call raises an error *)
(* unless it handles it.  The manager can stop between two requests.  When *)
(* it starts, it loads the recorded datasets; nothing else writes to the   *)
(* store meanwhile, so that is one step.                                   *)
(*                                                                         *)
(* The buckets are listed without what lies in folders: the name of a      *)
(* folder is listed instead, and removing that removes nothing.            *)
(***************************************************************************)
EXTENDS Naturals, FiniteSets, DataDomains

CONSTANTS
    Datasets,      \* names of datasets
    Items,         \* names of items
    InFolders,     \* those of items that lie in a folder
    Offered,       \* the domains that datasets are made with or data has
    MaxFailures,   \* bound on the requests that fail
    MaxCrashes,    \* bound on the restarts of the manager
    None           \* no bucket, record or dataset

ASSUME ItemsAssumption ==
    /\ InFolders \subseteq Items
    /\ None \notin Domains /\ (\A s \in SUBSET Items : s # None) /\ None \notin Datasets
    /\ "record" \notin Items
ASSUME OfferedAssumption == Offered \subseteq Domains
ASSUME BoundsAssumption == MaxFailures \in Nat /\ MaxCrashes \in Nat

VARIABLES
    items,     \* items in the bucket of each dataset, None without a bucket
    record,    \* domain in the recorded dataset, None without a record
    datasets,  \* domain of each dataset in memory, None without the dataset
    call,      \* the call that is under way
    failures,  \* number of requests that have failed
    crashes,   \* number of restarts
    accepted,  \* datasets whose creation succeeded, until they are deleted
    given,     \* domain each item was last successfully added with, or None
    vague      \* datasets that a call gave a domain with every value of an index

store == <<items, record>>
history == <<accepted, given, vague>>
vars == <<store, datasets, call, failures, crashes, history>>

\* A call's kind, the next of its requests and the dataset it is about; the
\* dataset's domain after it; the items that remain to add one by one and the
\* domain of each; the items in the request's hands, and those it has dealt
\* with; and whether the record is written after items are pushed, too.
Calls == [kind : {"none", "create", "add", "delete", "delete data"},
          step : {"idle", "make", "undo", "next", "push", "resync", "claim", "persist",
                  "list", "empty", "drop", "forget", "discard"},
          dataset : Datasets \union {None},
          domain : Domains \union {None},
          queue : SUBSET Items,
          domainAdded : Domains \union {None},
          pending : SUBSET (Items \union {"record"}),
          pushed : SUBSET Items,
          resync : BOOLEAN]

Idle == [kind |-> "none", step |-> "idle", dataset |-> None, domain |-> None,
         queue |-> {}, domainAdded |-> None, pending |-> {}, pushed |-> {},
         resync |-> FALSE]

TypeOK ==
    /\ items \in [Datasets -> {None} \union SUBSET Items]
    /\ record \in [Datasets -> Domains \union {None}]
    /\ datasets \in [Datasets -> Domains \union {None}]
    /\ call \in Calls
    /\ failures \in 0 .. MaxFailures
    /\ crashes \in 0 .. MaxCrashes
    /\ accepted \subseteq Datasets
    /\ given \in [Datasets -> [Items -> Domains \union {None}]]
    /\ vague \subseteq Datasets

Init ==
    /\ items = [d \in Datasets |-> None]
    /\ record = [d \in Datasets |-> None]
    /\ datasets = [d \in Datasets |-> None]
    /\ call = Idle
    /\ failures = 0
    /\ crashes = 0
    /\ accepted = {}
    /\ given = [d \in Datasets |-> [i \in Items |-> None]]
    /\ vague = {}

-----------------------------------------------------------------------------
(* Requests to the store *)

\* How a request ends: well, or with an error that came before or after its
\* effect.
Outcomes == IF failures < MaxFailures THEN {"ok", "refused", "lost"} ELSE {"ok"}

Counts(outcome) ==
    failures' = IF outcome = "ok" THEN failures ELSE failures + 1

Effect(f, d, outcome, v) == IF outcome = "refused" THEN f ELSE [f EXCEPT ![d] = v]

\* An error ends a call; the creation of a dataset deletes the dataset first.
AfterError ==
    IF call.kind = "create" /\ call.step \in {"push", "claim", "persist"}
    THEN [call EXCEPT !.step = "list"] ELSE Idle

\* What follows the data that a call added.
AfterAdding ==
    IF call.kind = "create"
    THEN [call EXCEPT !.step = "next", !.queue = @ \ call.pushed, !.pushed = {}]
    ELSE Idle

VagueAfter(d, domains) ==
    IF \A domain \in domains : IsExplicit(domain) THEN vague ELSE vague \union {d}

-----------------------------------------------------------------------------
(* Creating a dataset *)

\* The bucket must not exist, whoever it belongs to.
Create(d) ==
    /\ call = Idle
    /\ datasets[d] = None /\ items[d] = None
    /\ \E domain \in Offered, added \in Offered, queue \in SUBSET Items :
         /\ queue = {} => added = domain
         /\ call' = [Idle EXCEPT !.kind = "create", !.step = "make",
                              !.dataset = d, !.domain = domain,
                              !.queue = queue,
                              !.domainAdded = added]
         /\ vague' = VagueAfter(d, {domain, added})
    /\ UNCHANGED <<store, datasets, failures, crashes, accepted, given>>

\* With the bucket comes the dataset, in memory; or its arguments do not make
\* one, and the bucket has to go again.
MakeBucket ==
    /\ call.step = "make"
    /\ \E outcome \in Outcomes :
         /\ Counts(outcome)
         /\ items' = Effect(items, call.dataset, outcome, {})
         /\ \/ /\ outcome = "ok"
               /\ datasets' = [datasets EXCEPT ![call.dataset] = call.domain]
               /\ call' = [call EXCEPT !.step = "next", !.domain = None]
            \/ /\ outcome = "ok"
               /\ call' = [call EXCEPT !.step = "undo"] /\ UNCHANGED datasets
            \/ outcome # "ok" /\ call' = AfterError /\ UNCHANGED datasets
    /\ UNCHANGED <<record, crashes, history>>

\* The creation fails, and takes the empty bucket away if the store lets it.
UndoBucket ==
    /\ call.step = "undo"
    /\ \E outcome \in Outcomes :
         /\ Counts(outcome)
         /\ items' = Effect(items, call.dataset, outcome, None)
    /\ call' = Idle
    /\ UNCHANGED <<record, datasets, crashes, history>>

\* The initial data is added an item at a time.  Data that cannot be merged is
\* not added, which fails the creation.
NextInitialData ==
    /\ call.step = "next"
    /\ LET d == datasets[call.dataset]
       IN \/ /\ call.queue = {}
             /\ call' = [call EXCEPT !.step = "persist"]
          \/ \E i \in call.queue :
               /\ CanMerge(d, call.domainAdded)
               /\ call' = [call EXCEPT !.step = "push", !.pending = {i},
                             !.domain = MergeDomains(d, call.domainAdded)]
          \/ /\ call.queue # {} /\ ~CanMerge(d, call.domainAdded)
             /\ call' = [call EXCEPT !.step = "list"]
    /\ UNCHANGED <<store, datasets, failures, crashes, history>>

\* Faulty variant: the creation succeeds although the dataset is not recorded.
PersistCreatedOrNot ==
    /\ call.step = "persist"
    /\ \E outcome \in Outcomes :
         /\ Counts(outcome)
         /\ record' = Effect(record, call.dataset, outcome, datasets[call.dataset])
    /\ accepted' = accepted \union {call.dataset}
    /\ call' = Idle
    /\ UNCHANGED <<items, datasets, crashes, given, vague>>

\* persist_serialized: the dataset in memory is recorded.
PersistCreated ==
    /\ call.step = "persist"
    /\ \E outcome \in Outcomes :
         /\ Counts(outcome)
         /\ record' = Effect(record, call.dataset, outcome, datasets[call.dataset])
         /\ IF outcome = "ok"
            THEN accepted' = accepted \union {call.dataset} /\ call' = Idle
            ELSE UNCHANGED accepted /\ call' = AfterError
    /\ UNCHANGED <<items, datasets, crashes, given, vague>>

-----------------------------------------------------------------------------
(* Adding data *)

\* Data is given as such or as a file or folder to read it from; with the
\* latter the record is written once the files are pushed, and again when the
\* domain has changed.  Without the bucket the first request fails.
AddData(d) ==
    /\ call = Idle
    /\ datasets[d] # None /\ items[d] # None
    /\ \E domain \in Offered, new \in (SUBSET Items) \ {{}}, resync \in BOOLEAN :
         /\ Cardinality(new) > 1 => resync
         /\ CanMerge(datasets[d], domain)
         /\ call' = [Idle EXCEPT !.kind = "add", !.step = "push",
                                 !.dataset = d, !.pending = new,
                                 !.domainAdded = domain, !.resync = resync,
                                 !.domain = MergeDomains(datasets[d], domain)]
         /\ vague' = VagueAfter(d, {domain})
    /\ UNCHANGED <<store, datasets, failures, crashes, accepted, given>>

Push ==
    /\ call.step = "push"
    /\ \E i \in call.pending, outcome \in Outcomes :
         /\ Counts(outcome)
         /\ items' = Effect(items, call.dataset, outcome,
                            items[call.dataset] \union {i})
         /\ given' = IF outcome = "refused" THEN given
                     ELSE [given EXCEPT ![call.dataset][i] = None]
         /\ call' = IF outcome # "ok" THEN AfterError
                    ELSE [call EXCEPT
                            !.pending = @ \ {i},
                            !.pushed = @ \union {i},
                            !.step = IF call.pending # {i} THEN "push"
                                     ELSE IF call.resync THEN "resync"
                                     ELSE "claim"]
    /\ UNCHANGED <<record, datasets, crashes, accepted, vague>>

Resync ==
    /\ call.step = "resync"
    /\ \E outcome \in Outcomes :
         /\ Counts(outcome)
         /\ record' = Effect(record, call.dataset, outcome, datasets[call.dataset])
         /\ call' = IF outcome = "ok" THEN [call EXCEPT !.step = "claim"] ELSE Idle
    /\ UNCHANGED <<items, datasets, crashes, history>>

\* Faulty variant: the dataset is recorded before its domain changes.
ClaimLate ==
    /\ call.step = "claim"
    /\ \E outcome \in Outcomes :
         /\ Counts(outcome)
         /\ record' = Effect(record, call.dataset, outcome, datasets[call.dataset])
         /\ datasets' = [datasets EXCEPT ![call.dataset] = call.domain]
         /\ given' = IF outcome # "ok" THEN given
                     ELSE [given EXCEPT ![call.dataset] =
                             [i \in Items |-> IF i \in call.pushed
                                              THEN call.domainAdded ELSE @[i]]]
         /\ call' = IF outcome = "ok" THEN AfterAdding ELSE AfterError
    /\ UNCHANGED <<items, crashes, accepted, vague>>

\* The dataset's domain changes, in memory and then in the record.
Claim ==
    /\ call.step = "claim"
    /\ datasets' = [datasets EXCEPT ![call.dataset] = call.domain]
    /\ \E outcome \in Outcomes :
         /\ Counts(outcome)
         /\ record' = Effect(record, call.dataset, outcome, call.domain)
         /\ given' = IF outcome # "ok" THEN given
                     ELSE [given EXCEPT ![call.dataset] =
                             [i \in Items |-> IF i \in call.pushed
                                              THEN call.domainAdded ELSE @[i]]]
         /\ call' = IF outcome = "ok" THEN AfterAdding ELSE AfterError
    /\ UNCHANGED <<items, crashes, accepted, vague>>

\* combine_partials_into_composite: an item is put together in the store, from
\* others that must be there; an error is an answer.
CombinePartials(d) ==
    /\ call = Idle
    /\ items[d] # None
    /\ \E i \in Items, partials \in SUBSET items[d], outcome \in Outcomes :
         /\ partials # {} /\ i \notin partials
         /\ Counts(outcome)
         /\ items' = Effect(items, d, outcome, items[d] \union {i})
         /\ given' = IF outcome = "refused" THEN given
                     ELSE [given EXCEPT ![d][i] = None]
    /\ UNCHANGED <<record, datasets, call, crashes, accepted, vague>>

-----------------------------------------------------------------------------
(* Deleting datasets and data *)

\* delete, and remove_dataset, which may be told not to empty the bucket: then
\* it goes straight on to the bucket, provided that it holds no items.
Delete(d) ==
    /\ call = Idle
    /\ datasets[d] # None /\ items[d] # None
    /\ \E step \in {"list"} \union {s \in {"drop"} : items[d] = {}} :
         call' = [Idle EXCEPT !.kind = "delete", !.step = step, !.dataset = d]
    /\ accepted' = accepted \ {d}
    /\ UNCHANGED <<store, datasets, failures, crashes, given, vague>>

\* What is listed to be removed leaves out what lies in folders.
List ==
    /\ call.step = "list"
    /\ \E outcome \in Outcomes \ {"lost"} :
         /\ Counts(outcome)
         /\ LET listed == (items[call.dataset] \ InFolders)
                            \union {r \in {"record"} : record[call.dataset] # None}
            IN call' = IF outcome # "ok" THEN Idle
                       ELSE [call EXCEPT
                               !.pending = listed,
                               !.step = IF listed = {} THEN "drop" ELSE "empty"]
    /\ UNCHANGED <<store, datasets, crashes, history>>

RemoveObject ==
    /\ call.step = "empty"
    /\ \E o \in call.pending, outcome \in Outcomes :
         /\ Counts(outcome)
         /\ IF o = "record"
            THEN /\ record' = Effect(record, call.dataset, outcome, None)
                 /\ UNCHANGED <<items, given>>
            ELSE /\ items' = Effect(items, call.dataset, outcome,
                                    items[call.dataset] \ {o})
                 /\ given' = IF outcome = "refused" THEN given
                             ELSE [given EXCEPT ![call.dataset][o] = None]
                 /\ UNCHANGED record
         /\ call' = IF outcome # "ok" THEN Idle
                    ELSE [call EXCEPT
                            !.pending = @ \ {o},
                            !.step = IF call.pending = {o} THEN "drop" ELSE "empty"]
    /\ UNCHANGED <<datasets, crashes, accepted, vague>>

\* Faulty variant: the dataset is dropped from memory whatever the store says.
RemoveBucketAnyway ==
    /\ call.step = "drop"
    /\ \E outcome \in Outcomes :
         /\ Counts(outcome)
         /\ items' = IF items[call.dataset] = {} /\ record[call.dataset] = None
                     THEN Effect(items, call.dataset, outcome, None) ELSE items
         /\ datasets' = [datasets EXCEPT ![call.dataset] = None]
    /\ call' = Idle
    /\ UNCHANGED <<record, crashes, history>>

\* The store removes a bucket only if it is empty, and raises an error else.
RemoveBucket ==
    /\ call.step = "drop"
    /\ IF items[call.dataset] = {} /\ record[call.dataset] = None
       THEN \E outcome \in Outcomes :
              /\ Counts(outcome)
              /\ items' = Effect(items, call.dataset, outcome, None)
              /\ datasets' = IF outcome # "ok" THEN datasets
                             ELSE [datasets EXCEPT ![call.dataset] = None]
       ELSE UNCHANGED <<items, datasets, failures>>
    /\ call' = Idle
    /\ UNCHANGED <<record, crashes, history>>

DeleteData(d) ==
    /\ call = Idle
    /\ datasets[d] # None /\ items[d] # None
    /\ \E gone \in (SUBSET items[d]) \ {{}}, domain \in Offered :
         /\ CanSubtract(datasets[d], domain)
         /\ call' = [Idle EXCEPT !.kind = "delete data", !.step = "forget",
                                 !.dataset = d, !.pending = gone,
                                 !.domain = SubtractDomains(datasets[d], domain)]
    /\ UNCHANGED <<store, datasets, failures, crashes, history>>

\* The items are removed only when the errors of removing them are read, after
\* the dataset is recorded.
Forget ==
    /\ call.step = "forget"
    /\ datasets' = [datasets EXCEPT ![call.dataset] = call.domain]
    /\ \E outcome \in Outcomes :
         /\ Counts(outcome)
         /\ record' = Effect(record, call.dataset, outcome, call.domain)
         /\ call' = IF outcome = "ok" THEN [call EXCEPT !.step = "discard"] ELSE Idle
    /\ UNCHANGED <<items, crashes, history>>

\* The request removes any of the items, all of them if it does not fail.
Discard ==
    /\ call.step = "discard"
    /\ \E gone \in SUBSET call.pending, outcome \in Outcomes \ {"lost"} :
         /\ outcome = "ok" => gone = call.pending
         /\ Counts(outcome)
         /\ items' = [items EXCEPT ![call.dataset] = @ \ gone]
         /\ given' = [given EXCEPT ![call.dataset] =
                        [i \in Items |-> IF i \in gone THEN None ELSE @[i]]]
    /\ call' = Idle
    /\ UNCHANGED <<record, datasets, crashes, accepted, vague>>

\* The manager stops at any point of a call, and starts again.
Restart ==
    /\ crashes < MaxCrashes
    /\ crashes' = crashes + 1
    /\ datasets' = record
    /\ call' = Idle
    /\ UNCHANGED <<store, failures, history>>

Next ==
    \/ \E d \in Datasets : \/ Create(d) \/ AddData(d) \/ CombinePartials(d)
                           \/ Delete(d) \/ DeleteData(d)
    \/ MakeBucket \/ UndoBucket \/ NextInitialData \/ PersistCreated
    \/ Push \/ Resync \/ Claim
    \/ List \/ RemoveObject \/ RemoveBucket
    \/ Forget \/ Discard
    \/ Restart

Spec == Init /\ [][Next]_vars

-----------------------------------------------------------------------------
(* Properties *)

\* A dataset that was created stays until its deletion is asked for: it is in
\* memory, has its bucket, and is recorded, so that restarts keep it, whatever
\* requests fail and wherever the manager stops.
AcceptedDatasetsStay ==
    \A d \in accepted : datasets[d] # None /\ items[d] # None /\ record[d] # None

\* Data that was added successfully is in the store, and its dataset claims to
\* have it, in memory and as recorded.  Datasets that were ever given a domain
\* with every value of an index are left out: a dataset with some values is
\* taken to have all of them, and to lose them when it grows otherwise.
GivenDataIsClaimed ==
    \A d \in Datasets, i \in Items :
      given[d][i] # None =>
        /\ i \in items[d]
        /\ d \notin vague =>
             \A claim \in {datasets[d], record[d]} \ {None} :
               Claims(given[d][i]) \subseteq Claims(claim)

\* Between calls the manager has exactly the datasets that have a bucket, as
\* long as no request failed and it was not restarted: a creation whose dataset
\* cannot be made, or that cannot add its data, leaves nothing behind, nor does a
\* deletion that the store refuses lose a dataset.  (A bucket without a dataset blocks its name.)
BucketsAreManaged ==
    failures = 0 /\ crashes = 0 /\ call = Idle =>
        \A d \in Datasets : datasets[d] # None <=> items[d] # None

\* A dataset found for a requirement has everything it asks for, and a dataset
\* that has everything in one of its formats is found.  Requirements for every
\* value of an index are left out, as a dataset with some of them is found, and
\* those for a range without a point, as a dataset may not be.
OffersAreSound ==
    \A d \in Datasets, r \in Domains :
      datasets[d] # None /\ IsExplicit(r) /\ HasNoEmptyRange(r) =>
        (Contains(datasets[d], r)
           <=> /\ CanFormatFulfill(r.format, datasets[d].format)
               /\ Claims(r) \subseteq Claims(datasets[d]))

\* When data is added a dataset claims what it did and what the data has, and
\* nothing else, such as what lies between two ranges; datasets given every
\* value of an index are left out as above.
AddsClaimExactly ==
    [][call.step = "claim" /\ call.dataset \notin vague /\ crashes' = crashes =>
         LET d == call.dataset
         IN Claims(datasets'[d]) = Claims(datasets[d]) \union Claims(call.domainAdded)
      ]_vars
=============================================================================
