----------------------------- MODULE Evaluations -----------------------------
(***************************************************************************)
(* The evaluation service of DMOD.  Clients ask for evaluations through a  *)
(* websocket consumer, which also forwards them what is published about    *)
(* the evaluation, or through a form.  A request is published in Redis for *)
(* the runner, which hands it to a pool of worker processes; a worker      *)
(* records how it fares under the evaluation's name and publishes it.      *)
(*                                                                         *)
(* Publishing reaches those that subscribe at that moment, and nobody else.*)
(* Steps are the commands of each process to Redis that others can see; an *)
(* evaluation ends within the 18 hours its records last.                   *)
(***************************************************************************)
EXTENDS Integers, FiniteSets, Sequences

CONSTANTS
    Names,        \* names clients give to evaluations
    Underscored,  \* a name with its spaces replaced
    Consumers,    \* websocket connections of clients
    Limit,        \* number of worker processes
    MaxLaunches,  \* bound on the evaluations asked for
    MaxFaults,    \* bound on the exceptions of the runner's loop
    None

ASSUME NamesAssumption ==
    /\ Underscored \in [Names -> Names] /\ None \notin Names
    /\ \A n \in Names : Underscored[Underscored[n]] = Underscored[n]
ASSUME BoundsAssumption ==
    /\ Limit \in Nat \ {0} /\ MaxLaunches \in Nat /\ MaxFaults \in Nat

Launches == 1 .. MaxLaunches
Ids == {Underscored[n] : n \in Names}
Lists == {"none", "kept", "expiring"}
NoCore == [status |-> "none", complete |-> FALSE, failed |-> FALSE]

\* Stages of a launch: in the channel, in the pool, and in a worker, until it
\* has ended in one way or another.
Working == {"delayed", "registered", "running", "written", "rejected",
            "raised", "failed"}
Ended == {"lost", "finished", "refused", "killed"}

VARIABLES
    client,    \* whether a websocket is open: "new", "open" or "closed"
    channel,   \* the name whose channel a consumer listens to
    pending,   \* launch a consumer is about to publish
    made,      \* number of launches so far
    id,        \* evaluation_id of a launch
    asker,     \* the consumer that asked for it, if any
    stage,     \* where a launch stands
    queue,     \* messages published to the runner
    runner,    \* the runner: connecting, listening, or leaving its pool
    pool,      \* launches handed to the pool and not begun
    core,      \* the hash of an evaluation: its flags and whether it expires
    info,      \* the list of its messages
    error,     \* the list of its errors
    faults,
    heard,     \* ghost: launches whose end a consumer has forwarded
    verdict,   \* ghost: what became of a launch
    shared     \* ghost: ids launched again before the launch before had ended

clients == <<client, channel, pending, made, id, asker>>
runners == <<queue, runner, pool, faults>>
records == <<core, info, error>>
vars == <<clients, stage, runners, records, heard, verdict, shared>>

Of(k) == Underscored[id[k]]
Busy == {k \in Launches : stage[k] \in Working}
Alive == {k \in Launches : stage[k] \notin Ended \union {"none"}}

TypeOK == /\ client \in [Consumers -> {"new", "open", "closed"}]
          /\ channel \in [Consumers -> Names \union {None}]
          /\ pending \in [Consumers -> Names \union {None}]
          /\ made \in 0 .. MaxLaunches
          /\ id \in [Launches -> Names \union {None}]
          /\ asker \in [Launches -> Consumers \union {None}]
          /\ stage \in [Launches -> {"none", "sent", "pooled"} \union Working \union Ended]
          /\ queue \in Seq(Launches)
          /\ runner \in {"connecting", "listening", "failing", "closing", "exited"}
          /\ pool \in Seq(Launches) /\ Cardinality(Busy) \in 0 .. Limit
          /\ core \in [Ids -> [status : Lists, complete : BOOLEAN, failed : BOOLEAN]]
          /\ info \in [Ids -> Lists] /\ error \in [Ids -> Lists]
          /\ faults \in 0 .. MaxFaults
          /\ heard \in [Consumers -> SUBSET Launches]
          /\ verdict \in [Launches -> {"none", "success", "failure"}]
          /\ shared \subseteq Ids

Init == /\ client = [c \in Consumers |-> "new"]
        /\ channel = [c \in Consumers |-> None]
        /\ pending = [c \in Consumers |-> None]
        /\ made = 0 /\ id = [k \in Launches |-> None]
        /\ asker = [k \in Launches |-> None]
        /\ stage = [k \in Launches |-> "none"]
        /\ queue = <<>> /\ runner = "connecting" /\ pool = <<>>
        /\ core = [n \in Ids |-> NoCore]
        /\ info = [n \in Ids |-> "none"] /\ error = [n \in Ids |-> "none"]
        /\ faults = 0
        /\ heard = [c \in Consumers |-> {}]
        /\ verdict = [k \in Launches |-> "none"] /\ shared = {}

-----------------------------------------------------------------------------
(* Clients. *)

Connect(c) ==
    /\ client[c] = "new"
    /\ client' = [client EXCEPT ![c] = "open"]
    /\ UNCHANGED <<channel, pending, made, id, asker, stage, runners, records,
                   heard, verdict, shared>>

\* Faulty variant: a later launch moves the subscription to its own name.
SubscribeAgain(c, n) ==
    /\ client[c] = "open" /\ pending[c] = None
    /\ made + Cardinality({d \in Consumers : pending[d] # None}) < MaxLaunches
    /\ Underscored[n] = n
    /\ channel' = [channel EXCEPT ![c] = n]
    /\ pending' = [pending EXCEPT ![c] = n]
    /\ UNCHANGED <<client, made, id, asker, stage, runners, records, heard, verdict, shared>>

\* The first launch of a connection subscribes it to the evaluation's channel;
\* later ones find it subscribed, whatever name they give.  No group has a name
\* with spaces: that is an error, and nothing is launched.
Subscribe(c, n) ==
    /\ client[c] = "open" /\ pending[c] = None
    /\ made + Cardinality({d \in Consumers : pending[d] # None}) < MaxLaunches
    /\ channel[c] = None => Underscored[n] = n
    /\ channel' = [channel EXCEPT ![c] = IF @ = None THEN n ELSE @]
    /\ pending' = [pending EXCEPT ![c] = channel'[c]]
    /\ UNCHANGED <<client, made, id, asker, stage, runners, records, heard, verdict, shared>>

\* PUBLISH of launch k under name n: the runner has it if it listens.
Published(n, c) ==
    LET k == made + 1
    IN /\ made' = k
       /\ id' = [id EXCEPT ![k] = n] /\ asker' = [asker EXCEPT ![k] = c]
       /\ stage' = [stage EXCEPT ![k] = IF runner = "listening" THEN "sent" ELSE "lost"]
       /\ queue' = IF runner = "listening" THEN Append(queue, k) ELSE queue
       /\ shared' = IF \E l \in Alive : Of(l) = Underscored[n]
                    THEN shared \union {Underscored[n]} ELSE shared

\* launch: it is published under the name of the channel, and the client is
\* told that it has been launched.
Launch(c) ==
    /\ client[c] = "open" /\ pending[c] # None
    /\ Published(pending[c], c)
    /\ pending' = [pending EXCEPT ![c] = None]
    /\ UNCHANGED <<client, channel, runner, pool, faults, records, heard, verdict>>

\* The form of LaunchEvaluation: nobody listens to what comes of it.
Post(n) ==
    /\ made + Cardinality({d \in Consumers : pending[d] # None}) < MaxLaunches
    /\ Published(Underscored[n], None)
    /\ UNCHANGED <<client, channel, pending, runner, pool, faults, records,
                   heard, verdict>>

\* A connection ends between two messages.
Disconnect(c) ==
    /\ client[c] = "open" /\ pending[c] = None
    /\ client' = [client EXCEPT ![c] = "closed"]
    /\ channel' = [channel EXCEPT ![c] = None]
    /\ UNCHANGED <<pending, made, id, asker, stage, runners, records, heard, verdict, shared>>
-----------------------------------------------------------------------------
(* The runner. *)

Listen ==
    /\ runner = "connecting"
    /\ runner' = "listening"
    /\ UNCHANGED <<clients, stage, queue, pool, faults, records, heard, verdict, shared>>

\* The pool is left, which ends its workers, and the subscription with it.
\* What waits in either is lost.
DropPool(next) ==
    /\ runner' = next /\ queue' = <<>> /\ pool' = <<>>
    /\ stage' = [k \in Launches |-> IF stage[k] \in {"sent", "pooled"}
                                    THEN "lost" ELSE stage[k]]
    /\ UNCHANGED <<clients, records, heard, verdict, shared>>

\* Faulty variant: a message is taken only when a worker is free, and dropped
\* otherwise.
TakeIfFree ==
    /\ runner = "listening" /\ queue # <<>>
    /\ queue' = Tail(queue)
    /\ IF Cardinality(Busy) + Len(pool) < Limit
       THEN /\ stage' = [stage EXCEPT ![Head(queue)] = "pooled"]
            /\ pool' = Append(pool, Head(queue))
       ELSE UNCHANGED <<stage, pool>>
    /\ UNCHANGED <<clients, runner, faults, records, heard, verdict, shared>>

\* run_job: a launch goes to the pool.  A message to close, which would end the
\* runner as a signal does, is sent by no program: kill_runner fails before.
Take ==
    /\ runner = "listening" /\ queue # <<>>
    /\ queue' = Tail(queue)
    /\ stage' = [stage EXCEPT ![Head(queue)] = "pooled"]
    /\ pool' = Append(pool, Head(queue))
    /\ UNCHANGED <<clients, runner, faults, records, heard, verdict, shared>>

\* signal_handler: the process exits, and leaves its pool on the way.
Interrupted ==
    /\ runner = "listening"
    /\ DropPool("closing") /\ UNCHANGED faults

\* An exception in the loop, of the connection or of a message.
ListenFails ==
    /\ runner = "listening" /\ faults < MaxFaults
    /\ faults' = faults + 1
    /\ DropPool("failing")

\* All workers have ended: the runner connects again, or exits.
Joined ==
    /\ runner \in {"failing", "closing"} /\ Busy = {}
    /\ runner' = IF runner = "failing" THEN "connecting" ELSE "exited"
    /\ UNCHANGED <<clients, stage, queue, pool, faults, records, heard, verdict, shared>>
-----------------------------------------------------------------------------
(* Workers. *)

Move(k, s) == stage' = [stage EXCEPT ![k] = s]

\* RPUSH and HSET create what is not there, without a time to live.
Pushed(l) == IF l = "none" THEN "kept" ELSE l

\* EXPIRE does nothing to what is not there.
Sunset(l) == IF l = "none" THEN "none" ELSE "expiring"

SunsetAll(n) ==
    /\ core' = [core EXCEPT ![n].status = Sunset(@)]
    /\ info' = [info EXCEPT ![n] = Sunset(@)]
    /\ error' = [error EXCEPT ![n] = Sunset(@)]

\* Consumers that listen to an evaluation when something is published of it.
Hears(n) == {c \in Consumers : client[c] = "open" /\ channel[c] = n}

\* A worker takes the first launch of the pool, and sleeps for its delay.
Begin ==
    /\ runner = "listening" /\ pool # <<>> /\ Cardinality(Busy) < Limit
    /\ pool' = Tail(pool)
    /\ Move(Head(pool), "delayed")
    /\ UNCHANGED <<clients, queue, runner, faults, records, heard,
                   verdict, shared>>

\* A new communicator writes its pointers and a first message.
Register(k) ==
    /\ stage[k] = "delayed"
    /\ Move(k, "registered")
    /\ core' = [core EXCEPT ![Of(k)].status = Pushed(@)]
    /\ info' = [info EXCEPT ![Of(k)] = Pushed(@)]
    /\ UNCHANGED <<clients, runners, error, heard, verdict, shared>>

\* Faulty variant: the first update does not set the records to expire.
FirstUpdateForGood(k) ==
    /\ stage[k] = "registered"
    /\ Move(k, "running")
    /\ core' = [core EXCEPT ![Of(k)].complete = FALSE, ![Of(k)].failed = FALSE]
    /\ UNCHANGED <<clients, runners, info, error, heard, verdict, shared>>

\* The first update of a communicator resets the flags, and sets all there is
\* then to expire.  No later call of sunset has an effect.
FirstUpdate(k) ==
    /\ stage[k] = "registered"
    /\ Move(k, "running")
    /\ core' = [core EXCEPT ![Of(k)] = [status |-> Sunset(@.status),
                                        complete |-> FALSE, failed |-> FALSE]]
    /\ info' = [info EXCEPT ![Of(k)] = Sunset(@)]
    /\ error' = [error EXCEPT ![Of(k)] = Sunset(@)]
    /\ UNCHANGED <<clients, runners, heard, verdict, shared>>

\* The instructions do not parse, or something raises while evaluating and
\* writing.  Errors are pushed for either.
Fail(k) ==
    /\ stage[k] = "running"
    /\ \E s \in {"rejected", "raised"} : Move(k, s)
    /\ error' = [error EXCEPT ![Of(k)] = Pushed(@)]
    /\ verdict' = [verdict EXCEPT ![k] = "failure"]
    /\ UNCHANGED <<clients, runners, core, info, heard, shared>>

Succeed(k) ==
    /\ stage[k] = "running"
    /\ Move(k, "written")
    /\ verdict' = [verdict EXCEPT ![k] = "success"]
    /\ UNCHANGED <<clients, runners, records, heard, shared>>

\* Faulty variant: a failure is left to the errors to tell.
MarkFailedSkipped(k) ==
    /\ stage[k] \in {"rejected", "raised"}
    /\ Move(k, IF stage[k] = "rejected" THEN "refused" ELSE "failed")
    /\ UNCHANGED <<clients, runners, records, heard, verdict, shared>>

\* Instructions that do not parse end the worker's task here.
MarkFailed(k) ==
    /\ stage[k] \in {"rejected", "raised"}
    /\ Move(k, IF stage[k] = "rejected" THEN "refused" ELSE "failed")
    /\ core' = [core EXCEPT ![Of(k)].failed = TRUE]
    /\ UNCHANGED <<clients, runners, info, error, heard, verdict, shared>>

\* The finally clause: the evaluation is complete, and those listening told.
Completed(k) ==
    /\ core' = [core EXCEPT ![Of(k)].complete = TRUE]
    /\ heard' = [c \in Consumers |-> IF c \in Hears(Of(k)) THEN heard[c] \union {k}
                                     ELSE heard[c]]

Complete(k) ==
    /\ stage[k] \in {"written", "failed"}
    /\ Move(k, "finished") /\ Completed(k)
    /\ UNCHANGED <<clients, runners, info, error, verdict, shared>>

\* A worker of a pool that is left gets SIGTERM, and exits through the handler
\* it has from the runner: an evaluation under way runs its finally clause, and
\* a communicator that has not been sunset is when it is deleted.
Terminate(k) ==
    /\ runner \in {"failing", "closing"} /\ k \in Busy
    /\ Move(k, "killed")
    /\ CASE stage[k] = "registered" -> SunsetAll(Of(k)) /\ UNCHANGED heard
         [] stage[k] \in {"running", "written", "raised", "failed"} ->
                Completed(k) /\ UNCHANGED <<info, error>>
         [] OTHER -> UNCHANGED <<records, heard>>
    /\ UNCHANGED <<clients, runners, verdict, shared>>

\* Records expire, long after the evaluation they are of has ended.
Expire(n) ==
    /\ \A k \in Busy : Of(k) # n
    /\ \/ core[n].status = "expiring" \/ info[n] = "expiring" \/ error[n] = "expiring"
    /\ core' = [core EXCEPT ![n] = IF @.status = "expiring" THEN NoCore ELSE @]
    /\ info' = [info EXCEPT ![n] = IF @ = "expiring" THEN "none" ELSE @]
    /\ error' = [error EXCEPT ![n] = IF @ = "expiring" THEN "none" ELSE @]
    /\ UNCHANGED <<clients, stage, runners, heard, verdict, shared>>

Work(k) ==
    \/ Register(k) \/ FirstUpdate(k) \/ Fail(k) \/ Succeed(k)
    \/ MarkFailed(k) \/ Complete(k) \/ Terminate(k)

Run == Listen \/ Take \/ Begin \/ Joined

Next ==
    \/ \E c \in Consumers : Connect(c) \/ Launch(c) \/ Disconnect(c)
    \/ \E c \in Consumers, n \in Names : Subscribe(c, n)
    \/ \E n \in Names : Post(n)
    \/ Run \/ Interrupted \/ ListenFails
    \/ \E k \in Launches : Work(k)
    \/ \E n \in Ids : Expire(n)

Spec == Init /\ [][Next]_vars

\* Processes that run are scheduled; clients, failures and time owe nothing.
FairSpec == Spec /\ WF_vars(Run) /\ \A k \in Launches : WF_vars(Work(k))
-----------------------------------------------------------------------------
(* Properties. *)

Later(k) == {l \in Launches : l > k /\ id[l] # None /\ Of(l) = Of(k)}

\* An evaluation under way is never shown with the outcome of an earlier one
\* of its name: it is not complete, and not failed either until it has been
\* marked so (worker.evaluate).  As long as its records last, one that has ended
\* is shown as failed exactly if it has, unless another one of its name came in
\* between.  Evaluations of one name at once share flags.  And types.
ShownAsItIs ==
    /\ TypeOK
    /\ \A k \in Launches : id[k] # None /\ Of(k) \notin shared =>
        LET r == core[Of(k)]
            settled == /\ stage[k] \in {"finished", "refused"} /\ r.status # "none"
                       /\ \A l \in Later(k) : stage[l] \in {"sent", "pooled", "delayed", "lost"}
        IN  /\ stage[k] \in {"running", "written", "rejected", "raised"}
                 => r.status # "none" /\ ~r.complete /\ ~r.failed
            /\ settled => /\ r.failed <=> verdict[k] = "failure"
                          /\ r.complete <=> stage[k] = "finished"

\* Whether they finish, fail or are killed, evaluations leave no flags or
\* messages behind that never expire (sunset), and errors only where one failed.
RecordsExpire == \A n \in Ids :
    /\ (\A k \in Alive : Of(k) # n) => core[n].status # "kept" /\ info[n] # "kept"
    /\ error[n] = "kept" =>
          \E k \in Launches : id[k] # None /\ Of(k) = n /\ verdict[k] = "failure"

\* What the docstring of sunset says, of errors: all resources of a communicator
\* are set to expire.  It does not hold: the first update of a communicator sunsets
\* what there is, and no later call does anything.
ErrorsExpire == \A n \in Ids : (\A k \in Alive : Of(k) # n) => error[n] # "kept"

\* A client that stays connected hears the end of every evaluation it launched.
LaunchersHear ==
    \A k \in Launches : stage[k] = "finished" /\ asker[k] # None
        => client[asker[k]] = "closed" \/ k \in heard[asker[k]]

\* Every evaluation asked for ends, lost or killed if the runner goes.
EvaluationsEnd ==
    \A k \in Launches : stage[k] # "none" ~> stage[k] \in Ended
=============================================================================
