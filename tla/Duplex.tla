-------------------------------- MODULE Duplex --------------------------------
(***************************************************************************)
(* A session of a duplex handler: a client's connection to the request     *)
(* service (the source) and a connection the handler opens to the service  *)
(* behind it (the target) are joined by a task per side that listens to    *)
(* the side and repeats what it says to the other one, and by a producer   *)
(* that tells the source news of its own.  The first task to end ends the  *)
(* session: the others are cancelled, and the tasks' ends make up the      *)
(* response.                                                               *)
(*                                                                         *)
(* A message that a closed connection has received is still read.  Sending *)
(* writes at once or raises, so a message is read and repeated in a step.  *)
(* A cancelled task is polled a few times.  One that heeds its             *)
(* cancellation is taken to end meanwhile; one that swallows it goes on,   *)
(* and may outlast the polling and the session.                            *)
(***************************************************************************)
EXTENDS Naturals, FiniteSets, Sequences, SequencesExt

CONSTANTS
    MaxMessages, \* bound on the messages of a side, the last may end all
    MaxNews,     \* bound on the messages of the producer
    End          \* the message that asks to disconnect

ASSUME EndAssumption == End \notin Nat
ASSUME DuplexAssumption == MaxMessages \in Nat /\ MaxNews \in Nat

Sides == {"source", "target"}
Other(s) == IF s = "source" THEN "target" ELSE "source"
Tasks == Sides \union {"producer"}

VARIABLES
    link,     \* the state of the connection to each side
    said,     \* what each side has sent
    inbox,    \* what of it has not been read
    got,      \* what each side was sent of the other's messages
    news,     \* number of messages the producer has sent
    stage,    \* how far handle_request is
    task,     \* the state of the tasks, in the end how they ended
    response, \* how handle_request answers
    faults    \* history: what failed that is neither connection nor listener:
              \* the handlers of the first message, the launch of a producer,
              \* and tasks that outlasted the polling

network == <<link, said, inbox, got, news>>
duplexVars == <<network, stage, task, response, faults>>

\* A task ends of itself: a listener has read a closed connection to its end, or
\* was asked to disconnect; a task finds the connection it sends to closed, finds
\* one broken, has a handler that raises, or raises before it begins.
OwnEnds == {"drained", "asked", "gone", "failed", "error", "raised"}

\* Or it is cancelled, and stops, or is stopped before it begins.
Ends == OwnEnds \union {"stopped", "unbegun"}

\* A task that goes on, maybe although it was told to end.
Going == {"running", "ignoring"}

DuplexTypeOK ==
    /\ link \in [Sides -> {"none", "open", "closed", "broken"}]
    /\ said \in [Sides -> Seq(1 .. MaxMessages \union {End})]
    /\ inbox \in [Sides -> Seq(1 .. MaxMessages \union {End})]
    /\ got \in [Sides -> Seq(1 .. MaxMessages)]
    /\ \A s \in Sides : /\ Len(said[s]) <= MaxMessages
                        /\ IsSuffix(inbox[s], said[s])
                        /\ IsPrefix(got[s], said[Other(s)])
    /\ news \in 0 .. MaxNews
    /\ stage \in {"idle", "connect", "greet", "start", "waiting", "cancel",
                  "interrupted", "aborted", "respond", "closing", "done"}
    /\ task \in [Tasks -> {"none", "created", "cancelling"} \union Going \union Ends]
    /\ response \in {"none", "success", "failure", "interrupted"}
    /\ faults \subseteq {"greeting", "launch"} \union Tasks

DuplexInit == /\ link = [s \in Sides |-> IF s = "source" THEN "open" ELSE "none"]
              /\ said = [s \in Sides |-> <<>>]
              /\ inbox = said /\ got = said
              /\ news = 0
              /\ stage = "idle"
              /\ task = [t \in Tasks |-> "none"]
              /\ response = "none" /\ faults = {}

----------------------------------------------------------------------------
(* The client and the service behind. *)

\* A side says something, which may be that it wants to disconnect.
Say(s) == /\ link[s] = "open" /\ stage \notin {"idle", "done"}
          /\ Len(said[s]) < MaxMessages /\ ~Contains(said[s], End)
          /\ \E m \in {Len(said[s]) + 1, End} :
                /\ said' = [said EXCEPT ![s] = Append(@, m)]
                /\ inbox' = [inbox EXCEPT ![s] = Append(@, m)]
          /\ UNCHANGED <<link, got, news, stage, task, response, faults>>

\* A side closes its connection in order, or is lost.
Leave(s) == /\ link[s] = "open" /\ stage \notin {"idle", "done"}
            /\ \E end \in {"closed", "broken"} :
                  link' = [link EXCEPT ![s] = end]
            /\ UNCHANGED <<said, inbox, got, news, stage, task, response, faults>>

----------------------------------------------------------------------------
(* The steps of handle_request. *)

\* The request service hands a request of the client to the handler.
Request == /\ stage = "idle"
           /\ stage' = "connect"
           /\ UNCHANGED <<network, task, response, faults>>

\* What an exception answers: an orderly closed connection is no failure.
Raise(kind) == /\ response' = IF kind = "closed" THEN "success" ELSE "failure"
               /\ stage' = "closing"

\* The connection to the target is opened, or refused.
Connect == /\ stage = "connect"
           /\ \/ /\ link' = [link EXCEPT !["target"] = "open"]
                 /\ stage' = "greet" /\ UNCHANGED response
              \/ Raise("refused") /\ UNCHANGED link
           /\ UNCHANGED <<said, inbox, got, news, task, faults>>

\* The source is told of the connection, then handlers deal with the first
\* message.  One of them may raise, or find that the target has gone.
Greet ==
    /\ stage = "greet"
    /\ \/ /\ link["source"] # "open"
          /\ Raise(link["source"]) /\ UNCHANGED faults
       \/ /\ link["source"] = "open" /\ link["target"] # "open"
          /\ Raise(link["target"]) /\ UNCHANGED faults
       \/ /\ link["source"] = "open"
          /\ Raise("error") /\ faults' = {"greeting"}
       \/ /\ link["source"] = "open"
          /\ stage' = "start" /\ UNCHANGED <<response, faults>>
    /\ UNCHANGED <<network, task>>

\* Producers and listeners become tasks, unless a producer cannot be launched:
\* then there are no listeners, and an earlier producer is to be cancelled.
Start ==
    /\ stage = "start"
    /\ \/ /\ task' = [t \in Tasks |-> "created"]
          /\ stage' = "waiting" /\ UNCHANGED faults
       \/ /\ \E earlier \in {"none", "created"} :
                task' = [task EXCEPT !["producer"] = earlier]
          /\ stage' = "aborted" /\ faults' = {"launch"}
    /\ UNCHANGED <<network, response>>

\* Faulty variant: waits for all the tasks.
FirstCompletedOfAll == /\ stage = "waiting"
                       /\ \A t \in Tasks : task[t] \in Ends
                       /\ stage' = "cancel"
                       /\ UNCHANGED <<network, task, response, faults>>

\* Faulty variant: waits for some time only.
FirstCompletedOrTimeout == /\ stage = "waiting"
                           /\ stage' = "cancel"
                           /\ UNCHANGED <<network, task, response, faults>>

\* The wait returns when a task has ended.
FirstCompleted == /\ stage = "waiting"
                  /\ \E t \in Tasks : task[t] \in Ends
                  /\ stage' = "cancel"
                  /\ UNCHANGED <<network, task, response, faults>>

\* The wait itself may be cancelled: the tasks are, and the error is answered.
Interrupt == /\ stage = "waiting"
             /\ stage' = "interrupted"
             /\ UNCHANGED <<network, task, response, faults>>

Cancelled(t) == CASE task[t] = "created" -> "unbegun"
                  [] task[t] = "running" -> "cancelling"
                  [] OTHER -> task[t]

\* cancel_tasks: those that have not ended are told to.  After an interruption or
\* an aborted launch the error is raised again, whatever becomes of them.
Cancel ==
    /\ stage \in {"cancel", "interrupted", "aborted"}
    /\ task' = [t \in Tasks |-> Cancelled(t)]
    /\ stage' = "respond"
    /\ response' = CASE stage = "interrupted" -> "interrupted"
                     [] stage = "aborted" -> "failure"
                     [] OTHER -> response
    /\ UNCHANGED <<network, faults>>

\* Faulty variant: a task that was cancelled before it began has failed.
SucceededIfBegun(t) == task[t] \in {"drained", "asked", "gone", "stopped"}

\* A task that was cancelled counts as having succeeded, one that goes on does not.
Succeeded(t) == task[t] \in {"drained", "asked", "gone", "stopped", "unbegun"}

Outlasting == {t \in Tasks : task[t] = "ignoring"}

Verdict == CASE response # "none" -> response
             [] response = "none" /\ (\A t \in Tasks : Succeeded(t)) -> "success"
             [] OTHER -> "failure"

\* Faulty variant: answers without waiting for the tasks.
RespondAtOnce == /\ stage = "respond"
                 /\ stage' = "closing"
                 /\ response' = Verdict
                 /\ faults' = faults \union Outlasting
                 /\ UNCHANGED <<network, task>>

\* The tasks are polled until they have ended or the polls are used up, and
\* _generate_response asks each how it ended.
Respond == /\ stage = "respond"
           /\ \A t \in Tasks : task[t] # "cancelling"
           /\ stage' = "closing"
           /\ response' = Verdict
           /\ faults' = faults \union Outlasting
           /\ UNCHANGED <<network, task>>

\* In the end a target that is still connected is not any more.
Close == /\ stage = "closing"
         /\ link' = [link EXCEPT !["target"] = IF @ = "open" THEN "closed" ELSE @]
         /\ stage' = "done"
         /\ UNCHANGED <<said, inbox, got, news, task, response, faults>>

----------------------------------------------------------------------------
(* The tasks. *)

\* A listener begins with open connections only; a producer just begins.
Begin(t) ==
    /\ task[t] = "created"
    /\ task' = [task EXCEPT ![t] =
          IF t \in Sides /\ \E s \in Sides : link[s] # "open"
          THEN "raised" ELSE "running"]
    /\ UNCHANGED <<network, stage, response, faults>>

\* How a task ends that finds a connection gone.
Gone(s, closed) == IF link[s] = "closed" THEN closed ELSE "failed"

\* A listener reads a message and repeats it to the other side, in the course of
\* which a handler may raise.
Relay(s) ==
    /\ task[s] \in Going /\ inbox[s] # <<>>
    /\ inbox' = [inbox EXCEPT ![s] = Tail(@)]
    /\ LET m == Head(inbox[s])
           o == Other(s) IN
       \/ /\ m = End
          /\ task' = [task EXCEPT ![s] = "asked"] /\ UNCHANGED got
       \/ /\ m # End /\ link[o] = "open"
          /\ got' = [got EXCEPT ![o] = Append(@, m)]
          /\ \E then \in {task[s], "error"} : task' = [task EXCEPT ![s] = then]
       \/ /\ m # End /\ link[o] # "open"
          /\ task' = [task EXCEPT ![s] = Gone(o, "gone")] /\ UNCHANGED got
       \/ task' = [task EXCEPT ![s] = "error"] /\ UNCHANGED got
    /\ UNCHANGED <<link, said, news, stage, response, faults>>

\* A listener has read all that a connection received that is gone.
HearEnd(s) == /\ task[s] \in Going /\ inbox[s] = <<>> /\ link[s] # "open"
              /\ task' = [task EXCEPT ![s] = Gone(s, "drained")]
              /\ UNCHANGED <<network, stage, response, faults>>

\* The producer tells the source something, or finds it gone.
Produce == /\ task["producer"] \in Going
           /\ IF link["source"] = "open"
              THEN /\ news < MaxNews
                   /\ news' = news + 1
                   /\ UNCHANGED task
              ELSE /\ task' = [task EXCEPT !["producer"] = Gone("source", "gone")]
                   /\ UNCHANGED news
           /\ UNCHANGED <<link, said, inbox, got, stage, response, faults>>

\* A cancelled task notices, and answers that all is well; or a handler or a
\* producer swallows the cancellation and goes on.
Notice(t) == /\ task[t] = "cancelling"
             /\ \E then \in {"stopped", "ignoring"} :
                   task' = [task EXCEPT ![t] = then]
             /\ UNCHANGED <<network, stage, response, faults>>

----------------------------------------------------------------------------

Session == \/ Connect \/ Greet \/ Start \/ FirstCompleted
           \/ Cancel \/ Respond \/ Close
Work(t) == \/ Begin(t) \/ Notice(t)
           \/ t \in Sides /\ (Relay(t) \/ HearEnd(t))
           \/ t = "producer" /\ Produce

DuplexNext == \/ Request \/ Session \/ Interrupt
              \/ \E s \in Sides : Say(s) \/ Leave(s)
              \/ \E t \in Tasks : Work(t)

DuplexSpec == DuplexInit /\ [][DuplexNext]_duplexVars

\* The event loop runs every task that can go on, and the handler; nothing is
\* asked of the sides.
FairDuplexSpec == DuplexSpec /\ WF_duplexVars(Session)
                             /\ \A t \in Tasks : WF_duplexVars(Work(t))

----------------------------------------------------------------------------

\* When the handler answers, the connection it opened is gone, and each of its
\* tasks has ended, unless it was told to and goes on all the same; then the
\* answer is no success, however the session ended.  And types.
CleanEnd == DuplexTypeOK /\ (stage = "done" =>
    /\ \A t \in Tasks : task[t] \in Ends \union {"none", "ignoring"}
    /\ (\E t \in Tasks : task[t] = "ignoring") => response # "success"
    /\ link["target"] # "open")

\* What a side has said apart from its request to disconnect, its last word.
Sayings(s) == IF Contains(said[s], End) THEN Front(said[s]) ELSE said[s]

\* What a side said is lost only if nobody ever listened to it, if its listener
\* could not go on (a connection gone, a handler that raised), or if its listener
\* was cut short: by an interruption, or since another task ended of itself.
LossHasCause == stage = "done" => \A s \in Sides : got[Other(s)] # Sayings(s) =>
    \/ task[s] \in {"none", "gone", "failed", "error", "raised"}
    \/ /\ task[s] \in {"stopped", "unbegun", "ignoring"}
       /\ \/ response = "interrupted"
          \/ \E t \in Tasks \ {s} : task[t] \in OwnEnds

\* A session fails only if the target refused, a connection broke, a listener
\* began too late, a handler raised, a producer could not be launched or a task
\* outlasted the polling; it succeeds only if a side closed in order or asked to
\* disconnect.  That the handler cancelled tasks itself must not show.
VerdictHasCause ==
    /\ response = "failure" => \/ \E s \in Sides : link[s] \in {"none", "broken"}
                               \/ \E t \in Tasks : task[t] \in {"raised", "error"}
                               \/ faults # {}
    /\ response = "success" => /\ \E s \in Sides : \/ link[s] = "closed"
                                                   \/ Contains(said[s], End)
                               /\ faults = {}

\* Once a side has left or asked to disconnect, the client gets its answer.
SessionEnds ==
    (stage # "idle" /\ \E s \in Sides : link[s] \in {"closed", "broken"}
                                        \/ Contains(said[s], End))
        ~> stage = "done"

=============================================================================
