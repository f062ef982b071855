-------------------------- MODULE ClientConnection --------------------------
(***************************************************************************)
(* The websocket client that the tasks of the request service share.  A    *)
(* task enters the client's context, which opens a connection or takes the *)
(* one that is open, sends its request, receives a reply, and leaves; the  *)
(* last one to leave closes the connection.  Tasks give way to each other  *)
(* at each await: while they wait for a connection being opened, open one, *)
(* receive, or close.  A connection answers what is sent on it in order.   *)
(*                                                                         *)
(* Each task makes one exchange, so a second exchange of the same listener *)
(* is another task.                                                        *)
(***************************************************************************)
EXTENDS Integers, FiniteSets, Sequences

CONSTANTS
    Callers,     \* the tasks that make requests
    MaxFailures, \* bound on the attempts to connect that fail
    MaxDrops,    \* bound on the connections the service drops
    Nothing, Error

ASSUME ValuesAssumption == Nothing \notin Callers /\ Error \notin Callers \union {Nothing}
ASSUME FaultsAssumption == MaxFailures \in Nat /\ MaxDrops \in Nat
ASSUME CallersAssumption == IsFiniteSet(Callers)

\* Every task opens at most one connection.
Connections == 1 .. Cardinality(Callers)
ASSUME ConnectionsAssumption == Nothing \notin Connections

VARIABLES
    connection, \* _connection
    opening,    \* _opening_connection
    active,     \* active_connections
    pc,         \* where each task stands
    late,       \* waiting tasks that began before the opening under way
    open,       \* connections that are open
    closed,     \* connections whose closing has come to its end
    made,       \* number of connections made
    unanswered, \* requests a connection has not answered yet, oldest first
    answers,    \* replies a connection has not delivered yet, oldest first
    on,         \* the connection a task receives from or closes
    result,     \* what a task's exchange came to: whose reply, or an error
    failures, drops,
    met,        \* ghost: tasks whose exchange overlapped another's
    overdue     \* ghost: a task has outwaited an opening

client == <<connection, opening, active>>
wires == <<open, closed, made, unanswered, answers>>
clientVars == <<client, pc, late, wires, on, result, failures, drops, met, overdue>>

ClientTypeOK == /\ connection \in Connections \union {Nothing}
                /\ opening \in BOOLEAN /\ active \in Int
                /\ pc \in [Callers -> {"idle", "waiting", "opening", "receiving",
                                     "closing", "done"}]
                /\ late \subseteq Callers
                /\ open \subseteq Connections /\ closed \subseteq Connections \ open
                /\ made \in 0 .. Cardinality(Callers)
                /\ unanswered \in [Connections -> Seq(Callers)]
                /\ answers \in [Connections -> Seq(Callers)]
                /\ on \in [Callers -> Connections \union {Nothing}]
                /\ result \in [Callers -> Callers \union {Nothing, Error}]
                /\ failures \in 0 .. MaxFailures /\ drops \in 0 .. MaxDrops
                /\ met \subseteq Callers /\ overdue \in BOOLEAN

ClientInit == /\ connection = Nothing /\ opening = FALSE /\ active = 0
              /\ pc = [t \in Callers |-> "idle"] /\ late = {}
              /\ open = {} /\ closed = {} /\ made = 0
              /\ unanswered = [c \in Connections |-> <<>>]
              /\ answers = [c \in Connections |-> <<>>]
              /\ on = [t \in Callers |-> Nothing] /\ result = [t \in Callers |-> Nothing]
              /\ failures = 0 /\ drops = 0
              /\ met = {} /\ overdue = FALSE

Busy == {t \in Callers : pc[t] \notin {"idle", "done"}}
Waiting == {t \in Callers : pc[t] = "waiting"}

\* Whoever waits for a connection to be closed resumes when it is, before any
\* task that the event loop hears of later.
Settled ==
    \A t \in Callers : pc[t] \in {"receiving", "closing"} => on[t] \notin closed
-----------------------------------------------------------------------------
(* What a task does between two awaits. *)

\* __aexit__ up to its await, with n tasks counted.  Closing a connection
\* that another task has closed and forgotten raises, and the count stays.
LeaveContext(t, outcome, n) ==
    /\ active' = n - 1
    /\ result' = [result EXCEPT ![t] = IF n <= 1 /\ connection = Nothing
                                        THEN Error ELSE outcome]
    /\ LET closes == n <= 1 /\ connection # Nothing
       IN /\ pc' = [pc EXCEPT ![t] = IF closes THEN "closing" ELSE "done"]
          /\ on' = [on EXCEPT ![t] = IF closes THEN connection ELSE Nothing]
          /\ open' = IF closes THEN open \ {connection} ELSE open

Receiving(c) == {t \in Callers : pc[t] = "receiving" /\ on[t] = c}

Receives(t, c, n) ==
    /\ pc' = [pc EXCEPT ![t] = "receiving"]
    /\ on' = [on EXCEPT ![t] = c]
    /\ active' = n
    /\ UNCHANGED <<open, result>>

\* async_send inside the context, on the open connection c, with n tasks
\* counted: receiving raises while another task waits for a message, and
\* takes a message that is there already.
SendAndReceive(t, c, n) ==
    /\ unanswered' = [unanswered EXCEPT ![c] = Append(@, t)]
    /\ \/ /\ Receiving(c) # {}
          /\ LeaveContext(t, Error, n)
          /\ UNCHANGED answers
       \/ /\ Receiving(c) = {} /\ answers[c] # <<>>
          /\ LeaveContext(t, Head(answers[c]), n)
          /\ answers' = [answers EXCEPT ![c] = Tail(@)]
       \/ /\ Receiving(c) = {} /\ answers[c] = <<>>
          /\ Receives(t, c, n)
          /\ UNCHANGED answers

\* What follows the wait in __aenter__.
Proceed(t) ==
    \/ /\ Settled /\ connection = Nothing
       /\ opening' = TRUE
       /\ pc' = [pc EXCEPT ![t] = "opening"]
       /\ late' = (late \union Waiting) \ {t}
       /\ UNCHANGED <<connection, active, wires, on, result>>
    \/ /\ Settled /\ connection # Nothing
       /\ IF connection \in open
          THEN SendAndReceive(t, connection, active + 1)
          ELSE /\ Receives(t, connection, active + 1)
               /\ UNCHANGED <<unanswered, answers>>
       /\ late' = late \ {t}
       /\ UNCHANGED <<connection, opening, closed, made>>
-----------------------------------------------------------------------------
(* The steps of a task. *)

\* Faulty variant: nobody waits for an opening under way.
EnterAtOnce(t) ==
    /\ pc[t] = "idle"
    /\ met' = IF Busy = {} THEN met ELSE met \union Busy \union {t}
    /\ Proceed(t)
    /\ UNCHANGED <<failures, drops, overdue>>

Enter(t) ==
    /\ pc[t] = "idle"
    /\ met' = IF Busy = {} THEN met ELSE met \union Busy \union {t}
    /\ \/ /\ opening
          /\ pc' = [pc EXCEPT ![t] = "waiting"]
          /\ UNCHANGED <<client, late, wires, on, result>>
       \/ ~ opening /\ Proceed(t)
    /\ UNCHANGED <<failures, drops, overdue>>

\* Faulty variant: the wait has no end.
PollForever(t) ==
    /\ pc[t] = "waiting" /\ ~ opening
    /\ Proceed(t)
    /\ UNCHANGED <<failures, drops, met, overdue>>

\* The wait ends when nobody opens a connection, or after 15 seconds.  As an
\* attempt to connect takes 10 at most, only a task that waited before the
\* attempt began can outwait it; any task outwaits a flag left set.
Poll(t) ==
    /\ pc[t] = "waiting"
    /\ opening => t \in late \/ \A u \in Callers : pc[u] # "opening"
    /\ overdue' = (overdue \/ opening)
    /\ Proceed(t)
    /\ UNCHANGED <<failures, drops, met>>

\* The connection is there; the task counts itself and goes on to send.
Opened(t) ==
    /\ pc[t] = "opening" /\ Settled
    /\ LET c == made + 1
       IN /\ connection' = c /\ made' = c /\ open' = open \union {c}
          /\ unanswered' = [unanswered EXCEPT ![c] = <<t>>]
          /\ pc' = [pc EXCEPT ![t] = "receiving"]
          /\ on' = [on EXCEPT ![t] = c]
    /\ opening' = FALSE /\ active' = active + 1
    /\ UNCHANGED <<closed, answers, late, result, failures, drops, met, overdue>>

\* The exception leaves the flag set, and the context is never entered.
OpeningFails(t) ==
    /\ pc[t] = "opening" /\ failures < MaxFailures
    /\ failures' = failures + 1
    /\ pc' = [pc EXCEPT ![t] = "done"]
    /\ result' = [result EXCEPT ![t] = Error]
    /\ UNCHANGED <<client, late, wires, on, drops, met, overdue>>

Receive(t) ==
    /\ pc[t] = "receiving"
    /\ \/ /\ answers[on[t]] # <<>>
          /\ LeaveContext(t, Head(answers[on[t]]), active)
          /\ answers' = [answers EXCEPT ![on[t]] = Tail(@)]
       \/ /\ on[t] \in closed /\ answers[on[t]] = <<>>
          /\ LeaveContext(t, Error, active)
          /\ UNCHANGED answers
    /\ UNCHANGED <<connection, opening, late, closed, made, unanswered, failures,
                   drops, met, overdue>>

\* Faulty variant: the connection is closed and not forgotten.
CloseUnset(t) ==
    /\ pc[t] = "closing" /\ on[t] \in closed
    /\ active' = 0
    /\ pc' = [pc EXCEPT ![t] = "done"]
    /\ on' = [on EXCEPT ![t] = Nothing]
    /\ UNCHANGED <<connection, opening, late, wires, result, failures, drops, met, overdue>>

\* __aexit__ after its await, whoever has entered meanwhile.
CloseAndForget(t) ==
    /\ pc[t] = "closing" /\ on[t] \in closed
    /\ connection' = Nothing /\ active' = 0
    /\ pc' = [pc EXCEPT ![t] = "done"]
    /\ on' = [on EXCEPT ![t] = Nothing]
    /\ UNCHANGED <<opening, late, wires, result, failures, drops, met, overdue>>
-----------------------------------------------------------------------------
(* The service at the other end. *)

Answer(c) ==
    /\ c \in open /\ unanswered[c] # <<>>
    /\ answers' = [answers EXCEPT ![c] = Append(@, Head(unanswered[c]))]
    /\ unanswered' = [unanswered EXCEPT ![c] = Tail(@)]
    /\ UNCHANGED <<client, pc, late, open, closed, made, on, result, failures, drops, met, overdue>>

Drop(c) ==
    /\ c \in open /\ drops < MaxDrops
    /\ drops' = drops + 1
    /\ open' = open \ {c} /\ closed' = closed \union {c}
    /\ UNCHANGED <<client, pc, late, made, unanswered, answers, on, result, failures, met, overdue>>

\* The closing handshake ends, or its timeout does.
Ended(c) ==
    /\ c <= made /\ c \notin open \union closed
    /\ closed' = closed \union {c}
    /\ UNCHANGED <<client, pc, late, open, made, unanswered, answers, on, result,
                   failures, drops, met, overdue>>

Step(t) == \/ Poll(t) \/ Opened(t) \/ OpeningFails(t)
           \/ Receive(t) \/ CloseAndForget(t)

ClientNext == \/ \E t \in Callers : Enter(t) \/ Step(t)
              \/ \E c \in Connections : Answer(c) \/ Drop(c) \/ Ended(c)

ClientSpec == ClientInit /\ [][ClientNext]_clientVars

\* The event loop resumes every task that can go on, and the service answers
\* what it is asked as long as the connection lasts.
FairClientSpec == /\ ClientSpec
                  /\ \A t \in Callers : WF_clientVars(Step(t))
                  /\ \A c \in Connections : WF_clientVars(Answer(c)) /\ WF_clientVars(Ended(c))
-----------------------------------------------------------------------------
\* No connection stays open behind the client's back: what is open is the
\* client's connection, and somebody uses it, unless a second task began to
\* open one because the first took too long (WebSocketClient).  After all
\* exchanges, however they failed, the client is as good as new: a later task
\* finds no closed connection (__aexit__).  And types.
NoConnectionLeaks ==
    /\ ClientTypeOK
    /\ overdue \/ open \subseteq (IF Busy = {} THEN {} ELSE {connection})
    /\ Busy = {} => connection = Nothing

\* A task whose exchange met no other task's gets the reply to its own
\* request, if the network did its part, whatever happened before (the
\* counter and the flag others have left behind do no harm).
AloneIsServed ==
    \A t \in Callers \ met : pc[t] = "done" =>
        result[t] = t \/ (result[t] = Error /\ failures + drops > 0)

\* Every exchange ends, with a reply or an error (async_send): a task has one
\* exchange, so that none ends only if somebody is busy for ever.
ExchangesEnd == Busy # {} ~> Busy = {}
=============================================================================
