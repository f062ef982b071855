----------------------------- MODULE MCRequests -----------------------------
(***************************************************************************)
(* The two uses services make of connections, each by itself: a client     *)
(* that tasks share, in four exchanges, one more than it takes for one to  *)
(* be cut short by a second and to leave its reply to a third; and a       *)
(* duplex session in which each side says up to two things.                *)
(***************************************************************************)
EXTENDS ClientConnection, Duplex

CONSTANTS t1, t2, t3, t4

MCCallers == {t1, t2, t3, t4}

\* Nothing of the one depends on the other, so they do not interleave.
VARIABLE part

RequestsInit == ClientInit /\ DuplexInit /\ part \in {"client", "duplex"}
RequestsNext == /\ part' = part
                /\ \/ part = "client" /\ ClientNext /\ UNCHANGED duplexVars
                   \/ part = "duplex" /\ DuplexNext /\ UNCHANGED clientVars

\* The fairness of the two specifications, each for its part.
Requests ==
    /\ RequestsInit /\ [][RequestsNext]_<<clientVars, duplexVars, part>>
    /\ \A t \in Callers : WF_clientVars(part = "client" /\ Step(t))
    /\ \A c \in Connections : /\ WF_clientVars(part = "client" /\ Answer(c))
                              /\ WF_clientVars(part = "client" /\ Ended(c))
    /\ WF_duplexVars(part = "duplex" /\ Session)
    /\ \A t \in Tasks : WF_duplexVars(part = "duplex" /\ Work(t))
=============================================================================
