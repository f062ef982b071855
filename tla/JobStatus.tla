----------------------------- MODULE JobStatus -----------------------------
(***************************************************************************)
(* The status of a DMOD job: a phase and a step within the phase, with the *)
(* attributes the Python enums JobExecPhase and JobExecStep attach to      *)
(* their members and the predicates JobStatus and JobImpl derive from      *)
(* them.  Every other module about jobs extends this one.                  *)
(***************************************************************************)

Phases == {"INIT", "MODEL_EXEC", "OUTPUT_EXEC", "CLOSED", "UNKNOWN"}

Steps == {"DEFAULT", "AWAITING_DATA_CHECK", "DATA_UNPROVIDEABLE",
          "AWAITING_PARTITIONING", "PARTITIONING_FAILED",
          "AWAITING_ALLOCATION", "AWAITING_DATA", "DATA_FAILURE",
          "AWAITING_SCHEDULING", "SCHEDULED", "RUNNING", "STOPPING",
          "STOPPED", "COMPLETED", "CANCELED", "FAILED"}

ActivePhases == {"INIT", "MODEL_EXEC", "OUTPUT_EXEC"}

ErrorSteps == {"DATA_UNPROVIDEABLE", "PARTITIONING_FAILED", "DATA_FAILURE",
               "FAILED"}

\* Faulty variant: a job that stops counts as done.
CompletingStepsAndStopping == ErrorSteps \union {"COMPLETED", "CANCELED", "STOPPING"}

CompletingSteps == ErrorSteps \union {"COMPLETED", "CANCELED"}

DefaultStartStep == [INIT        |-> "DEFAULT",
                     MODEL_EXEC  |-> "AWAITING_DATA_CHECK",
                     OUTPUT_EXEC |-> "AWAITING_ALLOCATION",
                     CLOSED      |-> "COMPLETED",
                     UNKNOWN     |-> "DEFAULT"]

Statuses == [phase : Phases, step : Steps]

\* A status built from its phase alone takes the default step of the phase.
StatusOfPhase(p) == [phase |-> p, step |-> DefaultStartStep[p]]

WithStep(status, s) == [status EXCEPT !.step = s]

IsActive(status) == status.phase \in ActivePhases
                    /\ status.step \notin CompletingSteps

ShouldReleaseResources(status) ==
    status.step \in {"FAILED", "COMPLETED", "CANCELED"} \/ status.phase = "CLOSED"
=============================================================================
