---------------------------- MODULE RunLifecycle ----------------------------
(* What the table of Runs promises to whoever reads it (run history, session *)
(* queries, the approval gate), whichever service writes it: a Run starts     *)
(* once, may wait once for a confirmation, and ends once.  A Run that waits    *)
(* is ended or resumed by its approval and by nothing else.  A resumed Run is  *)
(* RUNNING like any other: its turn may still fail it, and the draft it kept   *)
(* goes with that.  AgentTurn is shown to implement this specification.        *)

CONSTANT Runs

VARIABLES
    status,       \* run -> AgentRunStatus, "NONE" before, "GONE" once deleted
    result        \* run -> kind of its final_result, "none" while NULL

runVars == <<status, result>>

Kinds == {"ORDER_STATUS", "DIAGNOSIS", "SPECIFICATION_ANSWER", "CLARIFICATION", "APPROVAL"}

RunTypeOK ==
    /\ status \in [Runs -> {"NONE", "RUNNING", "WAITING_APPROVAL", "SUCCEEDED",
                            "FAILED", "CANCELLED", "GONE"}]
    /\ result \in [Runs -> Kinds \cup {"none"}]

RunInit ==
    /\ status = [r \in Runs |-> "NONE"]
    /\ result = [r \in Runs |-> "none"]

\* transition_status: UPDATE ... WHERE run_id = r AND status = expected.  A row
\* in another status, or no row, is left alone and the caller gets an error.
Transition(r, expected, new, kind) ==
    /\ status[r] = expected
    /\ status' = [status EXCEPT ![r] = new]
    /\ result' = [result EXCEPT ![r] = kind]

\* create_run and mark_running, in the one transaction every caller uses.
MarkRunning(r) == Transition(r, "NONE", "RUNNING", "none")

MarkSucceeded(r, kind) ==
    result[r] = "none" /\ Transition(r, "RUNNING", "SUCCEEDED", kind)

\* No condition on the result: mark_failed clears it, a kept draft included.
MarkFailed(r) == Transition(r, "RUNNING", "FAILED", "none")

MarkWaitingApproval(r) ==
    result[r] = "none" /\ Transition(r, "RUNNING", "WAITING_APPROVAL", "APPROVAL")

ResumeApprovalExecution(r) ==
    Transition(r, "WAITING_APPROVAL", "RUNNING", "APPROVAL")

\* finish_approval_run keeps the draft: only the status field inside it changes.
FinishApprovalRun(r, expected, new) ==
    result[r] = "APPROVAL" /\ Transition(r, expected, new, "APPROVAL")

\* The session is deleted and the Run with it.
Drop(gone) ==
    /\ \A r \in gone : status[r] # "NONE"
    /\ status' = [r \in Runs |-> IF r \in gone THEN "GONE" ELSE status[r]]
    /\ result' = [r \in Runs |-> IF r \in gone THEN "none" ELSE result[r]]

RunNext ==
    \/ \E r \in Runs :
          \/ MarkRunning(r) \/ MarkFailed(r)
          \/ \E k \in Kinds \ {"APPROVAL"} : MarkSucceeded(r, k)
          \/ MarkWaitingApproval(r) \/ ResumeApprovalExecution(r)
          \/ \E s \in {"SUCCEEDED", "FAILED"} : FinishApprovalRun(r, "RUNNING", s)
          \/ \E s \in {"CANCELLED", "FAILED"} : FinishApprovalRun(r, "WAITING_APPROVAL", s)
    \/ \E gone \in SUBSET Runs : Drop(gone)

RunSpec == RunInit /\ [][RunNext]_runVars
=============================================================================
