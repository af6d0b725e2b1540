--------------------------- MODULE BusinessFacts ---------------------------
(* The facts the Java business service keeps about production tasks and    *)
(* quality issues, the two write requests it accepts, and the validations  *)
(* of BusinessWriteService.  No code of the service changes the status of a *)
(* task or of an issue: the two writes only append a review or a rework row *)
(* and bump the task version, so the statuses are constants of a run.       *)
EXTENDS Integers

CONSTANTS
    Tasks,        \* task ids that appear in request paths
    Issues,       \* issue ids that appear in request bodies
    Keys,         \* Idempotency-Key header values
    Users,        \* X-User-Id header values
    Reviewers,    \* the users whose X-User-Role is REVIEWER
    Texts,        \* review comments and rework reasons
    TaskStatus,   \* task -> ProductionTaskStatus, "ABSENT" when there is no row
    IssueStatus,  \* issue -> QualityIssueStatus, "ABSENT" when there is no row
    IssueTask,    \* issue -> the task the quality issue belongs to
    SeedRework,   \* issues that start with an active rework task
    Conns,        \* concurrent request handlers (servlet thread and connection)
    Calls         \* the calls the clients issue, retries and key reuse included

ASSUME FactsAssumption ==
    /\ Reviewers \subseteq Users
    /\ SeedRework \subseteq Issues
    /\ TaskStatus \in [Tasks -> {"PENDING", "RUNNING", "COMPLETED", "FAILED",
                                 "BLOCKED", "ABSENT"}]
    /\ IssueStatus \in [Issues -> {"OPEN", "PROCESSING", "RESOLVED", "CLOSED",
                                   "ABSENT"}]
    /\ IssueTask \in [Issues -> Tasks]

ReviewStatus == {"PENDING", "APPROVED", "REJECTED", "REWORK_REQUIRED"}

\* ReviewSubmissionRequest and ReworkCreationRequest with the path and actor
\* they arrive with.  requestHash covers every field but the actor, which the
\* idempotency record stores beside it, so two requests are "the same" exactly
\* when these records are equal.
Request ==
    [op : {"SUBMIT_REVIEW"}, task : Tasks, issue : Issues, actor : Users,
     status : ReviewStatus, text : Texts, expected : Nat]
    \cup
    [op : {"CREATE_REWORK"}, task : Tasks, issue : Issues, actor : Users,
     status : {"NONE"}, text : Texts, expected : Nat]

Call == [key : Keys, req : Request]

ASSUME CallsAssumption == Calls # {} /\ Calls \subseteq Call

\* validateReviewState: PENDING is no conclusion, a CLOSED issue is final, and
\* only a RESOLVED issue can be approved.
ReviewStateOk(req) ==
    /\ req.status # "PENDING"
    /\ IssueStatus[req.issue] # "CLOSED"
    /\ req.status = "APPROVED" => IssueStatus[req.issue] = "RESOLVED"

\* requireIssueForTask followed by the state check of the operation.
IssueOk(req) ==
    /\ IssueStatus[req.issue] # "ABSENT"
    /\ IssueTask[req.issue] = req.task
    /\ IF req.op = "SUBMIT_REVIEW" THEN ReviewStateOk(req)
                                   ELSE IssueStatus[req.issue] # "CLOSED"

\* requireTask, validateExpectedVersion and validateCompletedTask.
TaskOk(req, taskVersion) ==
    /\ TaskStatus[req.task] = "COMPLETED"
    /\ taskVersion = req.expected

\* A committed write: the row it appended (id), the idempotency key and request
\* it was made for, the task version it replaced and, for a review, the review
\* rows of the task its operation log counted as already there.
Effect == [id : Nat, key : Keys, req : Request, before : Nat, counted : SUBSET Nat]

\* existsByTaskTaskIdAndSourceIssueIssueIdAndStatusIn(ACTIVE_REWORK_STATUSES):
\* a created rework is PENDING and nothing later changes its status.
ActiveRework(effects, task, issue) ==
    \/ issue \in SeedRework /\ IssueTask[issue] = task
    \/ \E e \in effects : /\ e.req.op = "CREATE_REWORK"
                          /\ e.req.task = task
                          /\ e.req.issue = issue

\* findAllByTaskIdOrderByReviewIdAsc: the reviews already written for a task.
ReviewRows(effects, task) ==
    {e.id : e \in {f \in effects : f.req.op = "SUBMIT_REVIEW" /\ f.req.task = task}}

CountedRows(effects, req) ==
    IF req.op = "SUBMIT_REVIEW" THEN ReviewRows(effects, req.task) ELSE {}

\* Everything a request needs, in one database state, to be carried out.
Acceptable(req, taskVersion, effects) ==
    /\ TaskOk(req, taskVersion)
    /\ IssueOk(req)
    /\ req.op = "CREATE_REWORK" => ~ActiveRework(effects, req.task, req.issue)

\* What the caller receives: the HTTP outcome and, for a success, the row and
\* the task version in the response body.  LOST stands for a request
\* whose transaction a failure rolled back, or whose response was lost: the
\* caller sees an error or nothing.
Refusals == {"CONFLICT", "NOT_FOUND", "FORBIDDEN", "LOST"}

Reply == [outcome : Refusals \cup {"PENDING"}, id : {0}, after : {0}]
         \cup [outcome : {"OK"}, id : Nat, after : Nat]

Pending == [outcome |-> "PENDING", id |-> 0, after |-> 0]

Refused(outcome) == [outcome |-> outcome, id |-> 0, after |-> 0]

Accepted(id, after) == [outcome |-> "OK", id |-> id, after |-> after]

\* A missing row is 404 RESOURCE_NOT_FOUND, any failed validation 409
\* BUSINESS_CONFLICT.
TaskRefusal(req) ==
    Refused(IF TaskStatus[req.task] = "ABSENT" THEN "NOT_FOUND" ELSE "CONFLICT")

IssueRefusal(req) ==
    Refused(IF IssueStatus[req.issue] = "ABSENT" THEN "NOT_FOUND" ELSE "CONFLICT")

\* A row of idempotency_records as other transactions can see it: it commits in
\* the transaction that completes it, so a visible row is always completed.
IdemRecord == [key : Keys, req : Request, id : Nat, after : Nat]
=============================================================================
