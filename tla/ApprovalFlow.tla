---------------------------- MODULE ApprovalFlow ----------------------------
(* The write gate of the agent service: approvals, the Run and Steps each    *)
(* one belongs to, the handlers that confirm and execute them concurrently,  *)
(* cancellation, the second approval for a rework, and the Java store the     *)
(* writes go to.  Every Agent-side transaction is one action; between two     *)
(* actions of a handler anything else may happen.  The store is BusinessStore *)
(* with one Java request per approval, and may answer late, or never.         *)
(*                                                                            *)
(* All requests are those of the session's owner in the role REVIEWER: the    *)
(* service refuses any other before it reads or changes anything.             *)
EXTENDS BusinessStore

CONSTANTS
    Reviews,      \* ids of SUBMIT_REVIEW approvals
    Reworks,      \* ids of CREATE_REWORK approvals
    Clients,      \* other users of the Java write API
    Handlers,     \* concurrent confirmation requests
    Drafts,       \* the drafts the owner may confirm
    Task, Issue, Owner,
    Coordinate,   \* the issues of type COORDINATE_SYSTEM
    Faults        \* which faults a run admits

Approvals == Reviews \cup Reworks

ASSUME FlowAssumption ==
    /\ Reviews \cap Reworks = {} /\ Clients \cap Approvals = {}
    /\ Approvals # {}
    /\ Conns = Approvals \cup Clients
    /\ Approvals \subseteq Keys
    /\ Drafts \subseteq [conclusion : {"APPROVED", "REJECTED", "REWORK_REQUIRED"},
                         comment : Texts]
    /\ Task \in Tasks /\ Issue \in Issues /\ Owner \in Reviewers /\ Coordinate \subseteq Issues
    /\ Faults \subseteq {"read", "timeout", "save", "stream", "session", "crash"}

VARIABLES
    status,       \* approval -> ApprovalStatus, "ABSENT" before it is created
    target,       \* approval -> target_version
    draft,        \* approval -> the effective draft (modified, else original)
    result,       \* approval -> execution_result, 0 or the task version it holds
    overdue,      \* approval -> has its confirmation window passed
    source,       \* rework approval -> the reviews it was derived from
    run,          \* approval -> status of its Run, "NONE" before
    waitStep,     \* approval -> status of its APPROVAL step
    writeStep,    \* approval -> status of its WRITEBACK step
    logged,       \* operation_logs: the recorded outcomes of an approval
    attached,     \* does the session exist, so that run_id is not NULL
    at,           \* handler -> where its confirm_and_execute stands
    subject,      \* handler -> the approval it confirms
    wanted,       \* handler -> the draft in its request
    seen,         \* handler -> the task version it read
    fate          \* handler -> the terminal status it is about to record

agentVars == <<status, target, draft, result, overdue, source, run, waitStep,
               writeStep, logged, attached>>
handlerVars == <<at, subject, wanted, seen, fate>>
vars == <<storeVars, agentVars, handlerVars>>

NoDraft == [conclusion |-> "NONE", comment |-> "NONE"]

Terminal == {"SUCCEEDED", "FAILED", "CANCELLED", "EXPIRED", "STALE"}

FlowInit ==
    /\ Init
    /\ status = [a \in Approvals |-> "ABSENT"]
    /\ target = [a \in Approvals |-> 0]
    /\ draft = [a \in Approvals |-> NoDraft]
    /\ result = [a \in Approvals |-> 0]
    /\ overdue = [a \in Approvals |-> FALSE]
    /\ source = [a \in Approvals |-> {}]
    /\ run = [a \in Approvals |-> "NONE"]
    /\ waitStep = [a \in Approvals |-> "NONE"]
    /\ writeStep = [a \in Approvals |-> "NONE"]
    /\ logged = [a \in Approvals |-> {}]
    /\ attached = TRUE
    /\ at = [h \in Handlers |-> "idle"]
    /\ subject = [h \in Handlers |-> CHOOSE a \in Approvals : TRUE]
    /\ wanted = [h \in Handlers |-> NoDraft]
    /\ seen = [h \in Handlers |-> 0]
    /\ fate = [h \in Handlers |-> "NONE"]

\* The Java request of an approval.  _idempotency_key is a digest of the
\* approval id, so the approval itself stands for its key.
WriteCall(a) ==
    [key |-> a,
     req |-> [op |-> IF a \in Reviews THEN "SUBMIT_REVIEW" ELSE "CREATE_REWORK",
              task |-> Task, issue |-> Issue, actor |-> Owner,
              status |-> IF a \in Reviews THEN draft[a].conclusion ELSE "NONE",
              text |-> draft[a].comment, expected |-> target[a]]]

WantsRework(d) == d.conclusion = "REWORK_REQUIRED"

-----------------------------------------------------------------------------
\* Creating and ending approvals outside the confirmation.

\* create_draft, mark_waiting_confirmation, the APPROVAL step and
\* mark_waiting_approval in one transaction, for a new Run.
Create(a, d, v, from) ==
    /\ status' = [status EXCEPT ![a] = "WAITING_CONFIRMATION"]
    /\ target' = [target EXCEPT ![a] = v]
    /\ draft' = [draft EXCEPT ![a] = d]
    /\ source' = [source EXCEPT ![a] = from]
    /\ run' = [run EXCEPT ![a] = "WAITING_APPROVAL"]
    /\ waitStep' = [waitStep EXCEPT ![a] = "RUNNING"]
    /\ UNCHANGED <<result, overdue, writeStep, logged, attached>>

\* save_waiting_approval: the draft was made from a snapshot of the task that
\* may be out of date by now.
SaveWaitingApproval(a, d, v) ==
    /\ a \in Reviews
    /\ attached
    /\ status[a] = "ABSENT"
    /\ v \in {version[Task], version[Task] - 1} \cap Nat
    /\ Create(a, d, v, {})
    /\ UNCHANGED <<storeVars, handlerVars>>

\* _existing_rework skips the ended children of a review.
Reusable(a) == status[a] \notin {"CANCELLED", "EXPIRED", "STALE", "FAILED"}

LiveChildren(s) == {a \in Reworks : s \in source[a] /\ Reusable(a)}

MutNoExistingRework(s) == FALSE
HasExistingRework(s) == LiveChildren(s) # {}

MutReworkOnCurrentVersion(s, a) ==
    /\ s \in Reviews /\ a \in Reworks
    /\ attached
    /\ status[s] = "SUCCEEDED" /\ run[s] = "SUCCEEDED"
    /\ ~HasExistingRework(s)
    /\ WantsRework(draft[s])
    /\ status[a] = "ABSENT"
    /\ Create(a, draft[s], version[Task], {s})
    /\ UNCHANGED <<storeVars, handlerVars>>

\* create_rework, under a row lock on the source Run: refuse an unfinished
\* source, reuse a live child, else derive a new approval whose target version
\* is the one the review produced.
CreateRework(s, a) ==
    /\ s \in Reviews /\ a \in Reworks
    /\ attached
    /\ status[s] = "SUCCEEDED" /\ run[s] = "SUCCEEDED"
    /\ ~HasExistingRework(s)
    /\ WantsRework(draft[s])
    /\ status[a] = "ABSENT"
    /\ Create(a, draft[s], result[s], {s})
    /\ UNCHANGED <<storeVars, handlerVars>>

\* transition_status: UPDATE ... WHERE status = expected; the transaction also
\* needs the approval's Run, else it is rolled back.
Cas(a, expected, new) ==
    /\ attached
    /\ status[a] = expected
    /\ status' = [status EXCEPT ![a] = new]

MutRunLeftWaiting(a, outcome) ==
    /\ waitStep[a] = "RUNNING" /\ run[a] = "WAITING_APPROVAL"
    /\ waitStep' = [waitStep EXCEPT ![a] =
                      IF outcome = "CANCELLED" THEN "SUCCEEDED" ELSE "FAILED"]
    /\ UNCHANGED <<target, draft, result, overdue, source, run, writeStep, logged, attached>>

\* finish_waiting_approval: the waiting step and the waiting Run end with the
\* approval.
FinishWaiting(a, outcome) ==
    /\ waitStep[a] = "RUNNING" /\ run[a] = "WAITING_APPROVAL"
    /\ waitStep' = [waitStep EXCEPT ![a] =
                      IF outcome = "CANCELLED" THEN "SUCCEEDED" ELSE "FAILED"]
    /\ run' = [run EXCEPT ![a] =
                 IF outcome = "CANCELLED" THEN "CANCELLED" ELSE "FAILED"]
    /\ UNCHANGED <<target, draft, result, overdue, source, writeStep, logged, attached>>

\* cancel accepts only WAITING_CONFIRMATION; repeating it changes nothing.
MutCancelConfirmed(a) == status[a] \in {"WAITING_CONFIRMATION", "CONFIRMED"}
Cancellable(a) == status[a] = "WAITING_CONFIRMATION"

Cancel(a) ==
    /\ Cancellable(a)
    /\ Cas(a, status[a], "CANCELLED")
    /\ FinishWaiting(a, "CANCELLED")
    /\ UNCHANGED <<storeVars, handlerVars>>

\* created_at + approval_ttl_seconds passes.
WindowCloses(a) ==
    /\ status[a] \in {"WAITING_CONFIRMATION", "CONFIRMED"}
    /\ ~overdue[a]
    /\ overdue' = [overdue EXCEPT ![a] = TRUE]
    /\ UNCHANGED <<status, target, draft, result, source, run, waitStep, writeStep,
                   logged, attached, storeVars, handlerVars>>

-----------------------------------------------------------------------------
\* confirm_and_execute, one action per transaction or call.

Move(h, label) == at' = [at EXCEPT ![h] = label]

\* The handler answers with an error, or an exception ends it; its transaction,
\* if one was open, is rolled back.
Stop(h) ==
    /\ Move(h, "idle")
    /\ UNCHANGED <<storeVars, agentVars, subject, wanted, seen, fate>>

Go(h, label) ==
    /\ Move(h, label)
    /\ UNCHANGED <<storeVars, agentVars, subject, wanted, seen, fate>>

\* get_snapshot and the dispatch on the status it shows.  A SUCCEEDED approval
\* is answered from its stored result, any other end or an execution in
\* progress is a conflict: neither changes anything.
Snapshot(h, a, d) ==
    /\ at[h] = "idle"
    /\ attached
    /\ \/ status[a] = "WAITING_CONFIRMATION" /\ Move(h, "expire_waiting")
       \/ status[a] = "CONFIRMED" /\ draft[a] = d /\ Move(h, "expire_confirmed")
    /\ subject' = [subject EXCEPT ![h] = a]
    /\ wanted' = [wanted EXCEPT ![h] = d]
    /\ seen' = [seen EXCEPT ![h] = 0]
    /\ fate' = [fate EXCEPT ![h] = "NONE"]
    /\ UNCHANGED <<storeVars, agentVars>>

\* _expire_if_needed against the status of the snapshot the handler holds.
ExpireIfNeeded(h, from, expected, next) ==
    LET a == subject[h] IN
    /\ at[h] = from
    /\ \/ /\ ~overdue[a]
          /\ Go(h, next)
       \/ /\ overdue[a]
          /\ Cas(a, expected, "EXPIRED")
          /\ FinishWaiting(a, "EXPIRED")
          /\ Move(h, "idle")
          /\ UNCHANGED <<storeVars, subject, wanted, seen, fate>>
       \/ /\ overdue[a]
          /\ ~attached \/ status[a] # expected
          /\ Stop(h)

Expire(h) ==
    \/ ExpireIfNeeded(h, "expire_waiting", "WAITING_CONFIRMATION", "confirm")
    \/ ExpireIfNeeded(h, "expire_confirmed", "CONFIRMED", "read_task")
    \/ ExpireIfNeeded(h, "expire_checked", "CONFIRMED", "lock")

Confirmable(a) == status[a] = "WAITING_CONFIRMATION"

\* confirm_waiting: the final draft and the confirmation in one transaction.
ConfirmWaiting(h) ==
    LET a == subject[h] IN
    /\ at[h] = "confirm"
    /\ \/ /\ Confirmable(a)
          /\ Cas(a, status[a], "CONFIRMED")
          /\ draft' = [draft EXCEPT ![a] = wanted[h]]
          /\ Move(h, "expire_confirmed")
          /\ UNCHANGED <<target, result, overdue, source, run, waitStep, writeStep,
                         logged, attached, storeVars, subject, wanted, seen, fate>>
       \/ /\ ~attached \/ ~Confirmable(a)
          /\ Stop(h)

\* _read_task with force_refresh; a failed read leaves the approval CONFIRMED.
ReadTask(h) ==
    /\ at[h] = "read_task"
    /\ seen' = [seen EXCEPT ![h] = version[Task]]
    /\ Move(h, "read_issues")
    /\ UNCHANGED <<storeVars, agentVars, subject, wanted, fate>>

ReadFails(h) ==
    /\ "read" \in Faults
    /\ at[h] \in {"read_task", "read_issues"}
    /\ Stop(h)

\* _stale_reason: the version moved, or the facts no longer allow the draft,
\* which suggests a rework exactly when its conclusion asks for one.
Stale(a, d, v) ==
    \/ v # target[a]
    \/ TaskStatus[Task] # "COMPLETED"
    \/ IssueStatus[Issue] \in {"ABSENT", "CLOSED"} \/ IssueTask[Issue] # Task
    \/ d.conclusion = "APPROVED" /\ IssueStatus[Issue] # "RESOLVED"
    \/ WantsRework(d) /\ Issue \notin Coordinate

\* _read_issues and the comparison of the confirmed snapshot with the facts.
ReadIssues(h) ==
    /\ at[h] = "read_issues"
    /\ Go(h, IF Stale(subject[h], wanted[h], seen[h]) THEN "stale" ELSE "expire_checked")

MarkStale(h) ==
    LET a == subject[h] IN
    /\ at[h] = "stale"
    /\ \/ /\ Cas(a, "CONFIRMED", "STALE")
          /\ FinishWaiting(a, "STALE")
          /\ Move(h, "idle")
          /\ UNCHANGED <<storeVars, subject, wanted, seen, fate>>
       \/ /\ ~attached \/ status[a] # "CONFIRMED"
          /\ Stop(h)

\* The execution lock with begin_approval_execution: the compare-and-set on
\* CONFIRMED decides which of the handlers that reached this point executes.
MutLockNotCompared(a) == status[a] \in {"CONFIRMED", "EXECUTING"}
LockFree(a) == status[a] = "CONFIRMED"

Lock(h) ==
    LET a == subject[h] IN
    /\ at[h] = "lock"
    /\ \/ /\ LockFree(a)
          /\ Cas(a, status[a], "EXECUTING")
          /\ run' = [run EXCEPT ![a] = "RUNNING"]
          /\ waitStep' = [waitStep EXCEPT ![a] = "SUCCEEDED"]
          /\ writeStep' = [writeStep EXCEPT ![a] = "RUNNING"]
          /\ Move(h, "announce")
          /\ UNCHANGED <<target, draft, result, overdue, source, logged, attached,
                         storeVars, subject, wanted, seen, fate>>
       \/ /\ ~attached \/ ~LockFree(a)
          /\ Stop(h)

\* WRITEBACK_STARTED is published on the request's event stream.
Announce(h) ==
    /\ at[h] = "announce"
    /\ Go(h, "authorize")

\* The stream was removed as idle, or ended, since the request obtained its
\* publisher: publish raises EventStreamNotFoundError and nothing catches it.
AnnounceFails(h) ==
    /\ "stream" \in Faults
    /\ at[h] = "announce"
    /\ Stop(h)

\* _require_execution_snapshot and, for a rework, the check that the draft
\* still asks for one.  Failing either is a 409 without a Java call.
Authorized(a) ==
    /\ status[a] = "EXECUTING"
    /\ a \in Reworks => WantsRework(draft[a])

\* The write tool ends with a result, or with the error that decides between
\* STALE (409 BUSINESS_CONFLICT) and FAILED (anything else).
Conclude(h, outcome) ==
    /\ Move(h, "finish")
    /\ fate' = [fate EXCEPT ![h] = outcome]
    /\ UNCHANGED <<storeVars, agentVars, subject, wanted, seen>>

Authorize(h) ==
    /\ at[h] = "authorize"
    /\ IF Authorized(subject[h]) THEN Go(h, "post") ELSE Conclude(h, "STALE")

MutPostCurrentVersion(h) ==
    /\ at[h] = "post"
    /\ Invoke(subject[h], [WriteCall(subject[h]) EXCEPT !.req.expected = version[Task]])
    /\ Move(h, "await")
    /\ UNCHANGED <<agentVars, subject, wanted, seen, fate>>

\* The POST leaves: the Java service receives it.
Post(h) ==
    /\ at[h] = "post"
    /\ Invoke(subject[h], WriteCall(subject[h]))
    /\ Move(h, "await")
    /\ UNCHANGED <<agentVars, subject, wanted, seen, fate>>

MutConflictIsDone(h) ==
    LET got == reply[subject[h]] IN
    /\ at[h] = "await"
    /\ got.outcome # "PENDING"
    /\ IF got.outcome = "OK" THEN Go(h, "save")
       ELSE Conclude(h, IF got.outcome = "CONFLICT" THEN "SUCCEEDED" ELSE "FAILED")

\* The answer arrives.  A success must carry the version after the confirmed
\* one; 409 is a conflict.
Answer(h) ==
    LET got == reply[subject[h]] IN
    /\ at[h] = "await"
    /\ \/ /\ got.outcome = "OK" /\ got.after = target[subject[h]] + 1
          /\ Go(h, "save")
       \/ /\ got.outcome = "CONFLICT"
          /\ Conclude(h, "STALE")
       \/ /\ \/ got.outcome \in {"NOT_FOUND", "FORBIDDEN", "LOST"}
             \/ got.outcome = "OK" /\ got.after # target[subject[h]] + 1
          /\ Conclude(h, "FAILED")

MutTimeoutEscapes(h) ==
    /\ "timeout" \in Faults
    /\ at[h] = "await"
    /\ Stop(h)

\* The ten seconds of the write tool pass, or the connection breaks, while the
\* Java service is still at work.
Timeout(h) ==
    /\ "timeout" \in Faults
    /\ at[h] = "await"
    /\ Conclude(h, "FAILED")

\* save_execution_result, the first result only and only while EXECUTING; a
\* stored result counts as saved when it is the same.
SaveResult(h) ==
    LET a == subject[h] IN
    /\ at[h] = "save"
    /\ \/ /\ status[a] = "EXECUTING" /\ result[a] = 0
          /\ result' = [result EXCEPT ![a] = reply[a].after]
          /\ Move(h, "saved")
          /\ UNCHANGED <<status, target, draft, overdue, source, run, waitStep,
                         writeStep, logged, attached, storeVars, subject, wanted,
                         seen, fate>>
       \/ /\ result[a] = reply[a].after
          /\ Go(h, "saved")
       \/ /\ status[a] # "EXECUTING" \/ result[a] # 0
          /\ result[a] # reply[a].after
          /\ Conclude(h, "STALE")

ToolReturns(h) ==
    /\ at[h] = "saved"
    /\ Conclude(h, "SUCCEEDED")

\* The tool's time runs out, or the database fails, before the result is saved
\* or after: the tool reports a failure either way.
SaveInterrupted(h) ==
    /\ "save" \in Faults
    /\ at[h] \in {"save", "saved"}
    /\ Conclude(h, "FAILED")

WriteLog(a, outcome) == logged' = [logged EXCEPT ![a] = @ \cup {outcome}]

\* finish_with_operation_log: the terminal status, the operation log, the
\* WRITEBACK step and the Run in one transaction.  A saved result with any
\* status but EXECUTING and SUCCEEDED violates a CHECK constraint, and a
\* detached approval has no Run to finish: then everything is rolled back.
FinishLocked(h) ==
    LET a == subject[h]
        outcome == fate[h]
        end == IF outcome = "SUCCEEDED" THEN "SUCCEEDED" ELSE "FAILED"
        allowed == /\ attached
                   /\ status[a] = "EXECUTING"
                   /\ writeStep[a] = "RUNNING"
                   /\ result[a] # 0 => outcome = "SUCCEEDED"
    IN
    /\ at[h] = "finish"
    /\ \/ /\ allowed
          /\ Cas(a, "EXECUTING", outcome)
          /\ WriteLog(a, outcome)
          /\ writeStep' = [writeStep EXCEPT ![a] = end]
          /\ run' = [run EXCEPT ![a] = end]
          /\ Move(h, "idle")
          /\ UNCHANGED <<target, draft, result, overdue, source, waitStep, attached,
                         storeVars, subject, wanted, seen, fate>>
       \/ /\ ~allowed
          /\ Stop(h)

-----------------------------------------------------------------------------
\* The surroundings.

\* The Java service works on the requests it received, in any order, whether or
\* not the agent still waits for the answer.
JavaStep(c) ==
    /\ \/ Carry(c)
       \/ Replay(c)
       \/ Refuse(c)
    /\ UNCHANGED <<agentVars, handlerVars>>

JavaFails(c) ==
    /\ "timeout" \in Faults
    /\ Lose(c)
    /\ UNCHANGED <<agentVars, handlerVars>>

\* Another reviewer writes to the task through the Java API.
ClientWrites(c) ==
    /\ \E k \in Calls : k.key \notin Approvals /\ Invoke(c, k)
    /\ UNCHANGED <<agentVars, handlerVars>>

\* SessionContextService.delete: the cascade removes Runs and Steps and clears
\* the run_id of the approvals, which are kept.
DeleteSession ==
    /\ "session" \in Faults
    /\ attached
    /\ attached' = FALSE
    /\ run' = [a \in Approvals |-> IF run[a] = "NONE" THEN "NONE" ELSE "DELETED"]
    /\ waitStep' = [a \in Approvals |-> IF waitStep[a] = "NONE" THEN "NONE" ELSE "DELETED"]
    /\ writeStep' = [a \in Approvals |-> IF writeStep[a] = "NONE" THEN "NONE" ELSE "DELETED"]
    /\ UNCHANGED <<status, target, draft, result, overdue, source, logged, storeVars,
                   handlerVars>>

\* The agent process stops and starts again: handlers are gone, the database and
\* the Java service go on.
Restart ==
    /\ "crash" \in Faults
    /\ \E h \in Handlers : at[h] # "idle"
    /\ at' = [h \in Handlers |-> "idle"]
    /\ UNCHANGED <<storeVars, agentVars, subject, wanted, seen, fate>>

Progress(h) ==
    \/ Expire(h) \/ ConfirmWaiting(h) \/ ReadTask(h) \/ ReadIssues(h) \/ MarkStale(h)
    \/ Lock(h) \/ Announce(h) \/ Authorize(h) \/ Post(h) \/ Answer(h) \/ SaveResult(h)
    \/ ToolReturns(h) \/ FinishLocked(h)

HandlerFault(h) ==
    ReadFails(h) \/ AnnounceFails(h) \/ Timeout(h) \/ SaveInterrupted(h)

FlowNext ==
    \/ \E a \in Approvals, d \in Drafts, v \in {version[Task], version[Task] - 1} :
          SaveWaitingApproval(a, d, v)
    \/ \E s \in Reviews, a \in Reworks : CreateRework(s, a)
    \/ \E a \in Approvals : Cancel(a) \/ WindowCloses(a)
    \/ \E h \in Handlers :
          \/ \E a \in Approvals, d \in Drafts : Snapshot(h, a, d)
          \/ Progress(h)
          \/ HandlerFault(h)
    \/ \E c \in Conns : JavaStep(c) \/ JavaFails(c)
    \/ \E c \in Clients : ClientWrites(c)
    \/ DeleteSession
    \/ Restart

FlowSpec == FlowInit /\ [][FlowNext]_vars

\* The event loop runs every handler that can run, and the Java service answers.
FlowFairness ==
    /\ \A h \in Handlers : WF_vars(Progress(h))
    /\ \A a \in Approvals : WF_vars(JavaStep(a))

FairFlowSpec == FlowSpec /\ FlowFairness

-----------------------------------------------------------------------------
Statuses == Terminal \cup {"ABSENT", "WAITING_CONFIRMATION", "CONFIRMED", "EXECUTING"}

PastLock == {"announce", "authorize", "post", "await", "save", "saved", "finish"}

FlowTypeOK ==
    /\ status \in [Approvals -> Statuses]
    /\ target \in [Approvals -> Nat]
    /\ draft \in [Approvals -> Drafts \cup {NoDraft}]
    /\ result \in [Approvals -> Nat]
    /\ overdue \in [Approvals -> BOOLEAN]
    /\ source \in [Approvals -> SUBSET Reviews]
    /\ run \in [Approvals -> {"NONE", "WAITING_APPROVAL", "RUNNING", "SUCCEEDED",
                              "FAILED", "CANCELLED", "DELETED"}]
    /\ waitStep \in [Approvals -> {"NONE", "RUNNING", "SUCCEEDED", "FAILED", "DELETED"}]
    /\ writeStep \in [Approvals -> {"NONE", "RUNNING", "SUCCEEDED", "FAILED", "DELETED"}]
    /\ logged \in [Approvals -> SUBSET Terminal]
    /\ attached \in BOOLEAN
    /\ at \in [Handlers -> PastLock \cup {"idle", "expire_waiting", "confirm",
                 "expire_confirmed", "read_task", "read_issues", "stale",
                 "expire_checked", "lock"}]
    /\ subject \in [Handlers -> Approvals]
    /\ wanted \in [Handlers -> Drafts \cup {NoDraft}]
    /\ seen \in [Handlers -> Nat]
    /\ fate \in [Handlers -> {"NONE", "SUCCEEDED", "FAILED", "STALE"}]

\* One handler at most is between the execution lock and the end of the write,
\* for each approval, and while it is the approval is EXECUTING: a concurrent,
\* repeated or resumed confirmation never executes it a second time.
ExclusiveExecution ==
    /\ \A h \in Handlers : at[h] \in PastLock => status[subject[h]] = "EXECUTING"
    /\ \A g, h \in Handlers :
          at[g] \in PastLock /\ at[h] \in PastLock /\ subject[g] = subject[h] => g = h

\* What was written is what was confirmed, and only that: the confirmed draft,
\* against the task version the approval was shown for.  Whatever the
\* interleaving, an approval that was cancelled, expired, became stale or still
\* waits has changed no business fact.  (FAILED may hide a write whose answer
\* was lost.)
WrittenAsConfirmed ==
    \A e \in effects : e.key \in Approvals =>
        /\ status[e.key] \in {"EXECUTING", "SUCCEEDED", "FAILED"}
        /\ e.req = WriteCall(e.key).req

\* SUCCEEDED means written: the stored result is that of the one row the Java
\* service committed under the approval's key.
SucceededIsWritten ==
    \A a \in Approvals : status[a] = "SUCCEEDED" =>
        \E e \in effects : e.key = a /\ result[a] = e.before + 1

\* Approval, Run and Steps tell one story in every state between transactions.
RunMirrorsApproval ==
    \A a \in Approvals : attached =>
        <<status[a], run[a], waitStep[a], writeStep[a]>> \in
            { <<"ABSENT", "NONE", "NONE", "NONE">>,
              <<"WAITING_CONFIRMATION", "WAITING_APPROVAL", "RUNNING", "NONE">>,
              <<"CONFIRMED", "WAITING_APPROVAL", "RUNNING", "NONE">>,
              <<"EXECUTING", "RUNNING", "SUCCEEDED", "RUNNING">>,
              <<"SUCCEEDED", "SUCCEEDED", "SUCCEEDED", "SUCCEEDED">>,
              <<"FAILED", "FAILED", "SUCCEEDED", "FAILED">>,
              <<"STALE", "FAILED", "SUCCEEDED", "FAILED">>,
              <<"STALE", "FAILED", "FAILED", "NONE">>,
              <<"EXPIRED", "FAILED", "FAILED", "NONE">>,
              <<"CANCELLED", "CANCELLED", "SUCCEEDED", "NONE">> }

\* The operation log has exactly one entry for every execution that reached its
\* end, and none for an approval that never executed.
LoggedIffExecuted ==
    \A a \in Approvals :
        logged[a] = IF status[a] \in {"SUCCEEDED", "FAILED"}
                       \/ (status[a] = "STALE" /\ writeStep[a] \notin {"NONE"})
                    THEN {status[a]} ELSE {}

\* The records of an approval in the agent's database tell one story, whatever
\* failed between two of its transactions.
RecordsAgree == RunMirrorsApproval /\ LoggedIffExecuted

\* A review leads to at most one rework authorisation that is open, executing or
\* done, however often and whenever it is asked for.
OneLiveRework == \A s \in Reviews : \A a, b \in LiveChildren(s) : a = b

\* A rework is created on exactly the task state its review left behind: no
\* other write came between.
ReworkFollowsReview ==
    \A e \in effects : e.key \in Reworks =>
        \A s \in source[e.key] : \E f \in effects :
            f.key = s /\ e.before = f.before + 1

-----------------------------------------------------------------------------
\* What makes the invariants above inductive.

StoreTypeOK ==
    /\ version \in [Tasks -> Nat] /\ serial \in Nat
    /\ effects \subseteq Effect /\ idem \subseteq IdemRecord
    /\ call \in [Conns -> Call] /\ reply \in [Conns -> Reply]

Written(key, after) == \E e \in effects : e.key = key /\ after = e.before + 1

\* The Java service's own records: an idempotency record and a successful answer
\* name a committed row, which replaced the version its request expected.
StoreKept ==
    /\ \A r \in idem : Written(r.key, r.after)
    /\ \A e \in effects : e.before = e.req.expected
    /\ \A c \in Conns : reply[c].outcome = "OK" => Written(call[c].key, reply[c].after)

InFlight(c) == reply[c].outcome \in {"PENDING", "OK"}
Unwritten(a) == \A e \in effects : e.key # a
Unsent(a) == Unwritten(a) /\ ~InFlight(a)

\* An approval's key is used for its own call only, and a row under it appears
\* while that call is under way.
OwnCalls ==
    /\ \A a \in Approvals : InFlight(a) => call[a] = WriteCall(a)
    /\ \A c \in Clients : InFlight(c) => call[c].key \notin Approvals
    /\ \A a \in Approvals : reply[a].outcome \notin {"OK", "LOST"} => Unwritten(a)

\* The call leaves once: nothing is sent before the execution lock, and nothing
\* was by a handler that has not posted yet or found the draft stale.
SentOnce ==
    /\ \A a \in Approvals : status[a] \notin {"EXECUTING", "SUCCEEDED", "FAILED"} => Unsent(a)
    /\ \A h \in Handlers :
          /\ at[h] \in {"announce", "authorize", "post"} => Unsent(subject[h])
          /\ at[h] = "finish" /\ fate[h] = "STALE" => Unsent(subject[h])

\* A stored result is that of a committed row, and is stored before the tool
\* reports success.
ResultKept ==
    /\ \A a \in Approvals : /\ (result[a] # 0 => Written(a, result[a]))
                             /\ (status[a] = "SUCCEEDED" => result[a] # 0)
    /\ \A h \in Handlers :
          /\ at[h] \in {"await", "save"} => result[subject[h]] = 0
          /\ at[h] = "save" => reply[subject[h]].outcome = "OK"
          /\ at[h] = "saved" => result[subject[h]] # 0
          /\ at[h] = "finish" /\ fate[h] = "SUCCEEDED" => result[subject[h]] # 0

\* Once past the confirmation, what a handler holds is what is stored.
Confirming == {"idle", "expire_waiting", "confirm"}
ConfirmedDraft ==
    /\ \A a \in Approvals : status[a] # "ABSENT" => draft[a] \in Drafts
    /\ \A h \in Handlers :
          /\ at[h] # "idle" => wanted[h] \in Drafts
          /\ at[h] \notin Confirming =>
                /\ status[subject[h]] \notin {"ABSENT", "WAITING_CONFIRMATION"}
                /\ draft[subject[h]] = wanted[h]
          /\ at[h] = "finish" => fate[h] # "NONE"

\* A rework holds the version its one source, a written review, left behind.
SourceKept ==
    /\ \A a \in Approvals : status[a] = "ABSENT" \/ a \in Reviews => source[a] = {}
    /\ \A a \in Reworks : \A s \in source[a] :
          status[s] = "SUCCEEDED" /\ target[a] = result[s]

FlowIInv ==
    /\ FlowTypeOK /\ StoreTypeOK /\ StoreKept
    /\ ExclusiveExecution /\ ConfirmedDraft /\ OwnCalls /\ SentOnce /\ ResultKept
    /\ WrittenAsConfirmed /\ RunMirrorsApproval /\ LoggedIffExecuted
    /\ SourceKept /\ OneLiveRework

-----------------------------------------------------------------------------
\* _ALLOWED_TRANSITIONS, which the confirmation's own compare-and-sets never
\* consult.
AllowedTransitions ==
    { <<"ABSENT", "WAITING_CONFIRMATION">>,
      <<"WAITING_CONFIRMATION", "CONFIRMED">>, <<"WAITING_CONFIRMATION", "CANCELLED">>,
      <<"WAITING_CONFIRMATION", "EXPIRED">>, <<"WAITING_CONFIRMATION", "STALE">>,
      <<"CONFIRMED", "EXECUTING">>, <<"CONFIRMED", "EXPIRED">>, <<"CONFIRMED", "STALE">>,
      <<"EXECUTING", "SUCCEEDED">>, <<"EXECUTING", "FAILED">>, <<"EXECUTING", "STALE">> }

\* Every change of an approval's status is one the lifecycle table allows, and
\* the confirmed draft never changes after the confirmation.
LifecycleRespected ==
    [][\A a \in Approvals :
          /\ status'[a] # status[a] => <<status[a], status'[a]>> \in AllowedTransitions
          /\ status[a] \notin {"ABSENT", "WAITING_CONFIRMATION"} => draft'[a] = draft[a]]_vars

\* A confirmation request is always answered, and an execution that started
\* comes to an end.
ExecutionEnds ==
    /\ \A h \in Handlers : at[h] # "idle" ~> at[h] = "idle"
    /\ \A a \in Approvals : status[a] = "EXECUTING" ~> status[a] \in Terminal

\* "SSE断连只清理订阅，不取消正在运行的Run" (docs/STATUS.md): losing the event
\* stream during an execution does not keep its Run from ending.
StreamLossKeepsRun ==
    \A a \in Approvals : run[a] = "RUNNING" ~> run[a] \in {"SUCCEEDED", "FAILED"}
=============================================================================
