------------------------------ MODULE AgentTurn ------------------------------
(* One turn of the agent: AgentMessageService.execute and the older           *)
(* OrderDiagnosisService.diagnose, over the tables of sessions, Runs and       *)
(* Steps.  Turns run concurrently in one session or in several; the owner may   *)
(* delete a session, it may expire, and the approval a review turn created is    *)
(* confirmed, cancelled and finished by other requests (see ApprovalFlow), which  *)
(* may come before that turn has written its own end.                            *)
(*                                                                              *)
(* An action is one transaction together with the event published after it: a    *)
(* publication changes none of these tables, but it raises once the event        *)
(* stream is lost, and what happens then depends on where it is called.          *)
(* What the router decides and what a skill computes are left open here; the     *)
(* modules Conversation, Skills and Specification model them.                    *)
EXTENDS Naturals, Sequences, FiniteSets, FiniteSetsExt

CONSTANTS
    Turns,          \* turns, numbered in the order of their Runs' created_at
    Sessions,
    Skills,         \* the skills a decision may dispatch to
    MaxSkillSteps,  \* bound on the Steps one skill records
    Faults          \* which faults a run admits

ASSUME TurnAssumption ==
    /\ Turns \subseteq Nat /\ IsFiniteSet(Turns)
    /\ Skills \subseteq {"ORDER_STATUS", "DIAGNOSIS", "SPECIFICATION_ANSWER", "REVIEW"}
    /\ MaxSkillSteps \in Nat
    /\ Faults \subseteq {"stream", "session"}

VARIABLES
    session,      \* session -> "absent", "live", "expired" or "deleted"
    home,         \* turn -> session of its Run
    run,          \* turn -> status of its Run, "NONE" before, "GONE" once deleted
    final,        \* turn -> kind of its final_result, "none" while NULL
    steps,        \* turn -> its Steps: sequence_number -> "RUNNING" or "ENDED"
    basis,        \* turn -> the Run its review draft was made from, or 0
    approval,     \* turn -> state of the approval its review created
    at,           \* turn -> where its request stands
    ask,          \* turn -> "message", "fixed", or "choice"
    question,     \* turn -> the Run whose clarification a choice answers
    attempt,      \* turn -> attempts of its router model
    decision,     \* turn -> what the router decided
    next,         \* turn -> the sequence_number its skill takes next
    open,         \* turn -> its unfinished Steps, innermost last
    lost          \* turn -> is its event stream gone

rows == <<session, home, run, final, steps, basis, approval>>
locals == <<at, ask, question, attempt, decision, next, open, lost>>
vars == <<rows, locals>>

Done == {"answered", "failed", "refused", "stranded"}

Init ==
    /\ session = [s \in Sessions |-> "absent"]
    /\ home = [t \in Turns |-> "none"]
    /\ run = [t \in Turns |-> "NONE"]
    /\ final = [t \in Turns |-> "none"]
    /\ steps = [t \in Turns |-> <<>>]
    /\ basis = [t \in Turns |-> 0]
    /\ approval = [t \in Turns |-> "none"]
    /\ at = [t \in Turns |-> "idle"]
    /\ ask = [t \in Turns |-> "message"]
    /\ question = [t \in Turns |-> 0]
    /\ attempt = [t \in Turns |-> 0]
    /\ decision = [t \in Turns |-> "none"]
    /\ next = [t \in Turns |-> 1]
    /\ open = [t \in Turns |-> <<>>]
    /\ lost = [t \in Turns |-> FALSE]

-----------------------------------------------------------------------------
(* The tables and the event stream, as a turn uses them                      *)

\* ensure_access: the session exists, belongs to the caller, has not expired.
\* Requests of other users are among those Refuse stands for.
Accessible(s) == session[s] = "live"

Go(t, label) == at' = [at EXCEPT ![t] = label]

\* RunEventPublisher.publish: raises once the stream is lost.  A request
\* without a stream publishes nothing and goes on.
Publish(t, label, onError) ==
    \/ ~lost[t] /\ Go(t, label) /\ UNCHANGED lost
    \/ /\ lost[t] \/ "stream" \in Faults
       /\ lost' = [lost EXCEPT ![t] = TRUE]
       /\ Go(t, onError)

\* start_step locks the Run, which must be RUNNING; (run_id, sequence_number)
\* is unique.
MayStart(t, n) == run[t] = "RUNNING" /\ n \notin DOMAIN steps[t]

\* _finish is a compare-and-set from RUNNING, whatever the state of the Run.
MayFinish(t, n) == n \in DOMAIN steps[t] /\ steps[t][n] = "RUNNING"

SetStep(t, n, s) ==
    steps' = [steps EXCEPT ![t] =
                [m \in DOMAIN steps[t] \cup {n} |-> IF m = n THEN s ELSE steps[t][m]]]

\* start_step number n, then the event of a started Step if it has one.
Start(t, n, onSuccess, onError) ==
    IF MayStart(t, n)
    THEN /\ SetStep(t, n, "RUNNING")
         /\ open' = [open EXCEPT ![t] = Append(@, n)]
         /\ onSuccess
    ELSE /\ Go(t, onError)
         /\ UNCHANGED <<steps, open, lost>>

\* mark_succeeded or mark_failed of the innermost open Step, then its event.
\* Which of the two it is plays no part in what follows.
Finish(t, onSuccess, onError) ==
    LET n == open[t][Len(open[t])] IN
    /\ open' = [open EXCEPT ![t] = SubSeq(@, 1, Len(@) - 1)]
    /\ IF MayFinish(t, n)
       THEN SetStep(t, n, "ENDED") /\ onSuccess
       ELSE Go(t, onError) /\ UNCHANGED <<steps, lost>>

Quietly(t, label) == Go(t, label) /\ UNCHANGED lost

\* RunLifecycleService._transition: compare-and-set on the status of the Run.
Transition(t, expected, new, kind) ==
    /\ run[t] = expected
    /\ run' = [run EXCEPT ![t] = new]
    /\ final' = [final EXCEPT ![t] = kind]

InSession(s) == {t \in Turns : home[t] = s /\ run[t] \notin {"NONE", "GONE"}}

\* latest_result_by_session and recent_successful_results_by_session, both
\* ORDER BY created_at DESC.
WithResult(s) == {t \in InSession(s) : final[t] # "none"}
Diagnoses(s) == {t \in InSession(s) : run[t] = "SUCCEEDED" /\ final[t] = "DIAGNOSIS"}

-----------------------------------------------------------------------------
(* Intake                                                                    *)

\* A request arrives and its transaction begins.  created_at is the start of
\* the transaction, not the moment it obtains the session's lock.
Begin(t, kind, q) ==
    /\ at[t] = "idle"
    /\ \A u \in Turns : u < t => at[u] # "idle"
    /\ ask' = [ask EXCEPT ![t] = kind]
    /\ question' = [question EXCEPT ![t] = q]
    /\ Go(t, "intake")
    /\ UNCHANGED <<rows, attempt, decision, next, open, lost>>

\* POST /api/agent/messages.
CreateAgentMessage(t) == Begin(t, "message", 0)

\* The same with a clarification: a choice for the question of an earlier Run.
ContinueClarification(t) == \E u \in Turns : at[u] = "answered" /\ Begin(t, "choice", u)

\* The older endpoint for the fixed diagnosis.
DiagnoseOrder(t) == Begin(t, "fixed", 0)

\* A session is created, or locked and checked; then the message and the Run
\* are inserted and the Run set RUNNING.
CreateRunningRun(t) ==
    /\ \E s \in Sessions :
          /\ \/ session[s] = "absent" /\ ask[t] # "choice"
             \/ Accessible(s)
          /\ session' = [session EXCEPT ![s] = "live"]
          /\ home' = [home EXCEPT ![t] = s]
    /\ Transition(t, "NONE", "RUNNING", "none")
    /\ UNCHANGED <<steps, basis, approval, ask, question, attempt, decision, next, open>>

\* _create_running_run, then RUN_STARTED, outside every try.
Intake(t) ==
    /\ at[t] = "intake" /\ ask[t] # "fixed"
    /\ CreateRunningRun(t)
    /\ Publish(t, "context", "stranded")

\* The same of the fixed diagnosis: RUN_STARTED and CONTEXT_LOADED, outside
\* every try, and no context Step.
FixedIntake(t) ==
    /\ at[t] = "intake" /\ ask[t] = "fixed"
    /\ CreateRunningRun(t)
    /\ Publish(t, "skill", "stranded")

\* The session is missing, foreign or expired, the page claims another role,
\* or the transaction fails: rolled back, RUN_FAILED without a run_id.
Refuse(t) ==
    /\ at[t] = "intake"
    /\ Go(t, "refused")
    /\ UNCHANGED <<rows, ask, question, attempt, decision, next, open, lost>>

-----------------------------------------------------------------------------
(* Context, routing and policy                                               *)

Context(t) ==
    /\ at[t] = "context"
    /\ Start(t, 1, Quietly(t, "loading"), "fail")
    /\ UNCHANGED <<session, home, run, final, basis, approval, ask, question,
                   attempt, decision, next>>

Loaded(t) ==
    /\ at[t] = "loading"
    /\ Finish(t, Publish(t, IF ask[t] = "choice" THEN "resume" ELSE "route", "fail"), "fail")
    /\ UNCHANGED <<session, home, run, final, basis, approval, ask, question,
                   attempt, decision, next>>

\* Each attempt of the router model is an LLM Step of its own.
Route(t) ==
    /\ at[t] = "route"
    /\ attempt' = [attempt EXCEPT ![t] = @ + 1]
    /\ Start(t, 2 + attempt[t], Quietly(t, "model"), "fail")
    /\ UNCHANGED <<session, home, run, final, basis, approval, ask, question,
                   decision, next>>

Decisions == Skills \cup {"CLARIFICATION"}

\* The model's answer is valid.
Routed(t) ==
    /\ at[t] = "model"
    /\ \E d \in Decisions : decision' = [decision EXCEPT ![t] = d]
    /\ Finish(t, Quietly(t, "policy"), "fail")
    /\ UNCHANGED <<session, home, run, final, basis, approval, ask, question,
                   attempt, next>>

\* Its output is invalid, to the client (the Step fails) or to the router (the
\* Step succeeded): one correction attempt, then the turn fails.
Misrouted(t) ==
    /\ at[t] = "model"
    /\ Finish(t, Quietly(t, IF attempt[t] = 1 THEN "route" ELSE "fail"), "fail")
    /\ UNCHANGED <<session, home, run, final, basis, approval, ask, question,
                   attempt, decision, next>>

\* The model cannot be reached: no retry at this level.
ModelFails(t) ==
    /\ at[t] = "model"
    /\ Finish(t, Quietly(t, "fail"), "fail")
    /\ UNCHANGED <<session, home, run, final, basis, approval, ask, question,
                   attempt, decision, next>>

\* _load_pending_decision: the question must be the newest result of this
\* session and a successful clarification.  The answer may resolve it or lead
\* to another question.
Resumable(t) ==
    LET q == question[t] IN
    /\ q \in WithResult(home[t]) /\ q = Max(WithResult(home[t]))
    /\ run[q] = "SUCCEEDED" /\ final[q] = "CLARIFICATION"

MutResumeSkipsFinalization(t) ==
    /\ at[t] = "resume"
    /\ \/ /\ Resumable(t)
          /\ \E d \in Decisions : decision' = [decision EXCEPT ![t] = d]
          /\ Go(t, "policy")
       \/ Go(t, "failed") /\ UNCHANGED decision
    /\ UNCHANGED <<rows, ask, question, attempt, next, open, lost>>

Resume(t) ==
    /\ at[t] = "resume"
    /\ \/ /\ Resumable(t)
          /\ \E d \in Decisions : decision' = [decision EXCEPT ![t] = d]
          /\ Go(t, "policy")
       \/ Go(t, "fail") /\ UNCHANGED decision
    /\ UNCHANGED <<rows, ask, question, attempt, next, open, lost>>

PolicyNumber(t) == attempt[t] + 2

Policy(t) ==
    /\ at[t] = "policy"
    /\ Start(t, PolicyNumber(t), Quietly(t, "policed"), "fail")
    /\ UNCHANGED <<session, home, run, final, basis, approval, ask, question,
                   attempt, decision, next>>

Policed(t) ==
    /\ at[t] = "policed"
    /\ Finish(t, Quietly(t, "save"), "fail")
    /\ UNCHANGED <<session, home, run, final, basis, approval, ask, question,
                   attempt, decision, next>>

MutSaveRetriedForever(t) ==
    /\ at[t] = "save"
    /\ Go(t, IF run[t] = "RUNNING" THEN "remember" ELSE "save")
    /\ UNCHANGED <<rows, ask, question, attempt, decision, next, open, lost>>

\* _save_decision: router_result of a Run that is not over.
Save(t) ==
    /\ at[t] = "save"
    /\ Go(t, IF run[t] = "RUNNING" THEN "remember" ELSE "fail")
    /\ UNCHANGED <<rows, ask, question, attempt, decision, next, open, lost>>

\* _update_session_context, under the session's lock and after another check
\* of owner and expiry.  A PAGE_ORDER_MISMATCH question leaves the session
\* alone.  INTENT_DETECTED, and CLARIFICATION_REQUIRED, follow.
Remember(t) ==
    /\ at[t] = "remember"
    /\ \/ /\ Accessible(home[t]) \/ decision[t] = "CLARIFICATION"
          /\ Publish(t, IF decision[t] = "CLARIFICATION" THEN "settle" ELSE "dispatch", "fail")
       \/ ~Accessible(home[t]) /\ Go(t, "fail") /\ UNCHANGED lost
    /\ UNCHANGED <<rows, ask, question, attempt, decision, next, open>>

-----------------------------------------------------------------------------
(* The skill                                                                 *)

\* The dispatch Step, then AGENT_ACTION_SELECTED, which is not yet under the
\* handlers that would end that Step.
Dispatch(t) ==
    /\ at[t] = "dispatch"
    /\ Start(t, PolicyNumber(t) + 1,
             Publish(t, IF decision[t] = "REVIEW" THEN "source" ELSE "skill", "fail"), "fail")
    /\ next' = [next EXCEPT ![t] = PolicyNumber(t) + 2]
    /\ UNCHANGED <<session, home, run, final, basis, approval, ask, question,
                   attempt, decision>>

\* latest_diagnosis: a draft needs a successful diagnosis of this session.
Source(t) ==
    /\ at[t] = "source"
    /\ IF Accessible(home[t]) /\ Diagnoses(home[t]) # {}
       THEN basis' = [basis EXCEPT ![t] = Max(Diagnoses(home[t]))] /\ Go(t, "skill")
       ELSE Go(t, "raise") /\ UNCHANGED basis
    /\ UNCHANGED <<session, home, run, final, steps, approval, ask, question,
                   attempt, decision, next, open, lost>>

\* Depth of the stack of open Steps at which the skill itself stands.
Base(t) == IF ask[t] = "fixed" THEN 0 ELSE 1

\* The skill starts a Step, possibly inside another (an LLM call inside a
\* retrieval or a decision).  TOOL_STARTED is published before the tool's own
\* handlers are entered: if it raises, nobody ends the Step.
SkillStep(t) ==
    /\ at[t] = "skill"
    /\ next[t] < PolicyNumber(t) + 2 + MaxSkillSteps
    /\ Len(open[t]) < Base(t) + 2
    /\ next' = [next EXCEPT ![t] = @ + 1]
    /\ IF MayStart(t, next[t])
       THEN /\ SetStep(t, next[t], "RUNNING")
            /\ \/ open' = [open EXCEPT ![t] = Append(@, next[t])] /\ Quietly(t, "skill")
               \/ /\ "stream" \in Faults
                  /\ lost' = [lost EXCEPT ![t] = TRUE]
                  /\ Go(t, "raise") /\ UNCHANGED open
       ELSE Go(t, "raise") /\ UNCHANGED <<steps, open, lost>>
    /\ UNCHANGED <<session, home, run, final, basis, approval, ask, question,
                   attempt, decision>>

\* The innermost Step ends, well or badly, and the skill goes on.
SkillStepEnds(t) ==
    /\ at[t] = "skill"
    /\ Len(open[t]) > Base(t)
    /\ Finish(t, Publish(t, "skill", "raise"), "raise")
    /\ UNCHANGED <<session, home, run, final, basis, approval, ask, question,
                   attempt, decision, next>>

SkillRaises(t) ==
    /\ at[t] = "skill"
    /\ Go(t, "raise")
    /\ UNCHANGED <<rows, ask, question, attempt, decision, next, open, lost>>

MutUnwindLeavesDispatchStep(t) ==
    /\ at[t] = "raise"
    /\ \/ /\ Len(open[t]) > Base(t)
          /\ Finish(t, Quietly(t, "raise"), "raise")
       \/ Len(open[t]) <= Base(t) /\ Go(t, "fail") /\ UNCHANGED <<steps, open, lost>>
    /\ UNCHANGED <<session, home, run, final, basis, approval, ask, question,
                   attempt, decision, next>>

\* An exception on its way up: every handler marks its Step FAILED.
Unwind(t) ==
    /\ at[t] = "raise"
    /\ \/ /\ open[t] # <<>>
          /\ Finish(t, Quietly(t, "raise"), "raise")
       \/ open[t] = <<>> /\ Go(t, "fail") /\ UNCHANGED <<steps, open, lost>>
    /\ UNCHANGED <<session, home, run, final, basis, approval, ask, question,
                   attempt, decision, next>>

\* The skill returns a result of the kind its name asks for.
SkillReturns(t) ==
    /\ at[t] = "skill" /\ ask[t] # "fixed"
    /\ Len(open[t]) = Base(t)
    /\ Go(t, IF decision[t] = "REVIEW" THEN "draft" ELSE "close")
    /\ UNCHANGED <<rows, ask, question, attempt, decision, next, open, lost>>

\* The fixed workflow has no dispatch Step, and publishes DIAGNOSIS_GENERATED
\* outside every try.
FixedReturns(t) ==
    /\ at[t] = "skill" /\ ask[t] = "fixed"
    /\ Len(open[t]) = Base(t)
    /\ Publish(t, "settle", "stranded")
    /\ UNCHANGED <<rows, ask, question, attempt, decision, next, open>>

\* save_waiting_approval: with the Run locked, the approval, its Step and the
\* Run's new status in one transaction; APPROVAL_REQUIRED follows.
SaveWaitingApproval(t) ==
    /\ at[t] = "draft"
    /\ IF run[t] = "RUNNING" /\ run[basis[t]] = "SUCCEEDED" /\ home[basis[t]] = home[t]
       THEN /\ approval' = [approval EXCEPT ![t] = "WAITING"]
            /\ SetStep(t, Max(DOMAIN steps[t]) + 1, "RUNNING")
            /\ Transition(t, "RUNNING", "WAITING_APPROVAL", "APPROVAL")
            /\ Publish(t, "close", "raise")
       ELSE /\ Go(t, "raise")
            /\ UNCHANGED <<approval, steps, run, final, lost>>
    /\ UNCHANGED <<session, home, basis, ask, question, attempt, decision, next, open>>

Close(t) ==
    /\ at[t] = "close"
    /\ Finish(t, Quietly(t, "settle"), "fail")
    /\ UNCHANGED <<session, home, run, final, basis, approval, ask, question,
                   attempt, decision, next>>

-----------------------------------------------------------------------------
(* The end of a turn                                                         *)

ResultKind(t) == IF ask[t] = "fixed" THEN "DIAGNOSIS" ELSE decision[t]

Reviews(t) == ask[t] # "fixed" /\ decision[t] = "REVIEW"

\* The request returns and its local variables go.
Return(t) ==
    /\ attempt' = [attempt EXCEPT ![t] = 0]
    /\ next' = [next EXCEPT ![t] = 1]
    /\ open' = [open EXCEPT ![t] = <<>>]

\* mark_succeeded, then RUN_COMPLETED.
Settle(t, onError) ==
    /\ \/ Transition(t, "RUNNING", "SUCCEEDED", ResultKind(t)) /\ Publish(t, "answered", onError)
       \/ run[t] # "RUNNING" /\ Go(t, onError) /\ UNCHANGED <<run, final, lost>>
    /\ Return(t)
    /\ UNCHANGED <<session, home, steps, basis, approval, ask, question, decision>>

Succeed(t) ==
    /\ at[t] = "settle" /\ ask[t] # "fixed" /\ decision[t] # "REVIEW"
    /\ Settle(t, "fail")

\* The fixed diagnosis does the same outside every try.
FixedSucceed(t) ==
    /\ at[t] = "settle" /\ ask[t] = "fixed"
    /\ Settle(t, "stranded")

\* _record_waiting_observability: a compare-and-set from WAITING_APPROVAL to
\* itself.
RecordWaiting(t) ==
    /\ at[t] = "settle" /\ ask[t] # "fixed" /\ decision[t] = "REVIEW"
    /\ Go(t, IF run[t] = "WAITING_APPROVAL" THEN "answered" ELSE "fail")
    /\ Return(t)
    /\ UNCHANGED <<rows, ask, question, decision, lost>>

\* A Run that is still RUNNING becomes FAILED.
MutFailOverwrites(t) ==
    \/ run[t] # "GONE" /\ Transition(t, run[t], "FAILED", "none")
    \/ run[t] = "GONE" /\ UNCHANGED <<run, final>>

FailRun(t) ==
    \/ Transition(t, "RUNNING", "FAILED", "none")
    \/ run[t] # "RUNNING" /\ UNCHANGED <<run, final>>

\* _fail_and_raise: RUN_FAILED and the error follow, published or not.
Fail(t) ==
    /\ at[t] = "fail" /\ ask[t] # "fixed"
    /\ FailRun(t)
    /\ Go(t, "failed")
    /\ Return(t)
    /\ UNCHANGED <<session, home, steps, basis, approval, ask, question, decision, lost>>

\* The fixed diagnosis: an exception, an error of a node or no result.
FixedFail(t) ==
    /\ at[t] = "fail" /\ ask[t] = "fixed"
    /\ FailRun(t)
    /\ Go(t, "failed")
    /\ Return(t)
    /\ UNCHANGED <<session, home, steps, basis, approval, ask, question, decision, lost>>

-----------------------------------------------------------------------------
(* Other requests: approvals and sessions                                    *)

\* The owner knows of the approval from APPROVAL_REQUIRED on, and a pending
\* approval can be listed from its commit on: a confirmation does not wait for
\* the turn that created it.
Confirm(t) ==
    /\ approval[t] = "WAITING"
    /\ Transition(t, "WAITING_APPROVAL", "RUNNING", "APPROVAL")
    /\ approval' = [approval EXCEPT ![t] = "EXECUTING"]
    /\ LET n == Max(DOMAIN steps[t])
       IN  steps' = [steps EXCEPT ![t] =
                       [m \in 1..n + 1 |-> IF m = n THEN "ENDED"
                                           ELSE IF m = n + 1 THEN "RUNNING" ELSE @[m]]]
    /\ UNCHANGED <<session, home, basis, locals>>

\* finish_approval_execution: WRITEBACK Step, Run and approval together.  If
\* the Run is not RUNNING the transaction fails and nothing is recorded.
FinishApproval(t) ==
    /\ approval[t] = "EXECUTING"
    /\ approval' = [approval EXCEPT ![t] = "DONE"]
    /\ \E s \in {"SUCCEEDED", "FAILED"} : Transition(t, "RUNNING", s, "APPROVAL")
    /\ SetStep(t, Max(DOMAIN steps[t]), "ENDED")
    /\ UNCHANGED <<session, home, basis, locals>>

\* finish_approval_waiting: cancelled by the owner, or found expired or stale.
CancelApproval(t) ==
    /\ approval[t] = "WAITING"
    /\ approval' = [approval EXCEPT ![t] = "DONE"]
    /\ \E s \in {"CANCELLED", "FAILED"} : Transition(t, "WAITING_APPROVAL", s, "APPROVAL")
    /\ SetStep(t, Max(DOMAIN steps[t]), "ENDED")
    /\ UNCHANGED <<session, home, basis, locals>>

\* SessionContextService.delete: Messages, Runs and Steps go with the session,
\* an approval stays and loses its run_id.
DeleteSession(s) ==
    /\ "session" \in Faults
    /\ session[s] \in {"live", "expired"}
    /\ session' = [session EXCEPT ![s] = "deleted"]
    /\ LET gone == InSession(s) IN
       /\ run' = [t \in Turns |-> IF t \in gone THEN "GONE" ELSE run[t]]
       /\ final' = [t \in Turns |-> IF t \in gone THEN "none" ELSE final[t]]
       /\ steps' = [t \in Turns |-> IF t \in gone THEN <<>> ELSE steps[t]]
    /\ UNCHANGED <<home, basis, approval, locals>>

\* expires_at passes.
ExpireSession(s) ==
    /\ "session" \in Faults
    /\ session[s] = "live"
    /\ session' = [session EXCEPT ![s] = "expired"]
    /\ UNCHANGED <<home, run, final, steps, basis, approval, locals>>

-----------------------------------------------------------------------------

\* What the request of turn t does next.
Progress(t) ==
    \/ Intake(t) \/ FixedIntake(t) \/ Refuse(t)
    \/ Context(t) \/ Loaded(t)
    \/ Route(t) \/ Routed(t) \/ Misrouted(t) \/ ModelFails(t) \/ Resume(t)
    \/ Policy(t) \/ Policed(t) \/ Save(t) \/ Remember(t)
    \/ Dispatch(t) \/ Source(t)
    \/ SkillStep(t) \/ SkillStepEnds(t) \/ SkillRaises(t) \/ Unwind(t)
    \/ SkillReturns(t) \/ FixedReturns(t) \/ SaveWaitingApproval(t) \/ Close(t)
    \/ Succeed(t) \/ FixedSucceed(t) \/ RecordWaiting(t) \/ Fail(t) \/ FixedFail(t)

Next ==
    \/ \E t \in Turns : CreateAgentMessage(t) \/ ContinueClarification(t) \/ DiagnoseOrder(t)
    \/ \E t \in Turns : Progress(t)
    \/ \E t \in Turns : Confirm(t) \/ FinishApproval(t) \/ CancelApproval(t)
    \/ \E s \in Sessions : DeleteSession(s) \/ ExpireSession(s)

Spec == Init /\ [][Next]_vars

\* A request that has arrived is carried on: every await in it has a timeout
\* of its own (database, model client, tools).
Fairness == \A t \in Turns : WF_vars(Progress(t))

FairSpec == Spec /\ Fairness

-----------------------------------------------------------------------------

Promise == INSTANCE RunLifecycle WITH Runs <- Turns, status <- run, result <- final

\* The Run table as every turn, approval request and session request leaves it
\* keeps the promise of RunLifecycle: one start, one end, no ended Run is
\* rewritten, and a Run that waits is ended or resumed by its approval only.
ImplementsRuns == Promise!RunSpec

\* What the caller is told agrees with the record.  An answered turn has its
\* Run SUCCEEDED with the result it returned or, after a review, a Run that
\* keeps its draft and an approval that decides it.  A failed one has its Run
\* FAILED and empty, unless the record was made and only the event stream
\* failed, or the approval was ended first.  No turn that was answered, failed
\* or refused leaves its Run RUNNING, except to an execution.  Nothing is said
\* of a Run whose request died before an answer ("stranded").
AnswerAgrees ==
    \A t \in Turns : run[t] # "GONE" =>
       /\ at[t] = "answered" =>
             IF Reviews(t) THEN approval[t] # "none" /\ final[t] = "APPROVAL"
             ELSE run[t] = "SUCCEEDED" /\ final[t] = ResultKind(t)
       /\ at[t] = "failed" =>
             \/ run[t] = "FAILED" /\ final[t] = "none"
             \/ final[t] # "none" /\ (lost[t] \/ approval[t] = "DONE")
       /\ at[t] \in {"answered", "failed", "refused"} /\ run[t] = "RUNNING" =>
             approval[t] = "EXECUTING"

\* Once a turn is over no Step of an ended Run is left RUNNING, except where
\* the event stream was lost between the start of a Step and its handlers, and
\* the last Step of an execution whose Run the turn has failed.
StepsClosed ==
    \A t \in Turns :
       at[t] \in Done /\ run[t] \in {"SUCCEEDED", "FAILED", "CANCELLED"} =>
          \A n \in DOMAIN steps[t] : steps[t][n] = "RUNNING" =>
             /\ run[t] = "FAILED"
             /\ lost[t] \/ (approval[t] = "EXECUTING" /\ n = Len(steps[t]))

\* The Steps of a Run are numbered 1, 2, ... without gaps by three different
\* counters (the turn's arithmetic, the skill's counter, max + 1 for approvals),
\* and the next number a turn uses is always the free one.
Pending(t) ==
    CASE at[t] = "context"  -> 1
      [] at[t] = "route"    -> 2 + attempt[t]
      [] at[t] = "policy"   -> PolicyNumber(t)
      [] at[t] = "dispatch" -> PolicyNumber(t) + 1
      [] at[t] = "skill"    -> next[t]
      [] OTHER -> Cardinality(DOMAIN steps[t]) + 1

StepsNumbered ==
    \A t \in Turns :
       run[t] # "GONE" =>
          /\ DOMAIN steps[t] = 1..Cardinality(DOMAIN steps[t])
          /\ Pending(t) = Cardinality(DOMAIN steps[t]) + 1

\* The Steps of a Run form one closed, gapless sequence.
StepsAgree == StepsClosed /\ StepsNumbered

\* A request that arrived is answered, failed or refused, or dies because its
\* event stream or its Run was taken away: no retry in it goes on for ever.
TurnEnds ==
    \A t \in Turns :
       at[t] = "intake" ~>
          \/ at[t] \in {"answered", "failed", "refused"}
          \/ at[t] = "stranded" /\ (lost[t] \/ run[t] = "GONE")
-----------------------------------------------------------------------------
(* What makes the properties above inductive                                   *)

Labels ==
    Done \cup {"idle", "intake", "context", "loading", "route", "model", "resume", "policy", "policed",
               "save", "remember", "dispatch", "source", "skill", "raise", "draft", "close", "settle", "fail"}

\* Every variable keeps its type, and the Steps of a Run are a sequence.
TurnTypeOK ==
    /\ session \in [Sessions -> {"absent", "live", "expired", "deleted"}]
    /\ home \in [Turns -> Sessions \cup {"none"}]
    /\ Promise!RunTypeOK
    /\ steps \in [Turns -> Seq({"RUNNING", "ENDED"})]
    /\ DOMAIN basis = Turns
    /\ approval \in [Turns -> {"none", "WAITING", "EXECUTING", "DONE"}]
    /\ at \in [Turns -> Labels]
    /\ ask \in [Turns -> {"message", "fixed", "choice"}]
    /\ question \in [Turns -> Turns \cup {0}]
    /\ attempt \in [Turns -> Nat]
    /\ decision \in [Turns -> Decisions \cup {"none"}]
    /\ next \in [Turns -> Nat]
    /\ open \in [Turns -> Seq(Nat)]
    /\ lost \in [Turns -> BOOLEAN]

Unstarted == {"idle", "intake", "refused"}
Decided == {"policy", "policed", "save", "remember", "dispatch", "source", "skill", "draft", "close", "settle"}

\* A request has a Run from its intake on, and a decision once routed.
Placed(t) ==
    /\ run[t] = "NONE" <=> at[t] \in Unstarted
    /\ at[t] \in Unstarted =>
          final[t] = "none" /\ approval[t] = "none" /\ steps[t] = <<>> /\ attempt[t] = 0 /\ next[t] = 1
    /\ at[t] \in Decided /\ ask[t] # "fixed" => decision[t] # "none"
    /\ at[t] = "draft" => Reviews(t)
    /\ at[t] = "settle" /\ ask[t] = "fixed" => approval[t] = "none"
    /\ run[t] = "GONE" => final[t] = "none" /\ steps[t] = <<>>

\* Without an approval the turn alone writes its Run: the result comes with
\* SUCCEEDED, and an error after that is one of the event stream.
RunOfTurn(t) ==
    approval[t] = "none" =>
       /\ run[t] \in {"NONE", "RUNNING", "SUCCEEDED", "FAILED", "GONE"}
       /\ run[t] = "SUCCEEDED" <=> final[t] # "none"
       /\ run[t] = "SUCCEEDED" =>
             /\ final[t] = ResultKind(t) /\ final[t] # "APPROVAL"
             /\ at[t] = "answered" \/ (at[t] \in {"fail", "failed", "stranded"} /\ lost[t])
       /\ run[t] = "FAILED" => at[t] = "failed"
       /\ run[t] = "RUNNING" => at[t] \notin {"answered", "failed"} /\ (at[t] = "stranded" => lost[t])

\* A confirmation took the Run on before the turn had recorded that it waits:
\* the turn fails it under the execution.
Overruled(t) ==
    approval[t] = "EXECUTING" /\ at[t] = "failed" /\ run[t] = "FAILED" /\ final[t] = "none"

\* With one, only review turns past their draft have it, and the Run follows it.
RunOfApproval(t) ==
    /\ Reviews(t) /\ at[t] \in {"close", "settle", "answered"} => approval[t] # "none"
    /\ approval[t] # "none" => Reviews(t) /\ at[t] \in {"close", "settle", "raise", "fail", "answered", "failed"}
    /\ approval[t] = "WAITING" /\ at[t] \in {"raise", "fail", "failed"} => lost[t] \/ run[t] = "GONE"
    /\ approval[t] # "none" /\ run[t] # "GONE" /\ ~Overruled(t) =>
          /\ final[t] = "APPROVAL"
          /\ run[t] \in CASE approval[t] = "WAITING" -> {"WAITING_APPROVAL"}
                          [] approval[t] = "EXECUTING" -> {"RUNNING"}
                          [] OTHER -> {"SUCCEEDED", "FAILED", "CANCELLED"}
          /\ at[t] = "failed" => lost[t] \/ approval[t] = "DONE"

\* A Step nobody will end: the stream was lost before its handlers were entered.
Orphaned(t) ==
    lost[t] /\ approval[t] = "none" /\ final[t] = "none" /\ at[t] \in {"raise", "fail", "failed"}

AwaitsApproval(t) == approval[t] \in {"WAITING", "EXECUTING"}

\* The stack o of the turn names Steps of s that are RUNNING, in their order.
Stacked(o, s) ==
    /\ \A i \in DOMAIN o : o[i] \in DOMAIN s /\ s[o[i]] = "RUNNING"
    /\ \A i, j \in DOMAIN o : i < j => o[i] < o[j]

\* The other way round: a Step that is RUNNING is on the stack, except the last
\* one while an approval waits, and orphans.
Accounted(o, s, waits, orphaned) ==
    \A n \in DOMAIN s : s[n] = "RUNNING" =>
       (\E i \in DOMAIN o : o[i] = n) \/ (waits /\ n = Len(s)) \/ orphaned

StepsOpen(t) ==
    run[t] # "GONE" =>
       /\ Stacked(open[t], steps[t])
       /\ Accounted(open[t], steps[t], AwaitsApproval(t), Orphaned(t))
       /\ AwaitsApproval(t) =>
             steps[t] # <<>> /\ \A i \in DOMAIN open[t] : open[t][i] < Len(steps[t])

\* How deep the stack is at each place of the code.
Depth(t) ==
    /\ at[t] \in {"loading", "model", "policed", "source", "draft", "close"} => Len(open[t]) = 1
    /\ at[t] = "skill" => Len(open[t]) >= Base(t)
    /\ at[t] \notin {"loading", "model", "policed", "source", "draft", "close", "skill", "raise", "fail"}
          => open[t] = <<>>
    /\ at[t] = "fail" /\ open[t] # <<>> /\ run[t] # "GONE" => Orphaned(t)
    /\ at[t] \in {"context", "loading", "route", "model", "resume", "policy", "policed", "save", "remember",
                  "dispatch", "source", "draft"} => ask[t] # "fixed"

\* The number of Steps at each place, which the turn's arithmetic relies on.
Numbered(t) ==
    /\ at[t] \in {"context", "loading", "resume"} => attempt[t] = 0
    /\ run[t] # "GONE" =>
          /\ at[t] = "context" => Len(steps[t]) = 0
          /\ at[t] \in {"loading", "resume", "route", "model", "policy"} => Len(steps[t]) = attempt[t] + 1
          /\ at[t] \in {"policed", "save", "remember", "dispatch"} => Len(steps[t]) = PolicyNumber(t)
          /\ at[t] \in {"source", "skill"} => Len(steps[t]) + 1 = next[t]

TurnInv(t) ==
    Placed(t) /\ RunOfTurn(t) /\ RunOfApproval(t) /\ StepsOpen(t) /\ Depth(t) /\ Numbered(t)

TurnIInv == TurnTypeOK /\ \A t \in Turns : TurnInv(t)
=============================================================================
