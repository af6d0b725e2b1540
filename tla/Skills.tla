------------------------------- MODULE Skills -------------------------------
(***************************************************************************)
(* The business skills a Run dispatches to: the order status query, the    *)
(* dynamic diagnosis (a model chooses the next read, deterministic nodes   *)
(* validate, execute and decide), the specification answer, the review     *)
(* draft, and the fixed diagnosis workflow of the older entry point.  They *)
(* share the read tools over the Java query API and the specification      *)
(* workflow of module Specification.                                       *)
(*                                                                         *)
(* One behaviour is one execution of one skill.  The Java facts stay as    *)
(* they are while a skill runs, except for the version of the task under   *)
(* review and the knowledge base.  Runs and Steps of the surrounding turn  *)
(* are in module AgentTurn.                                                *)
(***************************************************************************)
EXTENDS Specification

CONSTANTS
    Requests,           \* [flow, store, page, kb]: a skill, the Java facts [order, tasks,
                        \* delivery], the page context [order, task, issue], the catalog
    Questions,          \* questions the action model may retrieve specifications for
    Hits,               \* flow -> hit lists a search may return
    MaxDecisionRounds, MaxToolCalls, MaxNoNews, MaxRetries,
    MaxVersion          \* bound on the writes to the reviewed task

INSTANCE DiagnosisRules

VARIABLES
    store,      \* the Java facts
    flow,       \* the skill
    page,       \* the page context of the request
    at,         \* where the skill is
    s,          \* the loaded facts
    rounds,     \* iteration_count
    called,     \* the calls of tool_history
    stale,      \* its last observations in a row without new information
    decision,   \* current_decision
    tries,      \* retries of the tool call under way
    modelError, \* last_model_error is set
    version,    \* Java's version of the task under review
    draft,      \* the review under way: see NoDraft
    outcome     \* [status, stage, answer]

skillVars == <<store, flow, page, at, s, rounds, called, stale, decision, tries, modelError,
               version, draft, outcome>>
vars == <<skillVars, ragVars>>

\* readAt, issuesAt: the task version when the task and its issues were read;
\* issues, citations: what the draft may name; then what it names.
NoDraft == [readAt |-> 0, issuesAt |-> 0, issues |-> {}, citations |-> {}, issue |-> None,
            references |-> {}, target_version |-> 0]
Running == [status |-> "RUNNING", stage |-> None, answer |-> None]
Finish == [action |-> "FINISH", arg |-> None]

\* BusinessStateConsistencyValidator: the business baseline.
Consistent(st) ==
    LET issues == UNION {ToSet(t.issues) : t \in ToSet(st.tasks)}
        reviews == UNION {ToSet(t.reviews) : t \in ToSet(st.tasks)}
    IN  /\ st.order = "DELIVERED" => \A t \in ToSet(st.tasks) : t.status = "COMPLETED"
        /\ "READY" \in ToSet(st.delivery) => \A i \in issues : i.status # "OPEN"
        /\ st.order = "DELIVERED" => \A r \in reviews : r.status # "PENDING"

Sequence(x) == x = [n \in 1..Len(x) |-> x[n]]

ASSUME SkillsAssumption ==
    /\ \A r \in Requests :
         /\ Sequence(r.store.tasks) /\ Sequence(r.store.delivery)
         /\ \A t \in ToSet(r.store.tasks) : Sequence(t.steps) /\ Sequence(t.issues) /\ Sequence(t.reviews)
         /\ Consistent(r.store) /\ None \notin DOMAIN r.store.tasks
         /\ \A t, u \in DOMAIN r.store.tasks : \A i \in ToSet(r.store.tasks[t].issues) :
               \A j \in ToSet(r.store.tasks[u].issues) : i.id = j.id => t = u
         /\ r.kb \in 0..Len(Catalogs)
         /\ r.flow \in {"status", "dynamic", "specification", "review", "fixed"}
         /\ Hits[r.flow] \subseteq Seq(Chunks)
    /\ {MaxDecisionRounds, MaxToolCalls, MaxNoNews} \subseteq Nat \ {0}
    /\ {MaxRetries, MaxVersion} \subseteq Nat

----------------------------------------------------------------------------
\* The Java queries a read tool asks.

GetOrder == store.order
GetOrderTasks == [t \in DOMAIN store.tasks |-> store.tasks[t].status]
GetProductionProgress(t) == store.tasks[t].steps
GetQualityIssues(t) == store.tasks[t].issues
GetReviewResult(t) == store.tasks[t].reviews
GetDeliveryStatus == store.delivery

\* What the read tool of an action returns; it rejects an answer about another
\* order or task than the one asked for.
ToolAnswer(c) ==
    CASE c.action = "QUERY_ORDER"    -> GetOrder
      [] c.action = "QUERY_TASKS"    -> GetOrderTasks
      [] c.action = "QUERY_DELIVERY" -> GetDeliveryStatus
      [] c.action = "QUERY_PROGRESS" -> GetProductionProgress(c.arg)
      [] c.action = "QUERY_QUALITY"  -> GetQualityIssues(c.arg)
      [] c.action = "QUERY_REVIEW"   -> GetReviewResult(c.arg)

FieldOf == [QUERY_ORDER |-> "order", QUERY_TASKS |-> "tasks", QUERY_DELIVERY |-> "delivery",
            QUERY_PROGRESS |-> "progress", QUERY_QUALITY |-> "quality_issues", QUERY_REVIEW |-> "reviews"]

\* _merge_business_fact: the answer goes to the one field of its action, for a
\* task into the dictionary of that field.
MergeBusinessFact(c) ==
    [s EXCEPT ![FieldOf[c.action]] =
        IF c.arg = None THEN ToolAnswer(c)
        ELSE [t \in DOMAIN @ \cup {c.arg} |-> IF t = c.arg THEN ToolAnswer(c) ELSE @[t]]]

\* Everything Java knows, as a loaded state.
Everything ==
    LET all(get(_)) == [t \in DOMAIN store.tasks |-> get(t)]
    IN  [NothingLoaded EXCEPT !.order = GetOrder, !.tasks = GetOrderTasks,
            !.delivery = GetDeliveryStatus, !.progress = all(GetProductionProgress),
            !.quality_issues = all(GetQualityIssues), !.reviews = all(GetReviewResult)]

----------------------------------------------------------------------------
\* Dispatch and the ends of a skill.

Init ==
    /\ \E r \in Requests : store = r.store /\ flow = r.flow /\ page = r.page /\ kb = r.kb
    /\ at = "dispatch" /\ s = NothingLoaded
    /\ rounds = 0 /\ called = {} /\ stale = 0 /\ decision = None /\ tries = 0 /\ modelError = FALSE
    /\ version = 1 /\ draft = NoDraft /\ outcome = Running
    /\ rag = NoCall

\* The skill returns (SUCCEEDED) or raises (FAILED).
End(status, stage, answer) ==
    /\ at' = "end"
    /\ outcome' = [status |-> status, stage |-> stage, answer |-> answer]

FailSkill == End("FAILED", None, None)

facts == <<store, flow, page>>
loop == <<rounds, called, stale, decision>>

\* Where the skill of a Run begins.  A role without a knowledge permission
\* scope is refused before a workflow that needs one is built.
Dispatch ==
    /\ at = "dispatch"
    /\ \/ at' = [status |-> "status", dynamic |-> "initialize", specification |-> "specification",
                 review |-> "source", fixed |-> "load_context"][flow] /\ UNCHANGED outcome
       \/ flow \in {"dynamic", "specification", "review"} /\ FailSkill
    /\ UNCHANGED <<facts, loop, s, tries, modelError, version, draft, ragVars>>

\* Mutant: the count starts over when it reaches the limit.
MutRetryReadRestartsCount ==
    /\ at \in {"status", "execute", "read_task", "read_issues"}
    /\ at = "execute" => decision.action \notin {"FINISH", "RETRIEVE_SPEC"}
    /\ tries' = IF tries < MaxRetries THEN tries + 1 ELSE 0
    /\ UNCHANGED <<facts, loop, at, s, modelError, version, draft, outcome, ragVars>>

\* A tool attempt fails with a retryable error and the policy allows another.
RetryRead ==
    /\ at \in {"status", "execute", "read_task", "read_issues"}
    /\ at = "execute" => decision.action \notin {"FINISH", "RETRIEVE_SPEC"}
    /\ tries < MaxRetries
    /\ tries' = tries + 1
    /\ UNCHANGED <<facts, loop, at, s, modelError, version, draft, outcome, ragVars>>

\* OrderStatusWorkflow: one read, whose answer is the result.
OrderStatus ==
    /\ at = "status"
    /\ End("SUCCEEDED", None, GetOrder) \/ FailSkill
    /\ tries' = 0
    /\ UNCHANGED <<facts, loop, s, modelError, version, draft, ragVars>>

----------------------------------------------------------------------------
\* The dynamic diagnosis.

\* The page must name the order and the role of the request.
Initialize ==
    /\ at = "initialize"
    /\ IF page.order THEN at' = "plan" /\ UNCHANGED s
       ELSE at' = "exceptional" /\ s' = [s EXCEPT !.errors = <<"PARAM_VALIDATION_ERROR">>]
    /\ UNCHANGED <<facts, loop, tries, modelError, version, draft, outcome, ragVars>>

OrderActions == {"QUERY_ORDER", "QUERY_TASKS", "QUERY_DELIVERY"}
TaskActions == {"QUERY_PROGRESS", "QUERY_QUALITY", "QUERY_REVIEW"}

\* What passes ActionDecision and _validate_registered_tool: a task must have
\* been loaded before it can be asked about.
Decisions ==
    {Finish}
    \cup {[action |-> a, arg |-> None] : a \in OrderActions}
    \cup {[action |-> a, arg |-> t] : a \in TaskActions, t \in DOMAIN s.tasks}
    \cup {[action |-> "RETRIEVE_SPEC", arg |-> q] : q \in Questions}

\* decide: a valid choice, at the first or the second attempt; two invalid
\* ones are the safe FINISH, which is among them.
PlanNextAction ==
    /\ at = "plan" /\ rounds < MaxDecisionRounds
    /\ \E d \in Decisions : decision' = d
    /\ rounds' = rounds + 1 /\ at' = "validate"
    /\ UNCHANGED <<facts, s, called, stale, tries, modelError, version, draft, outcome, ragVars>>

\* The model call fails: also a FINISH, and the failure is remembered.
ModelFails ==
    /\ at = "plan" /\ rounds < MaxDecisionRounds
    /\ decision' = Finish /\ modelError' = TRUE
    /\ rounds' = rounds + 1 /\ at' = "validate"
    /\ UNCHANGED <<facts, s, called, stale, tries, version, draft, outcome, ragVars>>

\* The decision's Step cannot be recorded, the decision cannot be published
\* (which the workflow does not catch), or the budget of rounds is spent.
PlanStops ==
    /\ at = "plan"
    /\ \/ /\ rounds < MaxDecisionRounds
          /\ at' = "exceptional" /\ rounds' = rounds + 1
          /\ s' = [s EXCEPT !.errors = Append(@, "UNKNOWN_TOOL_ERROR")] /\ UNCHANGED outcome
       \/ /\ rounds < MaxDecisionRounds
          /\ FailSkill /\ UNCHANGED <<rounds, s>>
       \/ /\ rounds >= MaxDecisionRounds
          /\ at' = "generate" /\ UNCHANGED <<rounds, s, outcome>>
    /\ UNCHANGED <<facts, called, stale, decision, tries, modelError, version, draft, ragVars>>

\* A read the registry or the role does not allow is an error; a spent tool
\* budget or a call already made ends the loop.
ValidateAction ==
    /\ at = "validate"
    /\ \/ /\ decision.action \in OrderActions \cup TaskActions
          /\ at' = "exceptional" /\ s' = [s EXCEPT !.errors = Append(@, "PERMISSION_DENIED")]
       \/ /\ at' = IF decision # Finish /\ (Cardinality(called) >= MaxToolCalls \/ decision \in called)
                   THEN "generate" ELSE "execute"
          /\ UNCHANGED s
    /\ UNCHANGED <<facts, loop, tries, modelError, version, draft, outcome, ragVars>>

\* save_observation and check_completion after an executed call.
Observe(now, news) ==
    /\ s' = now /\ called' = called \cup {decision}
    /\ stale' = IF news THEN 0 ELSE stale + 1
    /\ at' = IF now.errors # <<>> THEN "exceptional"
             ELSE IF ~ news /\ stale + 1 >= MaxNoNews THEN "generate" ELSE "plan"

ExecuteRead ==
    /\ at = "execute" /\ decision.action \in OrderActions \cup TaskActions
    /\ LET now == MergeBusinessFact(decision) IN Observe(now, now # s)
    /\ tries' = 0
    /\ UNCHANGED <<facts, rounds, decision, modelError, version, draft, outcome, ragVars>>

\* A failed observation ends the row of observations without news.
ReadFails ==
    /\ at = "execute" /\ decision.action \in OrderActions \cup TaskActions
    /\ Observe([s EXCEPT !.errors = Append(@, "TOOL_ERROR")], TRUE)
    /\ tries' = 0
    /\ UNCHANGED <<facts, rounds, decision, modelError, version, draft, outcome, ragVars>>

\* FINISH executes nothing; check_completion ends the loop either way.
ExecuteFinish ==
    /\ at = "execute" /\ decision = Finish
    /\ at' = "generate"
    /\ UNCHANGED <<facts, loop, s, tries, modelError, version, draft, outcome, ragVars>>

RetrieveSpec ==
    /\ at = "execute" /\ decision.action = "RETRIEVE_SPEC"
    /\ Ask(decision.arg)
    /\ at' = "retrieving"
    /\ UNCHANGED <<facts, loop, s, tries, modelError, version, draft, outcome>>

SpecificationObserved ==
    /\ at = "retrieving" /\ rag.at \in {"done", "failed"}
    /\ IF rag.at = "done"
       THEN Observe([s EXCEPT !.specification = rag.result], rag.result # s.specification)
       ELSE Observe([s EXCEPT !.errors = Append(@, "RESPONSE_VALIDATION_ERROR")], TRUE)
    /\ Return
    /\ UNCHANGED <<facts, rounds, decision, tries, modelError, version, draft, outcome>>

\* What _dispatch_diagnosis makes of the final state: a failed model call or
\* an error of the loop is never an answer.
Answered(stage, answer) ==
    IF answer = Raised \/ modelError \/ s.errors # <<>> THEN FailSkill
    ELSE End("SUCCEEDED", stage, answer)

GenerateResult ==
    /\ at = "generate"
    /\ LET stage == EvaluateDynamicDiagnosisRules(s, Detect(s))
       IN  Answered(stage, GenerateRuleDiagnosis(stage, s))
    /\ UNCHANGED <<facts, loop, s, tries, modelError, version, draft, ragVars>>

ExceptionalFinish ==
    /\ at = "exceptional"
    /\ LET stage == EvaluateDiagnosisRules(s) IN Answered(stage, GenerateRuleDiagnosis(stage, s))
    /\ UNCHANGED <<facts, loop, s, tries, modelError, version, draft, ragVars>>

----------------------------------------------------------------------------
\* The fixed diagnosis: every fact, in a fixed order; the first failure ends it.

LoaderNodes == <<"load_context", "load_order", "load_tasks", "load_progress", "load_quality",
                 "load_review", "load_delivery", "validate_page_context">>

After(node) == LoaderNodes[SelectInSeq(LoaderNodes, LAMBDA n : n = node) + 1]

\* What a loader adds to the state, after all its calls succeeded.
Loaded(node) ==
    CASE node = "load_order"    -> [s EXCEPT !.order = Everything.order]
      [] node = "load_tasks"    -> [s EXCEPT !.tasks = Everything.tasks]
      [] node = "load_progress" -> [s EXCEPT !.progress = Everything.progress]
      [] node = "load_quality"  -> [s EXCEPT !.quality_issues = Everything.quality_issues]
      [] node = "load_review"   -> [s EXCEPT !.reviews = Everything.reviews]
      [] node = "load_delivery" -> [s EXCEPT !.delivery = Everything.delivery]
      [] OTHER -> s

PageContextMatchesFacts ==
    /\ page.order
    /\ page.task # None => page.task \in DOMAIN s.tasks
    /\ page.issue # None => \E i \in ToSet(s.quality_issues[page.task]) : i.id = page.issue

Load ==
    /\ at \in ToSet(Front(LoaderNodes))
    /\ \/ /\ at # "load_context" \/ page.order
          /\ s' = Loaded(at) /\ at' = After(at) /\ UNCHANGED outcome
       \/ FailSkill /\ s' = [s EXCEPT !.errors = Append(@, "TOOL_ERROR")]
    /\ UNCHANGED <<facts, loop, tries, modelError, version, draft, ragVars>>

ValidatePageContext ==
    /\ at = "validate_page_context"
    /\ IF PageContextMatchesFacts THEN at' = "diagnose_by_rules" /\ UNCHANGED <<s, outcome>>
       ELSE FailSkill /\ s' = [s EXCEPT !.errors = Append(@, "PARAM_VALIDATION_ERROR")]
    /\ UNCHANGED <<facts, loop, tries, modelError, version, draft, ragVars>>

\* Rules, rule answer and the optional narrative, which keeps stage, causes
\* and evidence whether or not its model answers.
DiagnoseByRules ==
    /\ at = "diagnose_by_rules"
    /\ LET stage == EvaluateDiagnosisRules(s)
           answer == GenerateRuleDiagnosis(stage, s)
       IN  IF answer = Raised THEN FailSkill ELSE End("SUCCEEDED", stage, answer)
    /\ UNCHANGED <<facts, loop, s, tries, modelError, version, draft, ragVars>>

----------------------------------------------------------------------------
\* The review draft, about the first task of the order.

\* The latest result of the session must be a succeeded diagnosis, of another Run.
SourceDiagnosis ==
    /\ at = "source"
    /\ \/ at' = "read_task" /\ UNCHANGED outcome
       \/ FailSkill
    /\ UNCHANGED <<facts, loop, s, tries, modelError, version, draft, ragVars>>

\* Both reads are forced past the ledger: the task first, then its issues.
ReadTask ==
    /\ at = "read_task" /\ store.tasks # <<>>
    /\ draft' = [draft EXCEPT !.readAt = version]
    /\ at' = "read_issues" /\ tries' = 0
    /\ UNCHANGED <<facts, loop, s, modelError, version, outcome, ragVars>>

ReadQualityIssues ==
    /\ at = "read_issues"
    /\ draft' = [draft EXCEPT !.issuesAt = version, !.issues = {i.id : i \in ToSet(GetQualityIssues(1))}]
    /\ at' = "ask_specification" /\ tries' = 0
    /\ UNCHANGED <<facts, loop, s, modelError, version, outcome, ragVars>>

\* A read fails, or the task belongs to another order than the diagnosis.
ReviewReadFails ==
    /\ at \in {"read_task", "read_issues"}
    /\ FailSkill /\ tries' = 0
    /\ UNCHANGED <<facts, loop, s, modelError, version, draft, ragVars>>

AskForReview ==
    /\ at = "ask_specification"
    /\ Ask("review")
    /\ at' = "reviewing"
    /\ UNCHANGED <<facts, loop, s, tries, modelError, version, draft, outcome>>

\* Without a cited answer there is no draft.
SpecificationForReview ==
    /\ at = "reviewing" /\ rag.at \in {"done", "failed"}
    /\ IF rag.at = "done" /\ rag.result.status = "ANSWERED"
       THEN /\ at' = "draft" /\ draft' = [draft EXCEPT !.citations = ToSet(rag.result.citations)]
            /\ UNCHANGED outcome
       ELSE FailSkill /\ UNCHANGED draft
    /\ Return
    /\ UNCHANGED <<facts, loop, s, tries, modelError, version>>

MutValidateDraftOnTrust(issue, references) == issue \in draft.issues /\ references # {}

\* _validate_draft: an issue of the task, and only citations of the answer.
ValidateDraft(issue, references) ==
    /\ issue \in draft.issues
    /\ references # {} /\ references \subseteq draft.citations

\* A citation the answer does not have.
Foreign == [chunk_id |-> 0, version |-> 0, chunks |-> <<>>]

\* The draft of the model is validated and saved with the version read first.
GenerateDraft ==
    /\ at = "draft"
    /\ \/ \E issue \in draft.issues \cup {None}, references \in SUBSET (draft.citations \cup {Foreign}) :
            IF ValidateDraft(issue, references)
            THEN /\ draft' = [draft EXCEPT !.issue = issue, !.references = references,
                                           !.target_version = draft.readAt]
                 /\ End("SUCCEEDED", None, "WAITING_CONFIRMATION")
            ELSE FailSkill /\ UNCHANGED draft
       \/ FailSkill /\ UNCHANGED draft
    /\ UNCHANGED <<facts, loop, s, tries, modelError, version, ragVars>>

\* Another user writes to the task.
TaskChanges ==
    /\ flow = "review" /\ at # "end" /\ version < MaxVersion
    /\ version' = version + 1
    /\ UNCHANGED <<facts, loop, at, s, tries, modelError, draft, outcome, ragVars>>

----------------------------------------------------------------------------
\* The specification skill and the steps of its call.

AskSpecification ==
    /\ at = "specification"
    /\ Ask("message")
    /\ at' = "answering"
    /\ UNCHANGED <<facts, loop, s, tries, modelError, version, draft, outcome>>

SpecificationAnswered ==
    /\ at = "answering" /\ rag.at \in {"done", "failed"}
    /\ IF rag.at = "done" THEN End("SUCCEEDED", None, rag.result) ELSE FailSkill
    /\ Return
    /\ UNCHANGED <<facts, loop, s, tries, modelError, version, draft>>

AnswerIds ==
    LET ids == {r.chunks[1].id : r \in ToSet(rag.kept)} \cup {0}
    IN  {<<>>} \cup {<<i>> : i \in ids} \cup {<<i, j>> : i, j \in ids}

SpecificationStep ==
    /\ \/ EnsureReady
       \/ \E h \in Hits[flow] : SearchKeywords(h)
       \/ \E h \in Hits[flow] : SearchVectors(h)
       \/ SearchFails
       \/ StartModel
       \/ RerankSaved
       \/ rag.at = "rerank" /\ \E scores \in [DOMAIN rag.candidates -> Scores] : Rerank(scores)
       \/ RerankFails
       \/ RerankTimeout
       \/ CheckRelevance
       \/ rag.at = "answer" /\ \E ids \in AnswerIds : GenerateAnswer(ids)
       \/ GenerateFails
    /\ UNCHANGED skillVars

\* The knowledge base is only rebuilt while a call could notice.
Ingest ==
    /\ rag.at # "idle"
    /\ IngestCatalog /\ UNCHANGED skillVars

----------------------------------------------------------------------------
DiagnosisStep ==
    \/ Initialize \/ PlanNextAction \/ ModelFails \/ PlanStops \/ ValidateAction
    \/ ExecuteRead \/ ReadFails \/ ExecuteFinish \/ RetrieveSpec \/ SpecificationObserved
    \/ GenerateResult \/ ExceptionalFinish
    \/ Load \/ ValidatePageContext \/ DiagnoseByRules

ReviewStep ==
    \/ SourceDiagnosis \/ ReadTask \/ ReadQualityIssues \/ ReviewReadFails \/ AskForReview
    \/ SpecificationForReview \/ GenerateDraft

\* The coroutine of the skill.
SkillStep ==
    \/ Dispatch \/ RetryRead \/ OrderStatus \/ AskSpecification \/ SpecificationAnswered
    \/ DiagnosisStep \/ ReviewStep \/ SpecificationStep

Next == SkillStep \/ TaskChanges \/ Ingest

\* The coroutine goes on: every await of it ends, by an answer, an error or a
\* timeout of the model client, the tools and the database.
Spec == Init /\ [][Next]_vars /\ WF_vars(SkillStep)

----------------------------------------------------------------------------
\* What blocks the order in Java, stage by stage in business order.
Stages == <<"PRODUCTION_BLOCKED", "PRODUCTION", "QUALITY_REVIEW", "REVIEW", "DELIVERY">>
StageOf(stage) == SelectInSeq(Stages, LAMBDA st : st = stage)

\* A resolved issue that no review is about.
MissingReview(java) ==
    \E t \in ToSet(java.tasks) : \E i \in ToSet(t.issues) :
        i.status = "RESOLVED" /\ \A r \in ToSet(t.reviews) : r.issue # i.id

Blocks(java, stage) ==
    LET tasks == ToSet(java.tasks)
        work == {t.status : t \in tasks} \cup UNION {ToSet(t.steps) : t \in tasks}
    IN  CASE stage = "PRODUCTION_BLOCKED" -> work \cap {"FAILED", "BLOCKED"} # {}
          [] stage = "PRODUCTION" -> work \cap {"PENDING", "RUNNING"} # {}
          [] stage = "QUALITY_REVIEW" ->
                \E t \in tasks : \E i \in ToSet(t.issues) : i.status \in {"OPEN", "PROCESSING"}
          [] stage = "REVIEW" ->
                MissingReview(java) \/ \E t \in tasks : \E r \in ToSet(t.reviews) : r.status # "APPROVED"
          [] stage = "DELIVERY" -> ToSet(java.delivery) \cap {"NOT_READY", "FAILED", "BLOCKED"} # {}

Conclusive == outcome.status = "SUCCEEDED" /\ outcome.stage \notin {None, "INSUFFICIENT_INFORMATION"}

\* A conclusive diagnosis accuses only a stage that the Java facts really
\* block, also when it was made from the few facts the model chose to read.
\* One made from all facts, by the fixed workflow or by the dynamic one, names
\* the first such stage; from fewer facts the dynamic one may name a later
\* stage than the fixed workflow would (detailed-plan.md:2061 has them agree).
StageHolds ==
    Conclusive =>
        LET n == StageOf(outcome.stage)
        IN  /\ outcome.stage # "NONE" => Blocks(store, outcome.stage)
            /\ outcome.stage = "NONE" => ~ Blocks(store, "DELIVERY")
            /\ flow = "fixed" \/ HasCompleteFacts(s) =>
                  \A m \in DOMAIN Stages : m < n \/ n = 0 => ~ Blocks(store, Stages[m])

\* What an evidence item cites is what Java says.
Reported(java, e) ==
    IF e.tool = "get_delivery_status"
    THEN e.item \in DOMAIN java.delivery /\ e.value = java.delivery[e.item]
    ELSE /\ e.task \in DOMAIN java.tasks
         /\ LET task == java.tasks[e.task]
            IN  CASE e.tool = "get_related_tasks" -> e.value = task.status
                  [] e.tool = "get_production_progress" ->
                        e.item \in DOMAIN task.steps /\ e.value = task.steps[e.item]
                  [] e.tool = "get_quality_issues" ->
                        e.item \in DOMAIN task.issues /\ e.value = task.issues[e.item].status
                  [] e.tool = "get_review_result" ->
                        e.item \in DOMAIN task.reviews /\ e.value = task.reviews[e.item].status

\* The cited value is one for which the stage is the blocking one.  The review
\* stage is shown by a review that is not approved or, where one is missing, by
\* a RESOLVED issue: it need not be the one without a review, because the code
\* cites the first RESOLVED issue, one with its approval included.
Shows(stage, e) ==
    \/ stage = "PRODUCTION_BLOCKED" /\ e.value \in {"FAILED", "BLOCKED"}
       /\ e.tool \in {"get_related_tasks", "get_production_progress"}
    \/ stage = "PRODUCTION" /\ e.value \in {"PENDING", "RUNNING"}
       /\ e.tool \in {"get_related_tasks", "get_production_progress"}
    \/ stage = "QUALITY_REVIEW" /\ e.tool = "get_quality_issues" /\ e.value \in {"OPEN", "PROCESSING"}
    \/ stage = "REVIEW" /\ e.tool = "get_review_result" /\ e.value # "APPROVED"
    \/ stage = "REVIEW" /\ e.tool = "get_quality_issues" /\ e.value = "RESOLVED" /\ MissingReview(store)
    \/ stage = "DELIVERY" /\ e.tool = "get_delivery_status" /\ e.value \in {"NOT_READY", "FAILED", "BLOCKED"}
    \/ stage = "NONE" /\ e.tool = "get_delivery_status" /\ e.value \notin {"NOT_READY", "FAILED", "BLOCKED"}

\* A conclusive answer cites values that Java reports, one of them of the kind
\* that blocks its stage; it claims a missing review only where one is missing.
EvidenceHolds ==
    Conclusive => /\ \A e \in outcome.answer.evidence : Reported(store, e)
                  /\ \E e \in outcome.answer.evidence : Shows(outcome.stage, e)

\* The rules and the answer search the same facts twice, in different ways.
\* Once all facts are loaded the second search finds what the first one found,
\* so the fixed diagnosis does not fail for want of a fact.
DiagnosisIsEvidenced ==
    /\ at = "diagnose_by_rules" => GenerateRuleDiagnosis(EvaluateDiagnosisRules(s), s) # Raised
    /\ EvidenceHolds

\* What a diagnosis concludes is so, and the values it cites are Java's.
ConclusionHolds == StageHolds /\ DiagnosisIsEvidenced

\* An answer cites only chunks of documents that were current in the store at
\* some moment of the call, and only what the reranking kept.
CitedWasCurrent ==
    rag.at = "done" /\ rag.result.status = "ANSWERED" =>
        /\ ~ rag.degraded
        /\ \A c \in ToSet(rag.result.citations) : \A n \in DOMAIN c.chunks : Current(c.chunks[n])

\* Fusion loses no hit and doubles none: unless the cut at TopK dropped some,
\* every hit of both channels is in exactly one candidate, and a candidate is
\* an unbroken run of one section.
EachHitOnce ==
    rag.at = "rerank" =>
        /\ \A m, n \in DOMAIN rag.candidates :
              m # n => ToSet(rag.candidates[m].chunks) \cap ToSet(rag.candidates[n].chunks) = {}
        /\ \A r \in ToSet(rag.candidates) : \A n \in 1..(Len(r.chunks) - 1) :
              /\ r.chunks[n + 1].index = r.chunks[n].index + 1
              /\ r.chunks[n + 1].section = r.chunks[n].section
        /\ Len(rag.candidates) < TopK =>
              \A c \in ToSet(rag.keyword) : \E r \in ToSet(rag.candidates) : c \in ToSet(r.chunks)

\* What the store found reaches the answer once, unmixed and not outdated, also
\* when it is ingested anew between the two searches.
CitationsWereCurrent == CitedWasCurrent /\ EachHitOnce

\* Whatever way a call ends, and wherever the reranking timeout cancels it, it
\* tries to end its RAG Step and its LLM Step: only one whose end could not be
\* saved stays RUNNING in the table.  The call then raises, with one exception:
\* an LLM Step of the answering model may stay RUNNING under an answer, which
\* is GENERATION_FAILED and cites nothing.  So an ANSWERED, a degraded and an
\* insufficient answer leave no Step open.
NestedStepsClosed ==
    rag.at \in {"done", "failed"} =>
        /\ "RUNNING" \notin {rag.step, rag.llm}
        /\ rag.at = "done" =>
              /\ rag.step = "SUCCEEDED"
              /\ rag.llm = "LEFT" => rag.result = SafeResult("GENERATION_FAILED")

\* A saved draft names an issue that was read and citations of the answer, and
\* the version Java will check is not newer than the issues it rests on.
DraftIsGrounded ==
    flow = "review" /\ outcome.status = "SUCCEEDED" =>
        /\ draft.issue \in draft.issues
        /\ draft.references # {} /\ draft.references \subseteq draft.citations
        /\ draft.target_version <= draft.issuesAt

\* Every skill returns or raises, and ends the nested Steps it can end: whatever
\* the model chooses and however often reads, searches and model calls fail, the
\* limits on rounds, calls, attempts and observations without news end it.
SkillEnds ==
    /\ []NestedStepsClosed
    /\ <>(outcome.status # "RUNNING")

----------------------------------------------------------------------------
\* What makes the properties above inductive.

\* Where a skill can be.
Places == [status |-> {"dispatch", "status", "end"},
           dynamic |-> {"dispatch", "initialize", "plan", "validate", "execute", "retrieving",
                        "generate", "exceptional", "end"},
           specification |-> {"dispatch", "specification", "answering", "end"},
           review |-> {"dispatch", "source", "read_task", "read_issues", "ask_specification",
                       "reviewing", "draft", "end"},
           fixed |-> {"dispatch", "diagnose_by_rules", "end"} \cup ToSet(LoaderNodes)]

Requested == \E r \in Requests : store = r.store /\ flow = r.flow /\ page = r.page

Placed ==
    /\ at \in Places[flow]
    /\ outcome.status # "RUNNING" => at = "end"
    /\ at \in {"validate", "execute", "retrieving"} => decision \in Decisions

\* What was loaded is what Java says.
TaskFactsAgree(known, get(_)) ==
    /\ DOMAIN known \subseteq DOMAIN store.tasks
    /\ \A t \in DOMAIN known : known[t] = get(t)

FactsAgree ==
    /\ s = [order |-> s.order, tasks |-> s.tasks, progress |-> s.progress,
            quality_issues |-> s.quality_issues, reviews |-> s.reviews, delivery |-> s.delivery,
            specification |-> s.specification, errors |-> s.errors]
    /\ s.order \in {None, GetOrder} /\ s.tasks \in {<<>>, GetOrderTasks}
    /\ s.delivery \in {None, GetDeliveryStatus}
    /\ TaskFactsAgree(s.progress, GetProductionProgress)
    /\ TaskFactsAgree(s.quality_issues, GetQualityIssues)
    /\ TaskFactsAgree(s.reviews, GetReviewResult)

\* The version read first is never newer than the issues.
DraftKnows ==
    /\ draft = [readAt |-> draft.readAt, issuesAt |-> draft.issuesAt, issues |-> draft.issues,
                citations |-> draft.citations, issue |-> draft.issue,
                references |-> draft.references, target_version |-> draft.target_version]
    /\ version \in Nat /\ draft.readAt \in 0..version /\ draft.issuesAt \in 0..version
    /\ at \in {"ask_specification", "reviewing", "draft"} => draft.readAt <= draft.issuesAt

SkillsIInv ==
    /\ Requested /\ Placed /\ FactsAgree /\ DraftKnows
    /\ CallIInv /\ CitedWasCurrent /\ EachHitOnce
    /\ StageHolds /\ EvidenceHolds /\ DraftIsGrounded
=============================================================================
