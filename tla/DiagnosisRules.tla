--------------------------- MODULE DiagnosisRules ---------------------------
(***************************************************************************)
(* The deterministic half of an order diagnosis: which information is      *)
(* still missing (information_gaps.py), which stage the loaded facts block *)
(* (diagnosis_rules.py), and which root causes, evidence and suggestions   *)
(* the answer then names (diagnosis_generation.py).                        *)
(*                                                                         *)
(* A loaded state s holds what the read tools returned so far:             *)
(*   s.order           the order's status, None before get_order_detail;   *)
(*   s.tasks           the tasks' statuses; a task is its place in the     *)
(*                     sequence, which the code keeps sorted by task_id;   *)
(*   s.progress        task -> sequence of step statuses;                  *)
(*   s.quality_issues  task -> sequence of [id, type, status];             *)
(*   s.reviews         task -> sequence of [issue, status];                *)
(*   s.delivery        the delivery records' statuses, None before;        *)
(*   s.specification   the last specification answer, None before;         *)
(*   s.errors          the structured errors, in order.                    *)
(* progress, quality_issues and reviews are defined only for the tasks     *)
(* that were asked about.  The tools reject an answer whose identifiers    *)
(* are not the requested ones, so ownership is part of the representation. *)
(***************************************************************************)
EXTENDS Naturals, Sequences, SequencesExt

CONSTANT None

ProductionFailed == {"FAILED", "BLOCKED"}
ProductionActive == {"PENDING", "RUNNING"}
QualityUnresolved == {"OPEN", "PROCESSING"}
DeliveryBlocked == {"NOT_READY", "FAILED", "BLOCKED"}

NothingLoaded == [order |-> None, tasks |-> <<>>, progress |-> <<>>, quality_issues |-> <<>>,
                  reviews |-> <<>>, delivery |-> None, specification |-> None, errors |-> <<>>]

AllIssues(s) == UNION {ToSet(s.quality_issues[t]) : t \in DOMAIN s.quality_issues}
AllReviews(s) == UNION {ToSet(s.reviews[t]) : t \in DOMAIN s.reviews}
Steps(s) == UNION {ToSet(s.progress[t]) : t \in DOMAIN s.progress}

----------------------------------------------------------------------------
\* Information gaps.

\* Reviews of a task name only issues of it that were loaded; before the
\* issues are loaded any review result counts.
HasValidReview(s, t) ==
    /\ t \in DOMAIN s.reviews
    /\ t \in DOMAIN s.quality_issues =>
         \A r \in ToSet(s.reviews[t]) : \E i \in ToSet(s.quality_issues[t]) : i.id = r.issue

HasValidProgress(s, t) == t \in DOMAIN s.progress /\ s.progress[t] # <<>>

HasValidDelivery(s) == s.delivery # None /\ s.delivery # <<>>

\* A task needs its progress while it is not completed; when the order is
\* producing and every task claims completion, all of them do.
ProductionTasks(s) ==
    LET open == {t \in DOMAIN s.tasks : s.tasks[t] # "COMPLETED"}
    IN  IF s.order = "PRODUCING" /\ open = {} THEN DOMAIN s.tasks ELSE open

QualityTasks(s) == IF s.order = "QUALITY_CHECKING" THEN DOMAIN s.tasks ELSE {}

IssueTasks(s) == {t \in DOMAIN s.tasks \cap DOMAIN s.quality_issues : s.quality_issues[t] # <<>>}

ReviewTasks(s) == IssueTasks(s) \cup IF s.order = "REVIEWING" THEN DOMAIN s.tasks ELSE {}

NeedsSpecification(s) ==
    /\ s.specification = None
    /\ \E t \in IssueTasks(s) : \E i \in ToSet(s.quality_issues[t]) : i.type = "COORDINATE_SYSTEM"

\* The scenario gaps are only looked for once order and tasks are there.
Detect(s) ==
    LET known == s.order # None /\ s.tasks # <<>>
        open == [ORDER_REQUIRED |-> s.order = None,
                 RELATED_TASKS_REQUIRED |-> s.tasks = <<>>,
                 DELIVERY_STATUS_REQUIRED |-> ~ HasValidDelivery(s),
                 PRODUCTION_PROGRESS_REQUIRED |->
                     known /\ \E t \in ProductionTasks(s) : ~ HasValidProgress(s, t),
                 QUALITY_ISSUES_REQUIRED |->
                     known /\ \E t \in QualityTasks(s) : t \notin DOMAIN s.quality_issues,
                 REVIEW_RESULT_REQUIRED |->
                     known /\ \E t \in ReviewTasks(s) : ~ HasValidReview(s, t),
                 SPECIFICATION_RESULT_REQUIRED |-> known /\ NeedsSpecification(s)]
    IN  {g \in DOMAIN open : open[g]}

----------------------------------------------------------------------------
\* The blocking stage.

RequiresReview(s) ==
    \/ \E r \in AllReviews(s) : r.status # "APPROVED"
    \/ \E i \in AllIssues(s) :
         /\ i.status = "RESOLVED"
         /\ ~ \E r \in AllReviews(s) : r.issue = i.id /\ r.status = "APPROVED"

MutEvaluateLoadedFactsForgetSteps(s) ==
    LET production == ToSet(s.tasks)
    IN  IF production \cap ProductionFailed # {} THEN "PRODUCTION_BLOCKED"
        ELSE IF production \cap ProductionActive # {} THEN "PRODUCTION"
        ELSE IF \E i \in AllIssues(s) : i.status \in QualityUnresolved THEN "QUALITY_REVIEW"
        ELSE IF RequiresReview(s) THEN "REVIEW"
        ELSE IF s.delivery = None THEN "INSUFFICIENT_INFORMATION"
        ELSE IF ToSet(s.delivery) \cap DeliveryBlocked # {} THEN "DELIVERY"
        ELSE "NONE"

EvaluateLoadedFacts(s) ==
    LET production == ToSet(s.tasks) \cup Steps(s)
    IN  IF production \cap ProductionFailed # {} THEN "PRODUCTION_BLOCKED"
        ELSE IF production \cap ProductionActive # {} THEN "PRODUCTION"
        ELSE IF \E i \in AllIssues(s) : i.status \in QualityUnresolved THEN "QUALITY_REVIEW"
        ELSE IF RequiresReview(s) THEN "REVIEW"
        ELSE IF s.delivery = None THEN "INSUFFICIENT_INFORMATION"
        ELSE IF ToSet(s.delivery) \cap DeliveryBlocked # {} THEN "DELIVERY"
        ELSE "NONE"

HasCompleteFacts(s) ==
    /\ s.errors = <<>> /\ s.order # None /\ s.tasks # <<>> /\ HasValidDelivery(s)
    /\ DOMAIN s.progress = DOMAIN s.tasks
    /\ DOMAIN s.quality_issues = DOMAIN s.tasks
    /\ DOMAIN s.reviews = DOMAIN s.tasks
    /\ \A t \in DOMAIN s.tasks : s.progress[t] # <<>> /\ HasValidReview(s, t)

EvaluateDiagnosisRules(s) ==
    IF HasCompleteFacts(s) THEN EvaluateLoadedFacts(s) ELSE "INSUFFICIENT_INFORMATION"

EvaluateDynamicDiagnosisRules(s, gaps) ==
    IF s.errors # <<>> \/ gaps # {} THEN "INSUFFICIENT_INFORMATION" ELSE EvaluateLoadedFacts(s)

----------------------------------------------------------------------------
\* The answer.  A builder returns its root causes, evidence and suggestions;
\* an evidence item is the fact it cites.  Reading a task's facts that were
\* never loaded raises KeyError, a stage without its fact ValueError: both
\* are Raised.

Cite(tool, task, item, value) == [tool |-> tool, task |-> task, item |-> item, value |-> value]

Answer(causes, evidence, suggestions) ==
    [causes |-> causes, evidence |-> evidence, suggestions |-> suggestions]

Raised == Answer({"RAISED"}, {}, {})

\* The first index of a sequence whose element is in S, 0 without one.
First(seq, S) == LET hits == {n \in DOMAIN seq : seq[n] \in S} IN IF hits = {} THEN 0 ELSE Min(hits)

CiteTask(s, t) == Cite("get_related_tasks", t, t, s.tasks[t])
CiteStep(s, t, S) == LET n == First(s.progress[t], S)
                     IN  Cite("get_production_progress", t, n, s.progress[t][n])

\* The tasks are searched in order; the search stops at the first one with a
\* step of the wanted kind, or breaks at one whose progress was not loaded.
ProductionDiagnosis(s) ==
    LET task == First(s.tasks, ProductionActive)
        hits == {t \in DOMAIN s.tasks :
                   t \in DOMAIN s.progress => First(s.progress[t], ProductionActive) # 0}
        t == Min(hits)
        cited == IF task # 0 THEN CiteTask(s, task) ELSE CiteStep(s, t, ProductionActive)
    IN  IF task = 0 /\ (hits = {} \/ t \notin DOMAIN s.progress) THEN Raised
        ELSE Answer({"PRODUCTION_IN_PROGRESS"}, {cited}, {"WAIT_FOR_PRODUCTION"})

ProductionBlockedDiagnosis(s) ==
    LET hits == {t \in DOMAIN s.tasks :
                   \/ s.tasks[t] \in ProductionFailed
                   \/ t \in DOMAIN s.progress => First(s.progress[t], ProductionFailed) # 0}
        t == Min(hits)
        ofTask == s.tasks[t] \in ProductionFailed
        cited == IF ofTask THEN CiteTask(s, t) ELSE CiteStep(s, t, ProductionFailed)
    IN  IF hits = {} \/ (~ ofTask /\ t \notin DOMAIN s.progress) THEN Raised
        ELSE Answer({"PRODUCTION_EXECUTION_BLOCKED"}, {cited}, {"RETRY_PRODUCTION"})

\* Where the facts of all tasks are: <<task, index>>.  The lists of the code
\* are in this order, first by task.
Positions(s, known) == UNION {{<<t, n>> : n \in DOMAIN known[t]} : t \in DOMAIN s.tasks}
Earliest(positions) ==
    LET t == Min({p[1] : p \in positions})
    IN  <<t, Min({p[2] : p \in {q \in positions : q[1] = t}})>>

IssueAt(s, p) == s.quality_issues[p[1]][p[2]]
ReviewAt(s, p) == s.reviews[p[1]][p[2]]
IndexedIssues(s, statuses) == {p \in Positions(s, s.quality_issues) : IssueAt(s, p).status \in statuses}
IndexedReviews(s) == Positions(s, s.reviews)

CiteIssue(s, p) == Cite("get_quality_issues", p[1], p[2], IssueAt(s, p).status)
CiteReview(s, p) == Cite("get_review_result", p[1], p[2], ReviewAt(s, p).status)

\* Only the first review of an unresolved issue is looked at.
PendingReview(s, issues) ==
    LET ids == {IssueAt(s, p).id : p \in issues}
        found == {p \in IndexedReviews(s) : ReviewAt(s, p).issue \in ids}
    IN  IF found = {} THEN {} ELSE {p \in {Earliest(found)} : ReviewAt(s, p).status # "APPROVED"}

QualityReviewDiagnosis(s) ==
    LET issues == IndexedIssues(s, QualityUnresolved)
        pending == PendingReview(s, issues)
        coordinate == {p \in issues : IssueAt(s, p).type = "COORDINATE_SYSTEM"}
    IN  IF \E t \in DOMAIN s.tasks : t \notin DOMAIN s.quality_issues \/ t \notin DOMAIN s.reviews
        THEN Raised
        ELSE Answer(
            {"OPEN_COORDINATE_SYSTEM_ISSUE" : p \in coordinate}
              \cup {"UNRESOLVED_QUALITY_ISSUE" : p \in issues \ coordinate}
              \cup {"REVIEW_PENDING" : p \in pending},
            {CiteTask(s, p[1]) : p \in issues}
              \cup {CiteIssue(s, p) : p \in issues}
              \cup {CiteReview(s, p) : p \in pending}
              \cup (IF s.delivery = None THEN {} ELSE
                    {Cite("get_delivery_status", None, n, s.delivery[n]) :
                        n \in {m \in DOMAIN s.delivery : s.delivery[m] \in DeliveryBlocked}}),
            {IF coordinate # {} THEN "CREATE_COORDINATE_SYSTEM_REWORK" ELSE "CREATE_QUALITY_REWORK",
             "RESUBMIT_REVIEW"})

\* Without an open review the first resolved issue is cited, whether or not
\* that one has its approval.
ReviewDiagnosis(s) ==
    LET open == {p \in IndexedReviews(s) : ReviewAt(s, p).status # "APPROVED"}
        resolved == IndexedIssues(s, {"RESOLVED"})
    IN  IF DOMAIN s.tasks \ DOMAIN s.reviews # {} THEN Raised
        ELSE IF open # {}
             THEN Answer({"REVIEW_NOT_APPROVED"}, {CiteReview(s, Earliest(open))}, {"COMPLETE_REVIEW"})
        ELSE IF DOMAIN s.tasks \ DOMAIN s.quality_issues # {} \/ resolved = {} THEN Raised
        ELSE Answer({"REVIEW_MISSING"}, {CiteIssue(s, Earliest(resolved))}, {"SUBMIT_REVIEW"})

DeliveryDiagnosis(s) ==
    LET n == First(s.delivery, DeliveryBlocked)
    IN  Answer({"DELIVERY_NOT_READY"}, {Cite("get_delivery_status", None, n, s.delivery[n])},
               {"RESOLVE_DELIVERY_BLOCKER"})

NoBlockerDiagnosis(s) ==
    IF ~ HasValidDelivery(s) THEN Raised
    ELSE Answer({}, {Cite("get_delivery_status", None, 1, s.delivery[1])}, {"CONTINUE_DELIVERY"})

InsufficientDiagnosis(s) ==
    Answer({"INSUFFICIENT_BUSINESS_FACTS"},
           IF s.order = None THEN {} ELSE {Cite("get_order_detail", None, "status", s.order)},
           {"RELOAD_BUSINESS_FACTS"})

GenerateRuleDiagnosis(stage, s) ==
    CASE stage = "PRODUCTION" -> ProductionDiagnosis(s)
      [] stage = "PRODUCTION_BLOCKED" -> ProductionBlockedDiagnosis(s)
      [] stage = "QUALITY_REVIEW" -> QualityReviewDiagnosis(s)
      [] stage = "REVIEW" -> ReviewDiagnosis(s)
      [] stage = "DELIVERY" -> DeliveryDiagnosis(s)
      [] stage = "NONE" -> NoBlockerDiagnosis(s)
      [] OTHER -> InsufficientDiagnosis(s)
=============================================================================
