---------------------------- MODULE Conversation ----------------------------
(* What a session remembers and what a turn is about: the context of one      *)
(* session, the merge of entities from the user's words, the session and the   *)
(* page, the decision a turn comes to, and the dialogue of clarifications.      *)
(*                                                                            *)
(* A turn reads the context when it starts, asks the router model without a     *)
(* lock, and writes the context in a second transaction; turns of a session     *)
(* overlap.  AgentTurn models the Runs, Steps and failures of the same turns.   *)
EXTENDS Naturals, FiniteSets, FiniteSetsExt

CONSTANTS
    Turns,      \* turns of the session, numbered in the order they start
    Orders, Tasks, Issues,
    Pages,      \* page contexts a request may carry
    Words,      \* entities the router model may extract from a message
    Intents,    \* intents the router model may answer
    Levels,     \* confidence levels it may answer with
    Overlap,    \* bound on the turns in progress at once
    None

Fields == {"order_id", "task_id", "issue_id"}
Values == [order_id |-> Orders, task_id |-> Tasks, issue_id |-> Issues]
Named(f) == Values[f] \cup {None}
Entities == {e \in [Fields -> UNION {Named(f) : f \in Fields}] : \A f \in Fields : e[f] \in Named(f)}

\* validate_page_resources: order-detail, task-detail or quality-issue.
IsPage(p) == p["order_id"] # None /\ (p["issue_id"] # None => p["task_id"] # None)

ASSUME ConversationAssumption ==
    /\ Turns \subseteq Nat \ {0} /\ IsFiniteSet(Turns)
    /\ None \notin Orders \cup Tasks \cup Issues
    /\ Words \subseteq Entities
    /\ \A p \in Pages : p \in Entities /\ IsPage(p)
    /\ Intents \subseteq {"ORDER_QUERY", "ORDER_DIAGNOSIS", "TASK_TRACKING", "SPEC_QA",
                          "REVIEW_GENERATION", "UNKNOWN"}
    /\ Levels \subseteq {"HIGH", "MEDIUM", "LOW"}
    /\ Overlap \in Nat

VARIABLES
    context,    \* the stored SessionContext
    at,         \* turn -> where it stands
    page,       \* turn -> its page_context, or None; forgotten with the request
    seen,       \* turn -> the context its first transaction returned, while it routes
    answers,    \* turn -> the turn whose clarification it continues, or 0
    decision    \* turn -> its RoutingDecision, while something may still read it

vars == <<context, at, page, seen, answers, decision>>

-----------------------------------------------------------------------------
(* The session's context                                                     *)

Nothing == [f \in Fields |-> None]

EmptyContext == [order |-> None, task |-> None, confirmed |-> Nothing,
                 candidates |-> [f \in Fields |-> {}]]

\* context_from_page: a page without a task, or without an issue, takes the
\* remembered one away; candidate entities stay.
ContextFromPage(p, base) ==
    [base EXCEPT !.order = p["order_id"], !.task = p["task_id"], !.confirmed = p]

\* page_context_from_session: an order-detail or a task-detail page.
PageFromContext(c) == [Nothing EXCEPT !["order_id"] = c.order, !["task_id"] = c.task]

-----------------------------------------------------------------------------
(* Merging entities                                                          *)

User == 4
ConfirmedSession == 3
PageContext == 2
SessionCandidate == 1

Sourced(v, s) == IF v = None THEN {} ELSE {[value |-> v, source |-> s]}

Candidates(f, words, c, p) ==
    UNION { Sourced(words[f], User),
            Sourced(IF f = "order_id" THEN c.order ELSE IF f = "task_id" THEN c.task ELSE None,
                    ConfirmedSession),
            Sourced(c.confirmed[f], ConfirmedSession),
            IF p = None THEN {} ELSE Sourced(p[f], PageContext),
            {[value |-> v, source |-> SessionCandidate] : v \in c.candidates[f]} }

\* One candidate per value, with the best of its sources.
Distinct(S) == {x \in S : \A y \in S : y.value = x.value => y.source <= x.source}
Best(S) == {x \in Distinct(S) : \A y \in S : y.source <= x.source}

Absent == [value |-> None, source |-> 0]

\* merge_routing_entities: a field is selected when one value has the best
\* source, and left unresolved when several have.
MergeRoutingEntities(words, c, p) ==
    LET S == [f \in Fields |-> Candidates(f, words, c, p)] IN
    [ selected   |-> [f \in Fields |-> IF Cardinality(Best(S[f])) = 1
                                       THEN CHOOSE x \in Best(S[f]) : TRUE ELSE Absent],
      unresolved |-> {f \in Fields : Cardinality(Best(S[f])) > 1},
      offered    |-> [f \in Fields |-> {x.value : x \in S[f]}] ]

-----------------------------------------------------------------------------
(* The routing decision                                                      *)

RequiredParameters(intent) ==
    CASE intent \in {"ORDER_QUERY", "ORDER_DIAGNOSIS"} -> {"order_id"}
      [] intent \in {"TASK_TRACKING", "REVIEW_GENERATION"} -> {"task_id"}
      [] OTHER -> {}

MissingFields(intent, m) == {f \in RequiredParameters(intent) : m.selected[f].value = None}

\* Of several unresolved fields the first is asked about.
FirstField(S) ==
    LET rank == [order_id |-> 1, task_id |-> 2, issue_id |-> 3] IN
    CHOOSE f \in S : \A g \in S : rank[f] <= rank[g]

\* _compose_decision: one question at a time, in this order.
Question(intent, level, m, asks, confirmed) ==
    LET plain(reason) == [reason |-> reason, field |-> None, options |-> {}] IN
    CASE intent = "UNKNOWN" -> plain("UNKNOWN_INTENT")
      [] intent # "UNKNOWN" /\ m.unresolved # {} ->
            LET f == FirstField(m.unresolved) IN
            [reason |-> "ENTITY_CONFLICT", field |-> f, options |-> m.offered[f]]
      [] OTHER ->
            IF MissingFields(intent, m) # {}
            THEN [plain("MISSING_PARAMETER") EXCEPT !.field = CHOOSE f \in MissingFields(intent, m) : TRUE]
            ELSE IF level = "LOW" THEN plain("LOW_CONFIDENCE")
            ELSE IF level = "MEDIUM" /\ ~confirmed THEN plain("CONFIRM_INTENT")
            ELSE IF asks THEN plain("MODEL_REQUEST")
            ELSE plain("READY")

ComposeDecision(intent, level, m, asks, confirmed) ==
    [ intent |-> intent, level |-> level, entities |-> m, asks |-> asks,
      confirmed |-> confirmed, question |-> Question(intent, level, m, asks, confirmed) ]

CanDispatch(d) == d.question.reason = "READY"

\* require_matching_diagnosis_page: a diagnosis of an order the page does not
\* show is asked about first.
RequireMatchingDiagnosisPage(d, p) ==
    LET target == d.entities.selected["order_id"].value IN
    IF /\ CanDispatch(d)
       /\ d.intent = "ORDER_DIAGNOSIS"
       /\ p # None
       /\ target # p["order_id"]
    THEN [d EXCEPT !.question = [reason |-> "PAGE_ORDER_MISMATCH", field |-> "order_id",
                                 options |-> {target, p["order_id"]}]]
    ELSE d

\* _apply_selection: the user's choice becomes a User entity.
ApplySelection(m, f, v) ==
    [m EXCEPT !.selected[f] = [value |-> v, source |-> User],
              !.unresolved = @ \ {f},
              !.offered[f] = @ \cup {v}]

\* resume_routing_after_selection refuses any other field, and a value that was
\* not offered where values were offered.
Selectable(d, f, v) ==
    /\ d.question.reason \in {"ENTITY_CONFLICT", "MISSING_PARAMETER"}
    /\ d.question.field = f
    /\ d.question.options # {} => v \in d.question.options

ResumeRoutingAfterSelection(d, f, v) ==
    ComposeDecision(d.intent, d.level, ApplySelection(d.entities, f, v), d.asks, d.confirmed)

\* Mutant: the confirmation is not recorded in the resumed decision.
MutConfirmRoutingIntentForgets(d) ==
    ComposeDecision(d.intent, d.level, d.entities, d.asks, d.confirmed)

ConfirmRoutingIntent(d) == ComposeDecision(d.intent, d.level, d.entities, d.asks, TRUE)

NoDecision == ComposeDecision("UNKNOWN", "LOW",
    MergeRoutingEntities(Nothing, EmptyContext, None), FALSE, FALSE)

Init ==
    /\ context = EmptyContext
    /\ at = [t \in Turns |-> "idle"]
    /\ page = [t \in Turns |-> None]
    /\ seen = [t \in Turns |-> EmptyContext]
    /\ answers = [t \in Turns |-> 0]
    /\ decision = [t \in Turns |-> NoDecision]

Go(t, label) == at' = [at EXCEPT ![t] = label]

-----------------------------------------------------------------------------
(* Turns                                                                     *)

Ended == {"answered", "done", "failed"}

MayBegin(t) ==
    /\ at[t] = "idle"
    /\ \A w \in Turns : w < t => at[w] # "idle"
    /\ Cardinality({w \in Turns : at[w] \notin Ended \cup {"idle"}}) < Overlap

\* _create_running_run: the page goes into the session before anything is
\* understood, and the context that results is the one the turn works with.
CreateRunningRun(t, p, u, label) ==
    LET c == IF p = None THEN context ELSE ContextFromPage(p, context) IN
    /\ MayBegin(t)
    /\ context' = c
    /\ seen' = [seen EXCEPT ![t] = c]
    /\ page' = [page EXCEPT ![t] = p]
    /\ answers' = [answers EXCEPT ![t] = u]
    /\ Go(t, label)
    /\ UNCHANGED decision

Message(t) == \E p \in Pages \cup {None} : CreateRunningRun(t, p, 0, "routing")

Continue(t) ==
    \E p \in Pages \cup {None}, u \in Turns :
        at[u] = "answered" /\ CreateRunningRun(t, p, u, "resuming")

\* The older diagnosis endpoint without a message to route.  An order_id that
\* is not the page's leaves the session alone (load_context refuses it later);
\* without a page, the page is restored from the session.
DiagnoseOrder(t) ==
    /\ MayBegin(t)
    /\ \E p \in Pages \cup {None}, o \in Orders \cup {None} :
          /\ p = None => context.order # None
          /\ context' = IF p # None /\ o \in {None, p["order_id"]}
                        THEN ContextFromPage(p, context) ELSE context
          /\ page' = [page EXCEPT ![t] = IF p = None THEN PageFromContext(context) ELSE p]
    /\ Go(t, "dispatched")
    /\ UNCHANGED <<seen, answers, decision>>

\* IntentRouter.route and the merge.  validate_route_contract: missing_fields
\* must be what the words lack, and then a clarification is requested for that;
\* UNKNOWN always requests one.
Route(t) ==
    /\ at[t] = "routing"
    /\ \E w \in Words, i \in Intents, l \in Levels, asks \in BOOLEAN :
          /\ i = "UNKNOWN" => asks
          /\ (\E f \in RequiredParameters(i) : w[f] = None) => ~asks
          /\ decision' = [decision EXCEPT ![t] = RequireMatchingDiagnosisPage(
                ComposeDecision(i, l, MergeRoutingEntities(w, seen[t], page[t]), asks, FALSE),
                page[t])]
    /\ seen' = [seen EXCEPT ![t] = EmptyContext]
    /\ Go(t, "decided")
    /\ UNCHANGED <<context, page, answers>>

\* _load_pending_decision: only the newest result of the session, and only a
\* clarification, can be continued.
Pending(t) ==
    LET u == answers[t] IN
    /\ at[u] = "answered"
    /\ \A w \in Turns : at[w] \in {"answered", "done"} => w <= u

\* Mutant: the page check runs on the router's branch only.
MutResumeUnchecked(t) ==
    /\ at[t] = "resuming"
    /\ Pending(t)
    /\ LET d == decision[answers[t]] IN
       \/ /\ d.question.reason = "CONFIRM_INTENT"
          /\ decision' = [decision EXCEPT ![t] = ConfirmRoutingIntent(d)]
       \/ \E f \in Fields : \E v \in Values[f] :
             /\ Selectable(d, f, v)
             /\ decision' = [decision EXCEPT ![t] = ResumeRoutingAfterSelection(d, f, v)]
    /\ seen' = [seen EXCEPT ![t] = EmptyContext]
    /\ Go(t, "decided")
    /\ UNCHANGED <<context, page, answers>>

\* A clarification resumes the decision of its source turn; the router model is
\* not asked again and the new page takes no part in the merge.
Resume(t) ==
    /\ at[t] = "resuming"
    /\ Pending(t)
    /\ LET d == decision[answers[t]]
           resume(r) == decision' = [decision EXCEPT ![t] = RequireMatchingDiagnosisPage(r, page[t])]
       IN  \/ d.question.reason = "CONFIRM_INTENT" /\ resume(ConfirmRoutingIntent(d))
           \/ \E f \in Fields : \E v \in Values[f] :
                 Selectable(d, f, v) /\ resume(ResumeRoutingAfterSelection(d, f, v))
    /\ seen' = [seen EXCEPT ![t] = EmptyContext]
    /\ Go(t, "decided")
    /\ UNCHANGED <<context, page, answers>>

\* Mutant: every selected entity is confirmed, not only what the user named.
MutUpdatedConfirmsAll(c, d) ==
    LET order == d.entities.selected["order_id"].value IN
    [c EXCEPT !.order = IF order # None THEN order ELSE @,
              !.confirmed = [f \in Fields |-> IF d.entities.selected[f].value # None
                                              THEN d.entities.selected[f].value ELSE @[f]]]

\* Mutant: a newly confirmed task does not become the current one.
MutUpdatedKeepsTask(c, d) ==
    LET said == {f \in Fields : d.entities.selected[f].source = User} IN
    [c EXCEPT !.order = IF "order_id" \in said THEN d.entities.selected["order_id"].value ELSE @,
              !.confirmed = [f \in Fields |-> IF f \in said THEN d.entities.selected[f].value
                                              ELSE @[f]]]

\* _update_session_context on a context c: what the user named is confirmed,
\* what was offered becomes a candidate, a new order drops the confirmed task.
Updated(c, d) ==
    LET q == d.question
        said == {f \in Fields : d.entities.selected[f].source = User}
        confirmed == [f \in Fields |-> IF f \in said THEN d.entities.selected[f].value
                                       ELSE c.confirmed[f]]
        candidates == [f \in Fields |-> IF f = q.field /\ q.options # {} THEN q.options
                                        ELSE IF f \in said THEN {} ELSE c.candidates[f]]
        order == confirmed["order_id"]
        switched == order # None /\ c.order # None /\ c.order # order
        kept == IF switched THEN [confirmed EXCEPT !["task_id"] = None] ELSE confirmed
        current == IF order # None THEN order ELSE c.order
    IN  [ order      |-> current,
          task       |-> IF current = None THEN None
                         ELSE IF kept["task_id"] # None THEN kept["task_id"] ELSE c.task,
          confirmed  |-> kept,
          candidates |-> IF switched THEN [candidates EXCEPT !["task_id"] = {}] ELSE candidates ]

\* The context is read again under the session's lock.  A switch the user has
\* not confirmed leaves it as it is.
UpdateSessionContext(t) ==
    LET d == decision[t] IN
    /\ at[t] = "decided"
    /\ context' = IF d.question.reason = "PAGE_ORDER_MISMATCH" THEN context
                  ELSE Updated(context, d)
    /\ Go(t, IF CanDispatch(d) THEN "dispatched" ELSE "answered")
    /\ UNCHANGED <<page, seen, answers, decision>>

\* The skill's result is saved, or the turn fails and saves none.
Conclude(t) ==
    /\ at[t] = "dispatched"
    /\ \E label \in {"done", "failed"} : Go(t, label)
    /\ page' = [page EXCEPT ![t] = None]
    /\ decision' = [decision EXCEPT ![t] = NoDecision]
    /\ UNCHANGED <<context, seen, answers>>

\* The router model, the continuation or the session refuses the turn.
Fail(t) ==
    /\ at[t] \in {"routing", "resuming", "decided"}
    /\ Go(t, "failed")
    /\ page' = [page EXCEPT ![t] = None]
    /\ seen' = [seen EXCEPT ![t] = EmptyContext]
    /\ decision' = [decision EXCEPT ![t] = NoDecision]
    /\ UNCHANGED <<context, answers>>

Next == \E t \in Turns :
    \/ Message(t) \/ Continue(t) \/ DiagnoseOrder(t)
    \/ Route(t) \/ Resume(t) \/ UpdateSessionContext(t) \/ Conclude(t) \/ Fail(t)

Spec == Init /\ [][Next]_vars

-----------------------------------------------------------------------------
(* Properties                                                                *)

\* However turns interleave, the session never holds two values of equal rank
\* for a field: no turn ever has to ask which of several candidates is meant,
\* and candidate_entities stays empty.  (_append_confirmed_session takes the
\* current object and the confirmed one at the same rank, so this rests on
\* every writer of the context keeping the two in step.)
NeverAmbiguous ==
    /\ \A t \in Turns : decision[t].question.reason # "ENTITY_CONFLICT"
    /\ \A f \in Fields : context.candidates[f] = {}

\* A diagnosis is only dispatched for the order its own page shows, also when
\* the decision was made on another page and resumed by a clarification.
DiagnosisOnItsPage == \A t \in Turns :
    /\ at[t] = "dispatched" /\ page[t] # None
    /\ decision[t].intent = "ORDER_DIAGNOSIS"
    => decision[t].entities.selected["order_id"].value = page[t]["order_id"]

\* A dialogue makes progress: a question that can be answered by a choice is
\* not asked again anywhere down the chain of continuations it started.
Asked(t) == <<decision[t].question.reason, decision[t].question.field>>
Chain(p, n) == \A i \in 1..n : answers[p[i - 1]] = p[i]
NoQuestionTwice == \A n \in 1..(Cardinality(Turns) - 1) : \A p \in [0..n -> Turns] :
    /\ Chain(p, n) /\ at[p[0]] \in {"decided", "answered"}
    /\ Asked(p[n])[1] \in {"ENTITY_CONFLICT", "MISSING_PARAMETER", "CONFIRM_INTENT"}
    => Asked(p[0]) # Asked(p[n])

\* No turn writes back what it read before another one changed it: a confirmed
\* entity only changes to what the writing turn's own page or user names, or
\* goes with the order it belongs to.
OnlyOwnEntities == [][
    \A t \in Turns : at[t] = "decided" /\ at'[t] \in {"dispatched", "answered"} =>
        \A f \in Fields : context'.confirmed[f] # context.confirmed[f] =>
            \/ decision[t].entities.selected[f] = [value |-> context'.confirmed[f], source |-> User]
            \/ f = "task_id" /\ context'.order # context.order]_vars

-----------------------------------------------------------------------------
(* What makes them inductive *)

Subjects == Orders \cup Tasks \cup Issues \cup {None}

Context == [order : Orders \cup {None}, task : Tasks \cup {None}, confirmed : Entities,
            candidates : [Fields -> SUBSET Subjects]]

Selection(f) == [value : Named(f), source : 0..4]
Selections == {s \in [Fields -> UNION {Selection(f) : f \in Fields}] : \A f \in Fields : s[f] \in Selection(f)}
Merged == [selected : Selections, unresolved : SUBSET Fields, offered : [Fields -> SUBSET Subjects]]

Decision ==
    [intent : Intents \cup {"UNKNOWN"}, level : Levels \cup {"LOW"}, entities : Merged,
     asks : BOOLEAN, confirmed : BOOLEAN,
     question : [reason : {"UNKNOWN_INTENT", "ENTITY_CONFLICT", "MISSING_PARAMETER", "LOW_CONFIDENCE",
                           "CONFIRM_INTENT", "MODEL_REQUEST", "PAGE_ORDER_MISMATCH", "READY"},
                 field : Fields \cup {None}, options : SUBSET Subjects]]

TypeOK ==
    /\ context \in Context
    /\ at \in [Turns -> Ended \cup {"idle", "routing", "resuming", "decided", "dispatched"}]
    /\ page \in [Turns -> Entities \cup {None}]
    /\ seen \in [Turns -> Context]
    /\ answers \in [Turns -> Turns \cup {0}]
    /\ decision \in [Turns -> Decision]

\* The current object and the confirmed one are the same where both are known.
Agree(a, b) == a = None \/ b = None \/ a = b
InStep(c) ==
    /\ Agree(c.order, c.confirmed["order_id"])
    /\ Agree(c.task, c.confirmed["task_id"])
    /\ \A f \in Fields : c.candidates[f] = {}

\* A decision asks for what it lacks, and offers a choice between orders only.
Settled(d) ==
    /\ d.entities.unresolved = {}
    /\ d.question.reason # "ENTITY_CONFLICT"
    /\ d.question.options # {} => d.question.reason = "PAGE_ORDER_MISMATCH"
    /\ d.question.reason = "MISSING_PARAMETER" =>
          d.question.field \in Fields /\ d.entities.selected[d.question.field].value = None
    /\ d.question.reason = "CONFIRM_INTENT" => ~d.confirmed

\* What a resumed decision e keeps of the one it answers, and adds to it.
Furthers(e, d) ==
    /\ d.confirmed \/ d.question.reason = "CONFIRM_INTENT" => e.confirmed
    /\ \A f \in Fields :
          \/ d.entities.selected[f].value # None
          \/ d.question.reason = "MISSING_PARAMETER" /\ d.question.field = f
          => e.entities.selected[f].value # None

\* Before it decides, a turn has decided nothing; a turn that continues another
\* one finds its clarification unchanged.
Placed(t) ==
    /\ at[t] \in {"idle", "routing", "resuming"} => decision[t] = NoDecision
    /\ at[t] \in {"idle", "routing"} => answers[t] = 0
    /\ at[t] = "resuming" => answers[t] \in Turns
    /\ answers[t] \in Turns =>
          /\ at[answers[t]] = "answered"
          /\ at[t] \in {"decided", "answered"} => Furthers(decision[t], decision[answers[t]])

\* A diagnosis that may be dispatched is for the order of the page.
OnItsPage(t) ==
    /\ at[t] \in {"decided", "dispatched"} /\ page[t] # None
    /\ CanDispatch(decision[t]) \/ at[t] = "dispatched"
    /\ decision[t].intent = "ORDER_DIAGNOSIS"
    => decision[t].entities.selected["order_id"].value = page[t]["order_id"]

ConversationIInv ==
    /\ TypeOK
    /\ InStep(context)
    /\ \A t \in Turns : InStep(seen[t]) /\ Settled(decision[t]) /\ Placed(t) /\ OnItsPage(t)
=============================================================================
