-------------------------- MODULE ConversationProofs --------------------------
(* Theorems about Conversation.  The session stays unambiguous because each    *)
(* writer of the context keeps the current object and the confirmed one the    *)
(* same; then each source names at most one value, and the best one is unique. *)
EXTENDS Conversation, FiniteSetTheorems, NaturalsInduction, TLAPS

-----------------------------------------------------------------------------
(* Entities and contexts *)

LEMMA FieldsAre ==
    /\ "order_id" \in Fields /\ "task_id" \in Fields /\ "issue_id" \in Fields
    /\ \A f \in Fields : f \in {"order_id", "task_id", "issue_id"}
    /\ Named("order_id") = Orders \cup {None}
    /\ Named("task_id") = Tasks \cup {None}
    /\ Named("issue_id") = Issues \cup {None}
    /\ \A f \in Fields : None \in Named(f) /\ Named(f) \subseteq Subjects /\ None \notin Values[f]
<1>1. /\ "order_id" \in Fields /\ "task_id" \in Fields /\ "issue_id" \in Fields
      /\ \A f \in Fields : f \in {"order_id", "task_id", "issue_id"}
  BY DEF Fields
<1>2. /\ Values["order_id"] = Orders /\ Values["task_id"] = Tasks /\ Values["issue_id"] = Issues
  BY DEF Values
<1> QED BY <1>1, <1>2, ConversationAssumption DEF Named, Subjects

\* What an entity record is, by its fields.
LEMMA EntityIs ==
    ASSUME NEW e, e = [f \in Fields |-> e[f]], \A f \in Fields : e[f] \in Named(f)
    PROVE  e \in Entities
<1>1. e \in [Fields -> UNION {Named(f) : f \in Fields}]
  OBVIOUS
<1> QED BY <1>1 DEF Entities

LEMMA EntityOf ==
    ASSUME NEW e \in Entities
    PROVE  /\ e = [f \in Fields |-> e[f]]
           /\ \A f \in Fields : e[f] \in Named(f)
BY DEF Entities

\* The page of a remembered order and task.
LEMMA RestoredPageIs == ASSUME NEW c \in Context PROVE PageFromContext(c) \in Entities
<1>1. PICK e : e = PageFromContext(c)
  OBVIOUS
<1>2. \A f \in Fields : e[f] = IF f = "task_id" THEN c.task ELSE IF f = "order_id" THEN c.order ELSE None
  BY <1>1 DEF PageFromContext, Nothing
<1>3. e = [f \in Fields |-> e[f]]
  BY <1>1 DEF PageFromContext, Nothing
<1>4. c.order \in Orders \cup {None} /\ c.task \in Tasks \cup {None}
  BY DEF Context
<1>5. \A f \in Fields : e[f] \in Named(f)
  BY <1>2, <1>4, FieldsAre
<1> QED BY <1>1, <1>3, <1>5, EntityIs

LEMMA EmptyIs == Nothing \in Entities /\ EmptyContext \in Context /\ InStep(EmptyContext)
<1>1. Nothing = [f \in Fields |-> Nothing[f]] /\ \A f \in Fields : Nothing[f] = None
  BY DEF Nothing
<1>2. Nothing \in Entities
  BY <1>1, EntityIs, FieldsAre
<1>3. [f \in Fields |-> {}] \in [Fields -> SUBSET Subjects]
  OBVIOUS
<1>4. EmptyContext \in Context
  BY <1>2, <1>3 DEF EmptyContext, Context
<1> QED BY <1>2, <1>4, FieldsAre DEF EmptyContext, InStep, Agree

\* A page replaces the objects and leaves the candidates.
LEMMA ShownIs ==
    ASSUME NEW c \in Context, InStep(c), NEW p \in Entities
    PROVE  ContextFromPage(p, c) \in Context /\ InStep(ContextFromPage(p, c))
<1>1. PICK e : e = ContextFromPage(p, c)
  OBVIOUS
<1>2. e = [order |-> p["order_id"], task |-> p["task_id"], confirmed |-> p, candidates |-> c.candidates]
  BY <1>1 DEF ContextFromPage, Context
<1>3. p["order_id"] \in Orders \cup {None} /\ p["task_id"] \in Tasks \cup {None}
  BY EntityOf, FieldsAre
<1>4. e \in Context
  BY <1>2, <1>3 DEF Context
<1>5. InStep(e)
  BY <1>2 DEF InStep, Agree
<1> QED BY <1>1, <1>4, <1>5

-----------------------------------------------------------------------------
(* The merge *)

\* Of candidates that each have a source of their own, one at most is best.
LEMMA BestIsOne ==
    ASSUME NEW S, \A x \in S : x.source \in Nat, \A x, y \in S : x.source = y.source => x = y
    PROVE  Cardinality(Best(S)) = 0 \/ (Cardinality(Best(S)) = 1 /\ Best(S) # {})
<1>1. \A x \in Best(S) : x \in S /\ \A y \in S : y.source <= x.source
  BY DEF Best, Distinct
<1>2. \A x, y \in Best(S) : x = y
  <2> SUFFICES ASSUME NEW x \in Best(S), NEW y \in Best(S) PROVE x = y
    OBVIOUS
  <2>1. x.source \in Nat /\ y.source \in Nat /\ x.source <= y.source /\ y.source <= x.source
    BY <1>1
  <2>2. x.source = y.source
    BY <2>1
  <2> QED BY <2>2, <1>1
<1>3. CASE Best(S) = {}
  BY <1>3, FS_EmptySet
<1>4. CASE Best(S) # {}
  <2>1. PICK x : Best(S) = {x}
    BY <1>2, <1>4
  <2> QED BY <2>1, FS_Singleton
<1> QED BY <1>3, <1>4

\* Each source names one value, when what the session holds is in step.
LEMMA CandidatesAre ==
    ASSUME NEW f \in Fields, NEW w \in Entities, NEW c \in Context, InStep(c), NEW p \in Entities \cup {None}
    PROVE  /\ \A x \in Candidates(f, w, c, p) : x \in Selection(f) /\ x.source \in Nat
           /\ \A x, y \in Candidates(f, w, c, p) : x.source = y.source => x = y
<1> DEFINE o == IF f = "order_id" THEN c.order ELSE IF f = "task_id" THEN c.task ELSE None
<1>1. ASSUME NEW x \in Candidates(f, w, c, p)
      PROVE  \/ x = [value |-> w[f], source |-> 4]
             \/ x = [value |-> o, source |-> 3] /\ o # None
             \/ x = [value |-> c.confirmed[f], source |-> 3] /\ c.confirmed[f] # None
             \/ x = [value |-> p[f], source |-> 2] /\ p # None
  <2>1. c.candidates[f] = {}
    BY DEF InStep
  <2>2. \/ x \in Sourced(w[f], 4) \/ x \in Sourced(o, 3) \/ x \in Sourced(c.confirmed[f], 3)
        \/ p # None /\ x \in Sourced(p[f], 2)
    BY <1>1, <2>1 DEF Candidates, User, ConfirmedSession, PageContext
  <2> QED BY <2>2 DEF Sourced
<1>2. /\ w[f] \in Named(f) /\ c.confirmed[f] \in Named(f)
      /\ p # None => p[f] \in Named(f)
  BY EntityOf DEF Context
<1>3. o \in Named(f)
  BY FieldsAre DEF Context
<1>4. o # None /\ c.confirmed[f] # None => o = c.confirmed[f]
  BY FieldsAre DEF InStep, Agree
<1> HIDE DEF o
<1>5. \A x \in Candidates(f, w, c, p) : x \in Selection(f) /\ x.source \in Nat
  BY <1>1, <1>2, <1>3 DEF Selection
<1>6. ASSUME NEW x \in Candidates(f, w, c, p), NEW y \in Candidates(f, w, c, p), x.source = y.source
      PROVE  x = y
  <2>1. x.source = 4 => x = [value |-> w[f], source |-> 4]
    BY <1>1
  <2>2. y.source = 4 => y = [value |-> w[f], source |-> 4]
    BY <1>1
  <2>3. x.source = 3 /\ y.source = 3 => x = y
    BY <1>1, <1>4
  <2>4. x.source = 2 => x = [value |-> p[f], source |-> 2]
    BY <1>1
  <2>5. y.source = 2 => y = [value |-> p[f], source |-> 2]
    BY <1>1
  <2>6. x.source \in {2, 3, 4}
    BY <1>1
  <2> QED BY <2>1, <2>2, <2>3, <2>4, <2>5, <2>6, <1>6
<1> QED BY <1>5, <1>6

\* A merge in a session in step leaves no field unresolved.
LEMMA MergedIs ==
    ASSUME NEW w \in Entities, NEW c \in Context, InStep(c), NEW p \in Entities \cup {None}
    PROVE  MergeRoutingEntities(w, c, p) \in Merged /\ MergeRoutingEntities(w, c, p).unresolved = {}
<1> DEFINE S == [f \in Fields |-> Candidates(f, w, c, p)]
<1>1. \A f \in Fields : S[f] = Candidates(f, w, c, p)
  OBVIOUS
<1>m. PICK m : m = MergeRoutingEntities(w, c, p)
  OBVIOUS
<1>3. m = [selected   |-> [f \in Fields |-> IF Cardinality(Best(S[f])) = 1
                                            THEN CHOOSE x \in Best(S[f]) : TRUE ELSE Absent],
           unresolved |-> {f \in Fields : Cardinality(Best(S[f])) > 1},
           offered    |-> [f \in Fields |-> {x.value : x \in S[f]}]]
  BY <1>m DEF MergeRoutingEntities
<1> HIDE DEF S
<1>2. ASSUME NEW f \in Fields
      PROVE  /\ S[f] = Candidates(f, w, c, p)
             /\ \A x \in S[f] : x \in Selection(f) /\ x.source \in Nat
             /\ Cardinality(Best(S[f])) = 0 \/ (Cardinality(Best(S[f])) = 1 /\ Best(S[f]) # {})
  <2>1. S[f] = Candidates(f, w, c, p)
    BY <1>1
  <2>2. /\ \A x \in S[f] : x \in Selection(f) /\ x.source \in Nat
        /\ \A x, y \in S[f] : x.source = y.source => x = y
    BY <2>1, CandidatesAre
  <2> QED BY <2>1, <2>2, BestIsOne
<1>s. PICK s : s = [f \in Fields |-> IF Cardinality(Best(S[f])) = 1
                                     THEN CHOOSE x \in Best(S[f]) : TRUE ELSE Absent]
  OBVIOUS
<1>4. ASSUME NEW f \in Fields PROVE s[f] \in Selection(f)
  <2>1. CASE Cardinality(Best(S[f])) = 1
    <3>1. s[f] \in Best(S[f])
      BY <1>2, <1>s, <2>1
    <3>2. s[f] \in S[f]
      BY <3>1 DEF Best, Distinct
    <3> QED BY <3>2, <1>2
  <2>2. CASE Cardinality(Best(S[f])) # 1
    <3>1. s[f] = Absent
      BY <1>s, <2>2
    <3> QED BY <3>1, FieldsAre DEF Absent, Selection
  <2> QED BY <2>1, <2>2
<1>5. s \in Selections
  <2>1. s \in [Fields -> UNION {Selection(f) : f \in Fields}]
    BY <1>4, <1>s
  <2> QED BY <2>1, <1>4 DEF Selections
<1>6. {f \in Fields : Cardinality(Best(S[f])) > 1} = {}
  BY <1>2
<1>7. [f \in Fields |-> {x.value : x \in S[f]}] \in [Fields -> SUBSET Subjects]
  <2>1. ASSUME NEW f \in Fields PROVE {x.value : x \in S[f]} \subseteq Subjects
    BY <1>2, FieldsAre DEF Selection
  <2> QED BY <2>1
<1>8. m = [selected |-> s, unresolved |-> {}, offered |-> [f \in Fields |-> {x.value : x \in S[f]}]]
  BY <1>3, <1>6, <1>s
<1> QED BY <1>5, <1>7, <1>8, <1>m DEF Merged

-----------------------------------------------------------------------------
(* Decisions *)

\* What is asked when nothing is unresolved.
LEMMA QuestionIs ==
    ASSUME NEW intent, NEW level, NEW m, m.unresolved = {}, NEW asks, NEW confirmed
    PROVE  LET q == Question(intent, level, m, asks, confirmed) IN
           /\ q \in [reason : {"UNKNOWN_INTENT", "MISSING_PARAMETER", "LOW_CONFIDENCE", "CONFIRM_INTENT",
                               "MODEL_REQUEST", "READY"},
                     field : Fields \cup {None}, options : {{}}]
           /\ q.reason = "MISSING_PARAMETER" => q.field \in Fields /\ m.selected[q.field].value = None
           /\ q.reason = "CONFIRM_INTENT" => ~confirmed
           /\ intent = "UNKNOWN" => q.reason = "UNKNOWN_INTENT"
<1> DEFINE plain(reason) == [reason |-> reason, field |-> None, options |-> {}]
<1>1. MissingFields(intent, m) \subseteq Fields
  BY FieldsAre DEF MissingFields, RequiredParameters
<1>2. ASSUME NEW g \in MissingFields(intent, m) PROVE m.selected[g].value = None
  BY DEF MissingFields
<1>q. PICK q : q = Question(intent, level, m, asks, confirmed)
  OBVIOUS
<1>3. CASE intent = "UNKNOWN"
  BY <1>3, <1>q DEF Question
<1>4. CASE intent # "UNKNOWN" /\ MissingFields(intent, m) # {}
  <2>1. PICK g : g = CHOOSE f \in MissingFields(intent, m) : TRUE
    OBVIOUS
  <2>2. g \in MissingFields(intent, m)
    BY <2>1, <1>4
  <2>3. q = [plain("MISSING_PARAMETER") EXCEPT !.field = g]
    BY <2>1, <1>4, <1>q DEF Question
  <2>4. q = [reason |-> "MISSING_PARAMETER", field |-> g, options |-> {}]
    BY <2>3
  <2> QED BY <2>2, <2>4, <1>1, <1>2, <1>4, <1>q
<1>5. CASE intent # "UNKNOWN" /\ MissingFields(intent, m) = {}
  <2>1. q = IF level = "LOW" THEN plain("LOW_CONFIDENCE")
            ELSE IF level = "MEDIUM" /\ ~confirmed THEN plain("CONFIRM_INTENT")
            ELSE IF asks THEN plain("MODEL_REQUEST")
            ELSE plain("READY")
    BY <1>5, <1>q DEF Question
  <2> QED BY <2>1, <1>5, <1>q
<1> QED BY <1>3, <1>4, <1>5

\* A composed decision is settled.
LEMMA ComposedIs ==
    ASSUME NEW intent \in Intents \cup {"UNKNOWN"}, NEW level \in Levels \cup {"LOW"}, NEW m \in Merged,
           m.unresolved = {}, NEW asks \in BOOLEAN, NEW confirmed \in BOOLEAN
    PROVE  LET d == ComposeDecision(intent, level, m, asks, confirmed) IN
           /\ d \in Decision /\ Settled(d)
           /\ d.intent = intent /\ d.entities = m /\ d.confirmed = confirmed
           /\ intent = "UNKNOWN" => d.question.reason = "UNKNOWN_INTENT"
<1>q. PICK q : q = Question(intent, level, m, asks, confirmed)
  OBVIOUS
<1>1. /\ q \in [reason : {"UNKNOWN_INTENT", "MISSING_PARAMETER", "LOW_CONFIDENCE", "CONFIRM_INTENT",
                          "MODEL_REQUEST", "READY"},
                field : Fields \cup {None}, options : {{}}]
      /\ q.reason = "MISSING_PARAMETER" => q.field \in Fields /\ m.selected[q.field].value = None
      /\ q.reason = "CONFIRM_INTENT" => ~confirmed
      /\ intent = "UNKNOWN" => q.reason = "UNKNOWN_INTENT"
  BY <1>q, QuestionIs
<1>d. PICK d : d = ComposeDecision(intent, level, m, asks, confirmed)
  OBVIOUS
<1>2. d = [intent |-> intent, level |-> level, entities |-> m, asks |-> asks, confirmed |-> confirmed,
           question |-> q]
  BY <1>d, <1>q DEF ComposeDecision
<1>3. d \in Decision
  BY <1>1, <1>2 DEF Decision
<1>4. Settled(d)
  BY <1>1, <1>2 DEF Settled
<1> QED BY <1>1, <1>2, <1>3, <1>4, <1>d

LEMMA NoDecisionIs ==
    /\ NoDecision \in Decision /\ Settled(NoDecision)
    /\ NoDecision.intent = "UNKNOWN" /\ NoDecision.question.reason = "UNKNOWN_INTENT"
<1>1. PICK m : m = MergeRoutingEntities(Nothing, EmptyContext, None)
  OBVIOUS
<1>2. m \in Merged /\ m.unresolved = {}
  BY <1>1, EmptyIs, MergedIs
<1>n. PICK no \in BOOLEAN : no = FALSE
  OBVIOUS
<1>3. NoDecision = ComposeDecision("UNKNOWN", "LOW", m, no, no)
  BY <1>1, <1>n, Zenon DEF NoDecision
<1>4. "UNKNOWN" \in Intents \cup {"UNKNOWN"} /\ "LOW" \in Levels \cup {"LOW"}
  OBVIOUS
<1>d. PICK d : d = ComposeDecision("UNKNOWN", "LOW", m, no, no)
  OBVIOUS
<1>5. d \in Decision /\ Settled(d) /\ d.intent = "UNKNOWN" /\ d.question.reason = "UNKNOWN_INTENT"
  BY <1>2, <1>4, <1>d, ComposedIs
<1> QED BY <1>3, <1>5, <1>d

\* The page check keeps the decision, or turns it into a question.
LEMMA RequiredIs ==
    ASSUME NEW d \in Decision, Settled(d), NEW p \in Entities \cup {None}
    PROVE  LET r == RequireMatchingDiagnosisPage(d, p) IN
           /\ r \in Decision /\ Settled(r)
           /\ r.intent = d.intent /\ r.entities = d.entities /\ r.confirmed = d.confirmed
           /\ CanDispatch(r) /\ r.intent = "ORDER_DIAGNOSIS" /\ p # None
                => r.entities.selected["order_id"].value = p["order_id"]
<1> DEFINE target == d.entities.selected["order_id"].value
<1>1. PICK r : r = RequireMatchingDiagnosisPage(d, p)
  OBVIOUS
<1>2. CASE CanDispatch(d) /\ d.intent = "ORDER_DIAGNOSIS" /\ p # None /\ target # p["order_id"]
  <2>1. PICK q : q = [reason |-> "PAGE_ORDER_MISMATCH", field |-> "order_id", options |-> {target, p["order_id"]}]
    OBVIOUS
  <2>2. r = [d EXCEPT !.question = q]
    BY <2>1, <1>1, <1>2 DEF RequireMatchingDiagnosisPage
  <2>3. target \in Subjects /\ p["order_id"] \in Subjects
    <3>1. d.entities.selected \in Selections
      BY DEF Decision, Merged
    <3>2. d.entities.selected["order_id"] \in Selection("order_id")
      BY <3>1, FieldsAre DEF Selections
    <3>3. target \in Named("order_id")
      BY <3>2 DEF Selection
    <3>4. p["order_id"] \in Named("order_id")
      BY <1>2, EntityOf, FieldsAre
    <3> QED BY <3>3, <3>4, FieldsAre
  <2>4. r \in Decision
    BY <2>1, <2>2, <2>3, FieldsAre DEF Decision
  <2>5. r.intent = d.intent /\ r.entities = d.entities /\ r.confirmed = d.confirmed /\ r.question = q
    BY <2>2 DEF Decision
  <2>6. Settled(r) /\ ~CanDispatch(r)
    BY <2>1, <2>5, SMTT(60) DEF Settled, CanDispatch
  <2> QED BY <2>4, <2>5, <2>6, <1>1
<1>3. CASE ~(CanDispatch(d) /\ d.intent = "ORDER_DIAGNOSIS" /\ p # None /\ target # p["order_id"])
  <2>1. r = d
    BY <1>1, <1>3 DEF RequireMatchingDiagnosisPage
  <2> QED BY <2>1, <1>1, <1>3, ZenonT(60)
<1> QED BY <1>2, <1>3

\* A choice adds what was missing and leaves the other fields.
LEMMA AppliedIs ==
    ASSUME NEW m \in Merged, m.unresolved = {}, NEW f \in Fields, NEW v \in Values[f]
    PROVE  LET a == ApplySelection(m, f, v) IN
           /\ a \in Merged /\ a.unresolved = {}
           /\ a.selected[f].value # None
           /\ \A g \in Fields : g # f => a.selected[g] = m.selected[g]
<1>x. PICK x : x = [value |-> v, source |-> User]
  OBVIOUS
<1>1. v \in Named(f) /\ v \in Subjects /\ v # None
  BY FieldsAre DEF Named
<1>2. x \in Selection(f) /\ x.value = v
  BY <1>1, <1>x DEF Selection, User
<1>s. PICK s : s = [m.selected EXCEPT ![f] = x]
  OBVIOUS
<1>3. m.selected \in Selections /\ m.offered \in [Fields -> SUBSET Subjects]
  BY DEF Merged
<1>4. /\ m.selected \in [Fields -> UNION {Selection(g) : g \in Fields}]
      /\ \A g \in Fields : m.selected[g] \in Selection(g)
  BY <1>3 DEF Selections
<1>5. s[f] = x /\ (\A g \in Fields : g # f => s[g] = m.selected[g])
  BY <1>4, <1>s
<1>6. s \in Selections
  <2>1. \A g \in Fields : s[g] \in Selection(g)
    BY <1>2, <1>4, <1>5
  <2>2. s \in [Fields -> UNION {Selection(g) : g \in Fields}]
    BY <2>1, <1>4, <1>s
  <2> QED BY <2>1, <2>2 DEF Selections
<1>o. PICK o : o = [m.offered EXCEPT ![f] = @ \cup {v}]
  OBVIOUS
<1>7. o \in [Fields -> SUBSET Subjects]
  BY <1>1, <1>3, <1>o
<1>8. ApplySelection(m, f, v) = [selected |-> s, unresolved |-> {}, offered |-> o]
  <2>1. m = [selected |-> m.selected, unresolved |-> {}, offered |-> m.offered]
    BY DEF Merged
  <2>2. ApplySelection(m, f, v) = [m EXCEPT !.selected = s, !.unresolved = @ \ {f}, !.offered = o]
    BY <1>o, <1>s, <1>x, <2>1 DEF ApplySelection
  <2> QED BY <2>1, <2>2
<1> QED BY <1>1, <1>2, <1>5, <1>6, <1>7, <1>8 DEF Merged

\* A confirmation or a choice resumes a decision, and furthers it.
LEMMA ConfirmedIs ==
    ASSUME NEW d \in Decision, Settled(d), d.question.reason = "CONFIRM_INTENT"
    PROVE  LET e == ConfirmRoutingIntent(d) IN e \in Decision /\ Settled(e) /\ Furthers(e, d)
<1>1. /\ d.intent \in Intents \cup {"UNKNOWN"} /\ d.level \in Levels \cup {"LOW"} /\ d.entities \in Merged
      /\ d.asks \in BOOLEAN /\ d.entities.unresolved = {}
  BY DEF Decision, Settled
<1>e. PICK e : e = ConfirmRoutingIntent(d)
  OBVIOUS
<1>y. PICK yes \in BOOLEAN : yes = TRUE
  OBVIOUS
<1>2. e = ComposeDecision(d.intent, d.level, d.entities, d.asks, yes)
  BY <1>e, <1>y, Zenon DEF ConfirmRoutingIntent
<1>3. e \in Decision /\ Settled(e) /\ e.entities = d.entities /\ e.confirmed = yes
  BY <1>1, <1>2, ComposedIs
<1>4. Furthers(e, d)
  <2>1. e.confirmed
    BY <1>3, <1>y
  <2>2. \A f \in Fields : e.entities.selected[f] = d.entities.selected[f]
    BY <1>3
  <2> QED BY <2>1, <2>2 DEF Furthers
<1> QED BY <1>3, <1>4, <1>e

LEMMA ChosenIs ==
    ASSUME NEW d \in Decision, Settled(d), NEW f \in Fields, NEW v \in Values[f], Selectable(d, f, v)
    PROVE  LET e == ResumeRoutingAfterSelection(d, f, v) IN e \in Decision /\ Settled(e) /\ Furthers(e, d)
<1>1. /\ d.intent \in Intents \cup {"UNKNOWN"} /\ d.level \in Levels \cup {"LOW"} /\ d.entities \in Merged
      /\ d.asks \in BOOLEAN /\ d.entities.unresolved = {} /\ d.confirmed \in BOOLEAN
  BY DEF Decision, Settled
<1>m. PICK m : m = ApplySelection(d.entities, f, v)
  OBVIOUS
<1>2. /\ m \in Merged /\ m.unresolved = {}
      /\ m.selected[f].value # None
      /\ \A g \in Fields : g # f => m.selected[g] = d.entities.selected[g]
  BY <1>1, <1>m, AppliedIs
<1>e. PICK e : e = ResumeRoutingAfterSelection(d, f, v)
  OBVIOUS
<1>3. e = ComposeDecision(d.intent, d.level, m, d.asks, d.confirmed)
  BY <1>e, <1>m DEF ResumeRoutingAfterSelection
<1>4. e \in Decision /\ Settled(e) /\ e.entities = m /\ e.confirmed = d.confirmed
  BY <1>1, <1>2, <1>3, ComposedIs
<1>5. d.question.reason = "MISSING_PARAMETER" /\ d.question.field = f
  BY DEF Selectable, Settled
<1>6. Furthers(e, d)
  BY <1>2, <1>4, <1>5 DEF Furthers
<1> QED BY <1>4, <1>6, <1>e

-----------------------------------------------------------------------------
(* The write of the context *)

\* The session stays in step, and only takes over what the user named.
LEMMA UpdatedIs ==
    ASSUME NEW c \in Context, InStep(c), NEW d \in Decision, Settled(d),
           d.question.reason # "PAGE_ORDER_MISMATCH"
    PROVE  LET e == Updated(c, d) IN
           /\ e \in Context /\ InStep(e)
           /\ \A f \in Fields : e.confirmed[f] # c.confirmed[f] =>
                 \/ d.entities.selected[f] = [value |-> e.confirmed[f], source |-> User]
                 \/ f = "task_id" /\ e.order # c.order
<1> DEFINE said == {f \in Fields : d.entities.selected[f].source = User}
           confirmed == [f \in Fields |-> IF f \in said THEN d.entities.selected[f].value ELSE c.confirmed[f]]
           candidates == [f \in Fields |-> IF f = d.question.field /\ d.question.options # {} THEN d.question.options
                                           ELSE IF f \in said THEN {} ELSE c.candidates[f]]
           order == confirmed["order_id"]
           switched == order # None /\ c.order # None /\ c.order # order
           kept == IF switched THEN [confirmed EXCEPT !["task_id"] = None] ELSE confirmed
           current == IF order # None THEN order ELSE c.order
           task == IF current = None THEN None ELSE IF kept["task_id"] # None THEN kept["task_id"] ELSE c.task
           offers == IF switched THEN [candidates EXCEPT !["task_id"] = {}] ELSE candidates
<1>e. PICK e : e = Updated(c, d)
  BY SMTT(60)
<1>0. e = [order |-> current, task |-> task, confirmed |-> kept, candidates |-> offers]
  BY <1>e DEF Updated
<1>t. /\ c.order \in Orders \cup {None} /\ c.task \in Tasks \cup {None}
      /\ \A f \in Fields : c.confirmed[f] \in Named(f) /\ c.candidates[f] = {}
  BY EntityOf DEF Context, InStep
<1>s. \A f \in Fields : d.entities.selected[f] \in Selection(f)
  <2>1. d.entities.selected \in Selections
    BY DEF Decision, Merged
  <2> QED BY <2>1 DEF Selections
<1>1. \A f \in Fields : confirmed[f] = IF f \in said THEN d.entities.selected[f].value ELSE c.confirmed[f]
  OBVIOUS
<1>2. \A f \in Fields : confirmed[f] \in Named(f)
  BY <1>1, <1>s, <1>t DEF Selection
<1>3. order \in Orders \cup {None}
  BY <1>2, FieldsAre
<1>4. \A f \in Fields : kept[f] = IF switched /\ f = "task_id" THEN None ELSE confirmed[f]
  BY FieldsAre
<1>5. kept = [f \in Fields |-> kept[f]]
  BY SMTT(60)
<1>6. /\ kept \in Entities
      /\ kept["order_id"] = order
      /\ kept["task_id"] \in Tasks \cup {None}
  <2>1. \A f \in Fields : kept[f] \in Named(f)
    BY <1>2, <1>4, FieldsAre, SMTT(60)
  <2>2. kept \in Entities
    BY <2>1, <1>5, EntityIs
  <2>3. kept["order_id"] = order
    BY <1>4, FieldsAre
  <2> QED BY <2>1, <2>2, <2>3, FieldsAre
<1>7. offers \in [Fields -> SUBSET Subjects] /\ \A f \in Fields : offers[f] = {}
  <2>1. d.question.options = {}
    BY DEF Settled
  <2>2. \A f \in Fields : candidates[f] = {}
    BY <2>1, <1>t
  <2>3. candidates \in [Fields -> SUBSET Subjects]
    BY <2>2
  <2> QED BY <2>2, <2>3, ZenonT(60)
<1>8. /\ current \in Orders \cup {None} /\ task \in Tasks \cup {None}
      /\ Agree(current, order) /\ Agree(task, kept["task_id"])
  BY <1>3, <1>6, <1>t, ZenonT(60) DEF Agree
<1>9. \A f \in Fields : f \in said =>
         d.entities.selected[f] = [value |-> confirmed[f], source |-> User]
  <2> SUFFICES ASSUME NEW f \in said PROVE d.entities.selected[f] = [value |-> confirmed[f], source |-> User]
    OBVIOUS
  <2>1. /\ d.entities.selected[f] \in Selection(f) /\ d.entities.selected[f].source = User
        /\ d.entities.selected[f].value = confirmed[f]
    BY <1>1, <1>s
  <2> QED BY <2>1 DEF Selection
<1>10. switched => current # c.order
  OBVIOUS
<1>11. \A f \in Fields : f \notin said => confirmed[f] = c.confirmed[f]
  BY <1>1
<1> HIDE DEF said, confirmed, kept, switched, order, current, task, offers
<1>12. e \in Context /\ InStep(e)
  <2>1. e \in Context
    BY <1>0, <1>6, <1>7, <1>8 DEF Context
  <2> QED BY <2>1, <1>0, <1>6, <1>7, <1>8 DEF InStep
<1>13. ASSUME NEW f \in Fields, e.confirmed[f] # c.confirmed[f]
       PROVE  \/ d.entities.selected[f] = [value |-> e.confirmed[f], source |-> User]
              \/ f = "task_id" /\ e.order # c.order
  <2>1. e.confirmed[f] = kept[f] /\ e.order = current
    BY <1>0
  <2>2. CASE switched /\ f = "task_id"
    BY <2>1, <2>2, <1>10
  <2>3. CASE ~(switched /\ f = "task_id")
    <3>1. kept[f] = confirmed[f]
      BY <2>3, <1>4
    <3>2. f \in said
      BY <3>1, <2>1, <1>11, <1>13
    <3> QED BY <3>1, <3>2, <2>1, <1>9
  <2> QED BY <2>2, <2>3
<1> QED BY <1>12, <1>13, <1>e

-----------------------------------------------------------------------------
(* Steps of a turn *)

\* What the other turns keep while a turn moves: nothing a decided turn
\* continues ever changes.
Moves(t) ==
    /\ \A w \in Turns \ {t} :
          /\ at'[w] = at[w] /\ page'[w] = page[w] /\ seen'[w] = seen[w]
          /\ answers'[w] = answers[w] /\ decision'[w] = decision[w]
    /\ at[t] # "answered"

\* A turn that moves leaves the other ones as they are.
LEMMA OthersStay ==
    ASSUME ConversationIInv, NEW t \in Turns, Moves(t), NEW w \in Turns, w # t
    PROVE  InStep(seen'[w]) /\ Settled(decision'[w]) /\ Placed(w)' /\ OnItsPage(w)'
<1>1. /\ at'[w] = at[w] /\ page'[w] = page[w] /\ seen'[w] = seen[w]
      /\ answers'[w] = answers[w] /\ decision'[w] = decision[w]
  BY DEF Moves
<1>2. InStep(seen[w]) /\ Settled(decision[w]) /\ Placed(w) /\ OnItsPage(w)
  BY DEF ConversationIInv
<1>3. ASSUME answers[w] \in Turns
      PROVE  at'[answers[w]] = "answered" /\ decision'[answers[w]] = decision[answers[w]]
  <2>1. at[answers[w]] = "answered"
    BY <1>2, <1>3 DEF Placed
  <2>2. answers[w] # t
    BY <2>1 DEF Moves
  <2> QED BY <2>1, <2>2, <1>3 DEF Moves
<1>4. Placed(w)'
  BY <1>1, <1>2, <1>3 DEF Placed
<1>5. OnItsPage(w)'
  BY <1>1, <1>2 DEF OnItsPage
<1> QED BY <1>1, <1>2, <1>4, <1>5

\* The invariant of the next state, from that of the turn that moved.
LEMMA TurnKept ==
    ASSUME ConversationIInv, NEW t \in Turns, Moves(t),
           TypeOK', InStep(context'), InStep(seen'[t]), Settled(decision'[t]), Placed(t)', OnItsPage(t)'
    PROVE  ConversationIInv'
<1>1. \A w \in Turns : InStep(seen'[w]) /\ Settled(decision'[w]) /\ Placed(w)' /\ OnItsPage(w)'
  BY OthersStay
<1> QED BY <1>1 DEF ConversationIInv

LEMMA TurnIs ==
    ASSUME ConversationIInv, NEW t \in Turns
    PROVE  /\ TypeOK /\ InStep(context) /\ context \in Context
           /\ InStep(seen[t]) /\ Settled(decision[t]) /\ Placed(t) /\ OnItsPage(t)
           /\ seen[t] \in Context /\ decision[t] \in Decision /\ page[t] \in Entities \cup {None}
           /\ answers[t] \in Turns \cup {0} /\ 0 \notin Turns
BY ConversationAssumption DEF ConversationIInv, TypeOK

\* A turn begins, with a message or with an answer.
LEMMA Begins ==
    ASSUME ConversationIInv, NEW t \in Turns, NEW p \in Pages \cup {None}, NEW u, NEW label,
           (label = "routing" /\ u = 0) \/ (label = "resuming" /\ u \in Turns /\ at[u] = "answered"),
           CreateRunningRun(t, p, u, label)
    PROVE  ConversationIInv'
<1>t. /\ TypeOK /\ InStep(context) /\ context \in Context
      /\ Settled(decision[t]) /\ Placed(t) /\ 0 \notin Turns /\ p \in Entities \cup {None}
  BY TurnIs, ConversationAssumption
<1>c. PICK c : c = IF p = None THEN context ELSE ContextFromPage(p, context)
  OBVIOUS
<1>1. c \in Context /\ InStep(c)
  BY <1>c, <1>t, ShownIs
<1>2. /\ at[t] = "idle" /\ context' = c
      /\ seen' = [seen EXCEPT ![t] = c] /\ page' = [page EXCEPT ![t] = p]
      /\ answers' = [answers EXCEPT ![t] = u] /\ at' = [at EXCEPT ![t] = label] /\ decision' = decision
  BY <1>c DEF CreateRunningRun, MayBegin, Go
<1>3. TypeOK'
  BY <1>1, <1>2, <1>t DEF TypeOK
<1>4. Moves(t)
  BY <1>2, <1>t DEF Moves, TypeOK
<1>5. at'[t] = label /\ answers'[t] = u /\ seen'[t] = c /\ decision'[t] = NoDecision
  BY <1>2, <1>t DEF TypeOK, Placed
<1>6. u \in Turns => at'[u] = "answered"
  BY <1>2, <1>4, <1>t DEF Moves
<1>7. Placed(t)'
  BY <1>5, <1>6, <1>t DEF Placed
<1>8. OnItsPage(t)'
  BY <1>5 DEF OnItsPage
<1> QED BY <1>1, <1>2, <1>3, <1>4, <1>5, <1>7, <1>8, NoDecisionIs, TurnKept

\* The older endpoint: nothing is decided.
LEMMA Diagnoses == ASSUME ConversationIInv, NEW t \in Turns, DiagnoseOrder(t) PROVE ConversationIInv'
<1>t. /\ TypeOK /\ InStep(context) /\ context \in Context
      /\ Settled(decision[t]) /\ Placed(t) /\ 0 \notin Turns /\ InStep(seen[t])
  BY TurnIs
<1>1. PICK p \in Pages \cup {None}, o \in Orders \cup {None} :
        /\ context' = IF p # None /\ o \in {None, p["order_id"]} THEN ContextFromPage(p, context) ELSE context
        /\ page' = [page EXCEPT ![t] = IF p = None THEN PageFromContext(context) ELSE p]
  BY DEF DiagnoseOrder
<1>2. p # None => p \in Entities
  BY ConversationAssumption
<1>3. context' \in Context /\ InStep(context')
  <2>1. CASE p # None /\ o \in {None, p["order_id"]}
    BY <2>1, <1>1, <1>2, <1>t, ShownIs
  <2>2. CASE ~(p # None /\ o \in {None, p["order_id"]})
    BY <2>2, <1>1, <1>t
  <2> QED BY <2>1, <2>2
<1>q. PICK q : q = IF p = None THEN PageFromContext(context) ELSE p
  OBVIOUS
<1>4. q \in Entities
  BY <1>q, <1>2, <1>t, RestoredPageIs
<1>5. /\ at[t] = "idle" /\ at' = [at EXCEPT ![t] = "dispatched"] /\ page' = [page EXCEPT ![t] = q]
      /\ seen' = seen /\ answers' = answers /\ decision' = decision
  BY <1>1, <1>q DEF DiagnoseOrder, MayBegin, Go
<1>6. TypeOK'
  BY <1>3, <1>4, <1>5, <1>t DEF TypeOK
<1>7. Moves(t)
  BY <1>5, <1>t DEF Moves, TypeOK
<1>8. at'[t] = "dispatched" /\ answers'[t] = 0 /\ seen'[t] = seen[t] /\ decision'[t] = NoDecision
  BY <1>5, <1>t DEF TypeOK, Placed
<1>9. Placed(t)'
  BY <1>8, <1>t DEF Placed
<1>10. OnItsPage(t)'
  BY <1>8, NoDecisionIs DEF OnItsPage
<1> QED BY <1>3, <1>6, <1>7, <1>8, <1>9, <1>10, <1>t, NoDecisionIs, TurnKept

\* A turn comes to a decision r, which the page check turns into its own.
LEMMA Decides ==
    ASSUME ConversationIInv, NEW t \in Turns, at[t] \in {"routing", "resuming"},
           NEW r \in Decision, Settled(r),
           answers[t] \in Turns => Furthers(r, decision[answers[t]]),
           decision' = [decision EXCEPT ![t] = RequireMatchingDiagnosisPage(r, page[t])],
           seen' = [seen EXCEPT ![t] = EmptyContext], Go(t, "decided"), UNCHANGED <<context, page, answers>>
    PROVE  ConversationIInv'
<1>t. /\ TypeOK /\ InStep(context) /\ page[t] \in Entities \cup {None} /\ Placed(t)
  BY TurnIs
<1>e. PICK e : e = RequireMatchingDiagnosisPage(r, page[t])
  OBVIOUS
<1>1. /\ e \in Decision /\ Settled(e) /\ e.entities = r.entities /\ e.confirmed = r.confirmed
      /\ CanDispatch(e) /\ e.intent = "ORDER_DIAGNOSIS" /\ page[t] # None
           => e.entities.selected["order_id"].value = page[t]["order_id"]
  BY <1>e, <1>t, RequiredIs
<1>2. /\ decision' = [decision EXCEPT ![t] = e] /\ at' = [at EXCEPT ![t] = "decided"]
      /\ context' = context /\ page' = page /\ answers' = answers
  BY <1>e DEF Go
<1>3. TypeOK'
  BY <1>1, <1>2, <1>t, EmptyIs DEF TypeOK
<1>4. Moves(t)
  BY <1>2, <1>t DEF Moves, TypeOK
<1>5. /\ at'[t] = "decided" /\ answers'[t] = answers[t] /\ page'[t] = page[t]
      /\ seen'[t] = EmptyContext /\ decision'[t] = e
  BY <1>2, <1>t DEF TypeOK
<1>6. Placed(t)'
  <2>1. ASSUME answers[t] \in Turns
        PROVE  at'[answers[t]] = "answered" /\ Furthers(e, decision'[answers[t]])
    <3>1. at[answers[t]] = "answered"
      BY <2>1, <1>t DEF Placed
    <3>2. answers[t] # t
      BY <3>1
    <3>3. at'[answers[t]] = "answered" /\ decision'[answers[t]] = decision[answers[t]]
      BY <2>1, <3>1, <3>2, <1>4 DEF Moves
    <3> QED BY <2>1, <3>3, <1>1 DEF Furthers
  <2> QED BY <2>1, <1>5 DEF Placed
<1>7. OnItsPage(t)'
  BY <1>1, <1>5 DEF OnItsPage
<1> QED BY <1>1, <1>2, <1>3, <1>4, <1>5, <1>6, <1>7, <1>t, EmptyIs, TurnKept

LEMMA Routes == ASSUME ConversationIInv, NEW t \in Turns, Route(t) PROVE ConversationIInv'
<1>t. /\ InStep(seen[t]) /\ Placed(t) /\ seen[t] \in Context /\ page[t] \in Entities \cup {None} /\ 0 \notin Turns
  BY TurnIs
<1>1. PICK w \in Words, i \in Intents, l \in Levels, asks \in BOOLEAN :
        decision' = [decision EXCEPT ![t] = RequireMatchingDiagnosisPage(
            ComposeDecision(i, l, MergeRoutingEntities(w, seen[t], page[t]), asks, FALSE), page[t])]
  BY DEF Route
<1>m. PICK m : m = MergeRoutingEntities(w, seen[t], page[t])
  OBVIOUS
<1>2. m \in Merged /\ m.unresolved = {}
  <2>1. w \in Entities
    BY ConversationAssumption
  <2> QED BY <2>1, <1>m, <1>t, MergedIs
<1>n. PICK no \in BOOLEAN : no = FALSE
  OBVIOUS
<1>r. PICK r : r = ComposeDecision(i, l, m, asks, no)
  OBVIOUS
<1>3. r \in Decision /\ Settled(r)
  <2>1. i \in Intents \cup {"UNKNOWN"} /\ l \in Levels \cup {"LOW"}
    OBVIOUS
  <2> QED BY <2>1, <1>2, <1>r, ComposedIs
<1>4. decision' = [decision EXCEPT ![t] = RequireMatchingDiagnosisPage(r, page[t])]
  BY <1>1, <1>m, <1>n, <1>r, Zenon
<1>5. /\ at[t] = "routing" /\ seen' = [seen EXCEPT ![t] = EmptyContext] /\ Go(t, "decided")
      /\ UNCHANGED <<context, page, answers>>
  BY DEF Route
<1>6. answers[t] \notin Turns
  BY <1>5, <1>t DEF Placed
<1> QED BY <1>3, <1>4, <1>5, <1>6, Decides

\* A clarification furthers the decision it answers.
LEMMA Resumes == ASSUME ConversationIInv, NEW t \in Turns, Resume(t) PROVE ConversationIInv'
<1>1. /\ at[t] = "resuming" /\ seen' = [seen EXCEPT ![t] = EmptyContext] /\ Go(t, "decided")
      /\ UNCHANGED <<context, page, answers>>
  BY DEF Resume
<1>u. PICK u : u = answers[t]
  OBVIOUS
<1>2. u \in Turns
  BY <1>1, <1>u, TurnIs DEF Placed
<1>d. PICK d : d = decision[u]
  OBVIOUS
<1>3. d \in Decision /\ Settled(d)
  BY <1>2, <1>d, TurnIs
<1>4. CASE /\ d.question.reason = "CONFIRM_INTENT"
           /\ decision' = [decision EXCEPT ![t] = RequireMatchingDiagnosisPage(ConfirmRoutingIntent(d), page[t])]
  <2>1. PICK r : r = ConfirmRoutingIntent(d)
    OBVIOUS
  <2>2. r \in Decision /\ Settled(r) /\ Furthers(r, d)
    BY <1>3, <1>4, <2>1, ConfirmedIs
  <2>3. decision' = [decision EXCEPT ![t] = RequireMatchingDiagnosisPage(r, page[t])]
    BY <1>4, <2>1
  <2> QED BY <2>2, <2>3, <1>1, <1>d, <1>u, Decides
<1>5. ASSUME NEW f \in Fields, NEW v \in Values[f], Selectable(d, f, v),
             decision' = [decision EXCEPT
                            ![t] = RequireMatchingDiagnosisPage(ResumeRoutingAfterSelection(d, f, v), page[t])]
      PROVE  ConversationIInv'
  <2>1. PICK r : r = ResumeRoutingAfterSelection(d, f, v)
    OBVIOUS
  <2>2. r \in Decision /\ Settled(r) /\ Furthers(r, d)
    BY <1>3, <1>5, <2>1, ChosenIs
  <2>3. decision' = [decision EXCEPT ![t] = RequireMatchingDiagnosisPage(r, page[t])]
    BY <1>5, <2>1
  <2> QED BY <2>2, <2>3, <1>1, <1>d, <1>u, Decides
<1> QED BY <1>4, <1>5, <1>d, <1>u DEF Resume

\* The context is written, from the decision as it is.
LEMMA Updates == ASSUME ConversationIInv, NEW t \in Turns, UpdateSessionContext(t) PROVE ConversationIInv'
<1>t. /\ TypeOK /\ InStep(context) /\ context \in Context /\ InStep(seen[t])
      /\ Settled(decision[t]) /\ decision[t] \in Decision /\ Placed(t) /\ OnItsPage(t)
  BY TurnIs
<1>l. PICK label : label = IF CanDispatch(decision[t]) THEN "dispatched" ELSE "answered"
  OBVIOUS
<1>1. /\ at[t] = "decided" /\ at' = [at EXCEPT ![t] = label]
      /\ page' = page /\ seen' = seen /\ answers' = answers /\ decision' = decision
      /\ context' = IF decision[t].question.reason = "PAGE_ORDER_MISMATCH" THEN context
                    ELSE Updated(context, decision[t])
  BY <1>l DEF UpdateSessionContext, Go
<1>2. context' \in Context /\ InStep(context')
  BY <1>1, <1>t, UpdatedIs
<1>3. label \in {"dispatched", "answered"} /\ (label = "dispatched" => CanDispatch(decision[t]))
  BY <1>l
<1>4. TypeOK'
  BY <1>1, <1>2, <1>3, <1>t DEF TypeOK, Ended
<1>5. Moves(t)
  BY <1>1, <1>t DEF Moves, TypeOK
<1>6. at'[t] = label
  BY <1>1, <1>t DEF TypeOK
<1>7. Placed(t)'
  <2>1. ASSUME answers[t] \in Turns PROVE at'[answers[t]] = "answered"
    <3>1. at[answers[t]] = "answered"
      BY <2>1, <1>t DEF Placed
    <3> QED BY <2>1, <3>1, <1>1, <1>5 DEF Moves
  <2> QED BY <2>1, <1>1, <1>3, <1>6, <1>t DEF Placed
<1>8. OnItsPage(t)'
  BY <1>1, <1>3, <1>6, <1>t DEF OnItsPage, CanDispatch
<1> QED BY <1>1, <1>2, <1>4, <1>5, <1>7, <1>8, <1>t, TurnKept

\* A turn ends and forgets its page and its decision.
LEMMA Ends ==
    ASSUME ConversationIInv, NEW t \in Turns, Conclude(t) \/ Fail(t)
    PROVE  ConversationIInv'
<1>t. TypeOK /\ InStep(context) /\ InStep(seen[t]) /\ Placed(t)
  BY TurnIs
<1>1. PICK label \in {"done", "failed"} : at' = [at EXCEPT ![t] = label]
  BY DEF Conclude, Fail, Go
<1>2. /\ at[t] \in {"routing", "resuming", "decided", "dispatched"}
      /\ page' = [page EXCEPT ![t] = None] /\ decision' = [decision EXCEPT ![t] = NoDecision]
      /\ seen' = seen \/ seen' = [seen EXCEPT ![t] = EmptyContext]
      /\ context' = context /\ answers' = answers
  BY DEF Conclude, Fail
<1>3. TypeOK'
  <2>1. at' \in [Turns -> Ended \cup {"idle", "routing", "resuming", "decided", "dispatched"}]
    BY <1>1, <1>t DEF TypeOK, Ended
  <2>2. seen' \in [Turns -> Context]
    BY <1>2, <1>t, EmptyIs DEF TypeOK
  <2>3. page' \in [Turns -> Entities \cup {None}]
    BY <1>2, <1>t DEF TypeOK
  <2>4. decision' \in [Turns -> Decision]
    BY <1>2, <1>t, NoDecisionIs DEF TypeOK
  <2> QED BY <2>1, <2>2, <2>3, <2>4, <1>2, <1>t DEF TypeOK
<1>4. Moves(t)
  BY <1>1, <1>2, <1>t DEF Moves, TypeOK
<1>5. at'[t] = label /\ decision'[t] = NoDecision /\ InStep(seen'[t])
  BY <1>1, <1>2, <1>t, EmptyIs DEF TypeOK
<1>6. Placed(t)'
  <2>1. ASSUME answers[t] \in Turns PROVE at'[answers[t]] = "answered"
    <3>1. at[answers[t]] = "answered"
      BY <2>1, <1>t DEF Placed
    <3> QED BY <2>1, <3>1, <1>4 DEF Moves
  <2> QED BY <2>1, <1>2, <1>5 DEF Placed
<1>7. OnItsPage(t)'
  BY <1>5 DEF OnItsPage
<1> QED BY <1>2, <1>3, <1>4, <1>5, <1>6, <1>7, <1>t, NoDecisionIs, TurnKept

-----------------------------------------------------------------------------
(* The invariant *)

LEMMA InitKept == Init => ConversationIInv
<1> SUFFICES ASSUME Init PROVE ConversationIInv
  OBVIOUS
<1>1. /\ TypeOK /\ InStep(context)
      /\ \A t \in Turns : InStep(seen[t]) /\ Settled(decision[t])
  BY EmptyIs, NoDecisionIs DEF Init, TypeOK
<1>2. \A t \in Turns : Placed(t)
  BY ConversationAssumption DEF Init, Placed
<1>3. \A t \in Turns : OnItsPage(t)
  BY DEF Init, OnItsPage
<1> QED BY <1>1, <1>2, <1>3 DEF ConversationIInv

LEMMA StepKept == ASSUME ConversationIInv, [Next]_vars PROVE ConversationIInv'
<1>1. ASSUME NEW t \in Turns, Message(t) PROVE ConversationIInv'
  BY <1>1, Begins DEF Message
<1>2. ASSUME NEW t \in Turns, Continue(t) PROVE ConversationIInv'
  BY <1>2, Begins DEF Continue
<1>3. CASE UNCHANGED vars
  BY <1>3 DEF vars, ConversationIInv, TypeOK, Placed, OnItsPage
<1> QED BY <1>1, <1>2, <1>3, Diagnoses, Routes, Resumes, Updates, Ends DEF Next

\* The session and its turns stay as their decisions and dialogues call for.
THEOREM ConversationInvariant == Spec => []ConversationIInv
<1>1. Init => ConversationIInv
  BY InitKept
<1>2. ConversationIInv /\ [Next]_vars => ConversationIInv'
  BY StepKept
<1> QED BY <1>1, <1>2, PTL DEF Spec

\* Every variable keeps its type.
THEOREM ConversationTypes == Spec => []TypeOK
<1>1. ConversationIInv => TypeOK
  BY DEF ConversationIInv
<1> QED BY <1>1, ConversationInvariant, PTL

\* However turns interleave, no turn has to ask which of several values of equal
\* rank is meant.
THEOREM ConversationUnambiguous == Spec => []NeverAmbiguous
<1>1. ConversationIInv => NeverAmbiguous
  BY DEF ConversationIInv, Settled, InStep, NeverAmbiguous
<1> QED BY <1>1, ConversationInvariant, PTL

\* A diagnosis is dispatched only for the order of the turn's own page.
THEOREM ConversationDiagnoses == Spec => []DiagnosisOnItsPage
<1>1. ConversationIInv => DiagnosisOnItsPage
  BY DEF ConversationIInv, OnItsPage, DiagnosisOnItsPage
<1> QED BY <1>1, ConversationInvariant, PTL

\* A set of numbers has a least one.
LEMMA NatMin ==
  ASSUME NEW S \in SUBSET Nat, S # {}
  PROVE  \E m \in S : \A k \in S : m <= k
<1>1. IsWellFoundedOn(OpToRel(<,Nat), Nat)
  BY NatLessThanWellFounded
<1>2. \E m \in S : \A k \in S : ~ (<<k, m>> \in OpToRel(<,Nat))
  BY <1>1, WFMin
<1>3. ASSUME NEW m \in S, NEW k \in S, ~ (<<k, m>> \in OpToRel(<,Nat))
      PROVE  m <= k
  BY <1>3 DEF OpToRel
<1> QED BY <1>2, <1>3

\* What a decision has, the ones down the chain have too.
LEMMA FurthersOn ==
    ASSUME NEW c, NEW d, NEW e, Furthers(e, d), Furthers(d, c)
    PROVE  Furthers(e, c)
BY DEF Furthers

LEMMA ChainFurthers ==
    ASSUME ConversationIInv, NEW n \in Nat, NEW p \in [0..n -> Turns], Chain(p, n),
           at[p[0]] \in {"decided", "answered"}
    PROVE  \A k \in 1..n : Furthers(decision[p[0]], decision[p[k]]) /\ at[p[k]] = "answered"
<1> DEFINE Holds(k) == Furthers(decision[p[0]], decision[p[k]]) /\ at[p[k]] = "answered"
           Bad == {k \in 1..n : ~Holds(k)}
<1> SUFFICES ASSUME Bad # {} PROVE FALSE
  OBVIOUS
<1>1. Bad \in SUBSET Nat
  OBVIOUS
<1>2. PICK m \in Bad : \A k \in Bad : m <= k
  BY <1>1, NatMin
<1>3. m \in 1..n /\ m - 1 \in 0..n /\ ~Holds(m) /\ (m = 1 \/ m - 1 \in 1..n)
  BY <1>2
<1>4. p[m] \in Turns /\ p[m - 1] \in Turns /\ answers[p[m - 1]] = p[m]
  BY <1>3 DEF Chain
<1>5. m - 1 \in 1..n => Holds(m - 1)
  BY <1>1, <1>2
<1> HIDE DEF Bad
<1>6. at[p[m - 1]] \in {"decided", "answered"}
  BY <1>3, <1>5
<1>7. at[p[m]] = "answered" /\ Furthers(decision[p[m - 1]], decision[p[m]])
  BY <1>4, <1>6 DEF ConversationIInv, Placed
<1>8. Holds(m)
  BY <1>3, <1>5, <1>7, FurthersOn
<1> QED BY <1>3, <1>8

\* A question is not asked again by any turn that follows it, however long the
\* chain of continuations.
THEOREM ConversationProgresses == Spec => []NoQuestionTwice
<1>1. ConversationIInv => NoQuestionTwice
  <2> SUFFICES ASSUME ConversationIInv, NEW n \in 1..(Cardinality(Turns) - 1), NEW p \in [0..n -> Turns],
                      Chain(p, n), at[p[0]] \in {"decided", "answered"},
                      decision[p[n]].question.reason \in {"ENTITY_CONFLICT", "MISSING_PARAMETER", "CONFIRM_INTENT"},
                      decision[p[0]].question.reason = decision[p[n]].question.reason,
                      decision[p[0]].question.field = decision[p[n]].question.field
               PROVE  FALSE
    BY DEF NoQuestionTwice, Asked
  <2>0. n \in Nat \ {0}
    <3>1. Cardinality(Turns) \in Nat
      BY ConversationAssumption, FS_CardinalityType
    <3> QED BY <3>1
  <2>t. PICK t \in Turns : t = p[0]
    BY <2>0
  <2>v. PICK v \in Turns : v = p[n]
    BY <2>0
  <2>1. Furthers(decision[t], decision[v])
    BY <2>0, <2>t, <2>v, ChainFurthers
  <2>2. /\ decision[v].question.reason \in {"ENTITY_CONFLICT", "MISSING_PARAMETER", "CONFIRM_INTENT"}
        /\ decision[t].question.reason = decision[v].question.reason
        /\ decision[t].question.field = decision[v].question.field
    BY <2>t, <2>v
  <2>3. Settled(decision[t]) /\ Settled(decision[v])
    BY DEF ConversationIInv
  <2>4. CASE decision[v].question.reason = "CONFIRM_INTENT"
    <3>1. decision[t].confirmed
      BY <2>1, <2>4 DEF Furthers
    <3> QED BY <3>1, <2>2, <2>3, <2>4 DEF Settled
  <2>5. CASE decision[v].question.reason = "MISSING_PARAMETER"
    <3>1. decision[v].question.field \in Fields
      BY <2>3, <2>5 DEF Settled
    <3>2. decision[t].entities.selected[decision[v].question.field].value # None
      BY <3>1, <2>1, <2>5 DEF Furthers
    <3> QED BY <3>2, <2>2, <2>3, <2>5 DEF Settled
  <2> QED BY <2>2, <2>3, <2>4, <2>5 DEF Settled
<1> QED BY <1>1, ConversationInvariant, PTL

\* A turn that writes the context changes only what its own user named, or the
\* task that went with the order.
THEOREM ConversationOwnsEntities == Spec => OnlyOwnEntities
<1> DEFINE Own ==
      \A t \in Turns : at[t] = "decided" /\ at'[t] \in {"dispatched", "answered"} =>
        \A f \in Fields : context'.confirmed[f] # context.confirmed[f] =>
            \/ decision[t].entities.selected[f] = [value |-> context'.confirmed[f], source |-> User]
            \/ f = "task_id" /\ context'.order # context.order
<1>1. ConversationIInv /\ [Next]_vars => [Own]_vars
  <2> SUFFICES ASSUME ConversationIInv, [Next]_vars, NEW t \in Turns,
                      at[t] = "decided", at'[t] \in {"dispatched", "answered"},
                      NEW f \in Fields, context'.confirmed[f] # context.confirmed[f]
               PROVE  \/ decision[t].entities.selected[f] = [value |-> context'.confirmed[f], source |-> User]
                      \/ f = "task_id" /\ context'.order # context.order
    OBVIOUS
  <2>1. UpdateSessionContext(t)
    <3>0. TypeOK
      BY DEF ConversationIInv
    <3>1. at' # at
      OBVIOUS
    <3>2. ASSUME NEW w \in Turns, NEW label, at' = [at EXCEPT ![w] = label], at[w] # "decided"
          PROVE  FALSE
      BY <3>0, <3>2 DEF TypeOK
    <3>3. ASSUME NEW w \in Turns, w # t, NEW label, at' = [at EXCEPT ![w] = label]
          PROVE  FALSE
      BY <3>0, <3>3 DEF TypeOK
    <3>4. ASSUME NEW label \in {"done", "failed"}, at' = [at EXCEPT ![t] = label]
          PROVE  FALSE
      BY <3>0, <3>4 DEF TypeOK
    <3>5. PICK w \in Turns :
            \/ Message(w) \/ Continue(w) \/ DiagnoseOrder(w)
            \/ Route(w) \/ Resume(w) \/ UpdateSessionContext(w) \/ Conclude(w) \/ Fail(w)
      BY <3>1 DEF Next, vars
    <3>6. ~(Message(w) \/ Continue(w) \/ DiagnoseOrder(w) \/ Route(w) \/ Resume(w) \/ Conclude(w))
      BY <3>2 DEF Message, Continue, CreateRunningRun, DiagnoseOrder, MayBegin, Route, Resume, Conclude, Go
    <3>7. w = t
      BY <3>3, <3>5, <3>6 DEF UpdateSessionContext, Fail, Go
    <3>8. ~Fail(w)
      BY <3>4, <3>7 DEF Fail, Go
    <3> QED BY <3>5, <3>6, <3>7, <3>8
  <2>2. /\ decision[t] \in Decision /\ Settled(decision[t]) /\ context \in Context /\ InStep(context)
        /\ context' = IF decision[t].question.reason = "PAGE_ORDER_MISMATCH" THEN context
                      ELSE Updated(context, decision[t])
    BY <2>1, TurnIs DEF UpdateSessionContext
  <2> QED BY <2>2, UpdatedIs
<1> QED BY <1>1, ConversationInvariant, PTL DEF Spec, OnlyOwnEntities
=============================================================================
