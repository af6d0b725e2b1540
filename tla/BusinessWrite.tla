--------------------------- MODULE BusinessWrite ---------------------------
(* BusinessWriteService.submitReview and createRework, statement by         *)
(* statement.  Each handler runs one transaction at a time under READ       *)
(* COMMITTED: a statement sees what has been committed when it runs, an      *)
(* INSERT waits for an uncommitted row with its key, an UPDATE for an        *)
(* uncommitted version of its row, and a rollback releases both.             *)
EXTENDS BusinessFacts

VARIABLES
    version, effects, idem, serial, call, reply,    \* as in BusinessStore
    pc,           \* handler -> the statement it runs next
    reserved,     \* key -> the handlers holding its uncommitted insert
    locked,       \* task -> the handlers holding its uncommitted version bump
    counted       \* handler -> the review rows counted for its operation log

storeVars == <<version, effects, idem, serial, call, reply>>
vars == <<version, effects, idem, serial, call, reply, pc, reserved, locked, counted>>

Store == INSTANCE BusinessStore

Init ==
    /\ version = [t \in Tasks |-> 0]
    /\ effects = {}
    /\ idem = {}
    /\ serial = 0
    /\ call = [c \in Conns |-> CHOOSE k \in Calls : TRUE]
    /\ reply = [c \in Conns |-> Refused("LOST")]
    /\ pc = [c \in Conns |-> "idle"]
    /\ reserved = [k \in Keys |-> {}]
    /\ locked = [t \in Tasks |-> {}]
    /\ counted = [c \in Conns |-> {}]

KeyOf(c) == call[c].key
ReqOf(c) == call[c].req

MutFinishHoldsKey(c, answer) ==
    /\ reply' = [reply EXCEPT ![c] = answer]
    /\ pc' = [pc EXCEPT ![c] = "idle"]
    /\ locked' = [locked EXCEPT ![ReqOf(c).task] = @ \ {c}]
    /\ counted' = [counted EXCEPT ![c] = {}]
    /\ UNCHANGED <<call, reserved>>

\* The transaction of c ends: its locks are released and the caller answered.
Finish(c, answer) ==
    /\ reply' = [reply EXCEPT ![c] = answer]
    /\ pc' = [pc EXCEPT ![c] = "idle"]
    /\ reserved' = [reserved EXCEPT ![KeyOf(c)] = @ \ {c}]
    /\ locked' = [locked EXCEPT ![ReqOf(c).task] = @ \ {c}]
    /\ counted' = [counted EXCEPT ![c] = {}]
    /\ UNCHANGED call

\* An exception leaves the @Transactional method: everything is rolled back.
Rollback(c, answer) ==
    /\ Finish(c, answer)
    /\ UNCHANGED <<version, effects, idem, serial>>

GoTo(c, label) ==
    /\ pc' = [pc EXCEPT ![c] = label]
    /\ UNCHANGED <<version, effects, idem, serial, call, reply, locked>>

\* validateActor runs before any statement.
Receive(c, k) ==
    /\ pc[c] = "idle"
    /\ call' = [call EXCEPT ![c] = k]
    /\ reply' = [reply EXCEPT ![c] = Pending]
    /\ pc' = [pc EXCEPT ![c] = "validate"]
    /\ UNCHANGED <<version, effects, idem, serial, reserved, locked, counted>>

ValidateActor(c) ==
    /\ pc[c] = "validate"
    /\ IF ReqOf(c).actor \in Reviewers
       THEN GoTo(c, "reserve") /\ UNCHANGED <<reserved, counted>>
       ELSE Rollback(c, Refused("FORBIDDEN"))

\* INSERT ... ON CONFLICT DO NOTHING waits while another open transaction has
\* inserted the key.
MutKeyNotWaitedFor(c) == TRUE
KeyFree(c) == reserved[KeyOf(c)] = {}

\* The stored operation, request hash and actor are those of this request.
MutSameTask(r, c) == r.req.task = ReqOf(c).task
SameRequest(r, c) == r.req = ReqOf(c)

\* reserveOrLoad: insert the key, or find its committed record and replay it
\* (replayReview, replayRework) or refuse the key's use for another request.
ReserveOrLoad(c) ==
    LET rows == {r \in idem : r.key = KeyOf(c)} IN
    /\ pc[c] = "reserve"
    /\ KeyFree(c)
    /\ \/ /\ rows = {}
          /\ GoTo(c, "task")
          /\ reserved' = [reserved EXCEPT ![KeyOf(c)] = {c}]
          /\ UNCHANGED counted
       \/ \E r \in rows :
            /\ ~SameRequest(r, c)
            /\ Rollback(c, Refused("CONFLICT"))
       \/ \E r \in rows :
            /\ SameRequest(r, c)
            /\ Rollback(c, IF \E e \in effects : e.id = r.id
                           THEN Accepted(r.id, r.after)
                           ELSE Refused("CONFLICT"))

\* requireTask, validateExpectedVersion, validateCompletedTask on one read.
LoadTask(c) ==
    /\ pc[c] = "task"
    /\ IF TaskOk(ReqOf(c), version[ReqOf(c).task])
       THEN GoTo(c, "issue") /\ UNCHANGED <<reserved, counted>>
       ELSE Rollback(c, TaskRefusal(ReqOf(c)))

\* requireIssueForTask and the state check of the operation.
LoadIssue(c) ==
    /\ pc[c] = "issue"
    /\ IF IssueOk(ReqOf(c))
       THEN GoTo(c, "related") /\ UNCHANGED <<reserved, counted>>
       ELSE Rollback(c, IssueRefusal(ReqOf(c)))

\* The read of related rows: a review counts the reviews of the task, a rework
\* looks for an active rework of the issue.
LoadRelated(c) ==
    /\ pc[c] = "related"
    /\ IF ReqOf(c).op = "CREATE_REWORK"
          /\ ActiveRework(effects, ReqOf(c).task, ReqOf(c).issue)
       THEN Rollback(c, Refused("CONFLICT"))
       ELSE /\ GoTo(c, "update")
            /\ counted' = [counted EXCEPT ![c] = CountedRows(effects, ReqOf(c))]
            /\ UNCHANGED reserved

\* WHERE task_id = :taskId AND version = :expectedVersion
MutVersionUnchecked(c) == TRUE
VersionMatches(c) == version[ReqOf(c).task] = ReqOf(c).expected

\* incrementVersion: UPDATE ... SET version = version + 1.  It waits for
\* the row and evaluates the condition on what was committed meanwhile.
IncrementVersion(c) ==
    LET task == ReqOf(c).task IN
    /\ pc[c] = "update"
    /\ locked[task] = {}
    /\ IF VersionMatches(c)
       THEN /\ pc' = [pc EXCEPT ![c] = "commit"]
            /\ locked' = [locked EXCEPT ![task] = {c}]
            /\ UNCHANGED <<version, effects, idem, serial, call, reply, reserved, counted>>
       ELSE Rollback(c, Refused("CONFLICT"))

\* IdempotencyRecord.complete(resourceId, taskVersionAfter).
Completed(c) ==
    [key |-> KeyOf(c), req |-> ReqOf(c), id |-> serial + 1,
     after |-> version[ReqOf(c).task] + 1]

\* The row, the bumped version, the completed idempotency record and the
\* operation log become visible together.  The response that follows may be
\* lost on its way, which the caller cannot tell from a rollback.
Commit(c) ==
    LET req == ReqOf(c) IN
    /\ pc[c] = "commit"
    /\ version' = [version EXCEPT ![req.task] = @ + 1]
    /\ effects' = effects \cup
          {[id |-> serial + 1, key |-> KeyOf(c), req |-> req, before |-> req.expected,
            counted |-> counted[c]]}
    /\ idem' = idem \cup {Completed(c)}
    /\ serial' = serial + 1
    /\ \E answer \in {Accepted(serial + 1, version[req.task] + 1), Refused("LOST")} :
          Finish(c, answer)

\* A failed connection or a stopped process rolls the transaction back.
Fail(c) ==
    /\ pc[c] # "idle"
    /\ Rollback(c, Refused("LOST"))

Step(c) ==
    \/ ValidateActor(c)
    \/ ReserveOrLoad(c)
    \/ LoadTask(c)
    \/ LoadIssue(c)
    \/ LoadRelated(c)
    \/ IncrementVersion(c)
    \/ Commit(c)

Next ==
    \E c \in Conns :
        \/ \E k \in Calls : Receive(c, k)
        \/ Step(c)
        \/ Fail(c)

Spec == Init /\ [][Next]_vars

\* A handler runs until it waits, and PostgreSQL grants the locks it waits for
\* in the order of arrival, so a wait that keeps ending is not passed over.
Fairness == \A c \in Conns : SF_vars(Step(c))

FairSpec == Spec /\ Fairness

-----------------------------------------------------------------------------
TypeOK ==
    /\ version \in [Tasks -> Nat]
    /\ effects \subseteq Effect
    /\ idem \subseteq IdemRecord
    /\ serial \in Nat
    /\ call \in [Conns -> Calls]
    /\ reply \in [Conns -> Reply]
    /\ pc \in [Conns -> {"idle", "validate", "reserve", "task", "issue",
                         "related", "update", "commit"}]
    /\ reserved \in [Keys -> SUBSET Conns]
    /\ locked \in [Tasks -> SUBSET Conns]
    /\ counted \in [Conns -> SUBSET Nat]

\* The writes to a task form a chain: each committed write replaced its own
\* version, and every version below the current one was replaced by a write.
\* Two interleaved transactions never both succeed against the same version.
VersionChain ==
    /\ \A e, f \in effects :
          e.req.task = f.req.task /\ e.before = f.before => e = f
    /\ \A e \in effects : e.before < version[e.req.task]
    /\ \A t \in Tasks : \A v \in 0 .. version[t] - 1 :
          \E e \in effects : e.req.task = t /\ e.before = v

\* An idempotency key takes effect at most once, for one request, however the
\* calls that carry it overlap, are retried or are reused.
OneEffectPerKey ==
    \A e, f \in effects : e.key = f.key => e = f

\* createRework looks for an active rework with an unlocked read before it
\* writes; still no issue ever gets a second active rework.
OneActiveRework ==
    \A e \in effects : e.req.op = "CREATE_REWORK" =>
        /\ \A f \in effects : f.req.op = "CREATE_REWORK" /\ f.req.issue = e.req.issue
                                => e = f
        /\ e.req.issue \notin SeedRework

\* The reviewCount in the operation log of a review, read before the version
\* was taken, is exact: the reviews of all earlier versions and no other.
ReviewCountExact ==
    \A e \in effects : e.req.op = "SUBMIT_REVIEW" =>
        e.counted = ReviewRows({f \in effects : f.before < e.before}, e.req.task)

\* A success, first or replayed, names a row that was committed for exactly the
\* request and key of this call, and the version that row produced.
SuccessIsCommitted ==
    \A c \in Conns : reply[c].outcome = "OK" =>
        \E e \in effects : /\ e.id = reply[c].id
                           /\ e.key = KeyOf(c)
                           /\ e.req = ReqOf(c)
                           /\ reply[c].after = e.before + 1

-----------------------------------------------------------------------------
\* The inductive invariant: the properties above with what makes them hold.

InTx == {"task", "issue", "related", "update", "commit"}

\* Who holds what: a key is held by the one open transaction that inserted it,
\* a task row by the one that bumped it and has yet to commit.
LockDiscipline ==
    /\ \A c \in Conns : pc[c] = "idle" <=> reply[c].outcome # "PENDING"
    /\ \A k \in Keys : \A c \in reserved[k] : pc[c] \in InTx /\ KeyOf(c) = k
    /\ \A c \in Conns : pc[c] \in InTx => reserved[KeyOf(c)] = {c}
    /\ \A t \in Tasks : \A c \in locked[t] : pc[c] = "commit" /\ ReqOf(c).task = t
    /\ \A c \in Conns : pc[c] = "commit" => /\ locked[ReqOf(c).task] = {c}
                                            /\ version[ReqOf(c).task] = ReqOf(c).expected

\* What a transaction has read still holds when it is used: the key is unused,
\* and as long as the version is the expected one, so are the related rows.
ReadsStillValid ==
    \A c \in Conns :
        /\ pc[c] \in InTx \cup {"reserve"} => ReqOf(c).actor \in Reviewers
        /\ pc[c] \in InTx => \A r \in idem : r.key # KeyOf(c)
        /\ pc[c] \in InTx \ {"task"} => /\ TaskStatus[ReqOf(c).task] = "COMPLETED"
                                        /\ version[ReqOf(c).task] >= ReqOf(c).expected
        /\ pc[c] \in InTx \ {"task", "issue"} => IssueOk(ReqOf(c))
        /\ (pc[c] \in {"update", "commit"} /\ VersionMatches(c)) =>
              /\ counted[c] = CountedRows(effects, ReqOf(c))
              /\ ReqOf(c).op = "CREATE_REWORK" =>
                    ~ActiveRework(effects, ReqOf(c).task, ReqOf(c).issue)

\* The idempotency table and the written rows say the same thing.
LedgerAgrees ==
    /\ \A e \in effects : /\ IssueTask[e.req.issue] = e.req.task
                          /\ e.before = e.req.expected
                          /\ \E r \in idem : r.key = e.key
    /\ \A r \in idem : \E e \in effects : /\ e.id = r.id
                                          /\ e.key = r.key
                                          /\ e.req = r.req
                                          /\ r.after = e.before + 1

IInv ==
    /\ TypeOK
    /\ LockDiscipline
    /\ ReadsStillValid
    /\ LedgerAgrees
    /\ VersionChain
    /\ OneEffectPerKey
    /\ OneActiveRework
    /\ ReviewCountExact
    /\ SuccessIsCommitted

-----------------------------------------------------------------------------
\* The transactions implement the atomic store: every answer is justified by
\* the database state of one instant.
ImplementsStore == Store!Spec

\* Waiting for keys and rows never turns into everyone waiting on everyone:
\* every call is answered.
EveryCallAnswered ==
    \A c \in Conns : pc[c] # "idle" ~> pc[c] = "idle"
=============================================================================
