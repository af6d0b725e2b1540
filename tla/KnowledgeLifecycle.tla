------------------------ MODULE KnowledgeLifecycle ------------------------
(* The managed knowledge library, followed through one document: uploads     *)
(* of revisions, parsing, publication with its index build, retries of a     *)
(* failed build, withdrawal, and the restart of the management process.      *)
(* A transaction that writes locks the document row first, or (recovery)     *)
(* all the task rows it will write, so each is one action.  What happens     *)
(* between transactions (a file stored, an embedding computed, a candidate   *)
(* reviewed) is kept in upload, held, fin and the DRAFT intents of op.       *)
(* An operation is named by its idempotency key; its task and the index      *)
(* generation it reserves are unique to it and share the name.               *)
EXTENDS Sequences, FiniteSets, Integers

CONSTANTS
    Uploads, Publications, Retries, Disables,   \* idempotency keys, by action
    Versions,      \* the version ids managed_id can produce
    Contents,      \* the originals a client may upload, of one file format
    Services,      \* management processes, each with its own owner_id
    IndexOf,       \* service -> the index identity it is configured with
    Overlap,       \* TRUE: a process may start while an older one still runs
    Null

Builds == Publications \cup Retries
Keys == Uploads \cup Builds \cup Disables

ASSUME KeysAssumption ==
    /\ Uploads \cap (Publications \cup Retries \cup Disables) = {}
    /\ Publications \cap (Retries \cup Disables) = {}
    /\ Retries \cap Disables = {}
    /\ Null \notin Keys \cup Versions \cup Contents \cup Services

ASSUME IndexAssumption == DOMAIN IndexOf = Services /\ Overlap \in BOOLEAN

VARIABLES
    row,        \* Document.row_version, 0 before the first upload is accepted
    current,    \* Document.current_version_id
    release,    \* Library.release_revision
    vstate,     \* version -> publication_state, NONE before it is created
    revs,       \* version -> its revisions in order, each [raw, body]
    sealed,     \* version -> published revision and generation, or Null
    lapsed,     \* draft versions whose current revision is past its expiry date
    op,         \* key -> the intent of the client and the Operation row
    task,       \* key -> Task.state
    owner,      \* key -> Task.owner_id
    gen,        \* key -> Generation.state of the generation it reserved
    files,      \* originals in storage: [version, revision, raw]
    svc,        \* service -> new, up, ready (recovery done) or gone
    upload,     \* service -> the upload under its _upload_lock
    held,       \* builds whose claim is in the memory of the owning service
    fin         \* service -> the finalize call it is running

docVars == <<row, current, release, vstate, sealed>>
workVars == <<op, task, owner, gen>>
procVars == <<svc, upload, held, fin>>
vars == <<row, current, release, vstate, revs, sealed, lapsed, op, task, owner, gen,
          files, svc, upload, held, fin>>

NoIntent == [state |-> "NONE", version |-> Null, revision |-> 0, row |-> 0,
             previous |-> Null, raw |-> Null, source |-> Null, gen |-> Null]
NoUpload == [key |-> Null, phase |-> "idle", version |-> Null, revision |-> 0]
NoFinalize == [key |-> Null, phase |-> "idle"]

Init ==
    /\ row = 0 /\ current = Null /\ release = 0
    /\ vstate = [v \in Versions |-> "NONE"]
    /\ revs = [v \in Versions |-> <<>>]
    /\ sealed = [v \in Versions |-> Null]
    /\ lapsed = {}
    /\ op = [k \in Keys |-> NoIntent]
    /\ task = [k \in Keys |-> "NONE"]
    /\ owner = [k \in Keys |-> Null]
    /\ gen = [k \in Keys |-> "NONE"]
    /\ files = {}
    /\ svc = [s \in Services |-> "new"]
    /\ upload = [s \in Services |-> NoUpload]
    /\ held = {}
    /\ fin = [s \in Services |-> NoFinalize]

---------------------------------------------------------------------------
(* Shared conditions.                                                       *)

Running(s) == svc[s] \in {"up", "ready"}
Accepted(k) == op[k].state \notin {"NONE", "DRAFT"}
Active(k) == op[k].state \in {"CONFIRMED", "EXECUTING"}
Unfinished(k) == task[k] \in {"QUEUED", "RUNNING"}

\* publication_confirmation for version v at revision n: a draft, at its
\* current revision, parsed, not expired, and not the current version.
Publishable(v, n) ==
    /\ vstate[v] = "DRAFT"
    /\ n = Len(revs[v])
    /\ current # v
    /\ revs[v][n].body # Null
    /\ v \notin lapsed

\* The confirmation rebuilt from the rows equals the one of operation k, read
\* when the document stood at row version expected.
Fresh(k, expected) ==
    /\ Publishable(op[k].version, op[k].revision)
    /\ row = expected
    /\ op[k].previous = current
    /\ op[k].raw = revs[op[k].version][op[k].revision].raw

\* Any PUBLISH or RETRY_INDEX of the document CONFIRMED or EXECUTING.
PublicationInProgress == \E k \in Builds : Active(k)

---------------------------------------------------------------------------
(* Upload: KnowledgeManagementService.upload.                               *)

\* A client composes an upload from the row version it has read: a new
\* revision of draft v, or (v = Null) a new version.  It may send it again, or
\* another one with the same key as long as none was accepted.  Two uploads that
\* create the document create two documents; the model follows one.
DraftUpload(k, v, c) ==
    /\ op[k].state \in {"NONE", "DRAFT"}
    /\ \A s \in Services : upload[s].key # k
    /\ v # Null => vstate[v] = "DRAFT"
    /\ op' = [op EXCEPT ![k] =
                [NoIntent EXCEPT !.state = "DRAFT", !.version = v, !.raw = c, !.row = row,
                                 !.previous = current,
                                 !.revision = IF v = Null THEN 1 ELSE Len(revs[v]) + 1]]
    /\ UNCHANGED <<docVars, revs, lapsed, task, owner, gen, files, procVars>>

\* _check_target: the document has not moved since the client read it, and the
\* version is a draft at the revision before the uploaded one.
TargetOk(k) ==
    /\ row = op[k].row
    /\ op[k].version # Null => /\ vstate[op[k].version] = "DRAFT"
                               /\ Len(revs[op[k].version]) + 1 = op[k].revision

\* managed_id never returns an id twice.
NewVersionId(v) ==
    /\ revs[v] = <<>>
    /\ \A f \in files : f.version # v
    /\ \A s \in Services : upload[s].version # v

\* find_upload and plan_upload, under _upload_lock and after start().  A key
\* already accepted is replayed.  Nothing is locked once the plan is read.
PlanUpload(s, k) ==
    /\ svc[s] = "ready"
    /\ upload[s].phase = "idle"
    /\ \/ /\ Accepted(k)
          /\ upload' = [upload EXCEPT ![s] = [key |-> k, phase |-> "accepted",
                            version |-> op[k].version, revision |-> op[k].revision]]
       \/ /\ op[k].state = "DRAFT"
          /\ TargetOk(k)
          /\ \E v \in Versions :
                /\ IF op[k].version = Null THEN NewVersionId(v) ELSE v = op[k].version
                /\ upload' = [upload EXCEPT ![s] = [key |-> k, phase |-> "planned",
                                  version |-> v, revision |-> op[k].revision]]
    /\ UNCHANGED <<docVars, revs, lapsed, workVars, files, svc, held, fin>>

\* The originals stored under the path of the version and revision.
At(v, n) == {f \in files : f.version = v /\ f.revision = n}

MutReuseUnchecked(s) ==
    LET u == upload[s]
        f == [version |-> u.version, revision |-> u.revision, raw |-> op[u.key].raw] IN
    /\ u.phase = "planned"
    /\ files' = IF At(u.version, u.revision) = {} THEN files \cup {f} ELSE files
    /\ upload' = [upload EXCEPT ![s].phase = "stored"]
    /\ UNCHANGED <<docVars, revs, lapsed, workVars, svc, held, fin>>

\* storage.commit: a hard link that never replaces a file.  An original left by
\* an upload that was not accepted is reused when the bytes are the same and is
\* ORIGINAL_CONFLICT when they differ.
StoreOriginal(s) ==
    LET u == upload[s]
        f == [version |-> u.version, revision |-> u.revision, raw |-> op[u.key].raw] IN
    /\ u.phase = "planned"
    /\ IF At(u.version, u.revision) \subseteq {f}
       THEN /\ files' = files \cup {f}
            /\ upload' = [upload EXCEPT ![s].phase = "stored"]
       ELSE /\ upload' = [upload EXCEPT ![s] = NoUpload]
            /\ UNCHANGED files
    /\ UNCHANGED <<docVars, revs, lapsed, workVars, svc, held, fin>>

\* What accept_upload does to the other work on version v: unfinished tasks and
\* active operations become STALE, generations under construction FAILED.
TasksSuperseded(v) ==
    [k \in Keys |-> IF Accepted(k) /\ op[k].version = v /\ Unfinished(k) THEN "STALE" ELSE task[k]]
MutOpsKept(v) == op
OpsSuperseded(v) ==
    [k \in Keys |-> IF k \in Builds /\ op[k].version = v /\ Active(k)
                    THEN [op[k] EXCEPT !.state = "STALE"] ELSE op[k]]
GensSuperseded(v) ==
    [k \in Keys |-> IF op[k].version = v /\ gen[k] = "BUILDING" THEN "FAILED" ELSE gen[k]]

\* accept_upload, after the advisory lock on the key: a key accepted meanwhile
\* is replayed; otherwise the target is checked again with the document locked,
\* the older work on the version superseded, the revision, the SUCCEEDED
\* operation and a QUEUED parse task inserted and the row version advanced.
AcceptUpload(s) ==
    LET u == upload[s]
        k == u.key
        v == u.version IN
    /\ u.phase = "stored"
    /\ \/ /\ Accepted(k)
          /\ UNCHANGED <<docVars, revs, lapsed, workVars>>
       \/ /\ ~Accepted(k)
          /\ TargetOk(k)
          /\ row' = row + 1
          /\ vstate' = [vstate EXCEPT ![v] = "DRAFT"]
          /\ revs' = [revs EXCEPT ![v] = Append(@, [raw |-> op[k].raw, body |-> Null])]
          /\ lapsed' = lapsed \ {v}
          /\ op' = [OpsSuperseded(v) EXCEPT ![k].state = "SUCCEEDED", ![k].version = v]
          /\ task' = [TasksSuperseded(v) EXCEPT ![k] = "QUEUED"]
          /\ owner' = [owner EXCEPT ![k] = s]
          /\ gen' = GensSuperseded(v)
          /\ UNCHANGED <<current, release, sealed>>
    /\ upload' = [upload EXCEPT ![s].phase = "accepted"]
    /\ UNCHANGED <<files, svc, held, fin>>

\* The upload is refused, or its connection or the database fails.  A file
\* already stored stays.
UploadFails(s) ==
    /\ upload[s].phase # "idle"
    /\ upload' = [upload EXCEPT ![s] = NoUpload]
    /\ UNCHANGED <<docVars, revs, lapsed, workVars, files, svc, held, fin>>

---------------------------------------------------------------------------
(* Parsing: process_parse, under the same _upload_lock.                     *)

\* _current and body is None: the revision is the draft's current one, unparsed.
AwaitsBody(k) ==
    /\ vstate[op[k].version] = "DRAFT"
    /\ Len(revs[op[k].version]) = op[k].revision
    /\ revs[op[k].version][op[k].revision].body = Null

ClaimParse(s) ==
    LET k == upload[s].key IN
    /\ upload[s].phase = "accepted"
    /\ IF task[k] = "QUEUED" /\ owner[k] = s
       THEN /\ task' = [task EXCEPT ![k] = IF AwaitsBody(k) THEN "RUNNING" ELSE "STALE"]
            /\ upload' = [upload EXCEPT ![s] = IF AwaitsBody(k) THEN [@ EXCEPT !.phase = "parsing"]
                                                               ELSE NoUpload]
       ELSE /\ upload' = [upload EXCEPT ![s] = NoUpload]
            /\ UNCHANGED task
    /\ UNCHANGED <<docVars, revs, lapsed, op, owner, gen, files, svc, held, fin>>

\* A result of s for the task of k may be written: the task is still its own,
\* running, and the revision waits for it.
ParseLands(s, k) == task[k] = "RUNNING" /\ owner[k] = s /\ AwaitsBody(k)

\* finish_parse with the body the parser made of the stored original, or with
\* an error (unreadable original, parser failure).
FinishParse(s, parses) ==
    LET k == upload[s].key
        v == op[k].version
        n == op[k].revision IN
    /\ upload[s].phase = "parsing"
    /\ \/ /\ task[k] # "RUNNING" \/ owner[k] # s
          /\ UNCHANGED <<revs, task>>
       \/ /\ task[k] = "RUNNING" /\ owner[k] = s /\ ~AwaitsBody(k)
          /\ task' = [task EXCEPT ![k] = "STALE"]
          /\ UNCHANGED revs
       \/ /\ ParseLands(s, k)
          /\ IF parses /\ \E f \in At(v, n) : f.raw = revs[v][n].raw
             THEN /\ revs' = [revs EXCEPT ![v][n].body = op[k].raw]
                  /\ task' = [task EXCEPT ![k] = "SUCCEEDED"]
             ELSE /\ task' = [task EXCEPT ![k] = "FAILED"]
                  /\ UNCHANGED revs
    /\ upload' = [upload EXCEPT ![s] = NoUpload]
    /\ UNCHANGED <<docVars, lapsed, op, owner, gen, files, svc, held, fin>>

---------------------------------------------------------------------------
(* Publication: review, confirmation and index build.                       *)

\* prepare: what the reviewer of version v is shown and signs by its digest.
PreparePublication(k, v) ==
    LET n == Len(revs[v]) IN
    /\ op[k].state \in {"NONE", "DRAFT"}
    /\ n > 0
    /\ Publishable(v, n)
    /\ op' = [op EXCEPT ![k] =
                [NoIntent EXCEPT !.state = "DRAFT", !.version = v, !.revision = n, !.row = row,
                                 !.previous = current, !.raw = revs[v][n].raw]]
    /\ UNCHANGED <<docVars, revs, lapsed, task, owner, gen, files, procVars>>

MutReuseAnyRevision(s, k) ==
    {j \in Builds : /\ gen[j] = "READY"
                    /\ op[j].version = op[k].version
                    /\ IndexOf[owner[j]] = IndexOf[s]}
\* READY generations of the revision built for the index identity of s.
Reusable(s, k) ==
    {j \in Builds : /\ gen[j] = "READY"
                    /\ op[j].version = op[k].version
                    /\ op[j].revision = op[k].revision
                    /\ IndexOf[owner[j]] = IndexOf[s]}

\* Operation k is inserted CONFIRMED with a generation BUILDING and a QUEUED
\* task of its own, owned by s.
Reserve(s, k) ==
    /\ op' = [op EXCEPT ![k].state = "CONFIRMED", ![k].gen = k]
    /\ task' = [task EXCEPT ![k] = "QUEUED"]
    /\ owner' = [owner EXCEPT ![k] = s]
    /\ gen' = [gen EXCEPT ![k] = "BUILDING"]

\* accept_publication: with the document locked the confirmation must still be
\* exact and nothing else in progress.  It reserves a build, or binds a READY
\* generation and needs no task.  It advances the row version.
AcceptPublication(s, k) ==
    /\ Running(s)
    /\ op[k].state = "DRAFT"
    /\ Fresh(k, op[k].row)
    /\ ~PublicationInProgress
    /\ \/ /\ Reusable(s, k) = {}
          /\ Reserve(s, k)
       \/ \E j \in Reusable(s, k) :
            /\ op' = [op EXCEPT ![k].state = "CONFIRMED", ![k].gen = j]
            /\ UNCHANGED <<task, owner, gen>>
    /\ row' = row + 1
    /\ UNCHANGED <<current, release, vstate, revs, sealed, lapsed, files, procVars>>

\* _terminate: the task, its operation and its generation end together.
Terminate(k, taskState, opState) ==
    /\ task' = [task EXCEPT ![k] = taskState]
    /\ op' = [op EXCEPT ![k].state = opState]
    /\ gen' = [gen EXCEPT ![k] = "FAILED"]

\* claim_index: _check_input decides between RUNNING and STALE.
ClaimIndex(s, k) ==
    /\ Running(s)
    /\ task[k] = "QUEUED" /\ owner[k] = s
    /\ op[k].state = "CONFIRMED" /\ gen[k] = "BUILDING"
    /\ IF Fresh(k, op[k].row + 1)
       THEN /\ task' = [task EXCEPT ![k] = "RUNNING"]
            /\ op' = [op EXCEPT ![k].state = "EXECUTING"]
            /\ held' = held \cup {k}
            /\ UNCHANGED gen
       ELSE Terminate(k, "STALE", "STALE") /\ UNCHANGED held
    /\ UNCHANGED <<docVars, revs, lapsed, owner, files, svc, upload, fin>>

\* The claim is still the right to write: RUNNING, EXECUTING, BUILDING.
MutClaimNeverLost(k) == TRUE
ClaimStands(k) == task[k] = "RUNNING" /\ op[k].state = "EXECUTING" /\ gen[k] = "BUILDING"

\* finish_index: the chunks are saved and the generation is READY, unless the
\* claim is gone (the result is dropped) or the input moved (STALE).  A retry
\* ends here; a publication waits for its finalization.
FinishIndex(k) ==
    /\ k \in held
    /\ held' = held \ {k}
    /\ \/ /\ ~ClaimStands(k)
          /\ UNCHANGED <<task, op, gen>>
       \/ /\ ClaimStands(k)
          /\ ~Fresh(k, op[k].row + 1)
          /\ Terminate(k, "STALE", "STALE")
       \/ /\ ClaimStands(k)
          /\ Fresh(k, op[k].row + 1)
          /\ task' = [task EXCEPT ![k] = "SUCCEEDED"]
          /\ gen' = [gen EXCEPT ![k] = "READY"]
          /\ op' = IF k \in Retries THEN [op EXCEPT ![k].state = "SUCCEEDED"] ELSE op
    /\ UNCHANGED <<docVars, revs, lapsed, owner, files, svc, upload, fin>>

\* fail_index: a timeout, an embedding, permission or validation error, or
\* (INTERRUPTED) a cancelled request.
FailIndex(k, outcome) ==
    /\ k \in held
    /\ held' = held \ {k}
    /\ \/ ~ClaimStands(k) /\ UNCHANGED <<task, op, gen>>
       \/ ClaimStands(k) /\ Terminate(k, outcome, "FAILED")
    /\ UNCHANGED <<docVars, revs, lapsed, owner, files, svc, upload, fin>>

\* The database is unreachable when the failure is to be saved: the claim is
\* forgotten and its rows stay as they are.
LoseWork(k) ==
    /\ k \in held
    /\ held' = held \ {k}
    /\ UNCHANGED <<docVars, revs, lapsed, workVars, files, svc, upload, fin>>

---------------------------------------------------------------------------
(* Finalization: KnowledgePublicationFinalizeService.finalize.              *)

\* What _prepared asks for before it looks at the confirmation.
IndexReady(k) ==
    /\ Active(k)
    /\ gen[op[k].gen] = "READY"
    /\ task[k] \in {"NONE", "SUCCEEDED"}

\* prepare_finalization, then the checks made with no transaction open: the
\* configured index identity must be the generation's.
PrepareFinalization(s, k) ==
    /\ Running(s)
    /\ fin[s] = NoFinalize
    /\ IndexReady(k)
    /\ fin' = [fin EXCEPT ![s] =
                 [key |-> k,
                  phase |-> IF ~Fresh(k, op[k].row + 1) THEN "stale"
                            ELSE IF IndexOf[owner[op[k].gen]] # IndexOf[s] THEN "invalid"
                            ELSE "prepared"]]
    /\ UNCHANGED <<docVars, revs, lapsed, workVars, files, svc, upload, held>>

Published == {w \in Versions : vstate[w] = "PUBLISHED"}

\* The current pointer moves, to a version or to none, and both counters with it.
Repoint(v) ==
    /\ current' = v
    /\ row' = row + 1
    /\ release' = release + 1

MutSwitchKeepsOld(k) ==
    /\ vstate' = [vstate EXCEPT ![op[k].version] = "PUBLISHED"]
    /\ sealed' = [sealed EXCEPT ![op[k].version] =
                    [revision |-> op[k].revision, gen |-> op[k].gen]]
    /\ Repoint(op[k].version)
    /\ op' = [op EXCEPT ![k].state = "SUCCEEDED"]

\* The version k publishes replaces the published ones, in one transaction.
Switch(k) ==
    LET v == op[k].version IN
    /\ vstate' = [w \in Versions |-> IF w = v THEN "PUBLISHED"
                                     ELSE IF vstate[w] = "PUBLISHED" THEN "SUPERSEDED"
                                     ELSE vstate[w]]
    /\ sealed' = [sealed EXCEPT ![v] = [revision |-> op[k].revision, gen |-> op[k].gen]]
    /\ Repoint(v)
    /\ op' = [op EXCEPT ![k].state = "SUCCEEDED"]

\* commit_finalization: library and document locked, everything is read again.
\* A SUCCEEDED operation only gives its receipt back, another inactive one is
\* an error that changes nothing, a stale one, or one whose previous version is
\* not the published one, goes on to reject_finalization.
CommitFinalization(s) ==
    LET k == fin[s].key IN
    /\ fin[s].phase = "prepared"
    /\ \/ /\ ~IndexReady(k)
          /\ fin' = [fin EXCEPT ![s] = NoFinalize]
          /\ UNCHANGED <<docVars, op>>
       \/ /\ IndexReady(k)
          /\ ~(Fresh(k, op[k].row + 1) /\ Published = {op[k].previous} \ {Null})
          /\ fin' = [fin EXCEPT ![s].phase =
                       IF Fresh(k, op[k].row + 1) THEN "invalid" ELSE "stale"]
          /\ UNCHANGED <<docVars, op>>
       \/ /\ IndexReady(k)
          /\ Fresh(k, op[k].row + 1)
          /\ Published = {op[k].previous} \ {Null}
          /\ Switch(k)
          /\ fin' = [fin EXCEPT ![s] = NoFinalize]
    /\ UNCHANGED <<revs, lapsed, task, owner, gen, files, svc, upload, held>>

\* reject_finalization ends the operation if it is still active; its task and
\* its READY generation stay.
RejectFinalization(s) ==
    LET k == fin[s].key IN
    /\ fin[s].phase \in {"stale", "invalid"}
    /\ op' = IF Active(k)
             THEN [op EXCEPT ![k].state = IF fin[s].phase = "stale" THEN "STALE" ELSE "FAILED"]
             ELSE op
    /\ fin' = [fin EXCEPT ![s] = NoFinalize]
    /\ UNCHANGED <<docVars, revs, lapsed, task, owner, gen, files, svc, upload, held>>

\* The second authorization is refused, the database fails or the request is
\* cancelled: finalize ends and the operation stays as it is.
AbandonFinalization(s) ==
    /\ fin[s] # NoFinalize
    /\ fin' = [fin EXCEPT ![s] = NoFinalize]
    /\ UNCHANGED <<docVars, revs, lapsed, workVars, files, svc, upload, held>>

---------------------------------------------------------------------------
(* Retry of a failed build, and withdrawal.                                 *)

\* A failed or interrupted build that no accepted retry continues.
ChainTail(j) ==
    /\ task[j] \in {"FAILED", "INTERRUPTED"} /\ op[j].state = "FAILED" /\ gen[j] = "FAILED"
    /\ \A i \in Retries : Accepted(i) => op[i].source # j

\* _source: build j of the current draft revision may be tried again by s,
\* which is configured with the same index identity.
RetrySource(s, j) ==
    /\ ChainTail(j)
    /\ Publishable(op[j].version, op[j].revision)
    /\ IndexOf[owner[j]] = IndexOf[s]
    /\ ~PublicationInProgress

PrepareRetry(s, k, j) ==
    /\ Running(s)
    /\ op[k].state \in {"NONE", "DRAFT"}
    /\ RetrySource(s, j)
    /\ op' = [op EXCEPT ![k] = [NoIntent EXCEPT !.state = "DRAFT", !.source = j, !.row = row,
                                   !.version = op[j].version, !.revision = op[j].revision,
                                   !.previous = current, !.raw = op[j].raw]]
    /\ UNCHANGED <<docVars, revs, lapsed, task, owner, gen, files, procVars>>

\* accept_retry: everything again with the document locked, then a generation
\* and a task of its own; the failed ones are kept.
AcceptRetry(s, k) ==
    /\ Running(s)
    /\ op[k].state = "DRAFT"
    /\ RetrySource(s, op[k].source)
    /\ Fresh(k, op[k].row)
    /\ Reserve(s, k)
    /\ row' = row + 1
    /\ UNCHANGED <<current, release, vstate, revs, sealed, lapsed, files, procVars>>

\* _snapshot: the target is the current published version, as it was sealed.
Withdrawable(v, n) ==
    /\ vstate[v] = "PUBLISHED"
    /\ current = v
    /\ sealed[v].revision = n

PrepareDisable(k) ==
    /\ op[k].state \in {"NONE", "DRAFT"}
    /\ current # Null
    /\ op' = [op EXCEPT ![k] =
                [NoIntent EXCEPT !.state = "DRAFT", !.version = current, !.row = row,
                                 !.revision = sealed[current].revision, !.previous = current,
                                 !.gen = sealed[current].gen]]
    /\ UNCHANGED <<docVars, revs, lapsed, task, owner, gen, files, procVars>>

\* _invalidate_pending: the active builds of the document become STALE, with
\* their unfinished tasks, and their BUILDING generations FAILED.
Pending(k) == k \in Builds /\ Active(k)

\* disable.
AcceptDisable(k) ==
    LET v == op[k].version IN
    /\ op[k].state = "DRAFT"
    /\ Withdrawable(v, op[k].revision)
    /\ row = op[k].row
    /\ task' = [j \in Keys |-> IF Pending(j) /\ Unfinished(j) THEN "STALE" ELSE task[j]]
    /\ gen' = [j \in Keys |-> IF Pending(j) /\ gen[j] = "BUILDING" THEN "FAILED" ELSE gen[j]]
    /\ op' = [j \in Keys |-> IF j = k THEN [op[j] EXCEPT !.state = "SUCCEEDED"]
                             ELSE IF Pending(j) THEN [op[j] EXCEPT !.state = "STALE"]
                             ELSE op[j]]
    /\ vstate' = [vstate EXCEPT ![v] = "DISABLED"]
    /\ Repoint(Null)
    /\ UNCHANGED <<revs, sealed, lapsed, owner, files, procVars>>

---------------------------------------------------------------------------
(* Processes and time.                                                      *)

\* A process starts.  Overlap allows a rolling restart; without it the older
\* process has stopped.
StartService(s) ==
    /\ svc[s] = "new"
    /\ Overlap \/ \A o \in Services : ~Running(o)
    /\ svc' = [svc EXCEPT ![s] = "up"]
    /\ UNCHANGED <<docVars, revs, lapsed, workVars, files, upload, held, fin>>

MutRunningOnly(s, k) == task[k] = "RUNNING" /\ owner[k] # s
\* An unfinished task some other owner_id left behind.
LeftBehind(s, k) == Unfinished(k) /\ owner[k] # s

\* The operation it belongs to, if that is waiting for it.
Interrupted(s, k) == LeftBehind(s, k) /\ k \in Builds /\ Active(k)

\* recover_interrupted, once per process, from start() on its first upload.
Recover(s) ==
    /\ svc[s] = "up"
    /\ svc' = [svc EXCEPT ![s] = "ready"]
    /\ task' = [k \in Keys |-> IF LeftBehind(s, k) THEN "INTERRUPTED" ELSE task[k]]
    /\ op' = [k \in Keys |-> IF Interrupted(s, k)
                             THEN [op[k] EXCEPT !.state = "FAILED"] ELSE op[k]]
    /\ gen' = [k \in Keys |-> IF LeftBehind(s, k) /\ gen[k] = "BUILDING"
                              THEN "FAILED" ELSE gen[k]]
    /\ UNCHANGED <<docVars, revs, lapsed, owner, files, upload, held, fin>>

\* The process dies with everything it holds in memory.  The last process of an
\* instance stays: nothing could follow its end.
StopService(s) ==
    /\ Running(s)
    /\ \E o \in Services \ {s} : svc[o] # "gone"
    /\ svc' = [svc EXCEPT ![s] = "gone"]
    /\ upload' = [upload EXCEPT ![s] = NoUpload]
    /\ fin' = [fin EXCEPT ![s] = NoFinalize]
    /\ held' = {k \in held : owner[k] # s}
    /\ UNCHANGED <<docVars, revs, lapsed, workVars, files>>

\* The expiry date of the current revision of draft v passes; the operations
\* modelled here do not read the dates of a sealed version.
Lapse(v) ==
    /\ vstate[v] = "DRAFT"
    /\ v \notin lapsed
    /\ lapsed' = lapsed \cup {v}
    /\ UNCHANGED <<docVars, revs, workVars, files, procVars>>

ServiceStep(s) ==
    \/ StartService(s) \/ Recover(s) \/ StopService(s)
    \/ \E k \in Uploads : PlanUpload(s, k)
    \/ StoreOriginal(s) \/ AcceptUpload(s) \/ UploadFails(s)
    \/ ClaimParse(s) \/ \E parses \in BOOLEAN : FinishParse(s, parses)
    \/ \E k \in Publications : AcceptPublication(s, k) \/ PrepareFinalization(s, k)
    \/ \E k \in Builds : ClaimIndex(s, k)
    \/ CommitFinalization(s) \/ RejectFinalization(s) \/ AbandonFinalization(s)
    \/ \E k \in Retries : AcceptRetry(s, k) \/ \E j \in Builds : PrepareRetry(s, k, j)

\* Reads and single transactions that any running process serves alike.
ClientStep ==
    /\ \E s \in Services : Running(s)
    /\ \/ \E k \in Uploads, v \in Versions \cup {Null}, c \in Contents : DraftUpload(k, v, c)
       \/ \E k \in Publications, v \in Versions : PreparePublication(k, v)
       \/ \E k \in Disables : PrepareDisable(k) \/ AcceptDisable(k)

Next ==
    \/ \E s \in Services : ServiceStep(s)
    \/ ClientStep
    \/ \E k \in held : \/ FinishIndex(k) \/ LoseWork(k)
                       \/ \E outcome \in {"FAILED", "INTERRUPTED"} : FailIndex(k, outcome)
    \/ \E v \in Versions : Lapse(v)

Spec == Init /\ [][Next]_vars

---------------------------------------------------------------------------
(* Properties.                                                              *)

OpStates == {"NONE", "DRAFT", "CONFIRMED", "EXECUTING", "SUCCEEDED", "FAILED", "STALE"}
TaskStates == {"NONE", "QUEUED", "RUNNING", "SUCCEEDED", "FAILED", "INTERRUPTED", "STALE"}
Intents == [state : OpStates, version : Versions \cup {Null}, revision : Nat, row : Nat,
            previous : Versions \cup {Null}, raw : Contents \cup {Null},
            source : Builds \cup {Null}, gen : Builds \cup {Null}]

\* Every variable has its type.
TypeOK ==
    /\ row \in Nat /\ release \in Nat
    /\ current \in Versions \cup {Null}
    /\ vstate \in [Versions -> {"NONE", "DRAFT", "PUBLISHED", "SUPERSEDED", "DISABLED"}]
    /\ revs \in [Versions -> Seq([raw : Contents, body : Contents \cup {Null}])]
    /\ sealed \in [Versions -> [revision : Nat, gen : Builds] \cup {Null}]
    /\ lapsed \subseteq Versions
    /\ op \in [Keys -> Intents]
    /\ task \in [Keys -> TaskStates]
    /\ owner \in [Keys -> Services \cup {Null}]
    /\ gen \in [Keys -> {"NONE", "BUILDING", "READY", "FAILED"}]
    /\ files \subseteq [version : Versions, revision : Nat, raw : Contents]
    /\ svc \in [Services -> {"new", "up", "ready", "gone"}]
    /\ upload \in [Services -> [key : Uploads \cup {Null},
                                phase : {"idle", "planned", "stored", "accepted", "parsing"},
                                version : Versions \cup {Null}, revision : Nat]]
    /\ held \subseteq Builds
    /\ fin \in [Services -> [key : Publications \cup {Null},
                             phase : {"idle", "prepared", "stale", "invalid"}]]

\* The document points at a version exactly when that version, and no other, is
\* PUBLISHED, however publications, withdrawals and uploads interleave.
OnePublished == Published = {current} \ {Null}

\* What a sealed version serves is what one reviewer confirmed: exactly one
\* publication of it succeeded, the confirmed revision is still its last one
\* with the confirmed bytes, parsed from those bytes, and the generation it is
\* bound to was built for that revision and is READY.
SealedAsConfirmed ==
    \A v \in Versions : vstate[v] \in {"PUBLISHED", "SUPERSEDED", "DISABLED"} =>
        LET confirmed == {k \in Publications : op[k].state = "SUCCEEDED" /\ op[k].version = v} IN
        /\ Cardinality(confirmed) = 1
        /\ \A k \in confirmed :
              LET n == op[k].revision
                  g == op[k].gen IN
              /\ sealed[v] = [revision |-> n, gen |-> g]
              /\ n = Len(revs[v])
              /\ revs[v][n] = [raw |-> op[k].raw, body |-> op[k].raw]
              /\ gen[g] = "READY"
              /\ op[g].version = v /\ op[g].revision = n

\* At most one publication or retry of the document is in progress.
OneInProgress == \A j, k \in Builds : Active(j) /\ Active(k) => j = k

\* The states the operation, task and generation rows of a build are in together;
\* a publication bound to the generation of another has no task of its own.
OwnRows == {<<"CONFIRMED", "QUEUED", "BUILDING">>, <<"EXECUTING", "RUNNING", "BUILDING">>,
            <<"FAILED", "FAILED", "FAILED">>, <<"FAILED", "INTERRUPTED", "FAILED">>,
            <<"STALE", "STALE", "FAILED">>, <<"SUCCEEDED", "SUCCEEDED", "READY">>}
WaitingRows == {"EXECUTING", "FAILED", "STALE"} \X {"SUCCEEDED"} \X {"READY"}

RowsAgree(k) ==
    IF op[k].gen = k
    THEN <<op[k].state, task[k], gen[k]>> \in
            OwnRows \cup IF k \in Retries THEN {} ELSE WaitingRows
    ELSE /\ op[k].state # "EXECUTING"
         /\ task[k] = "NONE" /\ gen[k] = "NONE"
         /\ gen[op[k].gen] = "READY"

\* The rows of every accepted build tell one story, whoever ended the build.
StateTable == \A k \in Builds : Accepted(k) => RowsAgree(k)

\* The stored original of an accepted revision has the bytes its row records,
\* even after uploads that crashed between the file and the database and
\* uploads of two processes to the same path.
OriginalKept ==
    \A v \in Versions : \A n \in 1..Len(revs[v]) :
        At(v, n) = {[version |-> v, revision |-> n, raw |-> revs[v][n].raw]}

\* Retries of a failed build form a chain: each accepted retry continues a
\* failed build that no other accepted retry continues, of the same revision.
RetryChain ==
    \A k \in Retries : Accepted(k) =>
        LET j == op[k].source IN
        /\ j \in Builds \ {k}
        /\ op[j].state = "FAILED" /\ gen[j] = "FAILED"
        /\ op[j].version = op[k].version /\ op[j].revision = op[k].revision
        /\ \A i \in Retries : Accepted(i) /\ op[i].source = j => i = k

\* Whatever supersedes, ends or interrupts a build, its rows agree with each
\* other and with those of the builds around it.
BuildsAgree == OneInProgress /\ StateTable /\ RetryChain

\* With one management process at a time, every unfinished task belongs to the
\* process that has completed its recovery: nothing waits on a dead owner.
RecoveredOwnsAll ==
    \A s \in Services : svc[s] = "ready" => \A k \in Keys : Unfinished(k) => owner[k] = s

\* A sealed version never changes again: not its revisions, not the revision
\* and generation it was sealed with, and it never becomes a draft or, once
\* superseded or disabled, published.
SealedForever ==
    [][\A v \in Versions :
         /\ sealed[v] # Null => sealed'[v] = sealed[v] /\ revs'[v] = revs[v]
         /\ vstate[v] \in {"SUPERSEDED", "DISABLED"} => vstate'[v] = vstate[v]
         /\ vstate[v] = "PUBLISHED" => vstate'[v] # "DRAFT"]_vars

\* A parse result is written once and only to the current revision of a draft,
\* however late it arrives; earlier revisions keep what they had.
ParseWritesCurrent ==
    [][\A v \in Versions : \A n \in 1..Len(revs[v]) :
         revs'[v][n] # revs[v][n] =>
            /\ vstate[v] = "DRAFT" /\ n = Len(revs[v])
            /\ revs[v][n].body = Null /\ revs'[v][n].raw = revs[v][n].raw]_vars

\* An operation that has ended keeps its outcome: late results, replays,
\* recovery and rejections do not reopen or rewrite it.
OutcomeKept ==
    [][\A k \in Keys : op[k].state \in {"SUCCEEDED", "FAILED", "STALE"} => op'[k] = op[k]]_vars

\* What was decided stays decided under everything that arrives late.
DecidedStays == SealedForever /\ ParseWritesCurrent /\ OutcomeKept

---------------------------------------------------------------------------
(* What makes the properties above inductive.                               *)

SealedStates == {"PUBLISHED", "SUPERSEDED", "DISABLED"}

\* A version has revisions from its creation on, is sealed by its publication
\* only, and its bodies are parsed from its originals.
VersionsKept ==
    \A v \in Versions :
        /\ vstate[v] = "NONE" <=> revs[v] = <<>>
        /\ sealed[v] # Null => vstate[v] \in SealedStates
        /\ \A n \in 1..Len(revs[v]) : revs[v][n].body \in {Null, revs[v][n].raw}

\* What a client sent: an upload its original, a retry the failed build it
\* continues, the others the version they are about.
IntentsKept ==
    \A k \in Keys : op[k].state # "NONE" =>
        /\ k \notin Uploads => op[k].version \in Versions
        /\ k \in Uploads => op[k].raw \in Contents
        /\ k \in Uploads /\ op[k].state = "DRAFT" /\ op[k].version = Null => op[k].revision = 1
        /\ k \in Retries =>
              LET j == op[k].source IN
              /\ j \in Builds \ {k}
              /\ op[j].state = "FAILED" /\ gen[j] = "FAILED"
              /\ op[j].version = op[k].version /\ op[j].revision = op[k].revision

\* Nothing is reserved before it is accepted; an accepted build is bound to a
\* generation of its revision, its own or one that is READY.
ReservationsKept ==
    \A k \in Keys :
        /\ ~Accepted(k) => task[k] = "NONE" /\ gen[k] = "NONE"
        /\ k \notin Builds => gen[k] = "NONE" /\ op[k].state \in {"NONE", "DRAFT", "SUCCEEDED"}
        /\ gen[k] # "NONE" => op[k].gen = k
        /\ k \in Builds /\ Accepted(k) =>
              LET g == op[k].gen IN
              /\ g \in Builds /\ Accepted(g)
              /\ op[g].version = op[k].version /\ op[g].revision = op[k].revision

\* An accepted upload is a revision with the bytes that were sent.
UploadsKept ==
    \A k \in Uploads : Accepted(k) =>
        /\ op[k].version \in Versions
        /\ op[k].revision \in 1..Len(revs[op[k].version])
        /\ revs[op[k].version][op[k].revision].raw = op[k].raw

\* What a process holds between two transactions is still what the rows say: an
\* id it has planned for a new version is used by nobody else.
HandsKept ==
    \A s \in Services :
        LET u == upload[s]
            k == u.key IN
        /\ fin[s].phase # "idle" =>
              LET p == fin[s].key IN p \in Publications /\ Accepted(p) /\ gen[op[p].gen] = "READY"
        /\ u.phase # "idle" => /\ svc[s] = "ready" /\ k \in Uploads
                               /\ op[k].state # "NONE"
        /\ u.phase \in {"accepted", "parsing"} => Accepted(k)
        /\ u.phase \in {"planned", "stored"} => u.version \in Versions
        /\ u.phase \in {"planned", "stored"} /\ ~Accepted(k) =>
              /\ u.revision = op[k].revision
              /\ op[k].version # Null => u.version = op[k].version
              /\ op[k].version = Null =>
                    /\ revs[u.version] = <<>>
                    /\ \A o \in Services \ {s} : upload[o].version # u.version

\* One original at every path, and the one an upload has stored is there.
FilesKept ==
    /\ \A f, g \in files : f.version = g.version /\ f.revision = g.revision => f = g
    /\ \A v \in Versions : \A n \in 1..Len(revs[v]) :
          [version |-> v, revision |-> n, raw |-> revs[v][n].raw] \in files
    /\ \A s \in Services : upload[s].phase = "stored" =>
          [version |-> upload[s].version, revision |-> upload[s].revision,
           raw |-> op[upload[s].key].raw] \in files

\* A publication that succeeded sealed its version, and each sealed version was
\* sealed by one.
SealedBy(v, k) ==
    LET n == op[k].revision IN
    /\ op[k].state = "SUCCEEDED" /\ op[k].version = v
    /\ sealed[v] = [revision |-> n, gen |-> op[k].gen]
    /\ n = Len(revs[v])
    /\ revs[v][n] = [raw |-> op[k].raw, body |-> op[k].raw]
    /\ gen[op[k].gen] = "READY"

SealsKept ==
    /\ \A k \in Publications, v \in Versions :
          op[k].state = "SUCCEEDED" /\ op[k].version = v =>
             vstate[v] \in SealedStates /\ SealedBy(v, k)
    /\ \A j, k \in Publications :
          op[j].state = "SUCCEEDED" /\ op[k].state = "SUCCEEDED"
             /\ op[j].version = op[k].version => j = k
    /\ \A v \in Versions : vstate[v] \in SealedStates =>
          \E k \in Publications : op[k].state = "SUCCEEDED" /\ op[k].version = v

KnowledgeIInv ==
    /\ TypeOK /\ VersionsKept /\ IntentsKept /\ ReservationsKept /\ UploadsKept
    /\ HandsKept /\ FilesKept /\ SealsKept
    /\ OnePublished /\ OneInProgress /\ StateTable /\ RetryChain

\* Without an overlap of processes, one of them runs.
OneRunning == \A s, o \in Services : Running(s) /\ Running(o) => s = o
RecoveryIInv == OneRunning /\ RecoveredOwnsAll
====
