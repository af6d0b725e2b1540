--------------------------- MODULE CatalogImport ---------------------------
(* The import of the demonstration catalog into the managed library: a review *)
(* of the source, its confirmation, the copy of the originals and one         *)
(* transaction that publishes the whole batch. The source is outside the      *)
(* reach of a lock until that transaction: files of the repository are edited,*)
(* the old ingestion replaces its index, other publications move the library, *)
(* and confirmations of the same and of other requests run side by side.      *)
EXTENDS Integers

CONSTANTS
    Admins,           \* who confirms,
    ConfirmationKeys, \* and the idempotency keys they use
    Calls,          \* requests the process serves at the same time
    Raws, FirstRaw, \* states of the catalog and its files, and the one at start
    CatalogOf,      \* raw -> hash of catalog.json
    BodyOf,         \* raw -> normalized text of the files
    MaxRequests,    \* bound: requests made
    MaxMoves,       \* bound: edits, ingestions and other releases around them
    Absent

Catalogs == {CatalogOf[r] : r \in Raws}
Bodies == {BodyOf[r] : r \in Raws}
Digests == [actor : Admins, raw : Raws, stamp : Nat, release : Nat]
Batches == [actor : Admins, key : ConfirmationKeys, of : Digests, raw : Raws, body : Bodies,
            stamp : Nat, release : Nat]

ASSUME CatalogAssumption ==
    /\ FirstRaw \in Raws /\ DOMAIN CatalogOf = Raws /\ DOMAIN BodyOf = Raws
    /\ MaxRequests \in Nat /\ MaxMoves \in Nat
    /\ Absent \notin Raws \cup Catalogs /\ Absent \notin Batches

VARIABLES
    repo,       \* the catalog and its files on disk
    ingesting,  \* what a running ingestion has read from it, or Absent
    legacy,     \* the old index: the text it holds and when it was built
    library,    \* source_catalog_hash and release_revision
    batch,      \* the rows of the imported batch, or Absent
    originals,  \* originals in the managed storage
    report,     \* admin -> the candidate shown to it last, or Absent
    sent,       \* admin and key -> the candidate confirmed with that key, or Absent
    call,       \* call -> the request it serves
    receipts,   \* receipts returned
    count       \* requests and moves so far

importVars == <<repo, ingesting, legacy, library, batch, originals, report, sent, call, receipts, count>>
source == <<repo, ingesting, legacy>>

Idle == [phase |-> "idle", actor |-> Absent, key |-> Absent, of |-> Absent, files |-> Absent, stored |-> Absent]

ImportInit ==
    /\ repo = FirstRaw /\ ingesting = Absent
    /\ legacy = [body |-> BodyOf[FirstRaw], stamp |-> 0]
    /\ library = [catalog |-> Absent, release |-> 0]
    /\ batch = Absent /\ originals = {} /\ receipts = {}
    /\ report = [a \in Admins |-> Absent]
    /\ sent = [p \in Admins \X ConfirmationKeys |-> Absent]
    /\ call = [c \in Calls |-> Idle]
    /\ count = [requests |-> 0, moves |-> 0]

Request == count.requests < MaxRequests /\ count' = [count EXCEPT !.requests = @ + 1]
Move == count.moves < MaxMoves /\ count' = [count EXCEPT !.moves = @ + 1]

----------------------------------------------------------------------------
(* What identifies a request. *)

(* import_digest: the reviewer, the source and the release that were reviewed. *)
ImportDigest(actor, files, stored) ==
    [actor |-> actor, raw |-> files, stamp |-> stored.stamp, release |-> stored.release]

(* import_plan: the paths of the originals derive from the actor and from the  *)
(* hash of the whole command.                                                  *)
ImportPlan(r) == [actor |-> r.actor, key |-> r.key, of |-> r.of]

(* _replay: the batch whose operations carry the actor and the keys of r; the  *)
(* same keys with another command are IDEMPOTENCY_CONFLICT.                    *)
Known(r) == batch # Absent /\ batch.actor = r.actor /\ batch.key = r.key
MutReplaysByKey(r) == Known(r)
Replays(r) == Known(r) /\ batch.of = r.of

Receipt(r) == [actor |-> r.actor, key |-> r.key, of |-> r.of, release |-> r.of.release + 1]

(* read_in_session: the old index and the state of the library. *)
LegacyImportSnapshot ==
    [body |-> legacy.body, stamp |-> legacy.stamp, release |-> library.release, catalog |-> library.catalog]

End(c) == call' = [call EXCEPT ![c] = Idle]
Goto(c, phase) == call' = [call EXCEPT ![c].phase = phase]

(* The call ends with the receipt of an import that is already there. *)
Replay(c, r) == /\ Replays(r)
                /\ receipts' = receipts \cup {Receipt(r)}
                /\ End(c)

----------------------------------------------------------------------------
(* The steps of a request. *)

(* prepare, after its authorization. *)
Prepare(c, a) ==
    /\ call[c] = Idle /\ Request
    /\ call' = [call EXCEPT ![c] = [Idle EXCEPT !.phase = "capture", !.actor = a]]
    /\ UNCHANGED <<source, library, batch, originals, report, sent, receipts>>

(* confirm: an administrator sends a candidate, its own or one it was passed,  *)
(* or sends again what it sent under this key. After the authorization comes   *)
(* the first lookup of the import; a conflict changes nothing.                 *)
Confirm(c, a, k) ==
    \E of \in {report[b] : b \in Admins} \cup {sent[<<a, k>>]} :
        LET r == [Idle EXCEPT !.phase = "capture", !.actor = a, !.key = k, !.of = of]
        IN /\ call[c] = Idle /\ of # Absent /\ Request
           /\ sent' = [sent EXCEPT ![<<a, k>>] = of]
           /\ \/ Replay(c, r)
              \/ /\ ~Known(r)
                 /\ call' = [call EXCEPT ![c] = r]
                 /\ UNCHANGED receipts
           /\ UNCHANGED <<source, library, batch, originals, report>>

(* read_authorized_source: the files, *)
CaptureImportFiles(c) ==
    /\ call[c].phase = "capture"
    /\ call' = [call EXCEPT ![c].phase = "captured", ![c].files = repo]
    /\ UNCHANGED <<source, library, batch, originals, report, sent, receipts, count>>

(* then the database in one read-only transaction, compared with the files;    *)
(* validate_import_source wants an old index built from the same text and a    *)
(* library without an import. If this catalog is imported already, a           *)
(* confirmation looks for its own import again.                                *)
ReadSource(c) ==
    /\ call[c].phase = "captured"
    /\ IF library.catalog = Absent /\ legacy.body = BodyOf[call[c].files]
       THEN /\ call' = [call EXCEPT ![c].phase = "read", ![c].stored = LegacyImportSnapshot]
            /\ UNCHANGED receipts
       ELSE \/ call[c].key # Absent /\ library.catalog = CatalogOf[call[c].files] /\ Replay(c, call[c])
            \/ ~Replays(call[c]) /\ End(c) /\ UNCHANGED receipts
            \/ library.catalog # CatalogOf[call[c].files] /\ End(c) /\ UNCHANGED receipts
    /\ UNCHANGED <<source, library, batch, originals, report, sent, count>>

(* The catalog, the source, the release and the reviewer of the command. *)
MutConfirmedBySomeone(r, digest) == [r.of EXCEPT !.actor = digest.actor] = digest
Confirmed(r, digest) == r.of = digest

(* then the files again. A candidate is shown; a confirmation must be of       *)
(* exactly what was read now.                                                  *)
CheckSource(c) ==
    LET r == call[c]
        digest == ImportDigest(r.actor, r.files, r.stored)
    IN /\ r.phase = "read"
       /\ IF r.files # repo THEN End(c) /\ UNCHANGED report
          ELSE IF r.key = Absent THEN End(c) /\ report' = [report EXCEPT ![r.actor] = digest]
          ELSE /\ IF Confirmed(r, digest) THEN Goto(c, "copy") ELSE End(c)
               /\ UNCHANGED report
       /\ UNCHANGED <<source, library, batch, originals, sent, receipts, count>>

(* The originals, from the bytes in memory: an original that is there with     *)
(* other bytes is ORIGINAL_CONFLICT.                                           *)
OriginalsAt(path) == {o \in originals : o.path = path}
CopyOriginals(c) ==
    LET o == [path |-> ImportPlan(call[c]), raw |-> call[c].files]
    IN /\ call[c].phase = "copy"
       /\ IF OriginalsAt(o.path) \subseteq {o}
          THEN originals' = originals \cup {o} /\ Goto(c, "copied")
          ELSE End(c) /\ UNCHANGED originals
       /\ UNCHANGED <<source, library, batch, report, sent, receipts, count>>

(* The files a third time, and the second authorization. *)
Recheck(c) ==
    /\ call[c].phase = "copied"
    /\ IF call[c].files = repo THEN Goto(c, "ready") ELSE End(c)
    /\ UNCHANGED <<source, library, batch, originals, report, sent, receipts, count>>

(* commit, with the old tables and the library row locked: replay, or refuse a *)
(* second import, a library or an old index that has moved, or write the batch.*)
MutUnmoved(r) == library.catalog = Absent /\ library.release = r.of.release
Unmoved(r) ==
    /\ library.catalog = Absent
    /\ library.release = r.of.release
    /\ LegacyImportSnapshot = r.stored

Commit(c) ==
    LET r == call[c]
    IN /\ r.phase = "ready"
       /\ \/ Replay(c, r) /\ UNCHANGED <<batch, library>>
          \/ /\ ~Known(r) /\ Unmoved(r)
             /\ batch' = [actor |-> r.actor, key |-> r.key, of |-> r.of, raw |-> r.files,
                          body |-> r.stored.body, stamp |-> r.stored.stamp, release |-> library.release + 1]
             /\ library' = [catalog |-> CatalogOf[r.files], release |-> library.release + 1]
             /\ receipts' = receipts \cup {Receipt(r)}
             /\ End(c)
          \/ /\ ~Replays(r) /\ (Known(r) \/ ~Unmoved(r))
             /\ End(c)
             /\ UNCHANGED <<batch, library, receipts>>
       /\ UNCHANGED <<source, originals, report, sent, count>>

(* An authorization is refused, storage or the database fails, or the process  *)
(* dies: originals that were copied stay.                                      *)
Fails(c) ==
    /\ call[c] # Idle
    /\ End(c)
    /\ UNCHANGED <<source, library, batch, originals, report, sent, receipts, count>>

----------------------------------------------------------------------------
(* What happens around the import. *)

EditRepository(r) ==
    /\ repo' = r /\ r # repo /\ Move
    /\ UNCHANGED <<ingesting, legacy, library, batch, originals, report, sent, call, receipts>>

(* ingest_catalog: files and embeddings first, then the replacement of the     *)
(* whole index in one transaction.                                             *)
IngestReads ==
    /\ ingesting = Absent /\ Move
    /\ ingesting' = repo
    /\ UNCHANGED <<repo, legacy, library, batch, originals, report, sent, call, receipts>>

IngestWrites ==
    /\ ingesting # Absent
    /\ legacy' = [body |-> BodyOf[ingesting], stamp |-> legacy.stamp + 1]
    /\ ingesting' = Absent
    /\ UNCHANGED <<repo, library, batch, originals, report, sent, call, receipts, count>>

(* A publication or a withdrawal in the managed library (KnowledgeLifecycle). *)
OtherRelease ==
    /\ Move
    /\ library' = [library EXCEPT !.release = @ + 1]
    /\ UNCHANGED <<source, batch, originals, report, sent, call, receipts>>

CallStep(c) ==
    \/ \E a \in Admins : Prepare(c, a)
    \/ \E a \in Admins, k \in ConfirmationKeys : Confirm(c, a, k)
    \/ CaptureImportFiles(c) \/ ReadSource(c) \/ CheckSource(c)
    \/ CopyOriginals(c) \/ Recheck(c) \/ Commit(c) \/ Fails(c)

ImportNext ==
    \/ \E c \in Calls : CallStep(c)
    \/ \E r \in Raws : EditRepository(r)
    \/ IngestReads \/ IngestWrites \/ OtherRelease

ImportSpec == ImportInit /\ [][ImportNext]_importVars

----------------------------------------------------------------------------
(* What an attempt that failed left in the storage is never in the way of     *)
(* another one: the originals of a command have the bytes it was signed for.  *)
OriginalsNeverConflict ==
    \A c \in Calls : call[c].phase = "copy" =>
        \A o \in OriginalsAt(ImportPlan(call[c])) : o.raw = call[c].files

(* The batch is what its administrator reviewed: the candidate it confirmed   *)
(* was made for it, from the bytes and the old index that were imported, at   *)
(* the release the batch followed, and the stored originals have these bytes, *)
(* whatever earlier attempts left there.                                      *)
ImportedAsReviewed ==
    /\ OriginalsNeverConflict
    /\ batch # Absent =>
          /\ batch.of = [actor |-> batch.actor, raw |-> batch.raw, stamp |-> batch.stamp,
                         release |-> batch.release - 1]
          /\ batch.body = BodyOf[batch.raw]
          /\ OriginalsAt(ImportPlan(batch)) = {[path |-> ImportPlan(batch), raw |-> batch.raw]}

(* A receipt is returned only for an import that is in the library, to the    *)
(* administrator and for the command that made it, and all name one release;  *)
(* replays, lost answers and concurrent confirmations do not change that.     *)
ReceiptsTruthful ==
    \A x \in receipts :
        batch # Absent /\ x = [actor |-> batch.actor, key |-> batch.key, of |-> batch.of, release |-> batch.release]

(* The library is imported into once, from the index that the old search      *)
(* serves at that moment, and keeps the batch whatever happens later.         *)
ImportedOnce ==
    [][/\ batch # Absent => batch' = batch /\ library'.catalog = library.catalog
       /\ batch # batch' => batch'.stamp = legacy.stamp /\ batch'.body = legacy.body]_importVars

----------------------------------------------------------------------------
(* What makes the properties above inductive.                                 *)

Phases == {"idle", "capture", "captured", "read", "copy", "copied", "ready"}
Snapshots == [body : Bodies, stamp : Nat, release : Nat, catalog : Catalogs \cup {Absent}]
Paths == [actor : Admins, key : ConfirmationKeys, of : Digests]
CallRecord == [phase : Phases, actor : Admins \cup {Absent}, key : ConfirmationKeys \cup {Absent},
               of : Digests \cup {Absent}, files : Raws \cup {Absent}, stored : Snapshots \cup {Absent}]

ImportTypeOK ==
    /\ repo \in Raws /\ ingesting \in Raws \cup {Absent}
    /\ legacy \in [body : Bodies, stamp : Nat]
    /\ library \in [catalog : Catalogs \cup {Absent}, release : Nat]
    /\ batch \in Batches \cup {Absent}
    /\ originals \subseteq [path : Paths, raw : Raws]
    /\ report \in [Admins -> Digests \cup {Absent}]
    /\ sent \in [Admins \X ConfirmationKeys -> Digests \cup {Absent}]
    /\ call \in [Calls -> CallRecord]

(* What a call in a phase has read and compared, and what it has stored.      *)
Knows(r) ==
    /\ r.phase # "idle" => /\ r.actor \in Admins
                           /\ r.key # Absent => r.key \in ConfirmationKeys /\ r.of \in Digests
    /\ r.phase \in {"captured", "read", "copy", "copied", "ready"} => r.files \in Raws
    /\ r.phase \in {"read", "copy", "copied", "ready"} =>
          r.stored \in Snapshots /\ r.stored.body = BodyOf[r.files]
    /\ r.phase \in {"copy", "copied", "ready"} =>
          /\ r.key \in ConfirmationKeys
          /\ r.of = ImportDigest(r.actor, r.files, r.stored)
    /\ r.phase \in {"copied", "ready"} =>
          [path |-> ImportPlan(r), raw |-> r.files] \in originals

CallsKnow == \A c \in Calls : Knows(call[c])

(* An original under the path of a command has the bytes that were signed.    *)
SignedOriginals == \A o \in originals : o.raw = o.path.of.raw

(* A batch fills the library's one slot, with the originals it was made from. *)
BatchInLibrary ==
    batch # Absent =>
        /\ library.catalog # Absent
        /\ batch.of = [actor |-> batch.actor, raw |-> batch.raw, stamp |-> batch.stamp,
                       release |-> batch.release - 1]
        /\ batch.body = BodyOf[batch.raw]
        /\ [path |-> ImportPlan(batch), raw |-> batch.raw] \in originals

ImportIInv ==
    ImportTypeOK /\ CallsKnow /\ SignedOriginals /\ BatchInLibrary /\ ReceiptsTruthful
============================================================================
