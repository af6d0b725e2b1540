-------------------------- MODULE KnowledgeProofs --------------------------
(* The properties of the two components that write the managed library: those *)
(* of KnowledgeLifecycle for any number of versions, uploads, publications,   *)
(* retries, withdrawals and management processes, then those of CatalogImport *)
(* for any number of administrators, keys, calls and states of the repository,*)
(* and whatever its two bounds. CatalogImport gives its Init, Next, Spec and  *)
(* TypeOK the prefix Import, so that the two can be extended together.        *)
EXTENDS KnowledgeLifecycle, CatalogImport, SequenceTheorems, FiniteSetTheorems, TLAPS

Revision == [raw : Contents, body : Contents \cup {Null}]

\* The kinds of operations exclude each other.
LEMMA Kinds ==
    /\ Builds \subseteq Keys /\ Publications \subseteq Builds /\ Retries \subseteq Builds
    /\ Uploads \subseteq Keys /\ Disables \subseteq Keys
    /\ \A k \in Uploads : k \notin Builds /\ k \notin Disables
    /\ \A k \in Disables : k \notin Builds
    /\ \A k \in Publications : k \notin Retries
    /\ \A k \in Keys : k \notin Builds => k \in Uploads \/ k \in Disables
    /\ Null \notin Versions /\ Null \notin Keys /\ Null \notin Contents
BY KeysAssumption DEF Keys, Builds

\* A client composes an operation, or composes it again.
LEMMA DraftKeeps ==
    ASSUME KnowledgeIInv, NEW k \in Keys, op[k].state \in {"NONE", "DRAFT"},
           NEW i \in Intents, i.state = "DRAFT", op' = [op EXCEPT ![k] = i],
           k \notin Uploads => i.version \in Versions,
           k \in Uploads => /\ i.raw \in Contents
                            /\ i.version = Null => i.revision = 1
                            /\ \A s \in Services : upload[s].key # k,
           k \in Retries => /\ i.source \in Builds \ {k}
                            /\ op[i.source].state = "FAILED" /\ gen[i.source] = "FAILED"
                            /\ op[i.source].version = i.version
                            /\ op[i.source].revision = i.revision,
           UNCHANGED <<docVars, revs, lapsed, task, owner, gen, files, procVars>>
    PROVE  KnowledgeIInv'
<1> USE Kinds DEF KnowledgeIInv, docVars, procVars
<1>1. TypeOK'
  BY DEF TypeOK
<1>2. /\ op'[k] = i /\ \A j \in Keys : j # k => op'[j] = op[j]
      /\ ~Accepted(k) /\ ~Accepted(k)' /\ ~Active(k) /\ ~Active(k)'
      /\ \A j \in Keys : Accepted(j)' <=> Accepted(j)
      /\ \A j \in Keys : Active(j)' <=> Active(j)
  BY DEF TypeOK, Accepted, Active
<1>3. VersionsKept' /\ OnePublished'
  BY DEF VersionsKept, OnePublished, Published
<1>4. IntentsKept'
  BY <1>2 DEF IntentsKept
<1>5. ReservationsKept'
  BY <1>2 DEF ReservationsKept
<1>6. UploadsKept'
  BY <1>2 DEF UploadsKept
<1>7. HandsKept'
  BY <1>2 DEF HandsKept
<1>8. FilesKept'
  BY <1>2 DEF FilesKept, HandsKept
<1>9. SealsKept'
  BY <1>2 DEF SealsKept, SealedBy
<1>10. OneInProgress'
  BY <1>2 DEF OneInProgress
<1>11. StateTable' /\ RetryChain'
  BY <1>2 DEF StateTable, RowsAgree, RetryChain, ReservationsKept
<1> QED
  BY <1>1, <1>3, <1>4, <1>5, <1>6, <1>7, <1>8, <1>9, <1>10, <1>11

\* The four ways in which a client composes an operation.
LEMMA ComposeKeeps ==
    ASSUME KnowledgeIInv,
           \/ \E k \in Uploads, v \in Versions \cup {Null}, c \in Contents : DraftUpload(k, v, c)
           \/ \E k \in Publications, v \in Versions : PreparePublication(k, v)
           \/ \E k \in Disables : PrepareDisable(k)
           \/ \E s \in Services, k \in Retries, j \in Builds : PrepareRetry(s, k, j)
    PROVE  KnowledgeIInv'
<1> USE Kinds DEF Intents, NoIntent, OpStates
<1>0. /\ row \in Nat /\ current \in Versions \cup {Null} /\ op \in [Keys -> Intents]
      /\ \A v \in Versions : Len(revs[v]) \in Nat
  BY DEF KnowledgeIInv, TypeOK
<1>5. ASSUME NEW v \in Versions, NEW n \in 1..Len(revs[v])
      PROVE  revs[v][n].raw \in Contents
  <2>1. revs[v] \in Seq(Revision)
    BY DEF KnowledgeIInv, TypeOK, Revision
  <2>2. revs[v][n] \in Revision
    BY <2>1, ElementOfSeq
  <2> QED
    BY <2>2 DEF Revision
<1>1. ASSUME NEW k \in Uploads, NEW v \in Versions \cup {Null}, NEW c \in Contents,
             DraftUpload(k, v, c)
      PROVE  KnowledgeIInv'
  <2>1. PICK i : i = [NoIntent EXCEPT !.state = "DRAFT", !.version = v, !.raw = c, !.row = row,
                                      !.previous = current,
                                      !.revision = IF v = Null THEN 1 ELSE Len(revs[v]) + 1]
    OBVIOUS
  <2>2. i \in Intents /\ i.state = "DRAFT" /\ i.version = v /\ i.raw = c
        /\ (v = Null => i.revision = 1)
    <3>1. (IF v = Null THEN 1 ELSE Len(revs[v]) + 1) \in Nat
      BY <1>0
    <3> QED
      BY <1>0, <2>1, <3>1
  <2> QED
    BY <1>1, <2>1, <2>2, DraftKeeps, ZenonT(60) DEF DraftUpload
<1>2. ASSUME NEW k \in Publications, NEW v \in Versions, PreparePublication(k, v)
      PROVE  KnowledgeIInv'
  <2>1. PICK n : n = Len(revs[v])
    OBVIOUS
  <2>2. PICK i : i = [NoIntent EXCEPT !.state = "DRAFT", !.version = v, !.revision = n,
                                      !.row = row, !.previous = current,
                                      !.raw = revs[v][n].raw]
    OBVIOUS
  <2>3. n \in 1..Len(revs[v])
    <3>1. n \in Nat /\ n > 0
      BY <1>0, <1>2, <2>1 DEF PreparePublication
    <3> QED
      BY <2>1, <3>1
  <2>4. i \in Intents /\ i.state = "DRAFT" /\ i.version = v
    <3>1. revs[v][n].raw \in Contents /\ n \in Nat
      BY <1>0, <1>5, <2>3
    <3> QED
      BY <1>0, <2>2, <3>1
  <2> QED
    BY <1>2, <2>1, <2>2, <2>4, DraftKeeps, ZenonT(60) DEF PreparePublication
<1>3. ASSUME NEW k \in Disables, PrepareDisable(k)
      PROVE  KnowledgeIInv'
  <2>1. /\ current \in Versions /\ sealed[current] \in [revision : Nat, gen : Builds]
    <3>1. current \in Versions /\ vstate[current] \in SealedStates
      BY <1>3, <1>0 DEF PrepareDisable, KnowledgeIInv, OnePublished, Published, SealedStates
    <3>2. PICK p \in Publications : op[p].state = "SUCCEEDED" /\ op[p].version = current
      BY <3>1 DEF KnowledgeIInv, SealsKept
    <3>3. sealed[current] = [revision |-> op[p].revision, gen |-> op[p].gen]
      BY <3>1, <3>2, ZenonT(60) DEF KnowledgeIInv, SealsKept, SealedBy
    <3>4. op[p].revision \in Nat /\ op[p].gen \in Builds
      BY <3>2, <1>0 DEF KnowledgeIInv, ReservationsKept, Accepted
    <3> QED
      BY <3>1, <3>3, <3>4
  <2>2. PICK i : i = [NoIntent EXCEPT !.state = "DRAFT", !.version = current, !.row = row,
                                      !.revision = sealed[current].revision,
                                      !.previous = current, !.gen = sealed[current].gen]
    OBVIOUS
  <2>3. i \in Intents /\ i.state = "DRAFT" /\ i.version = current
    BY <1>0, <2>1, <2>2
  <2> QED
    BY <1>3, <2>1, <2>2, <2>3, DraftKeeps DEF PrepareDisable
<1>4. ASSUME NEW s \in Services, NEW k \in Retries, NEW j \in Builds, PrepareRetry(s, k, j)
      PROVE  KnowledgeIInv'
  <2>1. PICK i : i = [NoIntent EXCEPT !.state = "DRAFT", !.source = j, !.row = row,
                                      !.version = op[j].version, !.revision = op[j].revision,
                                      !.previous = current, !.raw = op[j].raw]
    OBVIOUS
  <2>2. op[j].state = "FAILED" /\ gen[j] = "FAILED" /\ op[k].state \in {"NONE", "DRAFT"}
    BY <1>4 DEF PrepareRetry, RetrySource, ChainTail
  <2>3. op[j] \in Intents /\ op[j].version \in Versions /\ j # k
    BY <1>0, <2>2 DEF KnowledgeIInv, IntentsKept
  <2>4. /\ i \in Intents /\ i.state = "DRAFT" /\ i.version = op[j].version
        /\ i.source = j /\ i.revision = op[j].revision
    BY <1>0, <2>1, <2>3
  <2> QED
    BY <1>4, <2>1, <2>2, <2>3, <2>4, DraftKeeps, ZenonT(60) DEF PrepareRetry
<1> QED
  BY <1>1, <1>2, <1>3, <1>4

\* Only the state of an operation changes.
SameIntent(k) ==
    /\ op'[k].version = op[k].version /\ op'[k].revision = op[k].revision
    /\ op'[k].raw = op[k].raw /\ op'[k].source = op[k].source /\ op'[k].gen = op[k].gen

Row(k) == <<op[k].state, task[k], gen[k]>>
Waiting == <<"CONFIRMED", "QUEUED", "BUILDING">>
Working == <<"EXECUTING", "RUNNING", "BUILDING">>
Built == <<"EXECUTING", "SUCCEEDED", "READY">>
Ended == {<<"STALE", "STALE", "FAILED">>, <<"FAILED", "FAILED", "FAILED">>,
          <<"FAILED", "INTERRUPTED", "FAILED">>}

\* How the rows of a build move: claimed, built, ended, or its publication
\* decided once its generation is READY.
BuildMove(k) ==
    /\ SameIntent(k)
    /\ \/ Row(k)' = Row(k)
       \/ Row(k) = Waiting /\ Row(k)' = Working
       \/ Row(k) \in {Waiting, Working} /\ Row(k)' \in Ended
       \/ Row(k) = Working /\ k \in Publications /\ Row(k)' = Built
       \/ Row(k) = Working /\ k \in Retries /\ Row(k)' = <<"SUCCEEDED", "SUCCEEDED", "READY">>
       \/ /\ Active(k) /\ gen[op[k].gen] = "READY"
          /\ op'[k].state \in {"STALE", "FAILED", "SUCCEEDED"}
          /\ task'[k] = task[k] /\ gen'[k] = gen[k]

\* An upload is accepted, or a withdrawal done.
OtherMove(k) ==
    /\ gen'[k] = gen[k]
    /\ \/ op'[k] = op[k]
       \/ /\ op[k].state = "DRAFT" /\ op'[k].state = "SUCCEEDED"
          /\ op'[k].raw = op[k].raw
          /\ k \in Disables => op'[k].version = op[k].version
    /\ ~Accepted(k)' => task'[k] = task[k]

RowsKept ==
    IntentsKept /\ ReservationsKept /\ OneInProgress /\ StateTable /\ RetryChain

\* What such a move leaves as it is.
LEMMA Moved ==
    ASSUME NEW k \in Builds, BuildMove(k)
    PROVE  /\ SameIntent(k)
           /\ Accepted(k)' <=> Accepted(k)
           /\ op'[k].state = "NONE" <=> op[k].state = "NONE"
           /\ Active(k)' => Active(k)
           /\ op[k].state \in {"SUCCEEDED", "FAILED", "STALE"} => op'[k].state = op[k].state
           /\ gen[k] \in {"NONE", "READY", "FAILED"} => gen'[k] = gen[k]
           /\ gen'[k] = "NONE" => gen[k] = "NONE"
           /\ ~Accepted(k) => task'[k] = task[k]
<1>1. CASE Row(k)' = Row(k)
  <2>1. op'[k].state = op[k].state /\ task'[k] = task[k] /\ gen'[k] = gen[k]
    BY <1>1 DEF Row
  <2> QED
    BY <2>1 DEF BuildMove, Accepted, Active
<1>2. CASE Row(k) \in {Waiting, Working} /\ Row(k)' \in {Working, Built,
              <<"SUCCEEDED", "SUCCEEDED", "READY">>} \cup Ended
  <2>1. /\ op[k].state \in {"CONFIRMED", "EXECUTING"} /\ gen[k] = "BUILDING"
        /\ op'[k].state \in {"EXECUTING", "SUCCEEDED", "STALE", "FAILED"}
        /\ gen'[k] # "NONE"
    BY <1>2 DEF Row, Waiting, Working, Built, Ended
  <2> QED
    BY <2>1 DEF BuildMove, Accepted, Active
<1>3. CASE /\ Active(k) /\ op'[k].state \in {"STALE", "FAILED", "SUCCEEDED"}
           /\ task'[k] = task[k] /\ gen'[k] = gen[k]
  BY <1>3 DEF BuildMove, Accepted, Active
<1> QED
  BY <1>1, <1>2, <1>3 DEF BuildMove

\* Rows that only move so keep what the invariant says of them.
LEMMA RowsMove ==
    ASSUME RowsKept, op \in [Keys -> Intents],
           \A k \in Builds : BuildMove(k), \A k \in Keys : k \notin Builds => OtherMove(k)
    PROVE  RowsKept'
<1> USE Kinds DEF RowsKept
<1>1. ASSUME NEW k \in Builds
      PROVE  /\ SameIntent(k)
             /\ Accepted(k)' <=> Accepted(k)
             /\ op'[k].state = "NONE" <=> op[k].state = "NONE"
             /\ Active(k)' => Active(k)
             /\ op[k].state = "FAILED" => op'[k].state = "FAILED"
             /\ gen[k] \in {"NONE", "READY", "FAILED"} => gen'[k] = gen[k]
             /\ gen'[k] = "NONE" => gen[k] = "NONE"
             /\ ~Accepted(k) => task'[k] = task[k]
  BY Moved
<1>2. ASSUME NEW k \in Keys, k \notin Builds
      PROVE  /\ gen'[k] = "NONE" /\ op'[k].state \in {"NONE", "DRAFT", "SUCCEEDED"}
             /\ ~Accepted(k)' => ~Accepted(k) /\ task'[k] = "NONE"
  BY <1>2 DEF OtherMove, ReservationsKept, Accepted
<1>3. IntentsKept'
  <2> SUFFICES ASSUME NEW k \in Keys, op'[k].state # "NONE"
               PROVE  /\ k \notin Uploads => op'[k].version \in Versions
                      /\ k \in Uploads => op'[k].raw \in Contents
                      /\ k \in Uploads /\ op'[k].state = "DRAFT" /\ op'[k].version = Null
                            => op'[k].revision = 1
                      /\ k \in Retries =>
                            LET j == op'[k].source IN
                            /\ j \in Builds \ {k}
                            /\ op'[j].state = "FAILED" /\ gen'[j] = "FAILED"
                            /\ op'[j].version = op'[k].version
                            /\ op'[j].revision = op'[k].revision
    BY DEF IntentsKept
  <2>1. CASE k \in Builds
    BY <1>1, <2>1 DEF IntentsKept, SameIntent
  <2>2. CASE k \in Uploads
    BY <2>2 DEF IntentsKept, OtherMove
  <2>3. CASE k \in Disables
    BY <2>3 DEF IntentsKept, OtherMove
  <2> QED
    BY <2>1, <2>2, <2>3
<1>4. ReservationsKept'
  BY <1>1, <1>2 DEF ReservationsKept, SameIntent
<1>5. OneInProgress' /\ RetryChain'
  BY <1>1 DEF OneInProgress, RetryChain, SameIntent
<1>6. StateTable'
  <2> SUFFICES ASSUME NEW k \in Builds, Accepted(k)
               PROVE  RowsAgree(k)'
    BY <1>1 DEF StateTable
  <2>0. BuildMove(k) /\ RowsAgree(k) /\ op'[k].gen = op[k].gen /\ op[k].gen \in Builds
    BY DEF BuildMove, SameIntent, ReservationsKept, StateTable
  <2>1. CASE Row(k)' = Row(k)
    <3>1. op'[k].state = op[k].state /\ task'[k] = task[k] /\ gen'[k] = gen[k]
      BY <2>1 DEF Row
    <3> QED
      BY <1>1, <2>0, <3>1 DEF RowsAgree
  <2>2. CASE /\ Row(k) \in {Waiting, Working}
             /\ \/ Row(k)' \in {Working, <<"SUCCEEDED", "SUCCEEDED", "READY">>} \cup Ended
                \/ Row(k)' = Built /\ k \in Publications
    <3>1. gen[k] = "BUILDING" /\ op[k].gen = k
      BY <2>2 DEF Row, Waiting, Working, ReservationsKept
    <3> QED
      BY <2>0, <2>2, <3>1 DEF RowsAgree, OwnRows, WaitingRows, Row, Waiting, Working, Built, Ended
  <2>3. CASE /\ Active(k) /\ gen[op[k].gen] = "READY"
             /\ op'[k].state \in {"STALE", "FAILED", "SUCCEEDED"}
             /\ task'[k] = task[k] /\ gen'[k] = gen[k]
    <3>1. CASE op[k].gen = k
      <4>1. task[k] = "SUCCEEDED" /\ gen[k] = "READY" /\ k \notin Retries
        BY <2>0, <2>3, <3>1 DEF RowsAgree, OwnRows, WaitingRows, Active
      <4> QED
        BY <2>0, <2>3, <3>1, <4>1 DEF RowsAgree, OwnRows, WaitingRows
    <3>2. CASE op[k].gen # k
      BY <1>1, <2>0, <2>3, <3>2 DEF RowsAgree
    <3> QED
      BY <3>1, <3>2
  <2> QED
    BY <2>0, <2>1, <2>2, <2>3 DEF BuildMove
<1> QED
  BY <1>3, <1>4, <1>5, <1>6

\* A process lets go of what it holds, or goes one step further with it.
HandMove(s) ==
    /\ \/ upload'[s] = NoUpload
       \/ upload'[s] = upload[s]
       \/ upload[s].phase = "accepted" /\ upload'[s] = [upload[s] EXCEPT !.phase = "parsing"]
    /\ svc[s] = "ready" => svc'[s] = "ready" \/ upload'[s] = NoUpload
    /\ fin'[s].phase # "idle" =>
          \/ fin'[s].key = fin[s].key /\ fin[s].phase # "idle"
          \/ LET p == fin'[s].key IN
             p \in Publications /\ Accepted(p) /\ gen[op[p].gen] = "READY"

Hand == [key : Uploads \cup {Null}, phase : {"idle", "planned", "stored", "accepted", "parsing"},
         version : Versions \cup {Null}, revision : Nat]

\* What is held after such a step.
LEMMA HandMoved ==
    ASSUME NEW s \in Services, HandMove(s), upload[s] \in Hand
    PROVE  /\ upload'[s].version \in {Null, upload[s].version}
           /\ upload'[s].phase = "stored" => upload'[s] = upload[s]
           /\ upload'[s].phase # "idle" /\ svc[s] = "ready" => svc'[s] = "ready"
<1>1. CASE upload'[s] = NoUpload
  BY <1>1 DEF NoUpload
<1>2. CASE upload'[s] = upload[s]
  BY <1>2 DEF HandMove, NoUpload
<1>3. CASE upload'[s] = [upload[s] EXCEPT !.phase = "parsing"]
  <2>1. upload'[s].version = upload[s].version /\ upload'[s].phase = "parsing"
    BY <1>3 DEF Hand
  <2> QED
    BY <2>1 DEF HandMove, NoUpload
<1> QED
  BY <1>1, <1>2, <1>3 DEF HandMove

\* Steps in which rows of builds move and hands are emptied, and no revision or
\* original changes: what does not depend on the state of the document.
LEMMA RowsHandsKeep ==
    ASSUME KnowledgeIInv,
           \A k \in Builds : BuildMove(k),
           \A k \in Disables : OtherMove(k),
           \A k \in Uploads : op'[k] = op[k] /\ gen'[k] = gen[k]
                               /\ (~Accepted(k) => task'[k] = task[k]),
           \A s \in Services : HandMove(s),
           UNCHANGED <<revs, files>>
    PROVE  RowsKept' /\ UploadsKept' /\ HandsKept' /\ FilesKept'
<1> USE Kinds DEF KnowledgeIInv
<1>0. op \in [Keys -> Intents] /\ \A s \in Services : upload[s] \in Hand
  BY DEF TypeOK, Hand
<1>1. RowsKept'
  <2>1. \A k \in Keys : k \notin Builds => OtherMove(k)
    BY DEF OtherMove, Accepted
  <2> QED
    BY <1>0, <2>1, RowsMove DEF RowsKept
<1>2. ASSUME NEW k \in Builds \cup Uploads
      PROVE  /\ Accepted(k)' <=> Accepted(k)
             /\ SameIntent(k)
             /\ op[k].state # "NONE" => op'[k].state # "NONE"
             /\ gen[k] = "READY" => gen'[k] = "READY"
             /\ k \in Uploads => op'[k] = op[k]
  <2>1. CASE k \in Builds
    BY <2>1, Moved
  <2>2. CASE k \in Uploads
    BY <2>2 DEF SameIntent, Accepted
  <2> QED
    BY <2>1, <2>2
<1>4. UploadsKept'
  BY <1>2 DEF UploadsKept, SameIntent
<1>5. HandsKept'
  <2> SUFFICES ASSUME NEW s \in Services, NEW p, p = fin'[s].key, NEW u, u = upload'[s],
                      NEW k, k = u.key
               PROVE  /\ fin'[s].phase # "idle" =>
                            p \in Publications /\ Accepted(p)' /\ gen'[op'[p].gen] = "READY"
                      /\ u.phase # "idle" => /\ svc'[s] = "ready" /\ k \in Uploads
                                             /\ op'[k].state # "NONE"
                      /\ u.phase \in {"accepted", "parsing"} => Accepted(k)'
                      /\ u.phase \in {"planned", "stored"} => u.version \in Versions
                      /\ u.phase \in {"planned", "stored"} /\ ~Accepted(k)' =>
                            /\ u.revision = op'[k].revision
                            /\ op'[k].version # Null => u.version = op'[k].version
                            /\ op'[k].version = Null =>
                                  /\ revs'[u.version] = <<>>
                                  /\ \A o \in Services \ {s} : upload'[o].version # u.version
    BY DEF HandsKept, Accepted
  <2>1. ASSUME fin'[s].phase # "idle"
        PROVE  p \in Publications /\ Accepted(p)' /\ gen'[op'[p].gen] = "READY"
    <3>2. p \in Publications /\ Accepted(p) /\ gen[op[p].gen] = "READY"
      <4>1. CASE fin'[s].key = fin[s].key /\ fin[s].phase # "idle"
        BY <4>1 DEF HandsKept, Accepted
      <4>2. CASE LET q == fin'[s].key IN
                 q \in Publications /\ Accepted(q) /\ gen[op[q].gen] = "READY"
        BY <4>2
      <4> QED
        BY <2>1, <4>1, <4>2 DEF HandMove
    <3>3. op[p].gen \in Builds /\ p \in Builds
      BY <3>2 DEF ReservationsKept
    <3>4. op'[p].gen = op[p].gen /\ Accepted(p)'
      BY <1>2, <3>2, <3>3 DEF SameIntent
    <3> QED
      BY <1>2, <3>2, <3>3, <3>4
  <2>2. CASE u = NoUpload
    BY <2>1, <2>2 DEF NoUpload
  <2>3. CASE u = upload[s] /\ u.phase # "idle"
    <3>0. svc[s] = "ready" /\ k \in Uploads /\ op[k].state # "NONE"
      BY <2>3 DEF HandsKept
    <3>1. svc'[s] = "ready" /\ k \in Uploads /\ op[k].state # "NONE" /\ op'[k] = op[k]
      BY <1>0, <1>2, <2>3, <3>0, HandMoved
    <3>2. \A o \in Services : upload'[o].version \in {Null, upload[o].version}
      BY <1>0, HandMoved
    <3>3. u.phase \in {"planned", "stored"} => u.version \in Versions
      BY <2>3 DEF HandsKept
    <3>4. Accepted(k)' <=> Accepted(k)
      BY <1>2, <3>1
    <3>5. u.phase \in {"accepted", "parsing"} => Accepted(k)
      BY <2>3 DEF HandsKept, Accepted
    <3>6. u.phase \in {"planned", "stored"} /\ ~Accepted(k) =>
             /\ u.revision = op[k].revision
             /\ op[k].version # Null => u.version = op[k].version
             /\ op[k].version = Null =>
                   /\ revs[u.version] = <<>>
                   /\ \A o \in Services \ {s} : upload[o].version # u.version
      BY <2>3 DEF HandsKept, Accepted
    <3> QED
      BY <2>1, <3>1, <3>2, <3>3, <3>4, <3>5, <3>6
  <2>4. CASE upload[s].phase = "accepted" /\ upload'[s] = [upload[s] EXCEPT !.phase = "parsing"]
    <3>1. u.phase = "parsing" /\ k = upload[s].key
      BY <1>0, <2>4 DEF Hand
    <3>0. svc[s] = "ready" /\ k \in Uploads /\ Accepted(k)
      BY <2>4, <3>1 DEF HandsKept, Accepted
    <3>2. svc'[s] = "ready" /\ k \in Uploads /\ Accepted(k)
      BY <1>0, <3>0, <3>1, HandMoved
    <3>3. op'[k] = op[k]
      BY <1>2, <3>2
    <3> QED
      BY <1>2, <2>1, <3>1, <3>2, <3>3 DEF Accepted
  <2>5. CASE u = upload[s] /\ u.phase = "idle"
    BY <2>1, <2>5
  <2> QED
    BY <2>2, <2>3, <2>4, <2>5 DEF HandMove
<1>6. FilesKept'
  <2>1. ASSUME NEW s \in Services, upload'[s].phase = "stored"
        PROVE  upload'[s] = upload[s] /\ op'[upload[s].key].raw = op[upload[s].key].raw
    <3>1. upload'[s] = upload[s]
      BY <1>0, <2>1, HandMoved
    <3>2. PICK k : k = upload[s].key
      OBVIOUS
    <3>3. k \in Uploads
      BY <2>1, <3>1, <3>2 DEF HandsKept
    <3> QED
      BY <1>2, <3>1, <3>2, <3>3
  <2> QED
    BY <2>1 DEF FilesKept
<1> QED
  BY <1>1, <1>4, <1>5, <1>6

\* The same when the state of the document stays too.
LEMMA RowsOnlyKeeps ==
    ASSUME KnowledgeIInv, TypeOK',
           \A k \in Builds : BuildMove(k),
           \A k \in Keys : k \notin Builds => op'[k] = op[k] /\ gen'[k] = gen[k]
                                              /\ (~Accepted(k) => task'[k] = task[k]),
           \A k \in Publications : op'[k].state = "SUCCEEDED" => op[k].state = "SUCCEEDED",
           \A s \in Services : HandMove(s),
           UNCHANGED <<current, vstate, sealed, revs, files>>
    PROVE  KnowledgeIInv'
<1> USE Kinds DEF KnowledgeIInv
<1>1. RowsKept' /\ UploadsKept' /\ HandsKept' /\ FilesKept'
  <2>1. \A k \in Disables : OtherMove(k)
    BY DEF OtherMove, Accepted
  <2> QED
    BY <2>1, RowsHandsKeep
<1>3. VersionsKept' /\ OnePublished'
  BY DEF VersionsKept, OnePublished, Published
<1>4. SealsKept'
  <2>1. ASSUME NEW p \in Publications
        PROVE  /\ op'[p].state = "SUCCEEDED" <=> op[p].state = "SUCCEEDED"
               /\ SameIntent(p)
               /\ op[p].state = "SUCCEEDED" /\ gen[op[p].gen] = "READY"
                     => gen'[op'[p].gen] = "READY"
    <3>1. op'[p].state = "SUCCEEDED" <=> op[p].state = "SUCCEEDED"
      BY Moved
    <3>2. op[p].state = "SUCCEEDED" => op[p].gen \in Builds
      BY DEF ReservationsKept, Accepted
    <3> QED
      BY <3>1, <3>2, Moved DEF SameIntent
  <2>2. ASSUME NEW p \in Publications, NEW w \in Versions,
               op'[p].state = "SUCCEEDED", op'[p].version = w
        PROVE  vstate'[w] \in SealedStates /\ SealedBy(w, p)'
    <3>1. op[p].version = w /\ op[p].state = "SUCCEEDED"
      BY <2>1, <2>2 DEF SameIntent
    <3>2. vstate[w] \in SealedStates /\ SealedBy(w, p)
      BY <3>1 DEF SealsKept
    <3> QED
      BY <2>1, <2>2, <3>2 DEF SealedBy, SameIntent
  <2>3. \A p, h \in Publications :
           op'[p].state = "SUCCEEDED" /\ op'[h].state = "SUCCEEDED"
              /\ op'[p].version = op'[h].version => p = h
    BY <2>1 DEF SealsKept, SameIntent
  <2>4. \A w \in Versions : vstate'[w] \in SealedStates =>
           \E p \in Publications : op'[p].state = "SUCCEEDED" /\ op'[p].version = w
    BY <2>1 DEF SealsKept, SameIntent
  <2> QED
    BY <2>2, <2>3, <2>4 DEF SealsKept
<1> QED
  BY <1>1, <1>3, <1>4 DEF RowsKept

\* A build under construction is waiting for its claim or claimed.
LEMMA Underway ==
    ASSUME KnowledgeIInv, NEW k \in Builds, Unfinished(k) \/ gen[k] = "BUILDING"
    PROVE  Row(k) \in {Waiting, Working} /\ Active(k) /\ Unfinished(k) /\ gen[k] = "BUILDING"
<1>1. Accepted(k)
  BY Kinds DEF KnowledgeIInv, ReservationsKept, Unfinished
<1>2. RowsAgree(k)
  BY <1>1 DEF KnowledgeIInv, StateTable
<1>3. op[k].gen = k
  BY <1>2 DEF RowsAgree, Unfinished
<1> QED
  BY <1>2, <1>3 DEF RowsAgree, OwnRows, WaitingRows, Row, Waiting, Working, Active, Unfinished

\* Rows that stay.
LEMMA StillMoves ==
    ASSUME NEW k, op'[k] = op[k], task'[k] = task[k], gen'[k] = gen[k]
    PROVE  BuildMove(k)
BY DEF BuildMove, SameIntent, Row

\* Hands that stay.
LEMMA StillHands ==
    ASSUME NEW s, upload'[s] = upload[s] \/ upload'[s] = NoUpload,
           svc'[s] = svc[s], fin'[s] = fin[s] \/ fin'[s] = NoFinalize
    PROVE  HandMove(s)
BY DEF HandMove, NoFinalize

\* Types of what a step changes.
LEMMA TypeParts ==
    ASSUME TypeOK
    PROVE  /\ row \in Nat /\ op \in [Keys -> Intents] /\ task \in [Keys -> TaskStates]
           /\ gen \in [Keys -> {"NONE", "BUILDING", "READY", "FAILED"}]
           /\ upload \in [Services -> Hand]
           /\ \A k \in Keys, x \in OpStates :
                 /\ [op[k] EXCEPT !.state = x] \in Intents
                 /\ [op[k] EXCEPT !.state = x].state = x
                 /\ [op[k] EXCEPT !.state = x].version = op[k].version
                 /\ [op[k] EXCEPT !.state = x].revision = op[k].revision
                 /\ [op[k] EXCEPT !.state = x].raw = op[k].raw
                 /\ [op[k] EXCEPT !.state = x].source = op[k].source
                 /\ [op[k] EXCEPT !.state = x].gen = op[k].gen
<1>1. \A k \in Keys : op[k] \in Intents
  BY DEF TypeOK
<1>2. /\ row \in Nat /\ op \in [Keys -> Intents] /\ task \in [Keys -> TaskStates]
      /\ gen \in [Keys -> {"NONE", "BUILDING", "READY", "FAILED"}]
      /\ upload \in [Services -> Hand]
  BY DEF TypeOK, Hand
<1>3. ASSUME NEW i \in Intents, NEW x \in OpStates
      PROVE  /\ [i EXCEPT !.state = x] \in Intents
             /\ [i EXCEPT !.state = x].state = x
             /\ [i EXCEPT !.state = x].version = i.version
             /\ [i EXCEPT !.state = x].revision = i.revision
             /\ [i EXCEPT !.state = x].raw = i.raw
             /\ [i EXCEPT !.state = x].source = i.source
             /\ [i EXCEPT !.state = x].gen = i.gen
  BY DEF Intents
<1> QED
  BY <1>1, <1>2, <1>3

\* The rows of one build move and nothing else does.
LEMMA OneRowKeeps ==
    ASSUME KnowledgeIInv, NEW k \in Builds, NEW x \in OpStates,
           op' = [op EXCEPT ![k].state = x] \/ op' = op,
           task' \in [Keys -> TaskStates], \A j \in Keys \ {k} : task'[j] = task[j],
           gen' \in [Keys -> {"NONE", "BUILDING", "READY", "FAILED"}],
           \A j \in Keys \ {k} : gen'[j] = gen[j],
           BuildMove(k), k \in Publications => x # "SUCCEEDED",
           held' \subseteq Builds, \A s \in Services : HandMove(s),
           fin' \in [Services -> [key : Publications \cup {Null},
                                  phase : {"idle", "prepared", "stale", "invalid"}]],
           UNCHANGED <<docVars, revs, lapsed, owner, files, svc, upload>>
    PROVE  KnowledgeIInv'
<1> USE Kinds
<1>0. TypeOK /\ op \in [Keys -> Intents] /\ k \in Keys
  BY TypeParts DEF KnowledgeIInv
<1>1. op' \in [Keys -> Intents] /\ \A j \in Keys \ {k} : op'[j] = op[j]
  BY <1>0, TypeParts
<1>2. TypeOK'
  BY <1>0, <1>1 DEF TypeOK, docVars
<1>3. \A j \in Builds : BuildMove(j)
  BY <1>1, StillMoves
<1>4. ASSUME NEW j \in Publications, op'[j].state = "SUCCEEDED"
      PROVE  op[j].state = "SUCCEEDED"
  <2>1. CASE j = k
    <3>1. CASE op' = op
      BY <1>4, <3>1
    <3>2. CASE op' = [op EXCEPT ![k].state = x]
      <4>1. op'[k].state = x
        BY <1>0, <3>2, TypeParts
      <4> QED
        BY <1>4, <2>1, <4>1
    <3> QED
      BY <3>1, <3>2
  <2>2. CASE j # k
    BY <1>1, <1>4, <2>2
  <2> QED
    BY <2>1, <2>2
<1> QED
  BY <1>1, <1>2, <1>3, <1>4, RowsOnlyKeeps DEF docVars, Accepted

FinPhases == {"idle", "prepared", "stale", "invalid"}
FinTypes == [Services -> [key : Publications \cup {Null}, phase : FinPhases]]

\* A build ends before its result is saved.
LEMMA TerminateKeeps ==
    ASSUME KnowledgeIInv, NEW k \in Builds, Row(k) \in {Waiting, Working},
           NEW t \in TaskStates, NEW x \in OpStates, Terminate(k, t, x),
           <<x, t, "FAILED">> \in Ended,
           held' \subseteq Builds, UNCHANGED <<docVars, revs, lapsed, owner, files, svc, upload, fin>>
    PROVE  KnowledgeIInv'
<1> USE Kinds
<1>0. TypeOK /\ op \in [Keys -> Intents] /\ k \in Keys /\ task \in [Keys -> TaskStates]
      /\ gen \in [Keys -> {"NONE", "BUILDING", "READY", "FAILED"}]
  BY TypeParts DEF KnowledgeIInv
<1>1. op'[k] = [op[k] EXCEPT !.state = x] /\ task'[k] = t /\ gen'[k] = "FAILED"
  BY <1>0 DEF Terminate
<1>2. BuildMove(k)
  <2>1. SameIntent(k) /\ op'[k].state = x
    BY <1>0, <1>1, TypeParts DEF SameIntent
  <2> QED
    BY <1>1, <2>1 DEF BuildMove, Row
<1>3. x # "SUCCEEDED"
  BY DEF Ended
<1>4. /\ task' \in [Keys -> TaskStates] /\ \A j \in Keys \ {k} : task'[j] = task[j]
      /\ gen' \in [Keys -> {"NONE", "BUILDING", "READY", "FAILED"}]
      /\ \A j \in Keys \ {k} : gen'[j] = gen[j]
  BY <1>0 DEF Terminate
<1>5. \A s \in Services : HandMove(s)
  BY StillHands
<1>6. fin' \in FinTypes
  BY <1>0 DEF TypeOK, FinTypes, FinPhases
<1> QED
  BY <1>2, <1>3, <1>4, <1>5, <1>6, OneRowKeeps DEF Terminate, FinTypes, FinPhases

\* No row moves, and hands are emptied at most.
LEMMA NoRowKeeps ==
    ASSUME KnowledgeIInv, UNCHANGED <<docVars, revs, workVars, files>>,
           lapsed' \subseteq Versions, held' \subseteq Builds,
           svc' \in [Services -> {"new", "up", "ready", "gone"}],
           upload' \in [Services -> Hand], fin' \in FinTypes,
           \A s \in Services : HandMove(s)
    PROVE  KnowledgeIInv'
<1>1. TypeOK'
  BY DEF KnowledgeIInv, TypeOK, docVars, workVars, Hand, FinTypes, FinPhases
<1>2. \A k : BuildMove(k)
  BY StillMoves DEF workVars
<1> QED
  BY <1>1, <1>2, RowsOnlyKeeps DEF docVars, workVars

\* claim_index.
LEMMA ClaimIndexKeeps ==
    ASSUME KnowledgeIInv, NEW s \in Services, NEW k \in Builds, ClaimIndex(s, k)
    PROVE  KnowledgeIInv'
<1> USE Kinds
<1>0. TypeOK /\ op \in [Keys -> Intents] /\ k \in Keys /\ task \in [Keys -> TaskStates]
      /\ gen \in [Keys -> {"NONE", "BUILDING", "READY", "FAILED"}] /\ fin \in FinTypes
      /\ held \subseteq Builds
  BY TypeParts DEF KnowledgeIInv, TypeOK, FinTypes, FinPhases
<1>1. Row(k) = Waiting
  BY DEF ClaimIndex, Row, Waiting
<1>2. CASE Fresh(k, op[k].row + 1)
  <2>1. /\ task' = [task EXCEPT ![k] = "RUNNING"] /\ gen' = gen
        /\ op' = [op EXCEPT ![k].state = "EXECUTING"] /\ held' = held \cup {k}
        /\ UNCHANGED <<docVars, revs, lapsed, owner, files, svc, upload, fin>>
    BY <1>2 DEF ClaimIndex
  <2>2. "EXECUTING" \in OpStates /\ "RUNNING" \in TaskStates
    BY DEF OpStates, TaskStates
  <2>3. op'[k] = [op[k] EXCEPT !.state = "EXECUTING"] /\ task'[k] = "RUNNING" /\ gen'[k] = gen[k]
    BY <1>0, <2>1
  <2>4. SameIntent(k) /\ op'[k].state = "EXECUTING"
    BY <1>0, <2>2, <2>3, TypeParts DEF SameIntent
  <2>5. BuildMove(k)
    BY <1>1, <2>3, <2>4 DEF BuildMove, Row, Waiting, Working
  <2>6. \A o \in Services : HandMove(o)
    BY <2>1, StillHands
  <2>7. /\ task' \in [Keys -> TaskStates] /\ \A j \in Keys \ {k} : task'[j] = task[j]
    BY <1>0, <2>1, <2>2
  <2> QED
    BY <1>0, <2>1, <2>2, <2>5, <2>6, <2>7, OneRowKeeps, ZenonT(60) DEF FinTypes, FinPhases
<1>3. CASE ~Fresh(k, op[k].row + 1)
  <2>1. Terminate(k, "STALE", "STALE") /\ "STALE" \in OpStates \cap TaskStates
        /\ UNCHANGED <<docVars, revs, lapsed, owner, files, svc, upload, held, fin>>
    BY <1>3 DEF ClaimIndex, OpStates, TaskStates
  <2> QED
    BY <1>0, <1>1, <2>1, TerminateKeeps DEF Ended
<1> QED
  BY <1>2, <1>3

\* The end of a build: finish_index, fail_index, or a claim forgotten.
LEMMA BuildEndKeeps ==
    ASSUME KnowledgeIInv, NEW k \in held,
           \/ FinishIndex(k) \/ LoseWork(k)
           \/ \E outcome \in {"FAILED", "INTERRUPTED"} : FailIndex(k, outcome)
    PROVE  KnowledgeIInv'
<1> USE Kinds
<1>0. TypeOK /\ op \in [Keys -> Intents] /\ k \in Keys /\ task \in [Keys -> TaskStates]
      /\ gen \in [Keys -> {"NONE", "BUILDING", "READY", "FAILED"}] /\ fin \in FinTypes
      /\ held \subseteq Builds /\ k \in Builds
  BY TypeParts DEF KnowledgeIInv, TypeOK, FinTypes, FinPhases
<1>1. /\ held' \subseteq Builds
      /\ UNCHANGED <<docVars, revs, lapsed, owner, files, svc, upload, fin>>
  BY <1>0 DEF FinishIndex, LoseWork, FailIndex, workVars
<1>2. \A s \in Services : HandMove(s)
  BY <1>1, StillHands
<1>3. CASE UNCHANGED <<task, op, gen>>
  <2>1. \A j \in Builds : BuildMove(j)
    BY <1>3, StillMoves
  <2>2. TypeOK'
    BY <1>0, <1>1, <1>3 DEF TypeOK, docVars
  <2> QED
    BY <1>1, <1>2, <1>3, <2>1, <2>2, RowsOnlyKeeps DEF docVars
<1>4. CASE \E t \in TaskStates, x \in OpStates : ClaimStands(k) /\ Terminate(k, t, x)
              /\ <<x, t, "FAILED">> \in Ended
  <2>1. Row(k) = Working
    BY <1>4 DEF ClaimStands, Row, Working
  <2> QED
    BY <1>0, <1>1, <1>4, <2>1, TerminateKeeps
<1>5. CASE /\ ClaimStands(k)
           /\ task' = [task EXCEPT ![k] = "SUCCEEDED"] /\ gen' = [gen EXCEPT ![k] = "READY"]
           /\ op' = IF k \in Retries THEN [op EXCEPT ![k].state = "SUCCEEDED"] ELSE op
  <2>1. Row(k) = Working /\ "SUCCEEDED" \in OpStates \cap TaskStates
    BY <1>5 DEF ClaimStands, Row, Working, OpStates, TaskStates
  <2>2. task'[k] = "SUCCEEDED" /\ gen'[k] = "READY"
    BY <1>0, <1>5
  <2>3. BuildMove(k)
    <3>1. CASE k \in Retries
      <4>1. op'[k] = [op[k] EXCEPT !.state = "SUCCEEDED"]
        BY <1>0, <1>5, <3>1
      <4>2. SameIntent(k) /\ op'[k].state = "SUCCEEDED"
        BY <1>0, <2>1, <4>1, TypeParts DEF SameIntent
      <4> QED
        BY <2>1, <2>2, <3>1, <4>2 DEF BuildMove, Row
    <3>2. CASE k \notin Retries
      <4>1. k \in Publications /\ op' = op /\ op[k].state = "EXECUTING"
        BY <1>0, <1>5, <3>2 DEF Builds, ClaimStands
      <4> QED
        BY <2>1, <2>2, <4>1 DEF BuildMove, SameIntent, Row, Built
    <3> QED
      BY <3>1, <3>2
  <2>4. /\ task' \in [Keys -> TaskStates] /\ \A j \in Keys \ {k} : task'[j] = task[j]
        /\ gen' \in [Keys -> {"NONE", "BUILDING", "READY", "FAILED"}]
        /\ \A j \in Keys \ {k} : gen'[j] = gen[j]
    BY <1>0, <1>5, <2>1
  <2>5. CASE k \in Retries
    <3>1. op' = [op EXCEPT ![k].state = "SUCCEEDED"] /\ k \notin Publications
      BY <1>5, <2>5
    <3> QED
      BY <1>0, <1>1, <1>2, <2>1, <2>3, <2>4, <3>1, OneRowKeeps DEF FinTypes, FinPhases
  <2>6. CASE k \notin Retries
    <3>1. op' = op /\ "EXECUTING" \in OpStates
      BY <1>5, <2>6 DEF OpStates
    <3> QED
      BY <1>0, <1>1, <1>2, <2>3, <2>4, <3>1, OneRowKeeps DEF FinTypes, FinPhases
  <2> QED
    BY <2>5, <2>6
<1> QED
  <2>1. "STALE" \in OpStates \cap TaskStates /\ "FAILED" \in OpStates
        /\ {"FAILED", "INTERRUPTED"} \subseteq TaskStates
    BY DEF OpStates, TaskStates
  <2>2. <<"STALE", "STALE", "FAILED">> \in Ended
        /\ \A t \in {"FAILED", "INTERRUPTED"} : <<"FAILED", t, "FAILED">> \in Ended
    BY DEF Ended
  <2>3. CASE FinishIndex(k)
    BY <1>3, <1>4, <1>5, <2>1, <2>2, <2>3 DEF FinishIndex
  <2>4. CASE LoseWork(k)
    BY <1>3, <2>4 DEF LoseWork, workVars
  <2>5. CASE \E outcome \in {"FAILED", "INTERRUPTED"} : FailIndex(k, outcome)
    BY <1>3, <1>4, <2>1, <2>2, <2>5 DEF FailIndex
  <2> QED
    BY <2>3, <2>4, <2>5

\* Finalization before its outcome: prepared, abandoned, or sent on to be
\* rejected.
LEMMA FinalizationKeeps ==
    ASSUME KnowledgeIInv, NEW s \in Services,
           \/ \E k \in Publications : PrepareFinalization(s, k)
           \/ AbandonFinalization(s)
           \/ CommitFinalization(s) /\ UNCHANGED <<docVars, op>>
    PROVE  KnowledgeIInv'
<1> USE Kinds
<1>0. TypeOK /\ fin \in FinTypes /\ held \subseteq Builds /\ lapsed \subseteq Versions
      /\ svc \in [Services -> {"new", "up", "ready", "gone"}] /\ upload \in [Services -> Hand]
  BY DEF KnowledgeIInv, TypeOK, FinTypes, FinPhases, Hand
<1>1. UNCHANGED <<docVars, revs, lapsed, workVars, files, svc, upload, held>>
  BY DEF PrepareFinalization, AbandonFinalization, CommitFinalization, workVars
<1>2. CASE \E k \in Publications : PrepareFinalization(s, k)
  <2>1. PICK k \in Publications : PrepareFinalization(s, k)
    BY <1>2
  <2>2. PICK f : f = [key |-> k,
                      phase |-> IF ~Fresh(k, op[k].row + 1) THEN "stale"
                                ELSE IF IndexOf[owner[op[k].gen]] # IndexOf[s] THEN "invalid"
                                ELSE "prepared"]
    OBVIOUS
  <2>3. /\ f.key = k /\ f \in [key : Publications \cup {Null}, phase : FinPhases]
        /\ f.phase # "idle"
    BY <2>2 DEF FinPhases
  <2>4. fin' = [fin EXCEPT ![s] = f]
    BY <2>1, <2>2 DEF PrepareFinalization
  <2>5. fin' \in FinTypes
    BY <1>0, <2>3, <2>4 DEF FinTypes
  <2>6. Accepted(k) /\ gen[op[k].gen] = "READY"
    BY <2>1 DEF PrepareFinalization, IndexReady, Active, Accepted
  <2>7. ASSUME NEW o \in Services
        PROVE  HandMove(o)
    <3>1. CASE o = s
      <4>1. fin'[o].key = k
        BY <1>0, <2>3, <2>4, <3>1 DEF FinTypes
      <4> QED
        BY <1>1, <2>6, <4>1 DEF HandMove
    <3>2. CASE o # s
      BY <1>0, <1>1, <2>4, <3>2, StillHands DEF FinTypes
    <3> QED
      BY <3>1, <3>2
  <2> QED
    BY <1>0, <1>1, <2>5, <2>7, NoRowKeeps
<1>3. CASE fin' = [fin EXCEPT ![s] = NoFinalize]
  <2>1. NoFinalize \in [key : Publications \cup {Null}, phase : FinPhases]
    BY DEF NoFinalize, FinPhases
  <2>2. fin' \in FinTypes
    BY <1>0, <1>3, <2>1 DEF FinTypes
  <2>3. \A o \in Services : HandMove(o)
    BY <1>0, <1>1, <1>3, StillHands DEF FinTypes
  <2> QED
    BY <1>0, <1>1, <2>2, <2>3, NoRowKeeps
<1>4. CASE \E x \in {"invalid", "stale"} : fin[s].phase = "prepared"
              /\ fin' = [fin EXCEPT ![s].phase = x]
  <2>1. PICK x \in {"invalid", "stale"} : fin[s].phase = "prepared"
              /\ fin' = [fin EXCEPT ![s].phase = x]
    BY <1>4
  <2>2. fin' \in FinTypes
    BY <1>0, <2>1 DEF FinTypes, FinPhases
  <2>3. ASSUME NEW o \in Services
        PROVE  HandMove(o)
    <3>1. CASE o = s
      <4>1. fin'[o].key = fin[o].key /\ fin[o].phase # "idle"
        BY <1>0, <2>1, <3>1 DEF FinTypes
      <4> QED
        BY <1>1, <4>1 DEF HandMove
    <3>2. CASE o # s
      BY <1>0, <1>1, <2>1, <3>2, StillHands DEF FinTypes
    <3> QED
      BY <3>1, <3>2
  <2> QED
    BY <1>0, <1>1, <2>2, <2>3, NoRowKeeps
<1>5. CASE CommitFinalization(s) /\ UNCHANGED <<docVars, op>>
  <2>1. \/ fin' = [fin EXCEPT ![s] = NoFinalize]
        \/ \E x \in {"invalid", "stale"} : fin[s].phase = "prepared"
              /\ fin' = [fin EXCEPT ![s].phase = x]
    BY <1>5 DEF CommitFinalization
  <2> QED
    BY <1>3, <1>4, <2>1
<1> QED
  BY <1>2, <1>3, <1>5 DEF AbandonFinalization

\* reject_finalization.
LEMMA RejectFinalizationKeeps ==
    ASSUME KnowledgeIInv, NEW s \in Services, RejectFinalization(s)
    PROVE  KnowledgeIInv'
<1> USE Kinds
<1>0. /\ TypeOK /\ op \in [Keys -> Intents] /\ fin \in FinTypes /\ task \in [Keys -> TaskStates]
      /\ gen \in [Keys -> {"NONE", "BUILDING", "READY", "FAILED"}] /\ held \subseteq Builds
  BY DEF KnowledgeIInv, TypeOK, FinTypes, FinPhases
<1>1. PICK k : k = fin[s].key
  OBVIOUS
<1>2. k \in Publications /\ gen[op[k].gen] = "READY"
  BY <1>1 DEF RejectFinalization, KnowledgeIInv, HandsKept
<1>3. PICK x : x = IF fin[s].phase = "stale" THEN "STALE" ELSE "FAILED"
  OBVIOUS
<1>4. x \in {"STALE", "FAILED"} /\ x \in OpStates
  BY <1>3 DEF OpStates
<1>5. /\ op' = IF Active(k) THEN [op EXCEPT ![k].state = x] ELSE op
      /\ UNCHANGED <<docVars, revs, lapsed, task, owner, gen, files, svc, upload, held>>
      /\ fin' = [fin EXCEPT ![s] = NoFinalize]
  BY <1>1, <1>3 DEF RejectFinalization
<1>6. BuildMove(k)
  <2>1. CASE Active(k)
    <3>1. op'[k] = [op[k] EXCEPT !.state = x] /\ task'[k] = task[k] /\ gen'[k] = gen[k]
      BY <1>0, <1>2, <1>5, <2>1
    <3>2. SameIntent(k) /\ op'[k].state = x
      BY <1>0, <1>2, <1>4, <3>1, TypeParts DEF SameIntent
    <3> QED
      BY <1>2, <1>4, <2>1, <3>1, <3>2 DEF BuildMove
  <2>2. CASE ~Active(k)
    BY <1>5, <2>2, StillMoves
  <2> QED
    BY <2>1, <2>2
<1>7. NoFinalize \in [key : Publications \cup {Null}, phase : FinPhases]
  BY DEF NoFinalize, FinPhases
<1>8. fin' \in FinTypes
  BY <1>0, <1>5, <1>7 DEF FinTypes
<1>9. \A o \in Services : HandMove(o)
  BY <1>0, <1>5, StillHands DEF FinTypes
<1>10. k \in Builds /\ (op' = [op EXCEPT ![k].state = x] \/ op' = op) /\ x # "SUCCEEDED"
  BY <1>2, <1>4, <1>5
<1> QED
  BY <1>0, <1>4, <1>5, <1>6, <1>8, <1>9, <1>10, OneRowKeeps DEF FinTypes, FinPhases

\* A process starts, recovers or dies; a draft expires.
LEMMA ProcessKeeps ==
    ASSUME KnowledgeIInv,
           \/ \E s \in Services : StartService(s) \/ Recover(s) \/ StopService(s)
           \/ \E v \in Versions : Lapse(v)
           \/ UNCHANGED vars
    PROVE  KnowledgeIInv'
<1> USE Kinds
<1>0. /\ TypeOK /\ op \in [Keys -> Intents] /\ fin \in FinTypes /\ task \in [Keys -> TaskStates]
      /\ gen \in [Keys -> {"NONE", "BUILDING", "READY", "FAILED"}] /\ held \subseteq Builds
      /\ lapsed \subseteq Versions
      /\ svc \in [Services -> {"new", "up", "ready", "gone"}] /\ upload \in [Services -> Hand]
  BY DEF KnowledgeIInv, TypeOK, FinTypes, FinPhases, Hand
<1>1. ASSUME NEW s \in Services, StartService(s)
      PROVE  KnowledgeIInv'
  <2>1. /\ UNCHANGED <<docVars, revs, lapsed, workVars, files, upload, held, fin>>
        /\ svc' = [svc EXCEPT ![s] = "up"] /\ svc[s] = "new"
    BY <1>1 DEF StartService
  <2>2. svc' \in [Services -> {"new", "up", "ready", "gone"}]
    BY <1>0, <2>1
  <2>3. \A o \in Services : HandMove(o)
    BY <1>0, <2>1 DEF HandMove
  <2> QED
    BY <1>0, <2>1, <2>2, <2>3, NoRowKeeps
<1>2. ASSUME NEW s \in Services, StopService(s)
      PROVE  KnowledgeIInv'
  <2>1. /\ UNCHANGED <<docVars, revs, lapsed, workVars, files>>
        /\ svc' = [svc EXCEPT ![s] = "gone"] /\ upload' = [upload EXCEPT ![s] = NoUpload]
        /\ fin' = [fin EXCEPT ![s] = NoFinalize] /\ held' \subseteq held
    BY <1>2 DEF StopService
  <2>2. /\ NoFinalize \in [key : Publications \cup {Null}, phase : FinPhases]
        /\ NoUpload \in Hand
    BY DEF NoFinalize, FinPhases, NoUpload, Hand
  <2>3. /\ svc' \in [Services -> {"new", "up", "ready", "gone"}]
        /\ upload' \in [Services -> Hand] /\ fin' \in FinTypes
    BY <1>0, <2>1, <2>2 DEF FinTypes
  <2>4. ASSUME NEW o \in Services
        PROVE  HandMove(o)
    <3>1. CASE o = s
      BY <1>0, <2>1, <3>1 DEF HandMove, FinTypes, NoFinalize
    <3>2. CASE o # s
      BY <1>0, <2>1, <3>2, StillHands DEF FinTypes
    <3> QED
      BY <3>1, <3>2
  <2> QED
    BY <1>0, <2>1, <2>3, <2>4, NoRowKeeps
<1>3. ASSUME NEW s \in Services, Recover(s)
      PROVE  KnowledgeIInv'
  <2>1. /\ UNCHANGED <<docVars, revs, lapsed, owner, files, upload, held, fin>>
        /\ svc' = [svc EXCEPT ![s] = "ready"]
        /\ \A k \in Keys :
              /\ task'[k] = IF LeftBehind(s, k) THEN "INTERRUPTED" ELSE task[k]
              /\ op'[k] = IF Interrupted(s, k) THEN [op[k] EXCEPT !.state = "FAILED"] ELSE op[k]
              /\ gen'[k] = IF LeftBehind(s, k) /\ gen[k] = "BUILDING" THEN "FAILED" ELSE gen[k]
    BY <1>3 DEF Recover
  <2>2. "FAILED" \in OpStates /\ "INTERRUPTED" \in TaskStates
    BY DEF OpStates, TaskStates
  <2>3. /\ svc' \in [Services -> {"new", "up", "ready", "gone"}]
        /\ task' \in [Keys -> TaskStates]
        /\ gen' \in [Keys -> {"NONE", "BUILDING", "READY", "FAILED"}]
    BY <1>0, <1>3, <2>2 DEF Recover
  <2>4. op' \in [Keys -> Intents]
    BY <1>0, <1>3, <2>2, TypeParts DEF Recover
  <2>5. TypeOK'
    BY <1>0, <2>1, <2>3, <2>4 DEF TypeOK, docVars
  <2>6. ASSUME NEW k \in Builds
        PROVE  BuildMove(k) /\ (op'[k].state = "SUCCEEDED" => op[k].state = "SUCCEEDED")
    <3>1. CASE LeftBehind(s, k)
      <4>1. Row(k) \in {Waiting, Working} /\ Active(k) /\ gen[k] = "BUILDING"
        BY <3>1, Underway DEF LeftBehind
      <4>2. /\ op'[k] = [op[k] EXCEPT !.state = "FAILED"]
            /\ task'[k] = "INTERRUPTED" /\ gen'[k] = "FAILED"
        BY <2>1, <3>1, <4>1 DEF Interrupted
      <4>3. SameIntent(k) /\ op'[k].state = "FAILED"
        BY <1>0, <2>2, <4>2, TypeParts DEF SameIntent
      <4> QED
        BY <4>1, <4>2, <4>3 DEF BuildMove, Row, Ended
    <3>2. CASE ~LeftBehind(s, k)
      BY <2>1, <3>2, StillMoves DEF Interrupted
    <3> QED
      BY <3>1, <3>2
  <2>7. ASSUME NEW k \in Keys, k \notin Builds
        PROVE  op'[k] = op[k] /\ gen'[k] = gen[k] /\ (~Accepted(k) => task'[k] = task[k])
    <3>1. gen[k] = "NONE" /\ (~Accepted(k) => task[k] = "NONE")
      BY <2>7 DEF KnowledgeIInv, ReservationsKept
    <3> QED
      BY <2>1, <2>7, <3>1 DEF Interrupted, LeftBehind, Unfinished
  <2>8. \A o \in Services : HandMove(o)
    BY <1>0, <2>1 DEF HandMove
  <2> QED
    BY <2>1, <2>5, <2>6, <2>7, <2>8, RowsOnlyKeeps DEF docVars
<1>4. ASSUME NEW v \in Versions, Lapse(v)
      PROVE  KnowledgeIInv'
  <2>1. /\ UNCHANGED <<docVars, revs, workVars, files, procVars>>
        /\ lapsed' \subseteq Versions
    BY <1>0, <1>4 DEF Lapse
  <2>2. \A o \in Services : HandMove(o)
    BY <2>1, StillHands DEF procVars
  <2> QED
    BY <1>0, <2>1, <2>2, NoRowKeeps DEF procVars
<1>5. ASSUME UNCHANGED vars
      PROVE  KnowledgeIInv'
  <2>1. \A o \in Services : HandMove(o)
    BY <1>5, StillHands DEF vars, procVars
  <2> QED
    BY <1>0, <1>5, <2>1, NoRowKeeps DEF vars, procVars, docVars, workVars
<1> QED
  BY <1>1, <1>2, <1>3, <1>4, <1>5

\* What one finalize call and one upload hold.
FinHand(f) ==
    f.phase # "idle" => f.key \in Publications /\ Accepted(f.key) /\ gen[op[f.key].gen] = "READY"

UpHand(s, u) ==
    /\ u.phase # "idle" => svc[s] = "ready" /\ u.key \in Uploads /\ op[u.key].state # "NONE"
    /\ u.phase \in {"accepted", "parsing"} => Accepted(u.key)
    /\ u.phase \in {"planned", "stored"} => u.version \in Versions
    /\ u.phase \in {"planned", "stored"} /\ ~Accepted(u.key) =>
          /\ u.revision = op[u.key].revision
          /\ op[u.key].version # Null => u.version = op[u.key].version
          /\ op[u.key].version = Null =>
                /\ revs[u.version] = <<>>
                /\ \A o \in Services \ {s} : upload[o].version # u.version

\* HandsKept, one process at a time.
LEMMA HandsOne ==
    /\ HandsKept => \A s \in Services : FinHand(fin[s]) /\ UpHand(s, upload[s])
    /\ (\A s \in Services : \A f, u : f = fin'[s] /\ u = upload'[s] => FinHand(f)' /\ UpHand(s, u)')
          => HandsKept'
BY DEF HandsKept, FinHand, UpHand, Accepted

\* No row changes, and the hands and the files that result are as they should.
LEMMA FilesAndHands ==
    ASSUME KnowledgeIInv, TypeOK', HandsKept', FilesKept',
           UNCHANGED <<current, vstate, revs, sealed, op, task, gen>>
    PROVE  KnowledgeIInv'
<1>1. VersionsKept' /\ IntentsKept' /\ ReservationsKept' /\ UploadsKept' /\ SealsKept'
  BY DEF KnowledgeIInv, VersionsKept, IntentsKept, ReservationsKept, UploadsKept, SealsKept,
         SealedBy, Accepted
<1>2. OnePublished' /\ OneInProgress' /\ StateTable' /\ RetryChain'
  BY DEF KnowledgeIInv, OnePublished, Published, OneInProgress, StateTable, RowsAgree,
         RetryChain, Accepted, Active
<1> QED
  BY <1>1, <1>2 DEF KnowledgeIInv

\* An upload fails; its parse is claimed, or the claim is refused.
LEMMA UploadEndKeeps ==
    ASSUME KnowledgeIInv, NEW s \in Services, UploadFails(s) \/ ClaimParse(s)
    PROVE  KnowledgeIInv'
<1> USE Kinds
<1>0. /\ TypeOK /\ op \in [Keys -> Intents] /\ fin \in FinTypes /\ task \in [Keys -> TaskStates]
      /\ held \subseteq Builds /\ lapsed \subseteq Versions
      /\ svc \in [Services -> {"new", "up", "ready", "gone"}] /\ upload \in [Services -> Hand]
  BY DEF KnowledgeIInv, TypeOK, FinTypes, FinPhases, Hand
<1>1. PICK k : k = upload[s].key
  OBVIOUS
<1>2. UNCHANGED <<docVars, revs, lapsed, op, owner, gen, files, svc, held, fin>>
  BY DEF UploadFails, ClaimParse, workVars
<1>3. /\ \/ upload' = [upload EXCEPT ![s] = NoUpload]
         \/ /\ upload[s].phase = "accepted"
            /\ upload' = [upload EXCEPT ![s] = [@ EXCEPT !.phase = "parsing"]]
      /\ \/ task' = task
         \/ /\ k \in Uploads /\ Accepted(k)
            /\ \E t \in TaskStates : task' = [task EXCEPT ![k] = t]
  <2>1. CASE UploadFails(s)
    BY <2>1 DEF UploadFails, workVars
  <2>2. CASE ClaimParse(s)
    <3>1. k \in Uploads /\ Accepted(k)
      BY <1>1, <2>2 DEF ClaimParse, KnowledgeIInv, HandsKept
    <3>2. {"RUNNING", "STALE"} \subseteq TaskStates
      BY DEF TaskStates
    <3> QED
      BY <1>1, <2>2, <3>1, <3>2 DEF ClaimParse
  <2> QED
    BY <2>1, <2>2
<1>4. NoUpload \in Hand
  BY DEF NoUpload, Hand
<1>5. upload' \in [Services -> Hand]
  BY <1>0, <1>3, <1>4 DEF Hand
<1>6. task' \in [Keys -> TaskStates] /\ \A j \in Keys : task'[j] = task[j] \/ (j = k /\ j \in Uploads /\ Accepted(j))
  BY <1>0, <1>3
<1>7. TypeOK'
  BY <1>0, <1>2, <1>5, <1>6 DEF TypeOK, docVars, Hand
<1>8. ASSUME NEW o \in Services
      PROVE  HandMove(o)
  <2>1. \/ upload'[o] = NoUpload \/ upload'[o] = upload[o]
        \/ upload[o].phase = "accepted" /\ upload'[o] = [upload[o] EXCEPT !.phase = "parsing"]
    BY <1>0, <1>3
  <2> QED
    BY <1>2, <2>1 DEF HandMove
<1>9. \A j \in Builds : BuildMove(j)
  BY <1>2, <1>6, StillMoves
<1> QED
  BY <1>2, <1>6, <1>7, <1>8, <1>9, RowsOnlyKeeps DEF docVars

\* plan_upload.
LEMMA PlanUploadKeeps ==
    ASSUME KnowledgeIInv, NEW s \in Services, NEW k \in Uploads, PlanUpload(s, k)
    PROVE  KnowledgeIInv'
<1> USE Kinds
<1>0. /\ TypeOK /\ op \in [Keys -> Intents] /\ upload \in [Services -> Hand]
      /\ \A o \in Services : FinHand(fin[o]) /\ UpHand(o, upload[o])
      /\ op[k].version \in Versions \cup {Null} /\ op[k].revision \in Nat
  BY HandsOne DEF KnowledgeIInv, TypeOK, Hand, Intents
<1>1. /\ UNCHANGED <<docVars, revs, lapsed, workVars, files, svc, held, fin>>
      /\ svc[s] = "ready" /\ upload[s].phase = "idle"
  BY DEF PlanUpload
<1>2. PICK u : /\ upload' = [upload EXCEPT ![s] = u] /\ u \in Hand
               /\ u.phase \in {"accepted", "planned"} /\ UpHand(s, u)
               /\ u.version \in Versions /\ (revs[u.version] # <<>> \/
                     \A o \in Services : upload[o].version # u.version)
  <2>1. CASE Accepted(k)
    <3>1. PICK u : u = [key |-> k, phase |-> "accepted",
                        version |-> op[k].version, revision |-> op[k].revision]
      OBVIOUS
    <3>2. op[k].version \in Versions /\ revs[op[k].version] # <<>>
      <4>1. op[k].version \in Versions /\ op[k].revision \in 1..Len(revs[op[k].version])
        BY <2>1 DEF KnowledgeIInv, UploadsKept
      <4> QED
        BY <4>1
    <3>3. UpHand(s, u) /\ u \in Hand
      BY <1>0, <1>1, <2>1, <3>1, <3>2 DEF UpHand, Hand, Accepted
    <3>4. op[k].state # "DRAFT"
      BY <2>1 DEF Accepted
    <3> QED
      BY <3>1, <3>2, <3>3, <3>4 DEF PlanUpload
  <2>2. CASE ~Accepted(k)
    <3>1. PICK v \in Versions :
             /\ op[k].state = "DRAFT" /\ TargetOk(k)
             /\ IF op[k].version = Null THEN NewVersionId(v) ELSE v = op[k].version
             /\ upload' = [upload EXCEPT ![s] = [key |-> k, phase |-> "planned",
                                  version |-> v, revision |-> op[k].revision]]
      BY <2>2 DEF PlanUpload
    <3>2. PICK u : u = [key |-> k, phase |-> "planned",
                        version |-> v, revision |-> op[k].revision]
      OBVIOUS
    <3>3. u \in Hand /\ u.key = k /\ u.phase = "planned" /\ u.version = v
          /\ u.revision = op[k].revision
      BY <1>0, <3>2 DEF Hand
    <3>4. CASE op[k].version = Null
      <4>1. revs[v] = <<>> /\ \A o \in Services : upload[o].version # v
        BY <3>1, <3>4 DEF NewVersionId
      <4>2. UpHand(s, u)
        BY <1>1, <3>1, <3>3, <3>4, <4>1 DEF UpHand
      <4> QED
        BY <3>1, <3>2, <3>3, <4>1, <4>2
    <3>5. CASE op[k].version # Null
      <4>1. v = op[k].version /\ vstate[v] = "DRAFT"
        BY <3>1, <3>5 DEF TargetOk
      <4>2. revs[v] # <<>>
        BY <4>1 DEF KnowledgeIInv, VersionsKept
      <4>3. UpHand(s, u)
        BY <1>1, <3>1, <3>3, <3>5, <4>1 DEF UpHand
      <4> QED
        BY <3>1, <3>2, <3>3, <4>2, <4>3
    <3> QED
      BY <3>4, <3>5
  <2> QED
    BY <2>1, <2>2
<1>3. upload'[s] = u /\ \A o \in Services \ {s} : upload'[o] = upload[o]
  BY <1>0, <1>2
<1>4. TypeOK'
  <2>1. upload' \in [Services -> Hand]
    BY <1>0, <1>2
  <2> QED
    BY <1>0, <1>1, <2>1 DEF TypeOK, docVars, workVars, Hand
<1>5. HandsKept'
  <2> SUFFICES ASSUME NEW o \in Services, NEW f, NEW w, f = fin'[o], w = upload'[o]
               PROVE  FinHand(f)' /\ UpHand(o, w)'
    BY HandsOne
  <2>1. FinHand(f)'
    BY <1>0, <1>1 DEF FinHand, Accepted, workVars
  <2>2. CASE o = s
    BY <1>1, <1>2, <1>3, <2>1, <2>2 DEF UpHand, Accepted, workVars
  <2>3. CASE o # s
    <3>1. w = upload[o] /\ UpHand(o, w)
      BY <1>0, <1>3, <2>3
    <3>2. op[w.key].version = Null /\ w.phase \in {"planned", "stored"} /\ ~Accepted(w.key) =>
             upload'[s].version # w.version
      BY <1>2, <1>3, <2>3, <3>1 DEF UpHand
    <3> QED
      BY <1>1, <1>3, <2>1, <3>1, <3>2 DEF UpHand, Accepted, workVars
  <2> QED
    BY <2>2, <2>3
<1>6. FilesKept'
  <2>1. \A o \in Services : upload'[o].phase = "stored" => upload'[o] = upload[o]
    BY <1>2, <1>3
  <2> QED
    BY <1>1, <2>1 DEF KnowledgeIInv, FilesKept, workVars
<1> QED
  BY <1>1, <1>4, <1>5, <1>6, FilesAndHands DEF docVars, workVars

\* storage.commit.
LEMMA StoreOriginalKeeps ==
    ASSUME KnowledgeIInv, NEW s \in Services, StoreOriginal(s)
    PROVE  KnowledgeIInv'
<1> USE Kinds
<1>0. /\ TypeOK /\ op \in [Keys -> Intents] /\ upload \in [Services -> Hand]
      /\ \A o \in Services : FinHand(fin[o]) /\ UpHand(o, upload[o])
      /\ files \subseteq [version : Versions, revision : Nat, raw : Contents]
  BY HandsOne DEF KnowledgeIInv, TypeOK, Hand
<1>1. PICK u : u = upload[s]
  OBVIOUS
<1>2. /\ u \in Hand /\ u.phase = "planned" /\ u.key \in Uploads /\ op[u.key].raw \in Contents
      /\ u.version \in Versions
  BY <1>0, <1>1 DEF StoreOriginal, UpHand, KnowledgeIInv, IntentsKept
<1>3. PICK f : f = [version |-> u.version, revision |-> u.revision, raw |-> op[u.key].raw]
  OBVIOUS
<1>4. /\ f \in [version : Versions, revision : Nat, raw : Contents]
      /\ f.version = u.version /\ f.revision = u.revision /\ f.raw = op[u.key].raw
  BY <1>2, <1>3 DEF Hand
<1>5. /\ UNCHANGED <<docVars, revs, lapsed, workVars, svc, held, fin>>
      /\ \/ /\ At(u.version, u.revision) \subseteq {f}
            /\ files' = files \cup {f}
            /\ upload' = [upload EXCEPT ![s] = [u EXCEPT !.phase = "stored"]]
         \/ /\ upload' = [upload EXCEPT ![s] = NoUpload]
            /\ UNCHANGED files
  BY <1>0, <1>1, <1>3 DEF StoreOriginal
<1>6. PICK w : /\ w \in Hand /\ upload' = [upload EXCEPT ![s] = w]
               /\ \/ /\ files' = files \cup {f} /\ At(u.version, u.revision) \subseteq {f}
                     /\ w.phase = "stored" /\ w.key = u.key
                     /\ w.version = u.version /\ w.revision = u.revision
                  \/ w = NoUpload /\ files' = files
  <2>1. [u EXCEPT !.phase = "stored"] \in Hand /\ NoUpload \in Hand
    BY <1>2 DEF Hand, NoUpload
  <2>2. /\ [u EXCEPT !.phase = "stored"].phase = "stored"
        /\ [u EXCEPT !.phase = "stored"].key = u.key
        /\ [u EXCEPT !.phase = "stored"].version = u.version
        /\ [u EXCEPT !.phase = "stored"].revision = u.revision
    BY <1>2 DEF Hand
  <2> QED
    BY <1>5, <2>1, <2>2
<1>7. upload'[s] = w /\ \A o \in Services \ {s} : upload'[o] = upload[o]
  BY <1>0, <1>6
<1>8. TypeOK'
  <2>1. upload' \in [Services -> Hand]
        /\ files' \subseteq [version : Versions, revision : Nat, raw : Contents]
    BY <1>0, <1>4, <1>6
  <2> QED
    BY <1>0, <1>5, <2>1 DEF TypeOK, docVars, workVars, Hand
<1>9. HandsKept'
  <2> SUFFICES ASSUME NEW o \in Services, NEW g, NEW x, g = fin'[o], x = upload'[o]
               PROVE  FinHand(g)' /\ UpHand(o, x)'
    BY HandsOne
  <2>1. FinHand(g)'
    BY <1>0, <1>5 DEF FinHand, Accepted, workVars
  <2>2. \A p \in Services : upload'[p].version \in {upload[p].version, Null}
    BY <1>1, <1>6, <1>7 DEF NoUpload
  <2>3. CASE o = s
    <3>1. CASE w = NoUpload
      BY <1>7, <2>1, <2>3, <3>1 DEF UpHand, NoUpload
    <3>2. CASE w # NoUpload
      <4>1. w.phase = "stored" /\ w.key = u.key /\ w.version = u.version
            /\ w.revision = u.revision
        BY <1>6, <3>2
      <4>2. UpHand(s, u)
        BY <1>0, <1>1
      <4> QED
        BY <1>2, <1>5, <1>7, <2>1, <2>2, <2>3, <4>1, <4>2 DEF UpHand, Accepted, workVars
    <3> QED
      BY <3>1, <3>2
  <2>4. CASE o # s
    <3>1. x = upload[o] /\ UpHand(o, x)
      BY <1>0, <1>7, <2>4
    <3> QED
      BY <1>5, <2>1, <2>2, <3>1 DEF UpHand, Accepted, workVars
  <2> QED
    BY <2>3, <2>4
<1>10. FilesKept'
  <2>1. \/ files' = files
        \/ files' = files \cup {f} /\ At(u.version, u.revision) \subseteq {f}
    BY <1>6
  <2>2. \A g, h \in files' : g.version = h.version /\ g.revision = h.revision => g = h
    BY <1>4, <2>1 DEF KnowledgeIInv, FilesKept, At
  <2>3. ASSUME NEW o \in Services, upload'[o].phase = "stored"
        PROVE  [version |-> upload'[o].version, revision |-> upload'[o].revision,
                raw |-> op'[upload'[o].key].raw] \in files'
    <3>1. CASE o = s
      <4>1. /\ files' = files \cup {f} /\ w.key = u.key
            /\ w.version = u.version /\ w.revision = u.revision
        BY <1>6, <1>7, <2>3, <3>1 DEF NoUpload
      <4> QED
        BY <1>3, <1>5, <1>7, <3>1, <4>1 DEF workVars
    <3>2. CASE o # s
      BY <1>5, <1>7, <2>1, <2>3, <3>2 DEF KnowledgeIInv, FilesKept, workVars
    <3> QED
      BY <3>1, <3>2
  <2>4. \A v \in Versions : \A n \in 1..Len(revs'[v]) :
           [version |-> v, revision |-> n, raw |-> revs'[v][n].raw] \in files'
    BY <1>5, <2>1 DEF KnowledgeIInv, FilesKept
  <2> QED
    BY <2>2, <2>3, <2>4 DEF FilesKept
<1> QED
  BY <1>5, <1>8, <1>9, <1>10, FilesAndHands DEF docVars, workVars

\* finish_parse.
LEMMA FinishParseKeeps ==
    ASSUME KnowledgeIInv, NEW s \in Services, NEW parses \in BOOLEAN, FinishParse(s, parses)
    PROVE  KnowledgeIInv'
<1> USE Kinds
<1>0. /\ TypeOK /\ op \in [Keys -> Intents] /\ upload \in [Services -> Hand]
      /\ task \in [Keys -> TaskStates]
      /\ \A o \in Services : FinHand(fin[o]) /\ UpHand(o, upload[o])
  BY HandsOne DEF KnowledgeIInv, TypeOK, Hand
<1>1. PICK k, v, n : k = upload[s].key /\ v = op[k].version /\ n = op[k].revision
  OBVIOUS
<1>2. /\ k \in Uploads /\ Accepted(k) /\ v \in Versions /\ n \in 1..Len(revs[v])
      /\ revs[v][n].raw = op[k].raw /\ op[k].raw \in Contents
  <2>1. k \in Uploads /\ Accepted(k)
    BY <1>0, <1>1, ZenonT(60) DEF FinishParse, UpHand
  <2> QED
    BY <1>1, <2>1, SMTT(60) DEF KnowledgeIInv, UploadsKept, IntentsKept, Accepted
<1>3. /\ UNCHANGED <<docVars, lapsed, op, owner, gen, files, svc, held, fin>>
      /\ upload' = [upload EXCEPT ![s] = NoUpload]
      /\ \/ revs' = revs /\ (task' = task \/ \E t \in TaskStates : task' = [task EXCEPT ![k] = t])
         \/ /\ vstate[v] = "DRAFT"
            /\ revs' = [revs EXCEPT ![v][n].body = op[k].raw]
            /\ task' = [task EXCEPT ![k] = "SUCCEEDED"]
  <2>1. {"SUCCEEDED", "FAILED", "STALE"} \subseteq TaskStates
    BY DEF TaskStates
  <2> QED
    BY <1>1, <2>1, Zenon DEF FinishParse, ParseLands, AwaitsBody
<1>4. /\ upload' \in [Services -> Hand]
      /\ \A o \in Services : upload'[o] = upload[o] \/ upload'[o] = NoUpload
  <2>1. NoUpload \in Hand
    BY DEF NoUpload, Hand
  <2> QED
    BY <1>0, <1>3, <2>1
<1>5. task' \in [Keys -> TaskStates] /\ \A j \in Keys : task'[j] = task[j] \/ j = k
  <2>1. "SUCCEEDED" \in TaskStates
    BY DEF TaskStates
  <2> QED
    BY <1>0, <1>3, <2>1
<1>6. \A o \in Services : HandMove(o)
  BY <1>3, <1>4, StillHands
<1>7. CASE revs' = revs
  <2>1. TypeOK'
    BY <1>0, <1>3, <1>4, <1>5, <1>7 DEF TypeOK, docVars, Hand
  <2>2. \A j \in Builds : BuildMove(j)
    BY <1>2, <1>3, <1>5, StillMoves
  <2> QED
    BY <1>2, <1>3, <1>5, <1>6, <1>7, <2>1, <2>2, RowsOnlyKeeps DEF docVars
<1>8. CASE /\ vstate[v] = "DRAFT"
           /\ revs' = [revs EXCEPT ![v][n].body = op[k].raw]
  <2>1. /\ revs' \in [Versions -> Seq(Revision)]
        /\ \A w \in Versions : w # v => revs'[w] = revs[w]
        /\ Len(revs[v]) \in Nat /\ Len(revs'[v]) = Len(revs[v])
        /\ \A m \in 1..Len(revs[v]) : m # n => revs'[v][m] = revs[v][m]
        /\ revs'[v][n].raw = revs[v][n].raw /\ revs'[v][n].body = op[k].raw
    <3>1. revs \in [Versions -> Seq(Revision)] /\ revs[v] \in Seq(Revision)
      BY <1>0, <1>2 DEF TypeOK, Revision
    <3>2. revs[v][n] \in Revision
      BY <1>2, <3>1
    <3>3. PICK r : r = [revs[v][n] EXCEPT !.body = op[k].raw]
      OBVIOUS
    <3>4. r \in Revision /\ r.raw = revs[v][n].raw /\ r.body = op[k].raw
      BY <1>2, <3>2, <3>3 DEF Revision
    <3>5. PICK q : q = [revs[v] EXCEPT ![n] = r]
      OBVIOUS
    <3>6. /\ q \in Seq(Revision) /\ Len(q) = Len(revs[v]) /\ q[n] = r
          /\ \A m \in 1..Len(revs[v]) : m # n => q[m] = revs[v][m]
      BY <1>2, <3>1, <3>4, <3>5
    <3>7. revs' = [revs EXCEPT ![v] = q]
      BY <1>8, <3>3, <3>5
    <3>8. /\ revs' \in [Versions -> Seq(Revision)] /\ revs'[v] = q
          /\ \A w \in Versions : w # v => revs'[w] = revs[w]
      BY <1>2, <3>1, <3>6, <3>7
    <3> QED
      BY <1>2, <3>1, <3>4, <3>6, <3>8
  <2>2. TypeOK'
    BY <1>0, <1>3, <1>4, <1>5, <2>1 DEF TypeOK, docVars, Hand, Revision
  <2>3. /\ \A w \in Versions : Len(revs'[w]) = Len(revs[w])
        /\ \A w \in Versions : \A m \in 1..Len(revs[w]) : revs'[w][m].raw = revs[w][m].raw
    BY <2>1
  <2>4. \A w \in Versions : revs'[w] = <<>> <=> revs[w] = <<>>
    <3>1. revs[v] # <<>> /\ revs'[v] # <<>>
      BY <1>2, <2>1
    <3> QED
      BY <2>1, <3>1
  <2>5. VersionsKept'
    <3>1. revs'[v][n].body = revs'[v][n].raw
      BY <1>2, <2>1
    <3>2. \A w \in Versions : \A m \in 1..Len(revs'[w]) :
             revs'[w][m].body \in {Null, revs'[w][m].raw}
      BY <2>1, <3>1 DEF KnowledgeIInv, VersionsKept
    <3> QED
      BY <1>3, <2>4, <3>2 DEF KnowledgeIInv, VersionsKept, docVars
  <2>6. IntentsKept' /\ OneInProgress' /\ RetryChain' /\ OnePublished'
    BY <1>3 DEF KnowledgeIInv, IntentsKept, OneInProgress, RetryChain, Accepted, Active,
                OnePublished, Published, docVars
  <2>7. ReservationsKept' /\ StateTable'
    <3>1. RowsKept
      BY DEF KnowledgeIInv, RowsKept
    <3>2. \A j \in Builds : BuildMove(j)
      BY <1>2, <1>3, <1>5, StillMoves
    <3>3. \A j \in Keys : j \notin Builds => OtherMove(j)
      BY <1>2, <1>3, <1>5 DEF OtherMove, Accepted
    <3> QED
      BY <1>0, <3>1, <3>2, <3>3, RowsMove DEF RowsKept
  <2>8. UploadsKept'
    BY <1>3, <2>3 DEF KnowledgeIInv, UploadsKept, Accepted
  <2>9. HandsKept'
    <3> SUFFICES ASSUME NEW o \in Services, NEW g, NEW x, g = fin'[o], x = upload'[o]
                 PROVE  FinHand(g)' /\ UpHand(o, x)'
      BY HandsOne
    <3>1. FinHand(g)'
      BY <1>0, <1>3 DEF FinHand, Accepted
    <3>2. \A p \in Services : upload'[p].version \in {upload[p].version, Null}
      BY <1>4 DEF NoUpload
    <3>3. CASE x = NoUpload
      BY <3>1, <3>3 DEF UpHand, NoUpload
    <3>4. CASE x = upload[o]
      <4>1. UpHand(o, x)
        BY <1>0, <3>4
      <4> QED
        BY <1>3, <2>4, <3>1, <3>2, <4>1 DEF UpHand, Accepted
    <3> QED
      BY <1>4, <3>3, <3>4
  <2>10. FilesKept'
    <3>1. \A o \in Services : upload'[o].phase = "stored" => upload'[o] = upload[o]
      BY <1>4 DEF NoUpload
    <3>2. \A w \in Versions : \A m \in 1..Len(revs'[w]) :
             [version |-> w, revision |-> m, raw |-> revs'[w][m].raw] \in files
      BY <2>3 DEF KnowledgeIInv, FilesKept
    <3> QED
      BY <1>3, <3>1, <3>2 DEF KnowledgeIInv, FilesKept
  <2>11. SealsKept'
    <3>1. \A p \in Publications : op[p].state = "SUCCEEDED" =>
             op[p].version # v /\ op[p].version \in Versions
      BY <1>8 DEF KnowledgeIInv, SealsKept, SealedStates, IntentsKept
    <3> QED
      BY <1>3, <2>1, <3>1 DEF KnowledgeIInv, SealsKept, SealedBy, docVars
  <2> QED
    BY <2>2, <2>5, <2>6, <2>7, <2>8, <2>9, <2>10, <2>11 DEF KnowledgeIInv
<1> QED
  BY <1>3, <1>7, <1>8

\* What the rows of an active build of a superseded or withdrawn document become.
LEMMA StaleMoves ==
    ASSUME KnowledgeIInv, NEW k \in Builds, Active(k),
           op'[k] = [op[k] EXCEPT !.state = "STALE"],
           task'[k] = IF Unfinished(k) THEN "STALE" ELSE task[k],
           gen'[k] = IF gen[k] = "BUILDING" THEN "FAILED" ELSE gen[k]
    PROVE  BuildMove(k)
<1> USE Kinds
<1>1. SameIntent(k) /\ op'[k].state = "STALE"
  <2>1. "STALE" \in OpStates /\ TypeOK /\ k \in Keys
    BY DEF OpStates, KnowledgeIInv
  <2> QED
    BY <2>1, TypeParts DEF SameIntent
<1>2. CASE Unfinished(k) \/ gen[k] = "BUILDING"
  <2>1. Row(k) \in {Waiting, Working} /\ Unfinished(k) /\ gen[k] = "BUILDING"
    BY <1>2, Underway
  <2> QED
    BY <1>1, <2>1 DEF BuildMove, Row, Ended
<1>3. CASE ~(Unfinished(k) \/ gen[k] = "BUILDING")
  <2>1. RowsAgree(k)
    BY DEF KnowledgeIInv, StateTable, Accepted, Active
  <2>2. gen[op[k].gen] = "READY"
    BY <1>3, <2>1 DEF RowsAgree, OwnRows, WaitingRows, Active, Unfinished
  <2> QED
    BY <1>1, <1>3, <2>2 DEF BuildMove
<1> QED
  BY <1>2, <1>3

\* What accept_upload finds when the key was not accepted.
LEMMA NewUploadTarget ==
    ASSUME KnowledgeIInv, NEW s \in Services, AcceptUpload(s), NEW u, u = upload[s],
           NEW k, k = u.key, NEW v, v = u.version, ~Accepted(k)
    PROVE  /\ u.phase = "stored" /\ k \in Uploads /\ op[k].state = "DRAFT" /\ v \in Versions
           /\ TargetOk(k) /\ u.revision = op[k].revision /\ op[k].raw \in Contents
           /\ UpHand(s, u)
           /\ vstate[v] \in {"NONE", "DRAFT"} /\ Len(revs[v]) + 1 = op[k].revision
           /\ op[k].version = Null => \A o \in Services \ {s} : upload[o].version # v
<1> USE Kinds
<1>0. \A o \in Services : UpHand(o, upload[o])
  BY HandsOne DEF KnowledgeIInv
<1>2. /\ u.phase = "stored" /\ k \in Uploads /\ op[k].state = "DRAFT" /\ v \in Versions
      /\ TargetOk(k) /\ u.revision = op[k].revision /\ op[k].raw \in Contents
      /\ ~Accepted(k) /\ UpHand(s, u)
  <2>1. u.phase = "stored" /\ UpHand(s, u) /\ ~Accepted(k) /\ TargetOk(k)
    BY <1>0 DEF AcceptUpload
  <2>2. k \in Uploads /\ op[k].state = "DRAFT"
    BY <2>1 DEF UpHand, Accepted
  <2> QED
    BY <2>1, <2>2 DEF UpHand, KnowledgeIInv, IntentsKept
<1>3. /\ vstate[v] \in {"NONE", "DRAFT"} /\ Len(revs[v]) + 1 = op[k].revision
      /\ op[k].version = Null => \A o \in Services \ {s} : upload[o].version # v
  <2>1. CASE op[k].version = Null
    <3>1. /\ revs[v] = <<>> /\ op[k].revision = 1
          /\ \A o \in Services \ {s} : upload[o].version # v
      BY <1>2, <2>1 DEF UpHand, KnowledgeIInv, IntentsKept
    <3>2. vstate[v] = "NONE"
      BY <1>2, <3>1 DEF KnowledgeIInv, VersionsKept
    <3> QED
      BY <3>1, <3>2
  <2>2. CASE op[k].version # Null
    <3>1. v = op[k].version
      BY <1>2, <2>2 DEF UpHand
    <3> QED
      BY <1>2, <2>2, <3>1 DEF TargetOk
  <2> QED
    BY <2>1, <2>2
<1> QED
  BY <1>2, <1>3

\* accept_upload of a key that was not accepted.
LEMMA NewUploadKeeps ==
    ASSUME KnowledgeIInv, NEW s \in Services, AcceptUpload(s), ~Accepted(upload[s].key)
    PROVE  KnowledgeIInv'
<1> USE Kinds
<1>0. /\ TypeOK /\ op \in [Keys -> Intents] /\ upload \in [Services -> Hand]
      /\ task \in [Keys -> TaskStates] /\ row \in Nat
      /\ gen \in [Keys -> {"NONE", "BUILDING", "READY", "FAILED"}]
      /\ owner \in [Keys -> Services \cup {Null}]
      /\ vstate \in [Versions -> {"NONE", "DRAFT", "PUBLISHED", "SUPERSEDED", "DISABLED"}]
      /\ \A o \in Services : FinHand(fin[o]) /\ UpHand(o, upload[o])
  BY HandsOne DEF KnowledgeIInv, TypeOK, Hand
<1>1. PICK u, k, v : u = upload[s] /\ k = u.key /\ v = u.version
  OBVIOUS
<1>2. /\ u.phase = "stored" /\ k \in Uploads /\ op[k].state = "DRAFT" /\ v \in Versions
      /\ TargetOk(k) /\ u.revision = op[k].revision /\ op[k].raw \in Contents
      /\ ~Accepted(k) /\ UpHand(s, u)
  BY <1>1, NewUploadTarget
<1>3. /\ vstate[v] \in {"NONE", "DRAFT"} /\ Len(revs[v]) + 1 = op[k].revision
      /\ op[k].version = Null => \A o \in Services \ {s} : upload[o].version # v
  BY <1>1, NewUploadTarget
<1>4. PICK r : r = [raw |-> op[k].raw, body |-> Null]
  OBVIOUS
<1>5. PICK q : q = Append(revs[v], r)
  OBVIOUS
<1>6. r \in Revision /\ r.raw = op[k].raw /\ r.body = Null
  BY <1>2, <1>4 DEF Revision
<1>7. /\ row' = row + 1 /\ vstate' = [vstate EXCEPT ![v] = "DRAFT"]
      /\ revs' = [revs EXCEPT ![v] = q]
      /\ lapsed' = lapsed \ {v}
      /\ op' = [OpsSuperseded(v) EXCEPT ![k].state = "SUCCEEDED", ![k].version = v]
      /\ task' = [TasksSuperseded(v) EXCEPT ![k] = "QUEUED"]
      /\ owner' = [owner EXCEPT ![k] = s]
      /\ gen' = GensSuperseded(v)
      /\ upload' = [upload EXCEPT ![s].phase = "accepted"]
      /\ UNCHANGED <<current, release, sealed, files, svc, held, fin>>
  BY <1>1, <1>2, <1>4, <1>5 DEF AcceptUpload
<1>8. /\ revs' \in [Versions -> Seq(Revision)]
      /\ \A w \in Versions : w # v => revs'[w] = revs[w]
      /\ revs'[v] = q /\ q # <<>>
      /\ Len(revs[v]) \in Nat /\ Len(q) = Len(revs[v]) + 1
      /\ \A n \in 1..Len(revs[v]) : q[n] = revs[v][n]
      /\ q[Len(revs[v]) + 1] = r
  <2>1. revs' = [revs EXCEPT ![v] = q] /\ v \in Versions /\ TypeOK
    BY <1>0, <1>2, <1>7
  <2>2. revs \in [Versions -> Seq(Revision)] /\ revs[v] \in Seq(Revision)
    BY <2>1 DEF TypeOK, Revision
  <2>3. /\ q \in Seq(Revision) /\ q # <<>>
        /\ Len(revs[v]) \in Nat /\ Len(q) = Len(revs[v]) + 1
        /\ \A n \in 1..Len(revs[v]) : q[n] = revs[v][n]
        /\ q[Len(revs[v]) + 1] = r
    BY <1>5, <1>6, <2>2
  <2> QED
    BY <2>1, <2>2, <2>3
<1>9. PICK i : i = [op[k] EXCEPT !.state = "SUCCEEDED", !.version = v]
  OBVIOUS
<1>10. /\ i \in Intents /\ i.state = "SUCCEEDED" /\ i.version = v /\ i.raw = op[k].raw
       /\ i.revision = op[k].revision
  <2>1. op[k] \in Intents
    BY <1>0, <1>2
  <2> QED
    BY <1>2, <1>9, <2>1 DEF Intents, OpStates
<1>11. /\ op'[k] = i /\ task'[k] = "QUEUED"
       /\ \A j \in Keys \ {k} :
             op'[j] = IF j \in Builds /\ op[j].version = v /\ Active(j)
                      THEN [op[j] EXCEPT !.state = "STALE"] ELSE op[j]
       /\ \A j \in Keys \ {k} :
             task'[j] = IF Accepted(j) /\ op[j].version = v /\ Unfinished(j)
                        THEN "STALE" ELSE task[j]
       /\ \A j \in Keys :
             gen'[j] = IF op[j].version = v /\ gen[j] = "BUILDING" THEN "FAILED" ELSE gen[j]
  BY <1>2, <1>7, <1>9 DEF OpsSuperseded, TasksSuperseded, GensSuperseded
<1>12. /\ op' \in [Keys -> Intents] /\ task' \in [Keys -> TaskStates]
       /\ gen' \in [Keys -> {"NONE", "BUILDING", "READY", "FAILED"}]
  <2>1. {"STALE", "QUEUED"} \subseteq TaskStates /\ "STALE" \in OpStates
    BY DEF TaskStates, OpStates
  <2>2. ASSUME NEW j \in Keys
        PROVE  op'[j] \in Intents
    <3>1. CASE j = k
      BY <1>10, <1>11, <3>1
    <3>2. CASE j # k
      <4>1. op'[j] \in {[op[j] EXCEPT !.state = "STALE"], op[j]}
        BY <1>11, <3>2
      <4> QED
        BY <1>0, <2>1, <4>1, TypeParts
    <3> QED
      BY <3>1, <3>2
  <2>3. DOMAIN op' = Keys /\ op' = [j \in Keys |-> op'[j]]
    BY <1>7 DEF OpsSuperseded
  <2> QED
    BY <1>0, <1>7, <2>1, <2>2, <2>3 DEF TasksSuperseded, GensSuperseded
<1>13. /\ upload' \in [Services -> Hand] /\ \A o \in Services \ {s} : upload'[o] = upload[o]
       /\ upload'[s].phase = "accepted" /\ upload'[s].key = k /\ upload'[s].version = v
  <2>1. PICK x : x = [u EXCEPT !.phase = "accepted"]
    OBVIOUS
  <2>2. upload' = [upload EXCEPT ![s] = x]
    BY <1>1, <1>7, <2>1
  <2>3. u \in Hand
    BY <1>0, <1>1
  <2>4. x \in Hand /\ x.phase = "accepted" /\ x.key = k /\ x.version = v
    BY <1>1, <2>1, <2>3 DEF Hand
  <2> QED
    BY <1>0, <2>2, <2>4
<1>14. TypeOK'
  <2>0. row' = row + 1 /\ lapsed' = lapsed \ {v} /\ owner' = [owner EXCEPT ![k] = s]
        /\ vstate' = [vstate EXCEPT ![v] = "DRAFT"]
    BY <1>7
  <2>1. /\ row' \in Nat /\ lapsed' \subseteq Versions /\ owner' \in [Keys -> Services \cup {Null}]
        /\ vstate' \in [Versions -> {"NONE", "DRAFT", "PUBLISHED", "SUPERSEDED", "DISABLED"}]
    <3>1. row' \in Nat /\ lapsed' \subseteq Versions
      BY <1>0, <2>0 DEF TypeOK
    <3>2. vstate' \in [Versions -> {"NONE", "DRAFT", "PUBLISHED", "SUPERSEDED", "DISABLED"}]
      BY <1>0, <2>0
    <3>3. owner' \in [Keys -> Services \cup {Null}]
      BY <1>0, <2>0
    <3> QED
      BY <3>1, <3>2, <3>3
  <2> QED
    BY <1>0, <1>7, <1>8, <1>12, <1>13, <2>1 DEF TypeOK, Revision, Hand
<1>15. ASSUME NEW j \in Builds
       PROVE  BuildMove(j)
  <2>1. CASE Active(j) /\ op[j].version = v
    <3>1. Accepted(j) /\ j # k
      BY <1>2, <2>1 DEF Accepted, Active
    <3> QED
      BY <1>11, <2>1, <3>1, StaleMoves
  <2>2. CASE ~(Active(j) /\ op[j].version = v)
    <3>1. op[j].version # v \/ ~(Unfinished(j) \/ gen[j] = "BUILDING")
      BY <2>2, Underway
    <3> QED
      BY <1>2, <1>11, <2>2, <3>1, StillMoves
  <2> QED
    BY <2>1, <2>2
<1>16. ASSUME NEW j \in Keys, j \notin Builds
       PROVE  OtherMove(j)
  <2>1. gen'[j] = gen[j]
    BY <1>11, <1>16 DEF KnowledgeIInv, ReservationsKept
  <2>2. CASE j = k
    BY <1>2, <1>10, <1>11, <2>1, <2>2 DEF OtherMove, Accepted
  <2>3. CASE j # k
    BY <1>11, <1>16, <2>1, <2>3 DEF OtherMove, Accepted
  <2> QED
    BY <2>2, <2>3
<1>17. RowsKept'
  BY <1>0, <1>15, <1>16, RowsMove DEF RowsKept, KnowledgeIInv
<1>18. ASSUME NEW j \in Keys
       PROVE  /\ Accepted(j)' <=> Accepted(j) \/ j = k
              /\ op'[j].raw = op[j].raw /\ op'[j].revision = op[j].revision
              /\ op[j].state # "NONE" => op'[j].state # "NONE"
              /\ gen[j] = "READY" => gen'[j] = "READY"
              /\ j \in Uploads /\ j # k => op'[j] = op[j]
              /\ j \in Builds /\ op[j].state = "SUCCEEDED" => op'[j] = op[j]
              /\ j \in Builds => op'[j].gen = op[j].gen
              /\ j \in Builds /\ op'[j].state = "SUCCEEDED" => op[j].state = "SUCCEEDED"
  <2>1. CASE j = k
    BY <1>2, <1>10, <1>11, <2>1 DEF Accepted
  <2>2. CASE j # k
    <3>1. "STALE" \in OpStates
      BY DEF OpStates
    <3>2. CASE j \in Builds /\ op[j].version = v /\ Active(j)
      <4>1. op'[j] = [op[j] EXCEPT !.state = "STALE"]
        BY <1>11, <2>2, <3>2
      <4> QED
        BY <1>0, <1>11, <2>2, <3>1, <3>2, <4>1, TypeParts DEF Accepted, Active
    <3>3. CASE ~(j \in Builds /\ op[j].version = v /\ Active(j))
      BY <1>11, <2>2, <3>3 DEF Accepted
    <3> QED
      BY <3>2, <3>3
  <2> QED
    BY <2>1, <2>2
<1>19. VersionsKept'
  <2> SUFFICES ASSUME NEW w \in Versions
               PROVE  /\ vstate'[w] = "NONE" <=> revs'[w] = <<>>
                      /\ sealed'[w] # Null => vstate'[w] \in SealedStates
                      /\ \A n \in 1..Len(revs'[w]) : revs'[w][n].body \in {Null, revs'[w][n].raw}
    BY DEF VersionsKept
  <2>1. CASE w = v
    <3>1. vstate'[w] = "DRAFT" /\ sealed'[w] = Null
      BY <1>0, <1>3, <1>7, <2>1 DEF KnowledgeIInv, VersionsKept, SealedStates
    <3>2. \A n \in 1..Len(q) : q[n].body \in {Null, q[n].raw}
      <4> SUFFICES ASSUME NEW n \in 1..Len(q)
                   PROVE  q[n].body \in {Null, q[n].raw}
        OBVIOUS
      <4>1. CASE n \in 1..Len(revs[v])
        <5>1. q[n] = revs[v][n] /\ revs[v][n].body \in {Null, revs[v][n].raw}
          BY <1>2, <1>8, <4>1 DEF KnowledgeIInv, VersionsKept
        <5> QED
          BY <5>1
      <4>2. CASE n = Len(revs[v]) + 1
        BY <1>6, <1>8, <4>2
      <4> QED
        BY <1>8, <4>1, <4>2
    <3> QED
      BY <1>8, <2>1, <3>1, <3>2
  <2>2. CASE w # v
    BY <1>0, <1>7, <1>8, <2>2 DEF KnowledgeIInv, VersionsKept
  <2> QED
    BY <2>1, <2>2
<1>20. UploadsKept'
  <2> SUFFICES ASSUME NEW j \in Uploads, Accepted(j)'
               PROVE  /\ op'[j].version \in Versions
                      /\ op'[j].revision \in 1..Len(revs'[op'[j].version])
                      /\ revs'[op'[j].version][op'[j].revision].raw = op'[j].raw
    BY DEF UploadsKept
  <2>1. CASE j = k
    BY <1>2, <1>3, <1>6, <1>8, <1>10, <1>11, <2>1
  <2>2. CASE j # k
    <3>1. op'[j] = op[j] /\ Accepted(j)
      BY <1>18, <2>2
    <3>2. /\ op[j].version \in Versions /\ op[j].revision \in 1..Len(revs[op[j].version])
          /\ revs[op[j].version][op[j].revision].raw = op[j].raw
      BY <3>1 DEF KnowledgeIInv, UploadsKept
    <3>3. CASE op[j].version = v
      BY <1>8, <3>1, <3>2, <3>3
    <3>4. CASE op[j].version # v
      BY <1>8, <3>1, <3>2, <3>4
    <3> QED
      BY <3>3, <3>4
  <2> QED
    BY <2>1, <2>2
<1>21. HandsKept'
  <2> SUFFICES ASSUME NEW o \in Services, NEW f, NEW x, f = fin'[o], x = upload'[o]
               PROVE  FinHand(f)' /\ UpHand(o, x)'
    BY HandsOne
  <2>1. FinHand(f)'
    <3>1. CASE f.phase = "idle"
      BY <3>1 DEF FinHand
    <3>2. CASE f.phase # "idle"
      <4>1. f.key \in Publications /\ Accepted(f.key) /\ gen[op[f.key].gen] = "READY"
        BY <1>0, <1>7, <3>2 DEF FinHand
      <4>2. op[f.key].gen \in Keys
        BY <4>1 DEF KnowledgeIInv, ReservationsKept
      <4>3. gen'[op[f.key].gen] = "READY" /\ Accepted(f.key)' /\ op'[f.key].gen = op[f.key].gen
        BY <1>18, <4>1, <4>2
      <4> QED
        BY <4>1, <4>3 DEF FinHand
    <3> QED
      BY <3>1, <3>2
  <2>2. CASE o = s
    <3>1. UpHand(s, u) /\ x.phase = "accepted" /\ x.key = k /\ Accepted(k)'
      BY <1>2, <1>13, <1>18, <2>2, SMTT(60)
    <3>2. svc'[s] = "ready" /\ op'[k].state # "NONE"
      BY <1>1, <1>2, <1>7, <1>10, <1>11, <3>1 DEF UpHand
    <3> QED
      BY <1>2, <2>1, <2>2, <3>1, <3>2 DEF UpHand
  <2>3. CASE o # s
    <3>1. x = upload[o] /\ UpHand(o, x)
      BY <1>0, <1>13, <2>3
    <3>2. CASE x.phase = "idle"
      BY <2>1, <3>2 DEF UpHand
    <3>3. CASE x.phase # "idle"
      <4>1. x.key \in Uploads /\ svc'[o] = "ready" /\ op'[x.key].state # "NONE"
            /\ (Accepted(x.key) => Accepted(x.key)')
        BY <1>7, <1>18, <3>1, <3>3 DEF UpHand
      <4>2. ASSUME x.phase \in {"planned", "stored"}, ~Accepted(x.key)'
            PROVE  /\ x.revision = op'[x.key].revision
                   /\ op'[x.key].version # Null => x.version = op'[x.key].version
                   /\ op'[x.key].version = Null =>
                         /\ revs'[x.version] = <<>>
                         /\ \A p \in Services \ {o} : upload'[p].version # x.version
        <5>1. op'[x.key] = op[x.key] /\ ~Accepted(x.key)
          BY <1>18, <4>1, <4>2
        <5>2. /\ x.revision = op[x.key].revision
              /\ op[x.key].version # Null => x.version = op[x.key].version
              /\ op[x.key].version = Null =>
                    /\ revs[x.version] = <<>> /\ x.version \in Versions
                    /\ \A p \in Services \ {o} : upload[p].version # x.version
          BY <3>1, <4>2, <5>1 DEF UpHand
        <5>3. op[x.key].version = Null => x.version # v
          BY <1>1, <2>3, <5>2
        <5> QED
          BY <1>8, <1>13, <5>1, <5>2, <5>3
      <4> QED
        BY <2>1, <3>1, <4>1, <4>2 DEF UpHand
    <3> QED
      BY <3>2, <3>3
  <2> QED
    BY <2>2, <2>3
<1>22. FilesKept'
  <2>1. [version |-> v, revision |-> Len(revs[v]) + 1, raw |-> r.raw] \in files
    BY <1>1, <1>2, <1>3, <1>6 DEF KnowledgeIInv, FilesKept
  <2>2. ASSUME NEW w \in Versions, NEW n \in 1..Len(revs'[w])
        PROVE  [version |-> w, revision |-> n, raw |-> revs'[w][n].raw] \in files
    <3>1. CASE w = v
      <4>1. CASE n \in 1..Len(revs[v])
        BY <1>2, <1>8, <3>1, <4>1 DEF KnowledgeIInv, FilesKept
      <4>2. CASE n = Len(revs[v]) + 1
        BY <1>8, <2>1, <3>1, <4>2
      <4> QED
        BY <1>8, <2>2, <3>1, <4>1, <4>2
    <3>2. CASE w # v
      BY <1>8, <3>2 DEF KnowledgeIInv, FilesKept
    <3> QED
      BY <3>1, <3>2
  <2>3. ASSUME NEW o \in Services, upload'[o].phase = "stored"
        PROVE  [version |-> upload'[o].version, revision |-> upload'[o].revision,
                raw |-> op'[upload'[o].key].raw] \in files
    <3>1. upload'[o] = upload[o] /\ upload[o].phase = "stored"
      BY <1>13, <2>3
    <3>2. PICK j : j = upload[o].key
      OBVIOUS
    <3>3. j \in Uploads
      BY <1>0, <3>1, <3>2 DEF UpHand
    <3>4. op'[j].raw = op[j].raw
      BY <1>18, <3>3
    <3> QED
      BY <3>1, <3>2, <3>4 DEF KnowledgeIInv, FilesKept
  <2> QED
    BY <1>7, <2>2, <2>3, ZenonT(60) DEF KnowledgeIInv, FilesKept
<1>23. SealsKept'
  <2>1. ASSUME NEW p \in Publications, op'[p].state = "SUCCEEDED"
        PROVE  op'[p] = op[p] /\ op[p].version \in Versions \ {v}
    <3>1. op[p].state = "SUCCEEDED" /\ op'[p] = op[p] /\ op[p].version \in Versions
      BY <1>18, <2>1 DEF KnowledgeIInv, IntentsKept
    <3>2. vstate[op[p].version] \in SealedStates
      BY <3>1 DEF KnowledgeIInv, SealsKept
    <3> QED
      BY <1>3, <3>1, <3>2 DEF SealedStates
  <2>2. \A w \in Versions \ {v} : vstate'[w] = vstate[w] /\ revs'[w] = revs[w]
    BY <1>0, <1>7, <1>8
  <2>3. vstate'[v] \notin SealedStates
    BY <1>0, <1>2, <1>7 DEF SealedStates
  <2>4. ASSUME NEW p \in Publications, NEW w \in Versions,
               op'[p].state = "SUCCEEDED", op'[p].version = w
        PROVE  vstate'[w] \in SealedStates /\ SealedBy(w, p)'
    <3>1. /\ op'[p] = op[p] /\ w \in Versions \ {v} /\ vstate[w] \in SealedStates
          /\ SealedBy(w, p)
      BY <2>1, <2>4 DEF KnowledgeIInv, SealsKept
    <3>2. op[p].gen \in Keys
      BY <3>1 DEF SealedBy, KnowledgeIInv, ReservationsKept, Accepted
    <3>3. PICK g \in Keys : g = op[p].gen
      BY <3>2
    <3>4. /\ sealed' = sealed /\ revs'[w] = revs[w] /\ op'[p] = op[p]
          /\ gen[g] = "READY" => gen'[g] = "READY"
      BY <1>7, <1>18, <2>2, <3>1
    <3>5. SealedBy(w, p)'
      BY <3>1, <3>3, <3>4 DEF SealedBy
    <3> QED
      BY <2>2, <3>1, <3>5
  <2>5. \A w \in Versions : vstate'[w] \in SealedStates =>
           \E p \in Publications : op'[p].state = "SUCCEEDED" /\ op'[p].version = w
    BY <1>18, <2>2, <2>3 DEF KnowledgeIInv, SealsKept
  <2> QED
    BY <2>1, <2>4, <2>5 DEF KnowledgeIInv, SealsKept
<1>24. OnePublished'
  <2>1. Published' = Published
    BY <1>0, <1>3, <1>7 DEF Published
  <2> QED
    BY <1>7, <2>1 DEF KnowledgeIInv, OnePublished
<1> QED
  BY <1>14, <1>17, <1>19, <1>20, <1>21, <1>22, <1>23, <1>24 DEF KnowledgeIInv, RowsKept

\* accept_upload: a key accepted meanwhile is replayed.
LEMMA AcceptUploadKeeps ==
    ASSUME KnowledgeIInv, NEW s \in Services, AcceptUpload(s)
    PROVE  KnowledgeIInv'
<1>1. CASE ~Accepted(upload[s].key)
  BY <1>1, NewUploadKeeps
<1>2. CASE Accepted(upload[s].key)
  <2> USE Kinds
  <2>0. /\ TypeOK /\ upload \in [Services -> Hand]
        /\ \A o \in Services : FinHand(fin[o]) /\ UpHand(o, upload[o])
    BY HandsOne DEF KnowledgeIInv, TypeOK, Hand
  <2>1. PICK u, x : u = upload[s] /\ x = [u EXCEPT !.phase = "accepted"]
    OBVIOUS
  <2>2. /\ u.phase = "stored" /\ upload' = [upload EXCEPT ![s] = x]
        /\ UNCHANGED <<docVars, revs, lapsed, workVars, files, svc, held, fin>>
    BY <1>2, <2>1 DEF AcceptUpload
  <2>3. u \in Hand /\ UpHand(s, u) /\ Accepted(u.key)
    BY <1>2, <2>0, <2>1
  <2>4. x \in Hand /\ x.phase = "accepted" /\ x.key = u.key /\ x.version = u.version
    BY <2>1, <2>3 DEF Hand
  <2>5. upload' \in [Services -> Hand] /\ upload'[s] = x
        /\ \A o \in Services \ {s} : upload'[o] = upload[o]
    BY <2>0, <2>2, <2>4
  <2>6. TypeOK'
    BY <2>0, <2>2, <2>5 DEF TypeOK, docVars, workVars, Hand
  <2>7. HandsKept'
    <3> SUFFICES ASSUME NEW o \in Services, NEW f, NEW w, f = fin'[o], w = upload'[o]
                 PROVE  FinHand(f)' /\ UpHand(o, w)'
      BY HandsOne
    <3>1. FinHand(f)'
      BY <2>0, <2>2 DEF FinHand, Accepted, workVars
    <3>2. \A p \in Services : upload'[p].version = upload[p].version
      BY <2>1, <2>4, <2>5
    <3>3. CASE o = s
      BY <2>2, <2>3, <2>4, <2>5, <3>1, <3>3 DEF UpHand, Accepted, workVars
    <3>4. CASE o # s
      <4>1. w = upload[o] /\ UpHand(o, w)
        BY <2>0, <2>5, <3>4
      <4> QED
        BY <2>2, <3>1, <3>2, <4>1 DEF UpHand, Accepted, workVars
    <3> QED
      BY <3>3, <3>4
  <2>8. FilesKept'
    <3>1. \A o \in Services : upload'[o].phase = "stored" => upload'[o] = upload[o]
      BY <2>4, <2>5
    <3> QED
      BY <2>2, <3>1 DEF KnowledgeIInv, FilesKept, workVars
  <2> QED
    BY <2>2, <2>6, <2>7, <2>8, FilesAndHands DEF docVars, workVars
<1> QED
  BY <1>1, <1>2

\* A build is accepted: it reserves a generation and a task, or is bound to a
\* READY generation of its revision.
LEMMA ReserveKeeps ==
    ASSUME KnowledgeIInv, NEW k \in Builds, NEW g \in Builds, op[k].state = "DRAFT",
           ~PublicationInProgress,
           NEW i, i = [op[k] EXCEPT !.state = "CONFIRMED", !.gen = g],
           op' = [op EXCEPT ![k] = i],
           \/ /\ g = k
              /\ task' = [task EXCEPT ![k] = "QUEUED"]
              /\ gen' = [gen EXCEPT ![k] = "BUILDING"]
           \/ /\ gen[g] = "READY"
              /\ op[g].version = op[k].version /\ op[g].revision = op[k].revision
              /\ UNCHANGED <<task, gen>>,
           \A j \in Retries : k \in Retries /\ Accepted(j) => op[j].source # op[k].source,
           owner' \in [Keys -> Services \cup {Null}], row' = row + 1,
           UNCHANGED <<current, release, vstate, revs, sealed, lapsed, files, procVars>>
    PROVE  KnowledgeIInv'
<1> USE Kinds
<1>0. /\ TypeOK /\ op \in [Keys -> Intents] /\ task \in [Keys -> TaskStates] /\ row \in Nat
      /\ gen \in [Keys -> {"NONE", "BUILDING", "READY", "FAILED"}]
      /\ ~Accepted(k) /\ task[k] = "NONE" /\ gen[k] = "NONE" /\ k \in Keys /\ g \in Keys
      /\ \A j \in Builds : ~Active(j)
  BY DEF KnowledgeIInv, TypeOK, ReservationsKept, Accepted, PublicationInProgress
<1>2. /\ i \in Intents /\ i.state = "CONFIRMED" /\ i.gen = g /\ i.version = op[k].version
      /\ i.revision = op[k].revision /\ i.raw = op[k].raw /\ i.source = op[k].source
  <2>1. op[k] \in Intents
    BY <1>0
  <2> QED
    BY <2>1 DEF Intents, OpStates
<1>4. op' \in [Keys -> Intents] /\ op'[k] = i /\ \A j \in Keys \ {k} : op'[j] = op[j]
  <2>1. op \in [Keys -> Intents] /\ k \in Keys /\ i \in Intents
    BY <1>0, <1>2
  <2> QED
    BY <2>1
<1>5. /\ task' \in [Keys -> TaskStates]
      /\ gen' \in [Keys -> {"NONE", "BUILDING", "READY", "FAILED"}]
      /\ \A j \in Keys \ {k} : task'[j] = task[j] /\ gen'[j] = gen[j]
      /\ \/ g = k /\ task'[k] = "QUEUED" /\ gen'[k] = "BUILDING"
         \/ /\ g # k /\ gen[g] = "READY" /\ Accepted(g)
            /\ op[g].version = op[k].version /\ op[g].revision = op[k].revision
            /\ task'[k] = "NONE" /\ gen'[k] = "NONE"
  <2>1. "QUEUED" \in TaskStates
    BY DEF TaskStates
  <2>2. gen[g] = "READY" => g # k /\ Accepted(g)
    BY <1>0 DEF KnowledgeIInv, ReservationsKept
  <2> QED
    BY <1>0, <2>1, <2>2
<1>6. ASSUME NEW j \in Keys
      PROVE  /\ Accepted(j)' <=> Accepted(j) \/ j = k
             /\ Active(j)' <=> Active(j) \/ j = k
             /\ op[j].state # "NONE" => op'[j].state # "NONE"
             /\ op'[j].raw = op[j].raw /\ op'[j].version = op[j].version
             /\ op'[j].revision = op[j].revision /\ op'[j].source = op[j].source
             /\ Accepted(j) => op'[j] = op[j] /\ task'[j] = task[j] /\ gen'[j] = gen[j]
  <2>1. CASE j = k
    BY <1>0, <1>2, <1>4, <2>1 DEF Accepted, Active
  <2>2. CASE j # k
    BY <1>4, <1>5, <2>2 DEF Accepted, Active
  <2> QED
    BY <2>1, <2>2
<1>7. \A j \in Builds : Accepted(j) => op[j].gen \in Builds /\ Accepted(op[j].gen)
  BY DEF KnowledgeIInv, ReservationsKept
<1>8. TypeOK'
  <2>1. row' \in Nat /\ TypeOK
    BY <1>0
  <2>2. /\ op' \in [Keys -> Intents] /\ task' \in [Keys -> TaskStates]
        /\ gen' \in [Keys -> {"NONE", "BUILDING", "READY", "FAILED"}]
    BY <1>4, <1>5
  <2>3. UNCHANGED <<current, release, vstate, revs, sealed, lapsed, files, svc, upload, held, fin>>
    BY DEF procVars
  <2> QED
    BY <2>1, <2>2, <2>3, ZenonT(60) DEF TypeOK
<1>9. VersionsKept' /\ OnePublished'
  BY DEF KnowledgeIInv, VersionsKept, OnePublished, Published
<1>10. IntentsKept'
  <2> SUFFICES ASSUME NEW j \in Keys, op'[j].state # "NONE"
               PROVE  /\ j \notin Uploads => op'[j].version \in Versions
                      /\ j \in Uploads => op'[j].raw \in Contents
                      /\ j \in Uploads /\ op'[j].state = "DRAFT" /\ op'[j].version = Null
                            => op'[j].revision = 1
                      /\ j \in Retries =>
                            LET h == op'[j].source IN
                            /\ h \in Builds \ {j}
                            /\ op'[h].state = "FAILED" /\ gen'[h] = "FAILED"
                            /\ op'[h].version = op'[j].version
                            /\ op'[h].revision = op'[j].revision
    BY DEF IntentsKept
  <2>1. op[j].state # "NONE"
    BY <1>4, <2>1
  <2>2. CASE j \in Retries
    <3>1. PICK h : h = op[j].source
      OBVIOUS
    <3>2. /\ h \in Builds \ {j} /\ op[h].state = "FAILED" /\ gen[h] = "FAILED"
          /\ op[h].version = op[j].version /\ op[h].revision = op[j].revision
          /\ op[j].version \in Versions
      BY <2>1, <2>2, <3>1 DEF KnowledgeIInv, IntentsKept
    <3>3. Accepted(h)
      BY <3>2 DEF Accepted
    <3>4. op'[h] = op[h] /\ gen'[h] = gen[h]
      BY <1>6, <3>2, <3>3
    <3>5. op'[j].source = h /\ op'[j].version = op[j].version /\ op'[j].revision = op[j].revision
      BY <1>6, <3>1
    <3> QED
      BY <2>2, <3>2, <3>4, <3>5
  <2>3. CASE j \notin Retries
    <3>1. /\ j \notin Uploads => op[j].version \in Versions
          /\ j \in Uploads => op[j].raw \in Contents
          /\ j \in Uploads /\ op[j].state = "DRAFT" /\ op[j].version = Null => op[j].revision = 1
      BY <2>1 DEF KnowledgeIInv, IntentsKept
    <3>2. j \in Uploads => op'[j] = op[j]
      BY <1>4
    <3> QED
      BY <1>6, <2>3, <3>1, <3>2
  <2> QED
    BY <2>2, <2>3
<1>11. ReservationsKept'
  <2> SUFFICES ASSUME NEW j \in Keys
               PROVE  /\ ~Accepted(j)' => task'[j] = "NONE" /\ gen'[j] = "NONE"
                      /\ j \notin Builds => gen'[j] = "NONE" /\ op'[j].state \in {"NONE", "DRAFT", "SUCCEEDED"}
                      /\ gen'[j] # "NONE" => op'[j].gen = j
                      /\ j \in Builds /\ Accepted(j)' =>
                            LET h == op'[j].gen IN
                            /\ h \in Builds /\ op'[h].state \notin {"NONE", "DRAFT"}
                            /\ op'[h].version = op'[j].version
                            /\ op'[h].revision = op'[j].revision
    BY DEF ReservationsKept, Accepted
  <2>1. CASE j = k
    <3>1. Accepted(g)' /\ op'[k].gen = g
      BY <1>0, <1>2, <1>4, <1>5, <1>6
    <3>2. op'[g].version = op'[k].version /\ op'[g].revision = op'[k].revision
      BY <1>0, <1>5, <1>6
    <3> QED
      BY <1>2, <1>4, <1>5, <1>6, <2>1, <3>1, <3>2 DEF Accepted
  <2>2. CASE j # k
    <3>1. op'[j] = op[j] /\ task'[j] = task[j] /\ gen'[j] = gen[j] /\ (Accepted(j)' <=> Accepted(j))
      BY <1>4, <1>5, <1>6, <2>2
    <3>2. ASSUME j \in Builds, Accepted(j)
          PROVE  LET h == op'[j].gen IN
                 /\ h \in Builds /\ op'[h].state \notin {"NONE", "DRAFT"}
                 /\ op'[h].version = op'[j].version /\ op'[h].revision = op'[j].revision
      <4>1. PICK h : h = op[j].gen
        OBVIOUS
      <4>2. /\ h \in Builds /\ Accepted(h)
            /\ op[h].version = op[j].version /\ op[h].revision = op[j].revision
        BY <3>2, <4>1 DEF KnowledgeIInv, ReservationsKept
      <4>3. op'[h] = op[h]
        BY <1>6, <4>2
      <4> QED
        BY <3>1, <4>1, <4>2, <4>3 DEF Accepted
    <3> QED
      BY <3>1, <3>2, ZenonT(60) DEF KnowledgeIInv, ReservationsKept
  <2> QED
    BY <2>1, <2>2
<1>12. UploadsKept'
  BY <1>4 DEF KnowledgeIInv, UploadsKept, Accepted
<1>13. HandsKept'
  <2> SUFFICES ASSUME NEW o \in Services, NEW f, NEW x, f = fin'[o], x = upload'[o]
               PROVE  FinHand(f)' /\ UpHand(o, x)'
    BY HandsOne
  <2>0. FinHand(f) /\ UpHand(o, x)
    BY HandsOne DEF KnowledgeIInv, procVars
  <2>1. FinHand(f)'
    <3>1. CASE f.phase = "idle"
      BY <3>1 DEF FinHand
    <3>2. CASE f.phase # "idle"
      <4>1. f.key \in Publications /\ Accepted(f.key) /\ gen[op[f.key].gen] = "READY"
        BY <2>0, <3>2 DEF FinHand
      <4>2. PICK h : h = op[f.key].gen
        OBVIOUS
      <4>3. h \in Builds /\ Accepted(h)
        BY <1>7, <4>1, <4>2
      <4>4. op'[f.key] = op[f.key] /\ gen'[h] = gen[h] /\ Accepted(f.key)'
        BY <1>6, <4>1, <4>3
      <4> QED
        BY <4>1, <4>2, <4>4 DEF FinHand
    <3> QED
      BY <3>1, <3>2
  <2>2. UpHand(o, x)'
    <3>1. CASE x.phase = "idle"
      BY <3>1 DEF UpHand
    <3>2. CASE x.phase # "idle"
      <4>1. x.key \in Uploads
        BY <2>0, <3>2 DEF UpHand
      <4>2. op'[x.key] = op[x.key]
        BY <1>4, <4>1
      <4> QED
        BY <2>0, <4>2 DEF UpHand, Accepted, procVars
    <3> QED
      BY <3>1, <3>2
  <2> QED
    BY <2>1, <2>2
<1>14. FilesKept'
  <2>1. ASSUME NEW o \in Services, upload[o].phase = "stored"
        PROVE  [version |-> upload[o].version, revision |-> upload[o].revision,
                raw |-> op'[upload[o].key].raw] \in files
    <3>1. PICK j : j = upload[o].key
      OBVIOUS
    <3>2. j \in Uploads
      BY <2>1, <3>1 DEF KnowledgeIInv, HandsKept
    <3>3. op'[j].raw = op[j].raw
      BY <1>6, <3>2
    <3> QED
      BY <2>1, <3>1, <3>3 DEF KnowledgeIInv, FilesKept
  <2> QED
    BY <2>1 DEF KnowledgeIInv, FilesKept, procVars
<1>15. SealsKept'
  <2>1. ASSUME NEW p \in Publications
        PROVE  /\ op'[p].state = "SUCCEEDED" <=> op[p].state = "SUCCEEDED"
               /\ op'[p].version = op[p].version
               /\ op[p].state = "SUCCEEDED" => op'[p] = op[p] /\ gen'[op[p].gen] = gen[op[p].gen]
    <3>1. op[p].state = "SUCCEEDED" => Accepted(p)
      BY DEF Accepted
    <3>2. CASE p = k
      BY <1>2, <1>4, <3>2
    <3>3. CASE p # k
      BY <1>4, <1>6, <1>7, <3>1, <3>3
    <3> QED
      BY <3>2, <3>3
  <2>2. ASSUME NEW p \in Publications, NEW w \in Versions,
               op'[p].state = "SUCCEEDED", op'[p].version = w
        PROVE  vstate'[w] \in SealedStates /\ SealedBy(w, p)'
    <3>1. vstate[w] \in SealedStates /\ SealedBy(w, p)
      BY <2>1, <2>2 DEF KnowledgeIInv, SealsKept
    <3> QED
      BY <2>1, <2>2, <3>1 DEF SealedBy
  <2>3. \A p, h \in Publications :
           op'[p].state = "SUCCEEDED" /\ op'[h].state = "SUCCEEDED"
              /\ op'[p].version = op'[h].version => p = h
    BY <2>1 DEF KnowledgeIInv, SealsKept
  <2>4. \A w \in Versions : vstate'[w] \in SealedStates =>
           \E p \in Publications : op'[p].state = "SUCCEEDED" /\ op'[p].version = w
    BY <2>1 DEF KnowledgeIInv, SealsKept
  <2> QED
    BY <2>2, <2>3, <2>4 DEF SealsKept
<1>16. OneInProgress'
  BY <1>0, <1>6 DEF OneInProgress
<1>17. StateTable'
  <2> SUFFICES ASSUME NEW j \in Builds, Accepted(j)'
               PROVE  RowsAgree(j)'
    BY DEF StateTable
  <2>1. CASE j = k
    BY <1>0, <1>2, <1>4, <1>5, <2>1 DEF RowsAgree, OwnRows
  <2>2. CASE j # k
    <3>1. PICK h : h = op[j].gen
      OBVIOUS
    <3>2. Accepted(j) /\ RowsAgree(j) /\ h \in Builds /\ Accepted(h)
      BY <1>6, <1>7, <2>2, <3>1 DEF KnowledgeIInv, StateTable
    <3>3. op'[j] = op[j] /\ task'[j] = task[j] /\ gen'[j] = gen[j] /\ gen'[h] = gen[h]
      BY <1>6, <3>2
    <3> QED
      BY <3>1, <3>2, <3>3 DEF RowsAgree
  <2> QED
    BY <2>1, <2>2
<1>18. RetryChain'
  <2>1. \A j \in Retries : Accepted(j)' =>
           /\ op'[j].source \in Builds \ {j}
           /\ op'[op'[j].source].state = "FAILED" /\ gen'[op'[j].source] = "FAILED"
           /\ op'[op'[j].source].version = op'[j].version
           /\ op'[op'[j].source].revision = op'[j].revision
    BY <1>10 DEF IntentsKept, Accepted
  <2>2. \A x, y \in Retries : Accepted(x) /\ Accepted(y) /\ op[x].source = op[y].source => x = y
    BY DEF KnowledgeIInv, RetryChain
  <2>3. ASSUME NEW x \in Retries, NEW y \in Retries, Accepted(x)', Accepted(y)',
               op'[x].source = op'[y].source
        PROVE  x = y
    <3>1. /\ Accepted(x) \/ x = k
          /\ Accepted(y) \/ y = k
          /\ op[x].source = op[y].source
      BY <1>6, <2>3
    <3> QED
      BY <2>2, <3>1
  <2> QED
    BY <2>1, <2>3 DEF RetryChain, Accepted
<1> QED
  BY <1>8, <1>9, <1>10, <1>11, <1>12, <1>13, <1>14, <1>15, <1>16, <1>17, <1>18 DEF KnowledgeIInv

\* Reserve, for a publication or a retry.
LEMMA ReservesKeeps ==
    ASSUME KnowledgeIInv, NEW s \in Services, NEW k \in Builds, op[k].state = "DRAFT",
           ~PublicationInProgress, Reserve(s, k),
           k \in Retries => \A i \in Retries : Accepted(i) => op[i].source # op[k].source,
           owner' \in [Keys -> Services \cup {Null}], row' = row + 1,
           UNCHANGED <<current, release, vstate, revs, sealed, lapsed, files, procVars>>
    PROVE  KnowledgeIInv'
<1>1. PICK i : i = [op[k] EXCEPT !.state = "CONFIRMED", !.gen = k]
  OBVIOUS
<1>2. /\ op' = [op EXCEPT ![k] = i]
      /\ task' = [task EXCEPT ![k] = "QUEUED"] /\ gen' = [gen EXCEPT ![k] = "BUILDING"]
  BY <1>1 DEF Reserve
<1>3. \A j \in Retries : k \in Retries /\ Accepted(j) => op[j].source # op[k].source
  OBVIOUS
<1> QED
  BY <1>1, <1>2, <1>3, ReserveKeeps

\* accept_publication and accept_retry.
LEMMA AcceptBuildKeeps ==
    ASSUME KnowledgeIInv, NEW s \in Services,
           \/ \E k \in Publications : AcceptPublication(s, k)
           \/ \E k \in Retries : AcceptRetry(s, k)
    PROVE  KnowledgeIInv'
<1> USE Kinds
<1>0. owner \in [Keys -> Services \cup {Null}]
  BY DEF KnowledgeIInv, TypeOK
<1>1. ASSUME NEW k \in Publications, AcceptPublication(s, k)
      PROVE  KnowledgeIInv'
  <2>1. /\ op[k].state = "DRAFT" /\ ~PublicationInProgress /\ row' = row + 1 /\ k \notin Retries
        /\ UNCHANGED <<current, release, vstate, revs, sealed, lapsed, files, procVars>>
    BY <1>1 DEF AcceptPublication
  <2>2. CASE Reserve(s, k)
    <3>1. owner' \in [Keys -> Services \cup {Null}]
      BY <1>0, <2>2 DEF Reserve
    <3> QED
      BY <2>1, <2>2, <3>1, ReservesKeeps
  <2>3. ASSUME NEW j \in Reusable(s, k),
               op' = [op EXCEPT ![k].state = "CONFIRMED", ![k].gen = j],
               UNCHANGED <<task, owner, gen>>
        PROVE  KnowledgeIInv'
    <3>1. /\ j \in Builds /\ gen[j] = "READY"
          /\ op[j].version = op[k].version /\ op[j].revision = op[k].revision
      BY DEF Reusable
    <3>2. owner' \in [Keys -> Services \cup {Null}]
      BY <1>0, <2>3
    <3>3. PICK i : i = [op[k] EXCEPT !.state = "CONFIRMED", !.gen = j]
      OBVIOUS
    <3>4. op' = [op EXCEPT ![k] = i]
      BY <2>3, <3>3, TypeParts DEF KnowledgeIInv
    <3> QED
      BY <2>1, <2>3, <3>1, <3>2, <3>3, <3>4, ReserveKeeps
  <2> QED
    BY <1>1, <2>2, <2>3 DEF AcceptPublication
<1>2. ASSUME NEW k \in Retries, AcceptRetry(s, k)
      PROVE  KnowledgeIInv'
  <2>1. /\ op[k].state = "DRAFT" /\ ~PublicationInProgress /\ row' = row + 1
        /\ UNCHANGED <<current, release, vstate, revs, sealed, lapsed, files, procVars>>
        /\ \A i \in Retries : Accepted(i) => op[i].source # op[k].source
        /\ Reserve(s, k)
    BY <1>2 DEF AcceptRetry, RetrySource, ChainTail
  <2>2. owner' \in [Keys -> Services \cup {Null}]
    BY <1>0, <2>1 DEF Reserve
  <2> QED
    BY <2>1, <2>2, ReservesKeeps
<1> QED
  BY <1>1, <1>2

\* The finalization that publishes: the version replaces the published one.
LEMMA SwitchKeeps ==
    ASSUME KnowledgeIInv, NEW s \in Services, CommitFinalization(s),
           ~UNCHANGED <<docVars, op>>
    PROVE  KnowledgeIInv'
<1> USE Kinds
<1>0. /\ TypeOK /\ op \in [Keys -> Intents] /\ row \in Nat /\ release \in Nat /\ fin \in FinTypes
      /\ vstate \in [Versions -> {"NONE", "DRAFT", "PUBLISHED", "SUPERSEDED", "DISABLED"}]
      /\ sealed \in [Versions -> [revision : Nat, gen : Builds] \cup {Null}]
  BY DEF KnowledgeIInv, TypeOK, FinTypes, FinPhases
<1>1. PICK k, v : k = fin[s].key /\ v = op[k].version
  OBVIOUS
<1>2. /\ IndexReady(k) /\ Fresh(k, op[k].row + 1) /\ Switch(k)
      /\ fin' = [fin EXCEPT ![s] = NoFinalize]
      /\ UNCHANGED <<revs, lapsed, task, owner, gen, files, svc, upload, held>>
      /\ fin[s].phase = "prepared"
  BY <1>1 DEF CommitFinalization
<1>3. /\ k \in Publications /\ Active(k) /\ gen[op[k].gen] = "READY" /\ v \in Versions
      /\ op[k].gen \in Builds /\ op[k].revision \in Nat
  <2>1. k \in Publications
    BY <1>1, <1>2 DEF KnowledgeIInv, HandsKept
  <2>2. Active(k) /\ gen[op[k].gen] = "READY"
    BY <1>2 DEF IndexReady
  <2>3. v \in Versions /\ op[k].gen \in Builds
    BY <1>1, <2>1, <2>2 DEF KnowledgeIInv, IntentsKept, ReservationsKept, Accepted, Active
  <2>4. op[k] \in Intents
    BY <1>0, <2>1
  <2> QED
    BY <2>1, <2>2, <2>3, <2>4 DEF Intents
<1>4. /\ vstate[v] = "DRAFT" /\ op[k].revision = Len(revs[v])
      /\ revs[v][op[k].revision] = [raw |-> op[k].raw, body |-> op[k].raw]
  <2>1. /\ vstate[v] = "DRAFT" /\ op[k].revision = Len(revs[v])
        /\ revs[v][op[k].revision].body # Null
        /\ op[k].raw = revs[v][op[k].revision].raw
    BY <1>1, <1>2 DEF Fresh, Publishable
  <2>2. revs[v] \in Seq(Revision) /\ revs[v] # <<>>
    BY <1>0, <1>3, <2>1 DEF KnowledgeIInv, TypeOK, VersionsKept, Revision
  <2>3. op[k].revision \in 1..Len(revs[v])
    BY <2>1, <2>2
  <2>4. PICK r \in Revision : r = revs[v][op[k].revision]
    BY <2>2, <2>3
  <2>5. r.body \in {Null, r.raw}
    BY <1>3, <2>3, <2>4 DEF KnowledgeIInv, VersionsKept
  <2>6. r = [raw |-> op[k].raw, body |-> op[k].raw]
    BY <2>1, <2>4, <2>5 DEF Revision
  <2> QED
    BY <2>1, <2>4, <2>6
<1>5. /\ op' = [op EXCEPT ![k].state = "SUCCEEDED"]
      /\ sealed' = [sealed EXCEPT ![v] = [revision |-> op[k].revision, gen |-> op[k].gen]]
      /\ vstate' = [w \in Versions |-> IF w = v THEN "PUBLISHED"
                                       ELSE IF vstate[w] = "PUBLISHED" THEN "SUPERSEDED"
                                       ELSE vstate[w]]
      /\ current' = v /\ row' = row + 1 /\ release' = release + 1
  BY <1>1, <1>2 DEF Switch, Repoint
<1>6. /\ op' \in [Keys -> Intents] /\ op'[k] = [op[k] EXCEPT !.state = "SUCCEEDED"]
      /\ SameIntent(k) /\ op'[k].state = "SUCCEEDED"
      /\ \A j \in Keys \ {k} : op'[j] = op[j]
  <2>1. "SUCCEEDED" \in OpStates /\ k \in Keys
    BY <1>3 DEF OpStates
  <2>2. op'[k] = [op[k] EXCEPT !.state = "SUCCEEDED"] /\ \A j \in Keys \ {k} : op'[j] = op[j]
    BY <1>0, <1>5, <2>1
  <2>3. op' \in [Keys -> Intents]
    BY <1>0, <1>5, <2>1, TypeParts
  <2> QED
    BY <1>0, <2>1, <2>2, <2>3, TypeParts DEF SameIntent
<1>7. /\ vstate'[v] = "PUBLISHED" /\ sealed'[v] = [revision |-> op[k].revision, gen |-> op[k].gen]
      /\ \A w \in Versions \ {v} :
            /\ sealed'[w] = sealed[w]
            /\ vstate'[w] = IF vstate[w] = "PUBLISHED" THEN "SUPERSEDED" ELSE vstate[w]
  BY <1>0, <1>3, <1>5
<1>8. TypeOK'
  <2>1. /\ vstate' \in [Versions -> {"NONE", "DRAFT", "PUBLISHED", "SUPERSEDED", "DISABLED"}]
    BY <1>0, <1>5
  <2>2. sealed' \in [Versions -> [revision : Nat, gen : Builds] \cup {Null}]
    BY <1>0, <1>3, <1>5
  <2>3. fin' \in FinTypes
    <3>1. NoFinalize \in [key : Publications \cup {Null}, phase : FinPhases]
      BY DEF NoFinalize, FinPhases
    <3> QED
      BY <1>0, <1>2, <3>1 DEF FinTypes
  <2>4. row' \in Nat /\ release' \in Nat /\ current' \in Versions \cup {Null}
    BY <1>0, <1>3, <1>5
  <2> QED
    BY <1>0, <1>2, <1>6, <2>1, <2>2, <2>3, <2>4 DEF TypeOK, FinTypes, FinPhases
<1>9. BuildMove(k)
  BY <1>2, <1>3, <1>6 DEF BuildMove
<1>10. RowsKept' /\ UploadsKept' /\ HandsKept' /\ FilesKept'
  <2>1. \A j \in Builds : BuildMove(j)
    BY <1>2, <1>6, <1>9, StillMoves
  <2>2. \A j \in Disables : OtherMove(j)
    BY <1>2, <1>3, <1>6 DEF OtherMove
  <2>3. \A o \in Services : HandMove(o)
    BY <1>0, <1>2, StillHands DEF FinTypes
  <2>4. \A j \in Uploads : op'[j] = op[j] /\ gen'[j] = gen[j] /\ task'[j] = task[j]
    BY <1>2, <1>3, <1>6
  <2> QED
    BY <1>2, <2>1, <2>2, <2>3, <2>4, RowsHandsKeep
<1>11. VersionsKept'
  <2> SUFFICES ASSUME NEW w \in Versions
               PROVE  /\ vstate'[w] = "NONE" <=> revs[w] = <<>>
                      /\ sealed'[w] # Null => vstate'[w] \in SealedStates
    BY <1>2 DEF KnowledgeIInv, VersionsKept
  <2>1. /\ vstate[w] = "NONE" <=> revs[w] = <<>>
        /\ sealed[w] # Null => vstate[w] \in SealedStates
    BY DEF KnowledgeIInv, VersionsKept
  <2> QED
    BY <1>4, <1>7, <2>1 DEF SealedStates
<1>12. OnePublished'
  <2>1. Published' = {v}
    BY <1>3, <1>7 DEF Published
  <2> QED
    BY <1>3, <1>5, <2>1 DEF OnePublished
<1>13. SealsKept'
  <2>1. ASSUME NEW p \in Publications, op'[p].state = "SUCCEEDED", p # k
        PROVE  op'[p] = op[p] /\ op[p].version \in Versions \ {v}
    <3>1. op[p].state = "SUCCEEDED" /\ op'[p] = op[p] /\ op[p].version \in Versions
      BY <1>6, <2>1 DEF KnowledgeIInv, IntentsKept
    <3>2. vstate[op[p].version] \in SealedStates
      BY <3>1 DEF KnowledgeIInv, SealsKept
    <3> QED
      BY <1>4, <3>1, <3>2 DEF SealedStates
  <2>2. ASSUME NEW p \in Publications, NEW w \in Versions,
               op'[p].state = "SUCCEEDED", op'[p].version = w
        PROVE  vstate'[w] \in SealedStates /\ SealedBy(w, p)'
    <3>1. CASE p = k
      <4>1. w = v
        BY <1>1, <1>6, <2>2, <3>1 DEF SameIntent
      <4>2. SealedBy(v, k)'
        BY <1>1, <1>2, <1>3, <1>4, <1>6, <1>7 DEF SealedBy, SameIntent
      <4> QED
        BY <1>7, <3>1, <4>1, <4>2 DEF SealedStates
    <3>2. CASE p # k
      <4>1. op'[p] = op[p] /\ w \in Versions \ {v}
        BY <2>1, <2>2, <3>2
      <4>2. vstate[w] \in SealedStates /\ SealedBy(w, p)
        BY <2>2, <4>1 DEF KnowledgeIInv, SealsKept
      <4> QED
        BY <1>2, <1>7, <4>1, <4>2 DEF SealedBy, SealedStates
    <3> QED
      BY <3>1, <3>2
  <2>3. ASSUME NEW p \in Publications, NEW h \in Publications, op'[p].state = "SUCCEEDED",
               op'[h].state = "SUCCEEDED", op'[p].version = op'[h].version
        PROVE  p = h
    <3>1. op'[k].version = v
      BY <1>1, <1>6 DEF SameIntent
    <3>2. p = k <=> h = k
      BY <2>1, <2>3, <3>1
    <3>3. CASE p # k
      BY <2>1, <2>3, <3>2, <3>3 DEF KnowledgeIInv, SealsKept
    <3> QED
      BY <3>2, <3>3
  <2>4. ASSUME NEW w \in Versions, vstate'[w] \in SealedStates
        PROVE  \E p \in Publications : op'[p].state = "SUCCEEDED" /\ op'[p].version = w
    <3>1. CASE w = v
      BY <1>1, <1>3, <1>6, <3>1 DEF SameIntent
    <3>2. CASE w # v
      <4>1. vstate[w] \in SealedStates
        BY <1>7, <2>4, <3>2 DEF SealedStates
      <4>2. PICK p \in Publications : op[p].state = "SUCCEEDED" /\ op[p].version = w
        BY <4>1 DEF KnowledgeIInv, SealsKept
      <4>3. p # k
        BY <1>3, <4>2 DEF Active
      <4> QED
        BY <1>6, <4>2, <4>3
    <3> QED
      BY <3>1, <3>2
  <2> QED
    BY <2>2, <2>3, <2>4 DEF SealsKept
<1> QED
  BY <1>8, <1>10, <1>11, <1>12, <1>13 DEF KnowledgeIInv, RowsKept

\* disable.
LEMMA AcceptDisableKeeps ==
    ASSUME KnowledgeIInv, NEW k \in Disables, AcceptDisable(k)
    PROVE  KnowledgeIInv'
<1> USE Kinds
<1>0. /\ TypeOK /\ op \in [Keys -> Intents] /\ row \in Nat /\ release \in Nat
      /\ task \in [Keys -> TaskStates]
      /\ gen \in [Keys -> {"NONE", "BUILDING", "READY", "FAILED"}]
      /\ vstate \in [Versions -> {"NONE", "DRAFT", "PUBLISHED", "SUPERSEDED", "DISABLED"}]
  BY DEF KnowledgeIInv, TypeOK
<1>1. PICK v : v = op[k].version
  OBVIOUS
<1>2. /\ op[k].state = "DRAFT" /\ vstate[v] = "PUBLISHED" /\ current = v
      /\ vstate' = [vstate EXCEPT ![v] = "DISABLED"]
      /\ current' = Null /\ row' = row + 1 /\ release' = release + 1
      /\ UNCHANGED <<revs, sealed, lapsed, owner, files, procVars>>
  BY <1>1 DEF AcceptDisable, Withdrawable, Repoint
<1>3. /\ \A j \in Keys : task'[j] = IF Pending(j) /\ Unfinished(j) THEN "STALE" ELSE task[j]
      /\ \A j \in Keys : gen'[j] = IF Pending(j) /\ gen[j] = "BUILDING" THEN "FAILED" ELSE gen[j]
      /\ \A j \in Keys : op'[j] = IF j = k THEN [op[j] EXCEPT !.state = "SUCCEEDED"]
                                  ELSE IF Pending(j) THEN [op[j] EXCEPT !.state = "STALE"]
                                  ELSE op[j]
  BY DEF AcceptDisable
<1>4. {"SUCCEEDED", "STALE"} \subseteq OpStates /\ "STALE" \in TaskStates
  BY DEF OpStates, TaskStates
<1>5. /\ op' \in [Keys -> Intents] /\ task' \in [Keys -> TaskStates]
      /\ gen' \in [Keys -> {"NONE", "BUILDING", "READY", "FAILED"}]
  <2>1. ASSUME NEW j \in Keys
        PROVE  op'[j] \in Intents
    <3>1. op'[j] \in {[op[j] EXCEPT !.state = "SUCCEEDED"], [op[j] EXCEPT !.state = "STALE"], op[j]}
      BY <1>3
    <3> QED
      BY <1>0, <1>4, <3>1, TypeParts
  <2>2. op' = [j \in Keys |-> op'[j]]
    BY DEF AcceptDisable
  <2>3. task' \in [Keys -> TaskStates] /\ gen' \in [Keys -> {"NONE", "BUILDING", "READY", "FAILED"}]
    BY <1>0, <1>4 DEF AcceptDisable
  <2> QED
    BY <2>1, <2>2, <2>3
<1>6. v \in Versions
  BY <1>1, <1>2 DEF KnowledgeIInv, IntentsKept
<1>7. vstate'[v] = "DISABLED" /\ \A w \in Versions \ {v} : vstate'[w] = vstate[w]
  BY <1>0, <1>2, <1>6
<1>8. TypeOK'
  <2>1. vstate' \in [Versions -> {"NONE", "DRAFT", "PUBLISHED", "SUPERSEDED", "DISABLED"}]
    BY <1>0, <1>2
  <2>2. row' \in Nat /\ release' \in Nat /\ current' \in Versions \cup {Null}
    BY <1>0, <1>2
  <2> QED
    BY <1>0, <1>2, <1>5, <2>1, <2>2 DEF TypeOK, procVars
<1>9. ASSUME NEW j \in Builds
      PROVE  BuildMove(j) /\ (op'[j].state = "SUCCEEDED" => op[j].state = "SUCCEEDED")
  <2>1. CASE Active(j)
    <3>1. Pending(j) /\ j # k
      BY <2>1 DEF Pending
    <3>2. /\ op'[j] = [op[j] EXCEPT !.state = "STALE"]
          /\ task'[j] = IF Unfinished(j) THEN "STALE" ELSE task[j]
          /\ gen'[j] = IF gen[j] = "BUILDING" THEN "FAILED" ELSE gen[j]
      BY <1>3, <3>1
    <3>3. op'[j].state = "STALE"
      BY <1>0, <1>4, <3>2, TypeParts
    <3> QED
      BY <2>1, <3>2, <3>3, StaleMoves
  <2>2. CASE ~Active(j)
    <3>1. ~Pending(j) /\ j # k
      BY <2>2 DEF Pending
    <3> QED
      BY <1>3, <3>1, StillMoves
  <2> QED
    BY <2>1, <2>2
<1>10. RowsKept' /\ UploadsKept' /\ HandsKept' /\ FilesKept'
  <2>1. ASSUME NEW j \in Disables
        PROVE  OtherMove(j)
    <3>1. ~Pending(j) /\ j \in Keys
      BY DEF Pending
    <3>2. CASE j = k
      <4>1. op'[k] = [op[k] EXCEPT !.state = "SUCCEEDED"] /\ gen'[k] = gen[k]
        BY <1>3, <3>1, <3>2
      <4>2. op'[k].state = "SUCCEEDED" /\ op'[k].raw = op[k].raw /\ op'[k].version = op[k].version
        BY <1>0, <1>4, <3>1, <3>2, <4>1, TypeParts
      <4> QED
        BY <1>2, <3>2, <4>1, <4>2 DEF OtherMove, Accepted
    <3>3. CASE j # k
      BY <1>3, <3>1, <3>3 DEF OtherMove
    <3> QED
      BY <3>2, <3>3
  <2>2. ASSUME NEW j \in Uploads
        PROVE  op'[j] = op[j] /\ gen'[j] = gen[j] /\ task'[j] = task[j]
    BY <1>3 DEF Pending
  <2>3. \A o \in Services : HandMove(o)
    BY <1>2, StillHands DEF procVars
  <2> QED
    BY <1>2, <1>9, <2>1, <2>2, <2>3, RowsHandsKeep
<1>11. VersionsKept'
  <2> SUFFICES ASSUME NEW w \in Versions
               PROVE  /\ vstate'[w] = "NONE" <=> revs[w] = <<>>
                      /\ sealed[w] # Null => vstate'[w] \in SealedStates
    BY <1>2 DEF KnowledgeIInv, VersionsKept
  <2>1. /\ vstate[w] = "NONE" <=> revs[w] = <<>>
        /\ sealed[w] # Null => vstate[w] \in SealedStates
    BY DEF KnowledgeIInv, VersionsKept
  <2> QED
    BY <1>2, <1>7, <2>1 DEF SealedStates
<1>12. OnePublished'
  <2>1. Published = {v}
    BY <1>2, <1>6 DEF KnowledgeIInv, OnePublished
  <2>2. Published' = {}
    BY <1>6, <1>7, <2>1 DEF Published
  <2> QED
    BY <1>2, <2>2 DEF OnePublished
<1>13. SealsKept'
  <2>1. ASSUME NEW p \in Publications
        PROVE  /\ op'[p].state = "SUCCEEDED" <=> op[p].state = "SUCCEEDED"
               /\ SameIntent(p)
               /\ op[p].state = "SUCCEEDED" /\ gen[op[p].gen] = "READY"
                     => gen'[op'[p].gen] = "READY"
    <3>1. op'[p].state = "SUCCEEDED" <=> op[p].state = "SUCCEEDED"
      BY <1>9, Moved
    <3>2. op[p].state = "SUCCEEDED" => op[p].gen \in Builds
      BY DEF KnowledgeIInv, ReservationsKept, Accepted
    <3> QED
      BY <1>9, <3>1, <3>2, Moved DEF SameIntent
  <2>2. \A w \in Versions : vstate'[w] \in SealedStates <=> vstate[w] \in SealedStates
    BY <1>2, <1>7 DEF SealedStates
  <2>3. ASSUME NEW p \in Publications, NEW w \in Versions,
               op'[p].state = "SUCCEEDED", op'[p].version = w
        PROVE  vstate'[w] \in SealedStates /\ SealedBy(w, p)'
    <3>1. op[p].version = w /\ op[p].state = "SUCCEEDED"
      BY <2>1, <2>3 DEF SameIntent
    <3>2. vstate[w] \in SealedStates /\ SealedBy(w, p)
      BY <3>1 DEF KnowledgeIInv, SealsKept
    <3> QED
      BY <1>2, <2>1, <2>2, <2>3, <3>2 DEF SealedBy, SameIntent
  <2>4. \A p, h \in Publications :
           op'[p].state = "SUCCEEDED" /\ op'[h].state = "SUCCEEDED"
              /\ op'[p].version = op'[h].version => p = h
    BY <2>1 DEF KnowledgeIInv, SealsKept, SameIntent
  <2>5. \A w \in Versions : vstate'[w] \in SealedStates =>
           \E p \in Publications : op'[p].state = "SUCCEEDED" /\ op'[p].version = w
    BY <2>1, <2>2 DEF KnowledgeIInv, SealsKept, SameIntent
  <2> QED
    BY <2>3, <2>4, <2>5 DEF SealsKept
<1> QED
  BY <1>8, <1>10, <1>11, <1>12, <1>13 DEF KnowledgeIInv, RowsKept

\* The first state satisfies the invariant.
LEMMA KnowledgeInit == Init => KnowledgeIInv
<1> SUFFICES ASSUME Init
             PROVE  KnowledgeIInv
  OBVIOUS
<1> USE Kinds DEF Init
<1>1. NoIntent \in Intents /\ NoUpload \in Hand
      /\ NoFinalize \in [key : Publications \cup {Null}, phase : FinPhases]
  BY DEF NoIntent, Intents, OpStates, NoUpload, Hand, NoFinalize, FinPhases
<1>2. TypeOK
  <2>1. revs \in [Versions -> Seq([raw : Contents, body : Contents \cup {Null}])]
    BY EmptySeq
  <2> QED
    BY <1>1, <2>1 DEF TypeOK, TaskStates, Hand, FinPhases
<1>3. VersionsKept /\ OnePublished
  BY DEF VersionsKept, OnePublished, Published
<1>4. \A k \in Keys : op[k].state = "NONE" /\ ~Accepted(k) /\ ~Active(k)
  BY DEF NoIntent, Accepted, Active
<1>5. IntentsKept /\ ReservationsKept /\ UploadsKept /\ OneInProgress /\ StateTable /\ RetryChain
  BY <1>4 DEF IntentsKept, ReservationsKept, UploadsKept, OneInProgress, StateTable, RetryChain
<1>6. HandsKept /\ FilesKept
  BY DEF HandsKept, FilesKept, NoUpload, NoFinalize
<1>7. SealsKept
  BY <1>4 DEF SealsKept, SealedStates
<1> QED
  BY <1>2, <1>3, <1>5, <1>6, <1>7 DEF KnowledgeIInv

\* Every step keeps the invariant.
LEMMA KnowledgeStep == KnowledgeIInv /\ [Next]_vars => KnowledgeIInv'
<1> SUFFICES ASSUME KnowledgeIInv, [Next]_vars
             PROVE  KnowledgeIInv'
  OBVIOUS
<1>1. ASSUME NEW s \in Services, ServiceStep(s)
      PROVE  KnowledgeIInv'
  <2>1. CASE StartService(s) \/ Recover(s) \/ StopService(s)
    BY <2>1, ProcessKeeps
  <2>2. CASE \E k \in Uploads : PlanUpload(s, k)
    BY <2>2, PlanUploadKeeps
  <2>3. CASE StoreOriginal(s)
    BY <2>3, StoreOriginalKeeps
  <2>4. CASE AcceptUpload(s)
    BY <2>4, AcceptUploadKeeps
  <2>5. CASE UploadFails(s) \/ ClaimParse(s)
    BY <2>5, UploadEndKeeps
  <2>6. CASE \E parses \in BOOLEAN : FinishParse(s, parses)
    BY <2>6, FinishParseKeeps
  <2>7. CASE \/ \E k \in Publications : AcceptPublication(s, k)
             \/ \E k \in Retries : AcceptRetry(s, k)
    BY <2>7, AcceptBuildKeeps
  <2>8. CASE (\E k \in Publications : PrepareFinalization(s, k)) \/ AbandonFinalization(s)
    BY <2>8, FinalizationKeeps
  <2>9. CASE \E k \in Builds : ClaimIndex(s, k)
    BY <2>9, ClaimIndexKeeps
  <2>10. CASE CommitFinalization(s)
    BY <2>10, FinalizationKeeps, SwitchKeeps
  <2>11. CASE RejectFinalization(s)
    BY <2>11, RejectFinalizationKeeps
  <2>12. CASE \E k \in Retries, j \in Builds : PrepareRetry(s, k, j)
    BY <2>12, ComposeKeeps
  <2> QED
    BY <1>1, <2>1, <2>2, <2>3, <2>4, <2>5, <2>6, <2>7, <2>8, <2>9, <2>10, <2>11, <2>12
       DEF ServiceStep
<1>2. CASE ClientStep
  BY <1>2, ComposeKeeps, AcceptDisableKeeps DEF ClientStep
<1>3. CASE \E k \in held : \/ FinishIndex(k) \/ LoseWork(k)
                           \/ \E outcome \in {"FAILED", "INTERRUPTED"} : FailIndex(k, outcome)
  BY <1>3, BuildEndKeeps
<1>4. CASE (\E v \in Versions : Lapse(v)) \/ UNCHANGED vars
  BY <1>4, ProcessKeeps
<1> QED
  BY <1>1, <1>2, <1>3, <1>4 DEF Next

\* The invariant holds in every run of any management processes.
THEOREM KnowledgeInvariant == Spec => []KnowledgeIInv
<1> QED
  BY KnowledgeInit, KnowledgeStep, PTL DEF Spec

\* Every variable keeps its type.
THEOREM KnowledgeTypes == Spec => []TypeOK
<1>1. KnowledgeIInv => TypeOK
  BY DEF KnowledgeIInv
<1> QED
  BY <1>1, KnowledgeInvariant, PTL

\* The document points at the one version that is published, if any
\* (commit_finalization and disable against each other and against uploads).
THEOREM KnowledgeOnePublished == Spec => []OnePublished
<1>1. KnowledgeIInv => OnePublished
  BY DEF KnowledgeIInv
<1> QED
  BY <1>1, KnowledgeInvariant, PTL

\* The rows of the builds agree, whoever claims, ends, supersedes, interrupts
\* or retries them.
THEOREM KnowledgeBuildsAgree == Spec => []BuildsAgree
<1>1. KnowledgeIInv => BuildsAgree
  BY DEF KnowledgeIInv, BuildsAgree
<1> QED
  BY <1>1, KnowledgeInvariant, PTL

\* The stored original of each accepted revision is the uploaded one, whatever
\* uploads were lost between the file and the database.
THEOREM KnowledgeOriginalKept == Spec => []OriginalKept
<1>1. KnowledgeIInv => OriginalKept
  <2> SUFFICES ASSUME KnowledgeIInv, NEW v \in Versions, NEW n \in 1..Len(revs[v])
               PROVE  At(v, n) = {[version |-> v, revision |-> n, raw |-> revs[v][n].raw]}
    BY DEF OriginalKept
  <2>1. PICK f : f = [version |-> v, revision |-> n, raw |-> revs[v][n].raw]
    OBVIOUS
  <2>2. f \in files /\ f.version = v /\ f.revision = n
    BY <2>1 DEF KnowledgeIInv, FilesKept
  <2>3. \A g \in files : g.version = v /\ g.revision = n => g = f
    BY <2>2 DEF KnowledgeIInv, FilesKept
  <2>4. At(v, n) = {f}
    BY <2>2, <2>3 DEF At
  <2> QED
    BY <2>1, <2>4
<1> QED
  BY <1>1, KnowledgeInvariant, PTL

\* What a sealed version serves is what one reviewer confirmed.
THEOREM KnowledgeSealed == Spec => []SealedAsConfirmed
<1>1. KnowledgeIInv => SealedAsConfirmed
  <2> SUFFICES ASSUME KnowledgeIInv, NEW v \in Versions, vstate[v] \in SealedStates,
                      NEW confirmed,
                      confirmed = {k \in Publications : op[k].state = "SUCCEEDED" /\ op[k].version = v}
               PROVE  /\ Cardinality(confirmed) = 1
                      /\ \A k \in confirmed :
                            /\ sealed[v] = [revision |-> op[k].revision, gen |-> op[k].gen]
                            /\ op[k].revision = Len(revs[v])
                            /\ revs[v][op[k].revision] = [raw |-> op[k].raw, body |-> op[k].raw]
                            /\ gen[op[k].gen] = "READY"
                            /\ op[op[k].gen].version = v
                            /\ op[op[k].gen].revision = op[k].revision
    BY DEF SealedAsConfirmed, SealedStates
  <2>1. PICK p \in Publications : op[p].state = "SUCCEEDED" /\ op[p].version = v
    BY DEF KnowledgeIInv, SealsKept
  <2>2. confirmed = {p}
    BY <2>1 DEF KnowledgeIInv, SealsKept
  <2>3. Cardinality({p}) = 1
    BY FS_Singleton
  <2>4. SealedBy(v, p)
    BY <2>1 DEF KnowledgeIInv, SealsKept
  <2>5. op[op[p].gen].version = v /\ op[op[p].gen].revision = op[p].revision
    BY <2>1, Kinds DEF KnowledgeIInv, ReservationsKept, Accepted
  <2> QED
    BY <2>2, <2>3, <2>4, <2>5 DEF SealedBy
<1> QED
  BY <1>1, KnowledgeInvariant, PTL

\* The steps that change a revision or the state of a version.
LEMMA DocSteps ==
    ASSUME [Next]_vars
    PROVE  \/ UNCHANGED <<vstate, sealed, revs>>
           \/ \E s \in Services : AcceptUpload(s) /\ ~Accepted(upload[s].key)
           \/ \E s \in Services, parses \in BOOLEAN : FinishParse(s, parses)
           \/ \E s \in Services : CommitFinalization(s)
           \/ \E k \in Disables : AcceptDisable(k)
<1> USE DEF docVars, workVars, procVars
<1>1. ASSUME NEW s \in Services, ServiceStep(s)
      PROVE  \/ UNCHANGED <<vstate, sealed, revs>>
             \/ AcceptUpload(s) /\ ~Accepted(upload[s].key)
             \/ \E parses \in BOOLEAN : FinishParse(s, parses)
             \/ CommitFinalization(s)
  <2>1. CASE AcceptUpload(s)
    BY <2>1 DEF AcceptUpload
  <2>2. CASE StartService(s) \/ Recover(s) \/ StopService(s)
    BY <2>2 DEF StartService, Recover, StopService
  <2>3. CASE \/ \E k \in Uploads : PlanUpload(s, k)
             \/ StoreOriginal(s) \/ UploadFails(s) \/ ClaimParse(s)
    BY <2>3 DEF PlanUpload, StoreOriginal, UploadFails, ClaimParse
  <2>4. CASE \/ \E k \in Publications : AcceptPublication(s, k) \/ PrepareFinalization(s, k)
             \/ \E k \in Builds : ClaimIndex(s, k)
    BY <2>4 DEF AcceptPublication, PrepareFinalization, ClaimIndex
  <2>5. CASE \/ RejectFinalization(s) \/ AbandonFinalization(s)
             \/ \E k \in Retries : AcceptRetry(s, k) \/ \E j \in Builds : PrepareRetry(s, k, j)
    BY <2>5 DEF RejectFinalization, AbandonFinalization, AcceptRetry, PrepareRetry
  <2> QED
    BY <1>1, <2>1, <2>2, <2>3, <2>4, <2>5 DEF ServiceStep
<1>2. CASE ClientStep
  BY <1>2 DEF ClientStep, DraftUpload, PreparePublication, PrepareDisable
<1>3. CASE \E k \in held : \/ FinishIndex(k) \/ LoseWork(k)
                           \/ \E outcome \in {"FAILED", "INTERRUPTED"} : FailIndex(k, outcome)
  BY <1>3 DEF FinishIndex, LoseWork, FailIndex
<1>4. CASE (\E v \in Versions : Lapse(v)) \/ UNCHANGED vars
  BY <1>4 DEF Lapse, vars
<1> QED
  BY <1>1, <1>2, <1>3, <1>4 DEF Next

\* A step leaves sealed versions alone and writes a body only to the current
\* revision of a draft.
LEMMA DocMoves ==
    ASSUME KnowledgeIInv, [Next]_vars, NEW v \in Versions
    PROVE  /\ sealed[v] # Null => sealed'[v] = sealed[v] /\ revs'[v] = revs[v]
           /\ vstate[v] \in {"SUPERSEDED", "DISABLED"} => vstate'[v] = vstate[v]
           /\ vstate[v] = "PUBLISHED" => vstate'[v] # "DRAFT"
           /\ \A n \in 1..Len(revs[v]) :
                 revs'[v][n] # revs[v][n] =>
                    /\ vstate[v] = "DRAFT" /\ n = Len(revs[v])
                    /\ revs[v][n].body = Null /\ revs'[v][n].raw = revs[v][n].raw
<1> USE Kinds
<1>0. /\ revs \in [Versions -> Seq(Revision)]
      /\ vstate \in [Versions -> {"NONE", "DRAFT", "PUBLISHED", "SUPERSEDED", "DISABLED"}]
      /\ sealed \in [Versions -> [revision : Nat, gen : Builds] \cup {Null}]
      /\ sealed[v] # Null => vstate[v] \in SealedStates
  BY DEF KnowledgeIInv, TypeOK, Revision, VersionsKept
<1>1. CASE UNCHANGED <<vstate, sealed, revs>>
  BY <1>1
<1>2. ASSUME NEW s \in Services, AcceptUpload(s), ~Accepted(upload[s].key)
      PROVE  /\ sealed' = sealed
             /\ revs'[v] # revs[v] \/ vstate'[v] # vstate[v] => vstate[v] \in {"NONE", "DRAFT"}
             /\ \A n \in 1..Len(revs[v]) : revs'[v][n] = revs[v][n]
  <2>1. PICK u, k, w, r, q :
           /\ u = upload[s] /\ k = u.key /\ w = u.version
           /\ r = [raw |-> op[k].raw, body |-> Null] /\ q = Append(revs[w], r)
    OBVIOUS
  <2>2. w \in Versions /\ vstate[w] \in {"NONE", "DRAFT"}
    BY <1>2, <2>1, NewUploadTarget, SMTT(60)
  <2>3. /\ vstate' = [vstate EXCEPT ![w] = "DRAFT"] /\ revs' = [revs EXCEPT ![w] = q]
        /\ sealed' = sealed
    BY <1>2, <2>1 DEF AcceptUpload
  <2>4. revs'[w] = q /\ \A x \in Versions \ {w} : revs'[x] = revs[x] /\ vstate'[x] = vstate[x]
    BY <1>0, <2>2, <2>3
  <2>5. revs[w] \in Seq(Revision)
    BY <1>0, <2>2
  <2>6. \A n \in 1..Len(revs[w]) : q[n] = revs[w][n]
    BY <2>1, <2>5
  <2> QED
    BY <2>2, <2>3, <2>4, <2>6
<1>3. ASSUME NEW s \in Services, NEW parses \in BOOLEAN, FinishParse(s, parses)
      PROVE  /\ UNCHANGED <<vstate, sealed>>
             /\ revs'[v] # revs[v] => vstate[v] = "DRAFT"
             /\ \A n \in 1..Len(revs[v]) :
                   revs'[v][n] # revs[v][n] =>
                      /\ n = Len(revs[v])
                      /\ revs[v][n].body = Null /\ revs'[v][n].raw = revs[v][n].raw
  <2>1. PICK k, w, m : k = upload[s].key /\ w = op[k].version /\ m = op[k].revision
    BY SMTT(60)
  <2>2. /\ UNCHANGED <<vstate, sealed>>
        /\ \/ revs' = revs
           \/ /\ vstate[w] = "DRAFT" /\ Len(revs[w]) = m /\ revs[w][m].body = Null
              /\ revs' = [revs EXCEPT ![w][m].body = op[k].raw]
    BY <1>3, <2>1, Zenon DEF FinishParse, ParseLands, AwaitsBody, docVars
  <2>3. CASE revs' = revs
    BY <2>2, <2>3
  <2>4. CASE /\ vstate[w] = "DRAFT" /\ Len(revs[w]) = m /\ revs[w][m].body = Null
             /\ revs' = [revs EXCEPT ![w][m].body = op[k].raw]
    <3>1. k \in Uploads /\ Accepted(k)
      BY <1>3, <2>1, Zenon DEF FinishParse, KnowledgeIInv, HandsKept
    <3>2. w \in Versions /\ m \in 1..Len(revs[w])
      BY <2>1, <3>1 DEF KnowledgeIInv, UploadsKept
    <3>3. PICK r, q : r = [revs[w][m] EXCEPT !.body = op[k].raw] /\ q = [revs[w] EXCEPT ![m] = r]
      OBVIOUS
    <3>4. revs[w] \in Seq(Revision)
      BY <1>0, <3>2
    <3>5. revs[w][m] \in Revision
      BY <3>2, <3>4
    <3>6. r.raw = revs[w][m].raw
      BY <3>3, <3>5 DEF Revision
    <3>7. q[m] = r /\ \A n \in 1..Len(revs[w]) : n # m => q[n] = revs[w][n]
      BY <3>2, <3>3, <3>4
    <3>8. revs'[w] = q /\ \A x \in Versions \ {w} : revs'[x] = revs[x]
      BY <1>0, <2>4, <3>2, <3>3
    <3> QED
      BY <2>2, <2>4, <3>2, <3>6, <3>7, <3>8, SMTT(60)
  <2> QED
    BY <2>2, <2>3, <2>4
<1>4. ASSUME NEW s \in Services, CommitFinalization(s)
      PROVE  /\ revs' = revs /\ (sealed'[v] # sealed[v] => vstate[v] = "DRAFT")
             /\ vstate'[v] # vstate[v] => /\ vstate[v] \notin {"SUPERSEDED", "DISABLED"}
                                          /\ vstate'[v] # "DRAFT"
  <2>1. PICK k, w : k = fin[s].key /\ w = op[k].version
    BY SMTT(60)
  <2>2. /\ revs' = revs
        /\ \/ UNCHANGED <<vstate, sealed>>
           \/ vstate[w] = "DRAFT" /\ Switch(k)
    BY <1>4, <2>1, Zenon DEF CommitFinalization, Fresh, Publishable, docVars
  <2>3. CASE vstate[w] = "DRAFT" /\ Switch(k)
    <3>1. /\ vstate'[v] = IF v = w THEN "PUBLISHED"
                          ELSE IF vstate[v] = "PUBLISHED" THEN "SUPERSEDED" ELSE vstate[v]
          /\ v # w => sealed'[v] = sealed[v]
      BY <1>0, <2>1, <2>3 DEF Switch
    <3> QED
      BY <2>2, <2>3, <3>1
  <2> QED
    BY <2>2, <2>3
<1>5. ASSUME NEW k \in Disables, AcceptDisable(k)
      PROVE  /\ UNCHANGED <<revs, sealed>>
             /\ vstate'[v] # vstate[v] => vstate[v] = "PUBLISHED" /\ vstate'[v] = "DISABLED"
  <2>1. PICK w : w = op[k].version
    OBVIOUS
  <2>2. /\ vstate[w] = "PUBLISHED" /\ vstate' = [vstate EXCEPT ![w] = "DISABLED"]
        /\ UNCHANGED <<revs, sealed>>
    BY <1>5, <2>1 DEF AcceptDisable, Withdrawable
  <2> QED
    BY <1>0, <2>2
<1> QED
  <2>1. CASE \E s \in Services : AcceptUpload(s) /\ ~Accepted(upload[s].key)
    BY <1>0, <1>2, <2>1 DEF SealedStates
  <2>2. CASE \E s \in Services, parses \in BOOLEAN : FinishParse(s, parses)
    BY <1>0, <1>3, <2>2 DEF SealedStates
  <2>3. CASE \E s \in Services : CommitFinalization(s)
    BY <1>0, <1>4, <2>3 DEF SealedStates
  <2>4. CASE \E k \in Disables : AcceptDisable(k)
    BY <1>0, <1>5, <2>4
  <2> QED
    BY <1>1, <2>1, <2>2, <2>3, <2>4, DocSteps

\* A step leaves alone what has ended.
LEMMA OutcomeMoves ==
    ASSUME KnowledgeIInv, [Next]_vars, NEW k \in Keys,
           op[k].state \in {"SUCCEEDED", "FAILED", "STALE"}
    PROVE  op'[k] = op[k]
<1> USE Kinds DEF docVars, workVars, procVars
<1>0. op \in [Keys -> Intents] /\ Accepted(k) /\ ~Active(k) /\ TypeOK
  BY DEF KnowledgeIInv, TypeOK, Accepted, Active
<1>1. ASSUME NEW s \in Services, ServiceStep(s)
      PROVE  op'[k] = op[k]
  <2>1. CASE AcceptUpload(s)
    <3>1. CASE Accepted(upload[s].key)
      BY <2>1, <3>1 DEF AcceptUpload
    <3>2. CASE ~Accepted(upload[s].key)
      <4>1. PICK j, v : /\ j = upload[s].key /\ v = upload[s].version
                        /\ op' = [OpsSuperseded(v) EXCEPT ![j].state = "SUCCEEDED", ![j].version = v]
        BY <2>1, <3>2, SMTT(60) DEF AcceptUpload
      <4>2. j # k
        BY <1>0, <3>2, <4>1
      <4>3. op'[k] = OpsSuperseded(v)[k]
        BY <4>1, <4>2, SMTT(60) DEF OpsSuperseded
      <4> QED
        BY <1>0, <4>3 DEF OpsSuperseded
    <3> QED
      BY <3>1, <3>2
  <2>2. CASE StartService(s) \/ StopService(s)
    BY <2>2 DEF StartService, StopService
  <2>3. CASE Recover(s)
    BY <1>0, <2>3 DEF Recover, Interrupted
  <2>4. CASE \/ \E j \in Uploads : PlanUpload(s, j)
             \/ StoreOriginal(s) \/ UploadFails(s) \/ ClaimParse(s)
             \/ \E parses \in BOOLEAN : FinishParse(s, parses)
    BY <2>4, Zenon DEF PlanUpload, StoreOriginal, UploadFails, ClaimParse, FinishParse
  <2>5. CASE \E j \in Publications : AcceptPublication(s, j)
    BY <1>0, <2>5 DEF AcceptPublication, Reserve
  <2>6. CASE (\E j \in Publications : PrepareFinalization(s, j)) \/ AbandonFinalization(s)
    BY <2>6 DEF PrepareFinalization, AbandonFinalization
  <2>7. CASE \E j \in Builds : ClaimIndex(s, j)
    BY <1>0, <2>7 DEF ClaimIndex, Terminate
  <2>8. CASE CommitFinalization(s)
    <3>1. PICK j : j = fin[s].key
      OBVIOUS
    <3>2. op' = op \/ (Active(j) /\ op' = [op EXCEPT ![j].state = "SUCCEEDED"])
      BY <2>8, <3>1 DEF CommitFinalization, IndexReady, Switch
    <3> QED
      BY <1>0, <3>2
  <2>9. CASE RejectFinalization(s)
    <3>1. PICK j, x : j = fin[s].key /\ (x = IF fin[s].phase = "stale" THEN "STALE" ELSE "FAILED")
      OBVIOUS
    <3>2. op' = op \/ (Active(j) /\ op' = [op EXCEPT ![j].state = x])
      BY <2>9, <3>1 DEF RejectFinalization
    <3> QED
      BY <1>0, <3>2
  <2>10. CASE \E j \in Retries : AcceptRetry(s, j) \/ \E i \in Builds : PrepareRetry(s, j, i)
    BY <1>0, <2>10 DEF AcceptRetry, PrepareRetry, Reserve
  <2> QED
    BY <1>1, <2>1, <2>2, <2>3, <2>4, <2>5, <2>6, <2>7, <2>8, <2>9, <2>10 DEF ServiceStep
<1>2. CASE ClientStep
  <2>1. CASE \/ \E j \in Uploads, v \in Versions \cup {Null}, c \in Contents : DraftUpload(j, v, c)
             \/ \E j \in Publications, v \in Versions : PreparePublication(j, v)
             \/ \E j \in Disables : PrepareDisable(j)
    BY <1>0, <2>1 DEF DraftUpload, PreparePublication, PrepareDisable
  <2>2. CASE \E j \in Disables : AcceptDisable(j)
    BY <1>0, <2>2 DEF AcceptDisable, Pending
  <2> QED
    BY <1>2, <2>1, <2>2 DEF ClientStep
<1>3. ASSUME NEW j \in held,
             \/ FinishIndex(j) \/ LoseWork(j)
             \/ \E outcome \in {"FAILED", "INTERRUPTED"} : FailIndex(j, outcome)
      PROVE  op'[k] = op[k]
  <2>1. op' = op \/ (op[j].state = "EXECUTING" /\ \E x : op' = [op EXCEPT ![j].state = x])
    BY <1>3 DEF FinishIndex, LoseWork, FailIndex, ClaimStands, Terminate
  <2> QED
    BY <1>0, <2>1
<1>4. CASE (\E v \in Versions : Lapse(v)) \/ UNCHANGED vars
  BY <1>4 DEF Lapse, vars
<1> QED
  BY <1>1, <1>2, <1>3, <1>4 DEF Next

\* What was decided stays decided under late results, replays, recovery and
\* rejections.
THEOREM KnowledgeDecided == Spec => DecidedStays
<1>1. KnowledgeIInv /\ [Next]_vars =>
         [\A v \in Versions :
            /\ sealed[v] # Null => sealed'[v] = sealed[v] /\ revs'[v] = revs[v]
            /\ vstate[v] \in {"SUPERSEDED", "DISABLED"} => vstate'[v] = vstate[v]
            /\ vstate[v] = "PUBLISHED" => vstate'[v] # "DRAFT"]_vars
  BY DocMoves
<1>2. KnowledgeIInv /\ [Next]_vars =>
         [\A v \in Versions : \A n \in 1..Len(revs[v]) :
            revs'[v][n] # revs[v][n] =>
               /\ vstate[v] = "DRAFT" /\ n = Len(revs[v])
               /\ revs[v][n].body = Null /\ revs'[v][n].raw = revs[v][n].raw]_vars
  BY DocMoves
<1>3. KnowledgeIInv /\ [Next]_vars =>
         [\A k \in Keys : op[k].state \in {"SUCCEEDED", "FAILED", "STALE"} => op'[k] = op[k]]_vars
  BY OutcomeMoves
<1>4. Spec => SealedForever
  BY <1>1, KnowledgeInvariant, PTL DEF Spec, SealedForever
<1>5. Spec => ParseWritesCurrent
  BY <1>2, KnowledgeInvariant, PTL DEF Spec, ParseWritesCurrent
<1>6. Spec => OutcomeKept
  BY <1>3, KnowledgeInvariant, PTL DEF Spec, OutcomeKept
<1> QED
  BY <1>4, <1>5, <1>6 DEF DecidedStays

\* How tasks, owners and processes move when processes do not overlap.
LEMMA RecoveryStep ==
    ASSUME ~Overlap, KnowledgeIInv, RecoveryIInv, [Next]_vars
    PROVE  RecoveryIInv'
<1> USE Kinds DEF docVars, workVars, procVars
<1>0. /\ task \in [Keys -> TaskStates] /\ owner \in [Keys -> Services \cup {Null}]
      /\ svc \in [Services -> {"new", "up", "ready", "gone"}]
      /\ gen \in [Keys -> {"NONE", "BUILDING", "READY", "FAILED"}] /\ held \subseteq Keys
  BY DEF KnowledgeIInv, TypeOK
<1>1. ASSUME UNCHANGED svc,
             \A k \in Keys : Unfinished(k)' =>
                \/ Unfinished(k) /\ owner'[k] = owner[k]
                \/ \E s \in Services : Running(s) /\ owner'[k] = s
      PROVE  RecoveryIInv'
  BY <1>1 DEF RecoveryIInv, OneRunning, RecoveredOwnsAll, Running
<1>2. ASSUME NEW s \in Services, ServiceStep(s)
      PROVE  RecoveryIInv'
  <2>1. CASE StartService(s)
    <3>1. /\ svc' = [svc EXCEPT ![s] = "up"] /\ \A o \in Services : ~Running(o)
          /\ UNCHANGED <<task, owner>>
      BY <2>1 DEF StartService
    <3>2. \A o \in Services : svc'[o] # "ready" /\ (Running(o)' => o = s)
      BY <1>0, <3>1 DEF Running
    <3> QED
      BY <3>2 DEF RecoveryIInv, OneRunning, RecoveredOwnsAll
  <2>2. CASE StopService(s)
    <3>1. svc' = [svc EXCEPT ![s] = "gone"] /\ UNCHANGED <<task, owner>>
      BY <2>2 DEF StopService
    <3>2. \A o \in Services : (Running(o)' => Running(o)) /\ (svc'[o] = "ready" => svc[o] = "ready")
      BY <1>0, <3>1 DEF Running
    <3> QED
      BY <3>1, <3>2 DEF RecoveryIInv, OneRunning, RecoveredOwnsAll, Unfinished
  <2>3. CASE Recover(s)
    <3>1. /\ svc' = [svc EXCEPT ![s] = "ready"] /\ svc[s] = "up" /\ owner' = owner
          /\ \A k \in Keys : task'[k] = IF LeftBehind(s, k) THEN "INTERRUPTED" ELSE task[k]
      BY <2>3 DEF Recover
    <3>2. \A o \in Services : Running(o)' <=> Running(o)
      BY <1>0, <3>1 DEF Running
    <3>3. \A o \in Services : svc'[o] = "ready" => o = s
      BY <3>1, <3>2 DEF RecoveryIInv, OneRunning, Running
    <3>4. \A k \in Keys : Unfinished(k)' => owner'[k] = s
      BY <3>1 DEF LeftBehind, Unfinished
    <3> QED
      BY <3>2, <3>3, <3>4 DEF RecoveryIInv, OneRunning, RecoveredOwnsAll
  <2>4. CASE AcceptUpload(s)
    <3>1. svc[s] = "ready" /\ UNCHANGED svc
      BY <2>4 DEF AcceptUpload, KnowledgeIInv, HandsKept
    <3>2. PICK j, v : j = upload[s].key /\ v = upload[s].version
      OBVIOUS
    <3>3. \/ UNCHANGED <<task, owner>>
          \/ /\ task' = [TasksSuperseded(v) EXCEPT ![j] = "QUEUED"]
             /\ owner' = [owner EXCEPT ![j] = s]
      BY <2>4, <3>2 DEF AcceptUpload
    <3>4. CASE UNCHANGED <<task, owner>>
      BY <1>1, <3>1, <3>4 DEF Unfinished
    <3>5. CASE /\ task' = [TasksSuperseded(v) EXCEPT ![j] = "QUEUED"]
               /\ owner' = [owner EXCEPT ![j] = s]
      <4>1. \A k \in Keys : /\ k # j => owner'[k] = owner[k] /\ task'[k] \in {task[k], "STALE"}
                            /\ k = j => owner'[k] = s
        BY <1>0, <3>5 DEF TasksSuperseded
      <4> QED
        BY <1>1, <3>1, <4>1 DEF Unfinished, Running
    <3> QED
      BY <3>3, <3>4, <3>5
  <2>5. CASE \/ \E k \in Uploads : PlanUpload(s, k)
             \/ StoreOriginal(s) \/ UploadFails(s)
             \/ \E k \in Publications : PrepareFinalization(s, k)
             \/ CommitFinalization(s) \/ RejectFinalization(s) \/ AbandonFinalization(s)
             \/ \E k \in Retries, j \in Builds : PrepareRetry(s, k, j)
    <3>1. UNCHANGED <<svc, task, owner>>
      BY <2>5, Zenon DEF PlanUpload, StoreOriginal, UploadFails, PrepareFinalization,
                  CommitFinalization, RejectFinalization, AbandonFinalization, PrepareRetry
    <3> QED
      BY <1>1, <3>1, SMTT(60) DEF Unfinished
  <2>6. CASE ClaimParse(s)
    <3>1. /\ UNCHANGED <<svc, owner>>
          /\ \A k \in Keys : Unfinished(k)' => Unfinished(k)
      BY <1>0, <2>6 DEF ClaimParse, Unfinished
    <3> QED
      BY <1>1, <3>1
  <2>7. CASE \E parses \in BOOLEAN : FinishParse(s, parses)
    <3>1. /\ UNCHANGED <<svc, owner>>
          /\ task' = task \/ \E j, x : x \in {"SUCCEEDED", "FAILED", "STALE"}
                                       /\ task' = [task EXCEPT ![j] = x]
      BY <2>7, Zenon DEF FinishParse
    <3>2. \A k \in Keys : Unfinished(k)' => Unfinished(k)
      BY <1>0, <3>1 DEF Unfinished
    <3> QED
      BY <1>1, <3>1, <3>2, SMTT(60)
  <2>8. CASE \/ \E k \in Publications : AcceptPublication(s, k)
             \/ \E k \in Retries : AcceptRetry(s, k)
    <3>1. /\ Running(s) /\ UNCHANGED svc
          /\ \/ UNCHANGED <<task, owner>>
             \/ \E j : task' = [task EXCEPT ![j] = "QUEUED"] /\ owner' = [owner EXCEPT ![j] = s]
      BY <2>8 DEF AcceptPublication, AcceptRetry, Reserve
    <3>2. CASE UNCHANGED <<task, owner>>
      BY <1>1, <3>1, <3>2 DEF Unfinished
    <3>3. ASSUME NEW j, task' = [task EXCEPT ![j] = "QUEUED"], owner' = [owner EXCEPT ![j] = s]
          PROVE  RecoveryIInv'
      <4>1. \A k \in Keys : /\ k # j => owner'[k] = owner[k] /\ task'[k] = task[k]
                            /\ k = j => owner'[k] = s
        BY <1>0, <3>3
      <4> QED
        BY <1>1, <3>1, <4>1 DEF Unfinished
    <3> QED
      BY <3>1, <3>2, <3>3
  <2>9. CASE \E k \in Builds : ClaimIndex(s, k)
    <3>1. /\ UNCHANGED <<svc, owner>>
          /\ \A k \in Keys : Unfinished(k)' => Unfinished(k)
      BY <1>0, <2>9 DEF ClaimIndex, Terminate, Unfinished
    <3> QED
      BY <1>1, <3>1
  <2> QED
    BY <1>2, <2>1, <2>2, <2>3, <2>4, <2>5, <2>6, <2>7, <2>8, <2>9 DEF ServiceStep
<1>3. ASSUME ClientStep
      PROVE  RecoveryIInv'
  <2>1. /\ UNCHANGED <<svc, owner>>
        /\ \A k \in Keys : Unfinished(k)' => Unfinished(k)
    BY <1>3, ZenonT(60) DEF ClientStep, DraftUpload, PreparePublication, PrepareDisable, AcceptDisable,
                Unfinished
  <2> QED
    BY <1>1, <2>1, SMTT(60)
<1>4. ASSUME NEW j \in held,
             \/ FinishIndex(j) \/ LoseWork(j)
             \/ \E outcome \in {"FAILED", "INTERRUPTED"} : FailIndex(j, outcome)
      PROVE  RecoveryIInv'
  <2>1. /\ UNCHANGED <<svc, owner>>
        /\ task' = task \/ \E x \in {"SUCCEEDED", "FAILED", "STALE", "INTERRUPTED"} :
                              task' = [task EXCEPT ![j] = x]
    BY <1>4 DEF FinishIndex, LoseWork, FailIndex, Terminate
  <2>2. \A k \in Keys : Unfinished(k)' => Unfinished(k)
    BY <1>0, <2>1 DEF Unfinished
  <2> QED
    BY <1>1, <2>1, <2>2
<1>5. ASSUME (\E v \in Versions : Lapse(v)) \/ UNCHANGED vars
      PROVE  RecoveryIInv'
  <2>1. UNCHANGED <<svc, task, owner>>
    BY <1>5 DEF Lapse, vars
  <2> QED
    BY <1>1, <2>1 DEF Unfinished
<1> QED
  BY <1>2, <1>3, <1>4, <1>5 DEF Next

\* When a process starts only after the older one has stopped, no unfinished
\* task waits for a dead owner once recovery is done.
THEOREM KnowledgeRecovered ==
    ASSUME ~Overlap
    PROVE  Spec => []RecoveredOwnsAll
<1>1. Init => RecoveryIInv
  BY DEF Init, RecoveryIInv, OneRunning, RecoveredOwnsAll, Running
<1>2. KnowledgeIInv /\ RecoveryIInv /\ [Next]_vars => RecoveryIInv'
  BY RecoveryStep
<1>3. RecoveryIInv => RecoveredOwnsAll
  BY DEF RecoveryIInv
<1> QED
  BY <1>1, <1>2, <1>3, KnowledgeInvariant, PTL DEF Spec

----------------------------------------------------------------------------
\* The import of the catalog.

\* What the invariant says of everything but the calls.
LibraryInv == SignedOriginals /\ BatchInLibrary /\ ReceiptsTruthful

\* One call takes a step, the others keep what they know, and originals are
\* only added.
LEMMA OneCallMoves ==
    ASSUME ImportTypeOK, CallsKnow, NEW c \in Calls, NEW s \in CallRecord,
           call' = [call EXCEPT ![c] = s], originals \subseteq originals', Knows(s)'
    PROVE  call' \in [Calls -> CallRecord] /\ CallsKnow'
<1>1. call'[c] = s /\ \A d \in Calls : d # c => call'[d] = call[d]
  BY DEF ImportTypeOK
<1>2. \A d \in Calls : d # c => Knows(call[d])'
  <2> SUFFICES ASSUME NEW d \in Calls, d # c PROVE Knows(call[d])'
    OBVIOUS
  <2>1. Knows(call[d]) /\ call'[d] = call[d]
    BY <1>1 DEF CallsKnow
  <2> QED
    BY <2>1 DEF Knows, ImportDigest, ImportPlan
<1>3. Knows(call[c])'
  BY <1>1 DEF Knows, ImportDigest, ImportPlan
<1> QED
  BY <1>2, <1>3 DEF ImportTypeOK, CallsKnow

\* A call that is over knows nothing and needs nothing.
LEMMA IdleKnows == Idle \in CallRecord /\ Idle.phase = "idle" /\ Knows(Idle)'
BY DEF Idle, CallRecord, Phases, Knows

\* An answer from the import that is already there.
LEMMA ReplayTruthful ==
    ASSUME ImportTypeOK, LibraryInv, NEW c, NEW r, Replay(c, r), UNCHANGED batch
    PROVE  ReceiptsTruthful'
<1>1. /\ batch # Absent /\ batch.actor = r.actor /\ batch.key = r.key /\ batch.of = r.of
      /\ receipts' = receipts \cup {Receipt(r)} /\ batch \in Batches
  BY DEF Replay, Replays, Known, ImportTypeOK
<1>2. Receipt(r) = [actor |-> batch.actor, key |-> batch.key, of |-> batch.of,
                    release |-> batch.release]
  <2>1. batch.of.release = batch.release - 1 /\ batch.release \in Nat
    BY <1>1 DEF LibraryInv, BatchInLibrary, Batches
  <2> QED
    BY <1>1, <2>1 DEF Receipt
<1> QED
  BY <1>1, <1>2 DEF LibraryInv, ReceiptsTruthful

\* Steps that touch neither the library nor the storage.
LEMMA LibraryRests ==
    ASSUME LibraryInv, UNCHANGED <<library, batch, originals, receipts>>
    PROVE  LibraryInv'
BY DEF LibraryInv, SignedOriginals, BatchInLibrary, ReceiptsTruthful, ImportPlan

\* A call ends, with whatever it left behind.
LEMMA EndKeeps ==
    ASSUME ImportIInv, NEW c \in Calls, End(c),
           UNCHANGED <<source, library, batch, originals, report, sent, receipts>>
    PROVE  ImportIInv'
<1>1. call' \in [Calls -> CallRecord] /\ CallsKnow'
  BY IdleKnows, OneCallMoves DEF ImportIInv, End
<1>2. ImportTypeOK'
  BY <1>1 DEF ImportIInv, ImportTypeOK, source
<1>3. LibraryInv'
  BY LibraryRests DEF ImportIInv, LibraryInv
<1> QED
  BY <1>1, <1>2, <1>3 DEF ImportIInv, LibraryInv

\* A call ends with a receipt of the import that is there.
LEMMA ReplayKeeps ==
    ASSUME ImportIInv, NEW c \in Calls, NEW r, Replay(c, r),
           UNCHANGED <<source, library, batch, originals, report>>,
           sent' \in [Admins \X ConfirmationKeys -> Digests \cup {Absent}]
    PROVE  ImportIInv'
<1>1. call' \in [Calls -> CallRecord] /\ CallsKnow'
  BY IdleKnows, OneCallMoves DEF ImportIInv, Replay, End
<1>2. ImportTypeOK'
  BY <1>1 DEF ImportIInv, ImportTypeOK, source
<1>3. ReceiptsTruthful'
  BY ReplayTruthful DEF ImportIInv, LibraryInv
<1>4. SignedOriginals' /\ BatchInLibrary'
  BY DEF ImportIInv, SignedOriginals, BatchInLibrary, ImportPlan
<1> QED
  BY <1>1, <1>2, <1>3, <1>4 DEF ImportIInv

\* A call goes on with more knowledge; nothing else moves but the bookkeeping.
LEMMA AdvanceKeeps ==
    ASSUME ImportIInv, NEW c \in Calls, NEW s \in CallRecord,
           call' = [call EXCEPT ![c] = s], Knows(s)',
           UNCHANGED <<source, library, batch, originals, receipts>>,
           report' = report, sent' \in [Admins \X ConfirmationKeys -> Digests \cup {Absent}]
    PROVE  ImportIInv'
<1>1. call' \in [Calls -> CallRecord] /\ CallsKnow'
  BY OneCallMoves DEF ImportIInv
<1>2. ImportTypeOK'
  BY <1>1 DEF ImportIInv, ImportTypeOK, source
<1>3. LibraryInv'
  BY LibraryRests DEF ImportIInv, LibraryInv
<1> QED
  BY <1>1, <1>2, <1>3 DEF ImportIInv, LibraryInv

\* A request arrives.
LEMMA ArriveKeeps ==
    ASSUME ImportIInv, NEW c \in Calls, NEW a \in Admins,
           Prepare(c, a) \/ \E k \in ConfirmationKeys : Confirm(c, a, k)
    PROVE  ImportIInv'
<1>1. CASE Prepare(c, a)
  <2> DEFINE s == [Idle EXCEPT !.phase = "capture", !.actor = a]
  <2>1. s \in CallRecord /\ s.phase = "capture" /\ s.actor = a /\ s.key = Absent
    BY DEF Idle, CallRecord, Phases
  <2>2. Knows(s)'
    BY <2>1 DEF Knows
  <2>3. call' = [call EXCEPT ![c] = s]
    BY <1>1 DEF Prepare
  <2> HIDE DEF s
  <2> QED
    BY <1>1, <2>1, <2>2, <2>3, AdvanceKeeps DEF Prepare, ImportIInv, ImportTypeOK
<1>2. ASSUME NEW k \in ConfirmationKeys, Confirm(c, a, k) PROVE ImportIInv'
  <2>1. PICK of \in {report[b] : b \in Admins} \cup {sent[<<a, k>>]} :
           LET r == [Idle EXCEPT !.phase = "capture", !.actor = a, !.key = k, !.of = of]
           IN /\ of # Absent
              /\ sent' = [sent EXCEPT ![<<a, k>>] = of]
              /\ \/ Replay(c, r)
                 \/ call' = [call EXCEPT ![c] = r] /\ UNCHANGED receipts
              /\ UNCHANGED <<source, library, batch, originals, report>>
    BY <1>2 DEF Confirm
  <2> DEFINE r == [Idle EXCEPT !.phase = "capture", !.actor = a, !.key = k, !.of = of]
  <2>2. of \in Digests
    BY <2>1 DEF ImportIInv, ImportTypeOK
  <2>3. sent' \in [Admins \X ConfirmationKeys -> Digests \cup {Absent}]
    BY <2>1, <2>2 DEF ImportIInv, ImportTypeOK
  <2>4. r \in CallRecord /\ r.phase = "capture" /\ r.actor = a /\ r.key = k /\ r.of = of
    BY <2>2 DEF Idle, CallRecord, Phases
  <2>5. Knows(r)'
    BY <2>2, <2>4 DEF Knows
  <2> HIDE DEF r
  <2>6. CASE Replay(c, r)
    BY <2>1, <2>3, <2>6, ReplayKeeps
  <2>7. CASE call' = [call EXCEPT ![c] = r] /\ UNCHANGED receipts
    BY <2>1, <2>3, <2>4, <2>5, <2>7, AdvanceKeeps
  <2> QED
    BY <2>1, <2>6, <2>7 DEF r
<1> QED
  BY <1>1, <1>2

\* The files, then the index and the library.
LEMMA ReadKeeps ==
    ASSUME ImportIInv, NEW c \in Calls, CaptureImportFiles(c) \/ ReadSource(c)
    PROVE  ImportIInv'
<1>0. call[c] \in CallRecord /\ Knows(call[c])
      /\ sent \in [Admins \X ConfirmationKeys -> Digests \cup {Absent}]
  BY DEF ImportIInv, ImportTypeOK, CallsKnow
<1>1. CASE CaptureImportFiles(c)
  <2>0. PICK s : s = [call[c] EXCEPT !.phase = "captured", !.files = repo]
    OBVIOUS
  <2>1. /\ s \in CallRecord /\ s.phase = "captured" /\ s.actor = call[c].actor
        /\ s.key = call[c].key /\ s.of = call[c].of /\ s.files = repo /\ repo \in Raws
    BY <1>0, <2>0 DEF CallRecord, Phases, ImportIInv, ImportTypeOK
  <2>2. Knows(s)'
    BY <1>0, <1>1, <2>1 DEF Knows, CaptureImportFiles
  <2>3. call' = [call EXCEPT ![c] = s]
    BY <1>1, <2>0 DEF CaptureImportFiles
  <2> QED
    BY <1>0, <1>1, <2>1, <2>2, <2>3, AdvanceKeeps DEF CaptureImportFiles
<1>2. CASE ReadSource(c)
  <2>0. call[c].phase = "captured" /\ UNCHANGED <<source, library, batch, originals, report, sent>>
    BY <1>2 DEF ReadSource
  <2>1. CASE /\ library.catalog = Absent /\ legacy.body = BodyOf[call[c].files]
             /\ call' = [call EXCEPT ![c].phase = "read", ![c].stored = LegacyImportSnapshot]
             /\ UNCHANGED receipts
    <3>0. PICK s : s = [call[c] EXCEPT !.phase = "read", !.stored = LegacyImportSnapshot]
      OBVIOUS
    <3>1. LegacyImportSnapshot \in Snapshots /\ LegacyImportSnapshot.body = legacy.body
      BY DEF LegacyImportSnapshot, Snapshots, ImportIInv, ImportTypeOK
    <3>2. /\ s \in CallRecord /\ s.phase = "read" /\ s.actor = call[c].actor
          /\ s.key = call[c].key /\ s.of = call[c].of /\ s.files = call[c].files
          /\ s.stored = LegacyImportSnapshot
      BY <1>0, <3>0, <3>1 DEF CallRecord, Phases
    <3>3. Knows(s)'
      BY <1>0, <2>0, <2>1, <3>1, <3>2 DEF Knows
    <3>4. call' = [call EXCEPT ![c] = s]
      BY <2>1, <3>0
    <3> QED
      BY <1>0, <2>0, <2>1, <3>2, <3>3, <3>4, AdvanceKeeps
  <2>2. CASE Replay(c, call[c])
    BY <1>0, <2>0, <2>2, ReplayKeeps
  <2>3. CASE End(c) /\ UNCHANGED receipts
    BY <2>0, <2>3, EndKeeps
  <2> QED
    BY <1>2, <2>1, <2>2, <2>3 DEF ReadSource
<1> QED
  BY <1>1, <1>2

\* The comparison that a confirmation must pass, or the candidate that is shown.
LEMMA CheckKeeps ==
    ASSUME ImportIInv, NEW c \in Calls, CheckSource(c)
    PROVE  ImportIInv'
<1> DEFINE digest == ImportDigest(call[c].actor, call[c].files, call[c].stored)
<1>1. /\ call[c] \in CallRecord /\ Knows(call[c]) /\ call[c].phase = "read"
      /\ UNCHANGED <<source, library, batch, originals, sent, receipts>>
      /\ sent \in [Admins \X ConfirmationKeys -> Digests \cup {Absent}]
      /\ call \in [Calls -> CallRecord]
  BY DEF ImportIInv, ImportTypeOK, CallsKnow, CheckSource
<1>2. call[c].actor \in Admins /\ call[c].files \in Raws /\ call[c].stored \in Snapshots
  BY <1>1 DEF Knows
<1>3. digest \in Digests
  BY <1>2 DEF ImportDigest, Digests, Snapshots
<1>4. CASE End(c) /\ UNCHANGED report
  BY <1>1, <1>4, EndKeeps
<1>5. CASE End(c) /\ report' = [report EXCEPT ![call[c].actor] = digest]
  <2>1. call' \in [Calls -> CallRecord] /\ CallsKnow'
    BY <1>1, <1>5, IdleKnows, OneCallMoves DEF ImportIInv, End
  <2>2. ImportTypeOK'
    BY <1>1, <1>3, <1>5, <2>1 DEF ImportIInv, ImportTypeOK, source
  <2>3. LibraryInv'
    BY <1>1, LibraryRests DEF ImportIInv, LibraryInv
  <2> QED
    BY <2>1, <2>2, <2>3 DEF ImportIInv, LibraryInv
<1>6. CASE /\ call[c].key # Absent /\ call[c].of = digest /\ Goto(c, "copy")
           /\ UNCHANGED report
  <2>1. PICK s : s = [call[c] EXCEPT !.phase = "copy"]
    OBVIOUS
  <2>2. /\ s \in CallRecord /\ s.phase = "copy" /\ call' = [call EXCEPT ![c] = s]
        /\ s.actor = call[c].actor /\ s.key = call[c].key /\ s.of = call[c].of
        /\ s.files = call[c].files /\ s.stored = call[c].stored
    BY <1>1, <1>6, <2>1 DEF CallRecord, Phases, Goto
  <2>3. Knows(s)'
    BY <1>1, <1>6, <2>2 DEF Knows, ImportDigest
  <2> QED
    BY <1>1, <1>6, <2>2, <2>3, AdvanceKeeps
<1> QED
  BY <1>4, <1>5, <1>6 DEF CheckSource, Confirmed

\* The originals of a command: nothing with other bytes is in their place.
LEMMA NoConflict ==
    ASSUME ImportIInv, NEW c \in Calls, call[c].phase = "copy"
    PROVE  \A o \in OriginalsAt(ImportPlan(call[c])) : o.raw = call[c].files
<1>1. call[c].of = ImportDigest(call[c].actor, call[c].files, call[c].stored)
  BY DEF ImportIInv, CallsKnow, Knows
<1>2. \A o \in OriginalsAt(ImportPlan(call[c])) : o.raw = call[c].of.raw
  BY DEF OriginalsAt, ImportPlan, ImportIInv, SignedOriginals
<1> QED
  BY <1>1, <1>2 DEF ImportDigest

LEMMA CopyKeeps ==
    ASSUME ImportIInv, NEW c \in Calls, CopyOriginals(c)
    PROVE  ImportIInv'
<1>1. /\ call[c] \in CallRecord /\ Knows(call[c]) /\ call[c].phase = "copy"
      /\ UNCHANGED <<source, library, batch, report, sent, receipts>>
  BY DEF ImportIInv, ImportTypeOK, CallsKnow, CopyOriginals
<1>2. CASE End(c) /\ UNCHANGED originals
  BY <1>1, <1>2, EndKeeps
<1>3. CASE Goto(c, "copied") /\ originals' = originals \cup
                {[path |-> ImportPlan(call[c]), raw |-> call[c].files]}
  <2>1. PICK s : s = [call[c] EXCEPT !.phase = "copied"]
    OBVIOUS
  <2>2. /\ s \in CallRecord /\ s.phase = "copied" /\ call' = [call EXCEPT ![c] = s]
        /\ s.actor = call[c].actor /\ s.key = call[c].key /\ s.of = call[c].of
        /\ s.files = call[c].files /\ s.stored = call[c].stored
    BY <1>1, <1>3, <2>1 DEF CallRecord, Phases, Goto
  <2>3. PICK o : o = [path |-> ImportPlan(call[c]), raw |-> call[c].files]
    OBVIOUS
  <2>4. /\ call[c].files \in Raws /\ call[c].actor \in Admins /\ call[c].key \in ConfirmationKeys
        /\ call[c].of = ImportDigest(call[c].actor, call[c].files, call[c].stored)
        /\ call[c].stored \in Snapshots
    BY <1>1 DEF Knows
  <2>5. call[c].of \in Digests /\ call[c].of.raw = call[c].files
    BY <2>4 DEF ImportDigest, Digests, Snapshots
  <2>6. o \in [path : Paths, raw : Raws] /\ o.raw = o.path.of.raw
    BY <2>3, <2>4, <2>5 DEF ImportPlan, Paths
  <2>7. originals' = originals \cup {o}
    BY <1>3, <2>3
  <2>8. Knows(s)'
    BY <1>1, <2>2, <2>3, <2>7 DEF Knows, ImportDigest, ImportPlan
  <2>9. call' \in [Calls -> CallRecord] /\ CallsKnow'
    BY <2>2, <2>7, <2>8, OneCallMoves DEF ImportIInv
  <2>10. ImportTypeOK'
    BY <1>1, <2>6, <2>7, <2>9 DEF ImportIInv, ImportTypeOK, source
  <2>11. SignedOriginals' /\ BatchInLibrary' /\ ReceiptsTruthful'
    BY <1>1, <2>6, <2>7 DEF ImportIInv, SignedOriginals, BatchInLibrary, ReceiptsTruthful,
                            ImportPlan
  <2> QED
    BY <2>9, <2>10, <2>11 DEF ImportIInv
<1> QED
  BY <1>2, <1>3 DEF CopyOriginals

LEMMA RecheckKeeps ==
    ASSUME ImportIInv, NEW c \in Calls, Recheck(c)
    PROVE  ImportIInv'
<1>1. /\ call[c] \in CallRecord /\ Knows(call[c]) /\ call[c].phase = "copied"
      /\ UNCHANGED <<source, library, batch, originals, report, sent, receipts>>
      /\ sent \in [Admins \X ConfirmationKeys -> Digests \cup {Absent}]
  BY DEF ImportIInv, ImportTypeOK, CallsKnow, Recheck
<1>2. CASE End(c)
  BY <1>1, <1>2, EndKeeps
<1>3. CASE Goto(c, "ready")
  <2>1. PICK s : s = [call[c] EXCEPT !.phase = "ready"]
    OBVIOUS
  <2>2. /\ s \in CallRecord /\ s.phase = "ready" /\ call' = [call EXCEPT ![c] = s]
        /\ s.actor = call[c].actor /\ s.key = call[c].key /\ s.of = call[c].of
        /\ s.files = call[c].files /\ s.stored = call[c].stored
    BY <1>1, <1>3, <2>1 DEF CallRecord, Phases, Goto
  <2>3. Knows(s)'
    BY <1>1, <2>2 DEF Knows, ImportDigest, ImportPlan
  <2> QED
    BY <1>1, <2>2, <2>3, AdvanceKeeps
<1> QED
  BY <1>2, <1>3 DEF Recheck

\* The one transaction that writes a batch: its library was empty, its index
\* and its release are those that were confirmed.
LEMMA CommitKeeps ==
    ASSUME ImportIInv, NEW c \in Calls, Commit(c)
    PROVE  ImportIInv'
<1> DEFINE r == call[c]
<1>1. /\ r \in CallRecord /\ Knows(r) /\ r.phase = "ready"
      /\ UNCHANGED <<source, originals, report, sent>>
      /\ sent \in [Admins \X ConfirmationKeys -> Digests \cup {Absent}]
  BY DEF ImportIInv, ImportTypeOK, CallsKnow, Commit
<1>2. CASE Replay(c, r) /\ UNCHANGED <<batch, library>>
  BY <1>1, <1>2, ReplayKeeps
<1>3. CASE End(c) /\ UNCHANGED <<batch, library, receipts>>
  BY <1>1, <1>3, EndKeeps
<1>4. CASE /\ Unmoved(r)
           /\ batch' = [actor |-> r.actor, key |-> r.key, of |-> r.of, raw |-> r.files,
                        body |-> r.stored.body, stamp |-> r.stored.stamp,
                        release |-> library.release + 1]
           /\ library' = [catalog |-> CatalogOf[r.files], release |-> library.release + 1]
           /\ receipts' = receipts \cup {Receipt(r)}
           /\ End(c)
  <2>1. /\ r.files \in Raws /\ r.actor \in Admins /\ r.key \in ConfirmationKeys /\ r.stored \in Snapshots
        /\ r.stored.body = BodyOf[r.files]
        /\ r.of = [actor |-> r.actor, raw |-> r.files, stamp |-> r.stored.stamp,
                   release |-> r.stored.release]
        /\ [path |-> ImportPlan(r), raw |-> r.files] \in originals
    BY <1>1 DEF Knows, ImportDigest
  <2>2. /\ library.catalog = Absent /\ library.release = r.of.release /\ library.release \in Nat
        /\ batch = Absent /\ receipts = {}
    BY <1>4 DEF Unmoved, ImportIInv, BatchInLibrary, ReceiptsTruthful, ImportTypeOK
  <2>3. r.of \in Digests
    BY <2>1 DEF Digests, Snapshots
  <2>4. batch' \in Batches /\ batch' # Absent
    BY <1>4, <2>1, <2>2, <2>3, CatalogAssumption DEF Batches, Snapshots, Bodies
  <2>5. library' \in [catalog : Catalogs \cup {Absent}, release : Nat] /\ library'.catalog # Absent
    BY <1>4, <2>1, <2>2, CatalogAssumption DEF Catalogs
  <2>6. call' \in [Calls -> CallRecord] /\ CallsKnow'
    BY <1>1, <1>4, IdleKnows, OneCallMoves DEF ImportIInv, End
  <2>7. ImportTypeOK'
    BY <1>1, <2>4, <2>5, <2>6 DEF ImportIInv, ImportTypeOK, source
  <2>8. SignedOriginals'
    BY <1>1 DEF ImportIInv, SignedOriginals
  <2>9. /\ batch'.actor = r.actor /\ batch'.key = r.key /\ batch'.of = r.of
        /\ batch'.raw = r.files /\ batch'.body = r.stored.body
        /\ batch'.stamp = r.stored.stamp /\ batch'.release = library.release + 1
    BY <1>4
  <2>10. ImportPlan(batch)' = ImportPlan(r)
    BY <2>9 DEF ImportPlan
  <2>11. batch'.release - 1 = r.stored.release
    BY <2>1, <2>2, <2>9
  <2>12. BatchInLibrary'
    BY <1>1, <2>1, <2>5, <2>9, <2>10, <2>11 DEF BatchInLibrary
  <2>13. Receipt(r) = [actor |-> r.actor, key |-> r.key, of |-> r.of,
                       release |-> library.release + 1]
    BY <2>2 DEF Receipt
  <2>14. ReceiptsTruthful'
    BY <1>4, <2>2, <2>4, <2>9, <2>13 DEF ReceiptsTruthful
  <2> QED
    BY <2>6, <2>7, <2>8, <2>12, <2>14 DEF ImportIInv
<1> QED
  BY <1>2, <1>3, <1>4 DEF Commit

\* Edits, ingestions and other releases.
LEMMA AroundKeeps ==
    ASSUME ImportIInv,
           \/ \E r \in Raws : EditRepository(r)
           \/ IngestReads \/ IngestWrites \/ OtherRelease \/ UNCHANGED importVars
    PROVE  ImportIInv'
<1>1. UNCHANGED <<batch, originals, report, sent, call, receipts>>
  BY DEF EditRepository, IngestReads, IngestWrites, OtherRelease, importVars
<1>2. repo' \in Raws /\ ingesting' \in Raws \cup {Absent}
  BY DEF ImportIInv, ImportTypeOK, EditRepository, IngestReads, IngestWrites, OtherRelease, importVars,
         source
<1>3. legacy' \in [body : Bodies, stamp : Nat]
  BY DEF ImportIInv, ImportTypeOK, EditRepository, IngestReads, IngestWrites, OtherRelease, importVars,
         source, Bodies
<1>4. /\ library' \in [catalog : Catalogs \cup {Absent}, release : Nat]
      /\ library'.catalog = library.catalog
  BY DEF ImportIInv, ImportTypeOK, EditRepository, IngestReads, IngestWrites, OtherRelease, importVars
<1>5. ImportTypeOK'
  BY <1>1, <1>2, <1>3, <1>4 DEF ImportIInv, ImportTypeOK
<1>6. CallsKnow' /\ SignedOriginals' /\ ReceiptsTruthful'
  BY <1>1 DEF ImportIInv, CallsKnow, Knows, ImportDigest, ImportPlan, SignedOriginals,
              ReceiptsTruthful
<1>7. BatchInLibrary'
  BY <1>1, <1>4 DEF ImportIInv, BatchInLibrary, ImportPlan
<1> QED
  BY <1>5, <1>6, <1>7 DEF ImportIInv

LEMMA ImportStarts == ImportInit => ImportIInv
<1> SUFFICES ASSUME ImportInit PROVE ImportIInv
  OBVIOUS
<1> USE CatalogAssumption DEF ImportInit
<1>1. ImportTypeOK
  BY IdleKnows DEF ImportTypeOK, Bodies
<1>2. CallsKnow
  BY DEF CallsKnow, Knows, Idle
<1>3. SignedOriginals /\ BatchInLibrary /\ ReceiptsTruthful
  BY DEF SignedOriginals, BatchInLibrary, ReceiptsTruthful
<1> QED
  BY <1>1, <1>2, <1>3 DEF ImportIInv

LEMMA ImportStep == ImportIInv /\ [ImportNext]_importVars => ImportIInv'
<1> SUFFICES ASSUME ImportIInv, [ImportNext]_importVars PROVE ImportIInv'
  OBVIOUS
<1>1. ASSUME NEW c \in Calls, CallStep(c)
      PROVE  ImportIInv'
  <2>1. CASE Fails(c)
    BY <2>1, EndKeeps DEF Fails
  <2> QED
    BY <1>1, <2>1, ArriveKeeps, ReadKeeps, CheckKeeps, CopyKeeps, RecheckKeeps, CommitKeeps
    DEF CallStep
<1> QED
  BY <1>1, AroundKeeps DEF ImportNext

\* The invariant of the import: every call knows what its phase has compared,
\* and the library, the storage and the receipts agree.
THEOREM ImportInvariant == ImportSpec => []ImportIInv
<1> QED
  BY ImportStarts, ImportStep, PTL DEF ImportSpec

\* The imported batch is exactly what its administrator reviewed, however the
\* files, the index and the library moved meanwhile, and what an attempt that
\* failed left in the storage is never in the way (catalog_import.py).
THEOREM ImportReviewed == ImportSpec => []ImportedAsReviewed
<1>1. ImportIInv => ImportedAsReviewed
  <2> SUFFICES ASSUME ImportIInv PROVE ImportedAsReviewed
    OBVIOUS
  <2>1. OriginalsNeverConflict
    BY NoConflict DEF OriginalsNeverConflict
  <2>2. ASSUME batch # Absent
        PROVE  OriginalsAt(ImportPlan(batch)) = {[path |-> ImportPlan(batch), raw |-> batch.raw]}
    <3>1. batch.of.raw = batch.raw
      BY <2>2 DEF ImportIInv, BatchInLibrary
    <3>2. [path |-> ImportPlan(batch), raw |-> batch.raw] \in originals
      BY <2>2 DEF ImportIInv, BatchInLibrary
    <3>3. ASSUME NEW o \in originals, o.path = ImportPlan(batch)
          PROVE  o = [path |-> ImportPlan(batch), raw |-> batch.raw]
      <4>1. o.raw = batch.raw
        BY <3>1, <3>3 DEF ImportIInv, SignedOriginals, ImportPlan
      <4>2. o = [path |-> o.path, raw |-> o.raw]
        BY DEF ImportIInv, ImportTypeOK
      <4> QED
        BY <3>3, <4>1, <4>2
    <3> QED
      BY <3>2, <3>3 DEF OriginalsAt
  <2> QED
    BY <2>1, <2>2 DEF ImportedAsReviewed, ImportIInv, BatchInLibrary
<1> QED
  BY <1>1, ImportInvariant, PTL

\* A receipt names the import that is in the library, whichever of the three
\* lookups, or the commit itself, returned it.
THEOREM ImportReceipts == ImportSpec => []ReceiptsTruthful
<1>1. ImportIInv => ReceiptsTruthful
  BY DEF ImportIInv
<1> QED
  BY <1>1, ImportInvariant, PTL

\* The one slot of the library is written once, from the index that serves at
\* that moment: what the lock and the comparisons of commit are for.
THEOREM ImportOnce == ImportSpec => ImportedOnce
<1>1. ASSUME ImportIInv, [ImportNext]_importVars
      PROVE  /\ batch # Absent => batch' = batch /\ library'.catalog = library.catalog
             /\ batch # batch' => batch'.stamp = legacy.stamp /\ batch'.body = legacy.body
  <2> USE <1>1
  <2>1. ASSUME NEW c \in Calls, Commit(c), batch' # batch \/ library' # library
        PROVE  /\ batch = Absent
               /\ batch'.stamp = legacy.stamp /\ batch'.body = legacy.body
    <3>1. /\ Unmoved(call[c])
          /\ batch'.stamp = call[c].stored.stamp /\ batch'.body = call[c].stored.body
      BY <2>1 DEF Commit
    <3>2. batch = Absent
      BY <3>1 DEF Unmoved, ImportIInv, BatchInLibrary
    <3>3. call[c].stored.stamp = legacy.stamp /\ call[c].stored.body = legacy.body
      BY <3>1 DEF Unmoved, LegacyImportSnapshot
    <3> QED
      BY <3>1, <3>2, <3>3
  <2>2. ASSUME NEW c \in Calls, CallStep(c)
        PROVE  Commit(c) \/ UNCHANGED <<batch, library>>
    BY <2>2 DEF CallStep, Prepare, Confirm, CaptureImportFiles, ReadSource, CheckSource,
       CopyOriginals, Recheck, Fails
  <2>3. CASE \/ \E r \in Raws : EditRepository(r)
             \/ IngestReads \/ IngestWrites \/ OtherRelease \/ UNCHANGED importVars
    <3>1. batch' = batch /\ library'.catalog = library.catalog
      BY <2>3 DEF EditRepository, IngestReads, IngestWrites, OtherRelease, importVars, ImportIInv,
         ImportTypeOK
    <3> QED
      BY <3>1
  <2> QED
    BY <2>1, <2>2, <2>3 DEF ImportNext
<1> QED
  BY <1>1, ImportInvariant, PTL DEF ImportSpec, ImportedOnce

=============================================================================
