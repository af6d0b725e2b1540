------------------------ MODULE BusinessWriteProofs ------------------------
(* The properties of BusinessWrite for any number of handlers, keys, tasks   *)
(* and calls.                                                                *)
EXTENDS BusinessWrite, TLAPS

\* The fields of a request are what the columns they are compared with hold.
LEMMA RequestFields ==
    ASSUME NEW req \in Request
    PROVE  /\ req.task \in Tasks
           /\ req.issue \in Issues
           /\ req.expected \in Nat
           /\ req.op \in {"SUBMIT_REVIEW", "CREATE_REWORK"}
BY DEF Request

\* The call a handler serves is well formed.
LEMMA CallFields ==
    ASSUME TypeOK, NEW c \in Conns
    PROVE  /\ KeyOf(c) \in Keys
           /\ ReqOf(c) \in Request
           /\ ReqOf(c).task \in Tasks
           /\ ReqOf(c).issue \in Issues
           /\ ReqOf(c).expected \in Nat
<1>1. call[c] \in Call
  BY CallsAssumption DEF TypeOK
<1>2. KeyOf(c) \in Keys /\ ReqOf(c) \in Request
  BY <1>1 DEF Call, KeyOf, ReqOf
<1> QED
  BY <1>2, RequestFields

\* The service starts in the inductive invariant.
LEMMA InitIInv == Init => IInv
<1> SUFFICES ASSUME Init PROVE IInv
  OBVIOUS
<1> USE DEF Init
<1>1. TypeOK
  <2>1. call \in [Conns -> Calls]
    <3>1. (CHOOSE k \in Calls : TRUE) \in Calls
      BY CallsAssumption
    <3> QED
      BY <3>1
  <2>2. reply \in [Conns -> Reply]
    BY DEF Reply, Refused, Refusals
  <2> QED
    BY <2>1, <2>2 DEF TypeOK
<1>2. LockDiscipline /\ ReadsStillValid
  BY DEF LockDiscipline, ReadsStillValid, InTx, Refused
<1>3. LedgerAgrees /\ OneEffectPerKey /\ OneActiveRework /\ ReviewCountExact
  BY DEF LedgerAgrees, OneEffectPerKey, OneActiveRework, ReviewCountExact
<1>4. VersionChain /\ SuccessIsCommitted
  BY DEF VersionChain, SuccessIsCommitted, Refused
<1> QED
  BY <1>1, <1>2, <1>3, <1>4 DEF IInv

\* The parts of the invariant that only speak of committed rows survive a step
\* that commits nothing.
LEMMA CommittedUnchanged ==
    ASSUME IInv, UNCHANGED <<version, effects, idem, serial>>
    PROVE  LedgerAgrees' /\ VersionChain' /\ OneEffectPerKey' /\ OneActiveRework'
           /\ ReviewCountExact'
BY ZenonT(60) DEF IInv, LedgerAgrees, VersionChain, OneEffectPerKey, OneActiveRework,
       ReviewCountExact

\* Ending a transaction without a commit preserves the invariant, provided a
\* successful answer names a committed row.
LEMMA RollbackIInv ==
    ASSUME IInv, NEW c \in Conns, pc[c] # "idle",
           NEW a \in Reply, a.outcome # "PENDING",
           a.outcome = "OK" => \E e \in effects : /\ e.id = a.id
                                                  /\ e.key = KeyOf(c)
                                                  /\ e.req = ReqOf(c)
                                                  /\ a.after = e.before + 1,
           Rollback(c, a)
    PROVE  IInv'
<1> USE DEF Rollback, Finish
<1>t. TypeOK
  BY DEF IInv
<1>1. TypeOK'
  BY <1>t DEF TypeOK
<1>2. /\ pc'[c] = "idle" /\ reply'[c] = a /\ call' = call
      /\ \A d \in Conns : d # c => /\ pc'[d] = pc[d]
                                   /\ reply'[d] = reply[d]
                                   /\ counted'[d] = counted[d]
      /\ \A k \in Keys : reserved'[k] = reserved[k] \ {c} \/ (k # KeyOf(c) /\ reserved'[k] = reserved[k])
      /\ \A t \in Tasks : locked'[t] = locked[t] \ {c} \/ (t # ReqOf(c).task /\ locked'[t] = locked[t])
  BY <1>t DEF TypeOK
<1>3. LockDiscipline'
  <2>0. LockDiscipline
    BY DEF IInv
  <2>1. (\A d \in Conns : pc[d] = "idle" <=> reply[d].outcome # "PENDING")'
    BY <1>2, <2>0 DEF LockDiscipline
  <2>2. (\A k \in Keys : \A d \in reserved[k] : pc[d] \in InTx /\ KeyOf(d) = k)'
    BY <1>t, <1>2, <2>0 DEF LockDiscipline, KeyOf, TypeOK
  <2>3. (\A d \in Conns : pc[d] \in InTx => reserved[KeyOf(d)] = {d})'
    BY <1>t, <1>2, <2>0, CallFields DEF LockDiscipline, KeyOf, InTx
  <2>4. (\A t \in Tasks : \A d \in locked[t] : pc[d] = "commit" /\ ReqOf(d).task = t)'
    BY <1>t, <1>2, <2>0 DEF LockDiscipline, ReqOf, TypeOK
  <2>5. (\A d \in Conns : pc[d] = "commit" => /\ locked[ReqOf(d).task] = {d}
                                              /\ version[ReqOf(d).task] = ReqOf(d).expected)'
    BY <1>t, <1>2, <2>0, CallFields DEF LockDiscipline, ReqOf
  <2> QED
    BY <2>1, <2>2, <2>3, <2>4, <2>5 DEF LockDiscipline
<1>4. ReadsStillValid'
  <2>0. ReadsStillValid
    BY DEF IInv
  <2> QED
    BY <1>2, <2>0 DEF ReadsStillValid, InTx, KeyOf, ReqOf, VersionMatches
<1>5. SuccessIsCommitted'
  <2>0. SuccessIsCommitted
    BY DEF IInv
  <2> QED
    BY <1>2, <2>0 DEF SuccessIsCommitted, KeyOf, ReqOf
<1> QED
  BY <1>1, <1>3, <1>4, <1>5, CommittedUnchanged DEF IInv

\* A handler without locks takes up a call.
LEMMA ReceiveIInv ==
    ASSUME IInv, NEW c \in Conns, NEW k \in Calls, Receive(c, k)
    PROVE  IInv'
<1> USE DEF Receive
<1>t. TypeOK
  BY DEF IInv
<1>1. TypeOK'
  BY <1>t DEF TypeOK, Reply, Pending, Refusals
<1>2. /\ pc[c] = "idle" /\ pc'[c] = "validate" /\ reply'[c].outcome = "PENDING"
      /\ \A d \in Conns : d # c => /\ pc'[d] = pc[d]
                                   /\ reply'[d] = reply[d]
                                   /\ call'[d] = call[d]
  BY <1>t DEF TypeOK, Pending
<1>3. LockDiscipline'
  <2>0. LockDiscipline
    BY DEF IInv
  <2>1. (\A d \in Conns : pc[d] = "idle" <=> reply[d].outcome # "PENDING")'
    BY <1>2, <2>0 DEF LockDiscipline
  <2>2. (\A k0 \in Keys : \A d \in reserved[k0] : pc[d] \in InTx /\ KeyOf(d) = k0)'
    BY <1>t, <1>2, <2>0 DEF LockDiscipline, KeyOf, TypeOK, InTx
  <2>3. (\A d \in Conns : pc[d] \in InTx => reserved[KeyOf(d)] = {d})'
    BY <1>2, <2>0, SMTT(60) DEF LockDiscipline, KeyOf, InTx
  <2>4. (\A t \in Tasks : \A d \in locked[t] : pc[d] = "commit" /\ ReqOf(d).task = t)'
    BY <1>t, <1>2, <2>0 DEF LockDiscipline, ReqOf, TypeOK
  <2>5. (\A d \in Conns : pc[d] = "commit" => /\ locked[ReqOf(d).task] = {d}
                                              /\ version[ReqOf(d).task] = ReqOf(d).expected)'
    <3> SUFFICES ASSUME NEW d \in Conns, pc'[d] = "commit"
                 PROVE  locked'[ReqOf(d)'.task] = {d}
                        /\ version'[ReqOf(d)'.task] = ReqOf(d)'.expected
      OBVIOUS
    <3>1. d # c /\ pc[d] = "commit" /\ ReqOf(d)' = ReqOf(d)
      BY <1>2 DEF ReqOf
    <3> QED
      BY <2>0, <3>1 DEF LockDiscipline
  <2> QED
    BY <2>1, <2>2, <2>3, <2>4, <2>5 DEF LockDiscipline
<1>4. ReadsStillValid'
  <2>0. ReadsStillValid
    BY DEF IInv
  <2> QED
    BY <1>2, <2>0 DEF ReadsStillValid, InTx, KeyOf, ReqOf, VersionMatches
<1>5. SuccessIsCommitted'
  <2>0. SuccessIsCommitted
    BY DEF IInv
  <2> QED
    BY <1>2, <2>0 DEF SuccessIsCommitted, KeyOf, ReqOf
<1> QED
  BY <1>1, <1>3, <1>4, <1>5, CommittedUnchanged DEF IInv

\* Advancing to the next statement keeps the invariant when the statement just
\* run established what ReadsStillValid says of the next program point.
LEMMA AdvanceIInv ==
    ASSUME IInv, NEW c \in Conns,
           NEW label \in {"reserve", "issue", "related", "update"},
           pc[c] \in {"validate", "task", "issue", "related"},
           label = "reserve" <=> pc[c] = "validate",
           GoTo(c, label), UNCHANGED reserved,
           \A d \in Conns : d # c => counted'[d] = counted[d],
           counted' \in [Conns -> SUBSET Nat],
           ReqOf(c).actor \in Reviewers,
           label # "reserve" => /\ TaskStatus[ReqOf(c).task] = "COMPLETED"
                                /\ version[ReqOf(c).task] >= ReqOf(c).expected,
           label \in {"related", "update"} => IssueOk(ReqOf(c)),
           (label = "update" /\ VersionMatches(c)) =>
              /\ counted'[c] = CountedRows(effects, ReqOf(c))
              /\ ReqOf(c).op = "CREATE_REWORK" =>
                    ~ActiveRework(effects, ReqOf(c).task, ReqOf(c).issue)
    PROVE  IInv'
<1> USE DEF GoTo
<1>t. TypeOK
  BY DEF IInv
<1>1. TypeOK'
  BY <1>t DEF TypeOK
<1>2. /\ pc'[c] = label /\ \A d \in Conns : d # c => pc'[d] = pc[d]
  BY <1>t DEF TypeOK
<1>3. LockDiscipline'
  <2>0. LockDiscipline
    BY DEF IInv
  <2> QED
    BY <1>t, <1>2, <2>0 DEF LockDiscipline, InTx, KeyOf, ReqOf, TypeOK
<1>4. ReadsStillValid'
  <2>0. ReadsStillValid
    BY DEF IInv
  <2> SUFFICES ASSUME NEW d \in Conns
               PROVE  (/\ pc[d] \in InTx \cup {"reserve"} => ReqOf(d).actor \in Reviewers
                       /\ pc[d] \in InTx => \A r \in idem : r.key # KeyOf(d)
                       /\ pc[d] \in InTx \ {"task"} =>
                            /\ TaskStatus[ReqOf(d).task] = "COMPLETED"
                            /\ version[ReqOf(d).task] >= ReqOf(d).expected
                       /\ pc[d] \in InTx \ {"task", "issue"} => IssueOk(ReqOf(d))
                       /\ (pc[d] \in {"update", "commit"} /\ VersionMatches(d)) =>
                            /\ counted[d] = CountedRows(effects, ReqOf(d))
                            /\ ReqOf(d).op = "CREATE_REWORK" =>
                                ~ActiveRework(effects, ReqOf(d).task, ReqOf(d).issue))'
    BY DEF ReadsStillValid
  <2>1. CASE d = c
    BY <1>2, <2>0, <2>1 DEF ReadsStillValid, InTx, KeyOf, ReqOf, VersionMatches
  <2>2. CASE d # c
    BY <1>2, <2>0, <2>2 DEF ReadsStillValid, InTx, KeyOf, ReqOf, VersionMatches
  <2> QED
    BY <2>1, <2>2
<1>5. SuccessIsCommitted'
  BY DEF IInv, SuccessIsCommitted, KeyOf, ReqOf
<1> QED
  BY <1>1, <1>3, <1>4, <1>5, CommittedUnchanged DEF IInv

\* The refusals are answers that claim nothing.
LEMMA RefusedIsReply ==
    ASSUME NEW o \in Refusals
    PROVE  Refused(o) \in Reply /\ Refused(o).outcome = o
           /\ o # "PENDING" /\ o # "OK"
BY DEF Refused, Reply, Refusals

\* No statement before the commit disturbs the invariant.
LEMMA StatementIInv ==
    ASSUME IInv, NEW c \in Conns,
           \/ ValidateActor(c) \/ ReserveOrLoad(c) \/ LoadTask(c) \/ LoadIssue(c)
           \/ LoadRelated(c) \/ IncrementVersion(c) \/ Fail(c)
    PROVE  IInv'
<1>t. TypeOK /\ LockDiscipline /\ ReadsStillValid
  BY DEF IInv
<1>c. /\ KeyOf(c) \in Keys /\ ReqOf(c) \in Request /\ ReqOf(c).task \in Tasks
      /\ ReqOf(c).expected \in Nat /\ ReqOf(c).issue \in Issues
  BY <1>t, CallFields
<1>r. ASSUME NEW o \in Refusals, pc[c] # "idle", Rollback(c, Refused(o))
      PROVE  IInv'
  BY <1>r, RefusedIsReply, RollbackIInv
<1>v. /\ pc[c] = "validate" => pc[c] # "idle"
      /\ version[ReqOf(c).task] \in Nat
  BY <1>t, <1>c DEF TypeOK
<1>1. CASE ValidateActor(c)
  <2>1. CASE ReqOf(c).actor \in Reviewers
    BY <1>1, <1>t, <2>1, AdvanceIInv DEF ValidateActor, TypeOK
  <2>2. CASE ReqOf(c).actor \notin Reviewers
    BY <1>1, <1>r, <2>2 DEF ValidateActor, Refusals
  <2> QED
    BY <2>1, <2>2
<1>3. CASE LoadTask(c)
  <2>1. CASE TaskOk(ReqOf(c), version[ReqOf(c).task])
    <3>1. /\ TaskStatus[ReqOf(c).task] = "COMPLETED"
          /\ version[ReqOf(c).task] >= ReqOf(c).expected
      BY <2>1, <1>v DEF TaskOk
    <3>2. /\ GoTo(c, "issue") /\ UNCHANGED <<reserved, counted>> /\ pc[c] = "task"
          /\ ReqOf(c).actor \in Reviewers
      BY <1>3, <1>t, <2>1 DEF LoadTask, ReadsStillValid, InTx
    <3> QED
      BY <1>t, <3>1, <3>2, AdvanceIInv DEF TypeOK
  <2>2. CASE ~TaskOk(ReqOf(c), version[ReqOf(c).task])
    BY <1>3, <1>r, <2>2 DEF LoadTask, TaskRefusal, Refusals
  <2> QED
    BY <2>1, <2>2
<1>4. CASE LoadIssue(c)
  <2>1. CASE IssueOk(ReqOf(c))
    <3>1. /\ GoTo(c, "related") /\ UNCHANGED <<reserved, counted>> /\ pc[c] = "issue"
          /\ ReqOf(c).actor \in Reviewers
          /\ TaskStatus[ReqOf(c).task] = "COMPLETED"
          /\ version[ReqOf(c).task] >= ReqOf(c).expected
      BY <1>4, <1>t, <2>1 DEF LoadIssue, ReadsStillValid, InTx
    <3> QED
      BY <1>t, <2>1, <3>1, AdvanceIInv DEF TypeOK
  <2>2. CASE ~IssueOk(ReqOf(c))
    BY <1>4, <1>r, <2>2 DEF LoadIssue, IssueRefusal, Refusals
  <2> QED
    BY <2>1, <2>2
<1>5. CASE LoadRelated(c)
  <2> DEFINE taken == ReqOf(c).op = "CREATE_REWORK"
                      /\ ActiveRework(effects, ReqOf(c).task, ReqOf(c).issue)
  <2>1. CASE ~taken
    <3>1. /\ GoTo(c, "update") /\ UNCHANGED reserved /\ pc[c] = "related"
          /\ counted' = [counted EXCEPT ![c] = CountedRows(effects, ReqOf(c))]
          /\ ReqOf(c).actor \in Reviewers
          /\ TaskStatus[ReqOf(c).task] = "COMPLETED"
          /\ version[ReqOf(c).task] >= ReqOf(c).expected
          /\ IssueOk(ReqOf(c))
      BY <1>5, <1>t, <2>1 DEF LoadRelated, ReadsStillValid, InTx
    <3>2. CountedRows(effects, ReqOf(c)) \in SUBSET Nat
      BY <1>t DEF CountedRows, ReviewRows, TypeOK, Effect
    <3>3. /\ counted' \in [Conns -> SUBSET Nat]
          /\ counted'[c] = CountedRows(effects, ReqOf(c))
          /\ \A d \in Conns : d # c => counted'[d] = counted[d]
      BY <1>t, <3>1, <3>2 DEF TypeOK
    <3> QED
      BY <2>1, <3>1, <3>3, AdvanceIInv
  <2>2. CASE taken
    BY <1>5, <1>r, <2>2 DEF LoadRelated, Refusals
  <2> QED
    BY <2>1, <2>2
<1>7. CASE Fail(c)
  BY <1>7, <1>r DEF Fail, Refusals
<1>2. CASE ReserveOrLoad(c)
  <2>0. pc[c] = "reserve" /\ reserved[KeyOf(c)] = {}
    BY <1>2 DEF ReserveOrLoad, KeyFree
  <2>1. ASSUME NEW r \in idem, r.key = KeyOf(c), ~SameRequest(r, c),
               Rollback(c, Refused("CONFLICT"))
        PROVE  IInv'
    BY <1>r, <2>0, <2>1 DEF Refusals
  <2>2. ASSUME NEW r \in idem, r.key = KeyOf(c), SameRequest(r, c),
               Rollback(c, IF \E e \in effects : e.id = r.id
                           THEN Accepted(r.id, r.after)
                           ELSE Refused("CONFLICT"))
        PROVE  IInv'
    <3>1. PICK e \in effects : /\ e.id = r.id /\ e.key = KeyOf(c)
                               /\ e.req = ReqOf(c) /\ r.after = e.before + 1
      BY <2>2 DEF IInv, LedgerAgrees, SameRequest
    <3>2. Rollback(c, Accepted(r.id, r.after))
      BY <2>2, <3>1
    <3>3. Accepted(r.id, r.after) \in Reply
      BY <1>t, <2>2 DEF Accepted, Reply, TypeOK, IdemRecord
    <3> QED
      BY <2>0, <3>1, <3>2, <3>3, RollbackIInv DEF Accepted
  <2>3. ASSUME \A r \in idem : r.key # KeyOf(c),
               GoTo(c, "task"),
               reserved' = [reserved EXCEPT ![KeyOf(c)] = {c}],
               UNCHANGED counted
        PROVE  IInv'
    <3> USE <2>3 DEF GoTo
    <3>1. TypeOK'
      BY <1>t, <1>c DEF TypeOK
    <3>2. /\ pc'[c] = "task" /\ \A d \in Conns : d # c => pc'[d] = pc[d]
          /\ reserved'[KeyOf(c)] = {c}
          /\ \A k \in Keys : k # KeyOf(c) => reserved'[k] = reserved[k]
      BY <1>t, <1>c DEF TypeOK
    <3>3. LockDiscipline'
      <4>1. (\A d \in Conns : pc[d] = "idle" <=> reply[d].outcome # "PENDING")'
        BY <1>t, <2>0, <3>2 DEF LockDiscipline
      <4>2. (\A k \in Keys : \A d \in reserved[k] : pc[d] \in InTx /\ KeyOf(d) = k)'
        BY <1>t, <2>0, <3>2 DEF LockDiscipline, KeyOf, InTx, TypeOK
      <4>3. (\A d \in Conns : pc[d] \in InTx => reserved[KeyOf(d)] = {d})'
        BY <1>t, <2>0, <3>2, CallFields, SMTT(60) DEF LockDiscipline, KeyOf
      <4>4. (\A t \in Tasks : \A d \in locked[t] : pc[d] = "commit" /\ ReqOf(d).task = t)'
        BY <1>t, <2>0, <3>2 DEF LockDiscipline, ReqOf, TypeOK
      <4>5. (\A d \in Conns : pc[d] = "commit" =>
                /\ locked[ReqOf(d).task] = {d}
                /\ version[ReqOf(d).task] = ReqOf(d).expected)'
        BY <1>t, <3>2 DEF LockDiscipline, ReqOf
      <4> QED
        BY <4>1, <4>2, <4>3, <4>4, <4>5 DEF LockDiscipline
    <3>4. ReadsStillValid'
      BY <1>t, <2>0, <3>2 DEF ReadsStillValid, InTx, KeyOf, ReqOf, VersionMatches
    <3>5. SuccessIsCommitted'
      BY DEF IInv, SuccessIsCommitted, KeyOf, ReqOf
    <3> QED
      BY <3>1, <3>3, <3>4, <3>5, CommittedUnchanged DEF IInv
  <2> QED
    BY <1>2, <2>1, <2>2, <2>3 DEF ReserveOrLoad
<1>6. CASE IncrementVersion(c)
  <2>0. pc[c] = "update" /\ locked[ReqOf(c).task] = {}
    BY <1>6 DEF IncrementVersion
  <2>1. CASE ~VersionMatches(c)
    BY <1>6, <1>r, <2>1 DEF IncrementVersion, Refusals
  <2>2. CASE VersionMatches(c)
    <3>1. /\ pc' = [pc EXCEPT ![c] = "commit"]
          /\ locked' = [locked EXCEPT ![ReqOf(c).task] = {c}]
          /\ UNCHANGED <<version, effects, idem, serial, call, reply, reserved, counted>>
      BY <1>6, <2>2 DEF IncrementVersion
    <3>2. TypeOK'
      BY <1>t, <1>c, <3>1 DEF TypeOK
    <3>3. /\ pc'[c] = "commit" /\ \A d \in Conns : d # c => pc'[d] = pc[d]
          /\ locked'[ReqOf(c).task] = {c}
          /\ \A t \in Tasks : t # ReqOf(c).task => locked'[t] = locked[t]
      BY <1>t, <1>c, <3>1 DEF TypeOK
    <3>4. LockDiscipline'
      <4>1. (\A d \in Conns : pc[d] = "idle" <=> reply[d].outcome # "PENDING")'
        BY <1>t, <2>0, <3>1, <3>3 DEF LockDiscipline
      <4>2. (\A k \in Keys : \A d \in reserved[k] : pc[d] \in InTx /\ KeyOf(d) = k)'
        BY <1>t, <3>1, <3>3 DEF LockDiscipline, KeyOf, InTx, TypeOK
      <4>3. (\A d \in Conns : pc[d] \in InTx => reserved[KeyOf(d)] = {d})'
        BY <1>t, <2>0, <3>1, <3>3 DEF LockDiscipline, KeyOf, InTx
      <4>4. (\A t \in Tasks : \A d \in locked[t] : pc[d] = "commit" /\ ReqOf(d).task = t)'
        BY <1>t, <1>c, <3>1, <3>3 DEF LockDiscipline, ReqOf, TypeOK
      <4>5. (\A d \in Conns : pc[d] = "commit" =>
                /\ locked[ReqOf(d).task] = {d}
                /\ version[ReqOf(d).task] = ReqOf(d).expected)'
        <5> SUFFICES ASSUME NEW d \in Conns, pc'[d] = "commit"
                     PROVE  locked'[ReqOf(d)'.task] = {d}
                            /\ version'[ReqOf(d)'.task] = ReqOf(d)'.expected
          OBVIOUS
        <5>0. ReqOf(d)' = ReqOf(d) /\ ReqOf(d).task \in Tasks
          BY <1>t, <3>1, CallFields DEF ReqOf
        <5>1. CASE d = c
          BY <2>2, <3>1, <3>3, <5>0, <5>1 DEF VersionMatches
        <5>2. CASE d # c
          <6>1. locked[ReqOf(d).task] = {d}
                /\ version[ReqOf(d).task] = ReqOf(d).expected
            BY <1>t, <3>3, <5>2 DEF LockDiscipline
          <6> QED
            BY <2>0, <3>1, <3>3, <5>0, <6>1
        <5> QED
          BY <5>1, <5>2
      <4> QED
        BY <4>1, <4>2, <4>3, <4>4, <4>5 DEF LockDiscipline
    <3>5. ReadsStillValid'
      BY <1>t, <2>0, <3>1, <3>3 DEF ReadsStillValid, InTx, KeyOf, ReqOf, VersionMatches
    <3>6. SuccessIsCommitted'
      BY <3>1 DEF IInv, SuccessIsCommitted, KeyOf, ReqOf
    <3> QED
      BY <3>1, <3>2, <3>4, <3>5, <3>6, CommittedUnchanged DEF IInv
  <2> QED
    BY <2>1, <2>2
<1> QED
  BY <1>1, <1>2, <1>3, <1>4, <1>5, <1>6, <1>7

\* What the other transactions read of another task is not changed by a commit.
LEMMA OtherTaskRows ==
    ASSUME NEW rows, NEW e, NEW req, e.req.task # req.task
    PROVE  /\ CountedRows(rows \cup {e}, req) = CountedRows(rows, req)
           /\ ActiveRework(rows \cup {e}, req.task, req.issue)
                <=> ActiveRework(rows, req.task, req.issue)
BY DEF CountedRows, ReviewRows, ActiveRework

\* The commit: the version it takes is the one every check was made against.
LEMMA CommitIInv ==
    ASSUME IInv, NEW c \in Conns, Commit(c)
    PROVE  IInv'
<1> DEFINE req == ReqOf(c)
           t == req.task
           e == [id |-> serial + 1, key |-> KeyOf(c), req |-> req,
                 before |-> req.expected, counted |-> counted[c]]
<1>t. TypeOK /\ LockDiscipline /\ ReadsStillValid /\ LedgerAgrees /\ VersionChain
  BY DEF IInv
<1>c. KeyOf(c) \in Keys /\ req \in Request /\ t \in Tasks /\ req.expected \in Nat
      /\ req.issue \in Issues
  BY <1>t, CallFields
<1>a. PICK answer \in {Accepted(serial + 1, version[t] + 1), Refused("LOST")} :
          Finish(c, answer)
  BY DEF Commit
<1>s. /\ pc[c] = "commit"
      /\ version' = [version EXCEPT ![t] = @ + 1]
      /\ effects' = effects \cup {e}
      /\ idem' = idem \cup {Completed(c)}
      /\ serial' = serial + 1
      /\ call' = call
  BY <1>a DEF Commit, Finish
<1>v. /\ version[t] = req.expected /\ locked[t] = {c} /\ reserved[KeyOf(c)] = {c}
      /\ version'[t] = req.expected + 1
      /\ \A u \in Tasks : u # t => version'[u] = version[u]
  BY <1>t, <1>c, <1>s DEF LockDiscipline, TypeOK, InTx
<1>w. /\ counted[c] = CountedRows(effects, req)
      /\ req.op = "CREATE_REWORK" => ~ActiveRework(effects, t, req.issue)
      /\ IssueOk(req)
      /\ \A r \in idem : r.key # KeyOf(c)
  BY <1>t, <1>s, <1>v DEF ReadsStillValid, VersionMatches, InTx
<1>f. /\ pc'[c] = "idle" /\ reply'[c] = answer
      /\ \A d \in Conns : d # c => /\ pc'[d] = pc[d]
                                   /\ reply'[d] = reply[d]
                                   /\ counted'[d] = counted[d]
      /\ \A d \in Conns : KeyOf(d)' = KeyOf(d) /\ ReqOf(d)' = ReqOf(d)
      /\ reserved'[KeyOf(c)] = {} /\ locked'[t] = {}
      /\ \A k \in Keys : k # KeyOf(c) => reserved'[k] = reserved[k]
      /\ \A u \in Tasks : u # t => locked'[u] = locked[u]
  BY <1>t, <1>c, <1>a, <1>v DEF Finish, TypeOK, KeyOf, ReqOf
<1>d. /\ Completed(c) = [key |-> KeyOf(c), req |-> req, id |-> serial + 1,
                         after |-> req.expected + 1]
      /\ e.id = serial + 1 /\ e.key = KeyOf(c) /\ e.req = req
      /\ e.before = req.expected /\ e.counted = counted[c]
  BY <1>v DEF Completed
<1>b. \A f \in effects : f.req.task = t => f.before < e.before
  BY <1>t, <1>v DEF VersionChain
<1>ty. \A f \in effects : f.req \in Request /\ f.before \in Nat /\ f.req.task \in Tasks
  BY <1>t, RequestFields DEF TypeOK, Effect
<1>1. TypeOK'
  <2>1. e \in Effect /\ Completed(c) \in IdemRecord
    BY <1>t, <1>c, <1>d DEF TypeOK, Effect, IdemRecord
  <2>2. answer \in Reply
    BY <1>t, <1>c, <1>v, <1>a DEF TypeOK, Reply, Accepted, Refused, Refusals
  <2> HIDE DEF e
  <2>3. version' \in [Tasks -> Nat] /\ effects' \subseteq Effect /\ idem' \subseteq IdemRecord
        /\ serial' \in Nat /\ call' \in [Conns -> Calls]
    BY <1>t, <1>s, <1>c, <2>1 DEF TypeOK
  <2>4. reply' \in [Conns -> Reply] /\ reserved' \in [Keys -> SUBSET Conns]
        /\ locked' \in [Tasks -> SUBSET Conns] /\ counted' \in [Conns -> SUBSET Nat]
    BY <1>t, <1>a, <2>2 DEF TypeOK, Finish
  <2>5. pc' \in [Conns -> {"idle", "validate", "reserve", "task", "issue",
                           "related", "update", "commit"}]
    BY <1>t, <1>a DEF TypeOK, Finish
  <2> QED
    BY <2>3, <2>4, <2>5 DEF TypeOK
<1>2. LockDiscipline'
  <2>1. (\A d \in Conns : pc[d] = "idle" <=> reply[d].outcome # "PENDING")'
    BY <1>t, <1>a, <1>f DEF LockDiscipline, Accepted, Refused
  <2>2. (\A k \in Keys : \A d \in reserved[k] : pc[d] \in InTx /\ KeyOf(d) = k)'
    BY <1>t, <1>s, <1>f DEF LockDiscipline, TypeOK
  <2>3. (\A d \in Conns : pc[d] \in InTx => reserved[KeyOf(d)] = {d})'
    BY <1>t, <1>v, <1>f, CallFields DEF LockDiscipline, InTx
  <2>4. (\A u \in Tasks : \A d \in locked[u] : pc[d] = "commit" /\ ReqOf(d).task = u)'
    BY <1>t, <1>s, <1>f DEF LockDiscipline, TypeOK
  <2>5. ASSUME NEW d \in Conns, pc'[d] = "commit"
        PROVE  locked'[ReqOf(d)'.task] = {d}
               /\ version'[ReqOf(d)'.task] = ReqOf(d)'.expected
    <3>1. d # c /\ locked[ReqOf(d).task] = {d} /\ ReqOf(d).task \in Tasks
          /\ version[ReqOf(d).task] = ReqOf(d).expected
      BY <1>t, <1>f, <2>5, CallFields DEF LockDiscipline
    <3>2. ReqOf(d).task # t
      BY <1>v, <3>1
    <3> QED
      BY <1>v, <1>f, <3>1, <3>2
  <2> QED
    BY <2>1, <2>2, <2>3, <2>4, <2>5 DEF LockDiscipline
<1>3. ReadsStillValid'
  <2> SUFFICES ASSUME NEW d \in Conns
               PROVE  (/\ pc[d] \in InTx \cup {"reserve"} => ReqOf(d).actor \in Reviewers
                       /\ pc[d] \in InTx => \A r \in idem : r.key # KeyOf(d)
                       /\ pc[d] \in InTx \ {"task"} =>
                            /\ TaskStatus[ReqOf(d).task] = "COMPLETED"
                            /\ version[ReqOf(d).task] >= ReqOf(d).expected
                       /\ pc[d] \in InTx \ {"task", "issue"} => IssueOk(ReqOf(d))
                       /\ (pc[d] \in {"update", "commit"} /\ VersionMatches(d)) =>
                            /\ counted[d] = CountedRows(effects, ReqOf(d))
                            /\ ReqOf(d).op = "CREATE_REWORK" =>
                                ~ActiveRework(effects, ReqOf(d).task, ReqOf(d).issue))'
    BY DEF ReadsStillValid
  <2>1. CASE d = c
    BY <1>f, <2>1 DEF InTx
  <2>2. CASE d # c
    <3>0. /\ pc'[d] = pc[d] /\ ReqOf(d)' = ReqOf(d) /\ KeyOf(d)' = KeyOf(d)
          /\ counted'[d] = counted[d] /\ ReqOf(d).task \in Tasks
          /\ ReqOf(d).expected \in Nat
      BY <1>t, <1>f, <2>2, CallFields
    <3>1. pc[d] \in InTx \cup {"reserve"} => ReqOf(d).actor \in Reviewers
      BY <1>t DEF ReadsStillValid
    <3>2. pc[d] \in InTx => \A r \in idem' : r.key # KeyOf(d)
      <4>1. pc[d] \in InTx => KeyOf(d) # KeyOf(c)
        BY <1>t, <1>v, <2>2 DEF LockDiscipline
      <4> QED
        BY <1>t, <1>s, <1>d, <4>1 DEF ReadsStillValid
    <3>3. pc[d] \in InTx \ {"task"} => /\ TaskStatus[ReqOf(d).task] = "COMPLETED"
                                       /\ version'[ReqOf(d).task] >= ReqOf(d).expected
      BY <1>t, <1>c, <1>v, <3>0 DEF ReadsStillValid, TypeOK
    <3>4. pc[d] \in InTx \ {"task", "issue"} => IssueOk(ReqOf(d))
      BY <1>t DEF ReadsStillValid
    <3>5. ASSUME pc[d] \in {"update", "commit"}, version'[ReqOf(d).task] = ReqOf(d).expected
          PROVE  /\ counted[d] = CountedRows(effects', ReqOf(d))
                 /\ ReqOf(d).op = "CREATE_REWORK" =>
                       ~ActiveRework(effects', ReqOf(d).task, ReqOf(d).issue)
      <4>1. ReqOf(d).task # t
        <5>1. version[ReqOf(d).task] >= ReqOf(d).expected
          BY <1>t, <3>5 DEF ReadsStillValid, InTx
        <5> QED
          BY <1>c, <1>v, <3>0, <3>5, <5>1
      <4>2. VersionMatches(d)
        BY <1>v, <3>0, <3>5, <4>1 DEF VersionMatches
      <4>3. /\ counted[d] = CountedRows(effects, ReqOf(d))
            /\ ReqOf(d).op = "CREATE_REWORK" =>
                  ~ActiveRework(effects, ReqOf(d).task, ReqOf(d).issue)
        BY <1>t, <3>5, <4>2 DEF ReadsStillValid
      <4>4. e.req.task # ReqOf(d).task
        BY <1>d, <4>1
      <4> HIDE DEF e
      <4> QED
        BY <1>s, <4>3, <4>4, OtherTaskRows
    <3> QED
      BY <3>0, <3>1, <3>2, <3>3, <3>4, <3>5 DEF VersionMatches
  <2> QED
    BY <2>1, <2>2
<1> HIDE DEF e
<1>4. LedgerAgrees'
  <2>1. IssueTask[req.issue] = t
    BY <1>w DEF IssueOk
  <2>2. (\A f \in effects : /\ IssueTask[f.req.issue] = f.req.task
                            /\ f.before = f.req.expected
                            /\ \E r \in idem : r.key = f.key)'
    BY <1>t, <1>s, <1>d, <2>1 DEF LedgerAgrees
  <2>3. (\A r \in idem : \E f \in effects : /\ f.id = r.id
                                            /\ f.key = r.key
                                            /\ f.req = r.req
                                            /\ r.after = f.before + 1)'
    BY <1>t, <1>s, <1>d DEF LedgerAgrees
  <2> QED
    BY <2>2, <2>3 DEF LedgerAgrees
<1>5. VersionChain'
  <2>1. (\A f, g \in effects : f.req.task = g.req.task /\ f.before = g.before => f = g)'
    <3> SUFFICES ASSUME NEW f \in effects', NEW g \in effects',
                        f.req.task = g.req.task, f.before = g.before
                 PROVE  f = g
      OBVIOUS
    <3>1. CASE f \in effects /\ g \in effects
      BY <1>t, <3>1 DEF VersionChain
    <3>2. CASE f = e \/ g = e
      BY <1>s, <1>b, <1>d, <1>c, <1>ty, <3>2
    <3> QED
      BY <1>s, <3>1, <3>2
  <2>2. (\A f \in effects : f.before < version[f.req.task])'
    <3> SUFFICES ASSUME NEW f \in effects' PROVE f.before < version'[f.req.task]
      OBVIOUS
    <3>1. CASE f = e
      BY <1>c, <1>d, <1>v, <3>1
    <3>2. CASE f \in effects
      <4>1. f.before < version[f.req.task] /\ f.before \in Nat /\ f.req.task \in Tasks
        BY <1>t, <1>ty, <3>2 DEF VersionChain
      <4>2. version[f.req.task] \in Nat
        BY <1>t, <4>1 DEF TypeOK
      <4> QED
        BY <1>v, <4>1, <4>2
    <3> QED
      BY <1>s, <3>1, <3>2
  <2>3. ASSUME NEW u \in Tasks, NEW v \in 0 .. version'[u] - 1
        PROVE  \E f \in effects' : f.req.task = u /\ f.before = v
    <3>1. CASE u = t /\ v = req.expected
      BY <1>s, <1>d, <3>1
    <3>2. CASE ~(u = t /\ v = req.expected)
      <4>1. v \in 0 .. version[u] - 1
        BY <1>t, <1>c, <1>v, <2>3, <3>2 DEF TypeOK
      <4> QED
        BY <1>t, <1>s, <4>1 DEF VersionChain
    <3> QED
      BY <3>1, <3>2
  <2> QED
    BY <2>1, <2>2, <2>3 DEF VersionChain
<1>6. OneEffectPerKey'
  <2>1. \A f \in effects : f.key # e.key
    BY <1>t, <1>w, <1>d DEF LedgerAgrees
  <2> QED
    BY <1>s, <2>1 DEF IInv, OneEffectPerKey
<1>7. OneActiveRework'
  <2>1. IssueTask[req.issue] = t
    BY <1>w DEF IssueOk
  <2>2. req.op = "CREATE_REWORK" =>
          /\ req.issue \notin SeedRework
          /\ \A f \in effects : f.req.op = "CREATE_REWORK" => f.req.issue # req.issue
    BY <1>t, <1>w, <2>1 DEF ActiveRework, LedgerAgrees
  <2> QED
    BY <1>s, <1>d, <2>2 DEF IInv, OneActiveRework
<1>8. ReviewCountExact'
  <2> SUFFICES ASSUME NEW f \in effects', f.req.op = "SUBMIT_REVIEW"
               PROVE  f.counted = ReviewRows({g \in effects' : g.before < f.before}, f.req.task)
    BY DEF ReviewCountExact
  <2>1. CASE f = e
    <3>1. f.counted = ReviewRows(effects, t)
      BY <1>d, <1>w, <2>1 DEF CountedRows
    <3>2. \A g \in effects' : g.req.task = t => (g \in effects <=> g.before < e.before)
      BY <1>s, <1>b, <1>d, <1>c, <1>ty
    <3> QED
      BY <1>s, <1>d, <2>1, <3>1, <3>2 DEF ReviewRows
  <2>2. CASE f \in effects
    <3>1. f.counted = ReviewRows({g \in effects : g.before < f.before}, f.req.task)
      BY <2>2 DEF IInv, ReviewCountExact
    <3>2. e.req.task = f.req.task => ~(e.before < f.before)
      BY <1>b, <1>c, <1>d, <1>ty, <2>2
    <3> QED
      BY <1>s, <3>1, <3>2 DEF ReviewRows
  <2> QED
    BY <1>s, <2>1, <2>2
<1>9. SuccessIsCommitted'
  <2> SUFFICES ASSUME NEW d \in Conns, reply'[d].outcome = "OK"
               PROVE  \E f \in effects' : /\ f.id = reply'[d].id
                                          /\ f.key = KeyOf(d)
                                          /\ f.req = ReqOf(d)
                                          /\ reply'[d].after = f.before + 1
    BY <1>f DEF SuccessIsCommitted
  <2>1. CASE d = c
    <3>1. reply'[d] = Accepted(serial + 1, req.expected + 1)
      BY <1>a, <1>f, <1>v, <2>1 DEF Refused
    <3> QED
      BY <1>s, <1>d, <2>1, <3>1 DEF Accepted
  <2>2. CASE d # c
    BY <1>s, <1>f, <2>2 DEF IInv, SuccessIsCommitted
  <2> QED
    BY <2>1, <2>2
<1> QED
  BY <1>1, <1>2, <1>3, <1>4, <1>5, <1>6, <1>7, <1>8, <1>9 DEF IInv

\* Every step preserves the inductive invariant.
LEMMA NextIInv == IInv /\ [Next]_vars => IInv'
<1> SUFFICES ASSUME IInv, [Next]_vars PROVE IInv'
  OBVIOUS
<1>1. CASE UNCHANGED vars
  <2> USE <1>1 DEF vars
  <2>1. TypeOK'
    BY DEF IInv, TypeOK
  <2>2. LockDiscipline'
    BY DEF IInv, LockDiscipline, KeyOf, ReqOf
  <2>3. ReadsStillValid'
    BY DEF IInv, ReadsStillValid, KeyOf, ReqOf, VersionMatches
  <2>4. SuccessIsCommitted'
    BY DEF IInv, SuccessIsCommitted, KeyOf, ReqOf
  <2> QED
    BY <2>1, <2>2, <2>3, <2>4, CommittedUnchanged DEF IInv
<1>2. ASSUME NEW c \in Conns, NEW k \in Calls, Receive(c, k) PROVE IInv'
  BY <1>2, ReceiveIInv
<1>3. ASSUME NEW c \in Conns, Step(c) \/ Fail(c) PROVE IInv'
  BY <1>3, StatementIInv, CommitIInv DEF Step
<1> QED
  BY <1>1, <1>2, <1>3 DEF Next

\* The inductive invariant holds in every reachable state, for every set of
\* handlers, keys, tasks and calls.
THEOREM Invariance == Spec => []IInv
BY InitIInv, NextIInv, PTL DEF Spec

\* Every variable keeps its type: versions, rows, records, replies and locks.
THEOREM TypeCorrect == Spec => []TypeOK
<1>1. IInv => TypeOK
  BY DEF IInv
<1> QED
  BY <1>1, Invariance, PTL

\* incrementVersionIfMatches lets at most one write succeed against a version,
\* and leaves no version without the write that made it.
THEOREM Versions == Spec => []VersionChain
<1>1. IInv => VersionChain
  BY DEF IInv
<1> QED
  BY <1>1, Invariance, PTL

\* An Idempotency-Key never takes effect twice.
THEOREM Idempotency == Spec => []OneEffectPerKey
<1>1. IInv => OneEffectPerKey
  BY DEF IInv
<1> QED
  BY <1>1, Invariance, PTL

\* The read-then-write check of createRework never lets a second active rework
\* of an issue through.
THEOREM SingleRework == Spec => []OneActiveRework
<1>1. IInv => OneActiveRework
  BY DEF IInv
<1> QED
  BY <1>1, Invariance, PTL

\* The reviewCount that submitReview logs is exact.
THEOREM ReviewCount == Spec => []ReviewCountExact
<1>1. IInv => ReviewCountExact
  BY DEF IInv
<1> QED
  BY <1>1, Invariance, PTL

\* A success response, first or replayed, is the committed result of this call.
THEOREM HonestSuccess == Spec => []SuccessIsCommitted
<1>1. IInv => SuccessIsCommitted
  BY DEF IInv
<1> QED
  BY <1>1, Invariance, PTL

\* An answered transaction that commits nothing is a refusal, a replay or a
\* loss of the store, whichever the answer says.
LEMMA StatementRefines ==
    ASSUME IInv, NEW c \in Conns,
           \/ ValidateActor(c) \/ ReserveOrLoad(c) \/ LoadTask(c) \/ LoadIssue(c)
           \/ LoadRelated(c) \/ IncrementVersion(c) \/ Fail(c)
    PROVE  [Store!Next]_storeVars
<1>t. TypeOK /\ LockDiscipline /\ ReadsStillValid
  BY DEF IInv
<1>c. /\ KeyOf(c) \in Keys /\ ReqOf(c) \in Request /\ ReqOf(c).task \in Tasks
  BY <1>t, CallFields
<1>p. pc[c] # "idle" => reply[c].outcome = "PENDING"
  BY <1>t DEF LockDiscipline
<1>g. ASSUME NEW label, GoTo(c, label) PROVE [Store!Next]_storeVars
  BY <1>g DEF GoTo, storeVars
<1>f. ASSUME Store!Refuse(c) \/ Store!Replay(c) \/ Store!Lose(c)
      PROVE  [Store!Next]_storeVars
  BY <1>f DEF Store!Next
<1>u. ASSUME NEW o \in {"CONFLICT", "NOT_FOUND"}, pc[c] \in InTx,
             ~Acceptable(ReqOf(c), version[ReqOf(c).task], effects),
             Rollback(c, Refused(o))
      PROVE  [Store!Next]_storeVars
  <2>1. Store!Recorded(KeyOf(c)) = {}
    BY <1>t, <1>u DEF ReadsStillValid, Store!Recorded
  <2>2. reply[c].outcome = "PENDING"
    BY <1>p, <1>u DEF InTx
  <2>3. Store!Refuse(c)
    BY <1>u, <2>1, <2>2 DEF Rollback, Finish, Store!Refuse, Store!Acceptable, Acceptable,
       Refused, Store!Refused, KeyOf, ReqOf, TaskOk, IssueOk, ActiveRework, ReviewStateOk,
       Store!TaskOk, Store!IssueOk, Store!ActiveRework, Store!ReviewStateOk
  <2> QED
    BY <1>f, <2>3
<1>1. CASE ValidateActor(c)
  <2>1. CASE ReqOf(c).actor \notin Reviewers
    <3>1. Store!Refuse(c)
      BY <1>1, <1>p, <2>1 DEF ValidateActor, Rollback, Finish, Store!Refuse, Refused,
         Store!Refused, ReqOf
    <3> QED
      BY <1>f, <3>1
  <2> QED
    BY <1>1, <1>g, <2>1 DEF ValidateActor
<1>2. CASE ReserveOrLoad(c)
  <2>0. pc[c] = "reserve" /\ reply[c].outcome = "PENDING" /\ ReqOf(c).actor \in Reviewers
    BY <1>2, <1>t, <1>p DEF ReserveOrLoad, ReadsStillValid
  <2>1. ASSUME NEW r \in idem, r.key = KeyOf(c), r.req # ReqOf(c),
               Rollback(c, Refused("CONFLICT"))
        PROVE  [Store!Next]_storeVars
    <3>1. Store!Refuse(c)
      BY <2>0, <2>1 DEF Rollback, Finish, Store!Refuse, Store!Recorded, Refused,
         Store!Refused, ReqOf, KeyOf
    <3> QED
      BY <1>f, <3>1
  <2>2. ASSUME NEW r \in idem, r.key = KeyOf(c), r.req = ReqOf(c),
               Rollback(c, IF \E e \in effects : e.id = r.id
                           THEN Accepted(r.id, r.after)
                           ELSE Refused("CONFLICT"))
        PROVE  [Store!Next]_storeVars
    <3>1. PICK e \in effects : e.id = r.id
      BY <2>2 DEF IInv, LedgerAgrees
    <3>2. Store!Replay(c)
      BY <2>0, <2>2, <3>1 DEF Rollback, Finish, Store!Replay, Store!Recorded, Accepted,
         Store!Accepted, ReqOf, KeyOf
    <3> QED
      BY <1>f, <3>2
  <2> QED
    BY <1>2, <1>g, <2>1, <2>2 DEF ReserveOrLoad, SameRequest
<1>3. CASE LoadTask(c)
  <2>1. CASE ~TaskOk(ReqOf(c), version[ReqOf(c).task])
    BY <1>3, <1>u, <2>1 DEF LoadTask, TaskRefusal, Acceptable, InTx
  <2> QED
    BY <1>3, <1>g, <2>1 DEF LoadTask
<1>4. CASE LoadIssue(c)
  <2>1. CASE ~IssueOk(ReqOf(c))
    BY <1>4, <1>u, <2>1 DEF LoadIssue, IssueRefusal, Acceptable, InTx
  <2> QED
    BY <1>4, <1>g, <2>1 DEF LoadIssue
<1>5. CASE LoadRelated(c)
  <2>1. CASE ReqOf(c).op = "CREATE_REWORK"
             /\ ActiveRework(effects, ReqOf(c).task, ReqOf(c).issue)
    BY <1>5, <1>u, <2>1 DEF LoadRelated, Acceptable, InTx
  <2> QED
    BY <1>5, <1>g, <2>1 DEF LoadRelated
<1>6. CASE IncrementVersion(c)
  <2>1. CASE ~VersionMatches(c)
    BY <1>6, <1>u, <2>1 DEF IncrementVersion, VersionMatches, Acceptable, TaskOk, InTx
  <2>2. CASE VersionMatches(c)
    BY <1>6, <2>2 DEF IncrementVersion, storeVars
  <2> QED
    BY <2>1, <2>2
<1>7. CASE Fail(c)
  <2>1. Store!Lose(c)
    BY <1>7, <1>p DEF Fail, Rollback, Finish, Store!Lose, Refused, Store!Refused
  <2> QED
    BY <1>f, <2>1
<1> QED
  BY <1>1, <1>2, <1>3, <1>4, <1>5, <1>6, <1>7

\* A commit carries the call out in the state it commits to: everything it
\* checked earlier is still true there.
LEMMA CommitRefines ==
    ASSUME IInv, NEW c \in Conns, Commit(c)
    PROVE  Store!Carry(c)
<1>t. TypeOK /\ LockDiscipline /\ ReadsStillValid
  BY DEF IInv
<1>p. pc[c] = "commit" /\ reply[c].outcome = "PENDING" /\ ReqOf(c).actor \in Reviewers
  BY <1>t DEF Commit, LockDiscipline, ReadsStillValid, InTx
<1>v. version[ReqOf(c).task] = ReqOf(c).expected /\ VersionMatches(c)
  BY <1>t, <1>p DEF LockDiscipline, VersionMatches
<1>a. Store!Acceptable(ReqOf(c), version[ReqOf(c).task], effects)
  <2>1. Acceptable(ReqOf(c), version[ReqOf(c).task], effects)
    BY <1>t, <1>p, <1>v DEF ReadsStillValid, Acceptable, TaskOk, InTx
  <2> QED
    BY <2>1 DEF Store!Acceptable, Acceptable, TaskOk, IssueOk, ActiveRework, ReviewStateOk,
       Store!TaskOk, Store!IssueOk, Store!ActiveRework, Store!ReviewStateOk
<1>r. Store!Recorded(KeyOf(c)) = {}
  BY <1>t, <1>p DEF ReadsStillValid, Store!Recorded, InTx
<1>w. counted[c] = Store!CountedRows(effects, ReqOf(c))
  BY <1>t, <1>p, <1>v DEF ReadsStillValid, CountedRows, ReviewRows, Store!CountedRows,
     Store!ReviewRows
<1>x. version' = [version EXCEPT ![ReqOf(c).task] = ReqOf(c).expected + 1]
  BY <1>v DEF Commit
<1>y. \E answer \in {Store!Accepted(serial + 1, ReqOf(c).expected + 1), Store!Refused("LOST")} :
        reply' = [reply EXCEPT ![c] = answer] /\ call' = call
  BY <1>v DEF Commit, Finish, Accepted, Refused, Store!Accepted, Store!Refused
<1>z. /\ effects' = effects \cup
           {[id |-> serial + 1, key |-> KeyOf(c), req |-> ReqOf(c),
             before |-> ReqOf(c).expected, counted |-> counted[c]]}
      /\ idem' = idem \cup {[key |-> KeyOf(c), req |-> ReqOf(c), id |-> serial + 1,
                             after |-> ReqOf(c).expected + 1]}
      /\ serial' = serial + 1
  BY <1>v DEF Commit, Completed
<1> QED
  BY <1>p, <1>a, <1>r, <1>w, <1>x, <1>y, <1>z DEF Store!Carry, KeyOf, ReqOf

\* Every step of the transactions is a step of the store, or invisible to it.
LEMMA NextRefines == IInv /\ [Next]_vars => [Store!Next]_storeVars
<1> SUFFICES ASSUME IInv, [Next]_vars PROVE [Store!Next]_storeVars
  OBVIOUS
<1>1. CASE UNCHANGED vars
  BY <1>1 DEF vars, storeVars
<1>2. ASSUME NEW c \in Conns, NEW k \in Calls, Receive(c, k)
      PROVE  Store!Next
  <2>1. Store!Invoke(c, k)
    BY <1>2 DEF Receive, Store!Invoke, Pending, Store!Pending, IInv, LockDiscipline
  <2> QED
    BY <2>1 DEF Store!Next
<1>3. ASSUME NEW c \in Conns, Commit(c) PROVE Store!Next
  BY <1>3, CommitRefines DEF Store!Next
<1> QED
  BY <1>1, <1>2, <1>3, StatementRefines DEF Next, Step

\* The statement-by-statement transactions of BusinessWriteService implement the
\* atomic store, whatever the interleaving and the failures.
THEOREM Refinement == Spec => ImplementsStore
<1>1. Init => Store!Init
  BY DEF Init, Store!Init, Refused, Store!Refused
<1>2. IInv /\ [Next]_vars => [Store!Next]_(Store!storeVars)
  BY NextRefines DEF storeVars, Store!storeVars
<1> QED
  BY <1>1, <1>2, Invariance, PTL DEF Spec, Store!Spec, ImplementsStore
=============================================================================
