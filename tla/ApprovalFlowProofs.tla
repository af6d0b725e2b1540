------------------------ MODULE ApprovalFlowProofs ------------------------
(* The properties of ApprovalFlow for any number of approvals, handlers,     *)
(* clients and drafts, and for every combination of faults.                  *)
EXTENDS ApprovalFlow, TLAPS

Labels == PastLock \cup {"idle", "expire_waiting", "confirm", "expire_confirmed",
                         "read_task", "read_issues", "stale", "expire_checked", "lock"}

\* A successful answer and a committed row have their types.
LEMMA StoreFields ==
    ASSUME StoreTypeOK
    PROVE  /\ \A c \in Conns : reply[c].after \in Nat
           /\ \A e \in effects : e.before \in Nat
           /\ \A c \in Conns : /\ call[c].key \in Keys /\ call[c].req \in Request
                               /\ call[c].req.expected \in Nat
<1>1. \A c \in Conns : reply[c].after \in Nat
  BY DEF StoreTypeOK, Reply
<1>2. \A e \in effects : e.before \in Nat
  BY DEF StoreTypeOK, Effect
<1>3. \A c \in Conns : call[c].key \in Keys /\ call[c].req \in Request
  BY DEF StoreTypeOK, Call
<1>4. \A q \in Request : q.expected \in Nat
  BY DEF Request
<1> QED
  BY <1>1, <1>2, <1>3, <1>4

\* A handler that moves on, or stops, without changing a record.
LEMMA GoKeeps ==
    ASSUME FlowIInv, NEW h \in Handlers, NEW label \in Labels, Go(h, label),
           label \in PastLock => at[h] \in PastLock,
           label \notin Confirming => at[h] \notin Confirming,
           label # "idle" => at[h] # "idle",
           label # "finish",
           label \in {"announce", "authorize", "post"} =>
              at[h] \in {"announce", "authorize", "post"},
           label \in {"await", "save"} => result[subject[h]] = 0,
           label = "save" => reply[subject[h]].outcome = "OK",
           label = "saved" => result[subject[h]] # 0
    PROVE  FlowIInv'
<1> USE DEF FlowIInv, Go, Move, storeVars, agentVars
<1>0. /\ at' = [at EXCEPT ![h] = label] /\ at \in [Handlers -> Labels]
      /\ UNCHANGED <<storeVars, agentVars, subject, wanted, seen, fate>>
  BY DEF FlowTypeOK, Labels
<1>1. FlowTypeOK' /\ StoreTypeOK'
  BY <1>0 DEF FlowTypeOK, StoreTypeOK, Labels
<1>2. ExclusiveExecution'
  BY <1>0 DEF ExclusiveExecution
<1>3. ConfirmedDraft'
  BY <1>0 DEF ConfirmedDraft
<1>4. StoreKept' /\ OwnCalls'
  BY <1>0 DEF StoreKept, OwnCalls, Written, InFlight, Unwritten, WriteCall
<1>5. SentOnce'
  BY <1>0 DEF SentOnce, Unsent, InFlight, Unwritten
<1>6. ResultKept'
  BY <1>0 DEF ResultKept, Written
<1>7. WrittenAsConfirmed' /\ RunMirrorsApproval' /\ LoggedIffExecuted'
  BY <1>0 DEF WrittenAsConfirmed, RunMirrorsApproval, LoggedIffExecuted, WriteCall
<1>8. SourceKept' /\ OneLiveRework'
  BY <1>0 DEF SourceKept, OneLiveRework, LiveChildren, Reusable
<1> QED
  BY <1>1, <1>2, <1>3, <1>4, <1>5, <1>6, <1>7, <1>8

\* The write tool has an outcome; the handler is about to record it.
LEMMA ConcludeKeeps ==
    ASSUME FlowIInv, NEW h \in Handlers, NEW outcome \in {"SUCCEEDED", "FAILED", "STALE"},
           Conclude(h, outcome), at[h] \in PastLock,
           outcome = "STALE" => Unsent(subject[h]),
           outcome = "SUCCEEDED" => result[subject[h]] # 0
    PROVE  FlowIInv'
<1> USE DEF FlowIInv, Conclude, Move, storeVars, agentVars
<1>0. /\ at' = [at EXCEPT ![h] = "finish"] /\ fate' = [fate EXCEPT ![h] = outcome]
      /\ at \in [Handlers -> Labels]
      /\ fate \in [Handlers -> {"NONE", "SUCCEEDED", "FAILED", "STALE"}]
      /\ UNCHANGED <<storeVars, agentVars, subject, wanted, seen>>
  BY DEF FlowTypeOK, Labels
<1>1. FlowTypeOK' /\ StoreTypeOK'
  BY <1>0 DEF FlowTypeOK, StoreTypeOK, Labels, PastLock
<1>2. ExclusiveExecution'
  BY <1>0 DEF ExclusiveExecution, PastLock
<1>3. ConfirmedDraft'
  BY <1>0 DEF ConfirmedDraft, Confirming, PastLock
<1>4. StoreKept' /\ OwnCalls'
  BY <1>0 DEF StoreKept, OwnCalls, Written, InFlight, Unwritten, WriteCall
<1>5. SentOnce'
  BY <1>0 DEF SentOnce, Unsent, InFlight, Unwritten
<1>6. ResultKept'
  BY <1>0 DEF ResultKept, Written
<1>7. WrittenAsConfirmed' /\ RunMirrorsApproval' /\ LoggedIffExecuted'
  BY <1>0 DEF WrittenAsConfirmed, RunMirrorsApproval, LoggedIffExecuted, WriteCall
<1>8. SourceKept' /\ OneLiveRework'
  BY <1>0 DEF SourceKept, OneLiveRework, LiveChildren, Reusable
<1> QED
  BY <1>1, <1>2, <1>3, <1>4, <1>5, <1>6, <1>7, <1>8

\* A new approval: nothing was sent under its key, no handler confirms it, and
\* for a rework its source has no other live child.
LEMMA CreateKeeps ==
    ASSUME FlowIInv, NEW a \in Approvals, NEW d \in Drafts, NEW v \in Nat,
           NEW from \in SUBSET Reviews, Create(a, d, v, from), attached,
           status[a] = "ABSENT", UNCHANGED <<storeVars, handlerVars>>,
           a \in Reviews => from = {},
           \A s \in from : /\ status[s] = "SUCCEEDED" /\ v = result[s]
                           /\ LiveChildren(s) = {}
    PROVE  FlowIInv'
<1> USE FlowAssumption DEF FlowIInv, Create, storeVars, handlerVars
<1>1. FlowTypeOK' /\ StoreTypeOK'
  BY DEF FlowTypeOK, StoreTypeOK, Statuses
<1>2. \A h \in Handlers : /\ subject[h] \in Approvals
                          /\ at[h] \notin Confirming => subject[h] # a
                          /\ at[h] \in PastLock => subject[h] # a
  BY DEF FlowTypeOK, ConfirmedDraft, ExclusiveExecution
<1>3. Unsent(a)
  BY DEF SentOnce
<1>4. /\ ExclusiveExecution' /\ ConfirmedDraft'
  BY <1>2 DEF FlowTypeOK, ExclusiveExecution, ConfirmedDraft
<1>5. \A b \in Approvals : b # a => WriteCall(b)' = WriteCall(b)
  BY DEF WriteCall, FlowTypeOK
<1>6. StoreKept' /\ OwnCalls'
  BY <1>3, <1>5 DEF StoreKept, OwnCalls, Written, InFlight, Unwritten, Unsent
<1>7. SentOnce'
  BY <1>3 DEF SentOnce, Unsent, InFlight, Unwritten, FlowTypeOK
<1>8. ResultKept'
  BY DEF ResultKept, Written, FlowTypeOK
<1>9. WrittenAsConfirmed'
  BY <1>3, <1>5 DEF WrittenAsConfirmed, Unsent, Unwritten, FlowTypeOK
<1>10. RunMirrorsApproval' /\ LoggedIffExecuted'
  BY DEF RunMirrorsApproval, LoggedIffExecuted, FlowTypeOK
<1>11. SourceKept'
  BY DEF SourceKept, FlowTypeOK
<1>12. OneLiveRework'
  <2>1. source[a] = {}
    BY DEF SourceKept
  <2>2. \A s \in Reviews : s \notin from => LiveChildren(s)' = LiveChildren(s)
    BY <2>1 DEF LiveChildren, Reusable, FlowTypeOK
  <2>3. \A s \in from : LiveChildren(s)' \subseteq {a}
    BY DEF LiveChildren, Reusable, FlowTypeOK
  <2> QED
    BY <2>2, <2>3 DEF OneLiveRework
<1> QED
  BY <1>1, <1>4, <1>6, <1>7, <1>8, <1>9, <1>10, <1>11, <1>12

\* A waiting or confirmed approval ends with its Run and its waiting Step; the
\* handler that ends it, if one does, is done.
LEMMA EndKeeps ==
    ASSUME FlowIInv, NEW a \in Approvals, NEW expected \in {"WAITING_CONFIRMATION", "CONFIRMED"},
           NEW outcome \in {"CANCELLED", "EXPIRED", "STALE"},
           Cas(a, expected, outcome), FinishWaiting(a, outcome),
           expected = "CONFIRMED" => outcome # "CANCELLED",
           UNCHANGED <<storeVars, subject, wanted, seen, fate>>,
           at' = at \/ \E h \in Handlers : at' = [at EXCEPT ![h] = "idle"]
    PROVE  FlowIInv'
<1> USE FlowAssumption DEF FlowIInv, Cas, FinishWaiting, storeVars
<1>1. FlowTypeOK' /\ StoreTypeOK'
  BY DEF FlowTypeOK, StoreTypeOK, Statuses, Terminal
<1>2. \A h \in Handlers : /\ at'[h] \in {at[h], "idle"}
                          /\ subject[h] \in Approvals
                          /\ at[h] \in PastLock => subject[h] # a
  BY DEF FlowTypeOK, ExclusiveExecution
<1>3. Unsent(a)
  BY DEF SentOnce
<1>4. "idle" \notin PastLock /\ "idle" \in Confirming
  BY DEF PastLock, Confirming
<1>5. ExclusiveExecution'
  BY <1>2, <1>4 DEF FlowTypeOK, ExclusiveExecution
<1>6. ConfirmedDraft'
  BY <1>2, <1>4 DEF FlowTypeOK, ConfirmedDraft
<1>7. StoreKept' /\ OwnCalls'
  BY DEF StoreKept, OwnCalls, Written, InFlight, Unwritten, WriteCall
<1>8. SentOnce'
  BY <1>2, <1>3 DEF SentOnce, Unsent, InFlight, Unwritten, FlowTypeOK
<1>9. ResultKept'
  BY <1>2 DEF ResultKept, Written, FlowTypeOK
<1>10. WrittenAsConfirmed'
  BY <1>3 DEF WrittenAsConfirmed, Unsent, Unwritten, FlowTypeOK, WriteCall
<1>11. RunMirrorsApproval' /\ LoggedIffExecuted'
  BY DEF RunMirrorsApproval, LoggedIffExecuted, FlowTypeOK
<1>12. SourceKept' /\ OneLiveRework'
  BY DEF SourceKept, OneLiveRework, LiveChildren, Reusable, FlowTypeOK
<1> QED
  BY <1>1, <1>5, <1>6, <1>7, <1>8, <1>9, <1>10, <1>11, <1>12

\* The confirmation window of an approval closes.
LEMMA WindowClosesKeeps ==
    ASSUME FlowIInv, NEW a \in Approvals, WindowCloses(a)
    PROVE  FlowIInv'
<1> USE DEF FlowIInv, WindowCloses, storeVars, handlerVars
<1>1. FlowTypeOK' /\ StoreTypeOK'
  BY DEF FlowTypeOK, StoreTypeOK
<1>2. ExclusiveExecution' /\ ConfirmedDraft' /\ SentOnce' /\ ResultKept'
  BY DEF ExclusiveExecution, ConfirmedDraft, SentOnce, ResultKept, Unsent, InFlight,
         Unwritten, Written
<1>3. StoreKept' /\ OwnCalls' /\ WrittenAsConfirmed'
  BY DEF StoreKept, OwnCalls, WrittenAsConfirmed, Written, InFlight, Unwritten, WriteCall
<1>4. RunMirrorsApproval' /\ LoggedIffExecuted' /\ SourceKept' /\ OneLiveRework'
  BY DEF RunMirrorsApproval, LoggedIffExecuted, SourceKept, OneLiveRework, LiveChildren,
         Reusable
<1> QED
  BY <1>1, <1>2, <1>3, <1>4

\* A confirmation request begins with a snapshot of the approval.
LEMMA SnapshotKeeps ==
    ASSUME FlowIInv, NEW h \in Handlers, NEW a \in Approvals, NEW d \in Drafts,
           Snapshot(h, a, d)
    PROVE  FlowIInv'
<1> USE DEF FlowIInv, Snapshot, Move, storeVars, agentVars
<1>1. FlowTypeOK' /\ StoreTypeOK'
  BY DEF FlowTypeOK, StoreTypeOK
<1>2. /\ at'[h] \in {"expire_waiting", "expire_confirmed"} /\ at'[h] \notin PastLock
      /\ subject'[h] = a /\ wanted'[h] = d
      /\ at'[h] = "expire_confirmed" => status[a] = "CONFIRMED" /\ draft[a] = d
      /\ \A g \in Handlers \ {h} : /\ at'[g] = at[g] /\ subject'[g] = subject[g]
                                   /\ wanted'[g] = wanted[g] /\ fate'[g] = fate[g]
  BY DEF FlowTypeOK, PastLock
<1>3. ExclusiveExecution' /\ SentOnce' /\ ResultKept'
  BY <1>2 DEF ExclusiveExecution, SentOnce, ResultKept, Unsent, InFlight, Unwritten, Written
<1>4. ConfirmedDraft'
  BY <1>2 DEF ConfirmedDraft, Confirming
<1>5. StoreKept' /\ OwnCalls' /\ WrittenAsConfirmed'
  BY DEF StoreKept, OwnCalls, WrittenAsConfirmed, Written, InFlight, Unwritten, WriteCall
<1>6. RunMirrorsApproval' /\ LoggedIffExecuted' /\ SourceKept' /\ OneLiveRework'
  BY DEF RunMirrorsApproval, LoggedIffExecuted, SourceKept, OneLiveRework, LiveChildren,
         Reusable
<1> QED
  BY <1>1, <1>3, <1>4, <1>5, <1>6

\* The final draft and the confirmation are stored: no call was built on the
\* draft this replaces.
LEMMA ConfirmKeeps ==
    ASSUME FlowIInv, NEW h \in Handlers, ConfirmWaiting(h)
    PROVE  FlowIInv'
<1> DEFINE a == subject[h]
<1> USE DEF FlowIInv
<1>0. (a \in Approvals /\ wanted[h] \in Drafts) \/ ~(at[h] = "confirm")
  BY DEF FlowTypeOK, ConfirmedDraft
<1>1. CASE Stop(h) /\ at[h] = "confirm"
  BY <1>1, GoKeeps DEF Stop, Go, Labels, PastLock, Confirming
<1>2. CASE /\ at[h] = "confirm" /\ Confirmable(a) /\ Cas(a, status[a], "CONFIRMED")
           /\ draft' = [draft EXCEPT ![a] = wanted[h]] /\ Move(h, "expire_confirmed")
           /\ UNCHANGED <<target, result, overdue, source, run, waitStep, writeStep,
                          logged, attached, storeVars, subject, wanted, seen, fate>>
  <2> USE <1>0, <1>2 DEF Confirmable, Cas, Move, storeVars
  <2>1. FlowTypeOK' /\ StoreTypeOK'
    BY DEF FlowTypeOK, StoreTypeOK, Statuses
  <2>2. \A g \in Handlers : /\ subject[g] \in Approvals
                            /\ at[g] \notin Confirming => subject[g] # a
                            /\ at[g] \in PastLock => subject[g] # a
                            /\ g # h => at'[g] = at[g]
    BY DEF FlowTypeOK, ConfirmedDraft, ExclusiveExecution
  <2>3. at'[h] = "expire_confirmed" /\ "expire_confirmed" \notin PastLock
    BY DEF FlowTypeOK, PastLock
  <2>4. ExclusiveExecution'
    BY <2>2, <2>3 DEF ExclusiveExecution, FlowTypeOK
  <2>5. ConfirmedDraft'
    BY <2>2, <2>3 DEF ConfirmedDraft, FlowTypeOK
  <2>6. Unsent(a)
    BY DEF SentOnce
  <2>7. \A b \in Approvals : b # a => WriteCall(b)' = WriteCall(b)
    BY DEF WriteCall, FlowTypeOK
  <2>8. StoreKept' /\ OwnCalls'
    BY <2>6, <2>7 DEF StoreKept, OwnCalls, Written, InFlight, Unwritten, Unsent
  <2>9. SentOnce' /\ ResultKept'
    BY <2>2, <2>3, <2>6 DEF SentOnce, ResultKept, Unsent, InFlight, Unwritten, Written, FlowTypeOK
  <2>10. WrittenAsConfirmed'
    BY <2>6, <2>7 DEF WrittenAsConfirmed, Unsent, Unwritten, FlowTypeOK
  <2>11. RunMirrorsApproval' /\ LoggedIffExecuted'
    BY DEF RunMirrorsApproval, LoggedIffExecuted, FlowTypeOK
  <2>12. SourceKept' /\ OneLiveRework'
    BY DEF SourceKept, OneLiveRework, LiveChildren, Reusable, FlowTypeOK
  <2> QED
    BY <2>1, <2>4, <2>5, <2>8, <2>9, <2>10, <2>11, <2>12
<1> QED
  BY <1>1, <1>2 DEF ConfirmWaiting

\* The execution lock: the compare-and-set on CONFIRMED finds no handler beyond
\* it, and nothing sent.
LEMMA LockKeeps ==
    ASSUME FlowIInv, NEW h \in Handlers, Lock(h)
    PROVE  FlowIInv'
<1> DEFINE a == subject[h]
<1> USE DEF FlowIInv
<1>0. a \in Approvals
  BY DEF FlowTypeOK
<1>1. CASE Stop(h) /\ at[h] = "lock"
  BY <1>1, GoKeeps DEF Stop, Go, Labels, PastLock, Confirming
<1>2. CASE /\ at[h] = "lock" /\ LockFree(a) /\ Cas(a, status[a], "EXECUTING")
           /\ run' = [run EXCEPT ![a] = "RUNNING"]
           /\ waitStep' = [waitStep EXCEPT ![a] = "SUCCEEDED"]
           /\ writeStep' = [writeStep EXCEPT ![a] = "RUNNING"]
           /\ Move(h, "announce")
           /\ UNCHANGED <<target, draft, result, overdue, source, logged, attached,
                          storeVars, subject, wanted, seen, fate>>
  <2> USE <1>0, <1>2 DEF LockFree, Cas, Move, storeVars
  <2>1. FlowTypeOK' /\ StoreTypeOK'
    BY DEF FlowTypeOK, StoreTypeOK, Statuses, PastLock
  <2>2. \A g \in Handlers : /\ subject[g] \in Approvals
                            /\ at[g] \in PastLock => subject[g] # a
                            /\ g # h => at'[g] = at[g]
    BY DEF FlowTypeOK, ExclusiveExecution
  <2>3. at'[h] = "announce" /\ at[h] \notin Confirming
    BY DEF FlowTypeOK, Confirming
  <2>4. ExclusiveExecution'
    BY <2>2, <2>3 DEF ExclusiveExecution, FlowTypeOK
  <2>5. ConfirmedDraft'
    BY <2>2, <2>3 DEF ConfirmedDraft, FlowTypeOK
  <2>6. Unsent(a)
    BY DEF SentOnce
  <2>7. StoreKept' /\ OwnCalls'
    BY DEF StoreKept, OwnCalls, Written, InFlight, Unwritten, WriteCall
  <2>8. SentOnce' /\ ResultKept'
    BY <2>2, <2>3, <2>6 DEF SentOnce, ResultKept, Unsent, InFlight, Unwritten, Written, FlowTypeOK
  <2>9. WrittenAsConfirmed'
    BY <2>6 DEF WrittenAsConfirmed, Unsent, Unwritten, FlowTypeOK, WriteCall
  <2>10. RunMirrorsApproval' /\ LoggedIffExecuted'
    BY DEF RunMirrorsApproval, LoggedIffExecuted, FlowTypeOK
  <2>11. SourceKept' /\ OneLiveRework'
    BY DEF SourceKept, OneLiveRework, LiveChildren, Reusable, FlowTypeOK
  <2> QED
    BY <2>1, <2>4, <2>5, <2>7, <2>8, <2>9, <2>10, <2>11
<1> QED
  BY <1>1, <1>2 DEF Lock

\* The call leaves, with the confirmed draft and the version it was shown for.
LEMMA PostKeeps ==
    ASSUME FlowIInv, NEW h \in Handlers, Post(h)
    PROVE  FlowIInv'
<1> DEFINE a == subject[h]
<1> USE FlowAssumption DEF FlowIInv, Post, Invoke, Move, agentVars
<1>0. a \in Approvals /\ a \in Conns /\ a \in Keys /\ status[a] = "EXECUTING" /\ Unsent(a)
  BY DEF FlowTypeOK, ExclusiveExecution, PastLock, SentOnce
<1>1. WriteCall(a) \in Call
  <2>1. draft[a] \in Drafts /\ target[a] \in Nat /\ Owner \in Users
    BY <1>0, FactsAssumption DEF ConfirmedDraft, FlowTypeOK
  <2>2. /\ draft[a].conclusion \in {"APPROVED", "REJECTED", "REWORK_REQUIRED"}
        /\ draft[a].comment \in Texts
    BY <2>1
  <2>3. WriteCall(a).req \in Request
    BY <2>1, <2>2 DEF WriteCall, Request, ReviewStatus
  <2> QED
    BY <1>0, <2>3 DEF WriteCall, Call
<1>2. FlowTypeOK'
  BY DEF FlowTypeOK, PastLock
<1>3. StoreTypeOK'
  BY <1>0, <1>1 DEF StoreTypeOK, Pending, Reply
<1>4. /\ \A g \in Handlers : g # h => at'[g] = at[g]
      /\ at'[h] = "await"
      /\ \A g \in Handlers : at[g] \in PastLock /\ g # h => subject[g] # a
      /\ \A c \in Conns : c # a => call'[c] = call[c] /\ reply'[c] = reply[c]
      /\ call'[a] = WriteCall(a) /\ reply'[a] = Pending
  BY <1>0 DEF FlowTypeOK, ExclusiveExecution, PastLock, StoreTypeOK
<1>5. ExclusiveExecution' /\ ConfirmedDraft'
  BY <1>4 DEF ExclusiveExecution, ConfirmedDraft, PastLock, Confirming
<1>6. WriteCall(a)' = WriteCall(a) /\ \A b \in Approvals : WriteCall(b)' = WriteCall(b)
  BY DEF WriteCall
<1>7. StoreKept' /\ OwnCalls'
  BY <1>0, <1>4, <1>6 DEF StoreKept, OwnCalls, Written, InFlight, Unwritten, Unsent, Pending
<1>8. SentOnce'
  BY <1>0, <1>4 DEF SentOnce, Unsent, InFlight, Unwritten, FlowTypeOK, PastLock
<1>9. ResultKept'
  <2>1. result[a] = 0
    BY <1>0 DEF ResultKept, Unsent, Unwritten, Written
  <2> QED
    BY <2>1, <1>4 DEF ResultKept, Written, FlowTypeOK, PastLock
<1>10. WrittenAsConfirmed' /\ RunMirrorsApproval' /\ LoggedIffExecuted'
  BY DEF WrittenAsConfirmed, RunMirrorsApproval, LoggedIffExecuted, WriteCall
<1>11. SourceKept' /\ OneLiveRework'
  BY DEF SourceKept, OneLiveRework, LiveChildren, Reusable
<1> QED
  BY <1>2, <1>3, <1>5, <1>7, <1>8, <1>9, <1>10, <1>11

\* The tool stores the version its answer names.
LEMMA SaveKeeps ==
    ASSUME FlowIInv, NEW h \in Handlers, SaveResult(h)
    PROVE  FlowIInv'
<1> DEFINE a == subject[h]
<1> USE DEF FlowIInv
<1>0. /\ a \in Approvals /\ a \in Conns /\ at[h] = "save" /\ status[a] = "EXECUTING"
      /\ result[a] = 0 /\ reply[a].outcome = "OK" /\ Written(a, reply[a].after)
      /\ reply[a].after \in Nat /\ reply[a].after # 0
  <2>1. a \in Approvals /\ a \in Conns /\ at[h] = "save" /\ status[a] = "EXECUTING"
    BY FlowAssumption DEF FlowTypeOK, SaveResult, ExclusiveExecution, PastLock
  <2>2. result[a] = 0 /\ reply[a].outcome = "OK"
    BY <2>1 DEF ResultKept
  <2>3. Written(a, reply[a].after)
    <3>1. InFlight(a)
      BY <2>2 DEF InFlight
    <3>2. call[a] = WriteCall(a)
      BY <2>1, <3>1 DEF OwnCalls
    <3>3. call[a].key = a
      BY <3>2 DEF WriteCall
    <3> QED
      BY <2>1, <2>2, <3>3 DEF StoreKept
  <2>4. reply[a].after \in Nat /\ reply[a].after # 0
    BY <2>1, <2>3, StoreFields DEF Written
  <2> QED
    BY <2>1, <2>2, <2>3, <2>4
<1>1. /\ result' = [result EXCEPT ![a] = reply[a].after] /\ Move(h, "saved")
      /\ UNCHANGED <<status, target, draft, overdue, source, run, waitStep, writeStep,
                     logged, attached, storeVars, subject, wanted, seen, fate>>
  BY <1>0 DEF SaveResult
<1> USE <1>0, <1>1 DEF Move, storeVars
<1>2. FlowTypeOK' /\ StoreTypeOK'
  BY DEF FlowTypeOK, StoreTypeOK, PastLock
<1>3. /\ at'[h] = "saved" /\ \A g \in Handlers : g # h => at'[g] = at[g]
      /\ \A g \in Handlers : at[g] \in PastLock /\ g # h => subject[g] # a
  BY DEF FlowTypeOK, ExclusiveExecution, PastLock
<1>4. ExclusiveExecution' /\ ConfirmedDraft' /\ SentOnce'
  BY <1>3 DEF ExclusiveExecution, ConfirmedDraft, PastLock, Confirming, SentOnce, Unsent,
              InFlight, Unwritten
<1>5. ResultKept'
  BY <1>3 DEF ResultKept, Written, FlowTypeOK, PastLock
<1>6. StoreKept' /\ OwnCalls' /\ WrittenAsConfirmed'
  BY DEF StoreKept, OwnCalls, WrittenAsConfirmed, Written, InFlight, Unwritten, WriteCall
<1>7. RunMirrorsApproval' /\ LoggedIffExecuted'
  BY DEF RunMirrorsApproval, LoggedIffExecuted
<1>8. SourceKept' /\ OneLiveRework'
  BY DEF SourceKept, OneLiveRework, LiveChildren, Reusable, FlowTypeOK
<1> QED
  BY <1>2, <1>4, <1>5, <1>6, <1>7, <1>8

\* The terminal status, log, Step and Run are recorded by the one handler past
\* the lock, or by none.
LEMMA FinishKeeps ==
    ASSUME FlowIInv, NEW h \in Handlers, FinishLocked(h)
    PROVE  FlowIInv'
<1> DEFINE a == subject[h]
           end == IF fate[h] = "SUCCEEDED" THEN "SUCCEEDED" ELSE "FAILED"
<1> USE DEF FlowIInv
<1>0. a \in Approvals /\ fate[h] \in {"SUCCEEDED", "FAILED", "STALE"} /\ at[h] = "finish"
  BY DEF FinishLocked, FlowTypeOK, ConfirmedDraft
<1>1. CASE Stop(h)
  BY <1>0, <1>1, GoKeeps DEF Stop, Go, Labels, PastLock, Confirming
<1>2. CASE /\ attached /\ status[a] = "EXECUTING" /\ writeStep[a] = "RUNNING"
           /\ result[a] # 0 => fate[h] = "SUCCEEDED"
           /\ Cas(a, "EXECUTING", fate[h]) /\ WriteLog(a, fate[h])
           /\ writeStep' = [writeStep EXCEPT ![a] = end]
           /\ run' = [run EXCEPT ![a] = end]
           /\ Move(h, "idle")
           /\ UNCHANGED <<target, draft, result, overdue, source, waitStep, attached,
                          storeVars, subject, wanted, seen, fate>>
  <2> USE <1>0, <1>2 DEF Cas, WriteLog, Move, storeVars
  <2>1. FlowTypeOK' /\ StoreTypeOK'
    BY DEF FlowTypeOK, StoreTypeOK, Statuses, Terminal
  <2>2. \A g \in Handlers : /\ subject[g] \in Approvals
                            /\ at[g] \in PastLock /\ g # h => subject[g] # a
                            /\ g # h => at'[g] = at[g]
    BY DEF FlowTypeOK, ExclusiveExecution, PastLock
  <2>3. at'[h] = "idle" /\ "idle" \notin PastLock /\ "idle" \in Confirming
    BY DEF FlowTypeOK, PastLock, Confirming
  <2>4. ExclusiveExecution' /\ ConfirmedDraft'
    BY <2>2, <2>3 DEF ExclusiveExecution, ConfirmedDraft, FlowTypeOK
  <2>5. StoreKept' /\ OwnCalls'
    BY DEF StoreKept, OwnCalls, Written, InFlight, Unwritten, WriteCall
  <2>6. fate[h] = "STALE" => Unsent(a)
    BY DEF SentOnce
  <2>7. SentOnce'
    BY <2>2, <2>3, <2>6 DEF SentOnce, Unsent, InFlight, Unwritten, FlowTypeOK
  <2>8. ResultKept'
    BY <2>2, <2>3 DEF ResultKept, Written, FlowTypeOK
  <2>9. WrittenAsConfirmed'
    BY <2>6 DEF WrittenAsConfirmed, Unsent, Unwritten, FlowTypeOK, WriteCall
  <2>10. RunMirrorsApproval'
    BY DEF RunMirrorsApproval, FlowTypeOK
  <2>11. LoggedIffExecuted'
    <3>1. logged[a] = {} /\ logged'[a] = {fate[h]}
      BY DEF LoggedIffExecuted, FlowTypeOK
    <3>2. /\ status'[a] = fate[h] /\ writeStep'[a] # "NONE"
          /\ \A b \in Approvals : b # a => /\ status'[b] = status[b]
                                           /\ logged'[b] = logged[b]
                                           /\ writeStep'[b] = writeStep[b]
      BY DEF FlowTypeOK
    <3> QED
      BY <3>1, <3>2, SMTT(60) DEF LoggedIffExecuted
  <2>12. SourceKept' /\ OneLiveRework'
    BY DEF SourceKept, OneLiveRework, LiveChildren, Reusable, FlowTypeOK
  <2> QED
    BY <2>1, <2>4, <2>5, <2>7, <2>8, <2>9, <2>10, <2>11, <2>12
<1> QED
  BY <1>1, <1>2 DEF FinishLocked

\* The types of the store are kept by whatever a handler of the Java service does.
LEMMA JavaKeepsTypes ==
    ASSUME StoreTypeOK, NEW c \in Conns, Carry(c) \/ Replay(c) \/ Refuse(c) \/ Lose(c)
    PROVE  StoreTypeOK'
<1> USE DEF StoreTypeOK
<1>1. call[c].key \in Keys /\ call[c].req \in Request /\ call[c].req.expected \in Nat
  BY StoreFields
<1>2. CASE Carry(c)
  <2>1. CountedRows(effects, call[c].req) \in SUBSET Nat
    BY DEF CountedRows, ReviewRows, Effect
  <2>2. effects' \subseteq Effect
    BY <1>1, <1>2, <2>1 DEF Carry, Effect
  <2>3. idem' \subseteq IdemRecord
    BY <1>1, <1>2 DEF Carry, IdemRecord
  <2>4. reply' \in [Conns -> Reply]
    BY <1>1, <1>2 DEF Carry, Reply, Accepted, Refused, Refusals
  <2>5. version' = [version EXCEPT ![call[c].req.task] = call[c].req.expected + 1]
        /\ serial' = serial + 1 /\ call' = call
    BY <1>2 DEF Carry
  <2>6. version' \in [Tasks -> Nat]
    <3>1. call[c].req.expected + 1 \in Nat /\ version \in [Tasks -> Nat]
      BY <1>1
    <3> HIDE DEF StoreTypeOK
    <3> QED
      BY <2>5, <3>1
  <2> QED
    BY <2>2, <2>3, <2>4, <2>5, <2>6
<1>3. CASE Replay(c)
  BY <1>3 DEF Replay, Recorded, IdemRecord, Reply, Accepted
<1>4. CASE Refuse(c)
  BY <1>4 DEF Refuse, Reply, Refused, Refusals
<1>5. CASE Lose(c)
  BY <1>5 DEF Lose, Reply, Refused, Refusals
<1> QED
  BY <1>2, <1>3, <1>4, <1>5

\* Whatever the Java service does with a call, a row appears only for the call
\* that is under way, and an answer changes nothing else.
LEMMA JavaKeeps ==
    ASSUME FlowIInv, NEW c \in Conns, Carry(c) \/ Replay(c) \/ Refuse(c) \/ Lose(c),
           UNCHANGED <<agentVars, handlerVars>>
    PROVE  FlowIInv'
<1> USE DEF FlowIInv, agentVars, handlerVars
<1>1. FlowTypeOK' /\ StoreTypeOK'
  BY JavaKeepsTypes DEF FlowTypeOK
<1>2. ExclusiveExecution' /\ ConfirmedDraft' /\ RunMirrorsApproval' /\ LoggedIffExecuted'
      /\ SourceKept' /\ OneLiveRework'
  BY DEF ExclusiveExecution, ConfirmedDraft, RunMirrorsApproval, LoggedIffExecuted,
         SourceKept, OneLiveRework, LiveChildren, Reusable
<1>3. reply[c].outcome = "PENDING" /\ call' = call /\ InFlight(c)
      /\ reply'[c].outcome # "PENDING"
      /\ \A d \in Conns : d # c => reply'[d] = reply[d]
  BY DEF Carry, Replay, Refuse, Lose, InFlight, StoreTypeOK, Refused, Accepted
<1>4. \A a \in Approvals : WriteCall(a)' = WriteCall(a)
  BY DEF WriteCall
<1>5. \A key, after : Written(key, after) => Written(key, after)'
  BY DEF Written, Carry, Replay, Refuse, Lose
<1>6. \A d \in Conns : InFlight(d)' => InFlight(d)
  BY <1>3 DEF InFlight
<1>7. ResultKept'
  <2>1. \A a \in Approvals : reply[a].outcome = "OK" => reply'[a].outcome = "OK"
    BY <1>3, FlowAssumption
  <2>2. \A a \in Approvals : Written(a, result[a]) => Written(a, result[a])'
    BY <1>5
  <2> QED
    BY <2>1, <2>2 DEF ResultKept, FlowTypeOK
<1>8. CASE Carry(c)
  <2> DEFINE e == [id |-> serial + 1, key |-> call[c].key, req |-> call[c].req,
                   before |-> call[c].req.expected,
                   counted |-> CountedRows(effects, call[c].req)]
             r == [key |-> call[c].key, req |-> call[c].req, id |-> serial + 1,
                   after |-> call[c].req.expected + 1]
  <2>1. /\ effects' = effects \cup {e} /\ idem' = idem \cup {r}
        /\ \/ reply'[c] = Accepted(serial + 1, call[c].req.expected + 1)
           \/ reply'[c] = Refused("LOST")
    BY <1>8 DEF Carry, StoreTypeOK
  <2>2. Written(call[c].key, call[c].req.expected + 1)'
    <3>1. e.key = call[c].key /\ e.before = call[c].req.expected /\ e \in effects'
      BY <2>1
    <3> HIDE DEF e, FlowIInv
    <3> QED
      BY <1>3, <3>1 DEF Written
  <2> HIDE DEF r
  <2>3. StoreKept'
    <3>1. \A x \in idem' : Written(x.key, x.after)'
      <4>1. r.key = call[c].key /\ r.after = call[c].req.expected + 1
        BY DEF r
      <4> QED
        BY <1>3, <1>5, <2>1, <2>2, <4>1 DEF StoreKept, Written
    <3>2. \A x \in effects' : x.before = x.req.expected
      BY <2>1 DEF StoreKept
    <3>3. \A d \in Conns : reply'[d].outcome = "OK" => Written(call[d].key, reply[d].after)'
      BY <1>3, <1>5, <2>1, <2>2 DEF StoreKept, Accepted, Refused
    <3> QED
      BY <3>1, <3>2, <3>3 DEF StoreKept
  <2>4. e.key = call[c].key /\ e.req = call[c].req
    OBVIOUS
  <2> HIDE DEF e
  <2>5. \A a \in Approvals : a # c => call[c].key # a
    <3>1. CASE c \in Clients
      BY <1>3, <3>1 DEF OwnCalls
    <3>2. CASE c \in Approvals
      <4>1. call[c] = WriteCall(c)
        BY <1>3, <3>2 DEF OwnCalls
      <4>2. call[c].key = c
        BY <4>1 DEF WriteCall
      <4> QED
        BY <4>2
    <3> QED
      BY <3>1, <3>2, FlowAssumption
  <2>6. \A a \in Approvals : a # c /\ Unwritten(a) => Unwritten(a)'
    BY <2>1, <2>4, <2>5 DEF Unwritten
  <2>7. OwnCalls'
    <3>1. \A a \in Approvals : InFlight(a)' => call'[a] = WriteCall(a)'
      BY <1>3, <1>4, <1>6, FlowAssumption DEF OwnCalls
    <3>2. \A d \in Clients : InFlight(d)' => call'[d].key \notin Approvals
      BY <1>3, <1>6, FlowAssumption DEF OwnCalls
    <3>3. reply'[c].outcome \in {"OK", "LOST"}
      BY <2>1 DEF Accepted, Refused
    <3>4. \A a \in Approvals : reply'[a].outcome \notin {"OK", "LOST"} => Unwritten(a)'
      BY <1>3, <2>6, <3>3, FlowAssumption DEF OwnCalls
    <3> QED
      BY <3>1, <3>2, <3>4 DEF OwnCalls
  <2>8. SentOnce'
    <3>1. \A a \in Approvals : Unsent(a) => Unsent(a)'
      BY <1>3, <1>6, <2>6, FlowAssumption DEF Unsent
    <3> QED
      BY <3>1 DEF SentOnce, FlowTypeOK
  <2>9. WrittenAsConfirmed'
    <3>1. \A a \in Approvals : a = e.key => /\ status[a] \in {"EXECUTING", "SUCCEEDED", "FAILED"}
                                           /\ e.req = WriteCall(a).req
      BY <1>3, <2>4, <2>5 DEF SentOnce, Unsent, OwnCalls
    <3> QED
      BY <2>1, <3>1, <1>4 DEF WrittenAsConfirmed
  <2> QED
    BY <1>1, <1>2, <1>7, <2>3, <2>7, <2>8, <2>9
<1>9. CASE Replay(c) \/ Refuse(c) \/ Lose(c)
  <2>1. effects' = effects /\ idem' = idem
    BY <1>9 DEF Replay, Refuse, Lose
  <2>2. reply'[c].outcome = "OK" => Written(call[c].key, reply'[c].after)
    BY <1>9 DEF Replay, Refuse, Lose, StoreKept, StoreTypeOK, Recorded, Accepted, Refused
  <2>3. StoreKept'
    <3>1. \A d \in Conns : reply'[d].outcome = "OK" => Written(call'[d].key, reply'[d].after)
      BY <1>3, <2>2 DEF StoreKept
    <3>2. \A k, n : Written(k, n)' <=> \E e \in effects : e.key = k /\ n = e.before + 1
      BY <2>1 DEF Written
    <3> QED
      BY <2>1, <3>1, <3>2 DEF StoreKept, Written
  <2>4. \A a \in Approvals : Unwritten(a)' <=> Unwritten(a)
    BY <2>1 DEF Unwritten
  <2>5. OwnCalls'
    <3>1. \A a \in Approvals : InFlight(a)' => call'[a] = WriteCall(a)'
      BY <1>3, <1>4, <1>6, FlowAssumption DEF OwnCalls
    <3>2. \A d \in Clients : InFlight(d)' => call'[d].key \notin Approvals
      BY <1>3, <1>6, FlowAssumption DEF OwnCalls
    <3>3. \A a \in Approvals : reply'[a].outcome \notin {"OK", "LOST"} => Unwritten(a)
      BY <1>3, FlowAssumption DEF OwnCalls
    <3> QED
      BY <2>4, <3>1, <3>2, <3>3 DEF OwnCalls
  <2>6. SentOnce'
    <3>1. \A a \in Approvals : Unsent(a) => Unsent(a)'
      BY <1>6, <2>4, FlowAssumption DEF Unsent
    <3> QED
      BY <3>1 DEF SentOnce, FlowTypeOK
  <2>7. WrittenAsConfirmed'
    BY <1>4, <2>1 DEF WrittenAsConfirmed
  <2> QED
    BY <1>1, <1>2, <1>7, <2>3, <2>5, <2>6, <2>7
<1> QED
  BY <1>8, <1>9

\* Another user of the Java service sends a call under a key of its own.
LEMMA ClientKeeps ==
    ASSUME FlowIInv, NEW c \in Clients, ClientWrites(c)
    PROVE  FlowIInv'
<1> USE DEF FlowIInv, agentVars, handlerVars
<1>1. PICK k \in Calls : k.key \notin Approvals /\ Invoke(c, k)
  BY DEF ClientWrites
<1>2. c \in Conns /\ c \notin Approvals /\ k \in Call /\ UNCHANGED <<agentVars, handlerVars>>
  BY FlowAssumption, CallsAssumption DEF ClientWrites
<1>3. /\ call'[c] = k /\ reply'[c] = Pending
      /\ \A d \in Conns : d # c => call'[d] = call[d] /\ reply'[d] = reply[d]
      /\ UNCHANGED <<version, effects, idem, serial>>
  BY <1>1, <1>2 DEF Invoke, StoreTypeOK
<1>4. FlowTypeOK' /\ StoreTypeOK'
  BY <1>1, <1>2 DEF FlowTypeOK, StoreTypeOK, Invoke, Pending, Reply
<1>5. ExclusiveExecution' /\ ConfirmedDraft' /\ RunMirrorsApproval' /\ LoggedIffExecuted'
      /\ SourceKept' /\ OneLiveRework' /\ WrittenAsConfirmed'
  BY <1>2, <1>3 DEF ExclusiveExecution, ConfirmedDraft, RunMirrorsApproval, LoggedIffExecuted,
         SourceKept, OneLiveRework, LiveChildren, Reusable, WrittenAsConfirmed, WriteCall
<1>6. \A a \in Approvals : a \in Conns /\ call'[a] = call[a] /\ reply'[a] = reply[a]
  BY <1>2, <1>3, FlowAssumption
<1>7. StoreKept'
  BY <1>3 DEF StoreKept, Written, Pending
<1>8. OwnCalls'
  BY <1>1, <1>2, <1>3, <1>6, FlowAssumption DEF OwnCalls, InFlight, Unwritten, WriteCall
<1>9. SentOnce' /\ ResultKept'
  BY <1>2, <1>3, <1>6 DEF SentOnce, Unsent, InFlight, Unwritten, ResultKept, Written, FlowTypeOK
<1> QED
  BY <1>4, <1>5, <1>7, <1>8, <1>9

\* The session goes, its Runs and Steps with it; the approvals stay.
LEMMA DeleteKeeps ==
    ASSUME FlowIInv, DeleteSession
    PROVE  FlowIInv'
<1> USE DEF FlowIInv, DeleteSession, storeVars, handlerVars
<1>1. FlowTypeOK' /\ StoreTypeOK'
  BY DEF FlowTypeOK, StoreTypeOK
<1>2. ExclusiveExecution' /\ ConfirmedDraft' /\ SentOnce' /\ ResultKept'
  BY DEF ExclusiveExecution, ConfirmedDraft, SentOnce, ResultKept, Unsent, InFlight,
         Unwritten, Written
<1>3. StoreKept' /\ OwnCalls' /\ WrittenAsConfirmed'
  BY DEF StoreKept, OwnCalls, WrittenAsConfirmed, Written, InFlight, Unwritten, WriteCall
<1>4. RunMirrorsApproval' /\ LoggedIffExecuted'
  BY DEF RunMirrorsApproval, LoggedIffExecuted
<1>5. SourceKept' /\ OneLiveRework'
  BY DEF SourceKept, OneLiveRework, LiveChildren, Reusable
<1> QED
  BY <1>1, <1>2, <1>3, <1>4, <1>5

\* The agent process restarts: no handler is left.
LEMMA RestartKeeps ==
    ASSUME FlowIInv, Restart
    PROVE  FlowIInv'
<1> USE DEF FlowIInv, Restart, storeVars, agentVars
<1>1. FlowTypeOK' /\ StoreTypeOK'
  BY DEF FlowTypeOK, StoreTypeOK
<1>2. ExclusiveExecution' /\ ConfirmedDraft' /\ SentOnce' /\ ResultKept'
  BY DEF ExclusiveExecution, ConfirmedDraft, SentOnce, ResultKept, Unsent, InFlight,
         Unwritten, Written, PastLock, Confirming
<1>3. StoreKept' /\ OwnCalls' /\ WrittenAsConfirmed'
  BY DEF StoreKept, OwnCalls, WrittenAsConfirmed, Written, InFlight, Unwritten, WriteCall
<1>4. RunMirrorsApproval' /\ LoggedIffExecuted' /\ SourceKept' /\ OneLiveRework'
  BY DEF RunMirrorsApproval, LoggedIffExecuted, SourceKept, OneLiveRework, LiveChildren,
         Reusable
<1> QED
  BY <1>1, <1>2, <1>3, <1>4

\* The fresh read of the task decides nothing yet.
LEMMA ReadTaskKeeps ==
    ASSUME FlowIInv, NEW h \in Handlers, ReadTask(h)
    PROVE  FlowIInv'
<1> USE FlowAssumption DEF FlowIInv, ReadTask, Move, storeVars, agentVars
<1>1. FlowTypeOK' /\ StoreTypeOK'
  BY DEF FlowTypeOK, StoreTypeOK
<1>2. /\ at[h] = "read_task" /\ at'[h] = "read_issues"
      /\ \A g \in Handlers : g # h => at'[g] = at[g]
  BY DEF FlowTypeOK
<1>3. ExclusiveExecution' /\ ConfirmedDraft' /\ SentOnce' /\ ResultKept'
  BY <1>2 DEF ExclusiveExecution, ConfirmedDraft, SentOnce, ResultKept, Unsent, InFlight,
              Unwritten, Written, PastLock, Confirming
<1>4. StoreKept' /\ OwnCalls' /\ WrittenAsConfirmed'
  BY DEF StoreKept, OwnCalls, WrittenAsConfirmed, Written, InFlight, Unwritten, WriteCall
<1>5. RunMirrorsApproval' /\ LoggedIffExecuted' /\ SourceKept' /\ OneLiveRework'
  BY DEF RunMirrorsApproval, LoggedIffExecuted, SourceKept, OneLiveRework, LiveChildren,
         Reusable
<1> QED
  BY <1>1, <1>3, <1>4, <1>5

\* An approval whose window closed ends, or the handler goes on or stops.
LEMMA ExpireKeeps ==
    ASSUME FlowIInv, NEW h \in Handlers, Expire(h)
    PROVE  FlowIInv'
<1> DEFINE a == subject[h]
<1>0. a \in Approvals
  BY DEF FlowIInv, FlowTypeOK
<1>1. ASSUME NEW from \in {"expire_waiting", "expire_confirmed", "expire_checked"},
             NEW expected \in {"WAITING_CONFIRMATION", "CONFIRMED"},
             NEW next \in {"confirm", "read_task", "lock"},
             next = "confirm" <=> from = "expire_waiting",
             ExpireIfNeeded(h, from, expected, next)
      PROVE  FlowIInv'
  <2>1. at[h] = from
    BY <1>1 DEF ExpireIfNeeded
  <2>2. CASE Go(h, next)
    BY <1>1, <2>1, <2>2, GoKeeps DEF Labels, PastLock, Confirming
  <2>3. CASE /\ Cas(a, expected, "EXPIRED") /\ FinishWaiting(a, "EXPIRED")
             /\ Move(h, "idle") /\ UNCHANGED <<storeVars, subject, wanted, seen, fate>>
    BY <1>0, <1>1, <2>3, EndKeeps DEF Move
  <2>4. CASE Stop(h)
    <3>1. Go(h, "idle")
      BY <2>4 DEF Stop, Go
    <3> QED
      BY <3>1, <2>1, <1>1, GoKeeps DEF Labels, PastLock, Confirming
  <2> QED
    BY <1>1, <2>2, <2>3, <2>4 DEF ExpireIfNeeded
<1> QED
  BY <1>1 DEF Expire

\* A handler that ends with an error, or dies, leaves every record as it is.
LEMMA StopKeeps ==
    ASSUME FlowIInv, NEW h \in Handlers, Stop(h)
    PROVE  FlowIInv'
<1>1. Go(h, "idle")
  BY DEF Stop, Go
<1> QED
  BY <1>1, GoKeeps DEF Labels, PastLock, Confirming

\* The steps between the reads and the end of the tool that change no record.
LEMMA MoveOnKeeps ==
    ASSUME FlowIInv, NEW h \in Handlers,
           \/ ReadIssues(h) \/ MarkStale(h) \/ Announce(h) \/ Authorize(h) \/ Answer(h)
           \/ ToolReturns(h)
    PROVE  FlowIInv'
<1> DEFINE a == subject[h]
<1>0. a \in Approvals
  BY DEF FlowIInv, FlowTypeOK
<1>1. CASE ReadIssues(h)
  <2>1. PICK label \in {"stale", "expire_checked"} : at[h] = "read_issues" /\ Go(h, label)
    BY <1>1 DEF ReadIssues
  <2> QED
    BY <2>1, GoKeeps DEF Labels, PastLock, Confirming
<1>2. CASE MarkStale(h)
  <2>1. CASE Stop(h)
    BY <2>1, StopKeeps
  <2>2. CASE /\ Cas(a, "CONFIRMED", "STALE") /\ FinishWaiting(a, "STALE")
             /\ Move(h, "idle") /\ UNCHANGED <<storeVars, subject, wanted, seen, fate>>
    BY <1>0, <2>2, EndKeeps DEF Move
  <2> QED
    BY <1>2, <2>1, <2>2 DEF MarkStale
<1>3. CASE Announce(h)
  BY <1>3, GoKeeps DEF Announce, Labels, PastLock, Confirming
<1>4. CASE Authorize(h)
  <2>1. at[h] = "authorize" /\ Unsent(a)
    BY <1>4 DEF Authorize, FlowIInv, SentOnce
  <2>2. CASE Go(h, "post")
    BY <2>1, <2>2, GoKeeps DEF Labels, PastLock, Confirming
  <2>3. CASE Conclude(h, "STALE")
    BY <2>1, <2>3, ConcludeKeeps DEF PastLock
  <2> QED
    BY <1>4, <2>2, <2>3 DEF Authorize
<1>5. CASE Answer(h)
  <2>1. at[h] = "await" /\ result[a] = 0
    BY <1>5 DEF Answer, FlowIInv, ResultKept
  <2>2. CASE reply[a].outcome = "OK" /\ Go(h, "save")
    BY <2>1, <2>2, GoKeeps DEF Labels, PastLock, Confirming
  <2>3. CASE reply[a].outcome = "CONFLICT" /\ Conclude(h, "STALE")
    <3>1. Unsent(a)
      BY <1>0, <2>3 DEF FlowIInv, OwnCalls, Unsent, InFlight
    <3> QED
      BY <2>1, <2>3, <3>1, ConcludeKeeps DEF PastLock
  <2>4. CASE Conclude(h, "FAILED")
    BY <2>1, <2>4, ConcludeKeeps DEF PastLock
  <2> QED
    BY <1>5, <2>2, <2>3, <2>4 DEF Answer
<1>6. CASE ToolReturns(h)
  <2>1. at[h] = "saved" /\ result[a] # 0
    BY <1>6 DEF ToolReturns, FlowIInv, ResultKept
  <2> QED
    BY <1>6, <2>1, ConcludeKeeps DEF ToolReturns, PastLock
<1> QED
  BY <1>1, <1>2, <1>3, <1>4, <1>5, <1>6

\* A failed read, a lost stream, a timeout or a failing save.
LEMMA FaultKeeps ==
    ASSUME FlowIInv, NEW h \in Handlers, HandlerFault(h)
    PROVE  FlowIInv'
<1>1. CASE ReadFails(h) \/ AnnounceFails(h)
  BY <1>1, StopKeeps DEF ReadFails, AnnounceFails
<1>2. CASE Timeout(h) \/ SaveInterrupted(h)
  BY <1>2, ConcludeKeeps DEF Timeout, SaveInterrupted, PastLock
<1> QED
  BY <1>1, <1>2 DEF HandlerFault

\* A new approval, for a review or derived from one.
LEMMA NewApprovalKeeps ==
    ASSUME FlowIInv,
           \/ \E a \in Approvals, d \in Drafts, v \in {version[Task], version[Task] - 1} :
                 SaveWaitingApproval(a, d, v)
           \/ \E s \in Reviews, a \in Reworks : CreateRework(s, a)
    PROVE  FlowIInv'
<1>1. ASSUME NEW a \in Approvals, NEW d \in Drafts,
             NEW v \in {version[Task], version[Task] - 1}, SaveWaitingApproval(a, d, v)
      PROVE  FlowIInv'
  BY <1>1, CreateKeeps DEF SaveWaitingApproval
<1>2. ASSUME NEW s \in Reviews, NEW a \in Reworks, CreateRework(s, a)
      PROVE  FlowIInv'
  <2>1. a \in Approvals /\ a \notin Reviews /\ s \in Approvals
    BY FlowAssumption DEF Approvals
  <2>2. /\ attached /\ status[a] = "ABSENT" /\ status[s] = "SUCCEEDED"
        /\ LiveChildren(s) = {} /\ Create(a, draft[s], result[s], {s})
        /\ UNCHANGED <<storeVars, handlerVars>>
    BY <1>2 DEF CreateRework, HasExistingRework
  <2>3. draft[s] \in Drafts /\ result[s] \in Nat
    BY <2>1, <2>2 DEF FlowIInv, ConfirmedDraft, FlowTypeOK
  <2> QED
    BY <2>1, <2>2, <2>3, CreateKeeps
<1> QED
  BY <1>1, <1>2

\* The states the services start in.
LEMMA FlowInitIInv == FlowInit => FlowIInv
<1> SUFFICES ASSUME FlowInit PROVE FlowIInv
  OBVIOUS
<1> USE FlowAssumption DEF FlowInit, Init
<1>1. FlowTypeOK
  <2>1. (CHOOSE a \in Approvals : TRUE) \in Approvals
    OBVIOUS
  <2> QED
    BY <2>1 DEF FlowTypeOK, Statuses, PastLock
<1>2. StoreTypeOK
  <2>1. (CHOOSE k \in Calls : TRUE) \in Call
    BY CallsAssumption
  <2> QED
    BY <2>1 DEF StoreTypeOK, Refused, Reply, Refusals
<1>3. \A c \in Conns : reply[c].outcome = "LOST"
  BY DEF Refused
<1>4. StoreKept /\ OwnCalls /\ SentOnce /\ WrittenAsConfirmed
  BY <1>3 DEF StoreKept, OwnCalls, SentOnce, Unsent, Unwritten, InFlight, WrittenAsConfirmed
<1>5. ExclusiveExecution /\ ConfirmedDraft /\ ResultKept
  BY DEF ExclusiveExecution, ConfirmedDraft, ResultKept, PastLock, Confirming
<1>6. RunMirrorsApproval /\ LoggedIffExecuted
  BY DEF RunMirrorsApproval, LoggedIffExecuted
<1>7. SourceKept /\ OneLiveRework
  BY DEF SourceKept, OneLiveRework, LiveChildren, Approvals
<1> QED
  BY <1>1, <1>2, <1>4, <1>5, <1>6, <1>7 DEF FlowIInv

\* Every step of the two services and of their surroundings keeps it.
LEMMA FlowStep == FlowIInv /\ [FlowNext]_vars => FlowIInv'
<1> SUFFICES ASSUME FlowIInv, [FlowNext]_vars PROVE FlowIInv'
  OBVIOUS
<1>1. CASE \/ \E a \in Approvals, d \in Drafts, v \in {version[Task], version[Task] - 1} :
                 SaveWaitingApproval(a, d, v)
           \/ \E s \in Reviews, a \in Reworks : CreateRework(s, a)
  BY <1>1, NewApprovalKeeps
<1>2. ASSUME NEW a \in Approvals, Cancel(a)
      PROVE  FlowIInv'
  <2>1. at' = at /\ Cas(a, "WAITING_CONFIRMATION", "CANCELLED")
    BY <1>2 DEF Cancel, Cancellable, handlerVars
  <2> QED
    BY <1>2, <2>1, EndKeeps DEF Cancel, handlerVars
<1>3. ASSUME NEW a \in Approvals, WindowCloses(a)
      PROVE  FlowIInv'
  BY <1>3, WindowClosesKeeps
<1>4. ASSUME NEW h \in Handlers, NEW a \in Approvals, NEW d \in Drafts, Snapshot(h, a, d)
      PROVE  FlowIInv'
  BY <1>4, SnapshotKeeps
<1>5. ASSUME NEW h \in Handlers, Progress(h)
      PROVE  FlowIInv'
  BY <1>5, ExpireKeeps, ConfirmKeeps, ReadTaskKeeps, MoveOnKeeps, LockKeeps, PostKeeps,
     SaveKeeps, FinishKeeps DEF Progress
<1>6. ASSUME NEW h \in Handlers, HandlerFault(h)
      PROVE  FlowIInv'
  BY <1>6, FaultKeeps
<1>7. ASSUME NEW c \in Conns, JavaStep(c) \/ JavaFails(c)
      PROVE  FlowIInv'
  BY <1>7, JavaKeeps DEF JavaStep, JavaFails
<1>8. ASSUME NEW c \in Clients, ClientWrites(c)
      PROVE  FlowIInv'
  BY <1>8, ClientKeeps
<1>9. CASE DeleteSession \/ Restart
  BY <1>9, DeleteKeeps, RestartKeeps
<1>10. CASE UNCHANGED vars
  <2> USE <1>10 DEF FlowIInv, vars, storeVars, agentVars, handlerVars
  <2>1. FlowTypeOK' /\ StoreTypeOK'
    BY DEF FlowTypeOK, StoreTypeOK
  <2>2. ExclusiveExecution' /\ ConfirmedDraft' /\ SentOnce' /\ ResultKept'
    BY DEF ExclusiveExecution, ConfirmedDraft, SentOnce, ResultKept, Unsent, InFlight,
           Unwritten, Written
  <2>3. StoreKept' /\ OwnCalls' /\ WrittenAsConfirmed'
    BY DEF StoreKept, OwnCalls, WrittenAsConfirmed, Written, InFlight, Unwritten, WriteCall
  <2>4. RunMirrorsApproval' /\ LoggedIffExecuted' /\ SourceKept' /\ OneLiveRework'
    BY DEF RunMirrorsApproval, LoggedIffExecuted, SourceKept, OneLiveRework, LiveChildren,
           Reusable
  <2> QED
    BY <2>1, <2>2, <2>3, <2>4
<1> QED
  BY <1>1, <1>2, <1>3, <1>4, <1>5, <1>6, <1>7, <1>8, <1>9, <1>10 DEF FlowNext

\* The invariant of the write gate: in every reachable state of any number of
\* confirmations, clients and faults (approval_confirmation.py, approvals.py and
\* the Java write service) the records, the handlers and the store agree.
THEOREM FlowInvariant == FlowSpec => []FlowIInv
<1> QED
  BY FlowInitIInv, FlowStep, PTL DEF FlowSpec

\* Every record, Step and handler has one of the states the code gives it.
THEOREM FlowTypes == FlowSpec => []FlowTypeOK
<1>1. FlowIInv => FlowTypeOK
  BY DEF FlowIInv
<1> QED
  BY <1>1, FlowInvariant, PTL

\* At most one confirmation executes an approval, and while it does the approval
\* is EXECUTING: what _acquire_execution_lock is for.
THEOREM FlowExclusive == FlowSpec => []ExclusiveExecution
<1>1. FlowIInv => ExclusiveExecution
  BY DEF FlowIInv
<1> QED
  BY <1>1, FlowInvariant, PTL

\* The Java service writes only the confirmed draft against the confirmed
\* version, and nothing for an approval that did not reach its execution.
THEOREM FlowWritesConfirmed == FlowSpec => []WrittenAsConfirmed
<1>1. FlowIInv => WrittenAsConfirmed
  BY DEF FlowIInv
<1> QED
  BY <1>1, FlowInvariant, PTL

\* An approval the agent calls SUCCEEDED names the row the Java service
\* committed for it, whatever was lost, retried or restarted between.
THEOREM FlowSucceededWritten == FlowSpec => []SucceededIsWritten
<1>1. FlowIInv => SucceededIsWritten
  BY DEF FlowIInv, ResultKept, Written, SucceededIsWritten
<1> QED
  BY <1>1, FlowInvariant, PTL

\* Approval, Run, Steps and operation log agree between any two transactions.
THEOREM FlowRecordsAgree == FlowSpec => []RecordsAgree
<1>1. FlowIInv => RecordsAgree
  BY DEF FlowIInv, RecordsAgree
<1> QED
  BY <1>1, FlowInvariant, PTL

\* A review never has two rework approvals that are open, executing or done:
\* what create_rework looks for before it derives another.
THEOREM FlowOneRework == FlowSpec => []OneLiveRework
<1>1. FlowIInv => OneLiveRework
  BY DEF FlowIInv
<1> QED
  BY <1>1, FlowInvariant, PTL

\* A rework replaces exactly the version its review left behind: another write in
\* between makes the Java service refuse it.
THEOREM FlowReworkFollows == FlowSpec => []ReworkFollowsReview
<1>1. FlowIInv => ReworkFollowsReview
  <2> SUFFICES ASSUME FlowIInv, NEW e \in effects, e.key \in Reworks,
                      NEW s \in source[e.key]
               PROVE  \E f \in effects : f.key = s /\ e.before = f.before + 1
    BY DEF ReworkFollowsReview
  <2>1. e.key \in Approvals /\ s \in Approvals
    BY DEF FlowIInv, FlowTypeOK, Approvals
  <2>2. status[s] = "SUCCEEDED" /\ target[e.key] = result[s]
    BY DEF FlowIInv, SourceKept
  <2>3. \E f \in effects : f.key = s /\ result[s] = f.before + 1
    BY <2>1, <2>2 DEF FlowIInv, ResultKept, Written
  <2>4. e.req = WriteCall(e.key).req
    BY <2>1 DEF FlowIInv, WrittenAsConfirmed
  <2>5. e.req.expected = target[e.key]
    BY <2>4 DEF WriteCall
  <2>6. e.before = e.req.expected
    BY DEF FlowIInv, StoreKept
  <2> QED
    BY <2>2, <2>3, <2>5, <2>6
<1> QED
  BY <1>1, FlowInvariant, PTL

\* What LifecycleRespected says of one step.
LifecycleStep ==
    \A a \in Approvals :
        /\ status'[a] # status[a] => <<status[a], status'[a]>> \in AllowedTransitions
        /\ status[a] \notin {"ABSENT", "WAITING_CONFIRMATION"} => draft'[a] = draft[a]

\* A compare-and-set that leaves the draft alone follows the table when its two
\* statuses do.
LEMMA CasFollowsTable ==
    ASSUME FlowTypeOK, NEW a \in Approvals, NEW from, NEW to, Cas(a, from, to),
           <<from, to>> \in AllowedTransitions, draft' = draft
    PROVE  LifecycleStep
BY DEF Cas, LifecycleStep, FlowTypeOK

\* The lifecycle of an approval: its status moves along the table only, and the
\* draft the owner confirmed is never replaced.
THEOREM FlowLifecycle == FlowSpec => LifecycleRespected
<1>1. ASSUME FlowIInv, [FlowNext]_vars
      PROVE  LifecycleStep
  <2> USE <1>1
  <2>1. FlowTypeOK
    BY DEF FlowIInv
  <2>2. CASE status' = status /\ draft' = draft
    BY <2>2 DEF LifecycleStep
  <2>3. ASSUME NEW a \in Approvals, NEW d, NEW v, NEW from, Create(a, d, v, from),
               status[a] = "ABSENT"
        PROVE  LifecycleStep
    BY <2>1, <2>3 DEF Create, LifecycleStep, AllowedTransitions, FlowTypeOK
  <2>4. CASE \/ \E a \in Approvals, d \in Drafts, v \in {version[Task], version[Task] - 1} :
                   SaveWaitingApproval(a, d, v)
             \/ \E s \in Reviews, a \in Reworks : CreateRework(s, a)
    <3>1. Reworks \subseteq Approvals
      BY DEF Approvals
    <3> QED
      BY <2>3, <2>4, <3>1 DEF SaveWaitingApproval, CreateRework
  <2>5. ASSUME NEW a \in Approvals, Cancel(a)
        PROVE  LifecycleStep
    BY <2>1, <2>5, CasFollowsTable DEF Cancel, Cancellable, FinishWaiting, AllowedTransitions
  <2>6. ASSUME NEW h \in Handlers, Expire(h) \/ MarkStale(h)
        PROVE  LifecycleStep
    <3>1. subject[h] \in Approvals
      BY <2>1 DEF FlowTypeOK
    <3>2. ASSUME NEW from, NEW next, NEW expected \in {"WAITING_CONFIRMATION", "CONFIRMED"},
                 ExpireIfNeeded(h, from, expected, next)
          PROVE  LifecycleStep
      <4>1. CASE Cas(subject[h], expected, "EXPIRED") /\ FinishWaiting(subject[h], "EXPIRED")
        BY <2>1, <3>1, <3>2, <4>1, CasFollowsTable DEF FinishWaiting, AllowedTransitions
      <4>2. CASE Go(h, next) \/ Stop(h)
        BY <2>2, <4>2 DEF Go, Stop, agentVars
      <4> QED
        BY <3>2, <4>1, <4>2 DEF ExpireIfNeeded
    <3>3. CASE MarkStale(h)
      <4>1. CASE Cas(subject[h], "CONFIRMED", "STALE") /\ FinishWaiting(subject[h], "STALE")
        BY <2>1, <3>1, <4>1, CasFollowsTable DEF FinishWaiting, AllowedTransitions
      <4>2. CASE Stop(h)
        BY <2>2, <4>2 DEF Stop, agentVars
      <4> QED
        BY <3>3, <4>1, <4>2 DEF MarkStale
    <3> QED
      BY <2>6, <3>2, <3>3 DEF Expire
  <2>7. ASSUME NEW h \in Handlers, ConfirmWaiting(h)
        PROVE  LifecycleStep
    <3>1. subject[h] \in Approvals
      BY <2>1 DEF FlowTypeOK
    <3>2. CASE Stop(h)
      BY <2>2, <3>2 DEF Stop, agentVars
    <3>3. CASE /\ Confirmable(subject[h]) /\ Cas(subject[h], status[subject[h]], "CONFIRMED")
               /\ draft' = [draft EXCEPT ![subject[h]] = wanted[h]]
      BY <2>1, <3>1, <3>3 DEF Confirmable, Cas, LifecycleStep, AllowedTransitions, FlowTypeOK
    <3> QED
      BY <2>7, <3>2, <3>3 DEF ConfirmWaiting
  <2>8. ASSUME NEW h \in Handlers, Lock(h)
        PROVE  LifecycleStep
    <3>1. subject[h] \in Approvals
      BY <2>1 DEF FlowTypeOK
    <3>2. CASE Stop(h)
      BY <2>2, <3>2 DEF Stop, agentVars
    <3>3. CASE LockFree(subject[h]) /\ Cas(subject[h], status[subject[h]], "EXECUTING")
               /\ draft' = draft
      BY <2>1, <3>1, <3>3, CasFollowsTable DEF LockFree, AllowedTransitions
    <3> QED
      BY <2>8, <3>2, <3>3 DEF Lock
  <2>9. ASSUME NEW h \in Handlers, FinishLocked(h)
        PROVE  LifecycleStep
    <3>1. subject[h] \in Approvals /\ fate[h] \in {"SUCCEEDED", "FAILED", "STALE"}
      BY <2>9 DEF FinishLocked, FlowIInv, FlowTypeOK, ConfirmedDraft
    <3>2. CASE Stop(h)
      BY <2>2, <3>2 DEF Stop, agentVars
    <3>3. CASE Cas(subject[h], "EXECUTING", fate[h]) /\ draft' = draft
      BY <2>1, <3>1, <3>3, CasFollowsTable DEF AllowedTransitions
    <3> QED
      BY <2>9, <3>2, <3>3 DEF FinishLocked
  <2>10. ASSUME NEW h \in Handlers,
                \/ ReadTask(h) \/ ReadIssues(h) \/ Announce(h) \/ Authorize(h) \/ Post(h)
                \/ Answer(h) \/ SaveResult(h) \/ ToolReturns(h) \/ HandlerFault(h)
         PROVE  LifecycleStep
    <3>1. status' = status /\ draft' = draft
      BY <2>10 DEF ReadTask, ReadIssues, Announce, Authorize, Post, Answer, SaveResult,
         ToolReturns, HandlerFault, ReadFails, AnnounceFails, Timeout, SaveInterrupted,
         Go, Stop, Conclude, agentVars
    <3> QED
      BY <2>2, <3>1
  <2>11. CASE \/ \E a \in Approvals : WindowCloses(a)
              \/ \E h \in Handlers, a \in Approvals, d \in Drafts : Snapshot(h, a, d)
              \/ \E c \in Conns : JavaStep(c) \/ JavaFails(c)
              \/ \E c \in Clients : ClientWrites(c)
              \/ DeleteSession \/ Restart \/ UNCHANGED vars
    <3>1. status' = status /\ draft' = draft
      BY <2>11 DEF WindowCloses, Snapshot, JavaStep, JavaFails, ClientWrites, DeleteSession,
         Restart, vars, agentVars
    <3> QED
      BY <2>2, <3>1
  <2> QED
    BY <2>4, <2>5, <2>6, <2>7, <2>8, <2>9, <2>10, <2>11 DEF FlowNext, Progress
<1>2. LifecycleStep => [LifecycleStep]_vars
  OBVIOUS
<1> QED
  BY <1>1, FlowInvariant, PTL DEF FlowSpec, LifecycleRespected, LifecycleStep

=============================================================================
