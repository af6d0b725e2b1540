--------------------------- MODULE BusinessStore ---------------------------
(* What the write API of the business service promises: every call takes    *)
(* effect, or is refused, in one atomic step, judged against the state of   *)
(* that step.  BusinessWrite, which runs the statements of the transactions *)
(* one by one under READ COMMITTED, is shown to implement this module.      *)
EXTENDS BusinessFacts

VARIABLES
    version,      \* task -> production_tasks.version
    effects,      \* rows appended by the two writes, with their operation log
    idem,         \* idempotency_records
    serial,       \* the last generated row id (UUIDs are fresh, so are serials)
    call,         \* handler -> the call it serves or served last
    reply         \* handler -> PENDING, or the answer of its last call

storeVars == <<version, effects, idem, serial, call, reply>>

Init ==
    /\ version = [t \in Tasks |-> 0]
    /\ effects = {}
    /\ idem = {}
    /\ serial = 0
    /\ call = [c \in Conns |-> CHOOSE k \in Calls : TRUE]
    \* no call served yet: the placeholder is replaced by the first Invoke
    /\ reply = [c \in Conns |-> Refused("LOST")]

Recorded(key) == {r \in idem : r.key = key}

\* A client sends a call, possibly the retry of an earlier one.
Invoke(c, k) ==
    /\ reply[c].outcome # "PENDING"
    /\ call' = [call EXCEPT ![c] = k]
    /\ reply' = [reply EXCEPT ![c] = Pending]
    /\ UNCHANGED <<version, effects, idem, serial>>

\* A fresh key and an acceptable request: one row, one version, one record.  The
\* answer may be lost after the commit.
Carry(c) ==
    LET key == call[c].key  req == call[c].req IN
    /\ reply[c].outcome = "PENDING"
    /\ req.actor \in Reviewers
    /\ Recorded(key) = {}
    /\ Acceptable(req, version[req.task], effects)
    /\ effects' = effects \cup
          {[id |-> serial + 1, key |-> key, req |-> req, before |-> req.expected,
            counted |-> CountedRows(effects, req)]}
    /\ idem' = idem \cup {[key |-> key, req |-> req, id |-> serial + 1,
                           after |-> req.expected + 1]}
    /\ serial' = serial + 1
    /\ \E answer \in {Accepted(serial + 1, req.expected + 1), Refused("LOST")} :
          reply' = [reply EXCEPT ![c] = answer]
    /\ version' = [version EXCEPT ![req.task] = req.expected + 1]
    /\ UNCHANGED call

\* A key that was used for this very request is answered with its first result.
Replay(c) ==
    /\ reply[c].outcome = "PENDING"
    /\ call[c].req.actor \in Reviewers
    /\ \E r \in Recorded(call[c].key) :
        /\ r.req = call[c].req
        /\ \E e \in effects : e.id = r.id
        /\ reply' = [reply EXCEPT ![c] = Accepted(r.id, r.after)]
    /\ UNCHANGED <<version, effects, idem, serial, call>>

\* A refusal has a reason in the present state and changes nothing.
Refuse(c) ==
    LET key == call[c].key  req == call[c].req IN
    /\ reply[c].outcome = "PENDING"
    /\ \/ /\ req.actor \notin Reviewers
          /\ reply' = [reply EXCEPT ![c] = Refused("FORBIDDEN")]
       \/ /\ \E r \in Recorded(key) : r.req # req
          /\ reply' = [reply EXCEPT ![c] = Refused("CONFLICT")]
       \/ /\ Recorded(key) = {}
          /\ ~Acceptable(req, version[req.task], effects)
          /\ \E o \in {"CONFLICT", "NOT_FOUND"} :
                reply' = [reply EXCEPT ![c] = Refused(o)]
    /\ UNCHANGED <<version, effects, idem, serial, call>>

\* A failure of the service rolls the transaction back.
Lose(c) ==
    /\ reply[c].outcome = "PENDING"
    /\ reply' = [reply EXCEPT ![c] = Refused("LOST")]
    /\ UNCHANGED <<version, effects, idem, serial, call>>

Next ==
    \E c \in Conns :
        \/ \E k \in Calls : Invoke(c, k)
        \/ Carry(c)
        \/ Replay(c)
        \/ Refuse(c)
        \/ Lose(c)

Spec == Init /\ [][Next]_storeVars
=============================================================================
