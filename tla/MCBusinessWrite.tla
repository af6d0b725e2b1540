------------------------- MODULE MCBusinessWrite -------------------------
(* A small instance of BusinessWrite: calls that race on one version, that   *)
(* retry, that reuse a key for another request, and that must be refused.    *)
EXTENDS BusinessWrite, TLC

CONSTANTS c1, c2, t1, t2, i1, i2, i3, k1, k2, k3, k4, u1, u2, x1

MCTaskStatus == t1 :> "COMPLETED" @@ t2 :> "RUNNING"
MCIssueStatus == i1 :> "OPEN" @@ i2 :> "RESOLVED" @@ i3 :> "CLOSED"
MCIssueTask == i1 :> t1 @@ i2 :> t1 @@ i3 :> t1

Review(t, i, s, v, u) ==
    [op |-> "SUBMIT_REVIEW", task |-> t, issue |-> i, actor |-> u,
     status |-> s, text |-> x1, expected |-> v]

Rework(t, i, v, u) ==
    [op |-> "CREATE_REWORK", task |-> t, issue |-> i, actor |-> u,
     status |-> "NONE", text |-> x1, expected |-> v]

On(k, r) == [key |-> k, req |-> r]

\* Two reworks of one issue, from one and from successive versions; two reviews.
RaceCalls ==
    { On(k1, Rework(t1, i1, 0, u1)),
      On(k2, Rework(t1, i1, 0, u1)),
      On(k3, Rework(t1, i1, 1, u1)),
      On(k2, Review(t1, i1, "REJECTED", 0, u1)),
      On(k3, Review(t1, i2, "APPROVED", 1, u1)),
      On(k1, Review(t1, i2, "REWORK_REQUIRED", 2, u1)),
      On(k4, Review(t1, i1, "REJECTED", 2, u1)) }

\* Refusals: role, task status, issue status, approval of an open issue.
RefusedCalls ==
    { On(k1, Rework(t1, i1, 0, u2)),
      On(k2, Review(t2, i1, "REJECTED", 0, u1)),
      On(k3, Rework(t1, i3, 0, u1)),
      On(k4, Review(t1, i1, "APPROVED", 0, u1)),
      On(k4, Rework(t1, i2, 0, u1)) }

MCCalls == RaceCalls \cup RefusedCalls

=============================================================================
