--------------------------- MODULE MCApprovalFlow ---------------------------
(* One task with an open issue, one review approval, up to two ids for the    *)
(* rework approvals derived from it, handlers and one foreign writer.         *)
EXTENDS ApprovalFlow, TLC

CONSTANTS v1, w1, w2, h1, h2, z1, f1, t1, i1, u1, x1

Foreign ==
    [key |-> f1,
     req |-> [op |-> "SUBMIT_REVIEW", task |-> t1, issue |-> i1, actor |-> u1,
              status |-> "REJECTED", text |-> x1, expected |-> 0]]

OneCall == {Foreign}
MCCalls == {Foreign, [Foreign EXCEPT !.req.expected = 1]}

MCTaskStatus == t1 :> "COMPLETED"
MCIssueStatus == i1 :> "OPEN"
MCIssueTask == i1 :> t1

Draft(c) == [conclusion |-> c, comment |-> x1]
OneDraft == {Draft("REWORK_REQUIRED")}
TwoDrafts == {Draft("REWORK_REQUIRED"), Draft("REJECTED")}
ThreeDrafts == TwoDrafts \cup {Draft("APPROVED")}

HandlerSymmetry == Permutations(Handlers)
=============================================================================
