--------------------------- MODULE MCConversation ---------------------------
(* Three turns in a session about two orders, with two pages and three kinds  *)
(* of wording: enough for a switch of order by page and by message, for two    *)
(* overlapping turns, and for a clarification of a clarification.              *)
EXTENDS Conversation

CONSTANTS o1, o2, t1, t2, i1

ThreeTurns == 1..3

About(o, t, i) == [order_id |-> o, task_id |-> t, issue_id |-> i]

QualityAndOrderPage == {About(o1, t1, i1), About(o2, None, None)}
SomeWords == {About(None, None, None), About(o2, t2, None), About(None, t2, None)}
=============================================================================
