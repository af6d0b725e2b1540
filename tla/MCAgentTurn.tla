----------------------------- MODULE MCAgentTurn -----------------------------
(* Instances of AgentTurn.                                                    *)
EXTENDS AgentTurn

CONSTANT s1

TwoTurns == 1..2
=============================================================================
