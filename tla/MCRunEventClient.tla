-------------------------- MODULE MCRunEventClient --------------------------
(* One page, a second user who may take over its stream id once it is free,    *)
(* and a second stream that may take the only place there is.                  *)
EXTENDS RunEventClient, TLC

CONSTANTS s1, s2, u1, u2, k1, q1, q2, p1

MCStreamOf == k1 :> s1
MCUserOf == k1 :> u1

QueueSymmetry == Permutations(Queues)
=============================================================================
