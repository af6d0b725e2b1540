---------------------- MODULE MCKnowledgeLifecycle ----------------------
(* Small instances of the managed knowledge library.                       *)
EXTENDS KnowledgeLifecycle, TLC

CONSTANTS s1, s2, a, b     \* processes and index identities

SameIndex == (s1 :> a) @@ (s2 :> a)
\* The second process is configured with another embedding model.
TwoIndexes == (s1 :> a) @@ (s2 :> b)

Symmetric == Permutations(Versions) \cup Permutations(Contents)
             \cup Permutations(Uploads) \cup Permutations(Publications)
====
