-------------------------- MODULE MCCatalogImport --------------------------
(* A library of two administrators and three states of the repository: r2     *)
(* differs from r1 in bytes that normalization drops, r3 in its catalog.      *)
EXTENDS CatalogImport, TLC

CONSTANTS r1, r2, r3, h1, h2, b1, b2

MCCatalogOf == r1 :> h1 @@ r2 :> h1 @@ r3 :> h2
MCBodyOf == r1 :> b1 @@ r2 :> b1 @@ r3 :> b2

CallSymmetry == Permutations(Calls) \cup Permutations(Admins) \cup Permutations(ConfirmationKeys)
============================================================================
