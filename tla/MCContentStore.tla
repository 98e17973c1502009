--------------------------- MODULE MCContentStore ---------------------------
(* Instances of ContentStore for TLC.                                       *)
EXTENDS ContentStore, TLC

Symmetry == Permutations(Ids) \union Permutations(Files) \union Permutations(Admins)
=============================================================================
