----------------------------- MODULE MCAuthUsers -----------------------------
(* Instances of AuthUsers for TLC.                                          *)
EXTENDS AuthUsers, TLC

Symmetry ==
  Permutations(Passwords) \union Permutations(Lookups) \union Permutations(Admins)
=============================================================================
