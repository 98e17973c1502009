----------------------------- MODULE MCDashboard -----------------------------
(* An instance of Dashboard for TLC.                                        *)
EXTENDS Dashboard, TLC

Symmetry ==
  Permutations(Ids) \union Permutations(Files) \union Permutations(Admins)
    \union Permutations(IconIds)
=============================================================================
