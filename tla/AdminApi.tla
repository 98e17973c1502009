------------------------------ MODULE AdminApi ------------------------------
(* What the stores behind the dashboard's admin API have in common.         *)
CONSTANTS
  Admins,   \* concurrent admin requests
  None      \* no value
=============================================================================
