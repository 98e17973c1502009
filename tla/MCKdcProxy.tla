----------------------------- MODULE MCKdcProxy -----------------------------
(* An instance of KdcProxy for TLC.                                         *)
EXTENDS KdcProxy
=============================================================================
