----------------------------- MODULE MCDownload -----------------------------
(* An instance of Download for TLC.                                         *)
EXTENDS Download, TLC

\* The provider puts every user in every group; header logins are in none.
MCClaims == [u \in Users |-> Groups]

\* Bound: downloads run before the last tick, without logins of other browsers.
Explored ==
  \/ mine = 1..started /\ now < MaxTime
  \/ \A r \in Requests : read[r] = None /\ token[r] = None

DownloadSymmetry == Permutations(Users) \union Permutations(Requests) \union Permutations(Hosts)
=============================================================================
