------------------------------ MODULE Dashboard ------------------------------
(***************************************************************************)
(* The content store and the icon store behind one admin API: a request     *)
(* works on one of them at a time, each store has a mutex of its own, and   *)
(* the server dies with the requests to both.                               *)
(***************************************************************************)
EXTENDS ContentStore, IconStore

CONSTANT MaxNames   \* bound: random ids and file names handed out in all

ASSUME DashboardAssumption == MaxNames \in Nat

DashboardInit == Init /\ IconInit

ContentRequest(a) == job[a] = NoJob /\ Handle(a) /\ UNCHANGED iconVars

IconRequest(a) == At(a, "idle") /\ HandleIcon(a) /\ UNCHANGED vars

ServerCrash ==
  /\ \/ Crash
     \/ (\A a \in Admins : At(a, "idle")) /\ UNCHANGED vars
  /\ IconCrash

DashboardNext ==
  /\ (\E a \in Admins : ContentRequest(a) \/ IconRequest(a)) \/ ServerCrash
  /\ Cardinality(issued') + Cardinality(named') <= MaxNames

DashboardSpec == DashboardInit /\ [][DashboardNext]_<<vars, iconVars>>

=============================================================================
