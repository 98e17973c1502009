------------------------------ MODULE Branding ------------------------------
(***************************************************************************)
(* What the icon store promises the pages that show the app icon: while     *)
(* there are icons one of them is shown, and it changes only when an        *)
(* administrator chooses another one or deletes it.                         *)
(***************************************************************************)
CONSTANTS IconIds, None

VARIABLES available, shown

vars == <<available, shown>>

Init == available = {} /\ shown = None

Add(i) ==
  /\ i \notin available
  /\ available' = available \union {i}
  /\ shown' = IF available = {} THEN i ELSE shown

Choose(i) ==
  /\ i \in available
  /\ shown' = i
  /\ UNCHANGED available

Drop(i) ==
  /\ i \in available
  /\ available' = available \ {i}
  /\ shown' \in IF i # shown THEN {shown}
                ELSE IF available = {i} THEN {None} ELSE available \ {i}

Next == \E i \in IconIds : Add(i) \/ Choose(i) \/ Drop(i)

Spec == Init /\ [][Next]_vars

=============================================================================
