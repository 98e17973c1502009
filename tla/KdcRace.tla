------------------------------- MODULE KdcRace -------------------------------
(***************************************************************************)
(* What the KDC proxy promises for one request: the first complete reply of *)
(* any KDC is the answer, and the request fails only while none has come.   *)
(***************************************************************************)
CONSTANTS Endpoints, None

VARIABLES
  status,    \* pending, replied, failed
  first,     \* the KDC heard first, or None
  answer     \* the KDC whose reply is the answer, or None

vars == <<status, first, answer>>

Init == status = "pending" /\ first = None /\ answer = None

Hear(k) ==
  /\ status = "pending" /\ first = None
  /\ first' = k
  /\ UNCHANGED <<status, answer>>

Reply ==
  /\ status = "pending" /\ first # None
  /\ status' = "replied" /\ answer' = first
  /\ UNCHANGED first

Fail ==
  /\ status = "pending" /\ first = None
  /\ status' = "failed"
  /\ UNCHANGED <<first, answer>>

Next == (\E k \in Endpoints : Hear(k)) \/ Reply \/ Fail

Safety == Init /\ [][Next]_vars

Spec == Safety /\ WF_vars(Reply \/ Fail)

=============================================================================
