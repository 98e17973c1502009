-------------------------------- MODULE Relay --------------------------------
(***************************************************************************)
(* What the gateway promises about the course of a connection, whatever     *)
(* packets its client sends and whoever shares its tunnel: the stages of    *)
(* the protocol follow one another, none is skipped or entered twice; one   *)
(* host at most is admitted, after the tunnel is authorized; one desktop at *)
(* most is connected, after its host is admitted; and its output is relayed *)
(* from the moment the client has been told of the channel.                 *)
(*                                                                         *)
(* Stages are numbered as the server's states: 0 initialized, 1 handshake,  *)
(* 2 tunnel created, 3 tunnel authorized, 4 channel created, 5 opened,      *)
(* 6 closed.                                                                *)
(***************************************************************************)
EXTENDS Naturals

CONSTANTS Requests, Hosts, None

VARIABLES
  stage,      \* how far each connection is
  host,       \* the host admitted for it, or None
  desktop,    \* its desktop's connection: none, open, broken, closed
  relaying    \* the connections whose desktop's output is relayed

vars == <<stage, host, desktop, relaying>>

Init ==
  /\ stage = [r \in Requests |-> 0]
  /\ host = [r \in Requests |-> None]
  /\ desktop = [r \in Requests |-> "none"]
  /\ relaying = {}

Advance(r) ==
  /\ stage[r] < 3
  /\ stage' = [stage EXCEPT ![r] = @ + 1]
  /\ UNCHANGED <<host, desktop, relaying>>

Admit(r, h) ==
  /\ stage[r] = 3 /\ host[r] = None
  /\ host' = [host EXCEPT ![r] = h]
  /\ UNCHANGED <<stage, desktop, relaying>>

Connect(r) ==
  /\ stage[r] = 3 /\ host[r] # None /\ desktop[r] = "none"
  /\ desktop' = [desktop EXCEPT ![r] = "open"]
  /\ UNCHANGED <<stage, host, relaying>>

CreateChannel(r) ==
  /\ stage[r] = 3 /\ desktop[r] # "none"
  /\ stage' = [stage EXCEPT ![r] = 4]
  /\ relaying' = relaying \union {r}
  /\ UNCHANGED <<host, desktop>>

Use(r) ==
  /\ stage[r] = 4
  /\ stage' = [stage EXCEPT ![r] = 5]
  /\ UNCHANGED <<host, desktop, relaying>>

Close(r) ==
  /\ stage[r] = 5
  /\ stage' = [stage EXCEPT ![r] = 6]
  /\ UNCHANGED <<host, desktop, relaying>>

Break(r) ==
  /\ desktop[r] = "open"
  /\ desktop' = [desktop EXCEPT ![r] = "broken"]
  /\ UNCHANGED <<stage, host, relaying>>

Release(r) ==
  /\ desktop[r] = "broken"
  /\ desktop' = [desktop EXCEPT ![r] = "closed"]
  /\ UNCHANGED <<stage, host, relaying>>

Step(r) ==
  \/ Advance(r) \/ (\E h \in Hosts : Admit(r, h)) \/ Connect(r) \/ CreateChannel(r)
  \/ Use(r) \/ Close(r) \/ Break(r) \/ Release(r)

Spec == Init /\ [][\E r \in Requests : Step(r)]_vars

=============================================================================
