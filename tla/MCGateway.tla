------------------------------ MODULE MCGateway ------------------------------
(* Instances of Gateway for TLC.                                            *)
EXTENDS Gateway, TLC

CONSTANTS r1, r2, r3, h1, h2, a1, a2, u1, u2, c1, c2

\* The in half of a legacy connection and a websocket on one connection id:
\* whenever the cache hits, two processors share a Tunnel object.
SharedMethod == (r1 :> "IN") @@ (r2 :> "WS")
OneConnId == [r \in Requests |-> c1]
\* The two halves of a legacy connection, and the out half of another user's.
LegacyMethod == (r1 :> "OUT") @@ (r2 :> "IN") @@ (r3 :> "OUT")
WsMethod     == (r1 :> "WS")
LiveMethod   == (r1 :> "OUT") @@ (r2 :> "IN")
LegacyConnId == (r1 :> c1) @@ (r2 :> c1) @@ (r3 :> c2)
LegacyUser   == (r1 :> u1) @@ (r2 :> u1) @@ (r3 :> u2)

OneAddr  == [r \in Requests |-> a1]
TwoAddrs == (r1 :> a1) @@ (r2 :> a2)
OneUser  == [r \in Requests |-> u1]

TwoTokens == {[host |-> h1, ip |-> a1], [host |-> h2, ip |-> a2]}

\* Bound: once both processors have their host, neither client nor desktop leaves.
QuietRelay ==
  \/ \E r \in Requests : target[r] = None
  \/ \A r \in Requests : link[r] # "gone" /\ backend[r] \in {"none", "open"}

AnyOrder == [r \in Requests |-> None]
InAfterOut == (r1 :> None) @@ (r2 :> r1)
=============================================================================
