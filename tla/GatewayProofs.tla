---------------------------- MODULE GatewayProofs ----------------------------
(***************************************************************************)
(* Proofs about Gateway, for every set of requests, every configuration    *)
(* and every assignment of methods, connection ids, addresses and users.    *)
(***************************************************************************)
EXTENDS Gateway, TLAPS

USE DEF controlVars, tunnelVars, cookieVars, processVars, forwardVars, tableVars, policyVars,
        processorVars, gatewayVars

-----------------------------------------------------------------------------
(* Type correctness.  A handler that is past "idle" works on a Tunnel, which *)
(* is what makes the look-ups of transports and of rwc well defined; one     *)
(* that is about to copy a cookie's address has that cookie.                 *)

Bound ==
  \A r \in Requests :
    /\ (pc[r] \notin {"idle", "done"} \/ fwd[r] # "none") => tun[r] # None
    /\ pc[r] = "idle" => tun[r] = None
    /\ pc[r] = "cookie" => paa[r] # None

\* Where a step other than PresentCookie may take a handler.
Places == (Registered \ {"cookie"}) \union
  {"out_attach", "out_cache", "in_check", "in_attach", "in_cache",
   "in_drain", "ws_attach", "register", "making", "registering", "done"}

\* The tunnel of a bound handler is one of the Tunnel objects.
LEMMA BoundTunnel ==
  ASSUME TypeOK, Bound, NEW r \in Requests,
         pc[r] \notin {"idle", "done"} \/ fwd[r] # "none"
  PROVE  tun[r] \in Requests
  BY DEF TypeOK, TunnelType, Bound, Maybe

\* A handler that moves to a known place with a known transport stays typed.
LEMMA GoToTyped ==
  ASSUME ControlType, NEW r \in Requests, NEW where \in Places,
         NEW transport \in Maybe(Requests), NEW next \in -1..6,
         GoTo(r, where, transport, next)
  PROVE  ControlType' /\ pc' = [pc EXCEPT ![r] = where]
  BY DEF ControlType, Places, GoTo, Set

\* So does one that waits for a call without a transport,
LEMMA AwaitTyped ==
  ASSUME ControlType, NEW r \in Requests, NEW where \in Places, Await(r, where)
  PROVE  ControlType' /\ pc' = [pc EXCEPT ![r] = where]
  BY GoToTyped DEF Await, Maybe, FAILED

\* one whose Process returns,
LEMMA ReturnTyped ==
  ASSUME ControlType, NEW r \in Requests, Return(r)
  PROVE  ControlType' /\ pc' = [pc EXCEPT ![r] = "ending"]
  <1>1. "ending" \in Places BY DEF Places, Registered
  <1> QED BY <1>1, GoToTyped DEF Return, Maybe, FAILED

\* one that starts to read from its tunnel's incoming transport,
LEMMA ReadTyped ==
  ASSUME ControlType, TunnelType, NEW r \in Requests, tun[r] \in Requests, Read(r)
  PROVE  ControlType' /\ pc' = [pc EXCEPT ![r] = "read"]
  <1>1. transportIn[tun[r]] \in Maybe(Requests) BY DEF TunnelType
  <1> QED BY <1>1, GoToTyped DEF Read, FAILED, Places, Registered, Processes

\* and one that starts to write a response, or panics for want of a transport.
LEMMA RespondTyped ==
  ASSUME ControlType, TunnelType, NEW r \in Requests, tun[r] \in Requests,
         NEW next \in -1..6, Respond(r, next)
  PROVE  ControlType' /\ \/ pc' = [pc EXCEPT ![r] = "write"]
                         \/ pc' = [pc EXCEPT ![r] = "ending"]
  <1>1. transportOut[tun[r]] \in Maybe(Requests) BY DEF TunnelType
  <1> QED BY <1>1, GoToTyped, ReturnTyped
          DEF Respond, FAILED, Places, Registered, Processes

\* So does one that starts to write to the desktop.
LEMMA SendTyped ==
  ASSUME ControlType, TunnelType, NEW r \in Requests, tun[r] \in Requests, Send(r)
  PROVE  ControlType' /\ \/ pc' = [pc EXCEPT ![r] = "send"]
                         \/ pc' = [pc EXCEPT ![r] = "ending"]
  <1>1. rwc[tun[r]] \in Maybe(Requests) BY DEF TunnelType
  <1> QED BY <1>1, GoToTyped, ReturnTyped DEF Send, FAILED, Places, Registered, Processes

\* A step of r's handler that moves r to where and starts no forward goroutine
\* keeps Bound.
LEMMA BoundKept ==
  ASSUME TypeOK, Bound, NEW r \in Requests, tun[r] \in Requests, NEW where \in Places,
         pc' = [pc EXCEPT ![r] = where], UNCHANGED <<tun, paa>>,
         \A q \in Requests : fwd'[q] # "none" => fwd[q] # "none" \/ q = r
  PROVE  Bound'
  BY ConstantsAssumption DEF Bound, TypeOK, ControlType, Places, Registered, Processes

\* A step of a request's handler outside Process keeps the types.
LEMMA HandlerTyped ==
  ASSUME TypeOK, Bound, NEW r \in Requests, Handler(r)
  PROVE  TypeOK' /\ Bound'
<1>1. CASE HandleGatewayProtocol(r)
    <2>2. ControlType' /\ \E where \in Places : pc' = [pc EXCEPT ![r] = where]
      BY <1>1, AwaitTyped, ConstantsAssumption DEF HandleGatewayProtocol, TypeOK, Places,
           Registered
    <2>3. TunnelType' /\ GatewayType'
      BY <1>1, ConstantsAssumption DEF HandleGatewayProtocol, TypeOK, GatewayType,
           TunnelType, Maybe, Set
    <2>4. ProcessType' /\ ForwardType' /\ TableType' /\ PolicyType'
      BY <1>1 DEF HandleGatewayProtocol, TypeOK, ProcessType, ForwardType, TableType, PolicyType
    <2>5. Bound'
      BY <1>1, <2>2, <2>3, ConstantsAssumption
      DEF HandleGatewayProtocol, Bound, Set, TypeOK, TunnelType, GatewayType,
          ControlType, Maybe, Places, Registered, Processes
    <2> QED BY <2>2, <2>3, <2>4, <2>5 DEF TypeOK
<1>2. CASE Refuse(r)
    <2>2. ControlType' /\ \E where \in Places : pc' = [pc EXCEPT ![r] = where]
      BY <1>2, AwaitTyped, ConstantsAssumption DEF Refuse, TypeOK, Places, Registered
    <2>3. GatewayType'
      BY <1>2 DEF Refuse, TypeOK, GatewayType, Maybe, Set
    <2>4. TunnelType' /\ ProcessType' /\ ForwardType' /\ TableType' /\ PolicyType'
      BY <1>2 DEF Refuse, TypeOK, TunnelType, ProcessType, ForwardType, TableType, PolicyType
    <2>5. Bound'
      BY <1>2 DEF Refuse, Bound, Await, GoTo, Set, TypeOK, ControlType
    <2> QED BY <2>2, <2>3, <2>4, <2>5 DEF TypeOK
<1>3. CASE WsAttach(r)
    <2>1. tun[r] \in Requests BY <1>3, BoundTunnel DEF WsAttach
    <2>2. ControlType' /\ \E where \in Places : pc' = [pc EXCEPT ![r] = where]
      BY <1>3, AwaitTyped, ConstantsAssumption DEF WsAttach, TypeOK, Places, Registered
    <2>3. TunnelType' /\ GatewayType'
      BY <1>3, <2>1, ConstantsAssumption DEF WsAttach, TypeOK, GatewayType, TunnelType,
           Maybe, Set
    <2>4. ProcessType' /\ ForwardType' /\ TableType' /\ PolicyType'
      BY <1>3 DEF WsAttach, TypeOK, ProcessType, ForwardType, TableType, PolicyType
    <2>5. Bound'
      BY <1>3, <2>1, <2>2, BoundKept DEF WsAttach
    <2> QED BY <2>2, <2>3, <2>4, <2>5 DEF TypeOK
<1>4. CASE OutAttach(r)
    <2>1. tun[r] \in Requests BY <1>4, BoundTunnel DEF OutAttach
    <2>2. ControlType' /\ \E where \in Places : pc' = [pc EXCEPT ![r] = where]
      BY <1>4, AwaitTyped, ConstantsAssumption DEF OutAttach, TypeOK, Places, Registered
    <2>3. TunnelType' /\ GatewayType'
      BY <1>4, <2>1, ConstantsAssumption DEF OutAttach, TypeOK, GatewayType, TunnelType,
           Maybe, Set
    <2>4. ProcessType' /\ ForwardType' /\ TableType' /\ PolicyType'
      BY <1>4 DEF OutAttach, TypeOK, ProcessType, ForwardType, TableType, PolicyType
    <2>5. Bound'
      BY <1>4, <2>1, <2>2, BoundKept DEF OutAttach
    <2> QED BY <2>2, <2>3, <2>4, <2>5 DEF TypeOK
<1>5. CASE OutCache(r)
    <2>1. tun[r] \in Requests BY <1>5, BoundTunnel DEF OutCache
    <2>2. ControlType' /\ \E where \in Places : pc' = [pc EXCEPT ![r] = where]
      BY <1>5, AwaitTyped, ConstantsAssumption DEF OutCache, TypeOK, Places, Registered
    <2>3. GatewayType'
      BY <1>5, <2>1, ConstantsAssumption DEF OutCache, TypeOK, GatewayType, TunnelType,
           Maybe, Set
    <2>4. TunnelType' /\ ProcessType' /\ ForwardType' /\ TableType' /\ PolicyType'
      BY <1>5 DEF OutCache, TypeOK, TunnelType, ProcessType, ForwardType, TableType, PolicyType
    <2>5. Bound'
      BY <1>5, <2>1, <2>2, BoundKept DEF OutCache
    <2> QED BY <2>2, <2>3, <2>4, <2>5 DEF TypeOK
<1>6. CASE InCheck(r)
    <2>1. tun[r] \in Requests BY <1>6, BoundTunnel DEF InCheck
    <2>2. ControlType' /\ \E where \in Places : pc' = [pc EXCEPT ![r] = where]
      BY <1>6, AwaitTyped, ConstantsAssumption DEF InCheck, TypeOK, Places, Registered
    <2>3. GatewayType'
      BY <1>6, <2>1 DEF InCheck, TypeOK, GatewayType, Maybe, Set
    <2>4. TunnelType' /\ ProcessType' /\ ForwardType' /\ TableType' /\ PolicyType'
      BY <1>6 DEF InCheck, TypeOK, TunnelType, ProcessType, ForwardType, TableType, PolicyType
    <2>5. Bound'
      BY <1>6, <2>1, <2>2, BoundKept DEF InCheck
    <2> QED BY <2>2, <2>3, <2>4, <2>5 DEF TypeOK
<1>7. CASE InAttach(r)
    <2>1. tun[r] \in Requests BY <1>7, BoundTunnel DEF InAttach
    <2>2. ControlType' /\ \E where \in Places : pc' = [pc EXCEPT ![r] = where]
      BY <1>7, AwaitTyped, ConstantsAssumption DEF InAttach, TypeOK, Places, Registered
    <2>3. TunnelType'
      BY <1>7, <2>1 DEF InAttach, TypeOK, TunnelType, Maybe, Set
    <2>4. ProcessType' /\ ForwardType' /\ TableType' /\ PolicyType' /\ GatewayType'
      BY <1>7 DEF InAttach, TypeOK, ProcessType, ForwardType, TableType, PolicyType, GatewayType
    <2>5. Bound'
      BY <1>7, <2>1, <2>2, BoundKept DEF InAttach
    <2> QED BY <2>2, <2>3, <2>4, <2>5 DEF TypeOK
<1>8. CASE InCache(r)
    <2>1. tun[r] \in Requests BY <1>8, BoundTunnel DEF InCache
    <2>2. ControlType' /\ \E where \in Places : pc' = [pc EXCEPT ![r] = where]
      BY <1>8, AwaitTyped, ConstantsAssumption DEF InCache, TypeOK, Places, Registered
    <2>3. GatewayType'
      BY <1>8, <2>1, ConstantsAssumption DEF InCache, TypeOK, GatewayType, TunnelType, Maybe,
           Set
    <2>4. TunnelType' /\ ProcessType' /\ ForwardType' /\ TableType' /\ PolicyType'
      BY <1>8 DEF InCache, TypeOK, TunnelType, ProcessType, ForwardType, TableType, PolicyType
    <2>5. Bound'
      BY <1>8, <2>1, <2>2, BoundKept DEF InCache
    <2> QED BY <2>2, <2>3, <2>4, <2>5 DEF TypeOK
<1>9. CASE InDrain(r)
    <2>1. tun[r] \in Requests BY <1>9, BoundTunnel DEF InDrain
    <2>2. ControlType' /\ \E where \in Places : pc' = [pc EXCEPT ![r] = where]
      BY <1>9, AwaitTyped, ConstantsAssumption DEF InDrain, TypeOK, Places, Registered
    <2>4. TunnelType' /\ ProcessType' /\ ForwardType' /\ TableType' /\ PolicyType' /\ GatewayType'
      BY <1>9 DEF InDrain, TypeOK, TunnelType, ProcessType, ForwardType, TableType,
           PolicyType, GatewayType
    <2>5. Bound'
      BY <1>9, <2>1, <2>2, BoundKept DEF InDrain
    <2> QED BY <2>2, <2>4, <2>5 DEF TypeOK
<1> QED BY <1>1, <1>2, <1>3, <1>4, <1>5, <1>6, <1>7, <1>8, <1>9 DEF Handler

\* A packet from the client keeps the types.
LEMMA PacketTyped ==
  ASSUME TypeOK, Bound, NEW r \in Requests, Packet(r), UNCHANGED gatewayVars
  PROVE  TypeOK' /\ Bound'
<1>1. ASSUME NEW req \in SUBSET AuthCaps, HandshakeRequest(r, req) PROVE TypeOK' /\ Bound'
    <2>1. tun[r] \in Requests BY <1>1, BoundTunnel DEF HandshakeRequest, Received
    <2>2. ControlType' /\ \E where \in Places : pc' = [pc EXCEPT ![r] = where]
      BY <1>1, <2>1, RespondTyped DEF HandshakeRequest, TypeOK, Places, Registered,
           Processes, FAILED, SERVER_STATE_HANDSHAKE
    <2>4. TunnelType' /\ ProcessType' /\ ForwardType' /\ TableType' /\ PolicyType' /\ GatewayType'
      BY <1>1 DEF HandshakeRequest, TypeOK, TunnelType, ProcessType, ForwardType, TableType,
           PolicyType, GatewayType
    <2>5. Bound'
      BY <1>1, <2>1, <2>2, BoundKept DEF HandshakeRequest
    <2> QED BY <2>2, <2>4, <2>5 DEF TypeOK
<1>2. ASSUME NEW tok \in Tokens \union {None}, TunnelCreate(r, tok) PROVE TypeOK' /\ Bound'
    <2>1. tun[r] \in Requests BY <1>2, BoundTunnel DEF TunnelCreate, Received
    <2>2. TunnelType' /\ ProcessType'
      BY <1>2, <2>1, ConstantsAssumption DEF TunnelCreate, PresentCookie, TypeOK,
           ProcessType, TunnelType, Maybe, Set
    <2>3. ForwardType' /\ TableType' /\ PolicyType' /\ GatewayType'
      BY <1>2 DEF TunnelCreate, PresentCookie, TypeOK, ForwardType, TableType, PolicyType,
           GatewayType
    <2>4. CASE PresentCookie(r, tok) /\ tok # None
      <3>1. ControlType' /\ pc' = [pc EXCEPT ![r] = "cookie"]
        BY <2>4 DEF PresentCookie, Await, GoTo, Set, TypeOK, ControlType, Registered,
             Processes, Maybe, FAILED
      <3>2. paa' = [paa EXCEPT ![r] = tok] /\ UNCHANGED <<tun, fwd>>
        BY <1>2, <2>4 DEF TunnelCreate, PresentCookie, Set
      <3>3. Bound'
        BY <2>1, <2>4, <3>1, <3>2, ConstantsAssumption
        DEF Bound, TypeOK, ControlType, ProcessType
      <3> QED BY <2>2, <2>3, <3>1, <3>3 DEF TypeOK
    <2>5. CASE UNCHANGED paa /\ \E next \in -1..6 : Respond(r, next)
      <3>1. ControlType' /\ \E where \in Places : pc' = [pc EXCEPT ![r] = where]
        BY <2>1, <2>5, RespondTyped DEF TypeOK, Places, Registered, Processes
      <3>2. Bound' BY <1>2, <2>1, <2>5, <3>1, BoundKept DEF TunnelCreate
      <3> QED BY <2>2, <2>3, <3>1, <3>2 DEF TypeOK
    <2> QED BY <1>2, <2>4, <2>5 DEF TunnelCreate, FAILED, SERVER_STATE_TUNNEL_CREATE
<1>3. CASE TunnelAuth(r)
    <2>1. tun[r] \in Requests BY <1>3, BoundTunnel DEF TunnelAuth, Received
    <2>2. ControlType' /\ \E where \in Places : pc' = [pc EXCEPT ![r] = where]
      BY <1>3, <2>1, RespondTyped DEF TunnelAuth, TypeOK, Places, Registered, Processes,
           FAILED, SERVER_STATE_TUNNEL_AUTHORIZE
    <2>4. TunnelType' /\ ProcessType' /\ ForwardType' /\ TableType' /\ PolicyType' /\ GatewayType'
      BY <1>3 DEF TunnelAuth, TypeOK, TunnelType, ProcessType, ForwardType, TableType,
           PolicyType, GatewayType
    <2>5. Bound'
      BY <1>3, <2>1, <2>2, BoundKept DEF TunnelAuth
    <2> QED BY <2>2, <2>4, <2>5 DEF TypeOK
<1>4. ASSUME NEW h \in Hosts, NEW listed \in BOOLEAN, ChannelCreate(r, h, listed)
      PROVE  TypeOK' /\ Bound'
    <2>1. tun[r] \in Requests BY <1>4, BoundTunnel DEF ChannelCreate, Received
    <2>2. ControlType' /\ \E where \in Places : pc' = [pc EXCEPT ![r] = where]
      BY <1>4, <2>1, RespondTyped, AwaitTyped DEF ChannelCreate, TypeOK, Places, Registered,
           Processes, FAILED
    <2>3. ProcessType'
      BY <1>4, <2>1 DEF ChannelCreate, TypeOK, ProcessType, Maybe, Set
    <2>4. TunnelType' /\ ForwardType' /\ TableType' /\ PolicyType' /\ GatewayType'
      BY <1>4 DEF ChannelCreate, TypeOK, TunnelType, ForwardType, TableType, PolicyType,
           GatewayType
    <2>5. Bound'
      BY <1>4, <2>1, <2>2, BoundKept DEF ChannelCreate
    <2> QED BY <2>2, <2>3, <2>4, <2>5 DEF TypeOK
<1>5. CASE Data(r)
    <2>1. tun[r] \in Requests BY <1>5, BoundTunnel DEF Data, Received
    <2>2. ControlType' /\ \E where \in Places : pc' = [pc EXCEPT ![r] = where]
      BY <1>5, <2>1, SendTyped, ReturnTyped DEF Data, TypeOK, Places, Registered, Processes
    <2>3. ProcessType'
      BY <1>5, <2>1 DEF Data, TypeOK, ProcessType, Maybe, Set, SERVER_STATE_OPENED
    <2>4. TunnelType' /\ ForwardType' /\ TableType' /\ PolicyType' /\ GatewayType'
      BY <1>5 DEF Data, TypeOK, TunnelType, ForwardType, TableType, PolicyType, GatewayType
    <2>5. Bound'
      BY <1>5, <2>1, <2>2, BoundKept DEF Data
    <2> QED BY <2>2, <2>3, <2>4, <2>5 DEF TypeOK
<1>6. CASE Keepalive(r)
    <2>1. tun[r] \in Requests BY <1>6, BoundTunnel DEF Keepalive, Received
    <2>2. ControlType' /\ \E where \in Places : pc' = [pc EXCEPT ![r] = where]
      BY <1>6, <2>1, ReadTyped, ReturnTyped DEF Keepalive, TypeOK, Places, Registered, Processes
    <2>4. TunnelType' /\ ProcessType' /\ ForwardType' /\ TableType' /\ PolicyType' /\ GatewayType'
      BY <1>6 DEF Keepalive, TypeOK, TunnelType, ProcessType, ForwardType, TableType,
           PolicyType, GatewayType
    <2>5. Bound'
      BY <1>6, <2>1, <2>2, BoundKept DEF Keepalive
    <2> QED BY <2>2, <2>4, <2>5 DEF TypeOK
<1>7. CASE CloseChannel(r)
    <2>1. tun[r] \in Requests BY <1>7, BoundTunnel DEF CloseChannel, Received
    <2>2. ControlType' /\ \E where \in Places : pc' = [pc EXCEPT ![r] = where]
      BY <1>7, <2>1, RespondTyped, ReturnTyped DEF CloseChannel, TypeOK, Places, Registered,
           Processes, FAILED, SERVER_STATE_CLOSED
    <2>4. TunnelType' /\ ProcessType' /\ ForwardType' /\ TableType' /\ PolicyType' /\ GatewayType'
      BY <1>7 DEF CloseChannel, TypeOK, TunnelType, ProcessType, ForwardType, TableType,
           PolicyType, GatewayType
    <2>5. Bound'
      BY <1>7, <2>1, <2>2, BoundKept DEF CloseChannel
    <2> QED BY <2>2, <2>4, <2>5 DEF TypeOK
<1>8. CASE Ignored(r)
    <2>1. tun[r] \in Requests BY <1>8, BoundTunnel DEF Ignored, Received
    <2>2. ControlType' /\ \E where \in Places : pc' = [pc EXCEPT ![r] = where]
      BY <1>8, <2>1, ReadTyped DEF Ignored, TypeOK, Places, Registered, Processes
    <2>4. TunnelType' /\ ProcessType' /\ ForwardType' /\ TableType' /\ PolicyType' /\ GatewayType'
      BY <1>8 DEF Ignored, TypeOK, TunnelType, ProcessType, ForwardType, TableType,
           PolicyType, GatewayType
    <2>5. Bound'
      BY <1>8, <2>1, <2>2, BoundKept DEF Ignored
    <2> QED BY <2>2, <2>4, <2>5 DEF TypeOK
<1> QED BY <1>1, <1>2, <1>3, <1>4, <1>5, <1>6, <1>7, <1>8 DEF Packet

\* So does every other step of a processor.
LEMMA ProcessTyped ==
  ASSUME TypeOK, Bound, NEW r \in Requests, Process(r), UNCHANGED gatewayVars
  PROVE  TypeOK' /\ Bound'
<1>1. CASE RegisterBegin(r)
    <2>1. tun[r] \in Requests BY <1>1, BoundTunnel DEF RegisterBegin
    <2>2. ControlType' /\ \E where \in Places : pc' = [pc EXCEPT ![r] = where]
      BY <1>1, AwaitTyped, ConstantsAssumption DEF RegisterBegin, NewProcessor, TypeOK,
           Places, Registered
    <2>3. ProcessType' /\ PolicyType'
      BY <1>1, <2>1 DEF RegisterBegin, NewProcessor, TypeOK, PolicyType, ProcessType, Maybe,
           Set, SERVER_STATE_INITIALIZED
    <2>4. TunnelType' /\ ForwardType' /\ TableType' /\ GatewayType'
      BY <1>1 DEF RegisterBegin, NewProcessor, TypeOK, TunnelType, ForwardType, TableType,
           GatewayType
    <2>5. Bound'
      BY <1>1, <2>1, <2>2, BoundKept DEF RegisterBegin, NewProcessor
    <2> QED BY <2>2, <2>3, <2>4, <2>5 DEF TypeOK
<1>2. CASE RegisterEnd(r)
    <2>1. tun[r] \in Requests BY <1>2, BoundTunnel DEF RegisterEnd
    <2>2. ControlType' /\ \E where \in Places : pc' = [pc EXCEPT ![r] = where]
      BY <1>2, <2>1, ReadTyped DEF RegisterEnd, TypeOK, Places, Registered, Processes
    <2>3. TableType'
      BY <1>2, <2>1 DEF RegisterEnd, TypeOK, TableType, Maybe, Set
    <2>4. TunnelType' /\ ProcessType' /\ ForwardType' /\ PolicyType' /\ GatewayType'
      BY <1>2 DEF RegisterEnd, TypeOK, TunnelType, ProcessType, ForwardType, PolicyType,
           GatewayType
    <2>5. Bound'
      BY <1>2, <2>1, <2>2, BoundKept DEF RegisterEnd
    <2> QED BY <2>2, <2>3, <2>4, <2>5 DEF TypeOK
<1>3. CASE Packet(r) BY <1>3, PacketTyped
<1>4. CASE UserInfo(r)
    <2>1. tun[r] \in Requests BY <1>4, BoundTunnel DEF UserInfo
    <2>2. ControlType' /\ \E where \in Places : pc' = [pc EXCEPT ![r] = where]
      BY <1>4, <2>1, RespondTyped DEF UserInfo, TypeOK, Places, Registered, Processes,
           FAILED, SERVER_STATE_TUNNEL_CREATE
    <2>3. ProcessType'
      BY <1>4 DEF UserInfo, TypeOK, ProcessType, Set
    <2>4. TunnelType' /\ ForwardType' /\ TableType' /\ PolicyType' /\ GatewayType'
      BY <1>4 DEF UserInfo, TypeOK, TunnelType, ForwardType, TableType, PolicyType,
           GatewayType
    <2>5. Bound'
      BY <1>4, <2>1, <2>2, BoundKept DEF UserInfo
    <2> QED BY <2>2, <2>3, <2>4, <2>5 DEF TypeOK
<1>5. CASE Dial(r)
    <2>1. tun[r] \in Requests BY <1>5, BoundTunnel DEF Dial
    <2>2. ControlType' /\ \E where \in Places : pc' = [pc EXCEPT ![r] = where]
      BY <1>5, <2>1, RespondTyped DEF Dial, TypeOK, Places, Registered, Processes, FAILED,
           SERVER_STATE_CHANNEL_CREATE
    <2>3. TunnelType' /\ ProcessType'
      BY <1>5, <2>1 DEF Dial, TypeOK, ProcessType, TunnelType, Maybe, Set
    <2>4. ForwardType' /\ TableType' /\ PolicyType' /\ GatewayType'
      BY <1>5 DEF Dial, TypeOK, ForwardType, TableType, PolicyType, GatewayType
    <2>5. Bound'
      BY <1>5, <2>1, <2>2, BoundKept DEF Dial
    <2> QED BY <2>2, <2>3, <2>4, <2>5 DEF TypeOK
<1>6. CASE ResponseWritten(r)
    <2>1. tun[r] \in Requests BY <1>6, BoundTunnel DEF ResponseWritten
    <2>2. ControlType' /\ \E where \in Places : pc' = [pc EXCEPT ![r] = where]
      BY <1>6, <2>1, ReadTyped, ReturnTyped DEF ResponseWritten, TypeOK, Places, Registered,
           Processes
    <2>3. ProcessType' /\ ForwardType'
      BY <1>6, <2>1 DEF ResponseWritten, TypeOK, ForwardType, ProcessType, Maybe, Set,
           ControlType, TunnelType, FAILED, SERVER_STATE_CHANNEL_CREATE
    <2>4. TunnelType' /\ TableType' /\ PolicyType' /\ GatewayType'
      BY <1>6 DEF ResponseWritten, TypeOK, TunnelType, TableType, PolicyType, GatewayType
    <2>5. Bound'
      BY <1>6, <2>1, <2>2, BoundKept DEF ResponseWritten, Set, TypeOK, ForwardType
    <2> QED BY <2>2, <2>3, <2>4, <2>5 DEF TypeOK
<1>7. CASE ReadError(r)
    <2>1. tun[r] \in Requests BY <1>7, BoundTunnel DEF ReadError
    <2>2. ControlType' /\ \E where \in Places : pc' = [pc EXCEPT ![r] = where]
      BY <1>7, ReturnTyped DEF ReadError, TypeOK, Places, Registered
    <2>4. TunnelType' /\ ProcessType' /\ ForwardType' /\ TableType' /\ PolicyType' /\ GatewayType'
      BY <1>7 DEF ReadError, TypeOK, TunnelType, ProcessType, ForwardType, TableType,
           PolicyType, GatewayType
    <2>5. Bound'
      BY <1>7, <2>1, <2>2, BoundKept DEF ReadError
    <2> QED BY <2>2, <2>4, <2>5 DEF TypeOK
<1>8. CASE WritePanic(r)
    <2>1. tun[r] \in Requests BY <1>8, BoundTunnel DEF WritePanic
    <2>2. ControlType' /\ \E where \in Places : pc' = [pc EXCEPT ![r] = where]
      BY <1>8, ReturnTyped DEF WritePanic, TypeOK, Places, Registered
    <2>4. TunnelType' /\ ProcessType' /\ ForwardType' /\ TableType' /\ PolicyType' /\ GatewayType'
      BY <1>8 DEF WritePanic, TypeOK, TunnelType, ProcessType, ForwardType, TableType,
           PolicyType, GatewayType
    <2>5. Bound'
      BY <1>8, <2>1, <2>2, BoundKept DEF WritePanic
    <2> QED BY <2>2, <2>4, <2>5 DEF TypeOK
<1>9. CASE RemoveBegin(r)
    <2>1. tun[r] \in Requests BY <1>9, BoundTunnel DEF RemoveBegin
    <2>2. ControlType' /\ \E where \in Places : pc' = [pc EXCEPT ![r] = where]
      BY <1>9, AwaitTyped, ConstantsAssumption DEF RemoveBegin, TypeOK, Places, Registered
    <2>4. TunnelType' /\ ProcessType' /\ ForwardType' /\ TableType' /\ PolicyType' /\ GatewayType'
      BY <1>9 DEF RemoveBegin, TypeOK, TunnelType, ProcessType, ForwardType, TableType,
           PolicyType, GatewayType
    <2>5. Bound'
      BY <1>9, <2>1, <2>2, BoundKept DEF RemoveBegin
    <2> QED BY <2>2, <2>4, <2>5 DEF TypeOK
<1>10. CASE RemoveEnd(r)
    <2>1. tun[r] \in Requests BY <1>10, BoundTunnel DEF RemoveEnd
    <2>2. ControlType' /\ \E where \in Places : pc' = [pc EXCEPT ![r] = where]
      BY <1>10, AwaitTyped, ConstantsAssumption DEF RemoveEnd, TypeOK, Places, Registered
    <2>3. TableType' /\ GatewayType'
      BY <1>10, <2>1 DEF RemoveEnd, TypeOK, GatewayType, TableType, Maybe, Set
    <2>4. TunnelType' /\ ProcessType' /\ ForwardType' /\ PolicyType'
      BY <1>10 DEF RemoveEnd, TypeOK, TunnelType, ProcessType, ForwardType, PolicyType
    <2>5. Bound'
      BY <1>10, <2>1, <2>2, BoundKept DEF RemoveEnd
    <2> QED BY <2>2, <2>3, <2>4, <2>5 DEF TypeOK
<1>11. CASE SetRemoteAddr(r)
    <2>1. tun[r] \in Requests BY <1>11, BoundTunnel DEF SetRemoteAddr
    <2>2. ControlType' /\ \E where \in Places : pc' = [pc EXCEPT ![r] = where]
      BY <1>11, AwaitTyped DEF SetRemoteAddr, TypeOK, Places, Registered, Processes
    <2>3. TunnelType'
      BY <1>11, <2>1, ConstantsAssumption
      DEF SetRemoteAddr, Bound, TypeOK, TunnelType, ProcessType, Maybe, Set
    <2>4. ProcessType' /\ ForwardType' /\ TableType' /\ PolicyType' /\ GatewayType'
      BY <1>11 DEF SetRemoteAddr, TypeOK, ProcessType, ForwardType, TableType,
           PolicyType, GatewayType
    <2>5. Bound'
      BY <1>11, <2>1, <2>2, BoundKept DEF SetRemoteAddr
    <2> QED BY <2>2, <2>3, <2>4, <2>5 DEF TypeOK
<1>12. CASE DataSent(r)
    <2>1. tun[r] \in Requests BY <1>12, BoundTunnel DEF DataSent
    <2>2. ControlType' /\ \E where \in Places : pc' = [pc EXCEPT ![r] = where]
      BY <1>12, <2>1, ReadTyped DEF DataSent, TypeOK, Places, Registered, Processes
    <2>4. TunnelType' /\ ProcessType' /\ ForwardType' /\ TableType' /\ PolicyType' /\ GatewayType'
      BY <1>12 DEF DataSent, TypeOK, TunnelType, ProcessType, ForwardType, TableType,
           PolicyType, GatewayType
    <2>5. Bound'
      BY <1>12, <2>1, <2>2, BoundKept DEF DataSent
    <2> QED BY <2>2, <2>4, <2>5 DEF TypeOK
<1> QED BY <1>1, <1>2, <1>3, <1>4, <1>5, <1>6, <1>7, <1>8, <1>9, <1>10, <1>11, <1>12
        DEF Process

\* A forward goroutine, and the end of a desktop connection, keep the types.
LEMMA ForwardTyped ==
  ASSUME TypeOK, Bound, NEW r \in Requests, Forward(r), UNCHANGED gatewayVars
  PROVE  TypeOK' /\ Bound'
<1>1. /\ ControlType' /\ TunnelType' /\ TableType' /\ PolicyType' /\ GatewayType'
      /\ UNCHANGED <<pc, tun, paa>>
    BY DEF Forward, ForwardRead, ForwardWritten, ForwardEnd, BackendBreak, TypeOK,
           ControlType, TunnelType, TableType, PolicyType, GatewayType
<1>2. ProcessType'
    BY DEF Forward, ForwardRead, ForwardWritten, ForwardEnd, BackendBreak, TypeOK,
           ProcessType, Set
<1>3. ForwardType'
  <2>1. CASE ForwardRead(r)
    <3>1. tun[r] \in Requests BY <2>1, BoundTunnel DEF ForwardRead
    <3> QED BY <2>1, <3>1 DEF ForwardRead, TypeOK, ForwardType, TunnelType, Set
  <2>2. CASE ForwardWritten(r) \/ ForwardEnd(r) \/ BackendBreak(r)
    BY <2>2 DEF ForwardWritten, ForwardEnd, BackendBreak, TypeOK, ForwardType, Maybe, Set
  <2> QED BY <2>1, <2>2 DEF Forward
<1>4. \A q \in Requests : fwd'[q] # "none" => fwd[q] # "none"
    BY DEF Forward, ForwardRead, ForwardWritten, ForwardEnd, BackendBreak, TypeOK,
           ForwardType, Set
<1>5. Bound' BY <1>1, <1>4 DEF Bound
<1> QED BY <1>1, <1>2, <1>3, <1>5 DEF TypeOK

\* Every step keeps the types: one case per group of actions of Next.
LEMMA NextTyped ==
  ASSUME TypeOK, Bound, [Next]_vars
  PROVE  TypeOK' /\ Bound'
<1>1. CASE \E r \in Requests : Handler(r)
    BY <1>1, HandlerTyped
<1>2. ASSUME NEW r \in Requests, ClientLeaves(r) PROVE TypeOK' /\ Bound'
    BY <1>2 DEF ClientLeaves, Set, Bound, TypeOK, ControlType, TunnelType, ProcessType,
                ForwardType, TableType, PolicyType, GatewayType
<1>3. CASE \E r \in Requests : (Process(r) \/ Forward(r)) /\ UNCHANGED gatewayVars
    BY <1>3, ProcessTyped, ForwardTyped
<1>4. ASSUME NEW c \in ConnIds, CacheExpire(c) PROVE TypeOK' /\ Bound'
    BY <1>4 DEF CacheExpire, Set, Maybe, Bound, TypeOK, ControlType, TunnelType,
                ProcessType, ForwardType, TableType, PolicyType, GatewayType
<1>5. ASSUME NEW inv \in SUBSET (Users \X Hosts), EditInventory(inv)
      PROVE  TypeOK' /\ Bound'
  <2>1. PolicyType' BY <1>5 DEF EditInventory, TypeOK, PolicyType
  <2> QED BY <1>5, <2>1 DEF EditInventory, Bound, TypeOK, ControlType, TunnelType,
                ProcessType, ForwardType, TableType, GatewayType
<1>6. CASE Crash
    BY <1>6 DEF Crash, Bound, TypeOK, ControlType, TunnelType, ProcessType,
                ForwardType, TableType, PolicyType, GatewayType
<1>7. CASE UNCHANGED vars
    BY <1>7 DEF vars, Bound, TypeOK, ControlType, TunnelType, ProcessType,
                ForwardType, TableType, PolicyType, GatewayType
<1> QED BY <1>1, <1>2, <1>3, <1>4, <1>5, <1>6, <1>7 DEF Next

\* The initial state is typed and no handler is running.
LEMMA InitTyped == Init => TypeOK /\ Bound
<1> SUFFICES ASSUME Init PROVE TypeOK /\ Bound OBVIOUS
<1>1. ControlType /\ ProcessType
    BY DEF Init, ControlType, ProcessType, Registered, Maybe, FAILED,
           SERVER_STATE_INITIALIZED
<1>2. TunnelType /\ ForwardType
    BY DEF Init, TunnelType, ForwardType, Maybe
<1>3. TableType /\ PolicyType /\ GatewayType
    BY DEF Init, TableType, PolicyType, GatewayType, Maybe
<1>4. Bound BY DEF Init, Bound
<1> QED BY <1>1, <1>2, <1>3, <1>4 DEF TypeOK

\* Every reachable state of the gateway is type-correct, and every handler that
\* is running has a Tunnel.
THEOREM TypedAndBound == Spec => [](TypeOK /\ Bound)
<1>1. TypeOK /\ Bound /\ [Next]_vars => TypeOK' /\ Bound' BY NextTyped
<1> QED BY <1>1, InitTyped, PTL DEF Spec

\* Whatever the requests, tokens and configuration, each field of the tunnels,
\* processors, cache and connection table keeps its type.
THEOREM TypeCorrect == Spec => []TypeOK
BY TypedAndBound, PTL

=============================================================================
