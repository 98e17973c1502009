--------------------------- MODULE ConnectionProofs ---------------------------
(***************************************************************************)
(* What a request owns, for every instance: the connection id that it       *)
(* carries is the one of the tunnel it works on, of every transport that    *)
(* tunnel has, and so of everything it reads and writes; the host it dials  *)
(* was offered to its user; and with a tunnel to itself it forwards its own *)
(* desktop and leaves no entry in the table of connections.                 *)
(***************************************************************************)
EXTENDS TokenProofs

USE DEF controlVars, tunnelVars, cookieVars, processVars, forwardVars, tableVars, policyVars,
        processorVars, gatewayVars

\* x, if there is one, belongs to connection id c.
On(x, c) == x # None => ConnId[x] = c

\* The binding of requests to tunnels, and of tunnels to transports and desktops.
TunnelsOnConnection ==
  /\ \A c \in ConnIds : On(cache[c], c)
  /\ \A r \in Requests : On(tun[r], ConnId[r])
  /\ \A t \in Requests : /\ On(transportIn[t], ConnId[t]) /\ On(transportOut[t], ConnId[t])
                          /\ On(rwc[t], ConnId[t])

\* Whoever answers, or forwards, has a transport to write to.
HasOutput ==
  \A r \in Requests : pc[r] = "write" \/ fwd[r] # "none" =>
    tun[r] # None /\ transportOut[tun[r]] # None

ConnectionInv == TunnelsOnConnection /\ HasOutput /\ StaysOnConnection

-----------------------------------------------------------------------------
\* A handler looks at no connections but the ones of its tunnel.
LEMMA GoesToTunnel ==
  ASSUME TypeOK, Bound, ConnectionInv, NEW r \in Requests, tun[r] \in Requests,
         \/ \E where \in (Places \union {"cookie"}) \ {"write"} : Await(r, where)
         \/ Return(r) \/ Read(r) \/ Send(r) \/ \E next \in -1..6 : Respond(r, next),
         UNCHANGED <<tun, transportIn, transportOut, fwdOut, cache>>,
         \A t \in Requests : rwc'[t] \in {rwc[t], None} \/ (t = tun[r] /\ rwc'[t] = r),
         \A q \in Requests : \/ fwd'[q] = fwd[q]
                             \/ q = r /\ fwd'[q] = "read" /\ pc[r] = "write"
  PROVE  ConnectionInv'
<1>0. /\ \E x \in {None, transportIn[tun[r]], transportOut[tun[r]], rwc[tun[r]]} :
            io' = [io EXCEPT ![r] = x]
      /\ \E where : pc' = [pc EXCEPT ![r] = where]
                    /\ (where = "write" => transportOut[tun[r]] # None)
    BY DEF Await, Return, Read, Send, Respond, GoTo, Set
<1>1. \A q \in Requests : On(io'[q], ConnId[q])
    BY <1>0, ConstantsAssumption DEF On, ConnectionInv, TunnelsOnConnection,
           StaysOnConnection, TypeOK, ControlType
<1>2. HasOutput'
    BY <1>0, ConstantsAssumption DEF ConnectionInv, HasOutput, TypeOK, ControlType
<1>3. TunnelsOnConnection' BY ConstantsAssumption DEF ConnectionInv, TunnelsOnConnection, On
<1>4. StaysOnConnection' BY <1>1 DEF ConnectionInv, StaysOnConnection, On
<1> QED BY <1>2, <1>3, <1>4 DEF ConnectionInv

\* Accepting a request, and attaching its transport, keep the ids apart.
LEMMA HandlerOnConnection ==
  ASSUME TypeOK, Bound, ConnectionInv, NEW r \in Requests, Handler(r)
  PROVE  ConnectionInv'
<1>1. /\ io' = [io EXCEPT ![r] = None] /\ UNCHANGED <<fwd, fwdOut, rwc>>
      /\ \E where \in Places \ {"write"} : pc' = [pc EXCEPT ![r] = where]
    BY ConstantsAssumption
    DEF Handler, HandleGatewayProtocol, Refuse, WsAttach, OutAttach, OutCache,
        InCheck, InAttach, InCache, InDrain, Await, GoTo, Set, Places
<1>2. StaysOnConnection'
    BY <1>1 DEF ConnectionInv, StaysOnConnection, TypeOK, ControlType
<1>3. TunnelsOnConnection'
  <2>1. CASE HandleGatewayProtocol(r)
    <3>1. /\ tun' = [tun EXCEPT ![r] = IF cache[ConnId[r]] = None THEN r
                                       ELSE cache[ConnId[r]]]
          /\ UNCHANGED <<cache, transportIn, transportOut, rwc>>
      BY <2>1 DEF HandleGatewayProtocol, Set
    <3>2. \A q \in Requests : On(tun'[q], ConnId[q])
      <4>1. tun'[r] = (IF cache[ConnId[r]] = None THEN r ELSE cache[ConnId[r]])
            /\ \A q \in Requests \ {r} : tun'[q] = tun[q]
        BY <3>1 DEF TypeOK, TunnelType, ControlType, GatewayType
      <4> QED BY <4>1, ConstantsAssumption DEF ConnectionInv, TunnelsOnConnection, On
    <3> QED BY <3>1, <3>2 DEF ConnectionInv, TunnelsOnConnection, On
  <2>2. CASE WsAttach(r) \/ OutAttach(r) \/ InAttach(r)
    <3>1. tun[r] \in Requests BY <2>2, BoundTunnel DEF WsAttach, OutAttach, InAttach
    <3> QED BY <2>2, <3>1, ConstantsAssumption
            DEF WsAttach, OutAttach, InAttach, ConnectionInv, TunnelsOnConnection,
                On, Set, TypeOK, TunnelType
  <2>3. CASE OutCache(r) \/ InCache(r)
    <3>1. tun[r] \in Requests BY <2>3, BoundTunnel DEF OutCache, InCache
    <3> QED BY <2>3, <3>1, ConstantsAssumption
            DEF OutCache, InCache, ConnectionInv, TunnelsOnConnection, On, Set,
                TypeOK, GatewayType
  <2>4. CASE Refuse(r) \/ InCheck(r) \/ InDrain(r)
    BY <2>4 DEF Refuse, InCheck, InDrain, ConnectionInv, TunnelsOnConnection, On
  <2> QED BY <2>1, <2>2, <2>3, <2>4 DEF Handler
<1>4. HasOutput'
  <2>1. CASE HandleGatewayProtocol(r)
    <3>1. fwd[r] = "none" BY <2>1 DEF HandleGatewayProtocol, Bound
    <3> QED BY <2>1, <1>1, <3>1, ConstantsAssumption
            DEF HandleGatewayProtocol, ConnectionInv, HasOutput, Set,
                TypeOK, ControlType, TunnelType
  <2>2. CASE UNCHANGED tun
    <3>1. \A t \in Requests : transportOut[t] # None => transportOut'[t] # None
      BY <2>2, ConstantsAssumption
      DEF Handler, HandleGatewayProtocol, Refuse, WsAttach, OutAttach, OutCache, InCheck,
          InAttach, InCache, InDrain, Set, TypeOK, TunnelType
    <3> QED BY <2>2, <3>1, <1>1
            DEF ConnectionInv, HasOutput, TypeOK, ControlType, TunnelType, Maybe
  <2> QED BY <2>1, <2>2 DEF Handler, Refuse, WsAttach, OutAttach, OutCache, InCheck,
                            InAttach, InCache, InDrain
<1> QED BY <1>2, <1>3, <1>4 DEF ConnectionInv

\* A processor's step: it may only read or write where its tunnel points.
LEMMA ProcessOnConnection ==
  ASSUME TypeOK, Bound, ConnectionInv, NEW r \in Requests, Process(r),
         UNCHANGED gatewayVars
  PROVE  ConnectionInv'
<1>0. /\ tun[r] \in Requests /\ pc[r] # "idle"
      /\ UNCHANGED <<tun, transportIn, transportOut, fwdOut, cache>>
  <2>1. pc[r] \notin {"idle", "done"}
    BY DEF Process, RegisterBegin, RegisterEnd, Packet, SetRemoteAddr, UserInfo, Dial,
           ResponseWritten, DataSent, ReadError, WritePanic, RemoveBegin, RemoveEnd, HandshakeRequest, TunnelCreate,
           TunnelAuth, ChannelCreate, Data, Keepalive, CloseChannel, Ignored, Received
  <2>2. UNCHANGED <<tun, transportIn, transportOut, fwdOut, cache>>
    BY DEF Process, RegisterBegin, RegisterEnd, Packet, SetRemoteAddr, UserInfo, Dial,
           ResponseWritten, DataSent, ReadError, WritePanic, RemoveBegin, RemoveEnd, HandshakeRequest, TunnelCreate,
           TunnelAuth, ChannelCreate, Data, Keepalive, CloseChannel, Ignored
  <2> QED BY <2>1, <2>2, BoundTunnel
<1>1. \/ \E where \in (Places \union {"cookie"}) \ {"write"} : Await(r, where)
      \/ Return(r) \/ Read(r) \/ Send(r) \/ \E next \in -1..6 : Respond(r, next)
  <2> USE DEF Places, Registered, Processes, FAILED
  <2>1. CASE RegisterBegin(r) BY <2>1 DEF RegisterBegin
  <2>2. CASE RegisterEnd(r) BY <2>2 DEF RegisterEnd
  <2>3. CASE Packet(r)
    BY <2>3 DEF Packet, HandshakeRequest, TunnelCreate, PresentCookie, TunnelAuth,
                ChannelCreate, Data, Keepalive, CloseChannel, Ignored,
                SERVER_STATE_HANDSHAKE, SERVER_STATE_TUNNEL_CREATE,
                SERVER_STATE_TUNNEL_AUTHORIZE, SERVER_STATE_CLOSED
  <2>4. CASE UserInfo(r) BY <2>4 DEF UserInfo, SERVER_STATE_TUNNEL_CREATE
  <2>5. CASE Dial(r) BY <2>5 DEF Dial, SERVER_STATE_CHANNEL_CREATE
  <2>6. CASE ResponseWritten(r) BY <2>6 DEF ResponseWritten
  <2>7. CASE ReadError(r) BY <2>7 DEF ReadError
  <2>8. CASE WritePanic(r) BY <2>8 DEF WritePanic
  <2>9. CASE RemoveBegin(r) BY <2>9 DEF RemoveBegin
  <2>10. CASE RemoveEnd(r) BY <2>10 DEF RemoveEnd
  <2>11. CASE SetRemoteAddr(r) BY <2>11 DEF SetRemoteAddr
  <2>12. CASE DataSent(r) BY <2>12 DEF DataSent
  <2> QED BY <2>1, <2>2, <2>3, <2>4, <2>5, <2>6, <2>7, <2>8, <2>9, <2>10, <2>11, <2>12
          DEF Process
<1>2. \A q \in Requests : \/ fwd'[q] = fwd[q]
                          \/ q = r /\ fwd'[q] = "read" /\ pc[r] = "write"
  <2>1. CASE ResponseWritten(r)
    BY <2>1 DEF ResponseWritten, Set, TypeOK, ForwardType
  <2>2. CASE ~ResponseWritten(r)
    BY <2>2 DEF Process, RegisterBegin, RegisterEnd, Packet, SetRemoteAddr, UserInfo, Dial,
           DataSent, ReadError, WritePanic, RemoveBegin, RemoveEnd, HandshakeRequest, TunnelCreate,
           TunnelAuth, ChannelCreate, Data, Keepalive, CloseChannel, Ignored
  <2> QED BY <2>1, <2>2
<1>3. \A t \in Requests : rwc'[t] \in {rwc[t], None} \/ (t = tun[r] /\ rwc'[t] = r)
  <2>1. CASE Dial(r)
    BY <1>0, <2>1 DEF Dial, Set, TypeOK, TunnelType
  <2>2. CASE ~Dial(r)
    BY <2>2 DEF Process, RegisterBegin, RegisterEnd, Packet, SetRemoteAddr, UserInfo,
           ResponseWritten, DataSent, ReadError, WritePanic, RemoveBegin, RemoveEnd,
           HandshakeRequest, TunnelCreate, TunnelAuth, ChannelCreate, Data, Keepalive,
           CloseChannel, Ignored
  <2> QED BY <2>1, <2>2
<1> QED BY <1>0, <1>1, <1>2, <1>3, GoesToTunnel

\* The forward goroutine writes to its tunnel's transport, or stops.
LEMMA ForwardOnConnection ==
  ASSUME TypeOK, Bound, ConnectionInv, NEW r \in Requests, Forward(r),
         UNCHANGED gatewayVars
  PROVE  ConnectionInv'
<1>1. UNCHANGED <<pc, io, tun, transportIn, transportOut, rwc, cache>>
    BY DEF Forward, ForwardRead, ForwardWritten, ForwardEnd, BackendBreak
<1>2. TunnelsOnConnection' BY <1>1 DEF ConnectionInv, TunnelsOnConnection, On
<1>3. HasOutput'
    BY <1>1 DEF Forward, ForwardRead, ForwardWritten, ForwardEnd, BackendBreak, Set,
                ConnectionInv, HasOutput, TypeOK, ForwardType
<1>4. StaysOnConnection'
  <2>1. CASE ForwardRead(r)
    <3>1. tun[r] \in Requests /\ transportOut[tun[r]] # None
      BY <2>1, BoundTunnel DEF ForwardRead, ConnectionInv, HasOutput
    <3>2. ConnId[transportOut[tun[r]]] = ConnId[r]
      BY <3>1, ConstantsAssumption DEF ConnectionInv, TunnelsOnConnection, On
    <3> QED BY <1>1, <2>1, <3>1, <3>2
            DEF ForwardRead, Set, ConnectionInv, StaysOnConnection, TypeOK, ForwardType
  <2>2. CASE ~ForwardRead(r)
    BY <1>1, <2>2 DEF Forward, ForwardWritten, ForwardEnd, BackendBreak, Set,
                      ConnectionInv, StaysOnConnection, TypeOK, ForwardType
  <2> QED BY <2>1, <2>2
<1> QED BY <1>2, <1>3, <1>4 DEF ConnectionInv

\* Every step keeps ConnectionInv.
LEMMA NextOnConnection ==
  ASSUME TypeOK, Bound, ConnectionInv, [Next]_vars
  PROVE  ConnectionInv'
<1>1. CASE \E r \in Requests : Handler(r) BY <1>1, HandlerOnConnection
<1>2. CASE \E r \in Requests : (Process(r) \/ Forward(r)) /\ UNCHANGED gatewayVars
    BY <1>2, ProcessOnConnection, ForwardOnConnection
<1>3. ASSUME NEW c \in ConnIds, CacheExpire(c) PROVE ConnectionInv'
    BY <1>3 DEF CacheExpire, Set, ConnectionInv, TunnelsOnConnection, HasOutput,
                StaysOnConnection, On, TypeOK, GatewayType
<1>4. CASE \/ \E r \in Requests : ClientLeaves(r)
           \/ \E inv \in SUBSET (Users \X Hosts) : EditInventory(inv)
           \/ Crash \/ UNCHANGED vars
    BY <1>4 DEF ClientLeaves, EditInventory, Crash, vars, ConnectionInv,
                TunnelsOnConnection, HasOutput, StaysOnConnection, On
<1> QED BY <1>1, <1>2, <1>3, <1>4 DEF Next

\* Before any request arrives no transport is attached and nothing is
\* forwarded.
LEMMA InitOnConnection == Init => ConnectionInv
BY DEF Init, ConnectionInv, TunnelsOnConnection, HasOutput, StaysOnConnection, On

\* Every read and write of every handler and forward goroutine is on a
\* connection of the request's own Rdg-Connection-Id, for any number of requests
\* and any sharing of tunnels through the cache.
THEOREM StaysOnItsConnection == Spec => []StaysOnConnection
<1>1. TypeOK /\ Bound /\ ConnectionInv /\ [Next]_vars => ConnectionInv'
    BY NextOnConnection
<1>2. ConnectionInv => StaysOnConnection BY DEF ConnectionInv
<1> QED BY <1>1, <1>2, InitOnConnection, TypedAndBound, PTL DEF Spec

-----------------------------------------------------------------------------
(* How far a processor is                                                   *)

\* A host is approved and forwarding starts only inside Process; a processor that
\* forwards has dialled, and neither dials again nor answers with an earlier state.
ProgressOf(r) ==
  /\ pc[r] \notin Registered \union {"done"} => target[r] = None /\ fwd[r] = "none"
  /\ pc[r] = "write" /\ reply[r] = SERVER_STATE_CHANNEL_CREATE => target[r] # None
  /\ fwd[r] # "none" =>
       /\ state[r] >= SERVER_STATE_CHANNEL_CREATE /\ target[r] # None
       /\ pc[r] \notin {"cookie", "userinfo", "dial"}
       /\ pc[r] = "write" => reply[r] \in {FAILED, SERVER_STATE_CLOSED}

ProgressInv == \A r \in Requests : ProgressOf(r)

\* What a step of r's processor does to r: it begins, is listed, approves a host, has
\* dialled it, starts forwarding, ends, or does none of these.
Begins(r) ==
  /\ pc[r] = "register" /\ pc'[r] \in {"making", "registering"}
  /\ offered' = [offered EXCEPT ![r] = inventory]
  /\ UNCHANGED <<target, fwd, fwdConn, rwc, Connections>>

Lists(r) ==
  /\ pc[r] \in {"making", "registering"} /\ pc'[r] = "read"
  /\ \A i \in Requests : IF i = Id[tun[r]] THEN Connections'[i] = r
                          ELSE Connections'[i] \in {None, Connections[i]}
  /\ UNCHANGED <<state, target, fwd, fwdConn, rwc, offered>>

Admits(r) ==
  /\ pc[r] = "read" /\ state[r] = SERVER_STATE_TUNNEL_AUTHORIZE /\ pc'[r] = "dial"
  /\ \E h \in Hosts : CheckHost(r, h) /\ target' = [target EXCEPT ![r] = h]
  /\ UNCHANGED <<state, fwd, fwdConn, rwc, Connections, offered>>

Dialled(r) ==
  /\ pc[r] = "dial" /\ pc'[r] \in {"write", "ending"}
  /\ \/ rwc' = [rwc EXCEPT ![tun[r]] = r]
     \/ /\ rwc' = [rwc EXCEPT ![tun[r]] = None]
        /\ pc'[r] = "write" => reply'[r] = FAILED
  /\ UNCHANGED <<state, target, fwd, fwdConn, Connections, offered>>

Forwards(r) ==
  /\ pc[r] = "write" /\ reply[r] = SERVER_STATE_CHANNEL_CREATE /\ pc'[r] = "read"
  /\ state'[r] = SERVER_STATE_CHANNEL_CREATE
  /\ fwd' = [fwd EXCEPT ![r] = "read"] /\ fwdConn' = [fwdConn EXCEPT ![r] = rwc[tun[r]]]
  /\ UNCHANGED <<target, rwc, Connections, offered>>

Leaves(r) ==
  /\ pc[r] = "removing" /\ pc'[r] = "done"
  /\ Connections' = [Connections EXCEPT ![Id[tun[r]]] = None]
  /\ UNCHANGED <<state, target, fwd, fwdConn, rwc, offered>>

GoesOn(r) ==
  /\ pc[r] \in {"read", "cookie", "write", "userinfo", "send", "ending"}
  /\ pc'[r] \in Registered \ {"dial"}
  /\ pc'[r] = "cookie" => state[r] = SERVER_STATE_HANDSHAKE /\ pc[r] = "read"
  /\ pc'[r] = "userinfo" => pc[r] = "cookie"
  /\ pc'[r] = "write" =>
       \/ reply'[r] \in {FAILED, SERVER_STATE_CLOSED}
       \/ /\ reply'[r] # SERVER_STATE_CHANNEL_CREATE
          /\ state[r] < SERVER_STATE_CHANNEL_CREATE \/ pc[r] = "userinfo"
  /\ \/ state'[r] = state[r] \/ state'[r] >= SERVER_STATE_CHANNEL_CREATE
     \/ pc[r] = "write" /\ reply[r] \notin {FAILED, SERVER_STATE_CLOSED}
  /\ UNCHANGED <<target, fwd, fwdConn, rwc, Connections, offered>>

\* No step of r's processor touches another's, or the binding of tunnels.
OthersKept(r) ==
  /\ UNCHANGED <<tun, Id, inventory>>
  /\ \A q \in Requests \ {r} : pc'[q] = pc[q] /\ reply'[q] = reply[q] /\ state'[q] = state[q]

LEMMA PacketSteps ==
  ASSUME TypeOK, Bound, CookieInv, NEW r \in Requests, Packet(r)
  PROVE  OthersKept(r) /\ (Admits(r) \/ GoesOn(r))
<1> USE DEF SERVER_STATE_INITIALIZED, SERVER_STATE_HANDSHAKE, SERVER_STATE_TUNNEL_CREATE,
            SERVER_STATE_TUNNEL_AUTHORIZE, SERVER_STATE_CHANNEL_CREATE,
            SERVER_STATE_OPENED, SERVER_STATE_CLOSED, FAILED, Registered, Processes
<1>0. pc[r] = "read" /\ state[r] \in 0..6
    BY DEF Packet, HandshakeRequest, TunnelCreate, TunnelAuth, ChannelCreate, Data,
           Keepalive, CloseChannel, Ignored, Received, TypeOK, ProcessType
<1>1. ASSUME NEW req \in SUBSET AuthCaps, HandshakeRequest(r, req)
      PROVE  OthersKept(r) /\ GoesOn(r)
    BY <1>0, <1>1, RespondOwn DEF HandshakeRequest, OthersKept, GoesOn
<1>2. ASSUME NEW tok \in Tokens \union {None}, TunnelCreate(r, tok)
      PROVE  OthersKept(r) /\ GoesOn(r)
    BY <1>0, <1>2, RespondOwn, GoToOwn
    DEF TunnelCreate, PresentCookie, Await, OthersKept, GoesOn
<1>3. CASE TunnelAuth(r)
    BY <1>0, <1>3, RespondOwn DEF TunnelAuth, OthersKept, GoesOn
<1>4. ASSUME NEW h \in Hosts, NEW listed \in BOOLEAN, ChannelCreate(r, h, listed)
      PROVE  OthersKept(r) /\ (Admits(r) \/ GoesOn(r))
    BY <1>0, <1>4, RespondOwn, GoToOwn
    DEF ChannelCreate, Await, Set, OthersKept, Admits, GoesOn
<1>5. CASE Data(r)
    BY <1>0, <1>5, GoToOwn
    DEF Data, Send, Return, Set, TypeOK, ProcessType, OthersKept, GoesOn
<1>6. CASE Keepalive(r) \/ Ignored(r)
    BY <1>0, <1>6, GoToOwn DEF Keepalive, Ignored, Read, Return, OthersKept, GoesOn
<1>7. CASE CloseChannel(r)
    BY <1>0, <1>7, RespondOwn, GoToOwn DEF CloseChannel, Return, OthersKept, GoesOn
<1> QED BY <1>1, <1>2, <1>3, <1>4, <1>5, <1>6, <1>7 DEF Packet

LEMMA ProcessSteps ==
  ASSUME TypeOK, Bound, CookieInv, NEW r \in Requests, Process(r)
  PROVE  /\ OthersKept(r)
         /\ \/ Begins(r) \/ Lists(r) \/ Admits(r) \/ Dialled(r)
            \/ Forwards(r) \/ Leaves(r) \/ GoesOn(r)
<1> USE DEF SERVER_STATE_CHANNEL_CREATE, SERVER_STATE_TUNNEL_CREATE, SERVER_STATE_CLOSED,
            FAILED, Registered, Processes
<1>0. state[r] \in 0..6 /\ reply[r] \in -1..6
    BY DEF TypeOK, ProcessType, ControlType
<1>1. CASE RegisterBegin(r)
  <2>1. /\ pc'[r] \in {"making", "registering"}
        /\ \A q \in Requests \ {r} : pc'[q] = pc[q] /\ reply'[q] = reply[q]
    BY <1>1, GoToOwn DEF RegisterBegin, Await
  <2>2. OthersKept(r)
    BY <1>1, <2>1 DEF RegisterBegin, NewProcessor, Set, TypeOK, ProcessType, OthersKept
  <2>3. Begins(r) BY <1>1, <2>1 DEF RegisterBegin, NewProcessor, Set, Begins
  <2> QED BY <2>2, <2>3
<1>2. CASE RegisterEnd(r)
    BY <1>2, GoToOwn DEF RegisterEnd, Read, OthersKept, Lists
<1>3. CASE Packet(r) BY <1>3, PacketSteps
<1>4. CASE UserInfo(r)
    BY <1>4, RespondOwn DEF UserInfo, OthersKept, GoesOn
<1>5. CASE Dial(r)
    BY <1>5, RespondOwn DEF Dial, Set, OthersKept, Dialled
<1>6. CASE ResponseWritten(r)
  <2>1. CASE reply[r] = SERVER_STATE_CHANNEL_CREATE
    BY <1>6, <2>1, GoToOwn
    DEF ResponseWritten, Read, Set, TypeOK, ProcessType, OthersKept, Forwards
  <2>2. CASE reply[r] # SERVER_STATE_CHANNEL_CREATE
    BY <1>0, <1>6, <2>2, GoToOwn
    DEF ResponseWritten, Read, Return, Set, TypeOK, ProcessType, OthersKept, GoesOn
  <2> QED BY <2>1, <2>2
<1>7. CASE ReadError(r) \/ WritePanic(r) \/ RemoveBegin(r)
    BY <1>7, GoToOwn
    DEF ReadError, WritePanic, RemoveBegin, Return, Await, OthersKept, GoesOn
<1>8. CASE RemoveEnd(r)
    BY <1>8, GoToOwn DEF RemoveEnd, Await, Set, OthersKept, Leaves
<1>9. CASE SetRemoteAddr(r) \/ DataSent(r)
    BY <1>9, GoToOwn DEF SetRemoteAddr, DataSent, Await, Read, OthersKept, GoesOn
<1> QED BY <1>1, <1>2, <1>3, <1>4, <1>5, <1>6, <1>7, <1>8, <1>9 DEF Process

\* A handler outside Process changes nothing but where it is, and may bind or
\* attach to a tunnel; only one that goes on to run a processor renames it.
LEMMA HandlerSteps ==
  ASSUME TypeOK, Bound, CookieInv, NEW r \in Requests, Handler(r)
  PROVE  /\ UNCHANGED <<state, target, fwd, fwdConn, rwc, Connections, inventory, offered>>
         /\ pc[r] \notin Registered \union {"making", "registering", "done"}
         /\ pc'[r] \notin Registered \union {"making", "registering"}
         /\ \A q \in Requests \ {r} : pc'[q] = pc[q] /\ reply'[q] = reply[q]
         /\ \A t \in Requests : Id'[t] = Id[t] \/ (t = tun[r] /\ Method[r] # "OUT")
<1>1. UNCHANGED <<state, target, fwd, fwdConn, rwc, Connections, inventory, offered>>
    BY DEF Handler, HandleGatewayProtocol, Refuse, WsAttach, OutAttach, OutCache, InCheck,
           InAttach, InCache, InDrain
<1>2. \E where \in Places \ (Registered \union {"making", "registering"}) : Await(r, where)
    BY ConstantsAssumption
    DEF Handler, HandleGatewayProtocol, Refuse, WsAttach, OutAttach, OutCache, InCheck,
        InAttach, InCache, InDrain, Places, Registered, Processes
<1>3. pc[r] \notin Registered \union {"making", "registering", "done"}
    BY DEF Handler, HandleGatewayProtocol, Refuse, WsAttach, OutAttach, OutCache, InCheck,
           InAttach, InCache, InDrain, Registered, Processes
<1>4. \A t \in Requests : Id'[t] = Id[t] \/ (t = tun[r] /\ Method[r] # "OUT")
  <2>1. CASE WsAttach(r) \/ InAttach(r)
    BY <2>1 DEF WsAttach, InAttach, Set, TypeOK, TunnelType, CookieInv, CookieOf
  <2> QED BY <2>1 DEF Handler, HandleGatewayProtocol, Refuse, OutAttach, OutCache, InCheck,
                      InCache, InDrain
<1> QED BY <1>1, <1>2, <1>3, <1>4, GoToOwn DEF Await

\* The forward goroutines, clients, the cache and the administrator leave the
\* processors where they are.
LEMMA OtherSteps ==
  ASSUME TypeOK, \/ \E r \in Requests : Forward(r) \/ ClientLeaves(r)
                 \/ \E c \in ConnIds : CacheExpire(c)
                 \/ \E inv \in SUBSET (Users \X Hosts) : EditInventory(inv)
                 \/ Crash \/ UNCHANGED vars
  PROVE  /\ UNCHANGED <<pc, reply, state, target, fwdConn, tun, Id, rwc, Connections>>
         /\ \A q \in Requests :
              /\ fwd'[q] # "none" => fwd[q] # "none"
              /\ offered[q] \subseteq offered'[q]
              /\ inventory \subseteq offered[q] => inventory' \subseteq offered'[q]
<1>1. ASSUME NEW r \in Requests, Forward(r)
      PROVE  /\ UNCHANGED <<pc, reply, state, target, fwdConn, tun, Id, rwc, Connections>>
             /\ UNCHANGED <<inventory, offered>>
             /\ \A q \in Requests : fwd'[q] # "none" => fwd[q] # "none"
    BY <1>1 DEF Forward, ForwardRead, ForwardWritten, ForwardEnd, BackendBreak, Set,
                TypeOK, ForwardType
<1>2. ASSUME NEW inv \in SUBSET (Users \X Hosts), EditInventory(inv)
      PROVE  /\ UNCHANGED <<pc, reply, state, target, fwd, fwdConn, tun, Id, rwc, Connections>>
             /\ \A q \in Requests : offered[q] \subseteq offered'[q] /\ inventory' \subseteq offered'[q]
    BY <1>2 DEF EditInventory
<1>3. CASE (\E r \in Requests : ClientLeaves(r)) \/ (\E c \in ConnIds : CacheExpire(c))
           \/ Crash \/ UNCHANGED vars
    BY <1>3 DEF ClientLeaves, CacheExpire, Crash, vars
<1> QED BY <1>1, <1>2, <1>3

LEMMA NextProgress ==
  ASSUME TypeOK, Bound, CookieInv, ProgressInv, [Next]_vars
  PROVE  ProgressInv'
<1> USE DEF SERVER_STATE_HANDSHAKE, SERVER_STATE_TUNNEL_AUTHORIZE, SERVER_STATE_CHANNEL_CREATE,
            SERVER_STATE_CLOSED, FAILED, Registered, Processes
<1>0. /\ \A q \in Requests : ProgressOf(q) /\ state[q] \in 0..6
      /\ target \in [Requests -> Maybe(Hosts)] /\ fwd \in [Requests -> {"none", "read", "write", "done"}]
    BY DEF ProgressInv, TypeOK, ProcessType, ForwardType
<1>1. ASSUME NEW r \in Requests, Handler(r) PROVE ProgressInv'
  <2> SUFFICES ASSUME NEW q \in Requests PROVE ProgressOf(q)' BY DEF ProgressInv
  <2> QED BY <1>0, <1>1, HandlerSteps DEF ProgressOf
<1>2. ASSUME NEW r \in Requests, Process(r) PROVE ProgressInv'
  <2>1. ASSUME NEW q \in Requests, q # r PROVE ProgressOf(q)'
    BY <1>0, <1>2, <2>1, ProcessSteps
    DEF ProgressOf, OthersKept, Begins, Lists, Admits, Dialled, Forwards, Leaves, GoesOn
  <2>2. ProgressOf(r)'
    <3>1. CASE Begins(r) \/ Lists(r) \/ Leaves(r)
      BY <1>0, <3>1 DEF ProgressOf, Begins, Lists, Leaves
    <3>2. CASE Admits(r)
      BY <1>0, <3>2, ConstantsAssumption DEF ProgressOf, Admits
    <3>3. CASE Dialled(r)
      BY <1>0, <3>3 DEF ProgressOf, Dialled, CookieInv, CookieOf
    <3>4. CASE Forwards(r)
      BY <1>0, <3>4 DEF ProgressOf, Forwards
    <3>5. CASE GoesOn(r)
      BY <1>0, <3>5 DEF ProgressOf, GoesOn
    <3> QED BY <1>2, <3>1, <3>2, <3>3, <3>4, <3>5, ProcessSteps
  <2> QED BY <2>1, <2>2 DEF ProgressInv
<1>3. CASE \/ \E r \in Requests : Forward(r) \/ ClientLeaves(r)
           \/ \E c \in ConnIds : CacheExpire(c)
           \/ \E inv \in SUBSET (Users \X Hosts) : EditInventory(inv)
           \/ Crash \/ UNCHANGED vars
  <2> SUFFICES ASSUME NEW q \in Requests PROVE ProgressOf(q)' BY DEF ProgressInv
  <2> QED BY <1>0, <1>3, OtherSteps DEF ProgressOf
<1> QED BY <1>1, <1>2, <1>3 DEF Next

-----------------------------------------------------------------------------
(* Hosts that were offered                                                  *)

\* A processor has been offered what there is, since it was made.
OfferInv ==
  /\ \A r \in Requests : pc[r] \in Registered \union {"making", "registering"} =>
       inventory \subseteq offered[r]
  /\ DialsOfferedHost

LEMMA NextOffer ==
  ASSUME TypeOK, Bound, CookieInv, ConnectionInv, ProgressInv, OfferInv, [Next]_vars
  PROVE  OfferInv'
<1> DEFINE Made(r) == pc[r] \in Registered \union {"making", "registering"}
           Dials(r) == target[r] # None => <<UserName[r], target[r]>> \in offered[r]
           Agree == ~TokenAuth /\ \A r, q \in Requests : ConnId[r] = ConnId[q] =>
                                                        UserName[r] = UserName[q]
<1>0. /\ target \in [Requests -> Maybe(Hosts)] /\ offered \in [Requests -> SUBSET (Users \X Hosts)]
      /\ \A q \in Requests : /\ Made(q) => inventory \subseteq offered[q]
                             /\ Agree => Dials(q)
                             /\ ProgressOf(q)
    BY DEF TypeOK, ProcessType, PolicyType, OfferInv, DialsOfferedHost, ProgressInv
<1> SUFFICES ASSUME NEW q \in Requests
             PROVE  (Made(q)' => inventory' \subseteq offered'[q]) /\ (Agree => Dials(q)')
    BY DEF OfferInv, DialsOfferedHost
<1>1. CASE \E r \in Requests : Handler(r)
    BY <1>0, <1>1, HandlerSteps
<1>2. ASSUME NEW r \in Requests, Process(r)
      PROVE  (Made(q)' => inventory' \subseteq offered'[q]) /\ (Agree => Dials(q)')
  <2>1. OthersKept(r) BY <1>2, ProcessSteps
  <2>2. CASE Begins(r)
    BY <1>0, <2>1, <2>2 DEF Begins, OthersKept, ProgressOf, Registered, Processes
  <2>3. CASE Admits(r)
    <3>1. PICK h \in Hosts : CheckHost(r, h) /\ target' = [target EXCEPT ![r] = h]
      BY <2>3 DEF Admits
    <3>2. UNCHANGED offered /\ Made(r) /\ (Made(q)' => Made(q))
      BY <2>1, <2>3 DEF Admits, OthersKept, Registered, Processes
    <3>3. Agree => <<UserName[r], h>> \in offered[r]
      <4>1. tun[r] \in Requests /\ ConnId[tun[r]] = ConnId[r]
        BY <2>3, BoundTunnel, ConstantsAssumption
        DEF Admits, ConnectionInv, TunnelsOnConnection, On
      <4> QED BY <1>0, <3>1, <3>2, <4>1 DEF CheckHost, CheckManagedHost
    <3> QED BY <1>0, <2>1, <3>1, <3>2, <3>3 DEF OthersKept
  <2>4. CASE Lists(r) \/ Dialled(r) \/ Forwards(r) \/ Leaves(r) \/ GoesOn(r)
    BY <1>0, <2>1, <2>4
    DEF Lists, Dialled, Forwards, Leaves, GoesOn, OthersKept, Registered, Processes
  <2> QED BY <1>2, <2>2, <2>3, <2>4, ProcessSteps
<1>3. CASE \/ \E r \in Requests : Forward(r) \/ ClientLeaves(r)
           \/ \E c \in ConnIds : CacheExpire(c)
           \/ \E inv \in SUBSET (Users \X Hosts) : EditInventory(inv)
           \/ Crash \/ UNCHANGED vars
    BY <1>0, <1>3, OtherSteps
<1> QED BY <1>1, <1>2, <1>3 DEF Next

-----------------------------------------------------------------------------
(* An unshared tunnel                                                       *)

\* The tunnel of a processor that has dialled holds its own connection.
BackendInv ==
  \A r \in Requests : Sole(r) =>
    /\ pc[r] = "write" /\ reply[r] = SERVER_STATE_CHANNEL_CREATE => rwc[tun[r]] = r
    /\ fwd[r] # "none" => fwdConn[r] = r /\ rwc[tun[r]] = r

\* A processor is listed under the id of its tunnel, as long as it runs.
EntryInv ==
  \A i \in Requests : Connections[i] # None =>
    /\ tun[Connections[i]] # None
    /\ Sole(Connections[i]) =>
         pc[Connections[i]] \in Registered /\ Id[tun[Connections[i]]] = i

\* On a tunnel that nobody else works on, no other request runs a processor, and
\* it was never otherwise since this one was bound.
LEMMA SoleProcessor ==
  ASSUME TypeOK, Bound, CookieInv, NEW q \in Requests, tun[q] # None, Sole(q)', [Next]_vars
  PROVE  /\ Sole(q) /\ tun'[q] = tun[q]
         /\ \A r \in Requests : tun[r] = tun[q] /\ r # q => Method[r] = "OUT"
         /\ \A r \in Requests : tun[r] = tun[q] /\ r # q =>
              pc[r] \notin Registered \union {"making", "registering"}
<1>1. Sole(q) /\ tun'[q] = tun[q]
  <2>1. CASE Next BY <2>1, ShownStays, CookieStays
  <2>2. CASE UNCHANGED vars BY <2>2 DEF vars, Sole
  <2> QED BY <2>1, <2>2
<1> QED BY <1>1 DEF Sole, CookieInv, CookieOf, Registered, Processes

LEMMA NextBackend ==
  ASSUME TypeOK, Bound, CookieInv, ProgressInv, BackendInv, [Next]_vars
  PROVE  BackendInv'
<1> USE DEF SERVER_STATE_CHANNEL_CREATE, SERVER_STATE_CLOSED, FAILED, Registered, Processes
<1> DEFINE Own(q) ==
      /\ pc[q] = "write" /\ reply[q] = SERVER_STATE_CHANNEL_CREATE => rwc[tun[q]] = q
      /\ fwd[q] # "none" => fwdConn[q] = q /\ rwc[tun[q]] = q
<1> SUFFICES ASSUME NEW q \in Requests, Sole(q)' PROVE Own(q)'
    BY DEF BackendInv
<1>0. /\ rwc \in [Requests -> Maybe(Requests)] /\ fwdConn \in [Requests -> Maybe(Requests)]
      /\ fwd \in [Requests -> {"none", "read", "write", "done"}] /\ state[q] \in 0..6
      /\ ProgressOf(q)
    BY DEF TypeOK, TunnelType, ForwardType, ProcessType, ProgressInv
<1>1. ASSUME NEW r \in Requests, Handler(r) PROVE Own(q)'
  <2>1. CASE q = r BY <1>0, <1>1, <2>1, HandlerSteps DEF ProgressOf
  <2>2. CASE q # r
    <3>1. /\ pc'[q] = pc[q] /\ reply'[q] = reply[q] /\ fwd'[q] = fwd[q]
          /\ fwdConn'[q] = fwdConn[q] /\ rwc' = rwc
      BY <1>1, <2>2, HandlerSteps
    <3>2. CASE pc[q] = "write" \/ fwd[q] # "none"
      <4>1. tun[q] # None BY <3>2 DEF Bound
      <4>2. Sole(q) /\ tun'[q] = tun[q] BY <4>1, SoleProcessor
      <4> QED BY <3>1, <4>2 DEF BackendInv
    <3>3. CASE ~(pc[q] = "write" \/ fwd[q] # "none") BY <3>1, <3>3
    <3> QED BY <3>2, <3>3
  <2> QED BY <2>1, <2>2
<1>2. ASSUME NEW r \in Requests, Process(r) PROVE Own(q)'
  <2>1. OthersKept(r) BY <1>2, ProcessSteps
  <2>2. Sole(q) /\ Own(q) /\ tun' = tun
    BY <2>1 DEF OthersKept, Sole, BackendInv
  <2>3. CASE Dialled(r)
    <3>1. tun[r] \in Requests BY <2>3, BoundTunnel DEF Dialled
    <3>2. tun[q] = tun[r] => q = r
      BY <2>2, <2>3 DEF Dialled, Sole, CookieInv, CookieOf
    <3>3. q = r => fwd[q] = "none" BY <1>0, <2>3 DEF Dialled, ProgressOf
    <3>4. CASE q = r
      BY <1>0, <2>2, <2>3, <3>1, <3>3, <3>4 DEF Dialled
    <3>5. CASE q # r
      <4>1. tun[q] \in Requests => rwc'[tun[q]] = rwc[tun[q]]
        BY <1>0, <2>3, <3>1, <3>2, <3>5 DEF Dialled
      <4>2. pc[q] = "write" \/ fwd[q] # "none" => tun[q] \in Requests BY BoundTunnel
      <4> QED BY <2>1, <2>2, <2>3, <3>5, <4>1, <4>2 DEF Dialled, OthersKept
    <3> QED BY <3>4, <3>5
  <2>4. CASE Forwards(r)
    BY <1>0, <2>1, <2>2, <2>4 DEF Forwards, OthersKept
  <2>5. CASE Begins(r) \/ Lists(r) \/ Admits(r) \/ Leaves(r) \/ GoesOn(r)
    BY <1>0, <2>1, <2>2, <2>5
    DEF Begins, Lists, Admits, Leaves, GoesOn, OthersKept, ProgressOf
  <2> QED BY <1>2, <2>3, <2>4, <2>5, ProcessSteps
<1>3. CASE \/ \E r \in Requests : Forward(r) \/ ClientLeaves(r)
           \/ \E c \in ConnIds : CacheExpire(c)
           \/ \E inv \in SUBSET (Users \X Hosts) : EditInventory(inv)
           \/ Crash \/ UNCHANGED vars
  <2>1. Sole(q) BY <1>3, OtherSteps DEF Sole
  <2> QED BY <1>3, <2>1, OtherSteps DEF BackendInv
<1> QED BY <1>1, <1>2, <1>3 DEF Next

LEMMA NextEntry ==
  ASSUME TypeOK, Bound, CookieInv, EntryInv, [Next]_vars
  PROVE  EntryInv'
<1> USE DEF Registered, Processes
<1> DEFINE Listed(i, p) == /\ tun[p] # None
                           /\ Sole(p) => pc[p] \in Registered /\ Id[tun[p]] = i
<1>0. /\ Connections \in [Requests -> Maybe(Requests)]
      /\ Connections' \in [Requests -> Maybe(Requests)]
      /\ \A i \in Requests, p \in Requests : Connections[i] = p => Listed(i, p)
    BY NextTyped, ConstantsAssumption DEF TypeOK, TableType, EntryInv
<1> SUFFICES ASSUME NEW i \in Requests, NEW p \in Requests, Connections'[i] = p
             PROVE  Listed(i, p)'
    BY <1>0 DEF EntryInv, Maybe
<1>1. ASSUME NEW r \in Requests, Handler(r) PROVE Listed(i, p)'
  <2>1. Connections[i] = p BY <1>1, HandlerSteps
  <2>2. tun[p] # None BY <1>0, <2>1
  <2>3. tun'[p] = tun[p]
    <3>1. CASE Next BY <2>2, <3>1, CookieStays
    <3> QED BY <3>1 DEF vars
  <2>4. ASSUME Sole(p)' PROVE pc'[p] \in Registered /\ Id'[tun[p]] = i
    <3>1. /\ Sole(p) /\ \A x \in Requests : tun[x] = tun[p] /\ x # p => Method[x] = "OUT"
      BY <2>2, <2>4, SoleProcessor
    <3>2. pc[p] \in Registered /\ Id[tun[p]] = i BY <1>0, <2>1, <3>1
    <3>3. p # r BY <1>1, <3>2, HandlerSteps
    <3>4. pc'[p] = pc[p] BY <1>1, <3>3, HandlerSteps
    <3>5. tun[p] \in Requests BY <2>2 DEF TypeOK, TunnelType, Maybe
    <3>6. Id'[tun[p]] = Id[tun[p]] BY <1>1, <3>1, <3>3, <3>5, HandlerSteps
    <3> QED BY <3>2, <3>4, <3>6
  <2> QED BY <2>2, <2>3, <2>4
<1>2. ASSUME NEW r \in Requests, Process(r) PROVE Listed(i, p)'
  <2>1. OthersKept(r) BY <1>2, ProcessSteps
  <2>2. Sole(p)' => Sole(p) BY <2>1 DEF OthersKept, Sole
  <2>3. CASE Lists(r)
    <3>1. tun[r] # None BY <2>3 DEF Lists, Bound
    <3>2. p = r \/ Connections[i] = p
      BY <2>3, ConstantsAssumption DEF Lists
    <3> QED BY <1>0, <2>1, <2>2, <2>3, <3>1, <3>2, ConstantsAssumption DEF Lists, OthersKept
  <2>4. CASE Leaves(r)
    <3>1. Connections[i] = p /\ (p = r /\ Sole(p) => Id[tun[r]] # i)
      BY <1>0, <2>4, ConstantsAssumption DEF Leaves
    <3> QED BY <1>0, <2>1, <2>2, <2>4, <3>1 DEF Leaves, OthersKept
  <2>5. CASE Begins(r) \/ Admits(r) \/ Dialled(r) \/ Forwards(r) \/ GoesOn(r)
    BY <1>0, <2>1, <2>2, <2>5
    DEF Begins, Admits, Dialled, Forwards, GoesOn, OthersKept
  <2> QED BY <1>2, <2>3, <2>4, <2>5, ProcessSteps
<1>3. CASE \/ \E r \in Requests : Forward(r) \/ ClientLeaves(r)
           \/ \E c \in ConnIds : CacheExpire(c)
           \/ \E inv \in SUBSET (Users \X Hosts) : EditInventory(inv)
           \/ Crash \/ UNCHANGED vars
  <2>1. UNCHANGED <<pc, tun, Id, Connections>> /\ (Sole(p)' => Sole(p))
    BY <1>3, OtherSteps DEF Sole
  <2> QED BY <1>0, <2>1
<1> QED BY <1>1, <1>2, <1>3 DEF Next

-----------------------------------------------------------------------------
(* The theorems                                                             *)

\* Before any request arrives no host is approved, nothing is forwarded and
\* the table is empty.
LEMMA InitProgress == Init => ProgressInv /\ OfferInv /\ BackendInv /\ EntryInv
BY ConstantsAssumption
DEF Init, ProgressInv, ProgressOf, OfferInv, DialsOfferedHost, BackendInv, EntryInv,
    Registered, Processes

\* The invariants together, in every reachable state.
LEMMA ProgressInvariant == Spec => [](ProgressInv /\ OfferInv /\ BackendInv /\ EntryInv)
<1>1. TypeOK /\ Bound /\ CookieInv /\ [Next]_vars => CookieInv' BY NextCookie
<1>2. TypeOK /\ Bound /\ ConnectionInv /\ [Next]_vars => ConnectionInv' BY NextOnConnection
<1>3. TypeOK /\ Bound /\ CookieInv /\ ProgressInv /\ [Next]_vars => ProgressInv'
    BY NextProgress
<1>4. TypeOK /\ Bound /\ CookieInv /\ ConnectionInv /\ ProgressInv /\ OfferInv /\ [Next]_vars
        => OfferInv'
    BY NextOffer
<1>5. TypeOK /\ Bound /\ CookieInv /\ ProgressInv /\ BackendInv /\ [Next]_vars => BackendInv'
    BY NextBackend
<1>6. TypeOK /\ Bound /\ CookieInv /\ EntryInv /\ [Next]_vars => EntryInv' BY NextEntry
<1> QED BY <1>1, <1>2, <1>3, <1>4, <1>5, <1>6, InitCookie, InitOnConnection, InitProgress,
           TypedAndBound, PTL DEF Spec

\* CheckHost asks for the user who made the tunnel; when the requests of a
\* connection id are one user's, every host a direct gateway dials was offered to
\* the user of the request, however the administrator edits the inventory.
THEOREM DialsOnlyOfferedHosts == Spec => []DialsOfferedHost
<1>1. OfferInv => DialsOfferedHost BY DEF OfferInv
<1> QED BY <1>1, ProgressInvariant, PTL

\* On an unshared tunnel the goroutine that forwards desktop output, and the client's
\* data, use the connection that the tunnel's own processor dialled.
THEOREM ForwardsItsOwnBackend == Spec => []ForwardsOwnBackend
<1>1. ProgressInv /\ BackendInv => ForwardsOwnBackend
    BY DEF ProgressInv, ProgressOf, BackendInv, ForwardsOwnBackend
<1> QED BY <1>1, ProgressInvariant, PTL

\* RemoveTunnel removes what RegisterTunnel entered: on an unshared tunnel nothing
\* rewrites its Id in between, so no processor that has returned stays listed.
THEOREM NoStaleEntries == Spec => []NoStaleEntry
<1>1. EntryInv => NoStaleEntry BY DEF EntryInv, NoStaleEntry
<1> QED BY <1>1, ProgressInvariant, PTL

-----------------------------------------------------------------------------
(* The course of a connection: Relay                                        *)

Unadmitted(r) == target[r] = None /\ backend[r] = "none" /\ fwd[r] = "none"

\* The response under way leads to the next stage from the present one, and nothing
\* is admitted, dialled or forwarded before its stage.
CourseOf(r) ==
  /\ pc[r] \notin Registered \union {"done"} => state[r] = 0 /\ Unadmitted(r)
  /\ pc[r] \in {"cookie", "userinfo"} => state[r] = 1 /\ Unadmitted(r)
  /\ pc[r] = "send" => state[r] = 5
  /\ pc[r] = "read" => state[r] # 6 /\ (state[r] < 4 => Unadmitted(r))
  /\ pc[r] = "dial" =>
       state[r] = 3 /\ target[r] # None /\ backend[r] = "none" /\ fwd[r] = "none"
  /\ pc[r] = "write" =>
       \/ reply[r] = FAILED
       \/ reply[r] \in 1..3 /\ state[r] = reply[r] - 1 /\ Unadmitted(r)
       \/ reply[r] = 4 /\ state[r] = 3 /\ backend[r] # "none" /\ fwd[r] = "none"
       \/ reply[r] = 6 /\ state[r] = 5

CourseInv == \A r \in Requests : CourseOf(r)

\* A step that concerns r: of Relay, or none.
Moves(r) == Course!Step(r) \/ UNCHANGED Course!vars

\* What r's step leaves alone.
OthersCourse(r) ==
  \A q \in Requests \ {r} :
    /\ pc'[q] = pc[q] /\ reply'[q] = reply[q] /\ state'[q] = state[q]
    /\ target'[q] = target[q] /\ backend'[q] = backend[q] /\ fwd'[q] = fwd[q]

LEMMA OnlyOwnCourse ==
  ASSUME CourseInv, NEW r \in Requests, OthersCourse(r), CourseOf(r)'
  PROVE  CourseInv'
<1> SUFFICES ASSUME NEW q \in Requests \ {r} PROVE CourseOf(q)' BY DEF CourseInv
<1> QED BY DEF CourseInv, CourseOf, OthersCourse, Unadmitted

\* A step that changes no variable of Relay.
LEMMA StaysPut ==
  ASSUME UNCHANGED <<state, target, backend, fwd>>, NEW r \in Requests
  PROVE  Moves(r)
BY DEF Moves, Course!vars

LEMMA PacketCourse ==
  ASSUME TypeOK, CourseInv, NEW r \in Requests, Packet(r)
  PROVE  OthersCourse(r) /\ CourseOf(r)' /\ Moves(r)
<1> USE DEF SERVER_STATE_INITIALIZED, SERVER_STATE_HANDSHAKE, SERVER_STATE_TUNNEL_CREATE,
            SERVER_STATE_TUNNEL_AUTHORIZE, SERVER_STATE_CHANNEL_CREATE,
            SERVER_STATE_OPENED, SERVER_STATE_CLOSED, FAILED, Registered, Processes
<1>0. /\ pc[r] = "read" /\ state[r] \in 0..5 /\ (state[r] < 4 => Unadmitted(r))
      /\ state \in [Requests -> 0..6] /\ target \in [Requests -> Maybe(Hosts)]
  <2>1. pc[r] = "read"
    BY DEF Packet, HandshakeRequest, TunnelCreate, TunnelAuth, ChannelCreate, Data,
           Keepalive, CloseChannel, Ignored, Received
  <2> QED BY <2>1 DEF CourseInv, CourseOf, TypeOK, ProcessType
<1>1. ASSUME NEW req \in SUBSET AuthCaps, HandshakeRequest(r, req)
      PROVE  OthersCourse(r) /\ CourseOf(r)' /\ Moves(r)
    BY <1>0, <1>1, RespondOwn, StaysPut
    DEF HandshakeRequest, OthersCourse, CourseOf, Unadmitted
<1>2. ASSUME NEW tok \in Tokens \union {None}, TunnelCreate(r, tok)
      PROVE  OthersCourse(r) /\ CourseOf(r)' /\ Moves(r)
    BY <1>0, <1>2, RespondOwn, GoToOwn, StaysPut
    DEF TunnelCreate, PresentCookie, Await, OthersCourse, CourseOf, Unadmitted
<1>3. CASE TunnelAuth(r)
    BY <1>0, <1>3, RespondOwn, StaysPut DEF TunnelAuth, OthersCourse, CourseOf, Unadmitted
<1>4. ASSUME NEW h \in Hosts, NEW listed \in BOOLEAN, ChannelCreate(r, h, listed)
      PROVE  OthersCourse(r) /\ CourseOf(r)' /\ Moves(r)
  <2>1. CASE UNCHANGED target /\ Respond(r, FAILED)
    BY <1>0, <1>4, <2>1, RespondOwn, StaysPut
    DEF ChannelCreate, OthersCourse, CourseOf, Unadmitted
  <2>2. CASE /\ state[r] = 3 /\ Await(r, "dial") /\ target' = [target EXCEPT ![r] = h]
    <3>1. UNCHANGED <<state, backend, fwd>> BY <1>4 DEF ChannelCreate
    <3>2. OthersCourse(r) /\ CourseOf(r)'
      BY <1>0, <2>2, <3>1, GoToOwn, ConstantsAssumption
      DEF Await, OthersCourse, CourseOf, Unadmitted
    <3>3. Course!Admit(r, h) BY <1>0, <2>2, <3>1 DEF Course!Admit, Unadmitted
    <3> QED BY <3>2, <3>3 DEF Moves, Course!Step
  <2> QED BY <1>4, <2>1, <2>2 DEF ChannelCreate, Set
<1>5. CASE Data(r)
  <2>1. UNCHANGED <<target, backend, fwd>> BY <1>5 DEF Data
  <2>2. CASE state[r] < 4
    BY <1>0, <1>5, <2>1, <2>2, GoToOwn, StaysPut
    DEF Data, Return, OthersCourse, CourseOf, Unadmitted
  <2>3. CASE state[r] >= 4
    <3>1. /\ state' = [state EXCEPT ![r] = 5] /\ pc'[r] \in {"send", "ending"}
          /\ \A q \in Requests \ {r} : pc'[q] = pc[q] /\ reply'[q] = reply[q]
      BY <1>0, <1>5, <2>3, GoToOwn DEF Data, Return, Send, Set
    <3>2. OthersCourse(r) /\ CourseOf(r)'
      BY <1>0, <2>1, <3>1 DEF OthersCourse, CourseOf, Unadmitted
    <3>3. CASE state[r] = 4
      BY <2>1, <3>1, <3>2, <3>3 DEF Moves, Course!Step, Course!Use
    <3>4. CASE state[r] = 5
      <4>1. state' = state BY <1>0, <3>1, <3>4
      <4> QED BY <2>1, <3>2, <4>1, StaysPut
    <3> QED BY <1>0, <2>3, <3>3, <3>4
  <2> QED BY <1>0, <2>2, <2>3
<1>6. CASE Keepalive(r) \/ Ignored(r)
    BY <1>0, <1>6, GoToOwn, StaysPut
    DEF Keepalive, Ignored, Read, Return, OthersCourse, CourseOf, Unadmitted
<1>7. CASE CloseChannel(r)
    BY <1>0, <1>7, RespondOwn, GoToOwn, StaysPut
    DEF CloseChannel, Return, OthersCourse, CourseOf, Unadmitted
<1> QED BY <1>1, <1>2, <1>3, <1>4, <1>5, <1>6, <1>7 DEF Packet

LEMMA ProcessCourse ==
  ASSUME TypeOK, CourseInv, NEW r \in Requests, Process(r)
  PROVE  OthersCourse(r) /\ CourseOf(r)' /\ Moves(r)
<1> USE DEF SERVER_STATE_INITIALIZED, SERVER_STATE_TUNNEL_CREATE,
            SERVER_STATE_CHANNEL_CREATE, SERVER_STATE_CLOSED, FAILED, Registered, Processes
<1>0. /\ CourseOf(r) /\ state \in [Requests -> 0..6]
      /\ backend \in [Requests -> {"none", "open", "broken", "closed"}]
      /\ fwd \in [Requests -> {"none", "read", "write", "done"}]
  BY DEF CourseInv, TypeOK, ProcessType, ForwardType
<1>1. CASE RegisterBegin(r)
  <2>1. /\ pc[r] = "register" /\ pc'[r] \in {"making", "registering"}
        /\ \A q \in Requests \ {r} : pc'[q] = pc[q] /\ reply'[q] = reply[q]
    BY <1>1, GoToOwn DEF RegisterBegin, Await
  <2>2. UNCHANGED <<target, backend, fwd>> /\ state' = [state EXCEPT ![r] = 0]
    BY <1>1 DEF RegisterBegin, NewProcessor, Set
  <2>3. state' = state BY <1>0, <2>1, <2>2 DEF CourseOf
  <2>4. OthersCourse(r) /\ CourseOf(r)'
    BY <1>0, <2>1, <2>2, <2>3 DEF OthersCourse, CourseOf, Unadmitted
  <2> QED BY <2>2, <2>3, <2>4, StaysPut
<1>2. CASE RegisterEnd(r)
    BY <1>0, <1>2, GoToOwn, StaysPut DEF RegisterEnd, Read, OthersCourse, CourseOf, Unadmitted
<1>3. CASE Packet(r) BY <1>3, PacketCourse
<1>4. CASE UserInfo(r)
    BY <1>0, <1>4, RespondOwn, StaysPut DEF UserInfo, OthersCourse, CourseOf, Unadmitted
<1>5. CASE Dial(r)
  <2>1. UNCHANGED <<state, target, fwd>> /\ pc[r] = "dial" BY <1>5 DEF Dial
  <2>2. CASE backend' = [backend EXCEPT ![r] = "open"] /\ Respond(r, 4)
    <3>1. OthersCourse(r) /\ CourseOf(r)'
      BY <1>0, <2>1, <2>2, RespondOwn DEF OthersCourse, CourseOf, Unadmitted
    <3>2. Course!Connect(r) BY <1>0, <2>1, <2>2 DEF CourseOf, Course!Connect
    <3> QED BY <3>1, <3>2 DEF Moves, Course!Step
  <2>3. CASE UNCHANGED backend /\ Respond(r, FAILED)
    BY <1>0, <2>1, <2>3, RespondOwn, StaysPut DEF OthersCourse, CourseOf, Unadmitted
  <2> QED BY <1>5, <2>2, <2>3 DEF Dial, Set
<1>6. CASE ResponseWritten(r)
  <2>1. /\ pc[r] = "write" /\ UNCHANGED <<target, backend>>
        /\ pc'[r] = IF reply[r] \in {FAILED, SERVER_STATE_CLOSED} THEN "ending" ELSE "read"
        /\ \A q \in Requests \ {r} : pc'[q] = pc[q] /\ reply'[q] = reply[q]
    BY <1>6, GoToOwn DEF ResponseWritten, Read, Return
  <2>2. /\ state' = [state EXCEPT ![r] = IF reply[r] = FAILED THEN state[r] ELSE reply[r]]
        /\ IF reply[r] = 4 THEN fwd' = [fwd EXCEPT ![r] = "read"] ELSE fwd' = fwd
    BY <1>6 DEF ResponseWritten, Set
  <2>3. OthersCourse(r)
    BY <1>0, <2>1, <2>2 DEF OthersCourse
  <2>4. CASE reply[r] = FAILED
    <3>1. state' = state /\ fwd' = fwd BY <1>0, <2>2, <2>4
    <3> QED BY <2>1, <2>3, <2>4, <3>1, StaysPut DEF CourseOf
  <2>5. CASE reply[r] \in 1..3
    <3>1. state' = [state EXCEPT ![r] = state[r] + 1] /\ fwd' = fwd /\ state[r] < 3
      <4>1. reply[r] # FAILED /\ reply[r] # 4 /\ state[r] = reply[r] - 1
        BY <1>0, <2>1, <2>5 DEF CourseOf
      <4>2. reply[r] = state[r] + 1 /\ state[r] < 3 BY <1>0, <2>5, <4>1
      <4>3. state' = [state EXCEPT ![r] = reply[r]] /\ fwd' = fwd BY <2>2, <4>1
      <4> QED BY <4>2, <4>3
    <3>2. Course!Advance(r) BY <2>1, <3>1 DEF Course!Advance
    <3>3. CourseOf(r)' BY <1>0, <2>1, <2>2, <2>5, <3>1 DEF CourseOf, Unadmitted
    <3> QED BY <2>3, <3>2, <3>3 DEF Moves, Course!Step
  <2>6. CASE reply[r] = 4
    <3>1. /\ state' = [state EXCEPT ![r] = 4] /\ fwd' = [fwd EXCEPT ![r] = "read"]
          /\ state[r] = 3 /\ backend[r] # "none"
      BY <1>0, <2>1, <2>2, <2>6 DEF CourseOf
    <3>2. {q \in Requests : fwd'[q] # "none"} = {q \in Requests : fwd[q] # "none"} \union {r}
      BY <1>0, <3>1
    <3>3. Course!CreateChannel(r) BY <2>1, <3>1, <3>2 DEF Course!CreateChannel
    <3>4. CourseOf(r)' BY <1>0, <2>1, <2>6, <3>1 DEF CourseOf
    <3> QED BY <2>3, <3>3, <3>4 DEF Moves, Course!Step
  <2>7. CASE reply[r] = 6
    <3>1. state' = [state EXCEPT ![r] = 6] /\ fwd' = fwd /\ state[r] = 5
      BY <1>0, <2>1, <2>2, <2>7 DEF CourseOf
    <3>2. Course!Close(r) BY <2>1, <3>1 DEF Course!Close
    <3>3. CourseOf(r)' BY <2>1, <2>7 DEF CourseOf
    <3> QED BY <2>3, <3>2, <3>3 DEF Moves, Course!Step
  <2> QED BY <1>0, <2>1, <2>4, <2>5, <2>6, <2>7 DEF CourseOf
<1>7. CASE ReadError(r) \/ WritePanic(r) \/ RemoveBegin(r) \/ RemoveEnd(r)
    BY <1>7, GoToOwn, StaysPut
    DEF ReadError, WritePanic, RemoveBegin, RemoveEnd, Return, Await, OthersCourse, CourseOf
<1>8. CASE SetRemoteAddr(r) \/ DataSent(r)
    BY <1>0, <1>8, GoToOwn, StaysPut
    DEF SetRemoteAddr, DataSent, Await, Read, OthersCourse, CourseOf, Unadmitted
<1> QED BY <1>1, <1>2, <1>3, <1>4, <1>5, <1>6, <1>7, <1>8 DEF Process

\* A forward goroutine, or the network, ends a desktop's connection: perhaps, on a
\* shared tunnel, another processor's.
LEMMA ForwardCourse ==
  ASSUME TypeOK, CourseInv, NEW r \in Requests, Forward(r)
  PROVE  CourseInv' /\ \E q \in Requests : Moves(q)
<1>0. /\ backend \in [Requests -> {"none", "open", "broken", "closed"}]
      /\ fwd \in [Requests -> {"none", "read", "write", "done"}]
      /\ fwdConn \in [Requests -> Maybe(Requests)]
  BY DEF TypeOK, ProcessType, ForwardType
<1>1. /\ UNCHANGED <<pc, reply, state, target>>
      /\ \A q \in Requests : fwd'[q] = "none" <=> fwd[q] = "none"
      /\ \A q \in Requests : backend'[q] = "none" <=> backend[q] = "none"
  BY <1>0 DEF Forward, ForwardRead, ForwardWritten, ForwardEnd, BackendBreak, Set, Maybe
<1>2. CourseInv' BY <1>1 DEF CourseInv, CourseOf, Unadmitted
<1>3. {q \in Requests : fwd'[q] # "none"} = {q \in Requests : fwd[q] # "none"} BY <1>1
<1>4. CASE UNCHANGED backend
  BY <1>1, <1>2, <1>3, <1>4 DEF Moves, Course!vars
<1>5. CASE BackendBreak(r)
  <2>1. Course!Break(r) BY <1>1, <1>3, <1>5 DEF BackendBreak, Set, Course!Break
  <2> QED BY <1>2, <2>1 DEF Moves, Course!Step
<1>6. CASE ForwardEnd(r)
  <2>1. /\ fwdConn[r] \in Requests /\ backend[fwdConn[r]] \in {"broken", "closed"}
        /\ backend' = [backend EXCEPT ![fwdConn[r]] = "closed"]
    BY <1>0, <1>6 DEF ForwardEnd, Set, Maybe
  <2>2. CASE backend[fwdConn[r]] = "broken"
    <3>1. Course!Release(fwdConn[r]) BY <1>1, <1>3, <2>1, <2>2 DEF Course!Release
    <3> QED BY <1>2, <2>1, <3>1 DEF Moves, Course!Step
  <2>3. CASE backend[fwdConn[r]] = "closed"
    <3>1. backend' = backend BY <1>0, <2>1, <2>3
    <3> QED BY <1>4, <3>1
  <2> QED BY <2>1, <2>2, <2>3
<1> QED BY <1>4, <1>5, <1>6 DEF Forward, ForwardRead, ForwardWritten

LEMMA NextCourse ==
  ASSUME TypeOK, Bound, CookieInv, CourseInv, [Next]_vars
  PROVE  CourseInv' /\ [\E r \in Requests : Course!Step(r)]_Course!vars
<1>0. (\E r \in Requests : Moves(r)) => [\E r \in Requests : Course!Step(r)]_Course!vars
  BY DEF Moves
<1>1. ASSUME NEW r \in Requests, Handler(r) PROVE CourseInv' /\ Moves(r)
  <2>1. UNCHANGED <<state, target, backend, fwd>>
    BY <1>1, HandlerSteps
    DEF Handler, HandleGatewayProtocol, Refuse, WsAttach, OutAttach, OutCache, InCheck,
        InAttach, InCache, InDrain
  <2>2. OthersCourse(r) BY <1>1, <2>1, HandlerSteps DEF OthersCourse
  <2>3. CourseOf(r)'
    BY <1>1, <2>1, HandlerSteps DEF CourseInv, CourseOf, Unadmitted, Registered, Processes
  <2> QED BY <2>1, <2>2, <2>3, OnlyOwnCourse, StaysPut
<1>2. ASSUME NEW r \in Requests, Process(r) PROVE CourseInv' /\ Moves(r)
  BY <1>2, ProcessCourse, OnlyOwnCourse
<1>3. ASSUME NEW r \in Requests, Forward(r)
      PROVE  CourseInv' /\ \E q \in Requests : Moves(q)
  BY <1>3, ForwardCourse
<1>4. CASE \/ \E r \in Requests : ClientLeaves(r)
           \/ \E c \in ConnIds : CacheExpire(c)
           \/ \E inv \in SUBSET (Users \X Hosts) : EditInventory(inv)
           \/ Crash \/ UNCHANGED vars
  <2>1. UNCHANGED <<pc, reply, state, target, backend, fwd>>
    BY <1>4 DEF ClientLeaves, CacheExpire, EditInventory, Crash, vars
  <2> QED BY <2>1 DEF CourseInv, CourseOf, Unadmitted, Course!vars
<1> QED BY <1>0, <1>1, <1>2, <1>3, <1>4 DEF Next

\* Whatever packets the clients send and in whatever order, with any number of
\* requests and any sharing of tunnels, the connections follow Relay: stage by stage,
\* one host, one desktop, and no output before the channel is announced.
THEOREM FollowsRelay == Spec => ImplementsRelay
<1>1. Init => CourseInv /\ Course!Init
  BY DEF Init, CourseInv, CourseOf, Unadmitted, Course!Init, Registered, Processes,
         SERVER_STATE_INITIALIZED
<1>2. TypeOK /\ Bound /\ CookieInv /\ CourseInv /\ [Next]_vars
        => CourseInv' /\ [\E r \in Requests : Course!Step(r)]_Course!vars
  BY NextCourse
<1>3. TypeOK /\ Bound /\ CookieInv /\ [Next]_vars => CookieInv' BY NextCookie
<1> QED BY <1>1, <1>2, <1>3, InitCookie, TypedAndBound, PTL
        DEF Spec, ImplementsRelay, Course!Spec

=============================================================================
