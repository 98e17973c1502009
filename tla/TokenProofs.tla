------------------------------ MODULE TokenProofs ------------------------------
(***************************************************************************)
(* The two guarantees of a token gateway, for every instance: a host that   *)
(* is dialled is named by a genuine PAA cookie presented on the same Tunnel *)
(* object, and on an unshared tunnel by the processor's own cookie, which   *)
(* the provider has accepted.                                               *)
(***************************************************************************)
EXTENDS GatewayProofs

USE DEF controlVars, tunnelVars, cookieVars, processVars, forwardVars, tableVars, policyVars,
        processorVars, gatewayVars

\* The processor, if there is one, has not come to the tunnel-create packet.
Fresh(r) ==
  \/ pc[r] \notin Registered \union {"done"}
  \/ pc[r] = "read" /\ state[r] <= SERVER_STATE_HANDSHAKE
  \/ pc[r] = "write" /\ reply[r] \in {SERVER_STATE_INITIALIZED, SERVER_STATE_HANDSHAKE}

\* It is past that packet.
Cleared(r) ==
  \/ pc[r] \in {"cookie", "userinfo", "dial"} \/ target[r] # None
  \/ state[r] >= SERVER_STATE_TUNNEL_CREATE
  \/ pc[r] = "write" /\ reply[r] >= SERVER_STATE_TUNNEL_CREATE

\* The provider has answered that the cookie's access token is valid.
Validated(r) ==
  \/ pc[r] = "dial" \/ target[r] # None
  \/ state[r] >= SERVER_STATE_TUNNEL_CREATE
  \/ pc[r] = "write" /\ reply[r] >= SERVER_STATE_TUNNEL_CREATE

\* A processor accepts at most one cookie, on a tunnel, and needs one to go on; it
\* needs the provider's acceptance of it, and the tunnel's authorization to dial.
CookieOf(r) ==
  /\ Fresh(r) => paa[r] = None
  /\ TokenAuth /\ Cleared(r) => paa[r] # None
  /\ TokenAuth /\ Validated(r) => vouched[r] = paa[r]
  /\ target[r] # None =>
       /\ state[r] >= SERVER_STATE_TUNNEL_AUTHORIZE
       /\ pc[r] = "write" => reply[r] = FAILED \/ reply[r] >= SERVER_STATE_CHANNEL_CREATE
  /\ pc[r] \notin Registered \union {"done"} \/ pc[r] \in {"cookie", "userinfo"}
       => target[r] = None
  /\ paa[r] # None \/ target[r] # None => tun[r] # None
  /\ pc[r] = "dial" => target[r] # None
  /\ pc[r] = "send" => state[r] >= SERVER_STATE_CHANNEL_CREATE
  /\ Method[r] = "OUT" => pc[r] \in {"idle", "out_attach", "out_cache", "done"}

CookieInv == \A r \in Requests : CookieOf(r)

\* Some processor on tunnel t was shown a genuine cookie for host h.
Shown(t, h) == \E q \in Requests : tun[q] = t /\ paa[q] # None /\ paa[q].host = h

\* The tunnel never holds a host without a cookie for it.
HeldHostShown ==
  TokenAuth => \A t \in Requests : TargetServer[t] # None => Shown(t, TargetServer[t])

\* On an unshared tunnel its fields are those of the processor's own cookie, the
\* address from the moment it has been copied.
HoldsOwnCookie ==
  \A r \in Requests : TokenAuth /\ paa[r] # None /\ Sole(r) =>
    /\ TargetServer[tun[r]] = paa[r].host
    /\ pc[r] # "cookie" => RemoteAddr[tun[r]] = paa[r].ip

\* What DialsOwnTokenHost says beyond CookieInv.
DialsOwnHost ==
  TokenAuth => \A r \in Requests : target[r] # None /\ Sole(r) =>
    /\ paa[r] # None /\ paa[r].host = target[r]
    /\ VerifyClientIP => paa[r].ip = ClientIp[r]

TokenInv == HeldHostShown /\ DialsTokenHost /\ HoldsOwnCookie /\ DialsOwnHost

-----------------------------------------------------------------------------
(* At most one cookie per processor                                         *)

\* A step that leaves the other requests alone need only be checked for r.
LEMMA OnlyOwnCookie ==
  ASSUME CookieInv, NEW r \in Requests, CookieOf(r)',
         \A q \in Requests \ {r} :
           /\ pc'[q] = pc[q] /\ reply'[q] = reply[q] /\ state'[q] = state[q]
           /\ paa'[q] = paa[q] /\ vouched'[q] = vouched[q]
           /\ target'[q] = target[q] /\ tun'[q] = tun[q]
  PROVE  CookieInv'
<1> SUFFICES ASSUME NEW q \in Requests \ {r} PROVE CookieOf(q)' BY DEF CookieInv
<1>1. CookieOf(q) BY DEF CookieInv
<1> QED BY <1>1 DEF CookieOf, Fresh, Cleared, Validated

\* What GoTo and its variants do to the control state.
LEMMA GoToOwn ==
  ASSUME TypeOK, NEW r \in Requests, NEW where, NEW transport, NEW next,
         GoTo(r, where, transport, next)
  PROVE  /\ pc'[r] = where /\ reply'[r] = next
         /\ \A q \in Requests \ {r} : pc'[q] = pc[q] /\ reply'[q] = reply[q]
BY DEF GoTo, Set, TypeOK, ControlType

\* A response moves the handler to the write, or out of Process.
LEMMA RespondOwn ==
  ASSUME TypeOK, NEW r \in Requests, NEW next, Respond(r, next)
  PROVE  /\ pc'[r] \in {"write", "ending"}
         /\ pc'[r] = "write" => reply'[r] = next
         /\ \A q \in Requests \ {r} : pc'[q] = pc[q] /\ reply'[q] = reply[q]
BY GoToOwn DEF Respond, Return

\* The handlers outside Process show no cookie and approve no host.
LEMMA HandlerCookie ==
  ASSUME TypeOK, Bound, CookieInv, NEW r \in Requests, Handler(r)
  PROVE  CookieInv'
<1>1. \E where \in Places : Await(r, where) /\ where \notin Registered
                            /\ (Method[r] = "OUT" => where \in {"out_attach", "out_cache",
                                 "done"})
    BY ConstantsAssumption
    DEF Handler, HandleGatewayProtocol, Refuse, WsAttach, OutAttach, OutCache, InCheck,
        InAttach, InCache, InDrain, CookieInv, CookieOf, Places, Registered, Processes
<1>2. UNCHANGED <<state, cookieVars, target>>
    BY DEF Handler, HandleGatewayProtocol, Refuse, WsAttach, OutAttach, OutCache, InCheck,
           InAttach, InCache, InDrain
<1>3. /\ pc[r] \notin Registered /\ pc[r] # "done"
      /\ \A q \in Requests \ {r} : tun'[q] = tun[q]
      /\ tun[r] # None => tun'[r] # None
    BY ConstantsAssumption
    DEF Handler, HandleGatewayProtocol, Refuse, WsAttach, OutAttach, OutCache, InCheck,
        InAttach, InCache, InDrain, Set, Registered, Processes, TypeOK, TunnelType
<1>4. paa[r] = None BY <1>3 DEF CookieInv, CookieOf, Fresh
<1>5. CookieOf(r)'
    BY <1>1, <1>2, <1>3, <1>4, GoToOwn
    DEF Await, CookieInv, CookieOf, Fresh, Cleared, Validated, Registered, Processes
<1> QED BY <1>1, <1>2, <1>3, <1>5, GoToOwn, OnlyOwnCookie DEF Await

\* A packet: only a tunnel-create in the handshake state, which comes once,
\* shows a cookie, and a host is approved only past it.
LEMMA PacketCookie ==
  ASSUME TypeOK, Bound, CookieInv, NEW r \in Requests, Packet(r)
  PROVE  CookieInv'
<1> USE DEF SERVER_STATE_INITIALIZED, SERVER_STATE_HANDSHAKE, SERVER_STATE_TUNNEL_CREATE,
            SERVER_STATE_TUNNEL_AUTHORIZE, SERVER_STATE_CHANNEL_CREATE,
            SERVER_STATE_OPENED, SERVER_STATE_CLOSED, FAILED
<1>0. pc[r] = "read" /\ tun[r] \in Requests /\ state[r] \in 0..6 /\ Method[r] # "OUT"
  <2>1. pc[r] = "read"
    BY DEF Packet, HandshakeRequest, TunnelCreate, TunnelAuth, ChannelCreate, Data,
           Keepalive, CloseChannel, Ignored, Received
  <2> QED BY <2>1, BoundTunnel DEF TypeOK, ProcessType, CookieInv, CookieOf
<1>1. ASSUME NEW req \in SUBSET AuthCaps, HandshakeRequest(r, req) PROVE CookieInv'
  <2>1. /\ pc'[r] \in {"write", "ending"} /\ UNCHANGED <<state, target, tun, cookieVars>>
        /\ pc'[r] = "write" => reply'[r] \in {FAILED, SERVER_STATE_HANDSHAKE}
                                /\ (reply'[r] # FAILED => state[r] = SERVER_STATE_INITIALIZED)
        /\ \A q \in Requests \ {r} : pc'[q] = pc[q] /\ reply'[q] = reply[q]
    BY <1>1, RespondOwn DEF HandshakeRequest
  <2>2. CookieOf(r)'
    BY <1>0, <2>1 DEF CookieInv, CookieOf, Fresh, Cleared, Validated, Registered, Processes
  <2> QED BY <2>1, <2>2, OnlyOwnCookie
<1>2. ASSUME NEW tok \in Tokens \union {None}, TunnelCreate(r, tok) PROVE CookieInv'
  <2>1. CASE PresentCookie(r, tok) /\ state[r] = SERVER_STATE_HANDSHAKE /\ tok # None
    <3>1. /\ pc'[r] = "cookie" /\ paa'[r] = tok /\ UNCHANGED <<state, target, tun, vouched>>
          /\ \A q \in Requests \ {r} : pc'[q] = pc[q] /\ reply'[q] = reply[q] /\ paa'[q] = paa[q]
      BY <1>2, <2>1, GoToOwn DEF TunnelCreate, PresentCookie, Await, Set, TypeOK, ProcessType
    <3>2. CookieOf(r)'
      BY <1>0, <2>1, <3>1, ConstantsAssumption
      DEF CookieInv, CookieOf, Fresh, Cleared, Validated, Registered, Processes
    <3> QED BY <3>1, <3>2, OnlyOwnCookie
  <2>2. CASE /\ \E next \in {SERVER_STATE_TUNNEL_CREATE, FAILED} :
                  Respond(r, next) /\ (next = FAILED \/ (~TokenAuth /\ state[r] = 1))
             /\ UNCHANGED paa
    <3>1. /\ pc'[r] \in {"write", "ending"} /\ UNCHANGED <<state, target, tun, cookieVars>>
          /\ pc'[r] = "write" => \/ reply'[r] = FAILED
                                 \/ reply'[r] = 2 /\ ~TokenAuth /\ state[r] = 1
          /\ \A q \in Requests \ {r} : pc'[q] = pc[q] /\ reply'[q] = reply[q]
      <4>1. UNCHANGED <<state, target, tun, cookieVars>> BY <1>2, <2>2 DEF TunnelCreate
      <4>2. PICK next \in {SERVER_STATE_TUNNEL_CREATE, FAILED} :
              Respond(r, next) /\ (next = FAILED \/ (~TokenAuth /\ state[r] = 1))
        BY <2>2
      <4> QED BY <4>1, <4>2, RespondOwn
    <3>2. CookieOf(r)'
      BY <1>0, <3>1 DEF CookieInv, CookieOf, Fresh, Cleared, Validated, Registered, Processes
    <3> QED BY <3>1, <3>2, OnlyOwnCookie
  <2> QED BY <1>2, <2>1, <2>2 DEF TunnelCreate
<1>3. CASE TunnelAuth(r)
  <2>1. /\ pc'[r] \in {"write", "ending"} /\ UNCHANGED <<state, target, tun, cookieVars>>
        /\ pc'[r] = "write" => reply'[r] = FAILED \/ state[r] = SERVER_STATE_TUNNEL_CREATE
        /\ pc'[r] = "write" => reply'[r] \in {FAILED, SERVER_STATE_TUNNEL_AUTHORIZE}
        /\ \A q \in Requests \ {r} : pc'[q] = pc[q] /\ reply'[q] = reply[q]
    BY <1>3, RespondOwn DEF TunnelAuth
  <2>2. CookieOf(r)'
    BY <1>0, <2>1 DEF CookieInv, CookieOf, Fresh, Cleared, Validated, Registered, Processes
  <2> QED BY <2>1, <2>2, OnlyOwnCookie
<1>4. ASSUME NEW h \in Hosts, NEW listed \in BOOLEAN, ChannelCreate(r, h,
     listed) PROVE CookieInv'
  <2>1. /\ pc'[r] \in {"dial", "write", "ending"} /\ UNCHANGED <<state, tun, cookieVars>>
        /\ pc'[r] = "write" => reply'[r] = FAILED
        /\ \/ state[r] = SERVER_STATE_TUNNEL_AUTHORIZE /\ target'[r] = h
           \/ target'[r] = target[r] /\ pc'[r] # "dial"
        /\ \A q \in Requests \ {r} :
             pc'[q] = pc[q] /\ reply'[q] = reply[q] /\ target'[q] = target[q]
    BY <1>4, RespondOwn, GoToOwn DEF ChannelCreate, Await, Set, TypeOK, ProcessType
  <2>2. CookieOf(r)'
    BY <1>0, <2>1, ConstantsAssumption
    DEF CookieInv, CookieOf, Fresh, Cleared, Validated, Registered, Processes
  <2> QED BY <2>1, <2>2, OnlyOwnCookie
<1>5. CASE Data(r)
  <2>1. /\ pc'[r] \in {"send", "ending"} /\ UNCHANGED <<target, tun, cookieVars>>
        /\ \/ state'[r] = state[r]
           \/ state'[r] = SERVER_STATE_OPENED /\ state[r] >= SERVER_STATE_CHANNEL_CREATE
        /\ pc'[r] = "send" => state'[r] >= SERVER_STATE_CHANNEL_CREATE
        /\ \A q \in Requests \ {r} :
             pc'[q] = pc[q] /\ reply'[q] = reply[q] /\ state'[q] = state[q]
    BY <1>5, <1>0, GoToOwn DEF Data, Send, Return, Set, TypeOK, ProcessType
  <2>2. CookieOf(r)'
    BY <1>0, <2>1 DEF CookieInv, CookieOf, Fresh, Cleared, Validated, Registered, Processes
  <2> QED BY <2>1, <2>2, OnlyOwnCookie
<1>6. CASE Keepalive(r)
  <2>1. /\ pc'[r] \in {"read", "ending"} /\ UNCHANGED <<state, target, tun, cookieVars>>
        /\ \A q \in Requests \ {r} : pc'[q] = pc[q] /\ reply'[q] = reply[q]
    BY <1>6, GoToOwn DEF Keepalive, Read, Return
  <2>2. CookieOf(r)'
    BY <1>0, <2>1 DEF CookieInv, CookieOf, Fresh, Cleared, Validated, Registered, Processes
  <2> QED BY <2>1, <2>2, OnlyOwnCookie
<1>7. CASE CloseChannel(r)
  <2>1. /\ pc'[r] \in {"write", "ending"} /\ UNCHANGED <<state, target, tun, cookieVars>>
        /\ pc'[r] = "write" => reply'[r] = SERVER_STATE_CLOSED /\ state[r] = SERVER_STATE_OPENED
        /\ \A q \in Requests \ {r} : pc'[q] = pc[q] /\ reply'[q] = reply[q]
    BY <1>7, RespondOwn, GoToOwn DEF CloseChannel, Return
  <2>2. CookieOf(r)'
    BY <1>0, <2>1 DEF CookieInv, CookieOf, Fresh, Cleared, Validated, Registered, Processes
  <2> QED BY <2>1, <2>2, OnlyOwnCookie
<1>8. CASE Ignored(r)
  <2>1. /\ pc'[r] \in {"read"} /\ UNCHANGED <<state, target, tun, cookieVars>>
        /\ \A q \in Requests \ {r} : pc'[q] = pc[q] /\ reply'[q] = reply[q]
    BY <1>8, GoToOwn DEF Ignored, Read
  <2>2. CookieOf(r)'
    BY <1>0, <2>1 DEF CookieInv, CookieOf, Fresh, Cleared, Validated, Registered, Processes
  <2> QED BY <2>1, <2>2, OnlyOwnCookie
<1> QED BY <1>1, <1>2, <1>3, <1>4, <1>5, <1>6, <1>7, <1>8 DEF Packet

\* The other steps of a processor show no cookie and approve no host.
LEMMA ProcessCookie ==
  ASSUME TypeOK, Bound, CookieInv, NEW r \in Requests, Process(r)
  PROVE  CookieInv'
<1> USE DEF SERVER_STATE_INITIALIZED, SERVER_STATE_HANDSHAKE, SERVER_STATE_TUNNEL_CREATE,
            SERVER_STATE_TUNNEL_AUTHORIZE, SERVER_STATE_CHANNEL_CREATE,
            SERVER_STATE_CLOSED, FAILED
<1>0. state[r] \in 0..6 /\ reply[r] \in -1..6
    BY DEF TypeOK, ProcessType, ControlType
<1>1. CASE RegisterBegin(r)
  <2>1. /\ pc'[r] \in {"making", "registering"} /\ pc[r] = "register"
        /\ UNCHANGED <<target, tun, cookieVars>> /\ state'[r] = SERVER_STATE_INITIALIZED
        /\ \A q \in Requests \ {r} :
             pc'[q] = pc[q] /\ reply'[q] = reply[q] /\ state'[q] = state[q]
    BY <1>1, GoToOwn DEF RegisterBegin, NewProcessor, Await, Set, TypeOK, ProcessType
  <2>2. CookieOf(r)'
    BY <1>0, <2>1 DEF CookieInv, CookieOf, Fresh, Cleared, Validated, Registered, Processes
  <2> QED BY <2>1, <2>2, OnlyOwnCookie
<1>2. CASE RegisterEnd(r)
  <2>1. /\ pc'[r] = "read" /\ pc[r] \in {"making", "registering"}
        /\ UNCHANGED <<state, target, tun, cookieVars>>
        /\ \A q \in Requests \ {r} : pc'[q] = pc[q] /\ reply'[q] = reply[q]
    BY <1>2, GoToOwn DEF RegisterEnd, Read
  <2>2. CookieOf(r)'
    BY <1>0, <2>1 DEF CookieInv, CookieOf, Fresh, Cleared, Validated, Registered, Processes
  <2> QED BY <2>1, <2>2, OnlyOwnCookie
<1>3. CASE Packet(r) BY <1>3, PacketCookie
<1>4. CASE UserInfo(r)
  <2>1. /\ pc[r] = "userinfo" /\ UNCHANGED <<state, target, tun, paa>>
        /\ pc'[r] \in {"write", "ending"}
        /\ \/ vouched'[r] = paa[r]
           \/ vouched'[r] = vouched[r] /\ (pc'[r] = "write" => reply'[r] = FAILED)
        /\ pc'[r] = "write" => reply'[r] \in {SERVER_STATE_TUNNEL_CREATE, FAILED}
        /\ \A q \in Requests \ {r} :
             pc'[q] = pc[q] /\ reply'[q] = reply[q] /\ vouched'[q] = vouched[q]
    BY <1>4, RespondOwn DEF UserInfo, Set, TypeOK, ProcessType
  <2>2. CookieOf(r)'
    BY <1>0, <2>1 DEF CookieInv, CookieOf, Fresh, Cleared, Validated, Registered, Processes
  <2> QED BY <2>1, <2>2, OnlyOwnCookie
<1>5. CASE Dial(r)
  <2>1. /\ pc[r] = "dial" /\ UNCHANGED <<state, target, tun, cookieVars>>
        /\ pc'[r] \in {"write", "ending"}
        /\ pc'[r] = "write" => reply'[r] \in {SERVER_STATE_CHANNEL_CREATE, FAILED}
        /\ \A q \in Requests \ {r} : pc'[q] = pc[q] /\ reply'[q] = reply[q]
    BY <1>5, RespondOwn DEF Dial
  <2>2. CookieOf(r)'
    BY <1>0, <2>1 DEF CookieInv, CookieOf, Fresh, Cleared, Validated, Registered, Processes
  <2> QED BY <2>1, <2>2, OnlyOwnCookie
<1>6. CASE ResponseWritten(r)
  <2>1. /\ pc[r] = "write" /\ UNCHANGED <<target, tun, cookieVars>>
        /\ pc'[r] = IF reply[r] \in {FAILED, SERVER_STATE_CLOSED} THEN "ending" ELSE "read"
        /\ state'[r] = IF reply[r] = FAILED THEN state[r] ELSE reply[r]
        /\ \A q \in Requests \ {r} :
             pc'[q] = pc[q] /\ reply'[q] = reply[q] /\ state'[q] = state[q]
    BY <1>6, GoToOwn DEF ResponseWritten, Return, Read, Set, TypeOK, ProcessType
  <2>2. CookieOf(r)'
    BY <1>0, <2>1 DEF CookieInv, CookieOf, Fresh, Cleared, Validated, Registered, Processes
  <2> QED BY <2>1, <2>2, OnlyOwnCookie
<1>7. CASE ReadError(r) \/ WritePanic(r) \/ RemoveBegin(r) \/ RemoveEnd(r)
  <2>1. /\ pc[r] \in {"read", "write", "ending", "removing"}
        /\ pc'[r] \in {"ending", "removing", "done"} /\ UNCHANGED <<state, target, tun, cookieVars>>
        /\ \A q \in Requests \ {r} : pc'[q] = pc[q] /\ reply'[q] = reply[q]
    BY <1>7, GoToOwn DEF ReadError, WritePanic, RemoveBegin, RemoveEnd, Return, Await
  <2>2. CookieOf(r)'
    BY <1>0, <2>1 DEF CookieInv, CookieOf, Fresh, Cleared, Validated, Registered, Processes
  <2> QED BY <2>1, <2>2, OnlyOwnCookie
<1>8. CASE SetRemoteAddr(r) \/ DataSent(r)
  <2>1. /\ \/ pc[r] = "cookie" /\ pc'[r] = "userinfo"
           \/ pc[r] = "send" /\ pc'[r] = "read"
        /\ UNCHANGED <<state, target, tun, cookieVars>>
        /\ \A q \in Requests \ {r} : pc'[q] = pc[q] /\ reply'[q] = reply[q]
    BY <1>8, GoToOwn DEF SetRemoteAddr, DataSent, Read, Await
  <2>2. CookieOf(r)'
    BY <1>0, <2>1 DEF CookieInv, CookieOf, Fresh, Cleared, Validated, Registered, Processes
  <2> QED BY <2>1, <2>2, OnlyOwnCookie
<1> QED BY <1>1, <1>2, <1>3, <1>4, <1>5, <1>6, <1>7, <1>8 DEF Process

\* Every step keeps CookieInv.
LEMMA NextCookie ==
  ASSUME TypeOK, Bound, CookieInv, [Next]_vars
  PROVE  CookieInv'
<1>1. CASE \E r \in Requests : Handler(r) BY <1>1, HandlerCookie
<1>2. CASE \E r \in Requests : Process(r) BY <1>2, ProcessCookie
<1>3. CASE \/ \E r \in Requests : Forward(r) \/ ClientLeaves(r)
           \/ \E c \in ConnIds : CacheExpire(c)
           \/ \E inv \in SUBSET (Users \X Hosts) : EditInventory(inv)
           \/ Crash \/ UNCHANGED vars
  <2>1. UNCHANGED <<pc, reply, state, cookieVars, target, tun>>
    BY <1>3 DEF Forward, ForwardRead, ForwardWritten, ForwardEnd, BackendBreak,
                ClientLeaves, CacheExpire, EditInventory, Crash, vars
  <2> QED BY <2>1 DEF CookieInv, CookieOf, Fresh, Cleared, Validated
<1> QED BY <1>1, <1>2, <1>3 DEF Next

\* No cookie has been shown at the start.
LEMMA InitCookie == Init => CookieInv
BY DEF Init, CookieInv, CookieOf, Fresh, Cleared, Validated, Registered, Processes, FAILED,
       SERVER_STATE_INITIALIZED, SERVER_STATE_TUNNEL_CREATE

-----------------------------------------------------------------------------
(* Hosts come from cookies                                                  *)

\* An accepted cookie and a tunnel binding last as long as the request.
LEMMA CookieStays ==
  ASSUME TypeOK, Bound, CookieInv, Next
  PROVE  \A q \in Requests : /\ paa[q] # None => paa'[q] = paa[q]
                             /\ tun[q] # None => tun'[q] = tun[q]
<1>1. ASSUME NEW r \in Requests, HandleGatewayProtocol(r)
      PROVE  /\ UNCHANGED paa
             /\ \A q \in Requests : tun[q] # None => tun'[q] = tun[q]
    BY <1>1 DEF HandleGatewayProtocol, Set, Bound, TypeOK, TunnelType
<1>2. ASSUME NEW r \in Requests, NEW tok \in Tokens \union {None}, TunnelCreate(r, tok)
      PROVE  UNCHANGED tun /\ \A q \in Requests : paa[q] # None => paa'[q] = paa[q]
  <2>1. CASE PresentCookie(r, tok) /\ state[r] = SERVER_STATE_HANDSHAKE
    <3>1. paa[r] = None
      BY <1>2, <2>1 DEF TunnelCreate, Received, CookieInv, CookieOf, Fresh,
                        SERVER_STATE_HANDSHAKE
    <3> QED BY <1>2, <2>1, <3>1 DEF TunnelCreate, PresentCookie, Set, TypeOK, ProcessType
  <2> QED BY <1>2, <2>1 DEF TunnelCreate
<1>3. ASSUME ~\E r \in Requests : HandleGatewayProtocol(r),
             ~\E r \in Requests, tok \in Tokens \union {None} : TunnelCreate(r, tok)
      PROVE  UNCHANGED <<paa, tun>>
  <2>1. ASSUME NEW r \in Requests, Handler(r) PROVE UNCHANGED <<paa, tun>>
    BY <1>3, <2>1 DEF Handler, Refuse, WsAttach, OutAttach, OutCache, InCheck, InAttach,
                      InCache, InDrain
  <2>2. ASSUME NEW r \in Requests, Process(r) PROVE UNCHANGED <<paa, tun>>
    BY <1>3, <2>2 DEF Process, RegisterBegin, RegisterEnd, Packet, SetRemoteAddr, UserInfo, Dial,
         ResponseWritten, DataSent, ReadError, WritePanic, RemoveBegin, RemoveEnd,
         HandshakeRequest, TunnelAuth, ChannelCreate, Data, Keepalive, CloseChannel, Ignored
  <2>3. CASE \/ \E r \in Requests : Forward(r) \/ ClientLeaves(r)
             \/ \E c \in ConnIds : CacheExpire(c)
             \/ \E inv \in SUBSET (Users \X Hosts) : EditInventory(inv)
             \/ Crash
    BY <2>3 DEF Forward, ForwardRead, ForwardWritten, ForwardEnd, BackendBreak,
                ClientLeaves, CacheExpire, EditInventory, Crash
  <2> QED BY <2>1, <2>2, <2>3 DEF Next
<1> QED BY <1>1, <1>2, <1>3

\* So a cookie that was shown stays shown, and an unshared tunnel was never shared.
LEMMA ShownStays ==
  ASSUME TypeOK, Bound, CookieInv, Next
  PROVE  /\ \A t \in Requests, h \in Hosts : Shown(t, h) => Shown(t, h)'
         /\ \A r \in Requests : tun[r] # None /\ Sole(r)' => Sole(r)
BY CookieStays, ConstantsAssumption DEF Shown, Sole

\* The four steps that touch a tunnel's claims, a cookie or an approved host: a cookie
\* is shown, its address is copied, a host is approved, a dialled host is written back.
Shows(r, tok) ==
  /\ pc[r] = "read" /\ paa[r] = None /\ pc'[r] = "cookie"
  /\ TargetServer' = [TargetServer EXCEPT ![tun[r]] = tok.host]
  /\ paa' = [paa EXCEPT ![r] = tok]
  /\ UNCHANGED <<tun, target, RemoteAddr>>

Stamps(r) ==
  /\ pc[r] = "cookie"
  /\ RemoteAddr' = [RemoteAddr EXCEPT ![tun[r]] = paa[r].ip]
  /\ \A q \in Requests \ {r} : pc'[q] = pc[q]
  /\ UNCHANGED <<tun, paa, target, TargetServer>>

Approves(r, h) ==
  /\ pc[r] = "read" /\ state[r] = SERVER_STATE_TUNNEL_AUTHORIZE
  /\ TokenAuth => CheckSession(r, h)
  /\ target' = [target EXCEPT ![r] = h]
  /\ UNCHANGED <<tun, paa, TargetServer, RemoteAddr>>

WritesBack(r) ==
  /\ pc[r] = "dial"
  /\ TargetServer' = [TargetServer EXCEPT ![tun[r]] = target[r]]
  /\ UNCHANGED <<tun, paa, target, RemoteAddr>>

\* A step shows a cookie, copies its address, approves a host, writes back the host it
\* dialled, or leaves cookies, approved hosts and the tunnels' claims alone.
LEMMA TokenSteps ==
  ASSUME TypeOK, Bound, CookieInv, Next
  PROVE  \/ UNCHANGED <<paa, target, TargetServer, RemoteAddr>>
         \/ \E r \in Requests : \/ \E tok \in Tokens : Shows(r, tok)
                                \/ Stamps(r)
                                \/ \E h \in Hosts : Approves(r, h)
                                \/ WritesBack(r)
<1>1. ASSUME NEW r \in Requests, NEW tok \in Tokens \union {None}, TunnelCreate(r, tok)
      PROVE  \/ UNCHANGED <<paa, target, TargetServer, RemoteAddr>>
             \/ tok \in Tokens /\ Shows(r, tok)
  <2>1. CASE PresentCookie(r, tok) /\ state[r] = SERVER_STATE_HANDSHAKE /\ tok \in Tokens
    <3>1. paa[r] = None /\ pc[r] = "read"
      BY <1>1, <2>1 DEF TunnelCreate, Received, CookieInv, CookieOf, Fresh,
                        SERVER_STATE_HANDSHAKE
    <3>2. pc'[r] = "cookie" BY <2>1, GoToOwn DEF PresentCookie, Await
    <3> QED BY <1>1, <2>1, <3>1, <3>2 DEF TunnelCreate, PresentCookie, Set, Shows
  <2> QED BY <1>1, <2>1 DEF TunnelCreate
<1>2. ASSUME NEW r \in Requests, NEW h \in Hosts, NEW listed \in BOOLEAN,
             ChannelCreate(r, h, listed)
      PROVE  UNCHANGED <<paa, target, TargetServer, RemoteAddr>> \/ Approves(r, h)
    BY <1>2 DEF ChannelCreate, Received, CheckHost, Set, Approves
<1>3. ASSUME NEW r \in Requests, Dial(r)
      PROVE  UNCHANGED <<paa, target, TargetServer, RemoteAddr>> \/ WritesBack(r)
    BY <1>3 DEF Dial, Set, WritesBack
<1>6. ASSUME NEW r \in Requests, SetRemoteAddr(r) PROVE Stamps(r)
    BY <1>6, GoToOwn DEF SetRemoteAddr, Await, Set, Stamps
<1>4. ASSUME NEW r \in Requests, Process(r), ~Dial(r), ~SetRemoteAddr(r),
             ~\E tok \in Tokens \union {None} : TunnelCreate(r, tok),
             ~\E h \in Hosts, listed \in BOOLEAN : ChannelCreate(r, h, listed)
      PROVE  UNCHANGED <<paa, target, TargetServer, RemoteAddr>>
    BY <1>4 DEF Process, RegisterBegin, RegisterEnd, Packet, UserInfo,
         ResponseWritten, DataSent, ReadError, WritePanic, RemoveBegin, RemoveEnd,
         HandshakeRequest, TunnelAuth, Data, Keepalive, CloseChannel, Ignored
<1>5. CASE \/ \E r \in Requests : Handler(r) \/ Forward(r) \/ ClientLeaves(r)
           \/ \E c \in ConnIds : CacheExpire(c)
           \/ \E inv \in SUBSET (Users \X Hosts) : EditInventory(inv)
           \/ Crash
  <2>1. ASSUME NEW r \in Requests, Handler(r)
        PROVE  UNCHANGED <<paa, target, TargetServer, RemoteAddr>>
    BY <2>1 DEF Handler, HandleGatewayProtocol, Refuse, WsAttach, OutAttach, OutCache,
                InCheck, InAttach, InCache, InDrain
  <2> QED BY <1>5, <2>1 DEF Forward, ForwardRead, ForwardWritten, ForwardEnd,
                BackendBreak, ClientLeaves, CacheExpire, EditInventory, Crash
<1> QED BY <1>1, <1>2, <1>3, <1>4, <1>5, <1>6 DEF Next

\* Only the copying of the address takes a handler on from the cookie's host.
LEMMA StaysAtCookie ==
  ASSUME TypeOK, Next, NEW q \in Requests, pc[q] = "cookie"
  PROVE  pc'[q] = "cookie" \/ Stamps(q)
<1>1. ASSUME NEW r \in Requests, Handler(r) PROVE pc'[q] = "cookie"
    BY <1>1 DEF Handler, HandleGatewayProtocol, Refuse, WsAttach, OutAttach, OutCache,
                InCheck, InAttach, InCache, InDrain, Await, GoTo, Set, TypeOK, ControlType
<1>2. ASSUME NEW r \in Requests, Packet(r) PROVE pc'[q] = "cookie"
  <2>1. pc[r] = "read"
    BY <1>2 DEF Packet, HandshakeRequest, TunnelCreate, TunnelAuth, ChannelCreate, Data,
                Keepalive, CloseChannel, Ignored, Received
  <2>2. \E where : pc' = [pc EXCEPT ![r] = where]
    BY <1>2 DEF Packet, HandshakeRequest, TunnelCreate, PresentCookie, TunnelAuth,
                ChannelCreate, Data, Keepalive, CloseChannel, Ignored, Await, Return,
                Read, Respond, Send, GoTo, Set
  <2> QED BY <2>1, <2>2 DEF TypeOK, ControlType
<1>3. ASSUME NEW r \in Requests, SetRemoteAddr(r) PROVE pc'[q] = "cookie" \/ Stamps(q)
  <2>1. CASE r = q
    BY <1>3, <2>1, GoToOwn DEF SetRemoteAddr, Await, Set, Stamps
  <2>2. CASE r # q
    BY <1>3, <2>2, GoToOwn DEF SetRemoteAddr, Await
  <2> QED BY <2>1, <2>2
<1>4. ASSUME NEW r \in Requests, Process(r), ~SetRemoteAddr(r), ~Packet(r)
      PROVE  pc'[q] = "cookie"
    BY <1>4 DEF Process, RegisterBegin, RegisterEnd, UserInfo, Dial, ResponseWritten,
         DataSent, ReadError, WritePanic, RemoveBegin, RemoveEnd, Await, Return, Read,
         Respond, GoTo, Set, TypeOK, ControlType
<1>5. CASE \/ \E r \in Requests : Forward(r) \/ ClientLeaves(r)
           \/ \E c \in ConnIds : CacheExpire(c)
           \/ \E inv \in SUBSET (Users \X Hosts) : EditInventory(inv)
           \/ Crash
    BY <1>5 DEF Forward, ForwardRead, ForwardWritten, ForwardEnd, BackendBreak,
                ClientLeaves, CacheExpire, EditInventory, Crash
<1> QED BY <1>1, <1>2, <1>3, <1>4, <1>5 DEF Next

\* Every step keeps TokenInv.
LEMMA NextToken ==
  ASSUME TypeOK, Bound, CookieInv, TokenInv, [Next]_vars
  PROVE  TokenInv'
<1>1. CASE ~TokenAuth
    BY <1>1 DEF TokenInv, HeldHostShown, DialsTokenHost, HoldsOwnCookie, DialsOwnHost
<1>2. CASE UNCHANGED vars
    BY <1>2 DEF vars, TokenInv, HeldHostShown, DialsTokenHost, HoldsOwnCookie,
                DialsOwnHost, Shown, Sole
<1> SUFFICES ASSUME TokenAuth, Next PROVE TokenInv' BY <1>1, <1>2
<1>3. \A q \in Requests :
        /\ TargetServer[q] # None => TargetServer[q] \in Hosts
        /\ target[q] # None => target[q] \in Hosts /\ paa[q] # None /\ tun[q] \in Requests
        /\ paa[q] # None => tun[q] \in Requests
    BY DEF TypeOK, TunnelType, ProcessType, Maybe, CookieInv, CookieOf, Cleared
<1>4. \A t \in Requests, h \in Hosts : TargetServer[t] = h => Shown(t, h)'
    BY ShownStays, ConstantsAssumption DEF TokenInv, HeldHostShown
<1>5. \A q \in Requests, h \in Hosts : target[q] = h => Shown(tun[q], h)'
  <2> SUFFICES ASSUME NEW q \in Requests, NEW h \in Hosts, target[q] = h
               PROVE  Shown(tun[q], h)'
    OBVIOUS
  <2>1. target[q] # None /\ tun[q] \in Requests BY <1>3, ConstantsAssumption
  <2>2. Shown(tun[q], h) BY <2>1 DEF TokenInv, DialsTokenHost, Shown
  <2>3. \A t \in Requests : Shown(t, h) => Shown(t, h)' BY ShownStays
  <2>4. tun'[q] = tun[q] BY <2>1, CookieStays, ConstantsAssumption
  <2> QED BY <2>1, <2>2, <2>3, <2>4 DEF Shown
<1>6. \A q \in Requests : paa[q] # None /\ Sole(q)' =>
        /\ Sole(q) /\ tun'[q] = tun[q] /\ paa'[q] = paa[q]
        /\ TargetServer[tun[q]] = paa[q].host
        /\ pc[q] # "cookie" => RemoteAddr[tun[q]] = paa[q].ip
        /\ target[q] # None => /\ paa[q].host = target[q]
                               /\ VerifyClientIP => paa[q].ip = ClientIp[q]
    BY <1>3, ShownStays, CookieStays, ConstantsAssumption
    DEF TokenInv, HoldsOwnCookie, DialsOwnHost
\* On an unshared tunnel no other request runs a processor.
<1>7. \A q, r \in Requests : Sole(q) /\ tun[r] = tun[q] /\ pc[r] \in Registered => r = q
    BY DEF Sole, CookieInv, CookieOf, Registered, Processes
\* A cookie whose address has been copied by the end of the step.
<1>12. \A q \in Requests : paa[q] # None /\ pc[q] = "cookie" /\ pc'[q] # "cookie" =>
          RemoteAddr'[tun[q]] = paa[q].ip
    BY <1>3, StaysAtCookie DEF Stamps, TypeOK, TunnelType
<1>8. CASE UNCHANGED <<paa, target, TargetServer, RemoteAddr>>
  <2>1. HeldHostShown' BY <1>8, <1>3, <1>4 DEF HeldHostShown, Shown
  <2>2. DialsTokenHost'
    BY <1>8, <1>3, <1>5, CookieStays, ConstantsAssumption DEF DialsTokenHost, Shown
  <2>3. HoldsOwnCookie' BY <1>8, <1>6, <1>12 DEF HoldsOwnCookie
  <2>4. DialsOwnHost' BY <1>8, <1>3, <1>6 DEF DialsOwnHost
  <2> QED BY <2>1, <2>2, <2>3, <2>4 DEF TokenInv
<1>9. ASSUME NEW r \in Requests, NEW tok \in Tokens, Shows(r, tok) PROVE TokenInv'
  <2>1. /\ tun[r] \in Requests /\ tok.host \in Hosts /\ tok # None /\ target[r] = None
        /\ pc[r] \in Registered
    BY <1>9, <1>3, BoundTunnel, ConstantsAssumption DEF Shows, Registered, Processes
  <2>2. TargetServer'[tun[r]] = tok.host /\ paa'[r] = tok
    BY <1>9, <2>1 DEF Shows, TypeOK, TunnelType, ProcessType
  <2>3. \A q \in Requests \ {r} : paa'[q] = paa[q]
    BY <1>9 DEF Shows, TypeOK, ProcessType
  <2>4. \A t \in Requests \ {tun[r]} : TargetServer'[t] = TargetServer[t]
    BY <1>9 DEF Shows, TypeOK, TunnelType
  <2>5. HeldHostShown'
    BY <1>9, <1>3, <1>4, <2>1, <2>2, <2>4 DEF HeldHostShown, Shown, Shows
  <2>6. DialsTokenHost'
    BY <1>9, <1>3, <1>5 DEF DialsTokenHost, Shown, Shows
  <2>7. HoldsOwnCookie'
    BY <1>9, <1>3, <1>6, <1>7, <1>12, <2>1, <2>2, <2>3, <2>4 DEF HoldsOwnCookie, Shows
  <2>8. DialsOwnHost'
    BY <1>9, <1>3, <1>6, <2>1, <2>3 DEF DialsOwnHost, Shows
  <2> QED BY <2>5, <2>6, <2>7, <2>8 DEF TokenInv
<1>10. ASSUME NEW r \in Requests, NEW h \in Hosts, Approves(r, h) PROVE TokenInv'
  <2>1. tun[r] \in Requests /\ h # None /\ paa[r] # None
    BY <1>10, BoundTunnel, ConstantsAssumption
    DEF Approves, CookieInv, CookieOf, Cleared, SERVER_STATE_TUNNEL_AUTHORIZE,
        SERVER_STATE_TUNNEL_CREATE
  <2>2. TargetServer[tun[r]] = h /\ (VerifyClientIP => RemoteAddr[tun[r]] = ClientIp[r])
    BY <1>10 DEF Approves, CheckSession
  <2>3. target'[r] = h /\ \A q \in Requests \ {r} : target'[q] = target[q]
    BY <1>10 DEF Approves, TypeOK, ProcessType
  <2>4. HeldHostShown' BY <1>10, <1>3, <1>4 DEF Approves, HeldHostShown, Shown
  <2>5. DialsTokenHost'
    BY <1>10, <1>3, <1>4, <1>5, <2>1, <2>2, <2>3 DEF Approves, DialsTokenHost, Shown
  <2>6. HoldsOwnCookie' BY <1>10, <1>6, <1>12 DEF Approves, HoldsOwnCookie
  <2>7. DialsOwnHost'
    BY <1>10, <1>3, <1>6, <2>1, <2>2, <2>3 DEF Approves, DialsOwnHost
  <2> QED BY <2>4, <2>5, <2>6, <2>7 DEF TokenInv
<1>11. ASSUME NEW r \in Requests, WritesBack(r) PROVE TokenInv'
  <2>1. /\ tun[r] \in Requests /\ target[r] # None /\ target[r] \in Hosts
        /\ pc[r] \in Registered /\ paa[r] # None
    BY <1>11, <1>3, BoundTunnel
    DEF WritesBack, CookieInv, CookieOf, Cleared, Registered, Processes
  <2>2. TargetServer'[tun[r]] = target[r]
    BY <1>11, <2>1 DEF WritesBack, TypeOK, TunnelType
  <2>3. \A t \in Requests \ {tun[r]} : TargetServer'[t] = TargetServer[t]
    BY <1>11 DEF WritesBack, TypeOK, TunnelType
  <2>4. HeldHostShown'
    BY <1>11, <1>3, <1>4, <1>5, <2>1, <2>2, <2>3 DEF WritesBack, HeldHostShown, Shown
  <2>5. DialsTokenHost'
    BY <1>11, <1>3, <1>5 DEF WritesBack, DialsTokenHost, Shown
  <2>6. HoldsOwnCookie'
    BY <1>11, <1>3, <1>6, <1>7, <1>12, <2>1, <2>2, <2>3 DEF WritesBack, HoldsOwnCookie
  <2>7. DialsOwnHost' BY <1>11, <1>3, <1>6 DEF WritesBack, DialsOwnHost
  <2> QED BY <2>4, <2>5, <2>6, <2>7 DEF TokenInv
<1>13. ASSUME NEW r \in Requests, Stamps(r) PROVE TokenInv'
  <2>1. tun[r] \in Requests /\ pc[r] \in Registered
    BY <1>13, BoundTunnel DEF Stamps, Registered, Processes
  <2>2. \A t \in Requests \ {tun[r]} : RemoteAddr'[t] = RemoteAddr[t]
    BY <1>13 DEF Stamps, TypeOK, TunnelType
  <2>3. HeldHostShown' BY <1>13, <1>3, <1>4 DEF Stamps, HeldHostShown, Shown
  <2>4. DialsTokenHost' BY <1>13, <1>3, <1>5 DEF Stamps, DialsTokenHost, Shown
  <2>5. HoldsOwnCookie'
    BY <1>13, <1>3, <1>6, <1>7, <1>12, <2>1, <2>2 DEF Stamps, HoldsOwnCookie
  <2>6. DialsOwnHost' BY <1>13, <1>3, <1>6 DEF Stamps, DialsOwnHost
  <2> QED BY <2>3, <2>4, <2>5, <2>6 DEF TokenInv
<1> QED BY <1>8, <1>9, <1>10, <1>11, <1>13, TokenSteps

\* TokenInv holds before any cookie is shown.
LEMMA InitToken == Init => TokenInv
BY DEF Init, TokenInv, HeldHostShown, DialsTokenHost, HoldsOwnCookie, DialsOwnHost

\* TokenInv, carried by the invariants it rests on, holds in every reachable
\* state.
LEMMA TokenInvariant == Spec => []TokenInv
<1>1. TypeOK /\ Bound /\ CookieInv /\ [Next]_vars => CookieInv' BY NextCookie
<1>2. TypeOK /\ Bound /\ CookieInv /\ TokenInv /\ [Next]_vars => TokenInv' BY NextToken
<1> QED BY <1>1, <1>2, InitCookie, InitToken, TypedAndBound, PTL DEF Spec

\* CheckPAACookie and CheckSession together: with any number of requests, shared
\* tunnels included, a token gateway dials no host without a cookie for it.
THEOREM DialsOnlyTokenHosts == Spec => []DialsTokenHost
<1>1. TokenInv => DialsTokenHost BY DEF TokenInv
<1> QED BY <1>1, TokenInvariant, PTL

\* With the tunnel to itself, a processor dials the host of its own cookie, for
\* the client address that cookie was issued to, after the provider has accepted
\* the cookie's access token and the tunnel has been authorized.
THEOREM DialsOnlyOwnTokenHost == Spec => []DialsOwnTokenHost
<1>1. CookieInv /\ TokenInv => DialsOwnTokenHost
    BY DEF CookieInv, CookieOf, Validated, TokenInv, DialsOwnHost, DialsOwnTokenHost
<1>2. TypeOK /\ Bound /\ CookieInv /\ [Next]_vars => CookieInv' BY NextCookie
<1> QED BY <1>1, <1>2, InitCookie, TokenInvariant, TypedAndBound, PTL DEF Spec

=============================================================================
