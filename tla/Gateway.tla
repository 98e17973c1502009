------------------------------- MODULE Gateway -------------------------------
(***************************************************************************)
(* The gateway route of one server process: HandleGatewayProtocol, which   *)
(* binds a request to a Tunnel object through a cache keyed by the client's *)
(* Rdg-Connection-Id, and the websocket and legacy handlers, which attach   *)
(* transports to the tunnel and run a Processor on it.                      *)
(*                                                                         *)
(* The two halves of a legacy connection (RDG_OUT_DATA, RDG_IN_DATA) are    *)
(* two requests that meet only through the cache.  After[r] is the request  *)
(* whose acceptance the client of r awaits before it sends r.               *)
(***************************************************************************)
EXTENDS Processor

CONSTANT After

ASSUME AfterAssumption == After \in [Requests -> Requests \union {None}]

VARIABLES
  up,         \* the server process is running
  cache,      \* connection id -> Tunnel (go-cache, 5 minutes)
  accepted    \* the requests whose client has been told to go on

gatewayVars == <<up, cache, accepted>>
vars == <<processorVars, gatewayVars>>

Maybe(S) == S \union {None}

ControlType ==
  /\ pc \in [Requests -> Registered \union
        {"idle", "out_attach", "out_cache", "in_check", "in_attach", "in_cache",
         "in_drain", "ws_attach", "register", "making", "registering", "done"}]
  /\ io \in [Requests -> Maybe(Requests)]
  /\ reply \in [Requests -> -1..6]

TunnelType ==
  /\ tun \in [Requests -> Maybe(Requests)]
  /\ transportIn \in [Requests -> Maybe(Requests)]
  /\ transportOut \in [Requests -> Maybe(Requests)]
  /\ Id \in [Requests -> Maybe(Requests)]
  /\ TargetServer \in [Requests -> Maybe(Hosts)]
  /\ RemoteAddr \in [Requests -> Maybe(Addrs)]
  /\ rwc \in [Requests -> Maybe(Requests)]

ProcessType ==
  /\ state \in [Requests -> 0..6]
  /\ paa \in [Requests -> Maybe(Tokens)] /\ vouched \in [Requests -> Maybe(Tokens)]
  /\ target \in [Requests -> Maybe(Hosts)]
  /\ backend \in [Requests -> {"none", "open", "broken", "closed"}]

ForwardType ==
  /\ fwd \in [Requests -> {"none", "read", "write", "done"}]
  /\ fwdConn \in [Requests -> Maybe(Requests)]
  /\ fwdOut \in [Requests -> Maybe(Requests)]

TableType ==
  /\ mapMade \in BOOLEAN
  /\ Connections \in [Requests -> Maybe(Requests)]

PolicyType ==
  /\ inventory \in SUBSET (Users \X Hosts)
  /\ offered \in [Requests -> SUBSET (Users \X Hosts)]

GatewayType ==
  /\ link \in [Requests -> {"none", "open", "gone", "closed"}]
  /\ up \in BOOLEAN
  /\ cache \in [ConnIds -> Maybe(Requests)]
  /\ accepted \in SUBSET Requests

\* Every field keeps the type its Go declaration gives it.
TypeOK ==
  /\ ControlType /\ TunnelType /\ ProcessType /\ ForwardType
  /\ TableType /\ PolicyType /\ GatewayType

Init ==
  LET All(v) == [r \in Requests |-> v] IN
  /\ pc = All("idle") /\ link = All("none") /\ tun = All(None)
  /\ transportIn = All(None) /\ transportOut = All(None) /\ Id = All(None)
  /\ TargetServer = All(None) /\ RemoteAddr = All(None) /\ rwc = All(None)
  /\ state = All(SERVER_STATE_INITIALIZED) /\ io = All(None)
  /\ reply = All(FAILED)
  /\ paa = All(None) /\ vouched = All(None) /\ target = All(None) /\ backend = All("none")
  /\ fwd = All("none") /\ fwdConn = All(None) /\ fwdOut = All(None)
  /\ mapMade = FALSE /\ Connections = All(None)
  /\ inventory \in SUBSET (Users \X Hosts)
  /\ TokenAuth => inventory = {}
  /\ offered = All({})
  /\ up = TRUE /\ accepted = {}
  /\ cache = [c \in ConnIds |-> None]

-----------------------------------------------------------------------------
(* Handlers                                                                 *)

\* A request arrives and gets the cached tunnel of its connection id, or a new
\* one (whose RemoteAddr is a socket address, never equal to a client ip).
HandleGatewayProtocol(r) ==
  /\ pc[r] = "idle"
  /\ After[r] # None => After[r] \in accepted
  /\ link' = Set(link, r, "open")
  /\ tun' = Set(tun, r, IF cache[ConnId[r]] = None THEN r ELSE cache[ConnId[r]])
  /\ Await(r, CASE Method[r] = "WS"  -> "ws_attach"
                 [] Method[r] = "OUT" -> "out_attach"
                 [] Method[r] = "IN"  -> "in_check")
  /\ UNCHANGED <<tunnelVars, processVars, forwardVars, tableVars, policyVars,
                 gatewayVars>>

\* Cross-origin, a connection id that is no uuid, or a connection that cannot
\* be hijacked or upgraded.
Refuse(r) ==
  /\ pc[r] \in {"idle", "out_attach", "in_check", "ws_attach"}
  /\ Await(r, "done")
  /\ link' = Set(link, r, "closed")
  /\ UNCHANGED <<tun, tunnelVars, processVars, forwardVars, tableVars,
                 policyVars, gatewayVars>>

\* handleWebsocketProtocol up to RegisterTunnel: both transports are replaced.
WsAttach(r) ==
  /\ pc[r] = "ws_attach"
  /\ Await(r, "register")
  /\ Id' = Set(Id, tun[r], r)
  /\ transportOut' = Set(transportOut, tun[r], r)
  /\ transportIn' = Set(transportIn, tun[r], r)
  /\ accepted' = accepted \union {r}
  /\ UNCHANGED <<link, tun, TargetServer, RemoteAddr, rwc, processVars,
                 forwardVars, tableVars, policyVars, up, cache>>

\* RDG_OUT_DATA: the client is told to go on before the tunnel is cached.
OutAttach(r) ==
  /\ pc[r] = "out_attach"
  /\ Await(r, "out_cache")
  /\ transportOut' = Set(transportOut, tun[r], r)
  /\ accepted' = accepted \union {r}
  /\ UNCHANGED <<link, tun, transportIn, Id, TargetServer, RemoteAddr, rwc,
                 processVars, forwardVars, tableVars, policyVars, up, cache>>

\* Mutants: the id is cached in place of the tunnel; one slot for all ids.
OutCacheId(r) ==
  /\ pc[r] = "out_cache"
  /\ Await(r, "done")
  /\ cache' = Set(cache, ConnId[tun[r]], ConnId[tun[r]])
  /\ UNCHANGED <<link, tun, tunnelVars, processVars, forwardVars, tableVars,
                 policyVars, up, accepted>>
OutCacheOneSlot(r) ==
  /\ pc[r] = "out_cache"
  /\ Await(r, "done")
  /\ cache' = [c \in ConnIds |-> tun[r]]
  /\ UNCHANGED <<link, tun, tunnelVars, processVars, forwardVars, tableVars,
                 policyVars, up, accepted>>

\* The handler returns; the hijacked connection stays as it is.
OutCache(r) ==
  /\ pc[r] = "out_cache"
  /\ Await(r, "done")
  /\ cache' = Set(cache, ConnId[tun[r]], tun[r])
  /\ UNCHANGED <<link, tun, tunnelVars, processVars, forwardVars, tableVars,
                 policyVars, up, accepted>>

\* RDG_IN_DATA: a tunnel that has an incoming transport already gets no second
\* one; the new connection is closed.
InCheck(r) ==
  /\ pc[r] = "in_check"
  /\ IF transportIn[tun[r]] = None
     THEN Await(r, "in_attach") /\ UNCHANGED link
     ELSE Await(r, "done") /\ link' = Set(link, r, "closed")
  /\ UNCHANGED <<tun, tunnelVars, processVars, forwardVars, tableVars,
                 policyVars, gatewayVars>>

InAttach(r) ==
  /\ pc[r] = "in_attach"
  /\ Await(r, "in_cache")
  /\ Id' = Set(Id, tun[r], r)
  /\ transportIn' = Set(transportIn, tun[r], r)
  /\ UNCHANGED <<link, tun, transportOut, TargetServer, RemoteAddr, rwc,
                 processVars, forwardVars, tableVars, policyVars, gatewayVars>>

InCache(r) ==
  /\ pc[r] = "in_cache"
  /\ Await(r, "in_drain")
  /\ cache' = Set(cache, ConnId[tun[r]], tun[r])
  /\ accepted' = accepted \union {r}
  /\ UNCHANGED <<link, tun, tunnelVars, processVars, forwardVars, tableVars,
                 policyVars, up>>

\* Drain returns with the client's first bytes, or because the client left.
InDrain(r) ==
  /\ pc[r] = "in_drain"
  /\ Await(r, "register")
  /\ UNCHANGED <<link, tun, tunnelVars, processVars, forwardVars, tableVars,
                 policyVars, gatewayVars>>

-----------------------------------------------------------------------------
(* Environment                                                              *)

CacheExpire(c) ==
  /\ cache[c] # None
  /\ cache' = Set(cache, c, None)
  /\ UNCHANGED <<processorVars, up, accepted>>

ClientLeaves(r) ==
  /\ link[r] = "open"
  /\ link' = Set(link, r, "gone")
  /\ UNCHANGED <<controlVars, tun, tunnelVars, processVars, forwardVars, tableVars,
                 policyVars, gatewayVars>>

\* The administrator edits the dashboard's host entries.
EditInventory(inv) ==
  /\ ~TokenAuth /\ inv # inventory
  /\ inventory' = inv
  /\ offered' = [r \in Requests |-> offered[r] \union inv]
  /\ UNCHANGED <<controlVars, link, tun, tunnelVars, processVars, forwardVars, tableVars,
                 gatewayVars>>

Crash ==
  /\ CanCrash
  /\ up' = FALSE
  /\ UNCHANGED <<processorVars, cache, accepted>>

-----------------------------------------------------------------------------
Handler(r) ==
  \/ HandleGatewayProtocol(r) \/ Refuse(r) \/ WsAttach(r) \/ OutAttach(r)
  \/ OutCache(r) \/ InCheck(r) \/ InAttach(r) \/ InCache(r) \/ InDrain(r)

Packet(r) ==
  \/ \E req \in SUBSET AuthCaps : HandshakeRequest(r, req)
  \/ \E tok \in Tokens \union {None} : TunnelCreate(r, tok)
  \/ TunnelAuth(r)
  \/ \E h \in Hosts, listed \in BOOLEAN : ChannelCreate(r, h, listed)
  \/ Data(r) \/ Keepalive(r) \/ CloseChannel(r) \/ Ignored(r)

Process(r) ==
  \/ RegisterBegin(r) \/ RegisterEnd(r) \/ Packet(r) \/ SetRemoteAddr(r)
  \/ UserInfo(r) \/ Dial(r) \/ ResponseWritten(r) \/ DataSent(r) \/ ReadError(r) \/ WritePanic(r)
  \/ RemoveBegin(r) \/ RemoveEnd(r)

Forward(r) ==
  ForwardRead(r) \/ ForwardWritten(r) \/ ForwardEnd(r) \/ BackendBreak(r)

Next ==
  /\ up
  /\ \/ \E r \in Requests : Handler(r) \/ ClientLeaves(r)
     \/ \E r \in Requests : (Process(r) \/ Forward(r)) /\ UNCHANGED gatewayVars
     \/ \E c \in ConnIds : CacheExpire(c)
     \/ \E inv \in SUBSET (Users \X Hosts) : EditInventory(inv)
     \/ Crash

Spec == Init /\ [][Next]_vars

\* The other end of a connection in use: the client on a transport, or the desktop.
PeerLeft(r) ==
  \/ pc[r] \in {"read", "write"} /\ link[io[r]] # "open"
  \/ pc[r] = "send" /\ backend[io[r]] # "open"

\* Goroutines keep running, and the OIDC provider and the dial answer.  No deadline
\* is set on a connection: a read or a write is sure to return only when the other
\* end has left.  Nothing is assumed of clients and desktops.
ServerStep(r) ==
  /\ up
  /\ \/ WsAttach(r) \/ OutAttach(r) \/ OutCache(r) \/ InCheck(r) \/ InAttach(r)
     \/ InCache(r) \/ (InDrain(r) /\ link[r] # "open")
     \/ /\ \/ RegisterBegin(r) \/ RegisterEnd(r) \/ SetRemoteAddr(r) \/ UserInfo(r)
           \/ Dial(r) \/ RemoveBegin(r) \/ RemoveEnd(r)
           \/ PeerLeft(r) /\ (ReadError(r) \/ ResponseWritten(r) \/ DataSent(r))
        /\ UNCHANGED gatewayVars

ForwardStep(r) ==
  /\ up
  /\ \/ fwd[r] = "write" /\ link[fwdOut[r]] # "open" /\ ForwardWritten(r)
     \/ ForwardEnd(r)
  /\ UNCHANGED gatewayVars

Fairness == \A r \in Requests : WF_vars(ServerStep(r)) /\ WF_vars(ForwardStep(r))

FairSpec == Spec /\ Fairness

-----------------------------------------------------------------------------
(* Properties                                                               *)

\* No other request that runs a processor holds r's Tunnel object: the normal
\* case of one websocket, or one in and one out half, per connection id.
Sole(r) == \A q \in Requests \ {r} : tun[q] = tun[r] => Method[q] = "OUT"

\* A token gateway dials only a host that a genuine PAA cookie, presented on the
\* same Tunnel object, names: whatever the interleaving of CheckPAACookie,
\* CheckSession and the write-back of TargetServer by processors that share it.
DialsTokenHost ==
  TokenAuth => \A r \in Requests : target[r] # None =>
    \E q \in Requests :
      tun[q] = tun[r] /\ paa[q] # None /\ paa[q].host = target[r]

\* A processor that has its tunnel to itself dials the host of its own cookie, for
\* the client address of that cookie, and only once the provider has accepted that
\* cookie's access token and the tunnel is authorized.
DialsOwnTokenHost ==
  TokenAuth => \A r \in Requests : target[r] # None /\ Sole(r) =>
    /\ paa[r] # None /\ paa[r].host = target[r]
    /\ VerifyClientIP => paa[r].ip = ClientIp[r]
    /\ vouched[r] = paa[r] /\ state[r] >= SERVER_STATE_TUNNEL_AUTHORIZE

\* A direct gateway dials only a host that the dashboard offered to this
\* request's user while its processor existed, although CheckHost asks for the
\* user who made the tunnel, which may be another request.
DialsOfferedHost ==
  (~TokenAuth /\ \A r, q \in Requests : ConnId[r] = ConnId[q] => UserName[r] = UserName[q])
    => \A r \in Requests : target[r] # None => <<UserName[r], target[r]>> \in offered[r]

\* Every read and write of a handler, and every write of a forward goroutine,
\* is on a connection of its own connection id: desktop output never reaches the
\* client of another connection, nor a client's data another connection's desktop.
StaysOnConnection ==
  \A r \in Requests :
    /\ io[r] # None => ConnId[io[r]] = ConnId[r]
    /\ fwd[r] = "write" => fwdOut[r] # None /\ ConnId[fwdOut[r]] = ConnId[r]

\* On an unshared tunnel the forward goroutine reads from the connection its
\* processor dialled, and the client's data goes to that same connection.
ForwardsOwnBackend ==
  \A r \in Requests : fwd[r] # "none" /\ Sole(r) =>
    fwdConn[r] = r /\ rwc[tun[r]] = r /\ target[r] # None

\* The table of live connections lists no processor of an unshared tunnel that
\* has finished: RemoveTunnel finds the entry RegisterTunnel made, although the
\* key is a field of the Tunnel that handlers rewrite.
NoStaleEntry ==
  \A i \in Requests : Connections[i] # None /\ Sole(Connections[i]) =>
    pc[Connections[i]] \in Registered

\* The gateway implements Relay: no order of packets, shared tunnel or late answer of
\* the provider or of a dial makes a processor skip or repeat a stage, dial a second
\* time, or forward before the client was told of the channel.
Course == INSTANCE Relay WITH stage <- state, host <- target, desktop <- backend,
                              relaying <- {r \in Requests : fwd[r] # "none"}
ImplementsRelay == Course!Spec

\* Inside a write whose other end is there, and may never read.
Blocked(r) == pc[r] \in {"write", "send"} /\ ~PeerLeft(r)
ForwardBlocked(r) == fwd[r] = "write" /\ link[fwdOut[r]] = "open"

\* When the client of an unshared tunnel leaves, its handler ends, unless it stays for
\* ever in a write that the legacy client's other half, or the desktop, does not read.
HandlerEnds ==
  \A r \in Requests : (link[r] = "gone" /\ pc[r] # "done")
    ~> (pc[r] = "done" \/ ~up \/ ~Sole(r) \/ []Blocked(r))

\* When a desktop closes the connection of an unshared tunnel, so does the gateway,
\* unless its client stays and never reads what is being written to it.
BackendReleased ==
  \A r \in Requests : backend[r] = "broken"
    ~> (backend[r] = "closed" \/ ~up \/ ~Sole(r) \/ []Blocked(r) \/ []ForwardBlocked(r))

\* A legacy processor always has the client's RDG_OUT_DATA channel to answer on.
LegacyHasOutput ==
  \A r \in Requests : pc[r] \in Processes => transportOut[tun[r]] # None

\* At most one goroutine writes to a websocket at a time.
OneWriter == \A o \in Requests : Method[o] = "WS" => Cardinality(Writing(o)) <= 1

\* Once the in half of a legacy connection is over, the server closes the out half.
OutputClosed ==
  \A r, o \in Requests :
    (Method[r] = "IN" /\ pc[r] = "done" /\ tun[r] # None /\ transportOut[tun[r]] = o)
      ~> (link[o] = "closed" \/ ~up)

=============================================================================
