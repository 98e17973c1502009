------------------------------ MODULE Processor ------------------------------
(***************************************************************************)
(* The RDG protocol engine of one gateway process: the Tunnel objects, the *)
(* Processor that answers a client's packets, the goroutine that forwards  *)
(* the backend's bytes, the host checks and the table of live connections. *)
(*                                                                         *)
(* Every HTTP request has a handler goroutine.  A request is also the name *)
(* of everything its handler may create, each at most once: a Tunnel       *)
(* object, the uuid stored in Tunnel.Id, the transport (the hijacked or    *)
(* upgraded connection), a Processor, a backend connection and a forward   *)
(* goroutine.  None is Go's nil.                                           *)
(***************************************************************************)
EXTENDS Integers, FiniteSets

CONSTANTS
  Requests,        \* the HTTP requests that reach the gateway route
  None,            \* nil
  Hosts,           \* host:port strings of desktops
  Addrs,           \* client ip addresses
  Users,           \* authenticated user names
  ConnIds,         \* values of the Rdg-Connection-Id header, "" included
  Tokens,          \* claims of the signed, unexpired PAA cookies in circulation
  TokenAuth,       \* the route checks PAA cookies (else the managed host list)
  SmartCardAuth,   \* caps.smartcardauth
  VerifyClientIP,  \* security.verifyclientip
  HostSelection,   \* server.hostselection
  Method,          \* how each request opens its channel
  ConnId,          \* the connection id each request carries
  ClientIp,        \* the client ip of each request's identity
  UserName         \* the user of each request's identity

AuthCaps == {"SC", "PAA"}

ASSUME ConstantsAssumption ==
  /\ None \notin Requests /\ None \notin Hosts /\ None \notin Addrs
  /\ None \notin Tokens /\ None \notin ConnIds
  /\ Tokens \subseteq [host : Hosts, ip : Addrs]
  /\ TokenAuth \in BOOLEAN /\ SmartCardAuth \in BOOLEAN
  /\ VerifyClientIP \in BOOLEAN
  /\ HostSelection \in {"any", "signed", "roundrobin", "unsigned"}
  /\ Method \in [Requests -> {"WS", "OUT", "IN"}]
  /\ ConnId \in [Requests -> ConnIds]
  /\ ClientIp \in [Requests -> Addrs]
  /\ UserName \in [Requests -> Users]

VARIABLES
  pc,            \* where the handler of a request is
  link,          \* the client's connection: none, open, gone (peer left), closed
  tun,           \* the Tunnel object the handler works on
  transportIn, transportOut, Id, TargetServer, RemoteAddr, rwc,  \* Tunnel fields
  state,         \* Processor.state
  io,            \* the connection Process is reading from or writing to
  reply,         \* the state entered once the response in progress is written
  paa,           \* the claims of the PAA cookie the processor accepted as genuine
  vouched,       \* history: the cookie whose access token the provider accepted
  target,        \* the host the processor was allowed to dial
  backend,       \* the connection it dialled: none, open, broken, closed
  fwd, fwdConn, fwdOut,   \* its forward goroutine: position, source, sink
  mapMade, Connections,   \* track.go's table, nil until first use
  inventory,     \* <<user, host>> pairs of the enabled dashboard entries
  offered        \* history: the pairs enabled at some time since NewProcessor

tunnelVars  == <<transportIn, transportOut, Id, TargetServer, RemoteAddr, rwc>>
controlVars == <<pc, io, reply>>
cookieVars  == <<paa, vouched>>
processVars == <<state, cookieVars, target, backend>>
forwardVars == <<fwd, fwdConn, fwdOut>>
tableVars   == <<mapMade, Connections>>
policyVars  == <<inventory, offered>>
processorVars == <<controlVars, link, tun, tunnelVars, processVars, forwardVars,
                   tableVars, policyVars>>

SERVER_STATE_INITIALIZED      == 0
SERVER_STATE_HANDSHAKE        == 1
SERVER_STATE_TUNNEL_CREATE    == 2
SERVER_STATE_TUNNEL_AUTHORIZE == 3
SERVER_STATE_CHANNEL_CREATE   == 4
SERVER_STATE_OPENED           == 5
SERVER_STATE_CLOSED           == 6
FAILED == -1      \* not a state: the response reports an error and Process returns

Set(f, x, v) == [f EXCEPT ![x] = v]

Processes == {"read", "cookie", "userinfo", "dial", "write", "send"}
Registered == Processes \union {"ending", "removing"}

-----------------------------------------------------------------------------
(* tunnel.go: what the handler does next, and on which transport            *)

GoTo(r, where, transport, next) ==
  /\ pc' = Set(pc, r, where)
  /\ io' = Set(io, r, transport)
  /\ reply' = Set(reply, r, next)

\* A call that touches no transport.
Await(r, call) == GoTo(r, call, None, FAILED)

\* Process returns, or panics and net/http recovers; the deferred calls run.
Return(r) == GoTo(r, "ending", None, FAILED)

\* Tunnel.Read: the transport is looked up when the read starts.
Read(r) == GoTo(r, "read", transportIn[tun[r]], FAILED)

\* Tunnel.Write of a response; a nil transportOut panics.
Respond(r, next) ==
  LET out == transportOut[tun[r]] IN
  IF out = None THEN Return(r) ELSE GoTo(r, "write", out, next)

\* receive's write to the desktop; a nil rwc (another processor's failed dial on
\* the same tunnel) panics.
Send(r) ==
  LET conn == rwc[tun[r]] IN
  IF conn = None THEN Return(r) ELSE GoTo(r, "send", conn, FAILED)

-----------------------------------------------------------------------------
(* track.go: the table of live connections is a plain map.  Its writes are *)
(* intervals, so that two of them may overlap (see Crash).                 *)

NewProcessor(r) ==
  /\ state' = Set(state, r, SERVER_STATE_INITIALIZED)
  /\ offered' = Set(offered, r, inventory)

RegisterBegin(r) ==
  /\ pc[r] = "register"
  /\ Await(r, IF mapMade THEN "registering" ELSE "making")
  /\ NewProcessor(r)
  /\ UNCHANGED <<link, tun, tunnelVars, cookieVars, target, backend, forwardVars,
                 tableVars, inventory>>

RegisterEnd(r) ==
  /\ pc[r] \in {"registering", "making"}
  /\ Read(r)
  /\ mapMade' = TRUE
  /\ Connections' = [i \in Requests |->
        IF i = Id[tun[r]] THEN r
        ELSE IF pc[r] = "registering" THEN Connections[i] ELSE None]
  /\ UNCHANGED <<link, tun, tunnelVars, processVars, forwardVars, policyVars>>

RemoveBegin(r) ==
  /\ pc[r] = "ending"
  /\ Await(r, "removing")
  /\ UNCHANGED <<link, tun, tunnelVars, processVars, forwardVars, tableVars,
                 policyVars>>

\* Mutant: the deferred RemoveTunnel is forgotten.
RemoveEndForgets(r) ==
  /\ pc[r] = "removing"
  /\ Await(r, "done")
  /\ link' = Set(link, r, "closed")
  /\ UNCHANGED <<tun, tunnelVars, processVars, forwardVars, tableVars, policyVars>>

\* RemoveTunnel, then the deferred Close of the handler's own transport.
RemoveEnd(r) ==
  /\ pc[r] = "removing"
  /\ Await(r, "done")
  /\ Connections' = Set(Connections, Id[tun[r]], None)
  /\ link' = Set(link, r, "closed")
  /\ UNCHANGED <<tun, tunnelVars, processVars, forwardVars, mapMade, policyVars>>

-----------------------------------------------------------------------------
(* security: the checks of the two kinds of gateway buildGateway makes      *)

\* Mutant: the host is not compared.
CheckSessionAnyHost(r, h) ==
  TargetServer[tun[r]] # None /\ (VerifyClientIP => RemoteAddr[tun[r]] = ClientIp[r])

\* CheckSession(nil): the channel's host and the client's address must be the
\* ones the PAA cookie left on the tunnel.
CheckSession(r, h) ==
  /\ TargetServer[tun[r]] = h
  /\ VerifyClientIP => RemoteAddr[tun[r]] = ClientIp[r]

\* Mutant: every managed host is open to every user.
CheckAnyUsersHost(r, h) == \E u \in Users : <<u, h>> \in inventory

\* security.CheckHost: the user is the one of the request that made the tunnel.
CheckManagedHost(r, h) ==
  /\ HostSelection # "signed"
  /\ <<UserName[tun[r]], h>> \in inventory

CheckHost(r, h) == IF TokenAuth THEN CheckSession(r, h) ELSE CheckManagedHost(r, h)

\* matchAuth: the client's capabilities against the configured ones.
MatchAuth(req) ==
  LET caps == (IF SmartCardAuth THEN {"SC"} ELSE {})
                \union (IF TokenAuth THEN {"PAA"} ELSE {})
  IN  /\ req # {} => caps \cap req # {}
      /\ caps # {} => req # {}

-----------------------------------------------------------------------------
(* process.go: one action per packet type, taken by a processor blocked in  *)
(* Read on a transport whose client is still there.                         *)

Received(r) == pc[r] = "read" /\ link[io[r]] = "open"

HandshakeRequest(r, req) ==
  /\ Received(r)
  /\ Respond(r, IF state[r] = SERVER_STATE_INITIALIZED /\ MatchAuth(req)
                THEN SERVER_STATE_HANDSHAKE ELSE FAILED)
  /\ UNCHANGED <<link, tun, tunnelVars, processVars, forwardVars, tableVars,
                 policyVars>>

\* CheckPAACookie up to the call of the OIDC provider: a genuine cookie's
\* claims are put on the tunnel, one after the other, before its access token
\* has been validated.
PresentCookie(r, tok) ==
  /\ Await(r, "cookie")
  /\ TargetServer' = Set(TargetServer, tun[r], tok.host)
  /\ paa' = Set(paa, r, tok)

\* tok = None stands for no cookie, or one that does not parse, decrypt,
\* verify or is out of date.
TunnelCreate(r, tok) ==
  /\ Received(r)
  /\ IF state[r] = SERVER_STATE_HANDSHAKE /\ TokenAuth /\ tok # None
     THEN PresentCookie(r, tok)
     ELSE /\ Respond(r, IF state[r] = SERVER_STATE_HANDSHAKE /\ ~TokenAuth
                        THEN SERVER_STATE_TUNNEL_CREATE ELSE FAILED)
          /\ UNCHANGED <<TargetServer, paa>>
  /\ UNCHANGED <<link, tun, transportIn, transportOut, Id, RemoteAddr, rwc, state,
                 vouched, target, backend, forwardVars, tableVars, policyVars>>

SetRemoteAddr(r) ==
  /\ pc[r] = "cookie"
  /\ Await(r, "userinfo")
  /\ RemoteAddr' = Set(RemoteAddr, tun[r], paa[r].ip)
  /\ UNCHANGED <<link, tun, transportIn, transportOut, Id, TargetServer, rwc,
                 processVars, forwardVars, tableVars, policyVars>>

\* Mutant: the error of the provider's answer is logged and not returned.
UserInfoIgnored(r) ==
  /\ pc[r] = "userinfo"
  /\ Respond(r, SERVER_STATE_TUNNEL_CREATE)
  /\ \E valid \in BOOLEAN : vouched' = IF valid THEN Set(vouched, r, paa[r]) ELSE vouched
  /\ UNCHANGED <<link, tun, tunnelVars, state, paa, target, backend,
                 forwardVars, tableVars, policyVars>>

\* The provider's verdict on the embedded access token.
UserInfo(r) ==
  /\ pc[r] = "userinfo"
  /\ \E valid \in BOOLEAN :
       /\ Respond(r, IF valid THEN SERVER_STATE_TUNNEL_CREATE ELSE FAILED)
       /\ vouched' = IF valid THEN Set(vouched, r, paa[r]) ELSE vouched
  /\ UNCHANGED <<link, tun, tunnelVars, state, paa, target, backend,
                 forwardVars, tableVars, policyVars>>

\* Mutant: a tunnel-auth packet is accepted in any state past the handshake.
TunnelAuthEarly(r) ==
  /\ Received(r)
  /\ Respond(r, IF state[r] >= SERVER_STATE_HANDSHAKE
                THEN SERVER_STATE_TUNNEL_AUTHORIZE ELSE FAILED)
  /\ UNCHANGED <<link, tun, tunnelVars, processVars, forwardVars, tableVars,
                 policyVars>>

TunnelAuth(r) ==
  /\ Received(r)
  /\ Respond(r, IF state[r] = SERVER_STATE_TUNNEL_CREATE
                THEN SERVER_STATE_TUNNEL_AUTHORIZE ELSE FAILED)
  /\ UNCHANGED <<link, tun, tunnelVars, processVars, forwardVars, tableVars,
                 policyVars>>

\* listed = FALSE: the managed host list cannot be read.
ChannelCreate(r, h, listed) ==
  /\ Received(r)
  /\ TokenAuth => listed
  /\ IF /\ state[r] = SERVER_STATE_TUNNEL_AUTHORIZE
        /\ listed /\ CheckHost(r, h)
     THEN Await(r, "dial") /\ target' = Set(target, r, h)
     ELSE Respond(r, FAILED) /\ UNCHANGED target
  /\ UNCHANGED <<link, tun, tunnelVars, state, cookieVars, backend,
                 forwardVars, tableVars, policyVars>>

\* Mutant: the dialled connection is kept in a local variable.
DialForgetsRwc(r) ==
  /\ pc[r] = "dial"
  /\ backend' = Set(backend, r, "open")
  /\ TargetServer' = Set(TargetServer, tun[r], target[r])
  /\ Respond(r, SERVER_STATE_CHANNEL_CREATE)
  /\ UNCHANGED <<link, tun, transportIn, transportOut, Id, RemoteAddr, rwc, state,
                 cookieVars, target, forwardVars, tableVars, policyVars>>

\* DialTimeout returns; its result is stored in the tunnel either way.
Dial(r) ==
  /\ pc[r] = "dial"
  /\ \/ /\ backend' = Set(backend, r, "open")
        /\ rwc' = Set(rwc, tun[r], r)
        /\ TargetServer' = Set(TargetServer, tun[r], target[r])
        /\ Respond(r, SERVER_STATE_CHANNEL_CREATE)
     \/ /\ rwc' = Set(rwc, tun[r], None)
        /\ Respond(r, FAILED)
        /\ UNCHANGED <<backend, TargetServer>>
  /\ UNCHANGED <<link, tun, transportIn, transportOut, Id, RemoteAddr, state,
                 cookieVars, target, forwardVars, tableVars, policyVars>>

\* The response is written: the new state, and the forward goroutine, which is
\* started on whatever connection the tunnel holds by then.
ResponseWritten(r) ==
  /\ pc[r] = "write"
  /\ IF reply[r] \in {FAILED, SERVER_STATE_CLOSED} THEN Return(r) ELSE Read(r)
  /\ state' = Set(state, r, IF reply[r] = FAILED THEN state[r] ELSE reply[r])
  /\ IF reply[r] = SERVER_STATE_CHANNEL_CREATE
     THEN fwd' = Set(fwd, r, "read") /\ fwdConn' = Set(fwdConn, r, rwc[tun[r]])
     ELSE UNCHANGED <<fwd, fwdConn>>
  /\ UNCHANGED <<link, tun, tunnelVars, cookieVars, target, backend, fwdOut, tableVars, policyVars>>

\* The client's data for the desktop: the state is set before the write.
Data(r) ==
  /\ Received(r)
  /\ IF state[r] < SERVER_STATE_CHANNEL_CREATE
     THEN Return(r) /\ UNCHANGED state
     ELSE Send(r) /\ state' = Set(state, r, SERVER_STATE_OPENED)
  /\ UNCHANGED <<link, tun, tunnelVars, cookieVars, target, backend,
                 forwardVars, tableVars, policyVars>>

\* The write to the desktop returns; receive drops its error.
DataSent(r) ==
  /\ pc[r] = "send"
  /\ Read(r)
  /\ UNCHANGED <<link, tun, tunnelVars, processVars, forwardVars, tableVars,
                 policyVars>>

Keepalive(r) ==
  /\ Received(r)
  /\ IF state[r] < SERVER_STATE_CHANNEL_CREATE THEN Return(r) ELSE Read(r)
  /\ UNCHANGED <<link, tun, tunnelVars, processVars, forwardVars, tableVars,
                 policyVars>>

CloseChannel(r) ==
  /\ Received(r)
  /\ IF state[r] = SERVER_STATE_OPENED
     THEN Respond(r, SERVER_STATE_CLOSED)
     ELSE Return(r)
  /\ UNCHANGED <<link, tun, tunnelVars, processVars, forwardVars, tableVars,
                 policyVars>>

\* An unknown packet type, or a message that could not be reassembled.
Ignored(r) ==
  /\ Received(r)
  /\ Read(r)
  /\ UNCHANGED <<link, tun, tunnelVars, processVars, forwardVars, tableVars,
                 policyVars>>

\* Mutant: a read error is skipped like a bad message.
ReadErrorSkipped(r) == pc[r] = "read" /\ Read(r) /\ UNCHANGED <<link, tun, tunnelVars,
  processVars, forwardVars, tableVars, policyVars>>

ReadError(r) ==
  /\ pc[r] = "read"
  /\ Return(r)
  /\ UNCHANGED <<link, tun, tunnelVars, processVars, forwardVars, tableVars,
                 policyVars>>

-----------------------------------------------------------------------------
(* common.go: forward, from the backend connection to the client            *)

ForwardRead(r) ==
  /\ fwd[r] = "read" /\ fwdConn[r] # None
  /\ backend[fwdConn[r]] = "open"
  /\ fwd' = Set(fwd, r, "write")
  /\ fwdOut' = Set(fwdOut, r, transportOut[tun[r]])
  /\ UNCHANGED <<controlVars, link, tun, tunnelVars, processVars, fwdConn, tableVars,
                 policyVars>>

\* Tunnel.Write drops the error of a write to a client that has left.
ForwardWritten(r) ==
  /\ fwd[r] = "write"
  /\ fwd' = Set(fwd, r, "read")
  /\ fwdOut' = Set(fwdOut, r, None)
  /\ UNCHANGED <<controlVars, link, tun, tunnelVars, processVars, fwdConn,
                 tableVars, policyVars>>

\* Mutant: forward returns without the deferred Close.
ForwardEndLeaks(r) ==
  /\ fwd[r] = "read" /\ fwdConn[r] # None
  /\ backend[fwdConn[r]] \in {"broken", "closed"}
  /\ fwd' = Set(fwd, r, "done")
  /\ UNCHANGED <<controlVars, link, tun, tunnelVars, processVars, fwdConn, fwdOut,
                 tableVars, policyVars>>

ForwardEnd(r) ==
  /\ fwd[r] = "read" /\ fwdConn[r] # None
  /\ backend[fwdConn[r]] \in {"broken", "closed"}
  /\ fwd' = Set(fwd, r, "done")
  /\ backend' = Set(backend, fwdConn[r], "closed")
  /\ UNCHANGED <<controlVars, link, tun, tunnelVars, state, cookieVars, target, fwdConn,
                 fwdOut, tableVars, policyVars>>

\* The desktop, or the network, ends a backend connection.
BackendBreak(r) ==
  /\ backend[r] = "open"
  /\ backend' = Set(backend, r, "broken")
  /\ UNCHANGED <<controlVars, link, tun, tunnelVars, state, cookieVars, target, forwardVars,
                 tableVars, policyVars>>

-----------------------------------------------------------------------------
(* What Go makes of unsynchronised use                                      *)

\* The goroutines inside a write on transport o.
Writing(o) ==
  {<<"process", r>> : r \in {q \in Requests : pc[q] = "write" /\ io[q] = o}}
    \union
  {<<"forward", r>> : r \in {q \in Requests : fwd[q] = "write" /\ fwdOut[q] = o}}

\* The websocket library panics when it notices a second writer; in a handler
\* net/http recovers.
WritePanic(r) ==
  /\ pc[r] = "write" /\ Method[io[r]] = "WS"
  /\ Writing(io[r]) # {<<"process", r>>}
  /\ Return(r)
  /\ UNCHANGED <<link, tun, tunnelVars, processVars, forwardVars, tableVars,
                 policyVars>>

\* Three ways to lose the whole process: overlapping map writes, the same
\* websocket panic in a forward goroutine, and forwarding from a nil rwc.
CanCrash ==
  \/ \E r, q \in Requests :
        r # q /\ {pc[r], pc[q]} \subseteq {"making", "registering", "removing"}
  \/ \E r \in Requests :
        /\ fwd[r] = "write" /\ Method[fwdOut[r]] = "WS"
        /\ Writing(fwdOut[r]) # {<<"forward", r>>}
  \/ \E r \in Requests : fwd[r] = "read" /\ fwdConn[r] = None

=============================================================================
