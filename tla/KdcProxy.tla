------------------------------ MODULE KdcProxy ------------------------------
(***************************************************************************)
(* The KDC proxy (kdcproxy/proxy.go): one request to /KdcProxy, forwarded   *)
(* to every KDC of its realm.  The handler dials the KDCs one after the     *)
(* other and starts a goroutine, awaitReply, for each connection; each      *)
(* goroutine sends one message, a reply or nil, into a buffered channel,    *)
(* and the handler takes messages until one is a reply.  Requests share     *)
(* nothing but the configuration, so one request is modelled.               *)
(***************************************************************************)
EXTENDS Integers, FiniteSets, Sequences

CONSTANTS
  Udp, Tcp,    \* the KDCs of the realm, by protocol
  None

Endpoints == Udp \union Tcp

ASSUME KdcAssumption ==
  /\ IsFiniteSet(Udp) /\ IsFiniteSet(Tcp) /\ Udp \intersect Tcp = {}
  /\ None \notin Endpoints /\ None \notin Nat

VARIABLES
  req,        \* the HTTP request
  pc,         \* the handler: handle, dial, collect, done
  dialed,     \* the KDCs the loop of forward is past
  conn,       \* the connection to each KDC
  reader,     \* where its awaitReply is
  got,        \* that awaitReply has a complete reply
  replies,    \* the channel: the KDCs whose goroutine has sent, oldest first
  taken,      \* how many messages the handler has taken
  status,     \* the HTTP status of the answer, or None
  answer,     \* the KDC whose reply is the answer, or None
  first       \* history: the KDC whose reply was sent first, or None

forwardVars == <<dialed, conn, reader, got, replies, taken>>
vars == <<req, pc, forwardVars, status, answer, first>>

\* tiny: the message is shorter than the length prefix that UDP leaves out.
Request ==
  [method : {"GET", "POST"}, length : {"missing", "large", "fits"},
   body : {"truncated", "malformed", "message"}, realm : {"known", "unknown"},
   tiny : BOOLEAN]

Statuses == {200, 400, 405, 411, 413, 500, 503}

\* The handler's and the goroutines' local variables keep their types.
TypeOK ==
  /\ req \in Request /\ pc \in {"handle", "dial", "collect", "done"}
  /\ dialed \subseteq Endpoints
  /\ conn \in [Endpoints -> {"none", "open", "closed"}]
  /\ reader \in [Endpoints -> {"none", "read", "body", "send", "ended"}]
  /\ got \in [Endpoints -> BOOLEAN]
  /\ replies \in Seq(Endpoints) /\ taken \in Nat
  /\ status \in Statuses \union {None} /\ {answer, first} \subseteq Endpoints \union {None}

Init ==
  /\ req \in Request /\ pc = "handle" /\ dialed = {}
  /\ conn = [k \in Endpoints |-> "none"]
  /\ reader = [k \in Endpoints |-> "none"]
  /\ got = [k \in Endpoints |-> FALSE]
  /\ replies = <<>> /\ taken = 0 /\ status = None /\ answer = None /\ first = None

\* startedConns
Started == {k \in Endpoints : reader[k] # "none"}

\* Returning from forward closes every connection that was started.
Return(code, from) ==
  /\ pc' = "done" /\ status' = code /\ answer' = from
  /\ conn' = [k \in Endpoints |-> IF conn[k] = "open" THEN "closed" ELSE conn[k]]

-----------------------------------------------------------------------------
(* Handler                                                                  *)

\* The status of a request that is not forwarded; None if it is.
Refusal(r) ==
  CASE r.method # "POST" -> 405
    [] r.method = "POST" /\ r.length = "missing" -> 411
    [] r.method = "POST" /\ r.length = "large" -> 413
    [] r.method = "POST" /\ r.length = "fits" ->
         CASE r.body = "truncated" -> 500
           [] r.body = "malformed" -> 400
           [] r.body = "message" -> None

Refuse ==
  /\ pc = "handle" /\ Refusal(req) # None
  /\ Return(Refusal(req), None)
  /\ UNCHANGED <<req, dialed, reader, got, replies, taken, first>>

\* GetKDCs, from the Kerberos configuration or from DNS.
NoKdcs ==
  /\ pc = "handle" /\ Refusal(req) = None
  /\ req.realm = "unknown" \/ Endpoints = {}
  /\ Return(503, None)
  /\ UNCHANGED <<req, dialed, reader, got, replies, taken, first>>

Forward ==
  /\ pc = "handle" /\ Refusal(req) = None
  /\ req.realm = "known" /\ Endpoints # {}
  /\ pc' = "dial"
  /\ UNCHANGED <<req, forwardVars, status, answer, first>>

-----------------------------------------------------------------------------
(* forward: the loop over the KDCs, UDP first, each group in the random      *)
(* order GetKDCs returns                                                    *)

\* Mutant: the index of the map that has no KDC is dialled too, without an address.
NextKdcUnchecked(k) ==
  /\ pc = "dial" /\ k \in Endpoints \ dialed
  /\ k \in Tcp => Udp \subseteq dialed
  /\ dialed' = dialed \union {k, None}

NextKdc(k) ==
  /\ pc = "dial" /\ k \in Endpoints \ dialed
  /\ k \in Tcp => Udp \subseteq dialed
  /\ dialed' = dialed \union {k}

\* Connected, the message written, and awaitReply started.
Dial(k) ==
  /\ NextKdc(k)
  /\ ~(k \in Udp /\ req.tiny)
  /\ conn' = [conn EXCEPT ![k] = "open"]
  /\ reader' = [reader EXCEPT ![k] = "read"]
  /\ UNCHANGED <<req, pc, got, replies, taken, status, answer, first>>

\* The dial or the write fails or times out, or there is nothing to send.
DialFails(k) ==
  /\ NextKdc(k)
  /\ UNCHANGED <<req, pc, conn, reader, got, replies, taken, status, answer, first>>

Collect ==
  /\ pc = "dial" /\ dialed = Endpoints
  /\ pc' = "collect"
  /\ UNCHANGED <<req, forwardVars, status, answer, first>>

\* Mutant: the first message decides, be it a reply or nil.
TakeFirst ==
  /\ pc = "collect" /\ replies # <<>> /\ taken < Cardinality(Started)
  /\ taken' = taken + 1 /\ replies' = Tail(replies)
  /\ LET k == Head(replies) IN
     IF got[k] THEN Return(200, k) ELSE Return(503, None)
  /\ UNCHANGED <<req, dialed, reader, got, first>>

\* asn1.Marshal has no error for a byte string, so that encode succeeds.
Take ==
  /\ pc = "collect" /\ replies # <<>> /\ taken < Cardinality(Started)
  /\ taken' = taken + 1 /\ replies' = Tail(replies)
  /\ LET k == Head(replies) IN
     IF got[k] THEN Return(200, k) ELSE UNCHANGED <<pc, conn, status, answer>>
  /\ UNCHANGED <<req, dialed, reader, got, first>>

\* Mutant: the loop ends one message early.
GiveUpEarly ==
  /\ pc = "collect" /\ taken + 1 >= Cardinality(Started)
  /\ Return(503, None)
  /\ UNCHANGED <<req, dialed, reader, got, replies, taken, first>>

\* No connection was started, or each of them has sent nil.
GiveUp ==
  /\ pc = "collect" /\ taken = Cardinality(Started)
  /\ Return(503, None)
  /\ UNCHANGED <<req, dialed, reader, got, replies, taken, first>>

-----------------------------------------------------------------------------
(* awaitReply                                                               *)

\* The length prefix of a reply over TCP; a UDP reply has none and gets one.
ReadPrefix(k) ==
  /\ k \in Tcp /\ reader[k] = "read" /\ conn[k] = "open"
  /\ reader' = [reader EXCEPT ![k] = "body"]
  /\ UNCHANGED <<req, pc, dialed, conn, got, replies, taken, status, answer, first>>

ReadReply(k) ==
  /\ reader[k] = (IF k \in Udp THEN "read" ELSE "body") /\ conn[k] = "open"
  /\ reader' = [reader EXCEPT ![k] = "send"]
  /\ got' = [got EXCEPT ![k] = TRUE]
  /\ UNCHANGED <<req, pc, dialed, conn, replies, taken, status, answer, first>>

\* An error, a length out of bounds, the deadline, or the connection was closed.
ReadFails(k) ==
  /\ reader[k] \in {"read", "body"}
  /\ reader' = [reader EXCEPT ![k] = "send"]
  /\ UNCHANGED <<req, pc, dialed, conn, got, replies, taken, status, answer, first>>

\* Mutant: a channel with room for one message.
OneSlot == 1

\* The buffer of the channel: len(kdcs).
Capacity == Cardinality(Endpoints)

\* A message is a reply if got, and nil otherwise.
Send(k) ==
  /\ reader[k] = "send" /\ Len(replies) < Capacity
  /\ replies' = Append(replies, k)
  /\ reader' = [reader EXCEPT ![k] = "ended"]
  /\ first' = IF got[k] /\ first = None THEN k ELSE first
  /\ UNCHANGED <<req, pc, dialed, conn, got, taken, status, answer>>

-----------------------------------------------------------------------------
Handle == Refuse \/ NoKdcs \/ Forward \/ Collect \/ Take \/ GiveUp

Connect(k) == Dial(k) \/ DialFails(k)

AwaitReply(k) == ReadPrefix(k) \/ ReadReply(k) \/ ReadFails(k) \/ Send(k)

Next == Handle \/ \E k \in Endpoints : Connect(k) \/ AwaitReply(k)

\* Dials time out and connections have a deadline, so that every dial and every
\* read ends; the channel wakes whoever waits for it.
Fairness ==
  /\ WF_vars(Handle)
  /\ \A k \in Endpoints : WF_vars(Connect(k)) /\ WF_vars(AwaitReply(k))

Safety == Init /\ [][Next]_vars

Spec == Safety /\ Fairness

-----------------------------------------------------------------------------
(* Properties                                                               *)

Race == INSTANCE KdcRace WITH
  status <- IF pc # "done" THEN "pending"
            ELSE IF status = 200 THEN "replied" ELSE "failed"

\* The request is answered with the first complete reply that any awaitReply
\* sent, however late the handler finishes dialling the other KDCs, and with an
\* error only if none was sent; and it is answered.
FirstReplyWins == Race!Spec

\* "Service unavailable" for a request with a KDC means that no awaitReply of it
\* ever had a reply, not even one still on its way to the channel.
ErrorMeansNoReply == status = 503 => \A k \in Endpoints : ~got[k]

\* No goroutine and no connection outlives the request for ever, although the
\* handler stops taking messages at the first reply.
NothingLeaks ==
  <>[](\A k \in Endpoints : reader[k] \in {"none", "ended"} /\ conn[k] # "open")

=============================================================================
