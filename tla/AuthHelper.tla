----------------------------- MODULE AuthHelper -----------------------------
(***************************************************************************)
(* The gRPC calls that the rdpgw-auth helper serves, on top of the user     *)
(* database of AuthUsers: Authenticate, which checks a name and a password, *)
(* and NTLM, which takes the messages of a handshake one by one and keeps a *)
(* context per session between them (auth/ntlm/ntlm.go).  The web side      *)
(* (web/basic.go, web/ntlm.go) makes a call per request; a call that it     *)
(* gives up on after its timeout still runs, so calls of one session may    *)
(* overlap, and they share their context without a lock.                    *)
(*                                                                          *)
(* A session belongs to one client, which names one user: sessions and      *)
(* names are the same set.  A client may send any challenge that it was     *)
(* given, again and as late as it likes.                                    *)
(***************************************************************************)
EXTENDS AuthUsers

CONSTANTS
  Contexts,        \* ntlmContext objects
  MaxChallenges    \* bound: challenges issued

Challenges == 1..MaxChallenges

ASSUME HelperAssumption ==
  /\ MaxChallenges \in Nat /\ None \notin Contexts

VARIABLES
  contextCache,   \* session -> context, or None
  challenge,      \* the challenge of each context's NTLM session, 0 for nil
  secret,         \* the password SetUserInfo gave it, or None
  issued,         \* how many challenges were issued
  call,           \* the NTLM call that each thread of the helper serves
  spent           \* history: challenges accepted by a call that has returned

ntlmVars == <<contextCache, challenge, secret, issued, call, spent>>

\* challenge is 0 in a negotiate message; replay records that a call begins with a
\* challenge that is spent.
NoCall ==
  [pc |-> "idle", session |-> None, challenge |-> 0, password |-> None,
   context |-> None, replay |-> FALSE]

\* The helper's contexts and calls keep the type of their declaration.
NtlmTypeOK ==
  /\ contextCache \in [Names -> Contexts \union {None}]
  /\ challenge \in [Contexts -> 0..MaxChallenges]
  /\ secret \in [Contexts -> Passwords \union {None}]
  /\ issued \in 0..MaxChallenges /\ spent \subseteq Challenges
  /\ call \in [Lookups ->
       [pc : {"idle", "context", "set", "message", "lookup", "process", "remove", "accept"},
        session : Names \union {None}, challenge : 0..MaxChallenges,
        password : Passwords \union {None}, context : Contexts \union {None},
        replay : BOOLEAN]]

NtlmInit ==
  /\ contextCache = [s \in Names |-> None]
  /\ challenge = [c \in Contexts |-> 0] /\ secret = [c \in Contexts |-> None]
  /\ issued = 0 /\ spent = {}
  /\ call = [k \in Lookups |-> NoCall]

In(k, where) == call[k].pc = where

Return(k) == call' = [call EXCEPT ![k] = NoCall]

Unused(c) ==
  /\ \A s \in Names : contextCache[s] # c
  /\ \A k \in Lookups : call[k].context # c

\* The contexts after a step; one that neither the cache nor a call holds any
\* longer is collected.
Heap(challenges, secrets) ==
  /\ challenge' = [c \in Contexts |-> IF Unused(c)' THEN 0 ELSE challenges[c]]
  /\ secret' = [c \in Contexts |-> IF Unused(c)' THEN None ELSE secrets[c]]

-----------------------------------------------------------------------------
(* The web side: one call per request                                       *)

\* web/ntlm.go: a negotiate message, or an answer to a challenge of the session.
NTLM(k, s, n, p) ==
  /\ server = "up" /\ In(k, "idle") /\ lookup[k].pc = "idle"
  /\ n <= issued /\ (n = 0 <=> p = None)
  /\ call' = [call EXCEPT ![k] = [NoCall EXCEPT !.pc = "context", !.session = s,
                !.challenge = n, !.password = p, !.replay = n \in spent]]
  /\ UNCHANGED <<contextCache, challenge, secret, issued, spent>>

\* web/basic.go: a name and a password, for the database to look up.
BasicAuth(k) == In(k, "idle") /\ GetPassword(k)

\* The password found decides, and nothing is kept.
Authenticate(k) == In(k, "idle") /\ Answer(k)

-----------------------------------------------------------------------------
(* auth/ntlm/ntlm.go                                                        *)

\* getContext looks in the cache, and stores a new context in a step of its own.
GetContext(k) ==
  /\ In(k, "context")
  /\ LET c == contextCache[call[k].session] IN
     call' = [call EXCEPT ![k].context = c,
                          ![k].pc = IF c = None THEN "set" ELSE "message"]
  /\ UNCHANGED <<contextCache, challenge, secret, issued, spent>>

SetContext(k) ==
  /\ In(k, "set") /\ \E c \in Contexts : Unused(c)
  /\ LET new == CHOOSE c \in Contexts : Unused(c) IN
     /\ contextCache' = [contextCache EXCEPT ![call[k].session] = new]
     /\ call' = [call EXCEPT ![k].context = new, ![k].pc = "message"]
  /\ Heap(challenge, secret)
  /\ UNCHANGED <<issued, spent>>

\* negotiate starts the handshake of the context afresh.
Negotiate(k) ==
  /\ In(k, "message") /\ call[k].challenge = 0 /\ issued < MaxChallenges
  /\ issued' = issued + 1
  /\ Return(k)
  /\ UNCHANGED <<contextCache, spent>>
  /\ LET c == call[k].context IN
     Heap([challenge EXCEPT ![c] = issued + 1], [secret EXCEPT ![c] = None])

\* A message that does not parse, or an authenticate message without a challenge.
MessageFails(k) ==
  /\ In(k, "message")
  /\ call' = [call EXCEPT ![k].pc = "remove"]
  /\ UNCHANGED <<contextCache, challenge, secret, issued, spent>>

\* authenticate asks the database, with the steps of AuthUsers.
BeginLookup(k) ==
  /\ In(k, "message") /\ call[k].challenge # 0 /\ challenge[call[k].context] # 0
  /\ GetPassword(k)
  /\ call' = [call EXCEPT ![k].pc = "lookup"]
  /\ UNCHANGED <<contextCache, challenge, secret, issued, spent>>

\* Mutant: the arguments of SetUserInfo are swapped.
SetUserInfoSwapped(k) ==
  /\ In(k, "lookup") /\ Answer(k)
  /\ UNCHANGED <<contextCache, issued, spent>>
  /\ IF cfg.users[call[k].session] = None
     THEN Return(k) /\ Heap(challenge, secret)
     ELSE /\ call' = [call EXCEPT ![k].pc = "process"]
          /\ Heap(challenge, [secret EXCEPT ![call[k].context] = call[k].session])

\* An unknown user is no error, and keeps the context.
SetUserInfo(k) ==
  /\ In(k, "lookup") /\ Answer(k)
  /\ UNCHANGED <<contextCache, issued, spent>>
  /\ LET p == cfg.users[call[k].session] IN
     IF p = None
     THEN Return(k) /\ Heap(challenge, secret)
     ELSE /\ call' = [call EXCEPT ![k].pc = "process"]
          /\ Heap(challenge, [secret EXCEPT ![call[k].context] = p])

\* ProcessAuthenticateMessage of the NTLM library: the response answers the
\* challenge of the session with the password of its user.
Genuine(k) ==
  LET c == call[k].context IN
  call[k].challenge = challenge[c] /\ call[k].password = secret[c]

\* A wrong password is no error either.
ProcessAuthenticateMessage(k) ==
  /\ In(k, "process")
  /\ IF Genuine(k) THEN call' = [call EXCEPT ![k].pc = "accept"] ELSE Return(k)
  /\ UNCHANGED <<contextCache, issued, spent>>
  /\ Heap(challenge, secret)

\* Mutant: the context goes only with a failed call.
RemoveAfterError(k) ==
  /\ call[k].pc \in {"remove", "accept"}
  /\ contextCache' = IF In(k, "remove")
                     THEN [contextCache EXCEPT ![call[k].session] = None] ELSE contextCache
  /\ spent' = IF In(k, "accept") THEN spent \union {call[k].challenge} ELSE spent
  /\ Return(k)
  /\ UNCHANGED issued
  /\ Heap(challenge, secret)

\* After an error or a success, whatever context the session has by now.
RemoveContext(k) ==
  /\ call[k].pc \in {"remove", "accept"}
  /\ contextCache' = [contextCache EXCEPT ![call[k].session] = None]
  /\ spent' = IF In(k, "accept") THEN spent \union {call[k].challenge} ELSE spent
  /\ Return(k)
  /\ UNCHANGED issued
  /\ Heap(challenge, secret)

\* The cache drops a context after a minute.
ExpireContext(s) ==
  /\ contextCache[s] # None
  /\ contextCache' = [contextCache EXCEPT ![s] = None]
  /\ UNCHANGED <<issued, call, spent>>
  /\ Heap(challenge, secret)

RestartNtlm ==
  /\ contextCache' = [s \in Names |-> None]
  /\ call' = [k \in Lookups |-> NoCall]
  /\ UNCHANGED <<issued, spent>>
  /\ Heap(challenge, secret)

-----------------------------------------------------------------------------
\* A step of an NTLM call that leaves the database alone.
NtlmStep(k) ==
  \/ \E s \in Names, n \in 0..MaxChallenges, p \in Passwords \union {None} :
        NTLM(k, s, n, p)
  \/ GetContext(k) \/ SetContext(k)
  \/ Negotiate(k) \/ MessageFails(k) \/ ProcessAuthenticateMessage(k) \/ RemoveContext(k)

\* A look-up belongs to an NTLM call or is an Authenticate call of its own.
LookupStep(k) ==
  \/ (BasicAuth(k) \/ Authenticate(k)) /\ UNCHANGED ntlmVars
  \/ BeginLookup(k) \/ SetUserInfo(k)
  \/ (Stat(k) \/ Check(k) \/ ReadFile(k) \/ Unreadable(k) \/ Commit(k)) /\ UNCHANGED ntlmVars

ServerStep ==
  \/ \E a \in Admins : Handle(a)
  \/ \E w \in Writers : Regenerate(w)
  \/ Start \/ ServerCrash

HelperNext ==
  \/ ServerStep /\ UNCHANGED ntlmVars
  \/ \E k \in Lookups : LookupStep(k)
  \/ \E k \in Lookups : NtlmStep(k) /\ UNCHANGED vars
  \/ \E s \in Names : ExpireContext(s) /\ UNCHANGED vars
  \/ HelperRestart /\ RestartNtlm

HelperInit == Init /\ NtlmInit

HelperSpec == HelperInit /\ [][HelperNext]_<<vars, ntlmVars>>

-----------------------------------------------------------------------------
(* Properties                                                               *)

\* A challenge that logged a client in is used up: no call that begins after the
\* accepting call has returned is accepted with it, whatever calls of the session
\* overlap, although contexts are looked up, stored and removed by session id in
\* steps of their own.
ChallengeUsedOnce == \A k \in Lookups : In(k, "accept") => ~call[k].replay

=============================================================================
