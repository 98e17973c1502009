------------------------------ MODULE WebLogin ------------------------------
(***************************************************************************)
(* Signing in on the web side: the session in a cookie (web/session.go),    *)
(* the OpenID Connect login that a protected page starts and the callback   *)
(* completes (web/oidc.go), and header authentication behind a trusted      *)
(* proxy (web/header.go), which shares the session when both are enabled.   *)
(*                                                                          *)
(* The server keeps no session.  A browser sends its cookie with every      *)
(* request, several at a time, and stores the cookies of the responses in   *)
(* the order they arrive; the server only remembers for a while which       *)
(* states it has consumed, and forgets them when it restarts.               *)
(*                                                                          *)
(* One browser, the logins that others start, and one clock.  State, nonce, *)
(* code verifier and expiry of a login are random or fixed when it starts,  *)
(* so the number of the login stands for all of them.                       *)
(***************************************************************************)
EXTENDS Integers

CONSTANTS
  Users, Groups, None,
  Claims,            \* the groups that the provider reports of each user
  Requests,          \* requests in progress at once
  MaxLogins,         \* bound: logins started
  CacheExpiration,   \* the lifetime of a login and of a session cookie
  SignIn,            \* a user needs at least this long at the provider
  Stall,             \* the longest time from the expiry check to markConsumed
  MaxTime            \* bound: the clock

ASSUME LoginAssumption ==
  /\ {MaxLogins, CacheExpiration, SignIn, Stall, MaxTime} \subseteq Nat
  /\ CacheExpiration > 0 /\ Stall <= SignIn
  /\ Claims \in [Users -> SUBSET Groups]

Logins == 1..MaxLogins

\* What the provider returns for a login that a user signed in to: a code that the
\* gateway exchanges for that user's access token and ID token.
Code == [login : Logins, user : Users]

\* identity.User: the access token is the one its code was exchanged for.
Identity ==
  [user : Users, source : {"OIDC", "Header"}, accessToken : Code \union {None},
   groups : SUBSET Groups]

ASSUME NoneAssumption == None \notin Identity

\* The session: an OIDC transaction (0 for none), an identity, and for how long
\* the browser keeps the cookie (0 for as long as it runs).
Session == [tx : 0..MaxLogins, id : Identity \union {None}, age : Nat]
NoSession == [tx |-> 0, id |-> None, age |-> 0]

\* A session as it is saved for a login or with an identity.
Saved(tx, id) == [tx |-> tx, id |-> id, age |-> CacheExpiration]

VARIABLES
  now,
  jar,         \* the browser's session cookie; its age is the time it goes
  started,     \* logins started
  expires,     \* ExpiresAt of each login
  states,      \* oidcConsumedStateCache: when an entry expires, 0 for no entry
  redeemed,    \* history: states this process has consumed
  mine,        \* history: the logins that this browser started
  answered,    \* history: the logins for which this process signed someone in
  req          \* what each request is doing, with its local variables

history == <<redeemed, mine, answered>>
vars == <<now, jar, started, expires, states, history, req>>

\* session is what a callback came with; route and id are those of a request that
\* its handler may serve; out is the cookie that the response sets.
Idle ==
  [pc |-> "idle", session |-> NoSession, route |-> None, id |-> None, state |-> 0,
   code |-> None, checked |-> 0, out |-> None]

\* The cookie, the cache and the requests keep the type of their declaration.
TypeOK ==
  /\ now \in Nat /\ jar \in Session
  /\ started \in 0..MaxLogins /\ expires \in [Logins -> Nat]
  /\ states \in [Logins -> Nat] /\ {redeemed, mine, answered} \subseteq SUBSET Logins
  /\ req \in [Requests ->
       [pc : {"idle", "handler", "check", "mark", "exchange", "respond"},
        session : Session, route : {"OIDC", "Header", None}, id : Identity \union {None},
        state : 0..MaxLogins, code : Code \union {None}, checked : Nat,
        out : Session \union {None}]]

Init ==
  /\ now = 0 /\ jar = NoSession /\ started = 0
  /\ expires = [l \in Logins |-> 0] /\ states = [l \in Logins |-> 0]
  /\ redeemed = {} /\ mine = {} /\ answered = {} /\ req = [r \in Requests |-> Idle]

In(r, where) == req[r].pc = where

\* The request goes on with these local variables.
Become(r, local) == req' = [req EXCEPT ![r] = local]

\* It ends with an answer that sets no cookie.
Refuse(r) == Become(r, Idle)

-----------------------------------------------------------------------------
(* A request reaches the middlewares with the browser's cookie              *)

\* enrichContext turns a header session away that does not come through a
\* trusted proxy.
Admitted(trusted) == jar.id # None /\ jar.id.source = "Header" => trusted

\* OIDC.Authenticated and Header.Authenticated, each on its routes, pass a session
\* with an identity on, the latter only through a trusted proxy.
Visit(r, route, trusted) ==
  /\ In(r, "idle") /\ Admitted(trusted) /\ jar.id # None
  /\ route = "Header" => trusted
  /\ Become(r, [Idle EXCEPT !.pc = "handler", !.route = route, !.id = jar.id])
  /\ UNCHANGED <<now, jar, started, expires, states, history>>

NewLogin ==
  /\ started < MaxLogins /\ started' = started + 1
  /\ expires' = [expires EXCEPT ![started + 1] = now + CacheExpiration]

\* OIDC.Authenticated starts a login otherwise, in place of any other that the
\* session may hold.
StartLogin(r) ==
  /\ In(r, "idle") /\ jar.id = None /\ NewLogin
  /\ mine' = mine \union {started + 1}
  /\ Become(r, [Idle EXCEPT !.pc = "respond", !.out = Saved(started + 1, None)])
  /\ UNCHANGED <<now, jar, states, redeemed, answered>>

\* Another browser starts a login, and has its cookie.
StartElsewhere ==
  /\ NewLogin
  /\ UNCHANGED <<now, jar, states, history, req>>

HeaderIdentity(u) ==
  [user |-> u, source |-> "Header", accessToken |-> None, groups |-> {}]

\* Mutant: the proxy's user replaces the one of the session, and only its name.
HeaderLoginAlways(r, u) ==
  /\ In(r, "idle")
  /\ LET id == IF jar.id = None THEN HeaderIdentity(u)
               ELSE [jar.id EXCEPT !.user = u, !.source = "Header"] IN
     Become(r, [Idle EXCEPT !.pc = "handler", !.route = "Header", !.id = id,
                            !.out = Saved(jar.tx, id)])
  /\ UNCHANGED <<now, jar, started, expires, states, history>>

\* Header.Authenticated takes the user from the proxy's header, and leaves a
\* login in the session alone.
HeaderLogin(r, u) ==
  /\ In(r, "idle") /\ jar.id = None
  /\ Become(r, [Idle EXCEPT !.pc = "handler", !.route = "Header", !.id = HeaderIdentity(u),
                            !.out = Saved(jar.tx, HeaderIdentity(u))])
  /\ UNCHANGED <<now, jar, started, expires, states, history>>

\* The browser comes to the callback, again and as late as it likes, with the state
\* and the code of any logins, of other browsers too.
Callback(r, trusted, l, c) ==
  /\ In(r, "idle") /\ Admitted(trusted)
  /\ \A k \in {l, c.login} : k <= started /\ now + CacheExpiration >= expires[k] + SignIn
  /\ Become(r, [Idle EXCEPT !.pc = "check", !.state = l, !.code = c,
                            !.session = [jar EXCEPT !.age = 0]])
  /\ UNCHANGED <<now, jar, started, expires, states, history>>

-----------------------------------------------------------------------------
(* HandleCallback                                                           *)

\* Mutant: the state of the request is not compared with that of the transaction.
CheckAnyState(r) ==
  /\ In(r, "check")
  /\ IF req[r].session.tx # 0 /\ expires[req[r].session.tx] > now
     THEN req' = [req EXCEPT ![r].pc = "mark", ![r].checked = now]
     ELSE Refuse(r)
  /\ UNCHANGED <<now, jar, started, expires, states, history>>

\* getOIDCTransaction; a session in the old format has no expiry and fails here.
Check(r) ==
  /\ In(r, "check")
  /\ IF req[r].session.tx = req[r].state /\ expires[req[r].state] > now
     THEN req' = [req EXCEPT ![r].pc = "mark", ![r].checked = now]
     ELSE Refuse(r)
  /\ UNCHANGED <<now, jar, started, expires, states, history>>

\* The entries of the cache that have not expired.
Live == [l \in Logins |-> IF states[l] > now THEN states[l] ELSE 0]

\* Mutant: an entry lives as long as the login it is about, not its own time.
MarkUntilExpiry(r) ==
  LET l == req[r].state IN
  /\ In(r, "mark")
  /\ IF Live[l] # 0
     THEN states' = Live /\ Refuse(r) /\ UNCHANGED redeemed
     ELSE /\ states' = [Live EXCEPT ![l] = expires[l]]
          /\ redeemed' = redeemed \union {l}
          /\ Become(r, [Idle EXCEPT !.pc = "exchange", !.state = l, !.code = req[r].code,
                                    !.session.tx = req[r].session.tx,
                                    !.out = [req[r].session EXCEPT !.tx = 0]])
  /\ UNCHANGED <<now, jar, started, expires, mine, answered>>

\* markConsumed, which drops old entries first, and the save of the session without
\* its transaction.
MarkConsumed(r) ==
  LET l == req[r].state IN
  /\ In(r, "mark")
  /\ IF Live[l] # 0
     THEN states' = Live /\ Refuse(r) /\ UNCHANGED redeemed
     ELSE /\ states' = [Live EXCEPT ![l] = now + CacheExpiration]
          /\ redeemed' = redeemed \union {l}
          /\ Become(r, [Idle EXCEPT !.pc = "exchange", !.state = l, !.code = req[r].code,
                                    !.session.tx = req[r].session.tx,
                                    !.out = [req[r].session EXCEPT !.tx = 0]])
  /\ UNCHANGED <<now, jar, started, expires, mine, answered>>

\* Mutant: neither the code verifier nor the nonce is compared.
VerifiedByState(r) == req[r].session.tx = req[r].state

\* The provider takes the code with the verifier of its login only, and the nonce in
\* the ID token is then compared: both are those of the transaction in the cookie.
Verified(r) == req[r].code.login = req[r].session.tx

\* populateIdentityFromClaims, with the access token.
ProviderIdentity(c) ==
  [user |-> c.user, source |-> "OIDC", accessToken |-> c, groups |-> Claims[c.user]]

\* Mutant: claims without a user name are taken.
ExchangeNameless(r) ==
  /\ In(r, "exchange") /\ Verified(r)
  /\ answered' = answered \union {req[r].code.login}
  /\ Become(r, [Idle EXCEPT !.pc = "respond",
          !.out = Saved(0, [ProviderIdentity(req[r].code) EXCEPT !.user = None])])
  /\ UNCHANGED <<now, jar, started, expires, states, redeemed, mine>>

\* The code is exchanged and the identity saved in the session.
Exchange(r) ==
  /\ In(r, "exchange") /\ Verified(r)
  /\ answered' = answered \union {req[r].code.login}
  /\ Become(r, [Idle EXCEPT !.pc = "respond", !.out = Saved(0, ProviderIdentity(req[r].code))])
  /\ UNCHANGED <<now, jar, started, expires, states, redeemed, mine>>

\* The provider or one of the checks refuses: the error sets the first cookie.
ExchangeFails(r) ==
  /\ In(r, "exchange")
  /\ Become(r, [Idle EXCEPT !.pc = "respond", !.out = req[r].out])
  /\ UNCHANGED <<now, jar, started, expires, states, history>>

-----------------------------------------------------------------------------
(* The browser, the clock and the process                                   *)

Respond(r) ==
  /\ In(r, "handler")
  /\ Become(r, [Idle EXCEPT !.pc = "respond", !.out = req[r].out])
  /\ UNCHANGED <<now, jar, started, expires, states, history>>

\* The browser stores the cookie with the age counted from now.
Deliver(r) ==
  /\ In(r, "respond")
  /\ jar' = IF req[r].out = None THEN jar
            ELSE [req[r].out EXCEPT !.age = IF @ = 0 THEN 0 ELSE now + @]
  /\ Refuse(r)
  /\ UNCHANGED <<now, started, expires, states, history>>

\* The browser has gone on and the response is lost.
Lose(r) ==
  /\ In(r, "respond")
  /\ Refuse(r)
  /\ UNCHANGED <<now, jar, started, expires, states, history>>

Tick ==
  /\ now < MaxTime
  /\ \A r \in Requests : In(r, "mark") => now < req[r].checked + Stall
  /\ now' = now + 1
  /\ jar' = IF jar.age # 0 /\ jar.age <= now + 1 THEN NoSession ELSE jar
  /\ UNCHANGED <<started, expires, states, history, req>>

\* The session keys are configured, so cookies outlive the process.
Restart ==
  /\ states' = [l \in Logins |-> 0] /\ redeemed' = {} /\ answered' = {}
  /\ req' = [r \in Requests |-> Idle]
  /\ UNCHANGED <<now, jar, started, expires, mine>>

-----------------------------------------------------------------------------
SignInStep(r) ==
  \/ \E trusted \in BOOLEAN :
       \/ \E route \in {"OIDC", "Header"} : Visit(r, route, trusted)
       \/ \E l \in Logins, c \in Code : Callback(r, trusted, l, c)
  \/ StartLogin(r) \/ (\E u \in Users : HeaderLogin(r, u))
  \/ Check(r) \/ MarkConsumed(r)
  \/ Exchange(r) \/ ExchangeFails(r)
  \/ Deliver(r) \/ Lose(r)

Next ==
  (\E r \in Requests : SignInStep(r) \/ Respond(r)) \/ StartElsewhere \/ Tick \/ Restart

Spec == Init /\ [][Next]_vars

-----------------------------------------------------------------------------
(* Properties                                                               *)

\* A state is consumed once by a process: of the callbacks with one state and
\* cookie, at once or minutes apart, one reaches the provider (oidc.go:235).
\* Entries expire on the clock of markConsumed and logins on an earlier reading of
\* it, so this needs the two readings closer together than a sign-in takes.
SingleUse ==
  [][\A r \in Requests :
       In(r, "mark") /\ In(r, "exchange")' => req[r].state \notin redeemed]_vars

\* A process signs someone in for a login once: the callback's cookie, its state and
\* its code are of one login, so that neither a second callback nor another login of
\* the browser can use the transaction of the first again.
AnsweredOnce ==
  [][\A r \in Requests : Exchange(r) => req[r].code.login \notin answered]_vars

\* Whoever the browser is signed in as by the provider has answered a login that this
\* browser started, although callbacks reach it with states and codes of logins of
\* other browsers, and its own logins and their cookies replace one another.
OwnAnswer ==
  LET Own(s) == s # None /\ s.id # None /\ s.id.accessToken # None
                  => s.id.accessToken.login \in mine
  IN Own(jar) /\ \A r \in Requests : Own(req[r].out)

=============================================================================
