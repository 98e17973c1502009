---------------------------- MODULE LoginProofs ----------------------------
(***************************************************************************)
(* What is proved of logins and downloads, for any number of logins,        *)
(* requests and users and any times that keep Stall <= SignIn.              *)
(*                                                                          *)
(* A process consumes a state once.  An entry of the cache lasts            *)
(* CacheExpiration from the moment of its consumption, and a login          *)
(* CacheExpiration from its start, at least SignIn earlier.  So the entry   *)
(* of a state outlives its login by SignIn, and a request that found the    *)
(* login alive cannot be later than that by the time it marks the state.    *)
(* LoginInv states these distances.                                         *)
(*                                                                          *)
(* From there on the transaction of the cookie, the state and the code are  *)
(* of one login (AnswerInv), which is one of this browser's (MineInv), and  *)
(* identities own their access tokens (OwnerInv, DownloadInv).              *)
(***************************************************************************)
EXTENDS Download, TLAPS

USE DEF history

Local ==
  [pc : {"idle", "handler", "check", "mark", "exchange", "respond"},
   session : Session, route : {"OIDC", "Header", None}, id : Identity \union {None},
   state : 0..MaxLogins, code : Code \union {None}, checked : Nat,
   out : Session \union {None}]

\* A callback is about a login that was started, and has its code.
Returned(q) ==
  /\ q.state \in 1..started /\ q.code \in Code
  /\ now + CacheExpiration >= expires[q.state] + SignIn

\* The login was alive when it was checked, and not long ago.
Timely(q) == q.checked < expires[q.state] /\ now <= q.checked + Stall

Sound(q) ==
  /\ q.pc \in {"check", "mark"} => Returned(q)
  /\ q.pc = "mark" => Timely(q)
  /\ q.pc = "exchange" => q.code \in Code /\ q.out \in Session
  /\ q.pc = "handler" => q.id \in Identity

Callbacks == \A r \in Requests : Sound(req[r])

\* The entry of a consumed state outlives the login by SignIn.
Outlives ==
  /\ redeemed \subseteq 1..started
  /\ \A l \in redeemed :
       states[l] >= expires[l] + SignIn \/ now >= expires[l] + SignIn

LoginInv == TypeOK /\ Callbacks /\ Outlives

-----------------------------------------------------------------------------
LEMMA Constants ==
  /\ MaxLogins \in Nat /\ CacheExpiration \in Nat /\ SignIn \in Nat /\ Stall \in Nat
  /\ Stall <= SignIn /\ Claims \in [Users -> SUBSET Groups]
  BY LoginAssumption

LEMMA LocalType == TypeOK => req \in [Requests -> Local]
  BY DEF TypeOK, Local

LEMMA IdleType == Idle \in Local /\ NoSession \in Session /\ Idle.pc = "idle"
  BY Constants DEF Idle, Local, NoSession, Session

LEMMA IdentityTypes ==
  /\ \A u \in Users : HeaderIdentity(u) \in Identity
  /\ \A c \in Code : ProviderIdentity(c) \in Identity
  /\ \A t \in 0..MaxLogins, i \in Identity \union {None} : Saved(t, i) \in Session
  BY Constants DEF HeaderIdentity, ProviderIdentity, Saved, Identity, Session, Code

LEMMA AnyRequest ==
  ASSUME LoginInv, NEW r \in Requests, NEW q \in Local, Sound(q), Become(r, q),
         UNCHANGED <<now, jar, started, expires, states, redeemed, mine>>,
         answered' \subseteq Logins
  PROVE  LoginInv'
  <1>1. req \in [Requests -> Local] /\ Callbacks /\ Outlives /\ TypeOK
    BY LocalType DEF LoginInv
  <1>2. req' \in [Requests -> Local]
    BY <1>1 DEF Become
  <1>3. TypeOK'
    BY <1>1, <1>2 DEF TypeOK, Local
  <1>4. ASSUME NEW k \in Requests PROVE Sound(req[k])'
    <2>1. Sound(req'[k])
      BY <1>1 DEF Callbacks, Become
    <2> QED
      BY <2>1 DEF Sound, Returned, Timely
  <1>5. Outlives'
    BY <1>1 DEF Outlives
  <1> QED
    BY <1>3, <1>4, <1>5 DEF LoginInv, Callbacks

LEMMA OneRequest ==
  ASSUME LoginInv, NEW r \in Requests, NEW q \in Local, Sound(q), Become(r, q),
         UNCHANGED <<now, jar, started, expires, states, history>>
  PROVE  LoginInv'
  <1>1. answered' \subseteq Logins
    BY DEF LoginInv, TypeOK
  <1> QED
    BY <1>1, AnyRequest

\* A request that is not a callback under way.
LEMMA PlainRequest ==
  ASSUME LoginInv, NEW r \in Requests, NEW q \in Local, Become(r, q),
         q.pc \in {"idle", "respond"} \/ (q.pc = "handler" /\ q.id \in Identity),
         UNCHANGED <<now, jar, started, expires, states, history>>
  PROVE  LoginInv'
  BY OneRequest DEF Sound

LEMMA VisitInv ==
  ASSUME LoginInv, NEW r \in Requests, NEW route \in {"OIDC", "Header"}, NEW t \in BOOLEAN,
         Visit(r, route, t)
  PROVE  LoginInv'
  <1> DEFINE q == [Idle EXCEPT !.pc = "handler", !.route = route, !.id = jar.id]
  <1>1. jar.id \in Identity
    BY DEF LoginInv, TypeOK, Session, Visit
  <1>2. q \in Local /\ q.pc = "handler" /\ q.id \in Identity
    BY <1>1, IdleType DEF Local, Idle
  <1> HIDE DEF q
  <1>3. Become(r, q) /\ UNCHANGED <<now, jar, started, expires, states, history>>
    BY DEF Visit, q
  <1> QED
    BY <1>2, <1>3, PlainRequest

LEMMA StartLoginInv ==
  ASSUME LoginInv, NEW r \in Requests, StartLogin(r)
  PROVE  LoginInv'
  <1> DEFINE q == [Idle EXCEPT !.pc = "respond", !.out = Saved(started + 1, None)]
  <1>1. /\ started \in Nat /\ started + 1 \in Logins /\ started' = started + 1
        /\ now \in Nat /\ expires \in [Logins -> Nat] /\ states \in [Logins -> Nat]
        /\ expires' = [expires EXCEPT ![started + 1] = now + CacheExpiration]
        /\ UNCHANGED <<now, jar, states, redeemed, answered>>
        /\ redeemed \subseteq Logins /\ jar \in Session
        /\ answered \subseteq Logins /\ mine' \subseteq Logins
    BY Constants DEF StartLogin, NewLogin, LoginInv, TypeOK, Logins
  <1>2. /\ expires' \in [Logins -> Nat] /\ 1..started \subseteq Logins
        /\ 1..started \subseteq 1..started'
        /\ \A l \in 1..started : expires'[l] = expires[l]
    BY <1>1, Constants DEF Logins
  <1>3. Saved(started + 1, None) \in Session
    BY <1>1, Constants, IdentityTypes DEF Logins
  <1>4. q \in Local /\ q.pc = "respond"
    BY <1>3, IdleType DEF Local, Idle
  <1> HIDE DEF q
  <1>5. req \in [Requests -> Local] /\ req' = [req EXCEPT ![r] = q]
    BY LocalType DEF LoginInv, StartLogin, Become, q
  <1>6. TypeOK'
    <2>1. req' \in [Requests -> Local]
      BY <1>4, <1>5
    <2>2. started' \in 0..MaxLogins
      BY <1>1, Constants DEF Logins
    <2> QED
      BY <1>1, <1>2, <2>1, <2>2 DEF TypeOK, Local
  <1>7. ASSUME NEW k \in Requests PROVE Sound(req[k])'
    <2>1. CASE k = r
      BY <1>4, <1>5, <2>1 DEF Sound
    <2>2. CASE k # r
      <3>1. req'[k] = req[k] /\ Sound(req[k])
        BY <1>5, <2>2 DEF LoginInv, Callbacks
      <3> QED
        BY <3>1, <1>1, <1>2 DEF Sound, Returned, Timely
    <2> QED
      BY <2>1, <2>2
  <1>8. Outlives'
    BY <1>1, <1>2 DEF LoginInv, Outlives
  <1> QED
    BY <1>6, <1>7, <1>8 DEF LoginInv, Callbacks

LEMMA HeaderLoginInv ==
  ASSUME LoginInv, NEW r \in Requests, NEW u \in Users, HeaderLogin(r, u)
  PROVE  LoginInv'
  <1> DEFINE q == [Idle EXCEPT !.pc = "handler", !.route = "Header",
                     !.id = HeaderIdentity(u), !.out = Saved(jar.tx, HeaderIdentity(u))]
  <1>1. HeaderIdentity(u) \in Identity /\ Saved(jar.tx, HeaderIdentity(u)) \in Session
    BY IdentityTypes DEF LoginInv, TypeOK, Session
  <1>2. q \in Local /\ q.pc = "handler" /\ q.id \in Identity
    BY <1>1, IdleType DEF Local, Idle
  <1>3. Become(r, q) /\ UNCHANGED <<now, jar, started, expires, states, history>>
    BY DEF HeaderLogin
  <1> HIDE DEF q
  <1> QED
    BY <1>2, <1>3, PlainRequest

LEMMA CallbackInv ==
  ASSUME LoginInv, NEW r \in Requests, NEW t \in BOOLEAN, NEW l \in Logins, NEW c \in Code,
         Callback(r, t, l, c)
  PROVE  LoginInv'
  <1> DEFINE s == [jar EXCEPT !.age = 0]
             q == [Idle EXCEPT !.pc = "check", !.state = l, !.code = c, !.session = s]
  <1>1. s \in Session
    BY DEF LoginInv, TypeOK, Session
  <1>2. l \in 0..MaxLogins
    BY Constants DEF Logins
  <1>3. Become(r, q) /\ UNCHANGED <<now, jar, started, expires, states, history>>
    BY DEF Callback
  <1> HIDE DEF s
  <1>4. q \in Local /\ q.pc = "check" /\ q.state = l /\ q.code = c
    BY <1>1, <1>2, IdleType DEF Local, Idle
  <1>5. l <= started /\ now + CacheExpiration >= expires[l] + SignIn
    BY DEF Callback
  <1> HIDE DEF q
  <1>6. l \in 1..started
    BY <1>5, Constants DEF LoginInv, TypeOK, Logins
  <1>7. Sound(q)
    BY <1>4, <1>5, <1>6 DEF Sound, Returned
  <1> QED
    BY <1>4, <1>3, <1>7, OneRequest

LEMMA CheckInv ==
  ASSUME LoginInv, NEW r \in Requests, Check(r)
  PROVE  LoginInv'
  <1>1. /\ req \in [Requests -> Local] /\ req[r] \in Local /\ req[r].pc = "check"
        /\ Sound(req[r]) /\ now \in Nat /\ expires \in [Logins -> Nat]
        /\ UNCHANGED <<now, jar, started, expires, states, history>>
    BY LocalType DEF LoginInv, TypeOK, Callbacks, Check, In
  <1>2. CASE Refuse(r)
    BY <1>1, <1>2, IdleType, PlainRequest DEF Refuse
  <1>3. CASE /\ expires[req[r].state] > now
             /\ req' = [req EXCEPT ![r].pc = "mark", ![r].checked = now]
    <2> DEFINE q == [req[r] EXCEPT !.pc = "mark", !.checked = now]
    <2>1. /\ q \in Local /\ q.pc = "mark" /\ q.state = req[r].state /\ q.code = req[r].code
          /\ q.checked = now
      BY <1>1 DEF Local
    <2>2. Become(r, q)
      BY <1>1, <1>3 DEF Become
    <2> HIDE DEF q
    <2>3. Sound(q)
      BY <1>1, <1>3, <2>1, Constants DEF Sound, Returned, Timely
    <2> QED
      BY <1>1, <2>1, <2>2, <2>3, OneRequest
  <1> QED
    BY <1>2, <1>3 DEF Check

LEMMA MarkInv ==
  ASSUME LoginInv, NEW r \in Requests, MarkConsumed(r)
  PROVE  LoginInv' /\ (In(r, "exchange")' => req[r].state \notin redeemed)
  <1> DEFINE l == req[r].state
             s == [req[r].session EXCEPT !.tx = 0]
             q == [Idle EXCEPT !.pc = "exchange", !.state = l, !.code = req[r].code,
                               !.session.tx = req[r].session.tx, !.out = s]
  <1>1. /\ req \in [Requests -> Local] /\ req[r] \in Local /\ req[r].pc = "mark"
        /\ Returned(req[r]) /\ Timely(req[r])
        /\ now \in Nat /\ started \in 0..MaxLogins /\ jar \in Session
        /\ expires \in [Logins -> Nat] /\ states \in [Logins -> Nat]
        /\ redeemed \subseteq 1..started /\ {redeemed, mine, answered} \subseteq SUBSET Logins
        /\ UNCHANGED <<now, jar, started, expires, mine, answered>>
    BY LocalType DEF LoginInv, TypeOK, Callbacks, Sound, Outlives, MarkConsumed, In
  <1>2. req[r].session \in Session /\ req[r].checked \in Nat
    BY <1>1 DEF Local
  <1>3. s \in Session
    BY <1>2, Constants DEF Session
  <1>4. l \in 1..started /\ l \in Logins /\ l \in 0..MaxLogins /\ req[r].code \in Code
    BY <1>1, Constants DEF Returned, Logins
  <1>5. /\ Live \in [Logins -> Nat]
        /\ \A k \in Logins : Live[k] = IF states[k] > now THEN states[k] ELSE 0
    BY <1>1 DEF Live
  <1>6. \A k \in redeemed :
          Live[k] >= expires[k] + SignIn \/ now >= expires[k] + SignIn
    BY <1>1, <1>5, Constants DEF LoginInv, Outlives
  <1>7. now < expires[l] + SignIn
    BY <1>1, <1>4, <1>2, Constants DEF Timely
  <1>8. l \in redeemed => Live[l] # 0
    BY <1>1, <1>4, <1>5, <1>6, <1>7, Constants
  <1>9. ASSUME NEW p \in Local, Sound(p), req' = [req EXCEPT ![r] = p] PROVE Callbacks'
    BY <1>1, <1>9 DEF LoginInv, Callbacks, Sound, Returned, Timely
  <1>10. CASE Live[l] # 0
    <2>1. req' = [req EXCEPT ![r] = Idle] /\ states' = Live /\ redeemed' = redeemed
      BY <1>10 DEF MarkConsumed, Refuse, Become
    <2>2. req' \in [Requests -> Local] /\ req'[r].pc = "idle"
      BY <1>1, <2>1, IdleType
    <2>3. Callbacks'
      BY <1>9, <2>1, IdleType DEF Sound
    <2>4. Outlives'
      BY <1>1, <1>6, <2>1 DEF Outlives
    <2>5. TypeOK'
      BY <1>1, <1>5, <2>1, <2>2 DEF TypeOK, Local
    <2> QED
      BY <2>2, <2>3, <2>4, <2>5 DEF LoginInv, In
  <1>11. CASE Live[l] = 0
    <2>1. /\ states' = [Live EXCEPT ![l] = now + CacheExpiration]
          /\ redeemed' = redeemed \union {l} /\ req' = [req EXCEPT ![r] = q]
      BY <1>11 DEF MarkConsumed, Become
    <2>2. /\ q \in Local /\ q.pc = "exchange" /\ q.code \in Code /\ q.out \in Session
      <3>1. [NoSession EXCEPT !.tx = req[r].session.tx] \in Session
        BY <1>2, IdleType DEF Session
      <3> HIDE DEF s, l
      <3> QED
        BY <1>4, <1>3, <3>1, IdleType DEF Local, Idle
    <2> HIDE DEF q, l
    <2>3. req' \in [Requests -> Local]
      BY <1>1, <2>1, <2>2
    <2>4. Callbacks'
      BY <1>9, <2>1, <2>2 DEF Sound
    <2>5. now + CacheExpiration >= expires[l] + SignIn
      BY <1>1 DEF Returned, l
    <2>6. states' \in [Logins -> Nat] /\ states'[l] = now + CacheExpiration
          /\ \A k \in Logins : k # l => states'[k] = Live[k]
      BY <1>1, <1>4, <1>5, <2>1, Constants
    <2>7. ASSUME NEW k \in redeemed'
          PROVE  states'[k] >= expires'[k] + SignIn \/ now' >= expires'[k] + SignIn
      <3>1. CASE k = l
        BY <1>1, <2>5, <2>6, <3>1
      <3>2. CASE k # l
        <4>1. k \in redeemed /\ k \in Logins /\ states'[k] = Live[k]
          BY <1>1, <2>1, <2>6, <2>7, <3>2
        <4> QED
          BY <1>1, <1>6, <4>1
      <3> QED
        BY <3>1, <3>2
    <2>8. redeemed' \subseteq 1..started' /\ redeemed' \subseteq Logins
      BY <1>1, <1>4, <2>1
    <2>9. TypeOK'
      BY <1>1, <2>3, <2>6, <2>8 DEF TypeOK, Local
    <2>10. req[r].state \notin redeemed
      BY <1>8, <1>11 DEF l
    <2> QED
      BY <2>4, <2>7, <2>8, <2>9, <2>10 DEF LoginInv, Outlives
  <1> QED
    BY <1>10, <1>11

LEMMA ExchangeInv ==
  ASSUME LoginInv, NEW r \in Requests, Exchange(r)
  PROVE  LoginInv'
  <1> DEFINE s == Saved(0, ProviderIdentity(req[r].code))
             q == [Idle EXCEPT !.pc = "respond", !.out = s]
  <1>1. /\ req[r].code \in Code
        /\ UNCHANGED <<now, jar, started, expires, states, redeemed, mine>>
    BY LocalType DEF LoginInv, Callbacks, Sound, Exchange, In
  <1>2. answered' \subseteq Logins
    BY <1>1 DEF LoginInv, TypeOK, Exchange, Code
  <1>3. s \in Session
    BY <1>1, IdentityTypes, Constants
  <1>4. Become(r, q)
    BY DEF Exchange
  <1> HIDE DEF s
  <1>5. q \in Local /\ q.pc = "respond"
    BY <1>3, IdleType DEF Local, Idle
  <1> HIDE DEF q
  <1> QED
    BY <1>1, <1>2, <1>4, <1>5, AnyRequest DEF Sound

LEMMA ExchangeFailsInv ==
  ASSUME LoginInv, NEW r \in Requests, ExchangeFails(r)
  PROVE  LoginInv'
  <1> DEFINE q == [Idle EXCEPT !.pc = "respond", !.out = req[r].out]
  <1>1. Become(r, q) /\ UNCHANGED <<now, jar, started, expires, states, history>>
    BY DEF ExchangeFails
  <1>2. req[r].out \in Session
    BY LocalType DEF LoginInv, Callbacks, Sound, ExchangeFails, In
  <1>3. q \in Local /\ q.pc = "respond"
    BY <1>2, IdleType DEF Local, Idle
  <1> HIDE DEF q
  <1> QED
    BY <1>1, <1>3, PlainRequest

LEMMA ElsewhereInv ==
  ASSUME LoginInv, StartElsewhere
  PROVE  LoginInv'
  <1>1. /\ started \in Nat /\ started + 1 \in Logins /\ started' = started + 1
        /\ now \in Nat /\ expires \in [Logins -> Nat]
        /\ expires' = [expires EXCEPT ![started + 1] = now + CacheExpiration]
        /\ UNCHANGED <<now, jar, states, history, req>>
    BY Constants DEF StartElsewhere, NewLogin, LoginInv, TypeOK, Logins
  <1>2. /\ expires' \in [Logins -> Nat] /\ started' \in 0..MaxLogins
        /\ 1..started \subseteq Logins /\ 1..started \subseteq 1..started'
        /\ \A l \in 1..started : expires'[l] = expires[l]
    BY <1>1, Constants DEF Logins
  <1>3. TypeOK'
    BY <1>1, <1>2 DEF LoginInv, TypeOK
  <1>4. Callbacks'
    BY <1>1, <1>2 DEF LoginInv, Callbacks, Sound, Returned, Timely
  <1>5. Outlives'
    BY <1>1, <1>2 DEF LoginInv, Outlives
  <1> QED
    BY <1>3, <1>4, <1>5 DEF LoginInv

LEMMA RespondInv ==
  ASSUME LoginInv, NEW r \in Requests, Respond(r)
  PROVE  LoginInv'
  <1> DEFINE q == [Idle EXCEPT !.pc = "respond", !.out = req[r].out]
  <1>1. Become(r, q) /\ UNCHANGED <<now, jar, started, expires, states, history>>
    BY DEF Respond
  <1>2. req[r].out \in Session \union {None}
    BY LocalType DEF LoginInv, Local
  <1>3. q \in Local /\ q.pc = "respond"
    BY <1>2, IdleType DEF Local, Idle
  <1> HIDE DEF q
  <1> QED
    BY <1>1, <1>3, PlainRequest

LEMMA DeliverInv ==
  ASSUME LoginInv, NEW r \in Requests, Deliver(r)
  PROVE  LoginInv'
  <1>1. /\ now \in Nat /\ jar \in Session /\ req[r].out \in Session \union {None}
        /\ req \in [Requests -> Local]
    BY LocalType DEF LoginInv, TypeOK, Local
  <1>2. jar' \in Session
    <2>1. CASE req[r].out = None
      BY <1>1, <2>1 DEF Deliver
    <2>2. CASE req[r].out # None
      <3>1. req[r].out \in Session
        BY <1>1, <2>2
      <3>2. jar' = [req[r].out EXCEPT !.age = IF @ = 0 THEN 0 ELSE now + @]
        BY <2>2 DEF Deliver
      <3> QED
        BY <1>1, <3>1, <3>2 DEF Session
    <2> QED
      BY <2>1, <2>2
  <1>3. req' = [req EXCEPT ![r] = Idle] /\ UNCHANGED <<now, started, expires, states, history>>
    BY DEF Deliver, Refuse, Become
  <1>4. req' \in [Requests -> Local]
    BY <1>1, <1>3, IdleType
  <1>5. TypeOK'
    BY <1>2, <1>3, <1>4 DEF LoginInv, TypeOK, Local
  <1>6. Callbacks' /\ Outlives'
    BY <1>1, <1>3, IdleType DEF LoginInv, Callbacks, Sound, Returned, Timely, Outlives
  <1> QED
    BY <1>5, <1>6 DEF LoginInv

LEMMA LoseInv ==
  ASSUME LoginInv, NEW r \in Requests, Lose(r)
  PROVE  LoginInv'
  BY IdleType, PlainRequest DEF Lose, Refuse

LEMMA TickInv ==
  ASSUME LoginInv, Tick
  PROVE  LoginInv'
  <1>1. /\ now \in Nat /\ now' = now + 1 /\ expires \in [Logins -> Nat]
        /\ req \in [Requests -> Local] /\ 1..started \subseteq Logins
        /\ UNCHANGED <<started, expires, states, history, req>>
    <2>1. now' = now + 1 /\ UNCHANGED <<started, expires, states, history, req>>
      BY DEF Tick
    <2> QED
      BY <2>1, LocalType, Constants DEF LoginInv, TypeOK, Logins
  <1>2. TypeOK'
    BY <1>1, IdleType DEF LoginInv, TypeOK, Tick
  <1>3. ASSUME NEW r \in Requests PROVE Sound(req[r])'
    <2>1. Sound(req[r]) /\ req'[r] = req[r] /\ req[r].checked \in Nat
      BY <1>1 DEF LoginInv, Callbacks, Local
    <2>2. req[r].pc = "mark" => now + 1 <= req[r].checked + Stall
      BY <1>1, <2>1, Constants DEF Tick, In
    <2> QED
      BY <1>1, <2>1, <2>2, Constants DEF Sound, Returned, Timely
  <1>4. Outlives'
    BY <1>1, Constants DEF LoginInv, Outlives
  <1> QED
    BY <1>2, <1>3, <1>4 DEF LoginInv, Callbacks

LEMMA RestartInv ==
  ASSUME LoginInv, Restart
  PROVE  LoginInv'
  <1>1. req' = [r \in Requests |-> Idle] /\ redeemed' = {} /\ answered' = {}
        /\ states' = [l \in Logins |-> 0] /\ UNCHANGED <<now, jar, started, expires, mine>>
    BY DEF Restart
  <1>2. req' \in [Requests -> Local] /\ states' \in [Logins -> Nat]
    BY <1>1, IdleType
  <1>3. TypeOK'
    BY <1>1, <1>2 DEF LoginInv, TypeOK, Local
  <1>4. Callbacks' /\ Outlives'
    BY <1>1, IdleType DEF Callbacks, Sound, Outlives
  <1> QED
    BY <1>3, <1>4 DEF LoginInv

LEMMA LoginInit == Init => LoginInv
  <1> SUFFICES ASSUME Init PROVE LoginInv
    OBVIOUS
  <1>1. req \in [Requests -> Local] /\ jar \in Session
    BY IdleType DEF Init
  <1>2. TypeOK
    BY <1>1, Constants DEF Init, TypeOK, Local
  <1>3. Callbacks /\ Outlives
    BY IdleType DEF Init, Callbacks, Sound, Outlives
  <1> QED
    BY <1>2, <1>3 DEF LoginInv

LEMMA LoginStep == LoginInv /\ [Next]_vars => LoginInv'
  <1> SUFFICES ASSUME LoginInv, [Next]_vars PROVE LoginInv'
    OBVIOUS
  <1>1. ASSUME NEW r \in Requests, SignInStep(r) \/ Respond(r) PROVE LoginInv'
    BY <1>1, VisitInv, CallbackInv, StartLoginInv, HeaderLoginInv, CheckInv, MarkInv,
       ExchangeInv, ExchangeFailsInv, DeliverInv, LoseInv, RespondInv DEF SignInStep
  <1>2. CASE UNCHANGED vars
    BY <1>2 DEF vars, LoginInv, TypeOK, Callbacks, Sound, Returned, Timely, Outlives
  <1> QED
    BY <1>1, <1>2, ElsewhereInv, TickInv, RestartInv DEF Next

\* What a step that goes from "mark" to "exchange" is.
LEMMA OnlyMark ==
  ASSUME LoginInv, Next, NEW r \in Requests, In(r, "mark"), In(r, "exchange")'
  PROVE  MarkConsumed(r)
  <1>1. req \in [Requests -> Local] /\ req[r].pc = "mark" /\ req'[r].pc = "exchange"
    BY LocalType DEF LoginInv, In
  <1>2. ASSUME NEW k \in Requests, k # r, NEW q, Become(k, q) PROVE FALSE
    BY <1>1, <1>2 DEF Become
  <1>3. ASSUME NEW k \in Requests, SignInStep(k) \/ Respond(k) PROVE k = r
    <2>1. CASE Check(k)
      BY <2>1, <1>1 DEF Check, Refuse, Become
    <2>2. CASE MarkConsumed(k)
      BY <2>2, <1>2 DEF MarkConsumed, Refuse
    <2> QED
      BY <1>2, <1>3, <2>1, <2>2 DEF SignInStep, Visit, StartLogin, HeaderLogin, Callback,
         Exchange, ExchangeFails, Deliver, Lose, Respond, Refuse
  <1>4. SignInStep(r) \/ Respond(r) => MarkConsumed(r)
    BY <1>1, IdleType DEF SignInStep, In, Visit, StartLogin, HeaderLogin, Callback, Check,
       Refuse, Become, Exchange, ExchangeFails, Deliver, Lose, Respond
  <1>5. ~StartElsewhere /\ ~Tick /\ ~Restart
    BY <1>1, IdleType DEF StartElsewhere, Tick, Restart
  <1> QED
    BY <1>3, <1>4, <1>5 DEF Next

\* WebLogin's variables keep their type.
THEOREM LoginTypeCorrect == Spec => []TypeOK
  <1>1. LoginInv => TypeOK
    BY DEF LoginInv
  <1> QED
    BY <1>1, LoginInit, LoginStep, PTL DEF Spec

\* A process consumes a state once.
THEOREM StateConsumedOnce == Spec => SingleUse
  <1>1. LoginInv /\ [Next]_vars =>
          [\A r \in Requests :
             In(r, "mark") /\ In(r, "exchange")' => req[r].state \notin redeemed]_vars
    BY OnlyMark, MarkInv
  <1> QED
    BY <1>1, LoginInit, LoginStep, PTL DEF Spec, SingleUse

-----------------------------------------------------------------------------
(* Who a session and a token are for                                        *)

\* An access token is that of the identity's user.
Owned(i) == i # None /\ i.accessToken # None => i.accessToken.user = i.user

Honest(q) == Owned(q.session.id) /\ Owned(q.id) /\ (q.out # None => Owned(q.out.id))

OwnerInv == Owned(jar.id) /\ \A r \in Requests : Honest(req[r])

LEMMA IdleHonest == Honest(Idle) /\ Owned(NoSession.id)
  BY DEF Honest, Owned, Idle, NoSession

LEMMA OneHonest ==
  ASSUME LoginInv, OwnerInv, NEW r \in Requests, NEW q, Honest(q), Become(r, q), Owned(jar.id)'
  PROVE  OwnerInv'
  BY LocalType DEF LoginInv, OwnerInv, Become

LEMMA OwnerStep == LoginInv /\ OwnerInv /\ [Next]_vars => OwnerInv'
  <1> SUFFICES ASSUME LoginInv, OwnerInv, [Next]_vars PROVE OwnerInv'
    OBVIOUS
  <1>1. /\ Owned(jar.id) /\ \A r \in Requests : Honest(req[r]) /\ req[r] \in Local
    BY LocalType DEF OwnerInv, LoginInv
  <1>2. ASSUME NEW r \in Requests, NEW q, Honest(q), Become(r, q), jar' = jar PROVE OwnerInv'
    BY <1>1, <1>2, OneHonest
  <1>3. ASSUME NEW r \in Requests, SignInStep(r) \/ Respond(r) PROVE OwnerInv'
    <2>1. ASSUME NEW route \in {"OIDC", "Header"}, NEW t \in BOOLEAN, Visit(r, route, t)
          PROVE OwnerInv'
      <3>1. Honest([Idle EXCEPT !.pc = "handler", !.route = route, !.id = jar.id])
        BY <1>1, IdleHonest DEF Honest, Idle
      <3> QED
        BY <1>2, <2>1, <3>1 DEF Visit
    <2>2. ASSUME NEW t \in BOOLEAN, NEW l \in Logins, NEW c \in Code, Callback(r, t, l, c)
          PROVE OwnerInv'
      <3>1. [jar EXCEPT !.age = 0].id = jar.id
        BY DEF LoginInv, TypeOK, Session
      <3>2. Honest([Idle EXCEPT !.pc = "check", !.state = l, !.code = c,
                                !.session = [jar EXCEPT !.age = 0]])
        BY <1>1, <3>1, IdleHonest DEF Honest, Idle
      <3> QED
        BY <1>2, <2>2, <3>2 DEF Callback
    <2>3. CASE StartLogin(r)
      <3>1. Honest([Idle EXCEPT !.pc = "respond", !.out = Saved(started + 1, None)])
        BY IdleHonest DEF Honest, Idle, Saved, Owned
      <3> QED
        BY <1>2, <2>3, <3>1 DEF StartLogin
    <2>4. ASSUME NEW u \in Users, HeaderLogin(r, u) PROVE OwnerInv'
      <3>1. Owned(HeaderIdentity(u))
        BY DEF Owned, HeaderIdentity
      <3>2. Honest([Idle EXCEPT !.pc = "handler", !.route = "Header", !.id = HeaderIdentity(u),
                                !.out = Saved(jar.tx, HeaderIdentity(u))])
        BY <3>1, IdleHonest DEF Honest, Idle, Saved
      <3> QED
        BY <1>2, <2>4, <3>2 DEF HeaderLogin
    <2>5. CASE Check(r)
      <3>1. Honest([req[r] EXCEPT !.pc = "mark", !.checked = now])
        BY <1>1 DEF Honest, Local
      <3>2. Become(r, [req[r] EXCEPT !.pc = "mark", !.checked = now]) \/ Refuse(r)
        BY <2>5, LocalType DEF Check, Become, LoginInv
      <3> QED
        BY <1>2, <2>5, <3>1, <3>2, IdleHonest DEF Check, Refuse
    <2>6. CASE MarkConsumed(r)
      <3>1. [req[r].session EXCEPT !.tx = 0].id = req[r].session.id
        BY <1>1 DEF Local, Session
      <3>2. Honest([Idle EXCEPT !.pc = "exchange", !.state = req[r].state, !.code = req[r].code,
                                !.session.tx = req[r].session.tx,
                                !.out = [req[r].session EXCEPT !.tx = 0]])
        BY <1>1, <3>1, IdleHonest DEF Honest, Idle, NoSession
      <3> QED
        BY <1>2, <2>6, <3>2, IdleHonest DEF MarkConsumed, Refuse
    <2>7. CASE Exchange(r)
      <3> DEFINE i == ProviderIdentity(req[r].code)
      <3>1. Owned(i)
        BY DEF Owned, ProviderIdentity
      <3> HIDE DEF i
      <3>2. Honest([Idle EXCEPT !.pc = "respond", !.out = Saved(0, i)])
        BY <3>1, IdleHonest DEF Honest, Idle, Saved
      <3> QED
        BY <1>2, <2>7, <3>2 DEF Exchange, i
    <2>8. CASE ExchangeFails(r) \/ Respond(r)
      <3>1. Honest([Idle EXCEPT !.pc = "respond", !.out = req[r].out])
        BY <1>1, IdleHonest DEF Honest, Idle
      <3> QED
        BY <1>2, <2>8, <3>1 DEF ExchangeFails, Respond
    <2>9. CASE Deliver(r)
      <3>1. Owned(jar'.id)
        <4>1. CASE req[r].out = None
          BY <1>1, <2>9, <4>1 DEF Deliver
        <4>2. CASE req[r].out # None
          <5>1. req[r].out \in Session /\ Owned(req[r].out.id)
            BY <1>1, <4>2 DEF Local, Honest
          <5>2. jar'.id = req[r].out.id
            BY <2>9, <4>2, <5>1 DEF Deliver, Session
          <5> QED
            BY <5>1, <5>2
        <4> QED
          BY <4>1, <4>2
      <3> QED
        BY <2>9, <3>1, OneHonest, IdleHonest DEF Deliver, Refuse, Owned
    <2>10. CASE Lose(r)
      BY <1>2, <2>10, IdleHonest DEF Lose, Refuse
    <2> QED
      BY <1>3, <2>1, <2>2, <2>3, <2>4, <2>5, <2>6, <2>7, <2>8, <2>9, <2>10 DEF SignInStep
  <1>4. CASE StartElsewhere \/ Tick
    BY <1>1, <1>4, IdleHonest DEF StartElsewhere, Tick, OwnerInv, Honest, Owned
  <1>5. CASE Restart
    BY <1>1, <1>5, IdleHonest DEF Restart, OwnerInv, Honest, Owned
  <1>6. CASE UNCHANGED vars
    BY <1>1, <1>6 DEF vars, OwnerInv, Honest, Owned
  <1> QED
    BY <1>3, <1>4, <1>5, <1>6 DEF Next

LEMMA OwnerInit == Init => OwnerInv
  BY IdleHonest DEF Init, OwnerInv

-----------------------------------------------------------------------------
(* Which login a session answers                                            *)

\* The transaction that a callback uses is the one its state names, which it has
\* consumed and for which nobody was signed in yet.
Bound(q) ==
  /\ q.pc \in {"mark", "exchange"} => q.session.tx = q.state
  /\ q.pc = "exchange" => q.state \in redeemed /\ q.state \notin answered

\* No two callbacks are about to sign in for one login.
AnswerInv ==
  /\ answered \subseteq redeemed
  /\ \A r \in Requests : Bound(req[r])
  /\ \A r, k \in Requests :
       In(r, "exchange") /\ In(k, "exchange") /\ req[r].state = req[k].state => r = k

LEMMA AnswerInit == Init => AnswerInv
  BY IdleType DEF Init, AnswerInv, Bound, In

\* A request that does not come to use a transaction.
LEMMA OtherBound ==
  ASSUME LoginInv, AnswerInv, NEW r \in Requests, NEW q, Become(r, q),
         q.pc \notin {"mark", "exchange"}, UNCHANGED <<redeemed, answered>>
  PROVE  AnswerInv'
  <1>1. req' = [req EXCEPT ![r] = q] /\ req \in [Requests -> Local]
    BY LocalType DEF Become, LoginInv
  <1>2. \A k \in Requests : k # r => req'[k] = req[k]
    BY <1>1
  <1>3. req'[r].pc \notin {"mark", "exchange"}
    BY <1>1
  <1> QED
    BY <1>2, <1>3 DEF AnswerInv, Bound, In

LEMMA AnswerStep == LoginInv /\ AnswerInv /\ [Next]_vars => AnswerInv'
  <1> SUFFICES ASSUME LoginInv, AnswerInv, [Next]_vars PROVE AnswerInv'
    OBVIOUS
  <1>1. req \in [Requests -> Local]
    BY LocalType DEF LoginInv
  <1>2. ASSUME NEW r \in Requests, SignInStep(r) \/ Respond(r) PROVE AnswerInv'
    <2>1. CASE \/ \E route \in {"OIDC", "Header"}, t \in BOOLEAN : Visit(r, route, t)
               \/ \E t \in BOOLEAN, l \in Logins, c \in Code : Callback(r, t, l, c)
               \/ StartLogin(r) \/ \E u \in Users : HeaderLogin(r, u)
      BY <2>1, OtherBound
      DEF Visit, Callback, StartLogin, HeaderLogin, Idle
    <2>2. CASE ExchangeFails(r) \/ Deliver(r) \/ Lose(r) \/ Respond(r)
      BY <2>2, OtherBound DEF ExchangeFails, Deliver, Lose, Respond, Refuse, Idle
    <2>3. CASE Check(r)
      <3>1. UNCHANGED <<redeemed, answered>>
        BY <2>3 DEF Check
      <3>2. CASE Refuse(r)
        BY <3>1, <3>2, OtherBound DEF Refuse, Idle
      <3>3. CASE /\ req[r].session.tx = req[r].state
                 /\ req' = [req EXCEPT ![r].pc = "mark", ![r].checked = now]
        <4>1. /\ req'[r].pc = "mark" /\ req'[r].state = req[r].state
              /\ req'[r].session = req[r].session
              /\ \A k \in Requests : k # r => req'[k] = req[k]
          BY <1>1, <3>3 DEF Local
        <4>2. ASSUME NEW k \in Requests PROVE Bound(req[k])'
          <5>1. CASE k = r
            <6>1. req'[k].pc = "mark" /\ req'[k].session.tx = req'[k].state
              BY <3>3, <4>1, <5>1
            <6> QED
              BY <6>1 DEF Bound
          <5>2. CASE k # r
            <6>1. req'[k] = req[k] /\ Bound(req[k])
              BY <4>1, <5>2 DEF AnswerInv
            <6> QED
              BY <3>1, <6>1 DEF Bound
          <5> QED
            BY <5>1, <5>2
        <4>3. \A k \in Requests : In(k, "exchange")' => k # r /\ In(k, "exchange")
          BY <4>1 DEF In
        <4> QED
          BY <3>1, <4>1, <4>2, <4>3 DEF AnswerInv
      <3> QED
        BY <2>3, <3>2, <3>3 DEF Check
    <2>4. CASE MarkConsumed(r)
      <3>1. CASE Refuse(r) /\ UNCHANGED redeemed
        BY <2>4, <3>1, OtherBound DEF MarkConsumed, Refuse, Idle
      <3>2. CASE ~(Refuse(r) /\ UNCHANGED redeemed)
        <4>1. /\ redeemed' = redeemed \union {req[r].state} /\ answered' = answered
              /\ req[r].pc = "mark"
              /\ Become(r, [Idle EXCEPT !.pc = "exchange", !.state = req[r].state,
                              !.code = req[r].code, !.session.tx = req[r].session.tx,
                              !.out = [req[r].session EXCEPT !.tx = 0]])
          BY <2>4, <3>2 DEF MarkConsumed, In
        <4>2. /\ req'[r].pc = "exchange" /\ req'[r].state = req[r].state
              /\ req'[r].session.tx = req[r].session.tx
              /\ \A k \in Requests : k # r => req'[k] = req[k]
          BY <1>1, <4>1 DEF Become, Idle, NoSession
        <4>3. req[r].state \notin redeemed
          BY <2>4, <4>2, MarkInv DEF In
        <4> QED
          BY <4>1, <4>2, <4>3 DEF AnswerInv, Bound, In
      <3> QED
        BY <3>1, <3>2
    <2>5. CASE Exchange(r)
      <3>1. /\ req[r].pc = "exchange" /\ req[r].code.login = req[r].state
            /\ answered' = answered \union {req[r].state} /\ redeemed' = redeemed
        BY <2>5 DEF Exchange, Verified, AnswerInv, Bound, In
      <3>2. req'[r].pc = "respond" /\ \A k \in Requests : k # r => req'[k] = req[k]
        BY <1>1, <2>5 DEF Exchange, Become, Idle
      <3> QED
        BY <3>1, <3>2 DEF AnswerInv, Bound, In
    <2> QED
      BY <1>2, <2>1, <2>2, <2>3, <2>4, <2>5 DEF SignInStep
  <1>3. CASE StartElsewhere \/ Tick \/ UNCHANGED vars
    BY <1>3 DEF StartElsewhere, Tick, vars, AnswerInv, Bound, In
  <1>4. CASE Restart
    BY <1>4, IdleType DEF Restart, AnswerInv, Bound, In
  <1> QED
    BY <1>2, <1>3, <1>4 DEF Next

\* A process signs someone in at most once for each login.
THEOREM LoginAnsweredOnce == Spec => AnsweredOnce
  <1>1. AnswerInv /\ [Next]_vars =>
          [\A r \in Requests : Exchange(r) => req[r].code.login \notin answered]_vars
    BY DEF AnswerInv, Bound, In, Exchange, Verified
  <1> QED
    BY <1>1, LoginInit, LoginStep, AnswerInit, AnswerStep, PTL DEF Spec, AnsweredOnce

\* A session of this browser holds a login that it started, or an identity from one.
Mine(s) ==
  /\ s.tx \in mine \union {0}
  /\ s.id # None /\ s.id.accessToken # None => s.id.accessToken.login \in mine

Mines(q) == Mine(q.session) /\ (q.out # None => Mine(q.out))

MineInv == Mine(jar) /\ \A r \in Requests : Mines(req[r])

LEMMA IdleMine == Mine(NoSession) /\ Mines(Idle)
  BY DEF Mines, Mine, Idle, NoSession

LEMMA OneMine ==
  ASSUME LoginInv, MineInv, NEW r \in Requests, NEW q, Mines(q), Become(r, q), Mine(jar'),
         mine' = mine
  PROVE  MineInv'
  <1>1. \A k \in Requests : Mines(req'[k])
    BY LocalType DEF LoginInv, MineInv, Become
  <1> QED
    BY <1>1 DEF MineInv, Mines, Mine

LEMMA MineStep == LoginInv /\ MineInv /\ [Next]_vars => MineInv'
  <1> SUFFICES ASSUME LoginInv, MineInv, [Next]_vars PROVE MineInv'
    OBVIOUS
  <1>1. /\ Mine(jar) /\ jar \in Session
        /\ \A r \in Requests : Mines(req[r]) /\ req[r] \in Local
    BY LocalType DEF MineInv, LoginInv, TypeOK
  <1>2. ASSUME NEW r \in Requests, NEW q, Mines(q), Become(r, q), UNCHANGED <<jar, mine>>
        PROVE  MineInv'
    BY <1>1, <1>2, OneMine
  <1>3. ASSUME NEW r \in Requests, SignInStep(r) \/ Respond(r) PROVE MineInv'
    <2>1. ASSUME NEW route \in {"OIDC", "Header"}, NEW t \in BOOLEAN, Visit(r, route, t)
          PROVE MineInv'
      <3>1. Mines([Idle EXCEPT !.pc = "handler", !.route = route, !.id = jar.id])
        BY IdleMine DEF Mines, Idle
      <3> QED
        BY <1>2, <2>1, <3>1 DEF Visit
    <2>2. ASSUME NEW t \in BOOLEAN, NEW l \in Logins, NEW c \in Code, Callback(r, t, l, c)
          PROVE MineInv'
      <3>1. [jar EXCEPT !.age = 0].id = jar.id /\ [jar EXCEPT !.age = 0].tx = jar.tx
        BY <1>1 DEF Session
      <3>2. Mine([jar EXCEPT !.age = 0])
        BY <1>1, <3>1 DEF Mine
      <3>3. Mines([Idle EXCEPT !.pc = "check", !.state = l, !.code = c,
                               !.session = [jar EXCEPT !.age = 0]])
        BY <3>2 DEF Mines, Idle
      <3> QED
        BY <1>2, <2>2, <3>3 DEF Callback
    <2>3. CASE StartLogin(r)
      <3> DEFINE q == [Idle EXCEPT !.pc = "respond", !.out = Saved(started + 1, None)]
      <3>1. mine' = mine \union {started + 1} /\ jar' = jar /\ Become(r, q)
        BY <2>3 DEF StartLogin
      <3>2. q.session = NoSession /\ q.out.tx = started + 1 /\ q.out.id = None
        BY DEF Idle, Saved
      <3> HIDE DEF q
      <3>3. \A k \in Requests : req'[k] = IF k = r THEN q ELSE req[k]
        BY <3>1, LocalType DEF Become, LoginInv
      <3>4. ASSUME NEW k \in Requests PROVE Mines(req[k])'
        <4>1. CASE k = r
          <5>1. req'[k] = q BY <3>3, <4>1
          <5> QED BY <5>1, <3>1, <3>2 DEF Mines, Mine, NoSession
        <4>2. CASE k # r
          <5>1. req'[k] = req[k] /\ Mines(req[k]) BY <1>1, <3>3, <4>2
          <5> QED BY <5>1, <3>1 DEF Mines, Mine
        <4> QED BY <4>1, <4>2
      <3> QED
        BY <1>1, <3>1, <3>4 DEF MineInv, Mine
    <2>4. ASSUME NEW u \in Users, HeaderLogin(r, u) PROVE MineInv'
      <3>1. Mine(Saved(jar.tx, HeaderIdentity(u)))
        BY <1>1 DEF Mine, Saved, HeaderIdentity
      <3>2. Mines([Idle EXCEPT !.pc = "handler", !.route = "Header", !.id = HeaderIdentity(u),
                               !.out = Saved(jar.tx, HeaderIdentity(u))])
        BY <3>1, IdleMine DEF Mines, Idle
      <3> QED
        BY <1>2, <2>4, <3>2 DEF HeaderLogin
    <2>5. CASE Check(r)
      <3>1. Mines([req[r] EXCEPT !.pc = "mark", !.checked = now])
        BY <1>1 DEF Mines, Local
      <3>2. Become(r, [req[r] EXCEPT !.pc = "mark", !.checked = now]) \/ Refuse(r)
        BY <2>5, LocalType DEF Check, Become, LoginInv
      <3> QED
        BY <1>2, <2>5, <3>1, <3>2, IdleMine DEF Check, Refuse
    <2>6. CASE MarkConsumed(r)
      <3>1. /\ Mine(req[r].session) /\ req[r].session \in Session
        BY <1>1 DEF Mines, Local
      <3>2. Mine([req[r].session EXCEPT !.tx = 0])
        BY <3>1 DEF Mine, Session
      <3>3. Mine([NoSession EXCEPT !.tx = req[r].session.tx])
        BY <3>1 DEF Mine, NoSession
      <3>4. Mines([Idle EXCEPT !.pc = "exchange", !.state = req[r].state, !.code = req[r].code,
                               !.session.tx = req[r].session.tx,
                               !.out = [req[r].session EXCEPT !.tx = 0]])
        BY <3>2, <3>3 DEF Mines, Idle
      <3> QED
        BY <1>2, <2>6, <3>4, IdleMine DEF MarkConsumed, Refuse
    <2>7. CASE Exchange(r)
      <3> DEFINE i == ProviderIdentity(req[r].code)
      <3>1. req[r].code.login \in mine
        <4>1. req[r].code \in Code /\ req[r].code.login = req[r].session.tx
          BY <2>7 DEF Exchange, Verified, In, LoginInv, Callbacks, Sound
        <4>2. req[r].session.tx # 0
          BY <4>1 DEF Code, Logins
        <4> QED
          BY <1>1, <4>1, <4>2 DEF Mines, Mine
      <3>2. Mine(Saved(0, i))
        BY <3>1 DEF Mine, Saved, ProviderIdentity
      <3> HIDE DEF i
      <3>3. Mines([Idle EXCEPT !.pc = "respond", !.out = Saved(0, i)])
        BY <3>2, IdleMine DEF Mines, Idle
      <3> QED
        BY <1>2, <2>7, <3>3 DEF Exchange, i
    <2>8. CASE ExchangeFails(r) \/ Respond(r)
      <3>1. Mines([Idle EXCEPT !.pc = "respond", !.out = req[r].out])
        BY <1>1, IdleMine DEF Mines, Idle
      <3> QED
        BY <1>2, <2>8, <3>1 DEF ExchangeFails, Respond
    <2>9. CASE Deliver(r)
      <3>1. Mine(jar')
        <4>1. CASE req[r].out = None
          BY <1>1, <2>9, <4>1 DEF Deliver
        <4>2. CASE req[r].out # None
          <5>1. req[r].out \in Session /\ Mine(req[r].out)
            BY <1>1, <4>2 DEF Local, Mines
          <5>2. jar'.id = req[r].out.id /\ jar'.tx = req[r].out.tx
            BY <2>9, <4>2, <5>1 DEF Deliver, Session
          <5> QED
            BY <5>1, <5>2 DEF Mine
        <4> QED
          BY <4>1, <4>2
      <3> QED
        BY <2>9, <3>1, OneMine, IdleMine DEF Deliver, Refuse
    <2>10. CASE Lose(r)
      BY <1>2, <2>10, IdleMine DEF Lose, Refuse
    <2> QED
      BY <1>3, <2>1, <2>2, <2>3, <2>4, <2>5, <2>6, <2>7, <2>8, <2>9, <2>10 DEF SignInStep
  <1>4. CASE StartElsewhere \/ Tick \/ UNCHANGED vars
    <2>1. UNCHANGED <<mine, req>> /\ jar' \in {jar, NoSession}
      BY <1>4 DEF StartElsewhere, Tick, vars
    <2> QED
      BY <1>1, <2>1, IdleMine DEF MineInv, Mines, Mine
  <1>5. CASE Restart
    BY <1>1, <1>5, IdleMine DEF Restart, MineInv, Mines, Mine
  <1> QED
    BY <1>3, <1>4, <1>5 DEF Next

\* Whoever the browser is signed in as by the provider has answered a login that this
\* browser started.
THEOREM SignsInOwnAnswer == Spec => []OwnAnswer
  <1>1. Init => MineInv
    BY IdleMine DEF Init, MineInv
  <1>2. MineInv => OwnAnswer
    BY DEF MineInv, Mines, Mine, OwnAnswer
  <1> QED
    BY <1>1, <1>2, LoginInit, LoginStep, MineStep, PTL DEF Spec

-----------------------------------------------------------------------------
(* Downloads                                                                *)

LEMMA DownloadSimulates == [DownloadNext]_<<vars, downloadVars>> => [Next]_vars
  BY DEF DownloadNext, DownloadStep, GetEntry, BuildEntry, HandleDownload, GeneratePAAToken,
         Answer, ChangeEntry, RestartDownloads, Next, vars

\* Downloads do nothing that a login does not allow for: their specification
\* implements WebLogin's.
THEOREM DownloadsImplementLogin == DownloadSpec => Spec
  BY DownloadSimulates, PTL DEF DownloadSpec, DownloadInit, Spec

\* A request has read an entry or made a token only while its handler runs.
Granted(r) ==
  /\ ~In(r, "handler") => read[r] = None /\ token[r] = None
  /\ read[r] # None =>
       read[r] \in seen[r] /\ Visible(read[r], req[r].id.groups) /\ req[r].route = "OIDC"
  /\ token[r] # None => token[r].user = token[r].accessToken.user
  /\ token[r] # None /\ req[r].route = "OIDC" =>
       \E v \in seen[r] : v.host = token[r].host /\ Visible(v, req[r].id.groups)

DownloadInv == DownloadTypeOK /\ \A r \in Requests : Granted(r)

LEMMA HandlerStays ==
  ASSUME LoginInv, NEW k \in Requests, SignInStep(k), NEW r \in Requests, In(r, "handler")
  PROVE  req'[r] = req[r]
  <1>1. req \in [Requests -> Local]
    BY LocalType DEF LoginInv
  <1>2. ~In(k, "handler")
    BY DEF SignInStep, In, Visit, StartLogin, HeaderLogin, Callback, Check, MarkConsumed,
       Exchange, ExchangeFails, Deliver, Lose
  <1>3. \E q : Become(k, q)
    <2>1. CASE Check(k)
      BY <1>1, <2>1 DEF Check, Refuse, Become
    <2>2. CASE MarkConsumed(k)
      BY <2>2 DEF MarkConsumed, Refuse
    <2> QED
      BY <2>1, <2>2 DEF SignInStep, Visit, StartLogin, HeaderLogin, Callback,
         Exchange, ExchangeFails, Deliver, Lose, Refuse
  <1> QED
    BY <1>1, <1>2, <1>3 DEF Become, In

LEMMA DownloadStepInv ==
  LoginInv /\ OwnerInv /\ DownloadInv /\ [DownloadNext]_<<vars, downloadVars>> => DownloadInv'
  <1> SUFFICES ASSUME LoginInv, OwnerInv, DownloadInv, [DownloadNext]_<<vars, downloadVars>>
               PROVE  DownloadInv'
    OBVIOUS
  <1>1. /\ read \in [Requests -> Version \union {None}]
        /\ token \in [Requests -> Token \union {None}]
        /\ seen \in [Requests -> SUBSET Version] /\ req \in [Requests -> Local]
        /\ \A r \in Requests : Granted(r)
    BY LocalType DEF DownloadInv, DownloadTypeOK, LoginInv
  <1>2. ASSUME NEW k \in Requests, SignInStep(k), UNCHANGED downloadVars PROVE DownloadInv'
    <2>1. DownloadTypeOK'
      BY <1>2 DEF DownloadInv, DownloadTypeOK, downloadVars
    <2>2. ASSUME NEW r \in Requests PROVE Granted(r)'
      BY <1>1, <1>2, HandlerStays DEF Granted, downloadVars, In
    <2> QED
      BY <2>1, <2>2 DEF DownloadInv
  <1>3. CASE (StartElsewhere \/ Tick \/ UNCHANGED vars) /\ UNCHANGED downloadVars
    BY <1>1, <1>3 DEF DownloadInv, DownloadTypeOK, downloadVars, StartElsewhere, Tick, vars, Granted, In
  <1>4. ASSUME NEW k \in Requests, NEW v \in Version, GetEntry(k, v) PROVE DownloadInv'
    <2>1. /\ read' = [read EXCEPT ![k] = v] /\ token' = token /\ req' = req
          /\ seen' = [Stored(v) EXCEPT ![k] = {v}] /\ In(k, "handler") /\ token[k] = None
          /\ Visible(v, req[k].id.groups) /\ req[k].route = "OIDC"
      BY <1>4 DEF GetEntry, Busy, vars
    <2>2. Stored(v) \in [Requests -> SUBSET Version]
          /\ \A r \in Requests : seen[r] \subseteq Stored(v)[r]
      BY <1>1 DEF Stored
    <2>3. DownloadTypeOK'
      BY <1>1, <2>1, <2>2 DEF DownloadTypeOK
    <2>4. ASSUME NEW r \in Requests PROVE Granted(r)'
      <3>1. CASE r = k
        BY <1>1, <2>1, <2>2, <3>1 DEF Granted, In, Visible
      <3>2. CASE r # k
        BY <1>1, <2>1, <2>2, <3>2 DEF Granted, In, Visible
      <3> QED
        BY <3>1, <3>2
    <2> QED
      BY <2>3, <2>4 DEF DownloadInv
  <1>5. ASSUME NEW k \in Requests, NEW h \in Hosts, Busy(k), GeneratePAAToken(k, h),
               req[k].route = "OIDC" =>
                 \E v \in seen[k] : v.host = h /\ Visible(v, req[k].id.groups)
        PROVE  DownloadInv'
    <2>1. req[k].id \in Identity /\ Owned(req[k].id)
      BY <1>5 DEF LoginInv, Callbacks, Sound, OwnerInv, Honest, Busy, In
    <2> DEFINE t == [user |-> req[k].id.user, accessToken |-> req[k].id.accessToken, host |-> h]
    <2>2. t \in Token /\ t.user = t.accessToken.user /\ t.host = h
      <3>1. /\ req[k].id.user \in Users /\ req[k].id.accessToken \in Code
            /\ req[k].id.accessToken # None
        BY <1>5, <2>1 DEF GeneratePAAToken, Identity
      <3>2. req[k].id.accessToken.user = req[k].id.user
        BY <2>1, <3>1, NoneAssumption DEF Owned
      <3> QED
        BY <3>1, <3>2 DEF Token
    <2>3. token' = [token EXCEPT ![k] = t] /\ read' = read /\ seen' = seen /\ req' = req
      BY <1>5 DEF GeneratePAAToken, vars
    <2> HIDE DEF t
    <2>4. DownloadTypeOK'
      BY <1>1, <2>2, <2>3 DEF DownloadTypeOK
    <2>5. ASSUME NEW r \in Requests PROVE Granted(r)'
      BY <1>1, <1>5, <2>2, <2>3 DEF Granted, In, Busy, Visible
    <2> QED
      BY <2>4, <2>5 DEF DownloadInv
  <1>6. ASSUME NEW k \in Requests, BuildEntry(k) PROVE DownloadInv'
    BY <1>1, <1>5, <1>6 DEF BuildEntry, Granted, Version
  <1>7. ASSUME NEW k \in Requests, NEW h \in ConfiguredHosts, HandleDownload(k, h)
        PROVE  DownloadInv'
    BY <1>5, <1>7, DownloadAssumption DEF HandleDownload
  <1>8. ASSUME NEW k \in Requests, Answer(k) PROVE DownloadInv'
    <2>1. /\ read' = [read EXCEPT ![k] = None] /\ token' = [token EXCEPT ![k] = None]
          /\ seen' = [seen EXCEPT ![k] = {}]
          /\ \A r \in Requests : r # k => req'[r] = req[r]
          /\ req'[k].pc = "respond"
      BY <1>1, <1>8 DEF Answer, Respond, Become, Idle
    <2>2. DownloadTypeOK'
      BY <1>1, <2>1 DEF DownloadTypeOK
    <2>3. ASSUME NEW r \in Requests PROVE Granted(r)'
      <3>1. CASE r = k
        BY <1>1, <2>1, <3>1 DEF Granted, In
      <3>2. CASE r # k
        BY <1>1, <2>1, <3>2 DEF Granted, In
      <3> QED
        BY <3>1, <3>2
    <2> QED
      BY <2>2, <2>3 DEF DownloadInv
  <1>9. ASSUME NEW v \in Version, ChangeEntry(v) PROVE DownloadInv'
    <2>1. /\ Stored(v) \in [Requests -> SUBSET Version] /\ seen' = Stored(v)
          /\ \A r \in Requests : seen[r] \subseteq Stored(v)[r]
          /\ read' = read /\ token' = token /\ req' = req
      BY <1>1, <1>9 DEF Stored, ChangeEntry, vars
    <2>2. DownloadTypeOK'
      BY <1>1, <2>1 DEF DownloadTypeOK
    <2>3. ASSUME NEW r \in Requests PROVE Granted(r)'
      BY <1>1, <2>1 DEF Granted, In, Visible
    <2> QED
      BY <2>2, <2>3 DEF DownloadInv
  <1>10. CASE RestartDownloads
    BY <1>10 DEF RestartDownloads, Nothing, DownloadInv, DownloadTypeOK, Granted
  <1> QED
    BY <1>2, <1>3, <1>4, <1>6, <1>7, <1>8, <1>9, <1>10
    DEF DownloadNext, DownloadStep, downloadVars

LEMMA DownloadInvAlways == DownloadSpec => []DownloadInv
  <1>1. DownloadInit => LoginInv /\ OwnerInv /\ DownloadInv
    BY LoginInit, OwnerInit DEF DownloadInit, Nothing, DownloadInv, DownloadTypeOK, Granted
  <1>2. LoginInv /\ OwnerInv /\ DownloadInv /\ [DownloadNext]_<<vars, downloadVars>>
          => (LoginInv /\ OwnerInv /\ DownloadInv)'
    BY DownloadStepInv, DownloadSimulates, LoginStep, OwnerStep
  <1> QED
    BY <1>1, <1>2, PTL DEF DownloadSpec

\* What a download request has read, seen and generated keeps its type.
THEOREM DownloadTypeCorrect == DownloadSpec => []DownloadTypeOK
  <1>1. DownloadInv => DownloadTypeOK
    BY DEF DownloadInv
  <1> QED
    BY <1>1, DownloadInvAlways, PTL

\* The name in a token is that of the owner of its access token.
THEOREM TokenNamesItsOwner == DownloadSpec => []TokenOwner
  <1>1. DownloadInv => TokenOwner
    BY DEF DownloadInv, Granted, TokenOwner
  <1> QED
    BY <1>1, DownloadInvAlways, PTL

\* The token in the file of a dashboard entry names a host of a version of the entry
\* that was in the store while the request ran and was open to the user.
THEOREM TokensForVisibleHosts == DownloadSpec => []TokenForVisibleHost
  <1>1. DownloadInv => TokenForVisibleHost
    BY DEF DownloadInv, Granted, TokenForVisibleHost
  <1> QED
    BY <1>1, DownloadInvAlways, PTL

=============================================================================
