------------------------------ MODULE AuthProofs ------------------------------
(***************************************************************************)
(* Proofs about the direct-auth users and the rdpgw-auth helper.            *)
(*                                                                          *)
(* Everything is proved of any number of administrators.  The store's mutex *)
(* is not held from a change of the users to the rename of the helper YAML, *)
(* so what relates the two files, and the YAML to the helper's map, is said *)
(* with the history that tells when two regenerations overlapped: the run   *)
(* auth_users_race shows what happens then.                                 *)
(***************************************************************************)
EXTENDS AuthHelper, TLAPS

-----------------------------------------------------------------------------
(* Types                                                                    *)

\* A request that is being handled has the locals that its next step reads.
WorkFits(x) ==
  /\ x.pc \in {"get", "put", "delete"} => x.req \in Request
  /\ x.pc = "put" /\ x.req.kind = "create" => x.req.password # None
  /\ x.pc = "put" /\ x.req.kind # "create" => x.user \in User
  /\ x.pc \in {"temp", "rename"} => x.listing \in Listing

UsersInv == TypeOK /\ \A w \in Writers : WorkFits(work[w])

-----------------------------------------------------------------------------
(* The YAML and the users                                                   *)

InFile(w) == work[w].pc \in {"temp", "rename"}

\* No request is handled before the server has started.
Started ==
  /\ server = "down" => \A w \in Writers : At(w, "idle")
  /\ server = "starting" => \A a \in Admins : At(a, "idle")
  /\ ~At(Boot, "idle") => server = "starting"

\* While no listing overtook another there is at most one on its way to the file, and
\* either a new one is due, or it is the list of the users there are, or the YAML is.
Regenerated ==
  /\ ~raced => \A v, w \in Writers : InFile(v) /\ InFile(w) => v = w
  /\ ~raced /\ ~missed /\ server # "down" =>
       \/ \E w \in Writers : At(w, "list")
       \/ \E w \in Writers : InFile(w) /\ work[w].listing = Enabled(users)
       \/ (\A w \in Writers : ~InFile(w)) /\ yaml.users = Enabled(users)

-----------------------------------------------------------------------------
(* The YAML and the helper's map                                            *)

\* Each file that waits to be renamed has a modification time of its own.
Stamped ==
  /\ yaml.mtime <= latest /\ latest <= now
  /\ \A w \in Writers : At(w, "rename") => work[w].stamp <= now /\ work[w].stamp # latest
  /\ \A v, w \in Writers :
       At(v, "rename") /\ At(w, "rename") /\ work[v].stamp = work[w].stamp => v = w

\* The look-up has the result of a stat.
Compares(x) == x.pc \in {"check", "read", "commit"}

\* A look-up that has seen the latest YAML need not load it when the map says so, and
\* the file that it has read is not older than its beginning, or than a latest YAML.
Current(x) ==
  /\ x.since <= yaml.seq
  /\ Compares(x) => x.stat <= latest
  /\ Compares(x) /\ ~x.behind /\ x.stat <= modTime => x.since <= cfg.seq
  /\ x.pc = "commit" => x.since <= x.file.seq
  /\ x.pc = "commit" /\ x.stat = latest /\ yaml.mtime = latest => yaml.seq <= x.file.seq
  /\ x.pc = "answer" /\ ~x.failed /\ ~x.behind => x.since <= cfg.seq

\* What y may put into the map while x is running is not too old for x.
Suits(x, y) ==
  y.pc = "commit" /\ ~x.behind =>
    /\ Compares(x) /\ x.stat <= y.stat => x.since <= y.file.seq
    /\ x.pc = "answer" /\ ~x.failed /\ modTime < y.stat => x.since <= y.file.seq

Loaded ==
  /\ modTime <= latest
  /\ modTime = latest /\ yaml.mtime = latest => yaml.seq <= cfg.seq

Fresh ==
  /\ Stamped /\ Loaded
  /\ \A k \in Lookups : Current(lookup[k])
  /\ \A j, k \in Lookups : Suits(lookup[j], lookup[k])

-----------------------------------------------------------------------------
(* NTLM                                                                     *)

\* Challenges are numbered as they are issued, and no two contexts share one.
Issued ==
  /\ spent \subseteq 1..issued
  /\ \A c \in Contexts : challenge[c] <= issued
  /\ \A c \in Contexts : Unused(c) => challenge[c] = 0
  /\ \A c, d \in Contexts : challenge[c] = challenge[d] /\ challenge[c] # 0 => c = d

\* A context in the cache belongs to one session and has no spent challenge.
CacheSound ==
  /\ \A s, t \in Names :
       contextCache[s] = contextCache[t] /\ contextCache[s] # None => s = t
  /\ \A s \in Names : contextCache[s] # None => challenge[contextCache[s]] \notin spent

\* A call that is served knows its session, and its context once it has one, which
\* the cache holds for no other session; an answer is looked up only under a challenge.
CallFits(x) ==
  /\ x.pc \in {"idle", "context", "set"} => x.context = None
  /\ x.pc # "idle" => x.session \in Names
  /\ x.pc \in {"message", "lookup", "process", "remove", "accept"} => x.context \in Contexts
  /\ x.pc \in {"lookup", "process", "accept"} => x.challenge # 0
  /\ x.challenge <= issued
  /\ x.context # None => \A s \in Names : contextCache[s] = x.context => s = x.session

\* A call that replays a spent challenge works with a context that has another, and an
\* accepted one with the only context that has its challenge.
CallFresh(x) ==
  /\ x.replay => /\ x.challenge \in spent
                 /\ x.context # None => challenge[x.context] # x.challenge
  /\ x.pc = "accept" =>
       /\ ~x.replay
       /\ \A c \in Contexts : challenge[c] = x.challenge => c = x.context

CallSound(x) == CallFits(x) /\ CallFresh(x)

NtlmInv ==
  NtlmTypeOK /\ Issued /\ CacheSound /\ \A k \in Lookups : CallSound(call[k])

-----------------------------------------------------------------------------
(* AuthUsers: types                                                         *)

Worker ==
  [pc : {"idle", "get", "put", "delete", "list", "temp", "rename"},
   req : Request \union {None}, user : User \union {None},
   listing : Listing \union {None}, stamp : Times]

Asker ==
  [pc : {"idle", "stat", "check", "load", "read", "commit", "answer"},
   stat : Times, file : File, since : Nat, behind : BOOLEAN, failed : BOOLEAN]

LEMMA AuthConstants ==
  /\ None \notin Passwords /\ Boot \notin Admins /\ MaxWrites \in Nat
  /\ 0 \in Times /\ Boot \in Writers /\ \A a \in Admins : a \in Writers /\ a # Boot
  BY AuthUsersAssumption DEF Times, Writers

LEMMA UsersTypes ==
  TypeOK <=>
    /\ server \in {"down", "starting", "up"} /\ missed \in BOOLEAN /\ raced \in BOOLEAN
    /\ users \in [Names -> User \union {None}]
    /\ yaml \in File /\ now \in Times /\ latest \in Times /\ cfg \in File /\ modTime \in Times
    /\ work \in [Writers -> Worker] /\ lookup \in [Lookups -> Asker]
  BY DEF TypeOK, Worker, Asker

LEMMA EnabledType ==
  ASSUME NEW us \in [Names -> User \union {None}] PROVE Enabled(us) \in Listing
  BY DEF Enabled, Listing, User

LEMMA RestTypes ==
  /\ NoFile \in File /\ NoLookup \in Asker
  /\ Idle \in Worker /\ WorkFits(Idle)
  /\ [Idle EXCEPT !.pc = "list"] \in Worker /\ WorkFits([Idle EXCEPT !.pc = "list"])
  <1>1. NoFile \in File
    BY AuthConstants DEF NoFile, File, Listing
  <1>2. NoLookup \in Asker
    BY <1>1, AuthConstants DEF NoLookup, Asker
  <1> QED
    BY <1>1, <1>2, AuthConstants DEF Idle, Worker, WorkFits

\* A step of one writer that leaves the helper alone.
LEMMA OneWriterStep ==
  ASSUME UsersInv, NEW w \in Writers, NEW x \in Worker, WorkFits(x),
         work' = [work EXCEPT ![w] = x],
         server' \in {"down", "starting", "up"}, missed' \in BOOLEAN, raced' \in BOOLEAN,
         users' \in [Names -> User \union {None}], yaml' \in File, now' \in Times,
         latest' \in Times,
         UNCHANGED helperVars
  PROVE  UsersInv'
  <1>1. work \in [Writers -> Worker]
    BY UsersTypes DEF UsersInv
  <1>2. TypeOK'
    BY <1>1 DEF helperVars, TypeOK, UsersInv, Worker
  <1>3. ASSUME NEW v \in Writers PROVE WorkFits(work[v])'
    <2>1. WorkFits(work'[v])
      BY <1>1 DEF UsersInv
    <2> QED
      BY <2>1 DEF WorkFits
  <1> QED
    BY <1>2, <1>3 DEF UsersInv

LEMMA HandleTyped ==
  ASSUME UsersInv, NEW a \in Admins, Handle(a) PROVE UsersInv'
  <1> DEFINE x == work[a]
  <1>1. /\ a \in Writers /\ x \in Worker /\ WorkFits(x) /\ work \in [Writers -> Worker]
        /\ server \in {"down", "starting", "up"} /\ missed \in BOOLEAN /\ raced \in BOOLEAN
        /\ users \in [Names -> User \union {None}] /\ yaml \in File /\ now \in Times
        /\ latest \in Times
    BY AuthConstants, UsersTypes DEF UsersInv
  <1>2. ASSUME NEW r \in Request, Submit(a, r) PROVE UsersInv'
    <2> DEFINE y == [x EXCEPT !.req = r, !.pc = IF r.kind = "create" THEN "put" ELSE "get"]
    <2>1. y \in Worker /\ WorkFits(y)
      BY <1>1, <1>2 DEF Submit, Worker, WorkFits, Request
    <2>2. work' = [work EXCEPT ![a] = y]
      BY <1>1, <1>2 DEF Submit, Worker
    <2> QED
      BY <1>1, <1>2, <2>1, <2>2, OneWriterStep DEF Submit
  <1>3. CASE Get(a)
    <2>1. x.req \in Request /\ users[x.req.name] \in User \union {None}
      BY <1>1, <1>3 DEF Get, At, WorkFits, Request
    <2>2. CASE users[x.req.name] = None
      BY <1>1, <1>3, <2>2, RestTypes, OneWriterStep DEF Get
    <2>3. CASE users[x.req.name] # None
      <3> DEFINE y == [x EXCEPT !.user = users[x.req.name],
                                !.pc = IF x.req.kind = "update" THEN "put" ELSE "delete"]
      <3>1. y \in Worker /\ WorkFits(y)
        BY <1>1, <1>3, <2>1, <2>3 DEF Get, At, Worker, WorkFits, Request
      <3>2. work' = [work EXCEPT ![a] = y]
        BY <1>1, <1>3, <2>3 DEF Get, Worker
      <3> QED
        BY <1>1, <1>3, <3>1, <3>2, OneWriterStep DEF Get
    <2> QED
      BY <2>2, <2>3
  <1>4. CASE Put(a)
    <2>1. x.req \in Request /\ x.req.name \in Names
      BY <1>1, <1>4 DEF Put, At, WorkFits, Request
    <2>2. Changed(x.req, x.user) \in User
      BY <1>1, <1>4, <2>1 DEF Put, At, WorkFits, Request, Changed, User
    <2>3. users' \in [Names -> User \union {None}]
      BY <1>1, <1>4, <2>1, <2>2 DEF Put
    <2> QED
      BY <1>1, <1>4, <2>3, RestTypes, OneWriterStep DEF Put
  <1>5. CASE Delete(a)
    BY <1>1, <1>5, RestTypes, OneWriterStep DEF Delete
  <1> QED
    BY <1>2, <1>3, <1>4, <1>5 DEF Handle

LEMMA RegenerateTyped ==
  ASSUME UsersInv, NEW w \in Writers, Regenerate(w) PROVE UsersInv'
  <1> DEFINE x == work[w]
  <1>1. /\ x \in Worker /\ WorkFits(x) /\ work \in [Writers -> Worker]
        /\ server \in {"down", "starting", "up"} /\ missed \in BOOLEAN /\ raced \in BOOLEAN
        /\ users \in [Names -> User \union {None}] /\ yaml \in File /\ now \in Times
        /\ latest \in Times
    BY UsersTypes DEF UsersInv
  <1>2. CASE List(w)
    <2> DEFINE y == [x EXCEPT !.pc = "temp", !.listing = Enabled(users)]
    <2>1. y \in Worker /\ WorkFits(y)
      BY <1>1, EnabledType DEF Worker, WorkFits
    <2>2. work' = [work EXCEPT ![w] = y]
      BY <1>1, <1>2 DEF List, Worker
    <2> QED
      BY <1>1, <1>2, <2>1, <2>2, OneWriterStep DEF List
  <1>3. CASE WriteTemp(w)
    <2> DEFINE y == [x EXCEPT !.pc = "rename", !.stamp = now + 1]
    <2>1. now + 1 \in Times
      BY <1>1, <1>3, AuthConstants DEF WriteTemp, Times
    <2>2. y \in Worker /\ WorkFits(y)
      BY <1>1, <1>3, <2>1 DEF WriteTemp, At, Worker, WorkFits
    <2>3. work' = [work EXCEPT ![w] = y]
      BY <1>1, <1>3 DEF WriteTemp, Worker
    <2> QED
      BY <1>1, <1>3, <2>1, <2>2, <2>3, OneWriterStep DEF WriteTemp
  <1>4. CASE Rename(w)
    <2>1. yaml' \in File /\ latest' \in Times
      BY <1>1, <1>4 DEF Rename, At, File, Worker, WorkFits
    <2> QED
      BY <1>1, <1>4, <2>1, RestTypes, OneWriterStep DEF Rename
  <1>5. CASE Fail(w)
    <2>1. server' \in {"down", "starting", "up"} /\ missed' \in BOOLEAN
      BY <1>1, <1>5 DEF Fail
    <2> QED
      BY <1>1, <1>5, <2>1, RestTypes, OneWriterStep DEF Fail
  <1> QED
    BY <1>2, <1>3, <1>4, <1>5 DEF Regenerate

LEMMA ServerTyped ==
  ASSUME UsersInv, Start \/ ServerCrash PROVE UsersInv'
  <1>1. /\ work \in [Writers -> Worker] /\ Boot \in Writers
        /\ missed \in BOOLEAN /\ raced \in BOOLEAN
        /\ users \in [Names -> User \union {None}] /\ yaml \in File /\ now \in Times
        /\ latest \in Times
    BY UsersTypes, AuthConstants DEF UsersInv
  <1>2. CASE Start
    <2> DEFINE y == [work[Boot] EXCEPT !.pc = "list"]
    <2>1. y \in Worker /\ WorkFits(y) /\ work' = [work EXCEPT ![Boot] = y]
      BY <1>1, <1>2 DEF Start, Worker, WorkFits
    <2> QED
      BY <1>1, <1>2, <2>1, OneWriterStep DEF Start
  <1>3. CASE ServerCrash
    <2>1. work' \in [Writers -> Worker] /\ \A w \in Writers : work'[w] = Idle
      BY <1>3, RestTypes DEF ServerCrash
    <2>2. TypeOK'
      BY <1>3, <2>1 DEF ServerCrash, UsersInv, TypeOK, Worker, helperVars
    <2> QED
      BY <2>1, <2>2, RestTypes DEF UsersInv, WorkFits
  <1> QED
    BY <1>2, <1>3

\* A step of the helper leaves the server's files and requests alone.
LEMMA HelperTyped ==
  ASSUME UsersInv, UNCHANGED serverVars,
         cfg' \in File, modTime' \in Times, lookup' \in [Lookups -> Asker]
  PROVE  UsersInv'
  <1>1. TypeOK'
    BY DEF UsersInv, TypeOK, Asker, serverVars
  <1> QED
    BY <1>1 DEF UsersInv, WorkFits, serverVars

LEMMA LookupTyped ==
  ASSUME UsersInv, (\E k \in Lookups : Lookup(k)) \/ HelperRestart PROVE UsersInv'
  <1>1. /\ lookup \in [Lookups -> Asker] /\ cfg \in File /\ modTime \in Times
        /\ yaml \in File /\ yaml.mtime \in Times /\ yaml.seq \in Nat /\ latest \in Times
    BY UsersTypes DEF UsersInv, File
  <1>2. ASSUME NEW k \in Lookups, Lookup(k)
        PROVE  /\ lookup' \in [Lookups -> Asker] /\ cfg' \in File /\ modTime' \in Times
               /\ UNCHANGED serverVars
    <2>1. lookup[k] \in Asker
      BY <1>1
    <2>2. CASE GetPassword(k) \/ Stat(k) \/ ReadFile(k) \/ Unreadable(k)
      BY <1>1, <2>1, <2>2, AuthConstants DEF GetPassword, Stat, ReadFile, Unreadable, Asker
    <2>3. CASE Check(k)
      BY <1>1, <2>1, <2>3, AuthConstants DEF Check, Asker
    <2>4. CASE Commit(k)
      <3>1. lookup' \in [Lookups -> Asker]
        BY <1>1, <2>1, <2>4, AuthConstants, RestTypes DEF Commit, Asker
      <3> QED
        BY <1>1, <2>1, <2>4, <3>1 DEF Commit, Asker
    <2>5. CASE Answer(k)
      BY <1>1, <2>5, RestTypes DEF Answer
    <2> QED
      BY <1>2, <2>2, <2>3, <2>4, <2>5 DEF Lookup
  <1>3. CASE HelperRestart
    <2>1. 0..yaml.mtime \subseteq Times
      BY <1>1, AuthConstants DEF Times
    <2> QED
      BY <1>1, <1>3, <2>1, RestTypes, HelperTyped DEF HelperRestart
  <1> QED
    BY <1>2, <1>3, HelperTyped

LEMMA UsersStep == UsersInv /\ [Next]_vars => UsersInv'
  <1> SUFFICES ASSUME UsersInv, [Next]_vars PROVE UsersInv'
    OBVIOUS
  <1>1. CASE UNCHANGED vars
    <2>1. cfg' \in File /\ modTime' \in Times /\ lookup' \in [Lookups -> Asker]
      BY <1>1, UsersTypes DEF vars, helperVars, UsersInv
    <2> QED
      BY <1>1, <2>1, HelperTyped DEF vars
  <1> QED
    BY <1>1, HandleTyped, RegenerateTyped, ServerTyped, LookupTyped DEF Next

LEMMA UsersInit == Init => UsersInv
  BY RestTypes, AuthConstants, UsersTypes DEF Init, UsersInv

LEMMA UsersInvAlways == Spec => []UsersInv
  BY UsersInit, UsersStep, PTL DEF Spec

\* The users, the helper YAML, the requests and the look-ups keep their types: an
\* update that leaves the password out keeps the one that Get returned, and what is
\* renamed into place is a list of users.
THEOREM UsersTypeCorrect == Spec => []TypeOK
  <1>1. UsersInv => TypeOK
    BY DEF UsersInv
  <1> QED
    BY <1>1, UsersInvAlways, PTL

-----------------------------------------------------------------------------
(* AuthUsers: the YAML and the users                                        *)

\* What a step may do to the requests: the helper's steps leave them alone, and a
\* writer's step changes that writer alone.
LEMMA WriterSteps ==
  ASSUME UsersInv, [Next]_vars
  PROVE  \/ UNCHANGED serverVars
         \/ \E a \in Admins : Handle(a)
         \/ \E w \in Writers : Regenerate(w)
         \/ Start \/ ServerCrash
  BY DEF Next, vars, Lookup, GetPassword, Stat, Check, ReadFile, Unreadable, Commit, Answer,
         HelperRestart

\* A handler changes its own request and perhaps the users, who are listed next.
LEMMA HandleSteps ==
  ASSUME UsersInv, NEW a \in Admins, Handle(a)
  PROVE  /\ UNCHANGED <<server, yaml, now, latest, missed, raced, helperVars>>
         /\ server = "up" \/ ~At(a, "idle")
         /\ work[a].pc \in {"idle", "get", "put", "delete"}
         /\ \A w \in Writers : w # a => work'[w] = work[w]
         /\ \/ users' = users /\ work'[a].pc \in {"idle", "get", "put", "delete"}
            \/ work'[a].pc = "list"
  <1>1. work \in [Writers -> Worker] /\ a \in Writers
    BY UsersTypes, AuthConstants DEF UsersInv
  <1>2. CASE \E r \in Request : Submit(a, r)
    BY <1>1, <1>2 DEF Submit, At, Worker
  <1>3. CASE Get(a)
    BY <1>1, <1>3 DEF Get, At, Idle, Worker
  <1>4. CASE Put(a) \/ Delete(a)
    BY <1>1, <1>4 DEF Put, Delete, At, Idle
  <1> QED
    BY <1>2, <1>3, <1>4 DEF Handle

LEMMA StartedStep == ASSUME UsersInv, Started, [Next]_vars PROVE Started'
  <1>1. work \in [Writers -> Worker] /\ Boot \in Writers /\ \A a \in Admins : a \in Writers /\ a # Boot
    BY UsersTypes, AuthConstants DEF UsersInv
  <1>2. CASE UNCHANGED serverVars
    BY <1>2 DEF Started, At, serverVars
  <1>3. ASSUME NEW a \in Admins, Handle(a) PROVE Started'
    <2>1. server = "up"
      BY <1>1, <1>3, HandleSteps, UsersTypes DEF Started, UsersInv
    <2> QED
      BY <1>1, <1>3, <2>1, HandleSteps DEF Started, At
  <1>4. ASSUME NEW w \in Writers, Regenerate(w) PROVE Started'
    <2>1. ~At(w, "idle") /\ \A v \in Writers : v # w => work'[v] = work[v]
      BY <1>1, <1>4 DEF Regenerate, List, WriteTemp, Rename, Fail, At
    <2>2. CASE List(w) \/ WriteTemp(w)
      <3>1. server' = server
        BY <2>2 DEF List, WriteTemp
      <3> QED
        BY <1>1, <2>1, <3>1 DEF Started, At, Writers
    <2>3. CASE Rename(w) \/ Fail(w)
      <3>1. /\ work'[w] = Idle
            /\ server' \in {server, IF w = Boot THEN "down" ELSE server, "up"}
            /\ w # Boot /\ server = "up" => server' = "up"
        BY <1>1, <2>3 DEF Rename, Fail
      <3>2. CASE w = Boot
        <4>1. \A v \in Writers : work'[v].pc = "idle"
          BY <1>1, <2>1, <3>1, <3>2 DEF Started, At, Idle, Writers
        <4> QED
          BY <1>1, <4>1 DEF Started, At
      <3>3. CASE w # Boot
        <4>1. w \in Admins /\ server = "up"
          BY <2>1, <3>3, UsersTypes DEF Started, UsersInv, Writers
        <4> QED
          BY <1>1, <2>1, <3>1, <3>3, <4>1 DEF Started, At
      <3> QED
        BY <3>2, <3>3
    <2> QED
      BY <1>4, <2>2, <2>3 DEF Regenerate
  <1>5. CASE Start
    <2>1. server' = "starting" /\ \A w \in Writers : w # Boot => work'[w] = work[w]
      BY <1>1, <1>5 DEF Start
    <2> QED
      BY <1>1, <1>5, <2>1 DEF Start, Started, At
  <1>6. CASE ServerCrash
    BY <1>1, <1>6 DEF ServerCrash, Started, At, Idle
  <1> QED
    BY <1>2, <1>3, <1>4, <1>5, <1>6, WriterSteps

\* A change of the users makes a listing due; a listing that finds no other on its way
\* to the file is the list of the users there are, and so is what it puts in place.
LEMMA RegeneratedStep ==
  ASSUME UsersInv, Started, Regenerated, [Next]_vars PROVE Regenerated'
  <1>1. work \in [Writers -> Worker] /\ Boot \in Writers /\ raced \in BOOLEAN
    BY UsersTypes, AuthConstants DEF UsersInv
  <1>2. CASE UNCHANGED serverVars
    BY <1>2 DEF Regenerated, InFile, At, Enabled, serverVars
  <1>3. ASSUME NEW a \in Admins, Handle(a) PROVE Regenerated'
    <2>1. a \in Writers
      BY AuthConstants
    <2>2. /\ UNCHANGED <<server, yaml, missed, raced>>
          /\ \A w \in Writers : /\ w # a => work'[w] = work[w]
                                /\ InFile(w)' <=> InFile(w)
                                /\ InFile(w) => work'[w].listing = work[w].listing
      BY <1>3, HandleSteps DEF InFile
    <2>3. CASE work'[a].pc = "list"
      BY <2>1, <2>2, <2>3 DEF Regenerated, InFile, At
    <2>4. CASE users' = users /\ work'[a].pc # "list"
      <3>1. Enabled(users)' = Enabled(users)
        BY <2>4 DEF Enabled
      <3>2. \A w \in Writers : At(w, "list")' <=> At(w, "list")
        BY <1>3, <2>2, <2>4, HandleSteps DEF At
      <3> QED
        BY <2>2, <3>1, <3>2 DEF Regenerated
    <2> QED
      BY <1>3, <2>3, <2>4, HandleSteps
  <1>4. ASSUME NEW w \in Writers, Regenerate(w) PROVE Regenerated'
    <2>1. \A v \in Writers : v # w => work'[v] = work[v]
      BY <1>1, <1>4 DEF Regenerate, List, WriteTemp, Rename, Fail
    <2>2. Enabled(users)' = Enabled(users)
      BY <1>4 DEF Regenerate, List, WriteTemp, Rename, Fail, Enabled
    <2>3. CASE List(w)
      <3>1. InFile(w)' /\ work'[w].listing = Enabled(users)
        BY <1>1, <2>3 DEF List, InFile, Worker
      <3>2. ~raced' => \A v \in Writers : v # w => ~InFile(v)'
        BY <2>1, <2>3 DEF List, InFile
      <3> QED
        BY <2>2, <3>1, <3>2 DEF Regenerated
    <2>4. CASE WriteTemp(w)
      <3>1. /\ At(w, "temp") /\ At(w, "rename")' /\ work'[w].listing = work[w].listing
            /\ UNCHANGED <<server, yaml, missed, raced>>
        BY <1>1, <2>4 DEF WriteTemp, At, Worker
      <3>2. \A v \in Writers : /\ InFile(v)' <=> InFile(v)
                               /\ work'[v].listing = work[v].listing
                               /\ At(v, "list")' <=> At(v, "list")
        BY <2>1, <3>1 DEF InFile, At
      <3> QED
        BY <2>2, <3>1, <3>2 DEF Regenerated
    <2>5. CASE Rename(w)
      <3>1. /\ InFile(w) /\ ~InFile(w)' /\ ~At(w, "list") /\ ~At(w, "list")'
            /\ yaml'.users = work[w].listing /\ UNCHANGED <<missed, raced>>
        BY <1>1, <2>5 DEF Rename, InFile, At, Idle
      <3>2. \A v \in Writers : v # w => /\ InFile(v)' <=> InFile(v)
                                        /\ At(v, "list")' <=> At(v, "list")
                                        /\ work'[v].listing = work[v].listing
        BY <2>1 DEF InFile, At
      <3>3. server # "down"
        BY <3>1 DEF Started, InFile, At
      <3>4. ASSUME ~raced PROVE \A v \in Writers : ~InFile(v)'
        <4>1. \A v \in Writers : v # w => ~InFile(v)
          BY <3>1, <3>4 DEF Regenerated
        <4> QED
          BY <3>1, <3>2, <4>1 DEF InFile
      <3>5. ASSUME ~raced, ~missed, \A v \in Writers : ~At(v, "list")
            PROVE  yaml'.users = Enabled(users)
        BY <3>1, <3>3, <3>5 DEF Regenerated
      <3>6. \A v \in Writers : At(v, "list") => At(v, "list")'
        BY <3>1, <3>2 DEF At
      <3> QED
        BY <2>2, <3>1, <3>4, <3>5, <3>6 DEF Regenerated
    <2>6. CASE Fail(w)
      <3>1. ~InFile(w)' /\ UNCHANGED <<yaml, raced>>
        BY <1>1, <2>6 DEF Fail, InFile, Idle
      <3>2. \A v \in Writers : InFile(v)' => InFile(v)
        BY <2>1, <3>1 DEF InFile
      <3>3. CASE work[w].pc \in {"list", "temp", "rename"}
        <4>1. missed' BY <2>6, <3>3 DEF Fail
        <4> QED BY <3>1, <3>2, <4>1 DEF Regenerated
      <3>4. CASE w = Boot
        BY <2>6, <3>1, <3>2, <3>4 DEF Fail, Regenerated
      <3>5. CASE work[w].pc \notin {"list", "temp", "rename"} /\ w # Boot
        <4>1. UNCHANGED <<server, missed>> /\ ~At(w, "list") /\ ~InFile(w) /\ ~At(w, "list")'
          BY <1>1, <2>6, <3>5, UsersTypes DEF Fail, At, InFile, UsersInv, Idle
        <4>2. \A v \in Writers : /\ InFile(v)' <=> InFile(v)
                                 /\ At(v, "list")' <=> At(v, "list")
                                 /\ InFile(v) => work'[v].listing = work[v].listing
          BY <2>1, <3>1, <4>1 DEF InFile, At
        <4> QED
          BY <2>2, <3>1, <4>1, <4>2 DEF Regenerated
      <3> QED
        BY <3>3, <3>4, <3>5
    <2> QED
      BY <1>4, <2>3, <2>4, <2>5, <2>6 DEF Regenerate
  <1>5. CASE Start
    <2>1. At(Boot, "list")' /\ \A w \in Writers : InFile(w)' => InFile(w)
      BY <1>1, <1>5 DEF Start, At, InFile, Worker
    <2>2. raced' = raced
      BY <1>5 DEF Start
    <2> QED
      BY <1>1, <2>1, <2>2 DEF Regenerated
  <1>6. CASE ServerCrash
    BY <1>6 DEF ServerCrash, Idle, InFile, Regenerated
  <1> QED
    BY <1>2, <1>3, <1>4, <1>5, <1>6, WriterSteps

LEMMA RegeneratedAlways == Spec => [](UsersInv /\ Started /\ Regenerated)
  <1>1. Init => Started /\ Regenerated
    BY AuthConstants DEF Init, Idle, Started, Regenerated, InFile, At
  <1>2. UsersInv /\ Started /\ [Next]_vars => Started'
    BY StartedStep
  <1>3. UsersInv /\ Started /\ Regenerated /\ [Next]_vars => Regenerated'
    BY RegeneratedStep
  <1> QED
    BY <1>1, <1>2, <1>3, UsersInvAlways, PTL DEF Spec

\* For any number of administrators: whenever the server is at rest, no regeneration
\* failed and the last listing was not made while another was on its way to the file,
\* the helper YAML lists exactly the enabled users of the store, through crashes of the
\* server between any two steps and whatever overlapped before.
THEOREM YamlFollowsUsers == Spec => []FollowsUnlessRaced
  <1>1. Regenerated => FollowsUnlessRaced
    BY DEF Regenerated, InFile, FollowsUnlessRaced, AtRest, At
  <1> QED
    BY <1>1, RegeneratedAlways, PTL

-----------------------------------------------------------------------------
(* AuthUsers: the YAML and the helper's map                                 *)

\* What a rename does: the YAML becomes the latest one, or an older one than that.
LEMMA StampedStep ==
  ASSUME UsersInv, Stamped, [Next]_vars
  PROVE  /\ Stamped' /\ yaml'.seq \in Nat /\ yaml'.mtime \in Nat /\ latest' \in Nat
         /\ \/ UNCHANGED <<yaml, latest>>
            \/ /\ UNCHANGED helperVars /\ yaml'.seq = yaml.seq + 1
               /\ \/ yaml'.mtime < latest /\ latest' = latest
                  \/ yaml'.mtime = latest' /\ latest < latest'
  <1> DEFINE Kept == UNCHANGED <<yaml, latest>>
             Renamed == /\ UNCHANGED helperVars /\ yaml'.seq = yaml.seq + 1
                        /\ \/ yaml'.mtime < latest /\ latest' = latest
                           \/ yaml'.mtime = latest' /\ latest < latest'
  <1>1. /\ work \in [Writers -> Worker] /\ Boot \in Writers
        /\ yaml.mtime \in Nat /\ now \in Nat /\ latest \in Nat /\ yaml.seq \in Nat
        /\ \A w \in Writers : work[w].stamp \in Nat
    BY UsersTypes, AuthConstants DEF UsersInv, File, Worker, Times
  <1>2. yaml'.seq \in Nat /\ yaml'.mtime \in Nat /\ latest' \in Nat
    <2>1. yaml' \in File /\ latest' \in Times
      BY UsersStep DEF UsersInv, TypeOK
    <2> QED
      BY <2>1, AuthConstants DEF File, Times
  <1>3. CASE UNCHANGED serverVars
    BY <1>2, <1>3 DEF Stamped, At, serverVars
  <1>4. ASSUME NEW a \in Admins, Handle(a) PROVE Stamped' /\ Kept
    <2>1. /\ UNCHANGED <<yaml, now, latest>> /\ ~At(a, "rename")'
          /\ \A w \in Writers : w # a => work'[w] = work[w]
      BY <1>4, HandleSteps DEF At
    <2> QED
      BY <1>1, <2>1 DEF Stamped, At
  <1>5. ASSUME NEW w \in Writers, Regenerate(w) PROVE Stamped' /\ (Kept \/ Renamed)
    <2>1. \A v \in Writers : v # w => work'[v] = work[v]
      BY <1>1, <1>5 DEF Regenerate, List, WriteTemp, Rename, Fail
    <2>2. CASE WriteTemp(w)
      <3>1. work'[w].stamp = now + 1 /\ now' = now + 1 /\ UNCHANGED <<yaml, latest>>
        BY <1>1, <2>2 DEF WriteTemp, Worker
      <3> QED
        BY <1>1, <2>1, <3>1 DEF Stamped, At
    <2>3. CASE Rename(w)
      <3>1. /\ yaml'.mtime = work[w].stamp /\ yaml'.seq = yaml.seq + 1 /\ now' = now
            /\ latest' = (IF work[w].stamp > latest THEN work[w].stamp ELSE latest)
            /\ work'[w].pc = "idle" /\ UNCHANGED helperVars
        BY <1>1, <2>3 DEF Rename, Idle
      <3>2. At(w, "rename") /\ work[w].stamp <= now /\ work[w].stamp # latest
        BY <1>1, <2>3 DEF Rename, Stamped, At
      <3>3. Renamed
        BY <1>1, <3>1, <3>2
      <3>4. \A v \in Writers : At(v, "rename")' =>
                v # w /\ work'[v] = work[v] /\ At(v, "rename") /\ work[v].stamp # work[w].stamp
        BY <2>1, <3>1, <3>2 DEF Stamped, At
      <3>5. yaml'.mtime <= latest' /\ latest' <= now'
        BY <1>1, <3>1, <3>2 DEF Stamped
      <3> QED
        BY <1>1, <3>1, <3>3, <3>4, <3>5 DEF Stamped, At
    <2>4. CASE List(w) \/ Fail(w)
      <3>1. UNCHANGED <<yaml, now, latest>> BY <2>4 DEF List, Fail
      <3>2. work'[w].pc # "rename"
        <4>1. CASE List(w) BY <1>1, <4>1 DEF List, Worker
        <4>2. CASE Fail(w) BY <1>1, <4>2 DEF Fail, Idle
        <4> QED BY <2>4, <4>1, <4>2
      <3> QED
        BY <1>1, <2>1, <3>1, <3>2 DEF Stamped, At
    <2> QED
      BY <1>5, <2>2, <2>3, <2>4 DEF Regenerate
  <1>6. CASE Start \/ ServerCrash
    <2>1. /\ UNCHANGED <<yaml, now, latest>>
          /\ \A w \in Writers : work'[w].pc = "rename" => work'[w] = work[w]
      BY <1>1, <1>6 DEF Start, ServerCrash, Idle, Worker
    <2> QED
      BY <1>1, <2>1 DEF Stamped, At
  <1> QED
    BY <1>2, <1>3, <1>4, <1>5, <1>6, WriterSteps DEF serverVars

LEMMA FreshStep ==
  ASSUME UsersInv, Fresh, [Next]_vars PROVE Fresh'
  <1>1. /\ lookup \in [Lookups -> Asker] /\ yaml.mtime \in Nat /\ yaml.seq \in Nat
        /\ latest \in Nat /\ modTime \in Nat /\ cfg.seq \in Nat
        /\ \A k \in Lookups : /\ lookup[k].since \in Nat /\ lookup[k].stat \in Nat
                              /\ lookup[k].file.seq \in Nat
    BY UsersTypes, AuthConstants DEF UsersInv, File, Asker, Times
  <1>2. Stamped' BY StampedStep DEF Fresh
  <1>3. CASE UNCHANGED <<yaml, latest, helperVars>>
    BY <1>2, <1>3 DEF Fresh, Loaded, Current, Suits, Compares, helperVars
  <1>4. CASE /\ UNCHANGED helperVars /\ yaml'.seq = yaml.seq + 1
             /\ \/ yaml'.mtime < latest /\ latest' = latest
                \/ yaml'.mtime = latest' /\ latest < latest'
    <2>0. yaml'.mtime \in Nat /\ latest' \in Nat BY StampedStep DEF Fresh
    <2>1. Loaded'
      BY <1>1, <1>4, <2>0 DEF Fresh, Loaded, helperVars
    <2>2. ASSUME NEW k \in Lookups PROVE Current(lookup[k])'
      BY <1>1, <1>4, <2>0 DEF Fresh, Current, Compares, helperVars
    <2>3. ASSUME NEW j \in Lookups, NEW k \in Lookups PROVE Suits(lookup[j], lookup[k])'
      BY <1>4 DEF Fresh, Suits, Compares, helperVars
    <2> QED
      BY <1>2, <2>1, <2>2, <2>3 DEF Fresh
  <1>5. ASSUME NEW k \in Lookups, Lookup(k) PROVE Fresh'
    <2> DEFINE x == lookup[k]
    <2>0. /\ UNCHANGED <<yaml, latest>> /\ x \in Asker /\ Current(x)
          /\ \A j \in Lookups : Current(lookup[j]) /\ Suits(x, lookup[j]) /\ Suits(lookup[j], x)
          /\ yaml.mtime <= latest
      BY <1>1, <1>5 DEF Fresh, Stamped, Lookup, GetPassword, Stat, Check, ReadFile, Unreadable,
                        Commit, Answer, serverVars
    <2>1. \A j \in Lookups : j # k => lookup'[j] = lookup[j]
      BY <1>1, <1>5 DEF Lookup, GetPassword, Stat, Check, ReadFile, Unreadable, Commit, Answer
    <2>2. CASE UNCHANGED <<cfg, modTime>>
      <3>1. Loaded' BY <2>0, <2>2 DEF Fresh, Loaded
      <3>2. Current(lookup[k])'
        <4>1. CASE GetPassword(k)
          BY <1>1, <2>0, <4>1 DEF GetPassword, Current, Compares, Asker
        <4>2. CASE Stat(k)
          BY <1>1, <2>0, <4>2 DEF Stat, Current, Compares, Asker, Fresh, Loaded
        <4>3. CASE Check(k)
          BY <1>1, <2>0, <4>3 DEF Check, Current, Compares, Asker
        <4>4. CASE ReadFile(k)
          BY <1>1, <2>0, <4>4 DEF ReadFile, Current, Compares, Asker
        <4>5. CASE Unreadable(k)
          BY <1>1, <2>0, <4>5 DEF Unreadable, Current, Compares, Asker
        <4>6. CASE Commit(k)
          BY <1>1, <2>0, <2>2, <4>6 DEF Commit, Current, Compares, Asker
        <4>7. CASE Answer(k)
          BY <1>1, <2>0, <4>7 DEF Answer, Current, Compares, NoLookup
        <4> QED
          BY <1>5, <4>1, <4>2, <4>3, <4>4, <4>5, <4>6, <4>7 DEF Lookup
      <3>3. ASSUME NEW j \in Lookups, j # k PROVE Current(lookup[j])'
        BY <2>0, <2>1, <2>2, <3>3 DEF Current, Compares
      <3>4. ASSUME NEW j \in Lookups, j # k PROVE Suits(lookup[k], lookup[j])'
        <4>1. lookup'[j] = lookup[j] BY <2>1, <3>4
        <4>2. CASE Stat(k)
          BY <1>1, <2>0, <2>2, <4>1, <4>2 DEF Stat, Suits, Current, Compares, Asker
        <4>3. CASE Check(k)
          BY <1>1, <2>0, <2>2, <4>1, <4>3 DEF Check, Suits, Current, Compares, Asker
        <4>4. CASE Commit(k)
          BY <1>1, <2>0, <2>2, <4>1, <4>4 DEF Commit, Suits, Current, Compares, Asker
        <4>5. CASE GetPassword(k) \/ ReadFile(k) \/ Unreadable(k) \/ Answer(k)
          BY <1>1, <2>0, <2>2, <4>1, <4>5
          DEF GetPassword, ReadFile, Unreadable, Answer, NoLookup, Suits, Compares, Asker
        <4> QED
          BY <1>5, <4>2, <4>3, <4>4, <4>5 DEF Lookup
      <3>5. ASSUME NEW j \in Lookups, j # k PROVE Suits(lookup[j], lookup[k])'
        <4>1. lookup'[j] = lookup[j] BY <2>1, <3>5
        <4>2. CASE ReadFile(k)
          BY <1>1, <2>0, <2>2, <4>1, <4>2 DEF ReadFile, Suits, Current, Compares, Asker
        <4>3. CASE ~ReadFile(k)
          <5>1. lookup'[k].pc # "commit"
            <6>1. CASE Stat(k) BY <1>1, <6>1 DEF Stat, Asker
            <6>2. CASE GetPassword(k) \/ Check(k) \/ Unreadable(k)
              BY <1>1, <6>2 DEF GetPassword, Check, Unreadable, Asker
            <6>3. CASE Commit(k)
              <7>1. lookup'[k].pc = "answer" BY <1>1, <6>3 DEF Commit, Asker
              <7> QED BY <7>1
            <6>4. CASE Answer(k)
              <7>1. lookup'[k] = NoLookup BY <1>1, <6>4 DEF Answer
              <7> QED BY <7>1 DEF NoLookup
            <6> QED BY <1>5, <4>3, <6>1, <6>2, <6>3, <6>4 DEF Lookup
          <5> QED
            BY <4>1, <5>1 DEF Suits
        <4> QED
          BY <4>2, <4>3
      <3>6. Suits(lookup[k], lookup[k])'
        BY <3>2 DEF Suits, Current, Compares
      <3>7. ASSUME NEW i \in Lookups, NEW j \in Lookups, i # k, j # k
            PROVE  Suits(lookup[i], lookup[j])'
        BY <2>1, <2>2, <3>7 DEF Fresh, Suits, Compares
      <3> QED
        BY <1>2, <3>1, <3>2, <3>3, <3>4, <3>5, <3>6, <3>7 DEF Fresh
    <2>3. CASE ~UNCHANGED <<cfg, modTime>>
      <3>1. /\ x.pc = "commit" /\ modTime < x.stat /\ cfg' = x.file /\ modTime' = x.stat
            /\ lookup'[k].pc = "answer" /\ lookup'[k].since = x.since
        BY <1>1, <1>5, <2>0, <2>3 DEF Lookup, GetPassword, Stat, Check, ReadFile, Unreadable,
                                      Commit, Answer, Asker
      <3>2. Loaded' /\ Current(lookup[k])'
        BY <1>1, <2>0, <3>1 DEF Loaded, Current, Compares
      <3>3. ASSUME NEW j \in Lookups, j # k PROVE Current(lookup[j])'
        <4>1. lookup'[j] = lookup[j] BY <2>1, <3>3
        <4>2. Current(lookup[j]) /\ Suits(lookup[j], x) BY <2>0
        <4> QED
          BY <1>1, <2>0, <3>1, <4>1, <4>2 DEF Current, Suits, Compares
      <3>4. ASSUME NEW j \in Lookups, j # k
            PROVE  Suits(lookup[k], lookup[j])' /\ Suits(lookup[j], lookup[k])'
        <4>1. lookup'[j] = lookup[j] /\ lookup'[k].behind = x.behind
          BY <1>1, <1>5, <2>0, <2>1, <3>1, <3>4
          DEF Lookup, GetPassword, Stat, Check, ReadFile, Unreadable, Commit, Answer, Asker
        <4>2. Suits(x, lookup[j]) BY <2>0
        <4> QED
          BY <1>1, <3>1, <4>1, <4>2 DEF Suits, Compares
      <3>5. Suits(lookup[k], lookup[k])'
        BY <3>1 DEF Suits
      <3>6. ASSUME NEW i \in Lookups, NEW j \in Lookups, i # k, j # k
            PROVE  Suits(lookup[i], lookup[j])'
        <4>1. lookup'[i] = lookup[i] /\ lookup'[j] = lookup[j] BY <2>1, <3>6
        <4>2. Suits(lookup[i], lookup[j]) BY DEF Fresh
        <4> QED
          BY <1>1, <2>0, <3>1, <4>1, <4>2 DEF Suits, Compares
      <3> QED
        BY <1>2, <3>2, <3>3, <3>4, <3>5, <3>6 DEF Fresh
    <2> QED
      BY <2>2, <2>3
  <1>6. CASE HelperRestart
    <2>1. /\ UNCHANGED <<yaml, latest>> /\ cfg' = yaml /\ modTime' \in 0..yaml.mtime
          /\ \A k \in Lookups : lookup'[k] = NoLookup
      BY <1>6 DEF HelperRestart, serverVars
    <2>2. Loaded'
      BY <1>1, <2>1 DEF Fresh, Stamped, Loaded
    <2> QED
      BY <1>1, <1>2, <2>1, <2>2 DEF Fresh, NoLookup, Current, Suits, Compares
  <1>7. CASE (\E a \in Admins : Handle(a)) \/ (\E w \in Writers : Regenerate(w))
               \/ Start \/ ServerCrash \/ UNCHANGED vars
    <2>1. UNCHANGED helperVars
      BY <1>7 DEF Handle, Submit, Get, Put, Delete, Regenerate, List, WriteTemp, Rename,
         Fail, Start, ServerCrash, vars
    <2> QED
      BY <1>3, <1>4, <2>1, StampedStep DEF Fresh
  <1> QED
    BY <1>5, <1>6, <1>7 DEF Next

LEMMA FreshAlways == Spec => [](UsersInv /\ Fresh)
  <1>1. Init => Fresh
    <2> SUFFICES ASSUME Init PROVE Fresh
      OBVIOUS
    <2>1. /\ yaml.mtime = 0 /\ yaml.seq = 0 /\ now = 0 /\ latest = 0 /\ modTime = 0 /\ cfg.seq = 0
          /\ \A k \in Lookups : lookup[k] = NoLookup
          /\ \A w \in Writers : work[w].pc = "idle"
      BY DEF Init, NoFile, Idle
    <2> QED
      BY <2>1 DEF Fresh, Stamped, Loaded, Current, Suits, Compares, NoLookup, At
  <1>2. UsersInv /\ Fresh /\ [Next]_vars => Fresh'
    BY FreshStep
  <1> QED
    BY <1>1, <1>2, UsersInvAlways, PTL DEF Spec

\* For any number of administrators and look-ups: a password look-up that met no error,
\* and no YAML older than an earlier one, answers from the YAML that was in place when
\* it began or a later one, whichever look-ups reload the map concurrently, failed
\* before, and whenever the helper is restarted.
THEOREM LookupsAnswerFresh == Spec => []FreshAnswer
  <1>1. UsersInv /\ Fresh => FreshAnswer
    <2> SUFFICES ASSUME UsersInv, Fresh, NEW k \in Lookups, lookup[k].pc = "answer",
                        ~lookup[k].failed, ~lookup[k].behind
                 PROVE  cfg.seq >= lookup[k].since
      BY DEF FreshAnswer
    <2>1. cfg.seq \in Nat /\ lookup[k].since \in Nat
      BY UsersTypes DEF UsersInv, File, Asker
    <2> QED
      BY <2>1 DEF Fresh, Current
  <1> QED
    BY <1>1, FreshAlways, PTL

-----------------------------------------------------------------------------
(* AuthHelper: the composition                                              *)

LEMMA HelperSimulates == [HelperNext]_<<vars, ntlmVars>> => [Next]_vars
  BY DEF HelperNext, ServerStep, LookupStep, BasicAuth, Authenticate, BeginLookup, SetUserInfo,
     Next, Lookup

\* The helper with its NTLM calls takes the steps of the user database alone, so that what
\* is proved of the users and of look-ups holds with them.
THEOREM HelperImplementsUsers == HelperSpec => Spec
  <1>1. HelperInit => Init
    BY DEF HelperInit
  <1> QED
    BY <1>1, HelperSimulates, PTL DEF HelperSpec, Spec

-----------------------------------------------------------------------------
(* AuthHelper: challenges                                                   *)

Call ==
  [pc : {"idle", "context", "set", "message", "lookup", "process", "remove", "accept"},
   session : Names \union {None}, challenge : 0..MaxChallenges,
   password : Passwords \union {None}, context : Contexts \union {None}, replay : BOOLEAN]

LEMMA HelperConstants ==
  MaxChallenges \in Nat /\ None \notin Contexts /\ 0 \in 0..MaxChallenges
  BY HelperAssumption

LEMMA NtlmTypes ==
  NtlmTypeOK <=>
    /\ contextCache \in [Names -> Contexts \union {None}]
    /\ challenge \in [Contexts -> 0..MaxChallenges]
    /\ secret \in [Contexts -> Passwords \union {None}]
    /\ issued \in 0..MaxChallenges /\ spent \subseteq Challenges
    /\ call \in [Lookups -> Call]
  BY DEF NtlmTypeOK, Call

LEMMA NoCallSound ==
  ASSUME NtlmInv PROVE NoCall \in Call /\ CallSound(NoCall)
  BY HelperConstants DEF NtlmInv, NtlmTypeOK, NoCall, Call, CallSound, CallFits, CallFresh

\* A step that issues and spends no challenge and caches no new context, of calls that are
\* as they should be already before it.
LEMMA QuietStep ==
  ASSUME NtlmInv, call' \in [Lookups -> Call], \A k \in Lookups : CallSound(call'[k]),
         secret' \in [Contexts -> Passwords \union {None}],
         challenge' \in [Contexts -> 0..MaxChallenges],
         \A c \in Contexts : /\ challenge'[c] \in {0, challenge[c]}
                             /\ Unused(c)' => challenge'[c] = 0,
         contextCache' \in [Names -> Contexts \union {None}],
         \A s \in Names : contextCache'[s] \in {None, contextCache[s]},
         issued' = issued, spent' = spent
  PROVE  NtlmInv'
  <1>1. /\ contextCache \in [Names -> Contexts \union {None}]
        /\ challenge \in [Contexts -> 0..MaxChallenges] /\ MaxChallenges \in Nat
        /\ issued \in 0..MaxChallenges /\ spent \subseteq 1..issued /\ spent \subseteq Challenges
    BY NtlmTypes, HelperConstants DEF NtlmInv, Issued
  <1>2. NtlmTypeOK'
    BY <1>1 DEF NtlmTypeOK, Call
  <1>3. Issued'
    <2>1. \A c \in Contexts : challenge'[c] <= issued'
      BY <1>1 DEF NtlmInv, Issued
    <2>2. \A c, d \in Contexts : challenge'[c] = challenge'[d] /\ challenge'[c] # 0 => c = d
      BY DEF NtlmInv, Issued
    <2> QED
      BY <1>1, <2>1, <2>2 DEF Issued
  <1>4. CacheSound'
    <2>1. 0 \notin spent
      BY <1>1
    <2>2. \A s, t \in Names :
            contextCache'[s] = contextCache'[t] /\ contextCache'[s] # None => s = t
      BY DEF NtlmInv, CacheSound
    <2>3. \A s \in Names : contextCache'[s] # None => challenge'[contextCache'[s]] \notin spent
      BY <1>1, <2>1 DEF NtlmInv, CacheSound
    <2> QED
      BY <2>2, <2>3 DEF CacheSound
  <1>5. ASSUME NEW k \in Lookups PROVE CallSound(call[k])'
    <2>1. CallSound(call'[k]) /\ call'[k] \in Call
      OBVIOUS
    <2>2. CallFits(call[k])'
      BY <2>1, <1>1 DEF CallSound, CallFits
    <2>3. CallFresh(call[k])'
      <3>1. call'[k].challenge \in spent => call'[k].challenge # 0
        BY <1>1
      <3>2. call'[k].replay /\ call'[k].context # None
              => challenge'[call'[k].context] # call'[k].challenge
        BY <2>1, <3>1 DEF CallSound, CallFresh, Call
      <3>3. ASSUME call'[k].pc = "accept", NEW c \in Contexts,
                   challenge'[c] = call'[k].challenge
            PROVE  c = call'[k].context
        BY <2>1, <3>3 DEF CallSound, CallFits, CallFresh
      <3> QED
        BY <2>1, <3>2, <3>3 DEF CallSound, CallFresh
    <2> QED
      BY <2>2, <2>3 DEF CallSound
  <1> QED
    BY <1>2, <1>3, <1>4, <1>5 DEF NtlmInv

\* Heap keeps a context's challenge until nothing refers to it.
LEMMA HeapCollects ==
  ASSUME NtlmInv, NEW new \in [Contexts -> Passwords \union {None}], Heap(challenge, new)
  PROVE  /\ challenge' \in [Contexts -> 0..MaxChallenges]
         /\ secret' \in [Contexts -> Passwords \union {None}]
         /\ \A c \in Contexts : /\ challenge'[c] \in {0, challenge[c]}
                                /\ Unused(c)' => challenge'[c] = 0
  <1>1. challenge \in [Contexts -> 0..MaxChallenges] /\ 0 \in 0..MaxChallenges
    BY NtlmTypes, HelperConstants DEF NtlmInv
  <1> QED
    BY <1>1 DEF Heap

\* Call k becomes x, and every context stays as it is or is collected.
LEMMA OneCallQuiet ==
  ASSUME NtlmInv, NEW k \in Lookups, NEW x \in Call, CallSound(x),
         call' = [call EXCEPT ![k] = x], issued' = issued, spent' = spent,
         contextCache' \in [Names -> Contexts \union {None}],
         \A s \in Names : contextCache'[s] \in {None, contextCache[s]},
         \/ \E new \in [Contexts -> Passwords \union {None}] : Heap(challenge, new)
         \/ /\ UNCHANGED <<contextCache, challenge, secret>>
            /\ call[k].context \in {None, x.context}
  PROVE  NtlmInv'
  <1>1. /\ call \in [Lookups -> Call] /\ challenge \in [Contexts -> 0..MaxChallenges]
        /\ secret \in [Contexts -> Passwords \union {None}] /\ None \notin Contexts
        /\ \A j \in Lookups : CallSound(call[j])
    BY NtlmTypes, HelperConstants DEF NtlmInv
  <1>2. call' \in [Lookups -> Call]
    BY <1>1
  <1>3. ASSUME NEW j \in Lookups PROVE CallSound(call'[j])
    BY <1>1
  <1>4. CASE \E new \in [Contexts -> Passwords \union {None}] : Heap(challenge, new)
    BY <1>2, <1>3, <1>4, HeapCollects, QuietStep
  <1>5. CASE UNCHANGED <<contextCache, challenge, secret>> /\ call[k].context \in {None, x.context}
    <2>1. ASSUME NEW c \in Contexts, Unused(c)' PROVE challenge'[c] = 0
      <3>1. ASSUME NEW j \in Lookups PROVE call[j].context # c
        BY <1>1, <1>5, <2>1 DEF Unused
      <3>2. Unused(c)
        BY <1>5, <2>1, <3>1 DEF Unused
      <3> QED
        BY <1>5, <3>2 DEF NtlmInv, Issued
    <2> QED
      BY <1>1, <1>2, <1>3, <1>5, <2>1, QuietStep
  <1> QED
    BY <1>4, <1>5

LEMMA QuietCalls ==
  ASSUME NtlmInv, TypeOK, NEW k \in Lookups,
         \/ \E s \in Names, n \in 0..MaxChallenges, p \in Passwords \union {None} :
              NTLM(k, s, n, p)
         \/ GetContext(k) \/ MessageFails(k) \/ BeginLookup(k) \/ SetUserInfo(k)
         \/ ProcessAuthenticateMessage(k) \/ (RemoveContext(k) /\ In(k, "remove"))
  PROVE  NtlmInv'
  <1> DEFINE x == call[k]
  <1>1. /\ call \in [Lookups -> Call] /\ challenge \in [Contexts -> 0..MaxChallenges]
        /\ secret \in [Contexts -> Passwords \union {None}] /\ None \notin Contexts
        /\ contextCache \in [Names -> Contexts \union {None}]
        /\ issued \in 0..MaxChallenges /\ spent \subseteq 1..issued
        /\ x \in Call /\ CallSound(x) /\ 0 \in 0..MaxChallenges /\ MaxChallenges \in Nat
        /\ NoCall \in Call /\ CallSound(NoCall)
    BY NtlmTypes, HelperConstants, NoCallSound DEF NtlmInv, Issued
  <1>2. ASSUME NEW s \in Names, NEW n \in 0..MaxChallenges, NEW p \in Passwords \union {None},
               NTLM(k, s, n, p)
        PROVE  NtlmInv'
    <2>0. PICK b \in BOOLEAN : b = (n \in spent)
      <3>1. CASE n \in spent
        BY <3>1, Zenon
      <3>2. CASE n \notin spent
        <4>1. FALSE = (n \in spent)
          BY <3>2
        <4> WITNESS FALSE \in BOOLEAN
        <4> QED
          BY <4>1
      <3> QED
        BY <3>1, <3>2
    <2> DEFINE y == [NoCall EXCEPT !.pc = "context", !.session = s,
                       !.challenge = n, !.password = p, !.replay = b]
    <2>1. y \in Call /\ CallSound(y)
      <3>1. n <= issued /\ (b => n \in spent)
        BY <1>2, <2>0 DEF NTLM
      <3> QED
        BY <1>1, <3>1 DEF NoCall, Call, CallSound, CallFits, CallFresh
    <2>2. x.context = None
      BY <1>1, <1>2 DEF NTLM, In, CallSound, CallFits
    <2> HIDE DEF y
    <2>3. /\ call' = [call EXCEPT ![k] = y]
          /\ UNCHANGED <<contextCache, challenge, secret, issued, spent>>
      BY <1>2, <2>0, Zenon DEF NTLM, y
    <2> QED
      BY <1>1, <2>1, <2>2, <2>3, OneCallQuiet
  <1>3. CASE GetContext(k)
    <2> DEFINE c == contextCache[x.session]
               y == [x EXCEPT !.context = c, !.pc = IF c = None THEN "set" ELSE "message"]
    <2>1. x.session \in Names /\ x.context = None /\ x.pc = "context"
      BY <1>1, <1>3 DEF GetContext, In, CallSound, CallFits
    <2>2. c \in Contexts \union {None}
      BY <1>1, <2>1
    <2>3. y \in Call /\ CallFits(y)
      BY <1>1, <2>1, <2>2 DEF Call, CallSound, CallFits, NtlmInv, CacheSound
    <2>4. CallFresh(y)
      BY <1>1, <2>1, <2>2 DEF Call, CallSound, CallFresh, NtlmInv, CacheSound
    <2> HIDE DEF y
    <2>5. /\ call' = [call EXCEPT ![k] = y]
          /\ UNCHANGED <<contextCache, challenge, secret, issued, spent>>
      BY <1>1, <1>3 DEF GetContext, y, Call
    <2> QED
      BY <1>1, <2>1, <2>3, <2>4, <2>5, OneCallQuiet DEF CallSound
  <1>4. ASSUME NEW pc \in {"remove", "lookup", "process"}, call' = [call EXCEPT ![k].pc = pc],
               x.pc \in {"message", "lookup"}, pc # "remove" => x.challenge # 0,
               UNCHANGED <<contextCache, issued, spent>>,
               \/ UNCHANGED <<challenge, secret>>
               \/ \E new \in [Contexts -> Passwords \union {None}] : Heap(challenge, new)
        PROVE  NtlmInv'
    <2> DEFINE y == [x EXCEPT !.pc = pc]
    <2>1. y \in Call /\ CallSound(y) /\ y.context = x.context
      BY <1>1, <1>4 DEF Call, CallSound, CallFits, CallFresh
    <2>2. call' = [call EXCEPT ![k] = y]
      BY <1>1, <1>4 DEF Call
    <2> HIDE DEF y
    <2> QED
      BY <1>1, <1>4, <2>1, <2>2, OneCallQuiet
  <1>5. CASE MessageFails(k) \/ BeginLookup(k)
    BY <1>4, <1>5 DEF MessageFails, BeginLookup, In
  <1>6. ASSUME Return(k), UNCHANGED <<issued, spent>>,
               contextCache' \in [Names -> Contexts \union {None}],
               \A s \in Names : contextCache'[s] \in {None, contextCache[s]},
               Heap(challenge, secret)
        PROVE  NtlmInv'
    BY <1>1, <1>6, OneCallQuiet DEF Return
  <1>7. CASE SetUserInfo(k)
    <2> DEFINE p == cfg.users[x.session]
    <2>1. x.session \in Names /\ x.context \in Contexts /\ x.challenge # 0
      BY <1>1, <1>7 DEF SetUserInfo, In, CallSound, CallFits
    <2>2. p \in Passwords \union {None}
      BY <2>1 DEF TypeOK, File, Listing
    <2>3. [secret EXCEPT ![x.context] = p] \in [Contexts -> Passwords \union {None}]
      BY <1>1, <2>1, <2>2
    <2>4. CASE p = None
      BY <1>1, <1>6, <1>7, <2>4 DEF SetUserInfo
    <2>5. CASE p # None
      BY <1>1, <1>4, <1>7, <2>1, <2>3, <2>5 DEF SetUserInfo, In
    <2> QED
      BY <2>4, <2>5
  <1>8. CASE ProcessAuthenticateMessage(k)
    <2>1. CASE ~Genuine(k)
      BY <1>1, <1>6, <1>8, <2>1 DEF ProcessAuthenticateMessage
    <2>2. CASE Genuine(k)
      <3> DEFINE y == [x EXCEPT !.pc = "accept"]
      <3>1. x.pc = "process" /\ x.context \in Contexts /\ x.challenge # 0
            /\ x.challenge = challenge[x.context]
        BY <1>1, <1>8, <2>2 DEF ProcessAuthenticateMessage, Genuine, In, CallSound, CallFits
      <3>2. y \in Call /\ CallFits(y)
        BY <1>1, <3>1 DEF Call, CallSound, CallFits
      <3>3. ~x.replay /\ \A c \in Contexts : challenge[c] = x.challenge => c = x.context
        BY <1>1, <3>1 DEF CallSound, CallFresh, NtlmInv, Issued
      <3>4. CallFresh(y)
        BY <1>1, <3>1, <3>3 DEF CallFresh, Call
      <3>5. call' = [call EXCEPT ![k] = y]
        BY <1>1, <1>8, <2>2 DEF ProcessAuthenticateMessage, Call
      <3> HIDE DEF y
      <3> QED
        BY <1>1, <1>8, <3>2, <3>4, <3>5, OneCallQuiet DEF ProcessAuthenticateMessage, CallSound
    <2> QED
      BY <2>1, <2>2
  <1>9. CASE RemoveContext(k) /\ In(k, "remove")
    BY <1>1, <1>6, <1>9 DEF RemoveContext, In
  <1> QED
    BY <1>2, <1>3, <1>5, <1>7, <1>8, <1>9

\* A call that takes no step is disturbed by none that gives its context to no session,
\* although its challenge may be spent or its context begin another handshake.
LEMMA CallKept ==
  ASSUME NtlmInv, NEW j \in Lookups, call'[j] = call[j],
         issued' \in Nat, issued <= issued', spent \subseteq spent',
         \A c \in Contexts : challenge'[c] \in {0, challenge[c], issued + 1},
         \A s \in Names : contextCache'[s] \in Contexts /\ contextCache'[s] = call[j].context
                            => contextCache'[s] = contextCache[s]
  PROVE  CallSound(call[j])'
  <1>1. /\ call[j] \in Call /\ CallSound(call[j]) /\ issued \in Nat /\ spent \subseteq 1..issued
        /\ call[j].challenge \in Nat /\ \A c \in Contexts : challenge[c] \in Nat
    BY NtlmTypes, HelperConstants DEF NtlmInv, Issued, Call
  <1>2. CallFits(call[j])'
    BY <1>1 DEF CallSound, CallFits, Call
  <1>3. call[j].challenge \in spent => call[j].challenge # 0
    BY <1>1
  <1>4. call[j].challenge <= issued
    BY <1>1 DEF CallSound, CallFits
  <1>5. ASSUME call[j].replay, call[j].context # None
        PROVE  challenge'[call[j].context] # call[j].challenge
    <2>1. call[j].context \in Contexts
      BY <1>1, <1>5 DEF Call
    <2> QED
      BY <1>1, <1>3, <1>4, <1>5, <2>1 DEF CallSound, CallFresh
  <1>6. ASSUME call[j].pc = "accept", NEW c \in Contexts, challenge'[c] = call[j].challenge
        PROVE  c = call[j].context
    <2>1. challenge'[c] = challenge[c]
      BY <1>1, <1>4, <1>6 DEF CallSound, CallFits
    <2> QED
      BY <1>1, <1>6, <2>1 DEF CallSound, CallFresh
  <1>7. CallFresh(call[j])'
    BY <1>1, <1>5, <1>6 DEF CallSound, CallFresh
  <1> QED
    BY <1>2, <1>7 DEF CallSound

LEMMA SetContextInv ==
  ASSUME NtlmInv, NEW k \in Lookups, SetContext(k) PROVE NtlmInv'
  <1> DEFINE x == call[k]
  <1>1. /\ call \in [Lookups -> Call] /\ challenge \in [Contexts -> 0..MaxChallenges]
        /\ secret \in [Contexts -> Passwords \union {None}] /\ None \notin Contexts
        /\ contextCache \in [Names -> Contexts \union {None}]
        /\ issued \in 0..MaxChallenges /\ spent \subseteq 1..issued /\ spent \subseteq Challenges
        /\ x \in Call /\ CallSound(x) /\ MaxChallenges \in Nat /\ 0 \notin spent
    BY NtlmTypes, HelperConstants DEF NtlmInv, Issued
  <1>2. x.session \in Names /\ x.context = None /\ x.pc = "set"
    BY <1>1 DEF SetContext, In, CallSound, CallFits
  <1>3. PICK new \in Contexts :
          /\ Unused(new)
          /\ contextCache' = [contextCache EXCEPT ![x.session] = new]
          /\ call' = [call EXCEPT ![k] = [x EXCEPT !.context = new, !.pc = "message"]]
    <2>1. (CHOOSE c \in Contexts : Unused(c)) \in Contexts
          /\ Unused(CHOOSE c \in Contexts : Unused(c))
      BY DEF SetContext
    <2> QED
      BY <1>1, <2>1 DEF SetContext, Call
  <1>4. /\ challenge' \in [Contexts -> 0..MaxChallenges]
        /\ secret' \in [Contexts -> Passwords \union {None}]
        /\ \A c \in Contexts : /\ challenge'[c] \in {0, challenge[c]}
                               /\ Unused(c)' => challenge'[c] = 0
        /\ issued' = issued /\ spent' = spent
    BY <1>1, HeapCollects DEF SetContext
  <1>5. /\ challenge'[new] = 0 /\ \A s \in Names : contextCache[s] # new
        /\ \A j \in Lookups : call[j].context # new
    BY <1>3, <1>4 DEF NtlmInv, Issued, Unused
  <1>6. [x EXCEPT !.context = new, !.pc = "message"] \in Call
    BY <1>1 DEF Call
  <1>7. NtlmTypeOK'
    <2>1. call' \in [Lookups -> Call] /\ contextCache' \in [Names -> Contexts \union {None}]
      BY <1>1, <1>3, <1>6
    <2> QED
      BY <1>1, <1>4, <2>1 DEF NtlmTypeOK, Call
  <1>8. Issued'
    <2>1. \A c \in Contexts : challenge'[c] <= issued'
      BY <1>1, <1>4 DEF NtlmInv, Issued
    <2>2. \A c, d \in Contexts : challenge'[c] = challenge'[d] /\ challenge'[c] # 0 => c = d
      BY <1>4 DEF NtlmInv, Issued
    <2> QED
      BY <1>1, <1>4, <2>1, <2>2 DEF Issued
  <1>9. CacheSound'
    <2>1. ASSUME NEW s \in Names, NEW t \in Names,
                 contextCache'[s] = contextCache'[t], contextCache'[s] # None
          PROVE  s = t
      BY <1>1, <1>2, <1>3, <1>5, <2>1 DEF NtlmInv, CacheSound
    <2>2. ASSUME NEW s \in Names, contextCache'[s] # None
          PROVE  challenge'[contextCache'[s]] \notin spent
      <3>1. CASE s = x.session
        BY <1>1, <1>2, <1>3, <1>5, <3>1
      <3>2. CASE s # x.session
        BY <1>1, <1>3, <1>4, <2>2, <3>2 DEF NtlmInv, CacheSound
      <3> QED
        BY <3>1, <3>2
    <2> QED
      BY <1>4, <2>1, <2>2 DEF CacheSound
  <1>10. CallSound(call[k])'
    <2>1. /\ call'[k].pc = "message" /\ call'[k].session = x.session /\ call'[k].context = new
          /\ call'[k].challenge = x.challenge /\ call'[k].replay = x.replay
      BY <1>1, <1>3 DEF Call
    <2>2. \A s \in Names : contextCache'[s] = new => s = x.session
      BY <1>1, <1>2, <1>3, <1>5
    <2>3. CallFits(call[k])'
      BY <1>1, <1>2, <1>4, <2>1, <2>2 DEF CallSound, CallFits
    <2>4. CallFresh(call[k])'
      BY <1>1, <1>4, <1>5, <2>1 DEF CallSound, CallFresh
    <2> QED
      BY <2>3, <2>4 DEF CallSound
  <1>11. ASSUME NEW j \in Lookups, j # k PROVE CallSound(call[j])'
    <2>1. call'[j] = call[j]
      BY <1>1, <1>3, <1>11
    <2>2. \A s \in Names : contextCache'[s] = call[j].context => contextCache'[s] = contextCache[s]
      BY <1>1, <1>3, <1>5
    <2>3. issued' \in Nat /\ issued <= issued'
      BY <1>1, <1>4
    <2> QED
      BY <1>4, <2>1, <2>2, <2>3, CallKept
  <1> QED
    BY <1>7, <1>8, <1>9, <1>10, <1>11 DEF NtlmInv

LEMMA NegotiateInv ==
  ASSUME NtlmInv, NEW k \in Lookups, Negotiate(k) PROVE NtlmInv'
  <1> DEFINE c == call[k].context
  <1>1. /\ call \in [Lookups -> Call] /\ challenge \in [Contexts -> 0..MaxChallenges]
        /\ secret \in [Contexts -> Passwords \union {None}] /\ None \notin Contexts
        /\ contextCache \in [Names -> Contexts \union {None}]
        /\ issued \in 0..MaxChallenges /\ spent \subseteq 1..issued /\ spent \subseteq Challenges
        /\ MaxChallenges \in Nat /\ NoCall \in Call /\ CallSound(call[k])
    BY NtlmTypes, HelperConstants, NoCallSound DEF NtlmInv, Issued
  <1>2. c \in Contexts
    BY <1>1 DEF Negotiate, In, CallSound, CallFits
  <1>3. /\ call' = [call EXCEPT ![k] = NoCall] /\ issued' = issued + 1
        /\ UNCHANGED <<contextCache, spent>> /\ issued + 1 \in 0..MaxChallenges
        /\ Heap([challenge EXCEPT ![c] = issued + 1], [secret EXCEPT ![c] = None])
    BY <1>1 DEF Negotiate, Return
  <1>4. /\ challenge' \in [Contexts -> 0..MaxChallenges]
        /\ secret' \in [Contexts -> Passwords \union {None}]
        /\ \A d \in Contexts : Unused(d)' => challenge'[d] = 0
        /\ challenge'[c] \in {0, issued + 1}
        /\ \A d \in Contexts : d # c => challenge'[d] \in {0, challenge[d]}
    BY <1>1, <1>2, <1>3 DEF Heap
  <1>5. NtlmTypeOK'
    <2>1. call' \in [Lookups -> Call]
      BY <1>1, <1>3
    <2> QED
      BY <1>1, <1>3, <1>4, <2>1 DEF NtlmTypeOK, Call
  <1>6. Issued'
    <2>1. \A d \in Contexts : challenge[d] <= issued /\ challenge[d] \in Nat
      BY <1>1 DEF NtlmInv, Issued
    <2>2. \A d \in Contexts : challenge'[d] <= issued'
      BY <1>1, <1>2, <1>3, <1>4, <2>1
    <2>3. ASSUME NEW d \in Contexts, NEW e \in Contexts, challenge'[d] = challenge'[e],
                 challenge'[d] # 0
          PROVE  d = e
      BY <1>1, <1>2, <1>4, <2>1, <2>3 DEF NtlmInv, Issued
    <2>4. spent' \subseteq 1..issued'
      BY <1>1, <1>3
    <2> QED
      BY <1>4, <2>2, <2>3, <2>4 DEF Issued
  <1>7. CacheSound'
    <2>1. ASSUME NEW s \in Names, contextCache[s] # None
          PROVE  challenge'[contextCache[s]] \notin spent
      <3>1. 0 \notin spent /\ issued + 1 \notin spent
        BY <1>1
      <3>2. challenge[contextCache[s]] \notin spent /\ contextCache[s] \in Contexts
        BY <1>1, <2>1 DEF NtlmInv, CacheSound
      <3> QED
        BY <1>4, <3>1, <3>2
    <2> QED
      BY <1>3, <2>1 DEF NtlmInv, CacheSound
  <1>8. ASSUME NEW j \in Lookups PROVE CallSound(call[j])'
    <2>1. CASE j = k
      <3>1. call'[j] = NoCall /\ issued' \in Nat
        BY <1>1, <1>3, <2>1
      <3> QED
        BY <3>1 DEF NoCall, CallSound, CallFits, CallFresh
    <2>2. CASE j # k
      <3>1. call'[j] = call[j] /\ issued' \in Nat /\ issued <= issued'
        BY <1>1, <1>3, <2>2
      <3> QED
        BY <1>2, <1>3, <1>4, <3>1, CallKept
    <2> QED
      BY <2>1, <2>2
  <1> QED
    BY <1>5, <1>6, <1>7, <1>8 DEF NtlmInv

\* The context that goes with the session is the only one that has the challenge that is
\* spent: no other session has it in the cache.
LEMMA AcceptInv ==
  ASSUME NtlmInv, NEW k \in Lookups, RemoveContext(k), In(k, "accept") PROVE NtlmInv'
  <1> DEFINE x == call[k]
  <1>1. /\ call \in [Lookups -> Call] /\ challenge \in [Contexts -> 0..MaxChallenges]
        /\ secret \in [Contexts -> Passwords \union {None}] /\ None \notin Contexts
        /\ contextCache \in [Names -> Contexts \union {None}]
        /\ issued \in 0..MaxChallenges /\ spent \subseteq 1..issued /\ spent \subseteq Challenges
        /\ MaxChallenges \in Nat /\ x \in Call /\ CallSound(x)
        /\ NoCall \in Call /\ CallSound(NoCall)
    BY NtlmTypes, HelperConstants, NoCallSound DEF NtlmInv, Issued
  <1>2. /\ x.session \in Names /\ x.context \in Contexts /\ x.challenge \in 1..issued
        /\ \A c \in Contexts : challenge[c] = x.challenge => c = x.context
        /\ \A s \in Names : contextCache[s] = x.context => s = x.session
    BY <1>1 DEF In, CallSound, CallFits, CallFresh, Call
  <1>3. /\ contextCache' = [contextCache EXCEPT ![x.session] = None] /\ issued' = issued
        /\ spent' = spent \union {x.challenge} /\ call' = [call EXCEPT ![k] = NoCall]
        /\ Heap(challenge, secret)
    BY DEF RemoveContext, Return
  <1>4. /\ challenge' \in [Contexts -> 0..MaxChallenges]
        /\ secret' \in [Contexts -> Passwords \union {None}]
        /\ \A c \in Contexts : /\ challenge'[c] \in {0, challenge[c]}
                               /\ Unused(c)' => challenge'[c] = 0
    BY <1>1, <1>3, HeapCollects
  <1>5. /\ spent' \subseteq 1..issued /\ spent' \subseteq Challenges
        /\ spent \subseteq spent' /\ 0 \notin spent'
    <2>1. 1..issued \subseteq 1..MaxChallenges /\ 0 \notin 1..issued
      BY <1>1
    <2>2. spent' \subseteq 1..issued
      BY <1>1, <1>2, <1>3
    <2> QED
      BY <1>3, <2>1, <2>2 DEF Challenges
  <1>6. NtlmTypeOK'
    <2>1. call' \in [Lookups -> Call] /\ contextCache' \in [Names -> Contexts \union {None}]
      BY <1>1, <1>3
    <2> QED
      BY <1>1, <1>3, <1>4, <1>5, <2>1 DEF NtlmTypeOK, Call
  <1>7. Issued'
    <2>1. \A c \in Contexts : challenge'[c] <= issued'
      BY <1>1, <1>3, <1>4 DEF NtlmInv, Issued
    <2>2. \A c, d \in Contexts : challenge'[c] = challenge'[d] /\ challenge'[c] # 0 => c = d
      BY <1>4 DEF NtlmInv, Issued
    <2> QED
      BY <1>3, <1>4, <1>5, <2>1, <2>2 DEF Issued
  <1>8. CacheSound'
    <2>1. \A s \in Names : contextCache'[s] # None => s # x.session /\ contextCache'[s] = contextCache[s]
      BY <1>1, <1>2, <1>3
    <2>2. ASSUME NEW s \in Names, contextCache'[s] # None
          PROVE  challenge'[contextCache'[s]] \notin spent'
      <3>1. contextCache[s] \in Contexts /\ challenge[contextCache[s]] \notin spent
        BY <1>1, <2>1, <2>2 DEF NtlmInv, CacheSound
      <3>2. challenge[contextCache[s]] # x.challenge
        BY <1>2, <2>1, <2>2, <3>1
      <3> QED
        BY <1>3, <1>4, <1>5, <2>1, <2>2, <3>1, <3>2
    <2>3. \A s, t \in Names :
            contextCache'[s] = contextCache'[t] /\ contextCache'[s] # None => s = t
      BY <2>1 DEF NtlmInv, CacheSound
    <2> QED
      BY <2>2, <2>3 DEF CacheSound
  <1>9. ASSUME NEW j \in Lookups PROVE CallSound(call[j])'
    <2>1. CASE j = k
      <3>1. call'[j] = NoCall /\ issued' \in Nat
        BY <1>1, <1>3, <2>1
      <3> QED
        BY <3>1 DEF NoCall, CallSound, CallFits, CallFresh
    <2>2. CASE j # k
      <3>1. call'[j] = call[j] /\ issued' \in Nat /\ issued <= issued'
        BY <1>1, <1>3, <2>2
      <3>2. \A s \in Names : contextCache'[s] \in Contexts => contextCache'[s] = contextCache[s]
        BY <1>1, <1>2, <1>3
      <3> QED
        BY <1>4, <1>5, <3>1, <3>2, CallKept
    <2> QED
      BY <2>1, <2>2
  <1> QED
    BY <1>6, <1>7, <1>8, <1>9 DEF NtlmInv

\* A context that expires, or a restart of the helper.
LEMMA ForgetInv ==
  ASSUME NtlmInv, (\E s \in Names : ExpireContext(s)) \/ RestartNtlm PROVE NtlmInv'
  <1>1. /\ call \in [Lookups -> Call] /\ secret \in [Contexts -> Passwords \union {None}]
        /\ contextCache \in [Names -> Contexts \union {None}]
        /\ NoCall \in Call /\ CallSound(NoCall) /\ \A k \in Lookups : CallSound(call[k])
    BY NtlmTypes, NoCallSound DEF NtlmInv
  <1>2. /\ Heap(challenge, secret) /\ issued' = issued /\ spent' = spent
        /\ contextCache' \in [Names -> Contexts \union {None}]
        /\ \A s \in Names : contextCache'[s] \in {None, contextCache[s]}
    BY <1>1 DEF ExpireContext, RestartNtlm
  <1>3. call' = call \/ call' = [k \in Lookups |-> NoCall]
    BY DEF ExpireContext, RestartNtlm
  <1>4. call' \in [Lookups -> Call] /\ \A k \in Lookups : CallSound(call'[k])
    BY <1>1, <1>3
  <1> QED
    BY <1>1, <1>2, <1>4, HeapCollects, QuietStep

LEMMA NtlmStepInv ==
  ASSUME UsersInv, NtlmInv, [HelperNext]_<<vars, ntlmVars>> PROVE NtlmInv'
  <1>1. CASE UNCHANGED ntlmVars
    BY <1>1 DEF ntlmVars, NtlmInv, NtlmTypeOK, Issued, Unused, CacheSound, CallSound, CallFits,
       CallFresh
  <1>2. ASSUME NEW k \in Lookups, LookupStep(k) PROVE NtlmInv'
    BY <1>1, <1>2, QuietCalls DEF LookupStep, UsersInv
  <1>3. ASSUME NEW k \in Lookups, NtlmStep(k) PROVE NtlmInv'
    <2>1. CASE RemoveContext(k)
      BY <2>1, QuietCalls, AcceptInv DEF RemoveContext, In, UsersInv
    <2> QED
      BY <1>3, <2>1, QuietCalls, SetContextInv, NegotiateInv DEF NtlmStep, UsersInv
  <1> QED
    BY <1>1, <1>2, <1>3, ForgetInv DEF HelperNext

LEMMA NtlmInitInv == NtlmInit => NtlmInv
  <1> SUFFICES ASSUME NtlmInit PROVE NtlmInv
    OBVIOUS
  <1>1. /\ contextCache = [s \in Names |-> None] /\ challenge = [c \in Contexts |-> 0]
        /\ secret = [c \in Contexts |-> None] /\ issued = 0 /\ spent = {}
        /\ call = [k \in Lookups |-> NoCall] /\ NoCall \in Call
    BY HelperConstants DEF NtlmInit, NoCall, Call
  <1>2. NtlmTypeOK
    BY <1>1, HelperConstants, NtlmTypes
  <1>3. Issued /\ CacheSound
    BY <1>1 DEF Issued, CacheSound
  <1>4. \A k \in Lookups : CallSound(call[k])
    BY <1>1 DEF NoCall, CallSound, CallFits, CallFresh
  <1> QED
    BY <1>2, <1>3, <1>4 DEF NtlmInv

LEMMA NtlmInvAlways == HelperSpec => []NtlmInv
  <1>1. HelperInit => UsersInv /\ NtlmInv
    BY UsersInit, NtlmInitInv DEF HelperInit
  <1>2. UsersInv /\ NtlmInv /\ [HelperNext]_<<vars, ntlmVars>> => (UsersInv /\ NtlmInv)'
    BY HelperSimulates, UsersStep, NtlmStepInv
  <1> QED
    BY <1>1, <1>2, PTL DEF HelperSpec

\* The contexts and the calls of the helper keep their types: what SetUserInfo gives a
\* context is a password, for any sessions, contexts and overlapping calls.
THEOREM NtlmTypeCorrect == HelperSpec => []NtlmTypeOK
  <1>1. NtlmInv => NtlmTypeOK
    BY DEF NtlmInv
  <1> QED
    BY <1>1, NtlmInvAlways, PTL

\* A challenge that logged a client in is used up: no later call is accepted with it, for
\* any number of sessions, contexts and overlapping calls.
THEOREM ChallengesUsedOnce == HelperSpec => []ChallengeUsedOnce
  <1>1. NtlmInv => ChallengeUsedOnce
    BY DEF NtlmInv, CallSound, CallFresh, ChallengeUsedOnce, In
  <1> QED
    BY <1>1, NtlmInvAlways, PTL

=============================================================================
