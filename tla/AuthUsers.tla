------------------------------ MODULE AuthUsers ------------------------------
(***************************************************************************)
(* Direct-auth users: the dashboard's store of them (auth-users.json), the *)
(* admin requests that change it, the helper YAML the server regenerates    *)
(* after every change, and the rdpgw-auth process that reloads the YAML     *)
(* when its modification time moves and answers password look-ups from it.  *)
(*                                                                         *)
(* The store has a mutex, held by each of Get, Put, Delete and List, and no *)
(* longer.  A file is replaced by writing a temporary one, which fixes the  *)
(* modification time, and renaming it.                                      *)
(***************************************************************************)
EXTENDS Integers, FiniteSets

CONSTANTS
  Names, Passwords, None,
  Admins,       \* concurrent admin requests
  Boot,         \* the server's start, which also writes the YAML
  Lookups,      \* concurrent calls of GetPassword in the helper
  MaxWrites     \* bound: how often the YAML is written

Writers == Admins \union {Boot}

ASSUME AuthUsersAssumption ==
  /\ None \notin Passwords /\ Boot \notin Admins /\ MaxWrites \in Nat

VARIABLES
  server,       \* down, starting, up
  users,        \* auth-users.json: name -> [password, enabled] or None
  yaml,         \* the helper YAML: password of each enabled user, its mtime and
                \* (history) how many YAMLs there were before it
  now,          \* the clock that stamps files
  work,         \* what each writer is doing, with its local variables
  latest,       \* history: the latest mtime of the YAMLs so far
  missed,       \* history: a regeneration failed and no listing was made since
  raced,        \* history: the last listing was made while another was being written
  cfg, modTime, \* the helper's map of passwords, and the mtime it goes by
  lookup        \* what each look-up is doing, with its local variables

serverVars == <<server, users, yaml, now, work, latest, missed, raced>>
helperVars == <<cfg, modTime, lookup>>
vars == <<serverVars, helperVars>>

Times == 0..MaxWrites
User == [password : Passwords, enabled : BOOLEAN]

\* A nil field keeps the old value in an update; a create defaults to enabled.
Request ==
  [kind : {"create", "update", "delete"}, name : Names,
   password : Passwords \union {None}, enabled : BOOLEAN \union {None}]

\* The users WriteAuthHelperConfig lists.
Enabled(us) ==
  [n \in Names |-> IF us[n] # None /\ us[n].enabled THEN us[n].password ELSE None]

Listing == [Names -> Passwords \union {None}]
File == [users : Listing, mtime : Times, seq : Nat]

\* No file yet reads as no users, and a zero mtime.
NoFile == [users |-> [n \in Names |-> None], mtime |-> 0, seq |-> 0]

Idle == [pc |-> "idle", req |-> None, user |-> None, listing |-> None, stamp |-> 0]

\* History: since is the YAML in place when the look-up began, behind says that it
\* was older than an earlier one at the last stat, failed that it could not be read.
NoLookup == [pc |-> "idle", stat |-> 0, file |-> NoFile, since |-> 0,
             behind |-> FALSE, failed |-> FALSE]

\* Every file and local variable keeps the type of its declaration.
TypeOK ==
  /\ server \in {"down", "starting", "up"} /\ missed \in BOOLEAN /\ raced \in BOOLEAN
  /\ users \in [Names -> User \union {None}]
  /\ yaml \in File /\ now \in Times /\ latest \in Times /\ cfg \in File /\ modTime \in Times
  /\ work \in [Writers ->
       [pc : {"idle", "get", "put", "delete", "list", "temp", "rename"},
        req : Request \union {None}, user : User \union {None},
        listing : Listing \union {None}, stamp : Times]]
  /\ lookup \in [Lookups ->
       [pc : {"idle", "stat", "check", "load", "read", "commit", "answer"},
        stat : Times, file : File, since : Nat, behind : BOOLEAN, failed : BOOLEAN]]

Init ==
  /\ server = "down" /\ missed = FALSE /\ raced = FALSE /\ latest = 0
  /\ users \in [Names -> User \union {None}]
  /\ yaml = NoFile /\ now = 0 /\ work = [w \in Writers |-> Idle]
  /\ cfg = NoFile /\ modTime = 0 /\ lookup = [k \in Lookups |-> NoLookup]

At(w, where) == work[w].pc = where

-----------------------------------------------------------------------------
(* admin_handlers.go: the three handlers                                    *)

Submit(a, r) ==
  /\ server = "up" /\ At(a, "idle") /\ now < MaxWrites
  /\ r.kind = "create" => r.password # None
  /\ r.kind = "delete" => r.password = None /\ r.enabled = None
  /\ work' = [work EXCEPT ![a].req = r,
                          ![a].pc = IF r.kind = "create" THEN "put" ELSE "get"]
  /\ UNCHANGED <<server, users, yaml, now, latest, missed, raced, helperVars>>

\* An unknown user is a 404.
Get(a) ==
  /\ At(a, "get")
  /\ LET r == work[a].req  u == users[r.name] IN
     work' = IF u = None THEN [work EXCEPT ![a] = Idle]
             ELSE [work EXCEPT ![a].user = u,
                     ![a].pc = IF r.kind = "update" THEN "put" ELSE "delete"]
  /\ UNCHANGED <<server, users, yaml, now, latest, missed, raced, helperVars>>

\* Mutant: an update that leaves the password out erases it.
ChangedBlindly(r, old) == [password |-> r.password, enabled |-> r.enabled # FALSE]

\* The record a create or an update stores.
Changed(r, old) ==
  LET Or(x, default) == IF x = None THEN default ELSE x IN
  IF r.kind = "create"
  THEN [password |-> r.password, enabled |-> Or(r.enabled, TRUE)]
  ELSE [password |-> Or(r.password, old.password), enabled |-> Or(r.enabled, old.enabled)]

Put(a) ==
  /\ At(a, "put")
  /\ LET r == work[a].req IN
     users' = [users EXCEPT ![r.name] = Changed(r, work[a].user)]
  /\ work' = [work EXCEPT ![a] = [Idle EXCEPT !.pc = "list"]]
  /\ UNCHANGED <<server, yaml, now, latest, missed, raced, helperVars>>

Delete(a) ==
  /\ At(a, "delete")
  /\ users' = [users EXCEPT ![work[a].req.name] = None]
  /\ work' = [work EXCEPT ![a] = [Idle EXCEPT !.pc = "list"]]
  /\ UNCHANGED <<server, yaml, now, latest, missed, raced, helperVars>>

-----------------------------------------------------------------------------
(* regenerateAuthHelperConfig: List under the mutex, then a file write       *)
(* under none                                                               *)

\* Mutant: disabled users are listed too.
ListAll(w) ==
  /\ At(w, "list")
  /\ work' = [work EXCEPT ![w].pc = "temp", ![w].listing =
       [n \in Names |-> IF users[n] = None THEN None ELSE users[n].password]]
  /\ missed' = FALSE
  /\ raced' = \E v \in Writers \ {w} : work[v].pc \in {"temp", "rename"}
  /\ UNCHANGED <<server, users, yaml, now, latest, helperVars>>

List(w) ==
  /\ At(w, "list")
  /\ work' = [work EXCEPT ![w].pc = "temp", ![w].listing = Enabled(users)]
  /\ missed' = FALSE
  /\ raced' = \E v \in Writers \ {w} : work[v].pc \in {"temp", "rename"}
  /\ UNCHANGED <<server, users, yaml, now, latest, helperVars>>

\* Each temporary file gets an mtime of its own.
WriteTemp(w) ==
  /\ At(w, "temp") /\ now < MaxWrites
  /\ now' = now + 1
  /\ work' = [work EXCEPT ![w].pc = "rename", ![w].stamp = now + 1]
  /\ UNCHANGED <<server, users, yaml, latest, missed, raced, helperVars>>

Rename(w) ==
  /\ At(w, "rename")
  /\ yaml' = [users |-> work[w].listing, mtime |-> work[w].stamp, seq |-> yaml.seq + 1]
  /\ latest' = IF work[w].stamp > latest THEN work[w].stamp ELSE latest
  /\ work' = [work EXCEPT ![w] = Idle]
  /\ server' = "up"
  /\ UNCHANGED <<users, now, missed, raced, helperVars>>

\* Reading or writing a file fails: a 500, or the end of the start.
Fail(w) ==
  /\ ~At(w, "idle")
  /\ work' = [work EXCEPT ![w] = Idle]
  /\ server' = IF w = Boot THEN "down" ELSE server
  /\ missed' = (missed \/ work[w].pc \in {"list", "temp", "rename"})
  /\ UNCHANGED <<users, yaml, now, latest, raced, helperVars>>

\* initDashboardState
Start ==
  /\ server = "down" /\ now < MaxWrites
  /\ server' = "starting"
  /\ work' = [work EXCEPT ![Boot].pc = "list"]
  /\ UNCHANGED <<users, yaml, now, latest, missed, raced, helperVars>>

\* The server process dies with the requests it was handling.
ServerCrash ==
  /\ server # "down"
  /\ server' = "down"
  /\ work' = [w \in Writers |-> Idle]
  /\ UNCHANGED <<users, yaml, now, latest, missed, raced, helperVars>>

-----------------------------------------------------------------------------
(* database/config.go, in the helper process                                *)

GetPassword(k) ==
  /\ lookup[k].pc = "idle"
  /\ lookup' = [lookup EXCEPT ![k].pc = "stat", ![k].since = yaml.seq]
  /\ UNCHANGED <<cfg, modTime, serverVars>>

\* reloadIfChanged stats the file, then compares under the read lock;
\* loadConfigFile stats it again before it reads it.
Stat(k) ==
  /\ lookup[k].pc \in {"stat", "load"}
  /\ lookup' = [lookup EXCEPT ![k].stat = yaml.mtime, ![k].behind = yaml.mtime < latest,
                  ![k].pc = IF lookup[k].pc = "stat" THEN "check" ELSE "read"]
  /\ UNCHANGED <<cfg, modTime, serverVars>>

Check(k) ==
  /\ lookup[k].pc = "check"
  /\ lookup' = [lookup EXCEPT
                  ![k].pc = IF lookup[k].stat > modTime THEN "load" ELSE "answer",
                  ![k].stat = 0]
  /\ UNCHANGED <<cfg, modTime, serverVars>>

ReadFile(k) ==
  /\ lookup[k].pc = "read"
  /\ lookup' = [lookup EXCEPT ![k].pc = "commit", ![k].file = yaml]
  /\ UNCHANGED <<cfg, modTime, serverVars>>

\* A stat or the load fails, or the file does not parse: the error is logged and the
\* map that the helper has answers.
Unreadable(k) ==
  /\ lookup[k].pc \in {"stat", "load", "read"}
  /\ lookup' = [lookup EXCEPT ![k].pc = "answer", ![k].stat = 0, ![k].failed = TRUE]
  /\ UNCHANGED <<cfg, modTime, serverVars>>

\* Mutant: the loaded file is installed whatever was loaded meanwhile.
CommitAlways(k) ==
  /\ lookup[k].pc = "commit"
  /\ cfg' = lookup[k].file /\ modTime' = lookup[k].stat
  /\ lookup' = [lookup EXCEPT ![k] = [@ EXCEPT !.pc = "answer", !.file = NoFile, !.stat = 0]]
  /\ UNCHANGED serverVars

\* Under the write lock; another look-up may have loaded a later file.
Commit(k) ==
  /\ lookup[k].pc = "commit"
  /\ IF lookup[k].stat > modTime
     THEN cfg' = lookup[k].file /\ modTime' = lookup[k].stat
     ELSE UNCHANGED <<cfg, modTime>>
  /\ lookup' = [lookup EXCEPT ![k] = [@ EXCEPT !.pc = "answer", !.file = NoFile, !.stat = 0]]
  /\ UNCHANGED serverVars

\* The password is taken from cfg under the read lock.
Answer(k) ==
  /\ lookup[k].pc = "answer"
  /\ lookup' = [lookup EXCEPT ![k] = NoLookup]
  /\ UNCHANGED <<cfg, modTime, serverVars>>

\* The helper starts again: NewConfigFile stats the YAML, then reads it, and it
\* may have been replaced in between.
HelperRestart ==
  /\ cfg' = yaml /\ modTime' \in 0..yaml.mtime
  /\ lookup' = [k \in Lookups |-> NoLookup]
  /\ UNCHANGED serverVars

-----------------------------------------------------------------------------
Handle(a) == (\E r \in Request : Submit(a, r)) \/ Get(a) \/ Put(a) \/ Delete(a)

Regenerate(w) == List(w) \/ WriteTemp(w) \/ Rename(w) \/ Fail(w)

Lookup(k) ==
  \/ GetPassword(k) \/ Stat(k) \/ Check(k) \/ ReadFile(k) \/ Unreadable(k)
  \/ Commit(k) \/ Answer(k)

Next ==
  \/ \E a \in Admins : Handle(a)
  \/ \E w \in Writers : Regenerate(w)
  \/ Start \/ ServerCrash
  \/ \E k \in Lookups : Lookup(k)
  \/ HelperRestart

Spec == Init /\ [][Next]_vars

-----------------------------------------------------------------------------
(* Properties                                                               *)

\* When no request is being handled and none was answered with an error since the
\* last listing, the helper YAML lists exactly the enabled users of the store,
\* whatever crashed or failed before: "The server regenerates the helper YAML after every
\* direct-auth user change" (docs/openid-authentication.md:113).
AtRest == server = "up" /\ ~missed /\ \A w \in Writers : At(w, "idle")
HelperFollowsStore == AtRest => yaml.users = Enabled(users)

\* The same with any number of administrators, as long as the last listing was not
\* made while an earlier one was on its way to the file: one request that finds no
\* other between its List and its rename repairs whatever races and crashes left.
FollowsUnlessRaced == AtRest /\ ~raced => yaml.users = Enabled(users)

\* A password check that could read the YAML, and found none in place that is older
\* than an earlier one, answers from the YAML that was in place when it began or a
\* later one, although other checks reload the map while it runs or failed before.
\* Both exceptions are the code's: a failed reload keeps the last good map, and a
\* file renamed after one with a later modification time is not loaded.
FreshAnswer ==
  \A k \in Lookups : lookup[k].pc = "answer" /\ ~lookup[k].failed /\ ~lookup[k].behind
    => cfg.seq >= lookup[k].since

=============================================================================
