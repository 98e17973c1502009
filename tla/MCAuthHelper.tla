---------------------------- MODULE MCAuthHelper ----------------------------
(* An instance of AuthHelper for TLC.  Its bound is the union of three       *)
(* regions, each of which leaves out what the others are about.              *)
EXTENDS AuthHelper, TLC

HelperSymmetry == Permutations(Lookups) \union Permutations(Admins)

NoNtlm ==
  /\ issued = 0 /\ contextCache = [s \in Names |-> None]
  /\ call = [k \in Lookups |-> NoCall]

\* Admin requests of all kinds, crashes and failures; no look-ups.
OnlyAdmins ==
  /\ NoNtlm /\ cfg = NoFile
  /\ lookup = [k \in Lookups |-> NoLookup]

\* Look-ups, whose freshness does not depend on who the users are: disabled ones are
\* stored again and again, the server crashes and writes fail.
OnlyLookups ==
  /\ NoNtlm /\ yaml.users = NoFile.users
  /\ \A n \in Names : users[n] # None /\ ~users[n].enabled
  /\ \A a \in Admins : work[a].req # None =>
       work[a].req.kind = "create" /\ work[a].req.enabled = FALSE

\* Handshakes, without other look-ups: enabled users are there or not, and one is
\* deleted, by a server that neither crashes nor fails to write the YAML.
Handshakes ==
  /\ \A n \in Names : users[n] # None => users[n].enabled
  /\ \A a \in Admins : work[a].req # None => work[a].req.kind = "delete"
  /\ Cardinality({w \in Writers : ~At(w, "idle")}) <= 1
  /\ now <= 2 /\ (now = 2 => \A w \in Writers : work[w].pc \in {"idle", "rename"})
  /\ ~missed /\ ~raced /\ (server = "down" => now = 0)
  /\ yaml.seq = yaml.mtime /\ modTime = cfg.mtime
  /\ \A k \in Lookups : ~lookup[k].failed /\ (lookup[k].pc # "idle" => call[k].pc # "idle")

Explored == OnlyAdmins \/ OnlyLookups \/ Handshakes
=============================================================================
