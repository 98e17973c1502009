------------------------------ MODULE Download ------------------------------
(***************************************************************************)
(* The handlers behind the logins of WebLogin that hand out RDP files: the  *)
(* download of a dashboard entry (web/dashboard_download.go), which only    *)
(* members of its groups may have, and /connect (web/web.go), to a host of  *)
(* the configuration.  A file carries a PAA token for its user and host,    *)
(* with the user's access token (security/jwt.go), which the gateway takes  *)
(* later (Processor).                                                       *)
(*                                                                          *)
(* Administrators change the entry at any time (ContentStore has the store), *)
(* so a request may find any version of it.  Between the read of the entry   *)
(* and the token there are a template file to read and a name to look up.    *)
(***************************************************************************)
EXTENDS WebLogin

CONSTANTS Hosts, ConfiguredHosts

ASSUME DownloadAssumption == ConfiguredHosts \subseteq Hosts

\* A dashboard entry as it is stored at one time.  One that is disabled is allowed
\* to no group; an uploaded template keeps its name, so its host is fixed too.
Version == [allowed : SUBSET Groups, host : Hosts]

Token == [user : Users, accessToken : Code, host : Hosts]

VARIABLES
  read,      \* the version of the entry each request has read, None for none yet
  token,     \* the token each request has made, None for none yet
  seen       \* history: versions stored since each request read the entry

downloadVars == <<read, token, seen>>

\* The store and the downloads keep the type of their declaration.
DownloadTypeOK ==
  /\ read \in [Requests -> Version \union {None}]
  /\ token \in [Requests -> Token \union {None}]
  /\ seen \in [Requests -> SUBSET Version]

Nothing == [r \in Requests |-> None]

DownloadInit ==
  /\ Init /\ read = Nothing /\ token = Nothing
  /\ seen = [r \in Requests |-> {}]

\* The handler answers, and the response sets the cookie the middleware saved.
Answer(r) ==
  /\ Respond(r)
  /\ read' = [read EXCEPT ![r] = None] /\ token' = [token EXCEPT ![r] = None]
  /\ seen' = [seen EXCEPT ![r] = {}]

Busy(r) == In(r, "handler") /\ token[r] = None

\* VisibleEntries, of one entry.
Visible(v, groups) == v.allowed \intersect groups # {}

-----------------------------------------------------------------------------
(* HandleEntryDownload and HandleDownload                                   *)

\* The store has version v of the entry: whoever is reading it may see that.
Stored(v) == [r \in Requests |-> IF read[r] = None THEN seen[r] ELSE seen[r] \union {v}]

GetEntry(r, v) ==
  /\ Busy(r) /\ req[r].route = "OIDC" /\ read[r] = None
  /\ Visible(v, req[r].id.groups)
  /\ read' = [read EXCEPT ![r] = v]
  /\ seen' = [Stored(v) EXCEPT ![r] = {v}]
  /\ UNCHANGED <<vars, token>>

\* Mutant: the identity need not have an access token.
GeneratePAATokenAlways(r, host) ==
  /\ token' = [token EXCEPT ![r] =
       [user |-> req[r].id.user, accessToken |-> req[r].id.accessToken, host |-> host]]
  /\ UNCHANGED <<vars, read, seen>>

\* Only a login with the provider has an access token; all other requests fail.
GeneratePAAToken(r, host) ==
  /\ req[r].id.accessToken # None
  /\ token' = [token EXCEPT ![r] =
       [user |-> req[r].id.user, accessToken |-> req[r].id.accessToken, host |-> host]]
  /\ UNCHANGED <<vars, read, seen>>

\* Mutant: the entry is read again.
BuildEntryAgain(r) ==
  /\ Busy(r) /\ read[r] # None
  /\ \E v \in seen[r] : GeneratePAAToken(r, v.host)

\* buildEntryBuilder and the token, for the entry as it was read.
BuildEntry(r) ==
  /\ Busy(r) /\ read[r] # None
  /\ GeneratePAAToken(r, read[r].host)

HandleDownload(r, host) ==
  /\ Busy(r) /\ req[r].route = "Header"
  /\ GeneratePAAToken(r, host)

-----------------------------------------------------------------------------
(* The admin API's Put                                                       *)

ChangeEntry(v) ==
  /\ seen' = Stored(v) /\ seen' # seen
  /\ UNCHANGED <<vars, read, token>>

RestartDownloads ==
  /\ Restart
  /\ read' = Nothing /\ token' = Nothing /\ seen' = [r \in Requests |-> {}]

DownloadStep(r) ==
  \/ (\E v \in Version : GetEntry(r, v)) \/ BuildEntry(r) \/ Answer(r)
  \/ \E h \in ConfiguredHosts : HandleDownload(r, h)

DownloadNext ==
  \/ \E r \in Requests : SignInStep(r) /\ UNCHANGED downloadVars
  \/ (StartElsewhere \/ Tick) /\ UNCHANGED downloadVars
  \/ \E r \in Requests : DownloadStep(r)
  \/ \E v \in Version : ChangeEntry(v)
  \/ RestartDownloads

DownloadSpec == DownloadInit /\ [][DownloadNext]_<<vars, downloadVars>>

-----------------------------------------------------------------------------
(* Properties                                                               *)

\* The name in a PAA token is that of the user whose access token it carries, which
\* the gateway goes by: no order of header logins, provider logins, expired cookies
\* and late responses puts one user's name on another's access token.
TokenOwner ==
  \A r \in Requests : token[r] # None => token[r].user = token[r].accessToken.user

\* A file for an entry names a host that an entry open to the user's groups had at
\* some time of the request, however administrators change the entry meanwhile.
TokenForVisibleHost ==
  \A r \in Requests :
    token[r] # None /\ req[r].route = "OIDC" =>
      \E v \in seen[r] : v.host = token[r].host /\ Visible(v, req[r].id.groups)

=============================================================================
