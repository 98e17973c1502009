# TLA+ models of the HomeRDP gateway

This directory models the parts of the repository whose correctness depends on
concurrency, on shared mutable state, or on several steps that may fail half
way: the Remote Desktop Gateway route and its protocol engine, the store of
direct-auth users with the helper process that reads it, the dashboard's content
and icon stores, logins and downloads on the web side, and the KDC proxy. `tlc` checks
the models on small instances; `tlapm` proves every invariant and refinement they are
checked for, liveness aside, for every value of the constants. `PROJECT.json`
lists runs, mutants, theorems, hazards and, for every definition, the source
lines it stands for.

## The system

`rdpgw` is one Go server process. It serves a web side (login, dashboard,
administration, downloads of `.rdp` files) and a gateway side (the RDG protocol
over websockets or over a pair of HTTP connections). `rdpgw-auth` is a second
process that checks passwords and NTLM messages over a local gRPC socket.

| Component | State | Operations | Interacts with |
|---|---|---|---|
| Gateway route (`protocol/gateway.go`, `transport/`) | cache connection id -> Tunnel, hijacked or upgraded connections | `HandleGatewayProtocol`, websocket handler, `RDG_OUT_DATA` and `RDG_IN_DATA` handlers | runs a Processor on a Tunnel that other requests may share through the cache |
| Protocol engine (`protocol/process.go`, `tunnel.go`, `track.go`, `common.go`) | Tunnel fields, `Processor.state`, backend connection, `Connections` table | one step per packet type, `forward`, register/remove | calls the host and cookie checks; writes to the client beside its own forward goroutine |
| Host and cookie checks (`security/`) | none of their own; they write the Tunnel | `CheckPAACookie`, `CheckSession`, `CheckHost` | OIDC provider, enabled dashboard hosts |
| Direct-auth users (`dashboard/auth_users.go`, `web/admin_handlers.go`) | `auth-users.json`, helper YAML | create, update, delete, regenerate | the helper reads the YAML |
| Helper database (`auth/database/config.go`) | map of passwords, its modification time | `GetPassword` with reload, restart | the YAML |
| Content store (`dashboard/store.go`, `entry.go`) | `entries.json`, upload directory | create, update, delete, `SaveUpload`, quotas | dashboard, downloads, the gateway's host inventory |
| Icon store (`dashboard/icon_store.go`, `web/admin_icon_handlers.go`) | `icons.json`, icon files | save, activate, delete, serve | entries refer to icons |
| OIDC login, header login, sessions (`web/oidc.go`, `header.go`, `session.go`, `context.go`) | login transactions and identities in cookies, consumed states | start login, callback, session checks | the provider, a trusted proxy, the browser |
| Web NTLM/basic auth (`web/ntlm.go`, `basic.go`), NTLM contexts (`auth/ntlm`) | NTLM contexts per session | negotiate, authenticate | helper process |
| KDC proxy (`kdcproxy/proxy.go`) | connections of one request | forward to several KDCs, first reply | KDCs |
| Downloads, tokens (`web/dashboard_download.go`, `web.go`, `security/jwt.go`) | none | visibility check, host selection, token generation | content store, gateway |
| Pages, translation, configuration, identity, metrics, test client | static or per request | - | - |

Hard behaviours: requests that share a Tunnel through the cache without any
lock; the two halves of a legacy connection arriving in any order; clients and
desktops that leave at any point; concurrent admin requests between whose reads
and writes no lock is held; crashes and failed writes between two files; a
reload racing a change of the file; sessions that exist only in cookies of responses
that overlap, come late or are lost; handshakes whose calls overlap; replies, errors and
timeouts of several KDCs in any order. `PROJECT.json` lists them as hazards, each at
its line, with the properties that would catch it.

What makes each component correct:

- gateway: a client reaches only the host its cookie names, or the hosts offered
  to its user; traffic stays on its connection; handlers and backends end;
- users and helper: the helper accepts exactly the enabled users; a look-up does not
  answer from an older file than the one in place when it began;
- content store: quotas hold, no upload is orphaned, no used template vanishes;
- icons: exactly one is active while there are any, and lists and files agree;
- login: a state is consumed once, and a browser is signed in only as someone who answered
  a login that it started;
- downloads: a token carries its owner's name and a host that was open to them;
- NTLM: a challenge that logged a client in does not do so again;
- KDC proxy: the first reply is the answer, an error means there was none, and
  nothing outlives the request.

## Modules

| Module | Content |
|---|---|
| `Processor` | Tunnel, Processor, forward goroutine, checks, table of connections |
| `Gateway` | extends `Processor` with the route, the cache, the legacy and websocket handlers and the environment; properties and specification |
| `Relay` | what the gateway promises about the course of a connection; `Gateway` implements it |
| `MCGateway` | instances for TLC |
| `AuthUsers`, `MCAuthUsers` | user store, admin requests, YAML, helper |
| `AuthHelper`, `MCAuthHelper` | extends `AuthUsers` with the helper's gRPC calls and its NTLM contexts |
| `ContentStore`, `MCContentStore` | dashboard entries and template uploads |
| `IconStore` | app icons, their files and the requests for them |
| `Branding` | what the icon store promises pages; `IconStore` implements it |
| `AdminApi`, `Dashboard`, `MCDashboard` | both stores behind one admin API |
| `KdcProxy`, `MCKdcProxy` | one request to the KDC proxy with its goroutines |
| `KdcRace` | what the KDC proxy promises; `KdcProxy` implements it |
| `WebLogin` | session cookie, OIDC login, header login |
| `Download`, `MCDownload` | extends `WebLogin` with the handlers that hand out RDP files |
| `GatewayProofs` | type correctness of the gateway |
| `TokenProofs` | a token gateway dials only hosts of cookies (extends `GatewayProofs`) |
| `ConnectionProofs` | traffic stays on its connection, hosts were offered, an unshared tunnel keeps its backend and its entry, `Relay` is implemented (extends `TokenProofs`) |
| `AuthProofs` | the YAML follows the store, look-ups are fresh, challenges are used once |
| `ContentProofs` | uploads are neither orphaned nor removed while in use, quotas hold |
| `IconProofs` | one active icon, lists and files agree, `Branding` is implemented, `Dashboard` implements both stores |
| `KdcProofs` | an error means no reply, `KdcRace` is implemented |
| `LoginProofs` | states are consumed and logins answered once, sessions and tokens belong to their users |

Operators whose name tells of a fault (`CheckSessionAnyHost`, `CommitAlways`, ...)
are mutants. No specification uses them; each replaces the definition that follows
it to show that a property notices such a fault.

### Gateway and Processor

A request is a handler goroutine and the name of everything it may create: its
Tunnel, uuid, transport, processor, backend connection and forward goroutine.
`tun[r]` is the Tunnel that request `r` works on, which is another request's when the
cache hits. Tunnel fields are functions of the tunnel (`transportIn`, `transportOut`,
`Id`, `TargetServer`, `RemoteAddr`, `rwc`), processor fields functions of the
request.

Steps are cut where another goroutine can see a difference: at reads from and
writes to a transport, calls of the OIDC provider and of `net.DialTimeout`,
and between unsynchronised accesses to the tunnel and the cache. `CheckPAACookie` puts a
cookie's host on the tunnel (`PresentCookie`), then its address (`SetRemoteAddr`), and asks
the provider last (`UserInfo`); `vouched`, a history variable, records the cookie that it
accepted. A write to a client or to the desktop (`Data`, `DataSent`) begins and returns in
two steps, since it blocks while the other end does not read. `io` is the connection a
read or write is using, looked up when it starts as in `Tunnel.Read`, `Tunnel.Write` and
`receive`; `reply` is the state entered once the response is written. Every
packet type is an action that a processor in `Read` can take in any state, with the
code's state checks deciding the outcome. A panic in a handler is recovered by
`net/http` and runs the deferred calls (`Return`); a panic in `forward`, and
overlapping writes to the `Connections` map, can end the process (`Crash`).

Abstractions. The messages of one `Read` are taken one at a time. A PAA cookie is
its claims (host, client ip) or `None` when it does not parse, decrypt or
validate; the provider then accepts or rejects its access token. Hosts are compared as
`host:port` strings are. The inventory is a set of `<<user, host>>` pairs, which stands
for the enabled host entries after the preferred user name is filled in. The user name
that a token leaves on the tunnel is only logged. Byte counters, idle timeouts,
redirection flags, metrics and socket buffers decide nothing. The accept response of a
legacy half is the first thing written to its connection and fits its buffer, so it does
not block. `Disconnect`
(`track.go:31`) has no caller and is left out.

`Relay` is the abstract specification: per connection a stage, the host admitted, the
desktop's connection and whether its output is relayed. The refinement maps `state`,
`target`, `backend` and the started forward goroutines to them; the packets, the
transports, the tunnels and the cache are gone. It holds on shared tunnels too: what a
second processor can take over there is the tunnel's fields, never the processor's course.

### AuthUsers

The store's mutex makes each of `Get`, `Put`, `Delete` and `List` one step;
between them, and between `List` and the write of the YAML, other requests run, any number
at once. Writing a file is two steps, the temporary file with its modification time and the
rename. Any step may fail, and the server may die between any two; at its
start it writes the YAML again. A look-up stats the file, compares, stats and reads it, and
installs it under the lock; several look-ups interleave. A stat or a load that fails, or a
file that does not parse, ends the reload and leaves the old map in place (`Unreadable`,
`failed`), from which the look-up then answers.

History variables. `missed`: a request answered "unable to write auth helper config" and
nothing was listed since; the promise is only made for requests that succeeded. `raced`: the
last listing was made while another was on its way to the file. `seq` numbers the files in
the order of their renames, `latest` is the youngest modification time that was in place, and
a look-up's `since` and `behind` say which file was in place when it began and whether the one
it found at its last stat was older than `latest`.

With them the properties say where the code keeps its promise and where not. The YAML is that
of the store unless the last two listings raced (`FollowsUnlessRaced`); where they did it need
not be (`HelperFollowsStore` is violated). A look-up answers from no older file than the one it
found (`FreshAnswer`), unless that file carries an older modification time than one
before it, so that it is not loaded, or could not be read, so that the last good map answers.

Assumptions: every temporary file gets a modification time of its own, so a file written
within the clock's resolution of the last one is not considered. Nothing in the code
removes the YAML; that the helper starts without one is modelled.

### ContentStore

An entry is its upload (none for a host entry), its groups and its enabled flag:
the text fields and the icon only decide whether a request fails, which `Fail` allows at any
time. Ids and file names are random and never handed out twice. `Put` is cut in two,
since it looks for the template before it takes the mutex. `Discard` is
`removeUploadFile`, whose error the callers ignore: the file is then recorded in
`leaked`, as are the uploads of requests that die in a crash. The branch of `Put` that
removes a replaced upload is modelled as written, but no handler changes the
upload of an entry, so it is not reached.

### IconStore and Dashboard

Every operation of the icon store holds its mutex, so the mutex is a variable and an
operation is one step unless it changes two files: a file is written before
`icons.json` lists it and removed after it is taken off the list, and in between the
process may die or a page, which takes no mutex, may look for the file. `HandleAdminUploadIcon`
calls `SaveIcon` and then `SetActiveIcon`; other requests run in between. `Unlink`
ignores errors as the code does, and `lost` records the files that nobody will
remove. Names and contents that do not validate are refused before anything happens and are
left out, as is the limit on the icons' bytes, which only refuses more uploads without
changing anything; stored icons always pass `filterSafeIcons`, so that filter is the identity
here.
A request for an icon's file is served the built-in icon or a 404 when the file is gone.

`Dashboard` runs the requests of both stores side by side; a crash takes all of them. An
entry may keep the id of a deleted icon: the code allows it and shows the default.

`Branding` is the abstract specification: which icons there are, and which is shown. The
refinement maps `Listed` and `ActiveIcon` to its variables. Of an icon that is deleted while
shown it only says that another one takes over.

### KdcProxy

The handler's refusals, the loop that dials one KDC after the other (UDP before TCP), the
goroutine per connection, the buffered channel and the loop that takes messages are
modelled step by step. A message in the channel is the KDC it came from; `got` tells
replies from nil. Dials, writes and reads may fail or time out at any time. A read
fails once the connection was closed. `first` is a history variable: the KDC
whose reply entered the channel first. `KdcRace` is the abstract specification, a race
that the first KDC heard wins. The message's length prefix and its ASN.1 coding only
decide whether a request or reply is taken; the reply is a byte string, for which the
encoder has no error, so the branch at `proxy.go:93-96` is not reached. The request's body has
arrived when the model begins: the server sets no time limit on it. The realms' KDCs come
from the library's configuration.

### AuthHelper

`NTLM` is a call of the web side. `getContext` is two steps, a look in the cache and the
store of a new context, and so are the look-up of the password and the check of the
message, since other calls of the session may run between them: the web side gives up
after its timeout and the client tries again, while the first call still runs. Contexts are
objects: calls hold on to one after the cache has dropped it. The NTLM library's
check is external: the response must answer the challenge that the context has now with
the password that was set. `BasicAuth` and `Authenticate` are the look-ups of
`AuthUsers`. The users change while handshakes are under way, as in `AuthUsers`.

Assumption: a session id is known to one client, who names one user. A client that shares
its session with others can interleave their handshakes, about which nothing is stated.
`spent` and `replay` are history variables for `ChallengeUsedOnce`. Calls that overlap the
accepting call may be accepted with the same challenge; the property is about calls that
begin after it has returned.

### WebLogin and Download

The session is a cookie, so its state is the browser's: `jar` is what the browser holds,
and each response carries the cookie the handler saved, with `out`. Requests overlap and their
responses arrive in any order or not at all. A request works with the
cookie it was sent with. State, nonce, PKCE verifier and expiry are fixed
when a login starts, so a login's number stands for all of them. `mine` are the logins
this browser started; others are started elsewhere (`StartElsewhere`), and their states and codes
can reach this browser. A callback therefore brings the state of one login, the code of
one, maybe another, and the cookie with the transaction of a third; the code compares state
and transaction (`Check`), and the provider the transaction's verifier with the code
(`Verified`). `answered` records the logins for which someone was signed in. `HandleCallback`
is cut at the expiry check, at `markConsumed` and at the exchange. The provider is external.

Facts of the code that the model keeps: a failed callback answers with the first of
two saves, whose cookie lasts as long as the browser; a restart forgets the consumed
states; an identity from the proxy's header has no access token, so no PAA token is
made for it; header sessions are refused without a trusted proxy; `/connect` and entry
downloads belong to different middlewares.

Abstractions: cookies are intact or absent (keys that are generated at each start would make
old cookies an error); sessions are kept in cookies, not in files; the requests are one
browser's, since browsers share only the cache of states, and another browser's callback
consumes none but the state in its own cookie; the e-mail and other attributes of
an identity, which can survive from a header session into a provider's, are left out. An entry is its
groups and its host; filling in the user's name and the DNS look-up change how the host is
written, and with `SplitUserDomain` the token's user name is the part before `@`.

`Download` composes the login with the handlers. `read` and `token` are their local
variables; `seen`, a history variable, holds the versions of the entry that the
store had since the request read it.

## Runs

| Run | Instance | Shows |
|---|---|---|
| `gateway_shared` | token gateway, an in half and a websocket on one connection id, two hosts, two client addresses, two cookies | `DialsTokenHost`, `DialsOwnTokenHost`, `ForwardsOwnBackend`, `NoStaleEntry`, `ImplementsRelay` (refinement) |
| `gateway_direct` | direct gateway, both halves of one connection and the out half of another user's, changing inventory | `TypeOK`, `DialsOfferedHost`, `StaysOnConnection` |
| `gateway_live` | both halves of one connection, in any order, under fairness | `HandlerEnds`, `BackendReleased` |
| `gateway_accept_race` | as above, the in half sent once the out half is accepted | **violated**: `LegacyHasOutput` |
| `gateway_one_writer` | one websocket | **violated**: `OneWriter` |
| `gateway_output_closed` | both halves, under fairness | **violated**: `OutputClosed` |
| `auth_users` | two admin requests, two look-ups or NTLM calls, three writes of the YAML, two NTLM challenges | `TypeOK`, `FollowsUnlessRaced`, `FreshAnswer`, `NtlmTypeOK`, `ChallengeUsedOnce` |
| `auth_users_race` | two admin requests | **violated**: `HelperFollowsStore` |
| `content_store` | two admin requests to both stores, two ids, three uploads, quotas of two files and three bytes, three icons, quota of two icon files | `TypeOK`, `WithinQuota`, `NoOrphan`, `KeepsUploads`, `IconTypeOK`, `OneActive`, `ListedHasFile`, `NoOrphanIcon`, `ShowsChosenIcon` (refinement) |
| `content_store_race` | two admin requests, quotas of one file and two bytes | **violated**: `TemplateHasFile` |
| `kdc_proxy` | two KDCs over UDP and two over TCP, every kind of request | `TypeOK`, `ErrorMeansNoReply`, `FirstReplyWins` (refinement, with liveness), `NothingLeaks` |
| `web_downloads` | two requests at once, two users, two logins of this or another browser, two hosts, three ticks | `TypeOK`, `OwnAnswer`, `SingleUse`, `AnsweredOnce`, `DownloadTypeOK`, `TokenOwner`, `TokenForVisibleHost` |

Findings behind the violated runs:

- the out half is accepted (`gateway.go:254`) before its tunnel is cached (256), so
  the in half can get a tunnel that has no output;
- nothing closes the out half's hijacked connection;
- `Process` and `forward` write to one websocket without a lock;
- two admin requests can write their listings of the users in the wrong order, which leaves
  the YAML behind the store;
- an update racing a deletion stores a template entry whose template is gone.

Four more divergences have no run:

- of two YAML files written by concurrent requests the one renamed last can carry the older
  modification time. The helper does not load it (`config.go:59`), although
  `docs/openid-authentication.md:113` says that it reloads the file automatically.
  `FreshAnswer` without `behind` is violated;
- a look-up that cannot read or parse the YAML answers from the map loaded before, which
  `TestDatabaseKeepsLastGoodConfigOnMalformedReload` (`config_test.go:71`) wants, whereas
  `docs/openid-authentication.md:115` says that direct auth fails closed when the managed
  state is invalid. `FreshAnswer` without `failed` is violated;
- the comment at `process.go:166` says keepalives may come before the channel is open,
  where the code ends the connection;
- `Disconnect` returns its "not found" error for ids that are found.

Bounds. Two requests are enough for every way to share a tunnel pairwise, which is
what the hazards are about; `gateway_direct` adds a third for a second connection
id and user. Two hosts and addresses tell apart whose cookie was used. Each
request opens one channel at most, as in the code, so nothing else needs a bound.
In `gateway_shared` nobody leaves once both processors have their host (`QuietRelay`). For
the users, three writes of the YAML (`MaxWrites`) allow a start and two changes, or a change,
a crash and a restart; two look-ups suffice for commits in the wrong order. `auth_users`
explores three regions (`MCAuthHelper`): admin requests of all kinds with crashes and failures
and no look-ups (`OnlyAdmins`); look-ups with concurrent, failing and crashing rewrites of the
YAML, whose users do not matter to freshness (`OnlyLookups`); and NTLM handshakes during which a
user is deleted, by a server that does not crash (`Handshakes`). `MaxChallenges` (two) lets a client
answer an old challenge after a new one, and three contexts are as many as one cache slot and
two calls can hold. In the content
store, three uploads against a quota of two files and three bytes reach both limits, and
three icons against two files do the same; `MaxNames` (five of the six file names and
ids in all) keeps the product of the two stores small and still lets each of them use up
its own. `MaxLogins` (two) lets a login replace another, or one browser's meet another's;
downloads run without those of others and before the last tick (`MCDownload`); `CacheExpiration` is two
ticks, `SignIn` and `Stall` one, and `MaxTime` three, so that logins, cookies and consumed
states expire while callbacks run. Symmetry is used over passwords, look-ups, ids, files,
icons, users, requests, hosts and admin requests, none of which the specifications
compare or order.

Deadlock is checked in `web_downloads` and `auth_users`, where a restart is always
possible. Elsewhere it is not: clients may stop sending, ids and writes run out, a crashed
server stays down, and a proxied request ends.

Fairness. `gateway_live` and `gateway_output_closed` assume weak fairness of each
handler's and each forward goroutine's own steps: Go schedules runnable goroutines, and
`DialTimeout` and the provider's call return. The server sets no deadline on a connection
(`main.go:196-202` says why), so a read or write is sure to return only once the other end has
left: the steps that fairness is about contain them under that condition (`PeerLeft`).
Nothing is assumed of clients and desktops that are present; nor of a crash, which
ends the obligation (`~up`). `HandlerEnds` and `BackendReleased` therefore except, explicitly,
a goroutine that stays for ever in a write which a present client or desktop does not read:
the handler of a legacy client that closed its in half and never reads its out half, or
whose desktop stopped reading, does stay, and so does the backend of a client that never reads.
`kdc_proxy` assumes weak fairness of the handler, of each dial
and of each goroutine: dials have a timeout, connections a deadline, and the runtime
schedules both ends of the channel.

## Proofs

All theorems hold for any sets of requests, hosts, users, tokens, ids, files and admin
requests that satisfy the modules' ASSUMEs (`None` is not one of the values, and functions
given as constants have their type).

- `TypeCorrect`: `Spec => []TypeOK`. `TypeOK` alone is not inductive: a step reads
  the fields of `tun[r]`, which must be a Tunnel. `Bound` adds that every running
  handler and forward goroutine has one.
- `StaysOnItsConnection`: `Spec => []StaysOnConnection`. `ConnectionInv` adds that every
  tunnel and transport that a request can reach through cache, tunnel field or
  goroutine carries the request's connection id, and that a forward goroutine's
  tunnel has an output.
- `DialsOnlyOfferedHosts`, `ForwardsItsOwnBackend`, `NoStaleEntries`: every step of a
  processor begins it, lists it, admits a host, dials, starts forwarding, removes it, or
  does none of these (`ProcessSteps`). `ProgressInv` says how far a processor is that has
  admitted a host or forwards. On it rest `OfferInv` (a processor has been offered
  whatever the inventory holds; this uses that a tunnel has its request's connection id,
  hence its user), `BackendInv` (after the dial `rwc` of an unshared tunnel is the
  processor's own until it forwards, since nobody else can dial there) and `EntryInv` (an
  entry's key is its tunnel's `Id`, which only a request that would share the tunnel can
  rewrite).
- `FollowsRelay`: `Spec => ImplementsRelay`. `CourseInv` ties the response under way to the
  present state (it leads to the next one), and a host, a backend and a forward goroutine to
  the states from which they may exist.
- `DialsOnlyTokenHosts` and `DialsOnlyOwnTokenHost`: `Spec => []DialsTokenHost` and
  `Spec => []DialsOwnTokenHost`. `CookieInv` relates a processor's state to whether it
  has shown a cookie, had it accepted by the provider and approved a host (a processor shows
  one cookie at most; the states before it exclude an approved host).
  `TokenInv` then says that the host on a tunnel was named by a cookie shown on that
  tunnel, and that on an unshared tunnel host and
  address are those of its own cookie. Each step shows a cookie, approves a host, writes
  back a host it dialled, or leaves all of these alone.
- `ContentTypeCorrect`, `NoUploadOrphaned` and `UsedUploadsKept`: `Spec => []TypeOK`,
  `Spec => []NoOrphan` and `Spec => KeepsUploads`. `UploadInv` says who may refer to an
  upload: the request that saved it and nobody else, or any number of copies of one
  entry id (`Owned`, `OneEntry`), and that names not handed out are not in use (`Fresh`).
- `StaysWithinQuota`: `Spec => []WithinQuota`, files and bytes. The bytes are a sum over the
  directory (`MapThenSumSet`). What such a sum does when a file is added or removed is
  proved from its definition, by induction in the form of a smallest finite set for
  which the claim fails (`SmallestSet`, from the library's theorem that strict inclusion is
  well founded on finite sets): the sum exists, depends only on the values, and not on the
  order in which elements are taken. `QuotaInv` adds that the directory is finite and that
  its files have names that were handed out, so a new file is really new.
- `UsersTypeCorrect`, `YamlFollowsUsers`, `LookupsAnswerFresh`: `Spec => []TypeOK`,
  `Spec => []FollowsUnlessRaced` and `Spec => []FreshAnswer`, for any number of concurrent admin
  requests and look-ups, with their failures. `WorkFits` says which locals a request holds at
  each point. `Regenerated` says that while no listing has overtaken another there is
  at most one on its way to the file, and either a new one is due, or it is the list of the
  present users, or the YAML is. `Fresh` says that files about to be renamed have
  modification times of their own (`Stamped`), that the map is never older than what its time
  says (`Loaded`), that a look-up that has compared times has nothing to load or is about to load
  something new enough (`Current`), and that what one look-up may still install is not too old
  for another that is about to answer (`Suits`).
- `HelperImplementsUsers`, `NtlmTypeCorrect`, `ChallengesUsedOnce`: `HelperSpec => Spec` and
  the invariants of the NTLM calls. `Issued` says that no two contexts have the same
  challenge, `CacheSound` that a context in the cache belongs to one session and has no
  spent challenge, `CallSound` that a call with a spent challenge works with a context
  that has another one, so it cannot be accepted.
- `IconTypeCorrect`, `OneIconActive`, `ListedIconHasFile`, `NoIconOrphaned`: the
  invariants of `IconStore` follow from one that says what the request in the store is
  doing with which id: ids not handed out are not in use, the list has no duplicates, an
  id being listed or removed is not on the list, and only the request that holds the mutex
  is between two files.
  `ImplementsBranding`: `IconSpec => ShowsChosenIcon`, step by step from that invariant.
  `DashboardImplementsStores`: `DashboardSpec => Spec /\ IconSpec`, so that what is proved of
  the stores holds of the composition, which is what `content_store` checks.
- `KdcTypeCorrect`, `UnavailableMeansNoReply`, `ImplementsRace`: the channel holds each
  goroutine that has sent once, so the messages taken and those waiting count the
  goroutines that sent; when as many were taken as were started, every goroutine has sent,
  and none of those taken was a reply. `Safety => Race!Safety` is the refinement without
  fairness.
- `LoginTypeCorrect`, `StateConsumedOnce`: `LoginInv` adds to the types
  what a callback knows of its login at each point (`Callbacks`), and that the entry of
  a consumed state outlives the login by the time a sign-in takes (`Outlives`). The proof
  shows where the assumption `Stall <= SignIn` is needed: the expiry of the login
  and the eviction of its state use two readings of the clock.
- `LoginAnsweredOnce` and `SignsInOwnAnswer`: `Spec => AnsweredOnce` and `Spec => []OwnAnswer`.
  `AnswerInv` says that a callback past the check uses the transaction its state names, that
  before the exchange that state was consumed and nobody was signed in for it, and that no
  two callbacks are there with one state, since a state is consumed once. `MineInv` says that every
  session, in the browser, in a request or in a response under way, holds a transaction of
  this browser or none, and an identity from one of its logins; it holds only because the
  callback's state is compared with the cookie's transaction.
- `DownloadsImplementLogin`: `DownloadSpec => Spec`, the composition only restricts logins.
  `DownloadTypeCorrect`, `TokenNamesItsOwner`, `TokensForVisibleHosts`: `OwnerInv` says
  that every identity in the cookie or in a request has the name of the owner of its
  access token, `DownloadInv` what a handler has read.

The inductive invariants were checked with TLC on the instances above before they were
proved. Model-checked only: `HandlerEnds`, `BackendReleased`, `NothingLeaks` and the
fairness of `KdcRace` in `FirstReplyWins`, since liveness under fairness and `ENABLED` are
out of the prover's reach; and the violated properties, which are false.

## Plan

What is left, in this order:

1. A promise for shared tunnels of direct gateways: which users can meet on one tunnel when a
   connection id is used by two of them.
2. An abstract specification of the helper's NTLM exchange (a challenge is issued, answered,
   spent) that `AuthHelper` implements.

## Not modelled

- Reassembly of packet fragments (`common.go`, `packet_reader.go`) and the building of
  packets: functions of one connection's bytes, which no other actor changes. `Processor`
  takes their outcome, a packet or an error. A websocket packet larger than the read buffer
  whose first part is too short for a header is neither, and is not covered.
- SPNEGO and Kerberos tickets, cryptography of cookies and tokens: library code.
- Sessions kept in files, `/tokeninfo`, user tokens and query tokens. `getHost`
  (`web.go:438`) has no caller.
- Rendering and translation of pages, `.rdp` formatting and signing, configuration
  parsing, the parsing of proxy headers, metrics, the development client, generated gRPC
  code and the container scripts. They keep no state that several actors change.
