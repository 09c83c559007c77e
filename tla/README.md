# Enxame in TLA+

TLA+ models of Enxame, a messaging network with core servers (Go, gRPC, Redis,
PostgreSQL), relays that forward end-to-end encrypted envelopes, and desktop
clients. TLC checks the models on small instances; TLAPS proves their safety
properties for every instance. `PROJECT.json` lists runs, mutants, source lines,
hazards, findings and theorems.

## 1. The system

| Component (source) | State | Operations | What is hard |
|---|---|---|---|
| Relay sessions (`pkg/relay/session_manager.go`, `server.go`, `transport.go`) | `sessions`, `blacklist`, `channels` (sync.Map), one buffered `SendChan` per session, two counters | ConnectToRelay, StreamMessages (handshake, receive loop, sender goroutine), subscribe/unsubscribe, forward, broadcast, blacklist | goroutines per stream share tables without a common lock; channels are closed by one goroutine and used by others; full buffers drop |
| Node registry (`internal/service/node_service.go`, `internal/repository/redis`, `.../postgres/node_repository.go`) | `node:<id>` keys with a TTL, `nodes` rows with ban columns | RegisterNode, Heartbeat, GetActiveRelays, IsNodeBanned, BanNode, UnbanNode, RemoveNode | two stores without a transaction, read-then-write sequences, expiry, ignored errors |
| Moderation (`internal/service/moderation_service.go`, `internal/server/admin_server.go`) | `moderation_actions`, `content_bans`, Redis Pub/Sub | BanNode, BanContent, alerts, SubscribeToEvents | partial failure, lossy delivery of events |
| Event streams (`internal/server/grpc_server.go`, `stream_manager.go`, `health_check.go`) | sharded map node -> channel, health flag | Register, Unregister, Broadcast, Check | a re-subscription overwrites the channel of the old one, slow consumers lose events |
| Channel governance (`internal/server/channel_manual.go`) | channel objects in a sync.Map with roles and members | CreateChannel, PromoteUser, DemoteUser, KickUser, UpdateChannelAvatar | check-then-store on creation, signed requests valid for 60 s, audit |
| Accounts (`internal/server/auth_manual.go`, `auth_interceptor.go`, `internal/crypto/jwt.go`, `.../user_repository.go`) | `users`, bearer tokens with a role, vault tokens | Register, Login, UpdateUserRole, VerifyMasterKey, authorize | the role of a token is the role at login; the first account becomes owner |
| Cluster (`internal/server/cluster_manual.go`) | `cluster_peers` | RequestJoin, ApprovePeer, SyncNodes, BroadcastNodeRegistration | work done after the request context ends, re-join |
| Relay process (`relay/cmd/relay`, `relay/internal/client`) | registration, heartbeat loop, event subscription | Register, StartHeartbeatLoop, SubscribeToEvents | lost connections, a registration that has expired |
| Identity files (`pkg/client_sdk/client.go`, `relay/internal/crypto/keys.go`, `cmd/gui/app.go`) | a file with an Ed25519 key, the key a program runs with | load or generate, register, export | the file is emptied and written in two steps, a file of the wrong length is replaced, two programs may share one |
| Client SDK (`pkg/client_sdk`, `pkg/relay/client.go`, `pkg/crypto/e2e`, `pkg/storage`) | relay connection, sessions per peer, channel keys, transfers, SQLite | connect, key exchange, send/receive, join channel, send file, tags, wiki | crossing key exchanges, keys that change while cached, reordering, reconnection |

Interaction: a relay registers with a core server and sends heartbeats
(RegisterNode, Heartbeat); a client asks the core server for relays
(GetActiveRelays), opens one StreamMessages stream and exchanges envelopes through
the relay, which looks addressees up in its session table. Bans are stored in
PostgreSQL by the core server, enforced on RegisterNode and Heartbeat, and meant
to reach relays as events; the relay has a blacklist of its own.

What makes each part correct:

* relay: an envelope reaches only sessions of its addressee, carries its real
  sender, in order and once; a session lives exactly as long as its stream;
  closing is done once; a ban disconnects; the counters mean what they say;
* registry: a key means a recent report; a ban in force ends presence; only an
  expired or lifted ban is removed; discovery misses nobody;
* events: no relay hears an event twice, an event gets lost only where a channel is
  full or a stream is gone, and no event ends the server;
* governance: a channel is not replaced by chance, the audit log explains the roles,
  what a handler changes is the channel that others see; accounts: there is one first owner, and a
  role that is withdrawn stops working when the tokens expire;
* cluster: nodes and clients are led only to addresses that somebody vouched for,
  and a client does not forget a peer that is still active;
* client: two peers that finished a key exchange share the key, the key of a channel
  in use is the stored one, a file reported as saved is the one sent, an update
  leaves a program that works, a lost relay leads to an attempt at the next, a worker
  whose stream ended subscribes again, a node keeps the identity it has used.

## 2. Modules

| Module | Models |
|---|---|
| `RelaySessions` | the session table of one relay process and every goroutine that uses it |
| `RelayMail` | the abstract promise of the relay: what is delivered to whom, and how often |
| `NodeRegistry` | registration, heartbeat, bans and discovery over Redis and PostgreSQL |
| `Accounts` | registration, login, roles in tokens, the vault token |
| `ChannelGovernance` | channels, signed role changes, the audit log |
| `Cluster` | `cluster_peers` of the core servers and the client that follows them |
| `EventStreams` | moderation events from Pub/Sub through StreamManager to the relays |
| `LossyBroadcast` | the abstract promise of the event streams |
| `RelayFailover` | relays that report to a core, and a client that moves from relay to relay |
| `GridJobs` | the streams of grid jobs, server and worker |
| `ClientSessions` | key exchange and direct messages of the clients |
| `ChannelKeys` | the key of a channel: row, cache and the goroutines that use them |
| `ClientFiles` | chunks and manifests, sending and saving |
| `SelfUpdate` | download, renames and restart of the program |
| `IdentityFile` | the key file of a node and the programs that share it |
| `Basics` | `None` (nil), shared by the modules above |
| `RelaySessionsProofs`, `NodeRegistryProofs`, `ChannelGovernanceProofs`, `ClusterProofs`, `EventStreamsProofs`, `ClientSessionsProofs` | TLAPS proofs about the module of that name |
| `CoreProofs` | TLAPS proofs about `Accounts` and about the composition `MCCore` |
| `NetworkProofs` | TLAPS proofs about `RelayFailover`, `GridJobs`, `ChannelKeys`, `ClientFiles`, `SelfUpdate`, `IdentityFile` and about the composition `MCNetwork` |
| `MCRelay`, `MCRegistry`, `MCCore`, `MCNetwork` + cfgs | instances for TLC |

`MCCore` and `MCNetwork` put several components into one run. Those components share
no state in the code (or, where they do, the shared part is an input of the model), so
a behaviour belongs to one of them, which `Init` picks as `part`; the state spaces add
up. Components that do interact are modelled in one module: the publisher, the core
server and the relay process in `EventStreams`; relay, core and client in
`RelayFailover`; cores and client in `Cluster`; worker and server in `GridJobs`.

Operators named "Faulty variant" in a comment are mutations: each is a plausible
bug in the definition that follows it, and makes one of the checked properties
fail. No specification uses them.

### RelaySessions

A step is one operation on shared state (a `sync.Map` call, a channel operation, a
locked counter update), so every interleaving of the code's goroutines at that
grain is a behaviour. A direct send is two such steps: the select of sendToSession
(`DirectSend`) and the `messagesRelayed++` under the lock after it (`DirectCount`).

* `sessions`, `blacklist`, `channels`, `activeConnections`, `messagesRelayed` are
  the fields of `SessionManager`. `RegisterSession` makes one `Session` per call,
  so a call of `Stream` or `Call` also names its `Session`; `buf[h]` and
  `h \in closed` are its `SendChan`.
* `pc[p]` is the place of a StreamMessages handler, a ConnectToRelay call or an
  AddToBlacklist call: `new`, then `check`, `replace`, `store`, `count`
  (RegisterSession), `recv` (the receive loop), `fwd`, `lookup`, `send`, `sent`, `range`,
  `rsend` (ForwardEnvelope and broadcastEnvelope), `unreg`, `dec`
  (UnregisterSession), `done`. `sender[s]` is the sender goroutine.
* `panic` is the reason the process died: the relay's gRPC server has no recovery
  interceptor and goroutines have none either, so a panic anywhere ends it. After
  that nothing happens (`Stopped`).
* `LoadAndDelete` and the `close` after it are one step. The caller that gets the
  entry is the only one that closes it; a goroutine that sends in between had
  fetched the pointer before and could have sent just before the `LoadAndDelete`;
  a receiver that sees the close late behaves as if the close were late.
* `Range` over the subscribers follows the contract of `sync.Map`: keys present
  from start to end are visited, keys stored or deleted meanwhile may be, none is
  visited twice.
* Gone from the model: wording, logging, `LastActivity` (only reported),
  `SessionID`, payloads. `via` and `id` of an envelope are history for the
  properties. Node ids have at least 8 bytes, as derived ids do (log lines slice
  them with `[:8]`).
* `OncePerNode` is refinement: `RelaySessions` implements `RelayMail` with the node of
  a call for `owner`, the envelope a stream forwards for `hand`, and what a session has
  been sent or has in its buffer for `mail`. The steps on the session table, the
  blacklist, the subscriptions and the counters stutter; a drop, a target that is not
  connected and the end of a broadcast are `GiveUp` or stutter.
* `AddToBlacklist` is called in this repository only by `tools/relay-test`; the
  relay's core client logs `NODE_BANNED` and does nothing else.

### NodeRegistry

A step is one command to Redis or PostgreSQL. `redis[n]` is the key `node:<n>`
with what is left of its TTL, `nodes[n]` the row with the ban columns (what is
left until `ban_expires_at`, or `Forever` for NULL). `Tick` is the clock of both.
Callers serve RegisterNode, Heartbeat and ModerationService.BanNode one after the
other, without end; AdminServer.BanNode and UnbanNode are one UPDATE each. Every
command may fail: `ReturnError` where the handler returns, `IgnoreError` where it
goes on. Identities are taken as verified (RegisterNode refuses others before it
touches a store). Gone from the model: the `active_relays` sorted set, which is
written and never read (a failing ZADD is modelled, it ends the handler), the
order of an answer of GetActiveRelays (shuffled; preferred regions first), and
SaveModerationAction, whose INSERT fails because `global_moderators` is never
filled and whose error is ignored.

### Accounts, ChannelGovernance, Cluster

`Accounts`: `CreateUser` counts the accounts and inserts the new one in a READ
COMMITTED transaction, which is two steps (`CountUsers`, `InsertUser`). A token is its
user, its role and the ticks it has left; `Authorize` is the interceptor's rule as the
code evaluates it: `/AdminService/` is no substring of the full method names
`/network.v1.AdminService/...`, so the only rule that ever applies is the one for
CreateChannel. `KeepToken` writes memory and then the config table, whose error is
dropped. Every VerifyMasterKey starts a goroutine that sleeps and clears whatever
vault token there is. `lastHeld`, `genesis`, `racing` are history.

`ChannelGovernance`: a handler checks signature and time (`Verify`), loads the object
from the sync.Map (`LoadChannel`) and does the rest under the object's mutex in one
step, the audit row included; CreateChannel is a Load and a Store, so objects that are
replaced may still be in use (`data` is indexed by object, `channels` by name). A
signed request stays in `signed` and may arrive any number of times. It does not name
the operation: the payload of DemoteUser and of KickUser is the same, target, an empty
role, scope, channel and time, so a request signed for one fits the other, and PromoteUser
with an empty role as well (`Fits`). The time check takes the absolute difference, so a
timestamp that lies ahead of the server's clock by up to the window is good, too
(`InWindow`; `Skew` is how far the signers' clocks are off): a request may work for twice
the window. The avatar request has no time check, as in the code. A restart loses channels and handlers.

`Cluster`: ApprovePeer is a SELECT and an UPDATE by id; performInitialSync and
BroadcastNodeRegistration are goroutines (`sending`), the latter with the request's
context, which may be cancelled. The saved list is one string, joined and split at
commas, which no address contains, so the model has the list itself. The client's discoverClusterNodes is three steps (ask,
replace the list, save it). Every core reports the loopback address as its own, so
`SelfAddress` need not be an address of that core (`Dial`).

### EventStreams, LossyBroadcast

`pubsub`, `eventChan`, `filtered` are the queues behind Redis Pub/Sub, `casting` the
goroutines of BroadcastAsync (one per event and shard; a shard is taken to hold one
relay), `streams` the map of StreamManager, `buffer`, `closed` its channels, `wire` what
gRPC carries. Register overwrites, Unregister closes what is there, both under the
shard's lock. `AtMostOnce` is refinement: `EventStreams` implements `LossyBroadcast`
with `published` for `sent`, `dropped` for `lost` and the number of times a relay heard
an event, over all its streams, for `heardOf`. `HasManager` says whether the server has a
StreamManager. The program as built has none: `NewGRPCServer` does not set the field and
nothing calls `NewStreamManager`. With `HasManager = FALSE` the first event ends the
process (run `events_as_built`, the only one that checks `CoreSurvives`). The run
`network` sets it to TRUE: what it shows of `SubscribeToGlobalEvents`, `Register`,
`Unregister` and `Broadcast` is about that code in a server that has a manager, a
configuration the repository does not build. The theorems do not depend on
`HasManager`.

### RelayFailover, GridJobs

A presence key is the ticks it has left; `FailoverTick` waits for heartbeats that are
due, so a heartbeat is late only when the core is down (sendHeartbeat sets no timeout: a
call that hangs, on a connection that lives, is left out). Register is tried once. The
client goes through its list once, in order; `at` is the index, and after the last relay
the goroutine ends (`over`). An attempt fails when the relay is down, and may fail when it
runs (an error of Connect, or an entry without endpoints): `refused` has the indexes
that gave no connection. JoinChannel sets `currentChannel` and then sends the
subscription, both concurrent with a reconnection, which subscribes `currentChannel`.

In `GridJobs` the goroutine that SubscribeToJobs starts sleeps and sends whether or not
its stream lives (`asleep`, and `late` for those of earlier streams). Its Send always
fails, see section 6; so no job arrives, and what is left to check is the worker's loop,
with calls that fail, the pause after them and streams that end at any time.

### ClientSessions, ChannelKeys, ClientFiles, SelfUpdate, IdentityFile

`ClientSessions`: a key is the set of the two key pairs it is derived from. SendMessage
looks for a session under the mutex and lets go of it; a call that found none
(`starting`) starts its exchange in a later step, `InitiateHandshake`, whatever happened
to the session meanwhile. sendSecureMessage does the same and is covered by the same
actions. Handlers change the maps under the mutex and send outside it, so each is two
steps; the line keeps the order (one relay session) and may lose any message.
`ChannelKeys`: `row` is
the database, `cache` the map, `found` what a goroutine has read from the row and not
yet put into the map. Wiki pages and tags are saved in SQLite and then posted under the
key, and received in the same way (`SaveLocal`). `ClientFiles`: chunk files may be missing or damaged after
SendFile, whose write errors are dropped. `SelfUpdate`: a file is none, good or bad;
the process may end between any two file operations. `IdentityFile`: an identity is the
number of its key; os.WriteFile is two steps, between which the process may end; a file
whose length is wrong counts as missing, and so does one that cannot be read.

## 3. Runs

| Run | Expect | Properties | Bounds |
|---|---|---|---|
| `relay_traffic` | pass | TypeOK, InOrderOnce, RelayedMatchesTraffic, SoleStreamHasSession | 2 nodes, 1 channel, 2 streams, SendChan of 2, 3 envelopes |
| `relay_lifecycle` | pass | NoDoubleClose, NoDeadSession, BannedOnlyByRace, NeverUndercounts | 1 node, 2 streams, 1 ConnectToRelay, 1 ban (and unban), SendChan of 1, 1 envelope |
| `relay_liveness` | pass | BufferedIsSent, StreamReleased, OncePerNode (implements `RelayMail`) | 2 nodes, 1 channel, 2 streams, SendChan of 1, 1 envelope |
| `relay_takeover` | violation | StreamHasSession | 1 node, 2 streams |
| `relay_disconnect` | violation | DisconnectIsSafe | 1 node, 2 streams |
| `registry_presence` | pass | TypeOK, BanEvadedByRaceOnly, BannedGoesOffline, SilentGoesOffline | 1 node, 2 callers, TTL of 2 ticks, bans of 1 tick or for ever |
| `registry_listing` | pass | ListComplete | 2 nodes, 1 caller, 1 listing, TTL of 2, limit 1 or 2 |
| `registry_unban` | violation | OnlyExpiredBanIsRemoved | as `registry_presence` |
| `core_services` | pass | accounts: GenesisOwners, RoleIsRecent, VaultIsTimed; channels: AuditExplainsRoles, LoadedIsCurrent, ReplacedByRaceOnly; cluster: OnlyVouchedAddresses, ForgottenOnlyAfterRejoin; TypeOK | 2 users, 1 client, 2 registrations at a time, tokens of 1 tick, 1 role change, 2 unlocks; 2 nodes, 1 channel, 2 handlers, 2 creations, 2 signed requests, 2 deliveries, clocks that agree or differ by a tick, 1 restart; 2 cores, 1 peer, 3 addresses, 2 joins, 1 stop |
| `network` | pass | events: RegisteredIsOpen, OnlyStreamIsRegistered, AtMostOnce, EventsArrive; failover: ListedUnlessMissed, CurrentIsSubscribed, NextRelayIsTried; grid: WorkerResubscribes; client: AgreeUnlessTangled, DisagreementStays, CacheMatchesRow, SavedIsGenuine, IntactCopyRemains, IdentityIsKept; TypeOK | 1 relay, 2 streams, channels of 1, 2 events; 2 relays, 2 channels, TTL 2, 2 faults; 2 goroutines of earlier job streams; 2 clients, 4 key pairs, 1 call between look-up and exchange per direction, 1 chat, 1 restart; 3 keys, 2 pages, 2 restarts; 2 chunks; 3 updates; 2 programs, 3 identities |
| `events_as_built` | violation | CoreSurvives | events part of `network`, no StreamManager |
| `session_retry` | violation | SettledAgree | sessions part of `network` |

Why the bounds are enough. Relay: its races are between calls for one node, and
three such calls with a ban give every pair of RegisterSession, UnregisterSession
and AddToBlacklist at every step, and every triple with a stream that ends. Three
envelopes against a buffer of two fill it and overflow; two nodes and a channel
give echo suppression, a direct send and a broadcast to the same session, and a
subscriber that comes or goes during `Range`. A broadcast that meets an old and a new
session of one node takes three calls and is left to `RelayRefinesMail`. Registry: two callers and the
admin's UPDATE give every pair of read-then-write sequences; a TTL of 2 tells a
renewal from a key that is running out; two keys are what a listing needs to lose
one and keep the other. Accounts: two registrations at a time are the race for the
first account. Channels: two handlers give every pair of Load and mutex section, two
creations replace each other, and two requests, delivered in any order or one of them
twice, give a promotion and its demotion or kick; the window is the tick in which a
request was signed, or the one after it for a signer whose clock is ahead. Cluster: two joins and an approval give the overwritten row before, between and
after the approver's two steps; the stop falls anywhere. Events: two streams of one
relay are the overwritten channel, two events overflow channels of one; relays do not
share a StreamManager entry, so one is enough. Failover: two relays are one failover and
the end of the list. Sessions: four key pairs are two exchanges, crossing or repeated,
with a restart; one call that has looked for a session and has not started its exchange
is what makes the look-up stale. Grid: the number of streams has no bound, only the
goroutines that outlive them. Keys, files, updates: one more than what a single mishap
needs. Identities: one that is used, one made beside it and one after both. The
proofs remove the bounds for the safety properties.

Symmetry is used where nodes, streams or handlers are interchangeable and only in runs
without liveness properties.

Fairness. Relay: weak fairness of each goroutine's own steps once it can run
(RegisterSession, UnregisterSession, ForwardEnvelope, and the sender goroutine and Recv
of a stream whose context is done); nothing is assumed of clients. In particular
stream.Send need not return: flow control blocks it for a client that does not read, and
`relay/cmd/relay/main.go:59-65` sets no MaxConnectionAge that would end such a stream.
`BufferedIsSent` therefore has the client's reading, weak fairness of `SenderDeliver` of
that stream, as its hypothesis, stream by stream; one client that does not read must not
keep another one's envelopes. Registry:
weak fairness of a handler that has started (each command ends, with an answer or
an error) and of the clock. Calls need not come, and bans need not be lifted. Events:
weak fairness of each goroutine of the chain, of a stream's handler and of the relay's
read loop; nothing publishes, subscribes or breaks by necessity. Failover: the goroutine
of connectToBestRelay goes on by itself, and ReceiveLoop notices a relay that is gone; an
attempt may always fail.
Grid: the worker's loop and the server's sleeping goroutines. A call that opens a stream
ends, in a stream or an error; that it does not fail for ever is the hypothesis of
`WorkerResubscribes`. In `FairSpec` of
`MCNetwork` the fairness of the parts that `Init` did not pick is vacuous.

Deadlock is checked in the relay, the registry and `core_services`; a relay that has
died, or whose calls are all over, stutters by `Stopped`. In `network` a part may come
to its end (every event published and every stream used, all relays tried, all updates
made), which is no deadlock of the code, so the check is off there and progress is left
to the liveness properties.

### What the violations show

* `relay_takeover`: a node reconnects; RegisterSession of the new stream replaces
  the old session; then the old stream ends and its deferred
  `UnregisterSession(nodeID)` removes the new one. The new stream stays open and
  can send, but nothing reaches it. `SoleStreamHasSession` says that this takes a second
  call for the same node.
* `relay_disconnect`: the channel is closed while the sender goroutine selects on
  it; it reads nil and `EnvelopeToCommand` dereferences it. The process dies, with
  every session of every node.
* `registry_unban`: a registration or heartbeat reads an expired ban; an
  administrator bans the node again; the `UnbanNode` of the first call clears the
  new ban. `BanEvadedByRaceOnly` says that this is the only way a ban in force is lifted
  without an administrator.
* `events_as_built`: `NewGRPCServer` never sets `streamManager`. The first moderation
  event reaches `startEventBroadcaster`, which calls a method of a nil StreamManager in a
  goroutine without recovery: the core server dies.
* `session_retry`: SendMessage without a session starts an exchange and asks to try
  again. The second try replaces the waiting key pair, the Ack to the first is combined
  with it, and the second Ack finds nothing waiting: both ends have a session, the keys
  differ, and (`DisagreementStays`) once no call is between its look-up and its exchange
  nothing but a restart repairs it.

### Met while modelling, without a run of its own

* The SDK calls CreateChannel without its token, and the interceptor asks for a role: this
  core refuses every channel the SDK creates. `ChannelKeys` takes the answer as an input.
* SendMessage to a channel assigns the key only on a cache miss; with a cached key it
  answers "no key for channel". `SendToChannel` has that as its guard.
* `docs/dev.md:613` says that when the connection falls the next relay is selected; that
  holds until the list has been used up once (`NoRelayLeft`).
* `relay/cmd/relay/main.go:84` logs "will retry" after a failed connection; there is no
  retry. A heartbeat of a key that has expired is refused for good.
* A payload of an event comes out of JSON as a map, which no case of `domainEventToPb`
  matches: relays get the type and no content. handleEvent of the relay only logs.
* BroadcastNodeRegistration reads the active peers with the request's context: when the
  handler returns first, the read is cancelled and no peer is told.
* SyncNodes of a peer only logs; a core reports 127.0.0.1 as its own address.
* "Swap (Atomic Rename)" in DoUpdate is two renames. After a download that was taken for
  good although it is not, or a rollback that failed, the next update may remove the last
  intact copy; `IntactCopyRemains` is stated without those two cases.
* `channel_manual.go:138` says "Must be Owner or Admin" and `:141` "Only ADMIN/OWNER can
  promote."; the code asks for the role ADMIN only. The owner of a channel has it from
  CreateChannel and loses it when an administrator demotes or promotes them to another
  role; from then on the owner is refused, and a channel without an administrator stays
  without one.
* A signed governance request has no nonce: within its window it may be delivered again,
  and undo what was decided in between. One signed for DemoteUser also works as KickUser.
* ExportIdentity copies the key file and not the key in use. loadOrGenerateIdentity and
  LoadOrGenerateKeyPair make a new identity on every error of ReadFile, and two programs
  that start at once on an empty profile make one each, of which the file keeps the last;
  `IdentityIsKept` is stated without these two cases.
* The map `channelKeys` is used without a lock in places; the runtime may end the program
  for it, which the model has as a restart.

## 4. Proofs

Eight modules prove what the runs check on small instances for all values of the
constants: all sets of nodes, calls, streams, users and addresses, all sizes and
lifetimes, and whatever the bounds that make the instances finite. Every module has one
inductive invariant that holds initially and that every step keeps (`Invariance`, or
`...Invariance` where a module proves several); the theorems follow from it.

| Module | Theorem | States |
|---|---|---|
| `RelaySessionsProofs` | `TypeCorrect` | `[]TypeOK`, the bound on every SendChan included |
| | `DeadSessionsLeave`, `ClosedAtMostOnce` | `[]NoDeadSession`, `[]NoDoubleClose` |
| | `BanIsRaceOnly` | `[]BannedOnlyByRace` |
| | `SendersAreAuthentic`, `RoutingIsRight` | `[]SenderAuthentic`, `[]RoutedToAddressee` (the runs check them as part of `OncePerNode`) |
| | `DeliveryInOrder` | `[]InOrderOnce` |
| | `CountCoversTable`, `RelayedIsTraffic` | `[]NeverUndercounts`, `[]RelayedMatchesTraffic` |
| | `RelayRefinesMail` | `OncePerNode`: `RelaySessions` implements `RelayMail` |
| | `SoleStreamStaysRegistered` | `[]SoleStreamHasSession` |
| `NodeRegistryProofs` | `RegistryTypeCorrect` | `[]TypeOK` |
| | `ListingsAreComplete` | `[]ListComplete` |
| | `EvadedByRace` | `BanEvadedByRaceOnly` (action property) |
| `CoreProofs` | `AccountsTypeCorrect` | `[]AccountsTypeOK` |
| | `OwnersAreFirst`, `RolesAreRecent`, `VaultTokensAreTimed` | `[]GenesisOwners`, `[]RoleIsRecent`, `[]VaultIsTimed` |
| | `CoreImplementsParts` | a behaviour of `MCCore` is one of `Accounts`, of `ChannelGovernance` and of `Cluster` |
| | `CoreTypeCorrect` | `[]TypeOK` of `MCCore` |
| `ChannelGovernanceProofs` | `GovernanceTypeCorrect` | `[]GovernanceTypeOK` |
| | `LogExplainsRoles` | `[]AuditExplainsRoles` |
| | `LoadedStaysCurrent` | `[]LoadedIsCurrent` |
| | `ReplacedByRace` | `ReplacedByRaceOnly` (action property) |
| `ClusterProofs` | `ClusterTypeCorrect` | `[]ClusterTypeOK` |
| | `AddressesAreVouched`, `ForgottenAfterRejoin` | `[]OnlyVouchedAddresses`, `[]ForgottenOnlyAfterRejoin` |
| `EventStreamsProofs` | `EventsTypeCorrect` | `[]EventsTypeOK` |
| | `RegisteredStaysOpen` | `[]RegisteredIsOpen` |
| | `OnlyStreamStays` | `[]OnlyStreamIsRegistered` |
| | `StreamsRefineBroadcast` | `AtMostOnce`: `EventStreams` implements `LossyBroadcast` |
| `ClientSessionsProofs` | `SessionsTypeCorrect` | `[]SessionsTypeOK` |
| | `SettledShareKey` | `[]AgreeUnlessTangled` |
| | `DisagreementIsStuck` | `DisagreementStays` (action property) |
| `NetworkProofs` | `FailoverTypeCorrect`, `GridTypeCorrect`, `KeysTypeCorrect`, `FilesTypeCorrect`, `UpdateTypeCorrect`, `IdentityTypeCorrect` | types of the six modules |
| | `ReportingIsListed`, `CurrentStaysSubscribed` | `[]ListedUnlessMissed`, `[]CurrentIsSubscribed` |
| | `CachedKeyIsRow`, `SavedFilesAreGenuine`, `IntactCopyStays`, `IdentityStays` | `[]CacheMatchesRow`, `[]SavedIsGenuine`, `[]IntactCopyRemains`, `[]IdentityIsKept` |
| | `NetworkImplementsParts` | a behaviour of `MCNetwork` is one of each of its eight components |
| | `NetworkTypeCorrect` | `[]TypeOK` of `MCNetwork` |

Assumptions. Each module names the assumptions on its constants, and TLC evaluates them
on the runs. They are of three kinds: sizes and lifetimes are natural numbers (with a
buffer of at least one, and a TTL longer than the heartbeat interval, as configured in
the code); kinds of identifiers are disjoint; and `None` is none of the values a variable
may have besides it (`NoneAssumption`, `MissingAssumption`, `AccountsNoneAssumption`,
`GovernanceNoneAssumption`, `ClusterNoneAssumption`, `SessionsNoneAssumption`), as nil is
none of the program's values. `MCNetwork` is made of the eight parts it has
(`PartsAssumption`). `RelayFailover` has finitely many hosts.
Nothing is assumed of the number of calls, restarts, losses and failures.

### The arguments

**Relay.** `NoDeadSession` is not inductive: that a table entry is alive depends on how
it got there. `Inv` adds to the types

* `TableInv`: an entry is open, filed under its own node, and its handler is past
  Store and not past its own UnregisterSession. This is the heart: the deferred
  UnregisterSession works by node id and so removes whatever the node has, its own
  session included;
* `ClosedInv`: a Session that is not stored yet has not been closed;
* `NodeInv`: a call that has begun works for one node;
* `ForwardInv`: a stream that forwards holds an envelope of its own, and a Session
  that was looked up under the addressee's id.

`NoDoubleClose` follows from `TableInv`, since only entries are closed.
`BannedOnlyByRace` needs `PassedInv`: a registration that is past the check for a
blacklisted node is one of the racers recorded by the ban. `SenderAuthentic` and
`RoutedToAddressee` follow from `TrafficInv`, what is right about every envelope in
a SendChan or already sent, and from `Stable`: a call keeps its node and a stored
Session stays stored, so what was right stays right after the session is gone from
the table. `InOrderOnce` needs `OrderInv`: what a session has from a stream was read
before the envelope the stream has in hand, or is that envelope, handed out by a
broadcast whose Range has been at the node of this session and is not there now
(`Visited`); since a Range visits no key twice and an entry is filed under its own node,
no session gets it again. `NeverUndercounts` needs `CountInv`, which adds that the sets
it counts are finite: each step adds at most one element. `RelayedMatchesTraffic` is an
equation of the sizes of two sets of places, one place for every delivery and one for
every delivery that its handler has still to add to `messagesRelayed`; `RelayedInv` adds
that both are finite, a send adds one place to each, and the locked update after a direct
send or at the end of a broadcast moves the places of that handler into the counter.

That the relay implements `RelayMail` rests on `OrderInv` and on `FreshInv` (a call that
has not begun works for no node), one step of `RelayMail` for each action. The step that
says something is `BroadcastSend`: `Visited` has the node of the session it sends to not
yet served, so no session of that node, the replaced ones included, has the envelope.
`SoleInv` is the table half of `SoleStreamHasSession`: a deferred UnregisterSession and a
replacing RegisterSession work by node id, so an entry whose node has one call only is
taken out by that call alone; that it is open follows from `TableInv`.

**Registry.** `RaceInv`: a caller that is past its SELECT on the row of a node whose ban
is in force is one of the racers; both halves of
`BanEvadedByRaceOnly` follow from it, step by step. `SteadyInv`: the relays a listing
counts on are still to be read or in the answer already.

**Accounts.** `PendingInv`: a registration that is going to make an owner counted before
the first commit. `RecentInv` adds what a token has left to the time since its account
had the role: the sum never exceeds the lifetime, and a tick moves one unit from the
first to the second.

**Channels.** `ObjectInv`: an object belongs to one name, and as long as a name was
stored once, the object in the map is the one in the hands of its handlers. `CallInv`: a
creation whose name is in use by now has been overtaken. With them a row and the change
it records concern the same object, and `RowDecides` and the lemmas after it say what a
new row does to the roles the log gives. `LoadedIsCurrent` is a conjunct of `ObjectInv`.

**Cluster.** `FineInv` follows an address from the row through approval, broadcast and
answers to the client's lists. `LearnedInv`: what a client has learned from a core is
still active there or was overwritten, and an answer on its way has all of it.

**Events.** `ShardInv`: an entry of the StreamManager is open and belongs to its relay,
because Unregister removes what it closes, under the lock. The refinement needs
`PlaceInv`: an event is at one place at a time on its way to a relay (a queue, a
goroutine of BroadcastAsync, a channel, the wire, heard, lost), and once at each; so a
step that hears it makes the count of `LossyBroadcast` 1 from 0, and a step that drops
it finds it not heard.

**Sessions.** `MessageInv`: key pairs are fresh, so a session has two different ones,
and an Ack names one that its sender made. `ExchangeInv`: two clients that are not
tangled are at rest, with the same key if both have one, or have exactly one Init or Ack
between them, waiting to be sent or on the line; what arrives next then completes the
same key at both ends (`Starting`, `Answering`). An exchange that a call starts although
its client has a session by now tangles them. `DisagreementStays` follows from what
kinds of steps there are: those that pass chat messages on, those of an exchange, which
needs a message under way, a call that is about to start one or a client without a
session, and restarts.

**Client.** `RenewalInv`: a key outlives the next heartbeat by what the TTL exceeds the
interval. `LoopInv`: JoinChannel subscribes the channel it has set. `CopiesInv` of the
update: which of the three files is intact at each place of DoUpdate. `MakerInv` of the
identity: a program that makes one is alone in that and the file holds none, and a program
that runs has the key in the file. Keys and files are
inductive with what their goroutines have in hand.

**Composition.** A step of `MCCore` or `MCNetwork` is a step of one component that leaves
the variables of the others alone, so it is a step or a stutter of each; hence every
theorem about a component holds of the composition, and the type theorems give `TypeOK`.

### Only model-checked

* Liveness (`BufferedIsSent`, `StreamReleased`, `BannedGoesOffline`, `SilentGoesOffline`,
  `EventsArrive`, `NextRelayIsTried`, `WorkerResubscribes`): it rests on fairness and ENABLED,
  which the prover does not handle.
* The properties of the runs that expect a violation, which are false.

## 5. Plan

All components of the inventory that have state worth checking are modelled, and every
safety property the passing runs check, refinements and action properties included, is
proved. What is left:

1. Liveness by hand: the invariants on which `StreamReleased` and `EventsArrive` rest
   could be proved, but not the step from fairness to the conclusion.
2. The safety half of `BufferedIsSent`: an abstract buffer between `RelayMail` and the
   sender goroutine.

## 6. Not modelled

The GUI and its generated bindings, configuration, command lines, Kubernetes
files, the load simulator and generated protobuf code have no state worth checking.
Cryptography is taken as perfect: a signature is valid or it is not, a key opens what
was closed with it.

The messages of `pkg/pb/v1/manual_extras.go` (the Channel, Cluster, Auth and Grid
services) are plain structs: they do not implement `proto.Message`, and the repository
registers no codec of its own, so that gRPC (v1.78) cannot marshal them and as built every
call of these services that carries one fails before or after its handler.
`ChannelGovernance`, `Accounts` and `Cluster` model the handlers and their callers as
written, as if the messages could be carried; what they show is about that code.
`GridJobs` models what happens: no job is ever delivered.

The rate limiter is never installed. The health flag repeats the
last ping of the stores for the orchestrator's probes. The client's handlers of join,
key and chunk requests and answers are never reached (no code sends a request), and
SetChannelConfig, CreateTag and UpdateChannelAvatar of the client refuse every call,
because the members it stores all have the role MEMBER. Content bans store nothing:
their INSERT refers to a moderator, and no code stores one. Statistics, listings and
searches only read.
