# A verification project for ZerithDB

ZerithDB is a local-first database for browser applications.  Data lives in
IndexedDB and in Yjs documents (CRDTs); tabs find one another through a
signaling server, talk over WebRTC data channels and exchange document updates.
This directory holds TLA+ models of the parts in which steps of several actors
interleave, TLC configurations that check them on small instances, and proofs
that TLAPS checks for every size of instance.

`PROJECT.json` lists the components, runs, mutants, hazards and theorems and maps
every modelling definition to the source lines it stands for.

## 1. The system

| Component | State | Operations | Hard behaviour |
|---|---|---|---|
| `SyncEngine` (`packages/sync/src/sync-engine.ts`) | open Y.Docs and their y-indexeddb databases, `pendingUpdates`, `syncTimer`, `_enabled`, `_state` | `enable`, `disable`, `dispose`, `getDoc`, the update handler, `queueUpdate`, `flushUpdates`, `handleLocalUpdate`, `handleRemoteUpdate`, `flushOutbox`, peer and visibility events | every handler awaits IndexedDB in the middle; several run at once over one outbox; guards are read before the awaits and used after them |
| Offline queue (`packages/sync/src/queue`) | outbox and inbox tables | `enqueue`, `getPending`, `acknowledge`, `markFailed`, `count` | rows outlive the tab; a request can be rejected |
| `EphemeralStateManager` (`ephemeral-state.ts`) | last state and sequence number per peer, one throttle timer | set, patch, remove, receive, prune, `enable`, `disable`, `dispose` | throttled removal against a later set; tombstones against delayed messages |
| `NetworkManager` and transports (`packages/network/src`) | transport, peer table, reconnect timer | `connect`, failover, signaling messages, `createPeer`, `dispose` | reconnect, dispose during connect, duplicate offers, WebSocket to polling fallback |
| Signaling server (`infra/signaling-server/src/server.ts`) | rooms, polling sessions with queues and pending responses | join, relay, poll, send, leave, expiry | two transports in one room, session expiry against rejoin, one room re-created while an old socket closes |
| Scheduler (`packages/zerithdb-scheduler`) | known peers, current leader, heartbeat and timeout timers, tasks, ticks under way | `start`, `dispose`, elections, heartbeats, `tick` | the peers of the mesh elect the highest id by connection events and silence; late timers, overlapping ticks |
| SharedWorker client and host (`packages/react/src/shared-worker*.ts`) | app instance, ports, subscriptions, pending requests | init, request, subscribe, unsubscribe, dispose | dispose against init, request ids |
| `DbClient`, `GraphClient`, backups (`packages/db/src`) | IndexedDB tables, schema version, backup timer and the backup in flight | insert, find, update, delete, clear, nodes, edges, backup | read-modify-write without a transaction; schema upgrade reopens the database |
| `AuthManager` (`packages/auth`), `AuditManager` (`packages/audit`) | key in memory and in storage; log of signed entries | `signIn`, `generateIdentity`, `signOut`, `recoverIdentity`; append, verify | awaits between making a key and setting it (not modelled, see section 6) |
| wasm-crypto | tables of logarithms | Shamir split and combine over GF(2^8) | arithmetic in a byte |
| Migration tools (`packages/migrate`) | documents converted so far, an offset or cursor into the source | three adapters (Supabase, Firestore, Firebase Realtime), `migrate` | paging through a source in use, a page or a row that fails in the middle |
| SDK, UI bindings, GraphQL, CLI, devtools, Python SDK, web site | little or none | adapters | not modelled (see `PROJECT.json`) |

How they interact: the application writes to a collection; `SyncEngine.getDoc`'s
update handler batches the update and `flushUpdates` starts one
`handleLocalUpdate` per collection, which enqueues a row in the outbox and, if a
peer is connected, broadcasts it through `NetworkManager` and deletes the row.
`enable()` and each new connection start `flushOutbox` over what is left.  At
the other end `NetworkManager` emits `message`, and `handleRemoteUpdate` puts a
row in the inbox, merges the update in the document with the origin `remote` (so
that the update handler ignores it) and deletes the row.

### What makes each part correct

* SyncEngine: no local write is lost between the document and the network; a
  document only ever holds what some peer wrote; received updates are not sent
  on; what the application is shown of the queue is right; connected peers
  converge.
* Ephemeral state: what is shown of a peer never goes back, those who listen end up
  showing its latest change, and peers that have left fade.
* Signaling server: a room's members are the live sockets and sessions; of two members
  exactly one is told of the other; polled messages come in order and once; a room with
  peers in it is never deleted; whoever is gone leaves.
* Network manager: a peer has one transport; a lost one is replaced; after `dispose` nothing
  comes back; two peers that meet in a room get connected.
* Scheduler: connected peers agree on one leader, whoever follows notices the leader's silence,
  tasks run where the leader is.
* SharedWorker: every request is answered; a tab keeps its app; no subscription outlives its tab.
* Database: documents come and go by the calls made, edges join existing nodes, no backup
  runs after `stop()`.
* Migration: a row of the source becomes one document, or a warning tells of it.
* Recovery: a threshold of shards gives back the secret they were made of.

## 2. The plan

The order was by how much the rest of the system rests on each part; all of these are done.

1. `MutationQueue`, `SyncEngine`, `Replication`, `MCSync`: the way of an update.
2. `SyncEngineProofs`, `SyncRefinementProofs`.
3. `EphemeralState` (managers over lossy, reordering channels), proofs of its safety.
4. `SignalingServer` (rooms, sockets, polling sessions), proofs of its safety.
5. `NetworkManager` over the two transports and their servers, proofs of its safety.
6. `Scheduler` (election over the mesh, task ticks), proofs of its safety.
7. `SharedWorker` composed with `LocalStore` (collections, graph, backups), proofs of their safety.
8. `Recovery` (shards, GF(2^8)).
9. `Migration` (three adapters over a source in use), proofs of its safety.

What could follow: `NetworkManager` composed with the full `SignalingServer` instead of rooms of its
own; `SyncEngine` with plugins, signed broadcasts and two tabs over one outbox; schema upgrades.

## 3. Modules

| Module | What it is |
|---|---|
| `MutationQueue` | rows of the outbox and inbox and what each `BaseQueue` call does to a table |
| `SyncEngine` | one engine per peer over its tables and the data channels |
| `Replication` | the abstract specification: written updates, replicas, saved data |
| `MCSync` | instances of `SyncEngine` for TLC |
| `SyncEngineProofs` | type correctness and the four safety invariants, proved |
| `SyncRefinementProofs` | `SyncEngine` implements `Replication`, proved |
| `EphemeralState`, `MCEphemeral` | one `EphemeralStateManager` per peer over the data channels; its instances |
| `EphemeralProofs` | type correctness, `NeverBackwards`, `AudienceAgrees`, `UpdatesArrive`, proved |
| `SignalingServer`, `MCSignaling` | rooms, sockets, polling sessions, their clients; the instances |
| `SignalingProofs` | type correctness, `RoomsHoldTheLiving`, `Introduced`, `PolledInOrder`, `NoPollSleeps`, proved |
| `NetworkManager`, `MCNetwork` | one `NetworkManager` per peer, its dials, transports, timers and peers, and the servers between; its instances |
| `NetworkProofs` | type correctness, `OneTransport`, `KeepsTrying`, `DisposedIsClosed`, proved |
| `Scheduler`, `MCScheduler` | one scheduler per peer over the mesh; its instances |
| `SchedulerProofs` | type correctness, `OneLeader`, `FollowersWatch`, `RunnersLead`, proved |
| `LocalStore` | the database of an app and the calls that run on it: collections, a graph, backups |
| `SharedWorker`, `MCWorker` | tabs, their bridges and ports, the worker's contexts, over `LocalStore`; the instances |
| `WorkerProofs` | type correctness of both, `EdgesJoinNodes`, `DocsAnswerToCalls`, `StopWaits`, `SubscriptionsEndWithTab`, `KeepsItsApp`, proved |
| `Migration`, `MCMigration` | an adapter that reads a changing source page by page, and what it makes of the rows; its instance |
| `MigrationProofs` | type correctness, `LossIsTold`, `ExportedOnce`, proved |
| `Recovery`, `MCRecovery` | the shards of a secret and its recovery from them, as the assembly computes them; the instance |

### State and actions of SyncEngine

JavaScript runs to completion, so one action is the code between two awaits.  A
call of `handleLocalUpdate` is a row in `adding` (its `table.add` is in flight) and
then, if it was sent, in `acking`; a call of `flushOutbox` is a record in `flushes`
with its continuation (`query`: `getPending` in flight; `ack`: `acknowledge` in
flight, with the rows still to do); a call of `handleRemoteUpdate` is a record in
`inbound`.  The request takes effect on the table in the step that resumes the
call; a request of a tab that goes away has or has not taken effect (`Restart`).
An update is an element of a constant set; a merged payload is a set of them;
merging in a document is set union, which is what a CRDT promises.

| Code | Model |
|---|---|
| `docs`, `persistences`, y-indexeddb's databases | `doc`, `opened`, `stored` |
| `pendingUpdates`, `syncTimer` | `pending`, `timer` |
| `outbox`, `inbox` tables | `outbox`, `inbox` |
| `_enabled`, `_state` | `enabled`, `shown` |
| `NetworkManager.peers` with `connected` | `conn`; the real connections are `link`, packets under way `wire` |
| `document.visibilityState` | `visible` |
| the update handler, `queueUpdate` | `LocalWrite`, `LoadDoc`, `QueueUpdate` |
| `flushUpdates` | `FlushUpdates` in `TimerFires` and `TabVisible` |
| `handleLocalUpdate` | `OutboxAdded`, `OutboxAddFails`, `LocalAcked`, `LocalAckFails` |
| `flushOutbox` | `StartFlush`, `FlushQueried`, `FlushAcked`, `FlushFails` |
| `onPeerUpdate`, `handleRemoteUpdate` | `Deliver`, `InboxAdded`, `InboxAddFails`, `ApplyThrows`, `InboxAcked`, `InboxAckFails`, `InboxMarkedFailed` |
| `enable`, `disable`, `dispose` | `Enable`, `Disable`, `Dispose` and `Disposed` (after its awaits) |
| `onPeerConnected`, `onPeerDisconnected` | `PeerConnected`, `PeerDisconnected` |

Where the model is coarser than the code: `acknowledge` and `markFailed` read the
row before they write it, here in one step with the write (a row is never
re-inserted, so a second acknowledge of it finds nothing or deletes nothing);
`refreshPendingCount` calls in flight are one flag, since only the last answer
stays; rows have the flush number for a timestamp and no random id.  Not
modelled in `SyncEngine`: plugins and upgrade offers, biometric signing (which
makes `broadcast` asynchronous), a failing `markFailed` or count, several tabs over
one outbox, the byte layout of a message, an engine used again after `dispose`.

### State and actions of EphemeralState

A handler of the manager is synchronous, so it is one action.  With biometric signing
the network manager awaits a signature before it sends (`signing`, `Sign`) and a
verification before it delivers, so the messages of a peer in `Signed` may overtake one
another (`Receive`); those of the others keep the channel's order.

| Code | Model |
|---|---|
| `localState`, `sequence`, `states`, `enabled` | the same names; a state is the number of the change that made it, `{}` is 0 |
| `broadcastTimer` and the `remove` its callback captured | `broadcastTimer`: `none`, `state`, `remove` |
| `setLocalState`, `patchLocalState`, `setLocalField` | `CommitLocalState` |
| `removeLocalState` | `RemoveLocalState` |
| `broadcast`, `flushBroadcast` | `Broadcast` (three disjuncts for its three ways out), `FlushBroadcast` |
| `onNetworkMessage` | `Receive`, `OnNetworkMessage`, `Takes` |
| `pruneStalePeers` | `Prune` |
| `enable`, `disable`, `dispose` | `Enable`, `Disable`, `Dispose` |

`receivedAt` always has the keys of `states`; its times are left out, so `Prune` may find
any set of remote peers stale at any time.  `heard`, `meant` and `audience` are history
variables of the properties.

### State and actions of SignalingServer

A handler of the server runs to completion and is one action.  A room is a Set object
that the handlers of a socket keep by reference, while everyone else looks the room up by
its id; so `rooms[r]` is the name of a Set object (the connection for which it was made),
`members` its entries and `home[w]` the one the handlers of socket `w` captured.

| Code | Model |
|---|---|
| `rooms`, the Sets in it, the `room` a socket's handlers close over | `rooms`, `members`, `home`, `joined` (a Set keeps the order of insertion) |
| a socket's `readyState` | `socket` |
| `pollingSessions`, `messageQueue`, `pendingResponse` | `session`, `messageQueue`, `pendingResponse` (`dead`: the client of the response has gone) |
| connection, `close`, `error` handlers | `SocketConnects`, `SocketClose`, `SocketError` |
| `handlePollJoin`, `handlePollMessages`, `handlePollLeave` | `PollJoin`, `PollMessages`, `PollLeave` |
| `relayMessage`, `broadcastToRoom`, `deliverToPeer`, `enqueuePollingMessage` | `Unicast`, `Broadcast`, `Deliver` |
| the long poll's timer and `close` | `PollEnds` |
| the interval over the sessions, `cleanupPollingSession` | `Expire`, `CleanupPollingSession` |
| `PollingTransport` (client) | `ResponseArrives`, `PollFails`, `ClientCloses`, `Abandon` |

Messages are numbered; what an open socket is sent is not followed.  A session expires
only when no response waits: a poll renews the session and is answered within 30 s, and
60 s without activity expire it.  Not modelled: tokens, malformed requests, the health
endpoint, SIGTERM.

### State and actions of NetworkManager

A call of `connect()` is an entry of `connects`, which tries its URLs one by one and, when a
dial succeeds, is also the transport; `transport[p]` names the current one.  Each URL is a
server with one room (`members`, `mail`), so peers that failed over to different servers do
not meet, as with the code.

| Code | Model |
|---|---|
| `connect`, `connectToUrl` | `Connect`, `StartConnect`, `DialFails`, `NextDial` |
| `connectWebSocket`, `connectPolling`, `attachTransport` | `DialSucceeds`, `AttachTransport` |
| the transport's close handler, `scheduleReconnect`, its timer | `TransportLost`, `ScheduleReconnect`, `TimerFires` |
| `reconnectTimer` | `reconnectTimer` says whether the timer it names is armed (one that has fired stays there, and clearing it changes nothing); `forgotten` counts the armed timers that a later one replaced there |
| `dispose` | `Dispose` |
| `handleSignalingMessage`, `createPeer` and the handlers of a `SimplePeer` | `HandleSignalingMessage`, `CreatePeers`, `Signal`, `SendSignal`, `ChannelOpens`, `PeerCloses` |

The model shows, next to its properties: the first peer list of a polling transport is
always lost, since its microtask runs before the one that attaches the handler; a dial under
way, or a timer that a second loss made `reconnectTimer` forget, connects a disposed manager
again; a reconnect round in which every URL fails schedules no other (`RetriesInBackground`
states the guide's sentence to the contrary); a peer that comes back can wait for ever for
one that still has the old connection in its table.  Left out: media streams, names and ENS,
backoff times, a dial that fails after the server took it in.

### State and actions of Scheduler

| Code | Model |
|---|---|
| `activePeers`, `currentLeader`, `heartbeatTimer`, `timeoutTimer` | the same names |
| `electLeader` with the listeners it calls | `ElectLeader` |
| `onPeerJoin`, `onPeerLeave` and the network's events | `PeerConnected`, `PeerDisconnected` |
| the heartbeat's interval and the handler of `leader:heartbeat` | `Heartbeat` |
| the callback of `resetLeaderTimeout` | `TimeoutFires` |
| `Scheduler` | `Construct`, `Start`, `Dispose`, `AddTask`, `RemoveTask` |
| `TaskRunner`'s interval, `tick`, `runTask` | `running`, `Tick`, `HandlerEnds`; `ticks` are the ticks under way |

Timers have no times: an armed one may fire, which is what a throttled tab with late
heartbeats sees.  The model keeps what the code does and no text promises: `dispose` leaves
the listeners, so a disposed scheduler runs again on a peer event; the timeout of a
follower that became leader stays armed and the leader counts itself out; one that lost its
place goes on sending heartbeats; a tick that outlasts the interval lets a task run twice.

### State and actions of SharedWorker and LocalStore

A call on the database is a chain of IndexedDB requests, one action each; `call[c]` is what
remains of caller `c`'s.  Callers are the tabs, whose calls come from the worker, and pages with
an app of their own.  A request may be rejected at any point (`CallFails`).

| Code | Model |
|---|---|
| `insert`, `insertMany`, `update`, `delete`, `clearAll` | `Insert`; `InsertMany`; `UpdateFinds`, `UpdatePuts`; `DeleteFinds`, `DeleteErases`; `ClearAll` |
| `addNode`, `addEdge`, `removeEdge`, `removeNode` | `AddNode`; `AddEdge`; `RemoveEdge`; `RemoveListsEdges`, `RemoveCutsEdges`, `RemoveDropsNode` |
| `LocalCloudBackupAdapter` | `BackupNow`, `BackupStart`, `IntervalFires`, `Exported`, `BackupEnds`, `BackupStop`, `StopReturns` |
| `SharedWorkerBridge` | `Construct`, `Lose`, `MakeRequest`, `Subscribe`, `Unsubscribe`, `Dispose`, `HandleMessage` |
| `contexts`, the `AppContext`s, `portToSubscriptions` | `context` (named by the tab whose init made it), `ports`, `subscriptions`, `portSubscriptions` |
| `handleMessage` and what it calls | `OnInit`, `OnRequest`, `Refuse`, `RequestEnds`, `OnSubscribe`, `OnUnsubscribe`, `OnDispose`, `DisposeEnds` |

A document is the set of fields it has and a filter the fields it asks for: enough for the races
of finding and writing.  The two index queries of `removeNode` are one step.  The model keeps that `update()` brings back a
document deleted between its two requests, that an edge added while its node is being
removed stays, that an `unsubscribe` carries a fresh id and removes nothing, and that a tab whose
init comes while the last one's `dispose` awaits joins a context that is then deleted, and is
refused from then on.  Left out: reads, what subscriptions and state broadcasts post, requests for sync,
auth and network, schema upgrades (what becomes of
calls in flight when Dexie closes a database is not in this repository), biometric prompts.

### State and actions of Migration

A request to the source is one action with what is done with its answer; between two requests
the users of the source insert, update and delete rows.  Of the fields of a row the model has what decides
whether it converts: each is absent, converts, or is taken for a date and is none (`Values`).

| Code | Model |
|---|---|
| `tables`, `collections` and where the loop is | `progress` |
| `offset`, `lastDoc` | `cursor` |
| `result`, `docs` | `docs` (how many documents a row became) |
| the warnings of `onProgress` | `unconverted`, `warned` |
| listing and `filterTables`, `filterCollections` | `ListCollections`, `Wanted` |
| the counts | `Count`, `CountFails` |
| the loops over pages | `FetchRange`, `FetchRangeFails`; `FetchAfter`, `FetchAfterFails`; `FetchTree`, `FetchTreeFails` |
| the loop over the rows of a page | `Convert`, `Throws` |
| `migrate` after the adapter | `WriteOutput`, `WriteFails`; a rejection is `Throw` |

What the model shows next to its properties: Supabase's ranges name no order, so a row that is written or
removed between two of them shifts others out of the next range, or into it again, and nobody is
told; a server that answers fewer rows than a batch ends the loop after the first page.  The references and ISO times
that `mapSupabaseType` and `convertFirestoreValue` compute are thrown away (`data: row`, `data: rawData`); all
that is left of the conversion is that it may throw.  The set of foreign keys holds
`column:table`, which `has(columnName)` never finds.  A batch size of 0, which the model's assumption excludes, never ends for Firebase.

What a document keeps of its row is not modelled, and this is a case where the code does less than the
package's README says ("**No data loss** — All original field values are preserved", `packages/migrate/README.md:184`):
`firebase-realtime.ts:84-88` deletes the time fields of a Firebase node from its data.  A `createdAt` or `updatedAt` that
is no date, and a `lastModified` beside an `updatedAt`, are then kept nowhere.  It takes one row to see
this, and no check of this project says the contrary.

### State and actions of Recovery

The bytes of a secret are shared one by one, so a secret is one byte.  The tables, `gfMul`, `gfDiv`,
`polyEval` and the interpolation (`Interpolate`) are those of the assembly, `splitSecret` and `recoverSecret` its two
exported operations.  `recoverSecret` is given a threshold of shards or more, in any order.

This is the assembly by itself.  Its wrapper (`packages/wasm-crypto/src/index.ts`) instantiates the committed build
(`wasm-base64.ts`) with `env.abort` only, and the build also imports `env.seed`.  So `getWasm` rejects with a
LinkError, `generateRecoveryShards` rejects, and `recoverIdentity` always takes its `catch` branch
(`auth-manager.ts:201-207`) and changes nothing: no identity is lost to the wrong tables until the build loads.

## 4. What is checked

| Run | Question | Bounds |
|---|---|---|
| `sync_writes` | `TypeOK`, `NoWriteForgotten`, `FlushArmed`, `PendingCountFresh`, `NoEcho`, `Replicates` | 2 peers, 1 update, 1 flush and 2 received packets at once, 1 link, 1 failure, 1 reload |
| `sync_live` | `WritesAreSent`, `ConvergesOverStableLinks` | 1 update, 2 links (a reconnect), the writer hides its tab, disables and disposes |
| `sync_eventual` | expected to fail: `EventualConsistency` | 2 links |
| `ephemeral` | `TypeOK`, `NeverBackwards`, `AudienceAgrees`, `UpdatesArrive`, `DepartedFade` | 2 peers: 3 changes of one that is throttled and may disable and dispose, 2 of one that signs; 2 links |
| `ephemeral_removal` | expected to fail: `UpdatesAreBroadcast` | the same |
| `signaling` | `TypeOK`, `RoomsHoldTheLiving`, `Introduced`, `PolledInOrder`, `NoPollSleeps`, `Departed` | 1 room, 1 socket and 2 sessions, two of the three of one peer; 1 relayed message (joins and leaves send more), 1 error, 1 lost poll |
| `signaling_error` | expected to fail: `OnlyEmptyRoomsGo` | the same |
| `network` | `TypeOK`, `OneTransport`, `DisposedIsClosed`, `KeepsTrying`, `FirstMeeting` | 2 peers (one with fallback to polling, reconnects and a dispose; one with WebSockets only), 2 servers, 3 calls of `connect`, 2 failures |
| `scheduler` | `TypeOK`, `OneLeader`, `FollowersWatch`, `RunnersLead`, `GoneLeadersReplaced` | 2 peers, 1 task, 2 links (a reconnect), 2 ticks at once, 1 crash |
| `worker` | `TypeOK`, `SubscriptionsEndWithTab`, `KeepsItsApp`, `EdgesJoinNodes`, `StopWaits`, `DocsAnswerToCalls`, `RequestsSettle` | 2 tabs, 2 pages, 3 nodes of which 2 are there at first, 1 field, 2 calls |
| `migrate` | `TypeOK`, `LossIsTold`, `ExportedOnce` | a collection of 3 rows, one of 1, one excluded; batches of 2, a server that answers 1 or 2 rows; 2 changes, 1 failure |
| `recovery` | expected to fail: `RecoversTheSecret` | secrets 1 and 80, coefficients 3 and 200, 2 of 3 shards |

* `NoWriteForgotten`: every update the documents emitted is in the batch, on its
  way into the outbox, in it, acknowledged, or refused by IndexedDB.
* `FlushArmed`: a visible tab never sits on a batch without a timer.
* `PendingCountFresh`: the count shown is the number of pending rows whenever no recount is in flight.
* `NoEcho`: until a reload or dispose, a peer queues only what it wrote itself.
  (After a reload y-indexeddb's load has an origin other than `remote`, and the engine
  queues the whole stored document: the property says `restarts = 0` for this.)
* `Replicates`: the engines implement `Replication` (refinement mapping: `replica` is `doc`, `saved` is `stored`).
* `WritesAreSent`: a peer that stays enabled, visible and connected empties its batch and outbox.
* `ConvergesOverStableLinks`: peers that enabled sync before they were connected and stay connected end equal.
* `EventualConsistency` (violated): "eventual consistency is guaranteed"
  (`ARCHITECTURE.md`).  An update is acknowledged when it was handed to a channel; if the
  channel dies it is lost, and no state is exchanged on reconnection.  A flush whose last peer
  leaves between its guard and its loop even acknowledges rows that were broadcast to nobody.

* `NeverBackwards`: what a peer shows of one that does not sign is the newest it has
  handled of it, although tombstones and prunings forget the number.  (A signed message
  that is delayed past a tombstone does bring the old state back.)
* `AudienceAgrees`: once a peer has nothing more to send, those who listened all along show
  nothing older than its last change, and nothing at all if that was a removal.
* `UpdatesArrive`: once a peer that is not throttled has nothing more to send, they show
  its last state, even with messages overtaking one another.
* `DepartedFade`: a peer that is gone for good is pruned from the views.
* `UpdatesAreBroadcast` (violated): "Broadcast this update to peers. @default true"
  (`ephemeral-state.ts:6`).  A throttled removal waits for its timer; a state set before it
  fires finds the timer armed and returns; the timer then sends a tombstone with the
  number of the new state.
* `RoomsHoldTheLiving`: until a socket fails with an error event, a room holds exactly who joined and has not left.
* `Introduced`: of two members that are different peers exactly one was told of the other
  on joining, so exactly one makes the offer.
* `PolledInOrder`, `NoPollSleeps`: polled messages are in order and not repeated; no poll waits beside a queue.
* `Departed`: a closed socket, and a polling client that leaves or vanishes, is taken out of its room.
* `OnlyEmptyRoomsGo` (violated): "Clean up empty rooms" (`server.ts:230`).  After an
  error the Set stays, empty, as the room; another joins and leaves, which deletes the room,
  a third joins and has a new one made, and then the close of the failed socket
  finds its old Set empty and deletes the new room.

* `OneTransport`: however dials, losses, timers and `dispose` cross, a peer has no open transport but its current one.
* `DisposedIsClosed`: after a `dispose` that left no dial and no forgotten timer, nothing comes back.
* `KeepsTrying`: a lost transport has a timer or a dial after it, unless a round over all URLs has failed.
* `FirstMeeting`: two peers that come to one server by WebSocket, each for the first time, get connected.
* `OneLeader`: of two connected leaders one timed the other out, or was connected to it before it had a scheduler.
* `FollowersWatch`, `GoneLeadersReplaced`: whoever follows has its timeout armed, and a leader that is gone is replaced.
* `RunnersLead`: until it is disposed a scheduler runs tasks exactly if it leads and was elected under the
  listener of `start()`.  (One that wins the election `start()` itself holds leads and runs
  nothing: `LeadersRun` states the comment that says otherwise.)
* `SubscriptionsEndWithTab`: when the worker has handled a tab's `dispose`, none of its subscriptions is left in the app.
* `KeepsItsApp`: a tab that joined an app keeps it, if nobody disposes of the app under it, until it leaves.
* `RequestsSettle`: a request is answered, if only by an error, or its tab is gone.
* `DocsAnswerToCalls`: a document goes only because a call removed it, and one that was removed
  comes back only by an update that had found it before.
* `EdgesJoinNodes`: an edge without its node was added after `removeNode` had listed the node's edges.
* `StopWaits`: after `stop()` no backup runs until one is asked for.
* `LossIsTold`: a row that was there all the while its collection was read became a document, or a
  warning tells of it; of Supabase only if nobody changed the table and the server answers full ranges.
* `ExportedOnce`: no row becomes two documents, except one of a Supabase table that changed between its ranges.
* `RecoversTheSecret` (violated, by the assembly alone): "You will need at least {threshold} of these {total} shards to
  recover your identity" (`SocialRecoverySetup.tsx:118`).  The tables are built from the powers of 2,
  which are 51 of the 255 nonzero bytes modulo 0x11b; the logarithm of the others stays 0, products
  are wrong, and the shards 81, 82, 81 of the secret 80 give back 3.

The bounds (`MaxFlushes`, `MaxInbound`, `MaxLinks`, `MaxFaults`, `MaxRestarts`, the `Fickle`
peers whose tab misbehaves) let each race happen once: `sync_writes` has a flush against a `handleLocalUpdate`
over one row; a reconnect
needs two links (`sync_live`, `sync_eventual`).  With two peers a broadcast has one
receiver; engines interact only through `wire`, so a third receiver adds no new
pairwise behaviour.  All six properties of `sync_writes`
are also proved without bounds, which is why it can be small.  Three changes let an armed timer meet a removal and
a later state, and two links let a peer come back; three connections are the least with
which a room goes, comes again and is entered by a third while the first is still closing, and two
of one peer are a peer that comes back before its old session expires.  Three calls of `connect`
are a dial by each peer and a reconnect, or two dials of one peer that cross; two failures let a
reconnect fail as well.  Two schedulers are enough for two leaders and for a leader that
goes; two calls are one that finds and one that comes between, and two tabs with a page are a
last one that leaves while another comes.  Three rows in batches of two are a full page and a
last one, and two changes let a row go and come back between them.
Deadlock is not checked: when all updates are written and sent the system stops.

Fairness (`Fairness`) is weak fairness of what the browser itself does: timers fire,
IndexedDB answers, packets on a live channel arrive, connections that are wanted
are made and their events are delivered.  Nothing is assumed of the user, of
failures or of links going down.  In `EphemeralState` timers fire, signatures and packets
arrive, and an entry that is shown and not renewed grows stale (`Pruned`: the interval runs
while the manager is enabled).  In `SignalingServer` close events come, long polls
end, responses arrive, a polling client goes on polling, and a session without activity
expires; that a client leaves properly, or that its leave arrives, is not assumed.  In
`NetworkManager` dials end, timers fire, servers come back and messages are handled.  In `Scheduler` the events
of the network are delivered and a timeout that no heartbeat puts off fires.  In `SharedWorker`
messages are handled and IndexedDB answers.

Every property has a mutant: an operator next to the one it replaces, with the bug
it stands for in its comment.

## 5. What is proved

Of the engine, `SyncAssumption` is the only assumption: peers and collections are finite, every update has
an author and a collection, the bounds are naturals.

* `TypeCorrect`.  The inductive invariant is `TypeOK /\ FiniteTables`: the count the
  application is shown is a natural number only because the tables are finite, and they
  stay finite because a flush adds one row per collection (`FlushKeepsUpdates`).
* `WritesKept` (`NoWriteForgotten`), inductive together with `TypeOK`.  The step that matters
  is the flush: the rows made from the batch hold exactly the updates of the batch.
* `BatchesArmed` (`FlushArmed`) and `CountsFresh` (`PendingCountFresh`), inductive together with `TypeOK`.
* `NothingEchoed` (`NoEcho`), from `EcholessInv`, which adds that no document is loading
  before the first reload: loading is the only other source of unmarked updates.
* `EnginesReplicate` (`Spec => Replicates`), from `AllWritten`: everything in a document,
  database, batch, table, call or packet has been written by some peer.

Of `EphemeralState`, from `EphemeralAssumption`:

* `EphemeralProofs!TypeCorrect`, inductive as it stands.
* `NothingStale` (`NeverBackwards`), from `OrderInv`: of a peer that does not sign, no signature is
  awaited, every message under way is newer than what its receiver has heard, a number goes
  to a receiver once, and while a broadcast is armed its number has not been sent yet.  It is
  needed because a message that comes after a tombstone is taken without comparison: only
  the channel's order makes it newer.
* Both of the following rest on `ListenInv`: the audience of a change is connected and listens, and
  the change has a number that was given out.
* `AudiencesAgree` (`AudienceAgrees`), from `AgreeInv` on top of `OrderInv` and `NeverBackwards`: if the last
  change to be broadcast was a removal, an armed timer holds a removal; and if no timer is armed, the newest
  message under way to a listener answers to the change, or nothing is under way and what is
  shown does.  That the newest message is also the last to be handled is what the
  channel's order gives, and that it is taken is `NeverBackwards`.
* `LastStateArrives` (`UpdatesArrive`), from `ArriveInv`, for peers that sign as well: the message of the last
  change awaits its signature, is under way or is shown, and no message or view of the peer has a greater
  number, or the same one with something else in it.  The second half makes the order irrelevant:
  whatever comes after that message is not taken, and if it is not taken itself it is
  already shown.

Of `SignalingServer`, from `SignalingAssumption` (finitely many connections, sockets and sessions
are distinct, each has a peer and a room):

* `SignalingProofs!TypeCorrect`, inductive as it stands.
* `MembersAgree` (`RoomsHoldTheLiving`), from `RoomInv`: while no error event has come, a living
  socket's Set is the one its room has, living connections are in their room, the
  entries of every Set, the deleted ones included, are living connections of the room it is the Set of, and a Set
  is named by a connection that has come.  The last part is what makes a new Set empty;
  the first is what an error event breaks.
* `RoomsGoEmpty`, an action property from the same invariant: until then a room is deleted only in the step
  that empties it.  (After one error event `OnlyEmptyRoomsGo` is violated.)
* `OneOffers` (`Introduced`), from `PairInv`: within any Set, deleted ones included, of two members that are
  different peers exactly one was told of the other; who has not come is in no Set and told of by nobody,
  so a Set that a newcomer has made for it is empty.  It needs no assumption on errors.
* `PollsAwake` (`NoPollSleeps`) and `PollsInOrder` (`PolledInOrder`), both from `PollInv`: what is received, answered
  and queued increases in that order and is below the counter; a response that the server keeps means an empty queue, and
  an answer is on its way only to a client that has not read it.

Of `NetworkManager`, from `NetworkAssumption`:

* `NetworkProofs!TypeCorrect`, inductive as it stands; it includes that the transport a manager keeps was
  dialled with success: only such a dial is attached, and a call that was dialled never goes back.
* `NoStrayTransport` (`OneTransport`), inductive together with `TypeOK`: a dial becomes the
  current transport in the step that closes the one before.
* `LostIsRetried` (`KeepsTrying`) and `DisposeIsFinal` (`DisposedIsClosed`), inductive together with `TypeOK`: a dial that
  fails goes on to the next, or ends the round and leaves a failed call behind; after `dispose`
  only what it left can dial.

Of `Scheduler`, from `SchedulerAssumption` (peer ids are compared, and a set of them has a greatest):

* `SchedulerProofs!TypeCorrect`, `SilenceNoticed` (`FollowersWatch`), `TasksRunAtLeaders`
  (`RunnersLead`): an election changes leader, timers and runner together.
* `ConnectedLeadersAreOne` (`OneLeader`): needs that a peer's leader is the greatest of the peers it
  counts, and that it counts everyone it was told of since it had a scheduler, except those it timed out.

Of `Migration`, from `MigrationAssumption` (finitely many ids, all positive; the rows of a table are distinct at first):

* `MigrationProofs!TypeCorrect`, inductive as it stands.
* `NothingLostSilently` (`LossIsTold`) and `NothingTwice` (`ExportedOnce`), both from `ReadInv`: the rows
  of a table stay distinct; while a collection is read, its documents are of rows in front of the
  offset or the cursor, and every row in front of it that stayed has been converted or warned of.
  Of Supabase this is said of undisturbed tables only: what changes between two ranges moves rows across the offset.
  That a short page ends a collection rightly rests on how ranges and pages meet the rest of a
  table (`RangeOfRows`, `PageOfRows`), which is proved from the operators on sequences and cardinalities.

Of `SharedWorker` over `LocalStore`, from `StoreAssumption` and `WorkerAssumption` (what is there at first exists;
nodes and ids are distinct, so are tabs and pages, which are different things in the code):

* `WorkerProofs!TypeCorrect` states `CallsInv` next to `TypeOK`, because neither holds without the other.  An insert
  takes an id that nobody had, so there has to be one left: the ids given, and two more for each call that is
  open, are never more than those in stock for the calls made (`IdsLeft`).  That counts only if a request is made into a call once: a tab's
  request is a message to the worker, a call or an answer, and one of them at a time (`OneRequest`).
* `EdgesEndWithNodes` (`EdgesJoinNodes`), from `EdgeInv`, which adds `EdgesListed`: while a `removeNode` is under
  way, each edge of its node has been listed by it or was added late.
* `DocsFollowCalls` (`DocsAnswerToCalls`), an action property, from the types alone: each step of a call
  is looked at.
* `StopIsLast` (`StopWaits`), inductive together with `TypeOK`, which says that a `stop()` that waits has no interval left:
  it is cleared before the wait, so that nothing starts during it.
* `SubscriptionsEnd` (`SubscriptionsEndWithTab`) and `AppsOutliveTabs` (`KeepsItsApp`), both from `WorkerInv`:
  `QueueOK` (a tab's first message is its `init` and its last, once it is disposed, its `dispose`), `SubsInv` (a tab that may still come
  has no subscription and no context of its name; every subscription in the context that serves is
  known to its port, whose tab has not gone) and `HomesInv` (a tab that is present is among the ports of its context, which
  nobody is closing).

Only model-checked are the liveness properties (`WritesAreSent`, `ConvergesOverStableLinks`, `DepartedFade`, `Departed`,
`FirstMeeting`, `GoneLeadersReplaced`, `RequestsSettle`): liveness under fairness is beyond the proof system.  `Recovery`
computes with bytes and recursive tables and is checked only.  Every safety property of the passing runs is proved.

## 6. Not modelled

* Of the components above: what each section names as left out.
* `AuditManager`: an entry is hashed, signed and pushed on a Y.Array; its parents are those last
  seen, so concurrent entries make a graph, which the verifier accepts.  Nothing in it
  interacts with other state.
* References, SDK, UI bindings, GraphQL, command line, devtools, Auth0, Python SDK:
  adapters, translations and I/O with little state of their own.
* The web site, the examples and the benchmark scripts are more than half of the lines of
  TypeScript in the repository.  They hold pages and demonstrations, no protocol, and are left out; so the
  mapped lines are a small share of the whole and a large one of `packages/sync`, `packages/network`,
  the scheduler, the shared worker and the signaling server.
* `AuthManager` keeps one key pair in memory and in storage, and sets it after the await that derives
  its public key.  Calls that cross there leave either key; nothing in the repository says
  which it should be, so there is no property to state.
* The wrapper of `wasm-crypto` (`packages/wasm-crypto/src/index.ts`).  The build committed beside it imports
  `env.abort` and `env.seed`; `getWasm` supplies `abort` alone, so that instantiating it fails with a `LinkError` on
  every call.  `generateRecoveryShards` therefore always rejects and `recoverIdentity` always takes its catch
  branch.  What `Recovery` shows is of the assembly alone, which a caller would reach once the
  import is supplied.

## 7. How to run

    tlc -workers 2 -config MCSync_writes.cfg MCSync
    tlc -workers 2 -config MCSignaling.cfg MCSignaling
    tlc -workers 2 -config MCWorker.cfg MCWorker
    tlc -workers 2 -config MCMigration.cfg MCMigration
    tlapm SyncEngineProofs.tla
    tlapm NetworkProofs.tla
    tlapm WorkerProofs.tla
    tlapm MigrationProofs.tla
