# A TLA+ development of the PipeOps Kubernetes agent

The agent runs in a cluster, keeps one WebSocket to a control plane (the
controller, or a regional gateway the controller names), registers the cluster,
sends heartbeats, and serves whatever the control plane asks for over that
connection: HTTP requests to the Kubernetes API and to services, kubectl
streams, application WebSockets, TCP and UDP tunnels, and a yamux session.
Beside that it sets the cluster up: it installs monitoring and an ingress
controller with Helm, moves the ingresses it finds to that controller, and
keeps the control plane's routes and tunnels in step with the cluster.
This directory holds TLA+ models of its stateful parts, the TLC configurations
that check them on small instances, and proofs for every instance.

Paths below are relative to `src/internal/` unless they start with `src/`;
`wsc` stands for `controlplane/websocket_client.go`, `agent.go` for
`agent/agent.go`.

1. [How to read and run it](#1-how-to-read-and-run-it)
2. [Inventory of the system](#2-inventory-of-the-system)
3. [The modules](#3-the-modules)
4. [The runs](#4-the-runs)
5. [The proofs](#5-the-proofs)
6. [Where code and documents disagree](#6-where-code-and-documents-disagree)
7. [What is not modelled, and the plan](#7-what-is-not-modelled-and-the-plan)

## 1. How to read and run it

| File | What it is |
|---|---|
| `X.tla` | the specification of a component: its state, one action per step of the code, `Spec`, fairness, and its properties at the end |
| `LinkOwnership.tla`, `FieldStore.tla`, `ServiceRelay.tla` | abstract specifications: what a component promises |
| `MCX.tla`, `X.cfg` | the instance TLC checks; `Registration_gateway.cfg` checks a property that the code violates |
| `XProofs.tla` | theorems about `X` and their proofs; `WebSocketProofs` is about `WSLifecycle` and `AppRelay`, `IngressProofs` about `IngressMigration` and `IngressRoutes`, `PersistenceProofs` about `StateStore`, `Helm` and `Bootstrap` |
| `PROJECT.json` | components, runs, the source lines of every definition, mutants, hazards, findings, theorems |

    tlc -workers 2 -config WSLifecycle.cfg MCWSLifecycle
    tlapm WebSocketProofs.tla

In `AppRelay`, `IngressRoutes` and `Bootstrap` the names every specification has
carry the component (`RelayInit`, `RoutesNext`, `BootstrapTypeOK`), so that one
module of proofs can extend two components.

A definition whose comment begins with "Mutant:" is not part of the model.  It
is a variant of the action that follows it, with a plausible bug; `PROJECT.json`
names for every property a mutant that the property catches.

Conventions.  A variable or action has the name of the field or function it
models where TLA+ allows it.  A goroutine is a program counter; a step is a
stretch of code between two points where another goroutine can see the
difference (a lock taken or released, a channel, a network call, a shared field).
A section under one mutex is one step.  What a goroutine does last without
sharing state (sending a last message, for instance) is part of the step before.

## 2. Inventory of the system

Goroutines talk through the `Agent` struct (`agent.go`), the `Client`
(`controlplane/client.go`), which holds the current `WebSocketClient`, and
callbacks the agent registers with the client: proxy requests, registration
errors, reconnections, WebSocket data and close, tunnel messages.  Three more
goroutines live on the cluster rather than on the connection: the bootstrap
(`agent.go` `startMonitoringBootstrap`), the ingress watcher and the Gateway API
watcher.  They meet the others in the Kubernetes API, in the control plane's
tables, and in `handleControlPlaneReconnect`, which asks the ingress watcher for
a synchronisation.

### Parts with a model

| Component | State | Operations | Hard because | Correct if |
|---|---|---|---|---|
| Connection lifecycle, `wsc` | `conn`, `connected`, `reconnecting`, `reconnectTrigger`, context, wait group | `Connect`, `ConnectToGateway`, `readMessages`, `pingHandler`, `reconnect`, `reconnectLoop`, `TriggerReconnectNow`, `Close` | goroutines of old connections live on next to those of new ones, and each may ask for a reconnect | one reconnect loop at a time, never nobody to notice a dead link, `Close` ends all that no message holds |
| Registration, `agent.go`, `controlplane/client.go` | `clusterID`, `reregistering`, `lastHeartbeat`, the stored id and gateway URL, `wsClient` | `register`, `ResumeSession`, `RegisterAgent` with the gateway hand-over, heartbeat loop, `handleRegistrationError`, `handleControlPlaneReconnect` | four callers, two control planes, answers lost, state kept in memory, on disk and remotely | one cluster per agent, no working session torn down, a lost cluster is replaced |
| State store, `src/pkg/state/state.go` | ConfigMap, Secret or file; a cached copy | `Load`, `Save`, `SaveX`, `ClearX`, `GetX` | two objects for one state, failing calls, fallback to the cache, concurrent savers | a save writes a snapshot with its own field changed, and what was saved is lost only to an older snapshot |
| kubectl streams, `controlplane/websocket_proxy.go` | the map of streams; per stream a context, two channels, a connection | start, data, close, `connectToKubernetes`, two relays, `closeStream`, `CloseAll` | three parties close one stream; its connection appears late; ids may be reused; the queue is bounded | closed once, nothing left, data in order, one notice |
| Proxied HTTP requests, `wsc`, `agent.go` | `requestBodyPipes`, `activeProxyWriters`; per request a pipe, a context, a writer | request, chunk, end, cancel, stream data; `handleProxyRequest`, `proxyToService`, two response writers | the one reader goroutine feeds bodies through unbuffered pipes; errors in the middle of a response | no truncated response looks complete, and no body but for chunks that cannot be decoded; one final message, the reader is never held for ever |
| TCP tunnels, `agent/tcp_tunnel.go`, `agent/tunnel_manager.go` | the map of tunnels; per tunnel a connection and a context | start, data, close, the forwarder, idle sweep, `Stop` | a goroutine per message; five parties close one tunnel; a limit | no open connection out of reach, slots come back, replies in order |
| Application WebSockets, `agent.go` | `wsStreams`: data and error channels per stream; the connection to the service, its heartbeat | `handleWebSocketProxy`, `handleWebSocketData`, `handleWebSocketClose`, two relays, `websocket/heartbeat.go` | a goroutine per frame meets a stream that its owner tears down; six parties wait on channels of limited capacity | all of a stream ends together, replies in order, a silent service is given up |
| Ingress watcher and route client, `ingress/watcher.go`, `ingress/client.go` | the route cache, the informer's events, the controller's service, the cluster id | `Start`, `onIngressEvent`, register and unregister with retries, `syncExistingIngresses`, `TriggerResync`, `LookupRoute` | retries, deletions and whole lists overtake each other; a call may have worked although it failed | the routes settle on what the ingresses say, also after a restart |
| Gateway API watcher, `tunnel/gateway_watcher.go`, `tunnel/control_plane_client.go` | the informer's store, a work queue, the registered tunnels | `syncGateway`, `processGateway`, register, deregister, `syncAllTunnels`, `detectClusterType`, `Stop` | a bulk call carries what was true before; all is forgotten at a restart | listeners are registered rightly, and only a gateway that is gone loses them |
| Bootstrap and installation, `agent.go`, `components/`, `helm/installer.go`, `ingress/traefik.go` | Helm's releases, cluster-scoped roles, Traefik's error pages; the plan and its position | `startMonitoringBootstrap`, `Manager.Start`, one installer per component, `Install`, `Uninstall` and the recovery of broken releases | the pod is killed between two calls and another process meets what is left | a half-made release is repaired, a healthy one left alone |
| Migration of ingresses, `ingress/traefik.go`, `ingress/watcher.go`, `ingress/controller.go` | none of its own: ingresses, webhooks and NGINX's ConfigMap | `migrateExistingNginxIngresses`, `switchExistingIngressesToClass`, `EnsureNGINXConfigMapSettings`, the removal of stale webhooks | two migrators and users edit the same objects; a webhook blocks them | no user's text is lost, no living webhook removed, no ingress forgotten |

### Parts without a model

| Component | State and operations | Interaction and difficulty | What would make it correct |
|---|---|---|---|
| UDP tunnels (`agent/udp_tunnel.go`) | `udpSessions`, client sessions per tunnel | check-then-act on the first datagrams, two clean-ups, a sweep that reads a map without its lock | one socket per tunnel, no live tunnel unregistered |
| Yamux session (`tunnel/yamux_client.go`, `tunnel/wsconn.go`, `wsc` 2878-3010) | `yamuxClient`, `yamuxEnabled`, the pipe-fed connection | a second hello, a lost link, a close that waits for streams | one session, the flag tells the truth, close returns |
| Automatic upgrades (`upgrade/`), secrets encryption (`encryption/`) | plans; the stage of a rotation | restarts of the server between the stages | a rotation never loses a key in use |
| Backpressure and frames (`websocket/`) | a semaphore-like controller; a binary codec | limits, widths | decode inverts encode, a release per acquire |
| Origin dialers and daemon mode (`origin/`) | a table of targets | matching order | a target reaches the host it names |
| Diagnostics server (`server/`), configuration, metrics, entry point, Kubernetes client, region and registry detection, legacy chisel tunnel | counters, or none | I/O and library calls | - |

The hazards, each at its line, with the properties that cover it or the reason
why none does, are the `hazards` of `PROJECT.json`.

## 3. The modules

### WSLifecycle

One `WebSocketClient` from its first `Connect` to `Close`.  Connection `k` has a
reader (`readMessages`) and a pinger (`pingHandler`).  The dialler is either the
owner's first `Connect` or `reconnectLoop`, of which `Loops` are the goroutine
slots.  `reconnect()` is the compare-and-swap on `reconnecting`; the loop's
deferred reset, the rejection by 401 (which ends the loop), the callback after a
reconnection, `connected`, `conn` and the context are in the state; the wait group
is read off the readers and pingers.  `TriggerReconnectNow` and its token have no
variable of their own: the end of a backoff may come at any moment, so `LoopWakes`
covers it.  A reader that got a message is in `"handle"` until `handleMessage`
returns, and nothing makes it return: it may be in `pipeWriter.Write`, waiting for
the handler of another request.  The network breaks connections, stalls writes and
refuses dials at any moment.

`LinkOwnership` says what the rest of the agent relies on: one dialler at a time
owns the right to replace `c.conn`, it installs newer connections only, and no
dial begins after `Close`.  `OwnedLink` is the refinement.

### StateStore, FieldStore

A save is a load (from ConfigMap and Secret, or file, or from the cache when
that fails), a change of one field, and the writes of both objects, each of
which may fail; `sm.mu` is free between the load and the writes, and other
savers may come in; the process may be killed at every step.  `Modes` are the
three back ends `NewStateManager` may choose, `ReadsFail` says whether a load may
fail before the cache was filled (`"cold"`) and after (`"warm"`).
`SaveClusterID`, `SaveClusterToken`, ... have the same body and are one operation
with the field as a parameter.  `behind` and `lost` are history: the fields whose
value in a saver's copy is out of date or was never loaded, and those that a save
has overwritten from such a copy.
`FieldStore` is the contract that all savers together keep: each takes the state
as it stood at one moment (or guesses, if nothing is known of the store), changes
its own field in it, and writes that, in parts while the call lasts; a call that
succeeds leaves exactly its copy.

### Registration

The three goroutines that call `register()`: `beat` (Start, then the heartbeat
loop), `error` (`handleRegistrationError`), `greet`
(`handleControlPlaneReconnect`); the mutex, the flag `reregistering`, the cluster
id in memory and in the store, and the control plane with the clusters it knows.
It stands on the two modules above: the connection is `up`, `down` (its loop
brings it back) or `dead` (nobody does).  The store is what `StateStore` makes of
it: a read may fail (`ReadFails`), and each save of the agent id, a credential,
the gateway URL or the cluster id is a load of everything (`SaveLoads`) and a
write of everything (`Saves`), between which the other goroutines save.  A stored
cluster id that cannot be read is `Unread`, and `register()` goes on without one.

### K8sStreams

The `WebSocketProxyManager`: reader, stream goroutines with their two relays,
and `CloseAll`, all of which meet in `closeStream`.  A stream object is a number;
several may share one stream id, which is how the clean-up by id is tested.

### ProxyRequest

The reader's side of every message about a request, and the request's own
goroutine with `handleProxyRequest`, both response writers and the body pipe.
The shape of a request (HTTP, upgrade of an application or of the Kubernetes
API, streamed answer, streamed body) is an input.  `cluster` is false for an
agent without a Kubernetes client.  `bad` counts the body chunks the reader skips
because they have no data or cannot be decoded.  A `proxy_request` that upgrades to the
Kubernetes API hands over to `K8sStreams`, where `Dispatch` takes it up.

### TCPTunnels

The JSON tunnel protocol: one goroutine per message, the forwarder, the sweep,
`Stop`, a link that is lost and comes back.  Request ids are unique per client
connection (`controlplane/types.go:232`), so an element of `Conns` is an id, a
tunnel and a connection at once.

### ServiceRelay

What both kinds of relay promise of one stream: one dial, one entry in a map, a
reader whose chunks are passed on one by one while it runs, a connection closed
for good and an entry gone for good.  They end in opposite orders, which is the
constant `ClosesFirst`.  A TCP tunnel is closed before it is unlisted, is read
only while listed, and its forwarder is the last to go.  An application's
WebSocket is unlisted and cancelled first, and nothing reaches the gateway from
then on, although its connection may be read for a while.  `Entry` and `Reading`
are the refinement mappings, `Life(i)` the relay of one stream, `OneLife` the
refinement for all of them.

### AppRelay

What `ProxyRequest` calls `OpenSocket`, opened: the handler of one application
WebSocket with its dial, its place in `wsStreams`, its two relays, the heartbeat
and its deferred clean-up, next to one goroutine for each frame (`frames` counts
them by where they are) and one for the close.  Two undefined outcomes of the
code are choices: a send on a closed channel panics (`Put`), and two writers on
one connection may (`TakeFrame`, `Ping`).  A panic ends the process, so `crashed`
stops everything, and the liveness properties say "or it crashed".

### IngressRoutes

The informer's single goroutine (`worker`), the synchronisations of `Start` and
of `TriggerResync` (`syncer`), the cache, and the control plane's table `routes`.
A call succeeds, fails, or takes effect and fails.  A read of the Kubernetes API
that fails looks like a missing service or controller, or an empty list (`Reads`).
The process may be killed and started anew at any step (`Restart`), and the first
one finds whatever routes an earlier one left (`RoutesInit`).  `lost` remembers the
hosts that no code path may withdraw any more.

### Helm, Bootstrap

`Helm` is the installer: `Install` and `Uninstall` as the steps that talk to the
cluster, with the recovery of pending, failed and half-removed releases and of
cluster-scoped roles another namespace owns.  `Bootstrap` extends it with the
goroutine that uses it: the essential components, the plan, Traefik's two phases
with its error pages, the ingresses, the gateway.  `Killed` may come at any step;
the process then forgets `op`, `at` and `todo`, the cluster keeps `release`.
`todo` is the set of steps that are left; `Step`, the current one, is the first
of them in the order of `Steps`, which is the order in which the code appends
them to its plan.

### IngressMigration

The two migrators, which share `Migrate` ... `Retry` because their loops are the
same code with another filter, NGINX's settings, and users.  An object has a
version `rev`; the API server accepts an update only of the current one.

### GatewayTunnels

Cluster, informer with its `store`, `queue`, the worker's `SyncGateway` and the
listeners it walks, the bulk synchronisation, and the control plane's table `cp`.
`name` maps a key to the name without namespace, which is all the tunnel ids
have.  `strays` remembers why something is registered that the watcher does not
know.  A configuration with `gateway_label` (`label`) leaves the interval zero.
`Observe` is client-go's update of the store and its notification in one step;
between the two the key is not queued yet, and what `LiveTunnelKept` then rests on
is the notification that is due.  There is no cluster id: the watcher is given the
one of its start (`agent.go:724`) and keeps it, so that after a registration under
another id its calls name the old cluster, which is outside the model.

### How the modules compose

    WSLifecycle ---implements---> LinkOwnership
    StateStore ----implements---> FieldStore
    TCPTunnels, AppRelay --implement, each tunnel or stream--> ServiceRelay
    Registration  uses the link of WSLifecycle as up/down/dead, and loads and
                  saves as StateStore does
    ProxyRequest --DispatchK8sWebSocketProxy--> K8sStreams (HandleProxyRequest, Dispatch)
    ProxyRequest --OpenSocket--> AppRelay (Ask)
    TCPTunnels, AppRelay    use the link of WSLifecycle as lost/back
    Bootstrap ----EXTENDS---> Helm
    Bootstrap (InstallTraefik) and the start of IngressRoutes start the two
                  migrators of IngressMigration
    IngressRoutes (Reconnected) is called by Registration's greet goroutine

## 4. The runs

Every run is deterministic and exhaustive for its bounds.  Sizes are distinct
states.  All but `state_store` are checked with `CHECK_DEADLOCK FALSE`, because
the modelled system really may stop: a client is closed, the requests are done,
the faults are used up, the process crashed.  In `state_store` some saver can
always go on, so deadlock is checked.

| Run | Bounds | States | What it shows |
|---|---|---|---|
| `lifecycle` | 3 successful dials, 2 loop slots | 245 k | `SingleLoop`: one reconnect loop, however many goroutines of however many connections ask.  `Watched`: an open, accepted client always has a loop or a live pinger, so the request a compare-and-swap drops is never the last.  `OwnedLink`: refinement.  `DeadReplaced`: a dead connection is eventually replaced.  `CloseFinishes`: unless a message holds a reader for ever, `Close` returns, although it closes only the current connection and waits for the readers of all. |
| `state_store` | 3 modes, 1 + 1 fields, 2 savers, 3 values, reads fail at any time | 731 k | `SnapshotSaves` (refinement): each save writes the state of one moment with its own field changed, and never a mixture of two savers'.  `LostOnlyByOverlap`: an acknowledged save is read back after failures and restarts, unless a save overwrote it from an older or unread copy.  `CacheCurrent`: the copy a failing load falls back on is what the store holds. |
| `registration` | any 2 of 10 kinds of faults, 5 ids, 1 message under way | 130 k | `NoTwinClusters`: no second cluster while a known one is stored, unless by a registration that could not read it.  `GatewayKept`: a registration never tears down a working gateway session.  `HealsOnController`: a cluster the controller forgot is replaced. |
| `k8s_streams` | 2 streams of one id, 2 messages, a queue of 1 | 678 k | `EndsOnce`: closed once (a second close of a channel would panic) and one notice.  `NothingLeft`, `DataFindsStream`, `InOrder`, and `EndWindsUp`: the end of either relay ends the stream. |
| `proxy_request` | one request of any shape with 2 chunks of body, one upgrade with 1, 2 chunks of response | 494 k | `WholeAnswer`: a response that looks complete is.  `WholeBody`: a body that looks complete lacks only the chunks the reader could not use.  `OneAnswer`: one final message.  `ReaderFreed`: an HTTP request never keeps the reader for ever.  `Answered`: every request ends, and was answered. |
| `tcp_tunnels` | 2 connections, 1 slot, 1 chunk and 2 replies | 400 k | `Listed`: five clean-ups, none leaves an open connection unregistered or a slot taken.  `OneLife`: each tunnel implements `ServiceRelay`, so replies keep their order through lost links and clean-ups.  `EndTold`, `Unwinds`: every end is told, every forwarder ends. |
| `app_relay` | 1 stream, 2 frames for a channel of 1, 2 replies, heartbeat | 735 k | `OneLife`: the stream implements `ServiceRelay`, no hole in what is sent, nothing sent after it was unlisted.  `Unwinds`: when one relay ends or a close found the stream, handler, relays, heartbeat, entry and connection all go, however they are blocked.  `SilenceEnds`: the heartbeat gives up a service that fell silent. |
| `ingress_routes` | 2 ingresses that may share a host, any routes at first, 2 changes or restarts, 2 failing calls or reads, 2 cluster ids | 256 k | `RoutesConverge`: once the cluster has settled, every wanted host has a route for the right cluster and is found by a lookup, and no other host has one.  `StaleAccounted`: a route nobody asks for is about to be withdrawn or of a known kind: left by an earlier process, edited away, its service gone or unreadable, its deletion a tombstone, its withdrawal failed, or brought back by an older synchronisation. |
| `bootstrap` | 8 steps, 2 processes, 2 failing calls; before: nothing, or NGINX and the old Traefik | 878 k | `ReadyAccounted`: success means that each component is installed, failed in this very process, or is of a kind the code cannot bring back.  `StuckCleared`: a release left pending by a killed process is cleared.  `HealthyKept`: a healthy release is not touched.  `MiddlewareThere`: Traefik never waits for a middleware that is missing. |
| `ingress_migration` | 2 ingresses, 2 changes by users, 1 failing call | 7.9 M | `EditsKept`: what users write survives both migrators.  `MissedAccounted`: a migrator that is done moved or counted each ingress.  `WebhookGuarded`: the webhook of a living NGINX is left alone, with the two exceptions the property names. |
| `gateway_tunnels` | 2 gateways, possibly of one name, 1 listener, 2 upsets | 411 k | `TunnelsConverge`: after the last upset every listener is registered with the right address and mode.  `LiveTunnelKept`: a gateway that is there loses no tunnel.  `StraysAccounted`: what the watcher cannot withdraw has a known cause. |
| `registration_gateway` | 1 fault | - | violation, section 6 |

### Why the bounds are enough

- **lifecycle.**  Three connections give two generations of leftover goroutines
  next to a live one; a third generation adds goroutines of a kind already
  there.  Two loop slots let a second loop start while the first one ends.  The
  last connection does not fail, because its replacement would need a further
  number.  The safety properties and the refinement are proved without bounds.
- **state_store.**  Two savers are what an overlap takes.  One field in each object
  separates the two writes of a save; fields of one object are always written
  together.  Two values beside the empty one tell both savers and the lost value
  apart.  Savers run the same code and values are never looked at, so the
  symmetry is sound; no liveness is checked.  The proofs cover any fields,
  values and savers.
- **registration.**  Two faults suffice for every pair (a lost answer, then a
  crash; a drop, then a refusal ...), and with three goroutines a behaviour with
  two faults already passes every branch of `register()`.  Five ids are more than
  two faults can make the agent use.
- **k8s_streams.**  Two streams of one id are the smallest case in which a
  clean-up by id can hit the wrong stream; two messages and a queue of one fill
  the queue and give an order to violate.
- **proxy_request.**  Two chunks make a hole, a truncation and a duplication
  distinguishable, and allow one that cannot be decoded before one that can; the
  second request, with one chunk, holds the reader while the first needs it.
- **tcp_tunnels.**  Two connections compete for one slot; two replies make a hole
  visible.  One chunk from the client suffices for the clean-up by a failed write.
- **app_relay.**  Streams share nothing but the link and the process, so one is
  enough.  Two frames fill the channel of one and leave a goroutine at the send;
  two replies make a hole visible; two missed pongs instead of three change the
  count, not the cases.
- **ingress_routes.**  Two ingresses with one host are what a wrong withdrawal
  needs.  Two changes give create-delete, delete-create, edit-edit and a restart
  before or after each; two failures exhaust the two retries of a call, or are
  failed reads.  The control plane's expiry stands
  behind, as in the code.
- **bootstrap.**  Two processes are one that is killed anywhere and one that
  meets what it left; a third meets nothing new but a second kill of a repair.
- **ingress_migration.**  The settings of NGINX and the ingresses are objects
  apart, and so are the instances (`MCInit`): where the watcher changes the
  former, the installer meets no webhook.  An NGINX of another namespace comes
  with no service of the guarded one at first.  The ingresses are interchangeable,
  and no property or action tells them apart, so `Symmetry` is sound; no
  liveness is checked with it.  Two edits let an object change before and after
  a retry.  The safety properties are proved without bounds.
- **gateway_tunnels.**  Changes in the cluster, failing calls and restarts draw
  on one budget, so every pair of them is there.  One gateway is there at first
  and the other comes (`MCInit`); the two may have one name;
  a second listener would be handled as the first, one by one.  The safety
  properties are proved without bounds.

### Fairness, and why the code justifies it

In all modules a goroutine that can take a step eventually does, which the Go
scheduler gives.  Nothing is assumed of who calls `Close` or `Stop`, of the
control plane's messages, or of services.  Beyond that:

- **WSLifecycle**: timers fire; a dial that is retried for ever succeeds once
  (strong fairness, otherwise no reconnection can be promised); a ping on a dead
  connection eventually fails (the write deadline, `wsc` `pingHandler`); a reader
  that gets nothing runs into its read deadline.  Nothing is assumed of the return
  of `handleMessage`.
- **Registration**: `registerMutex` is fair to a waiting goroutine (Go's mutex
  hands over after 1 ms of starvation), calls to the control plane end (their
  contexts time out), messages that are not lost arrive, and a connection that
  is down and not refused comes back, which is what `WSLifecycle` shows.
- **K8sStreams**: a dial returns.  Nothing is asked of Kubernetes.
- **ProxyRequest**: dials time out, contexts expire (`proxyRequestContext`), and
  a call, read or session whose context is done ends.
- **TCPTunnels**: a dial returns within 30 seconds.  Reads and writes may block
  for ever while their connection is open.
- **AppRelay**: a dial returns; the ticker of the heartbeat ticks, and a ping
  returns by its write deadline.  A `select` with several ready cases chooses at
  random, so a heartbeat whose stop is requested ends (strong fairness).  Reads
  and writes of the service may block while the connection is open.
- **IngressRoutes**: calls return (30 seconds; those of a killed process take
  effect before the next one starts, or not at all), the informer resynchronises every
  ingress again and again, and the control plane lets a route expire that nobody
  refreshed.  Nothing is assumed of the periodic refresh or of reconnections.
- **Bootstrap**: Kubernetes starts the pod again, Helm's calls and the waits have
  time-outs.
- **GatewayTunnels**: the first list of the informer ends, which assumes a
  cluster with the Gateway API (section 6); its events and its resync come; each
  queued key has its turn (the work queue is first in, first out: strong fairness
  of `SyncGateway(g)`); Kubernetes restarts a process that ended.

## 5. The proofs

TLAPS proves the following for every value of the constants, from the `ASSUME`s
of the modules (which TLC evaluates in the runs).

| Theorem | Says | Argument |
|---|---|---|
| `WebSocketProofs!TypeCorrect`, `OneReconnectLoop` | `TypeOK`, `SingleLoop` | `Exclusion`: the flag `reconnecting` is set while a loop is active, and only the loop that set it resets it |
| `AlwaysWatched` | `Watched` | `Watching` adds what the pinger and the reader of the newest connection are about to do, since `Watched` says nothing of the moment between a failure and the call to `reconnect()` |
| `ImplementsOwnership` | `Spec => OwnedLink` | `Numbered`: installed connections are numbered in the order of installation; each step is a step of `LinkOwnership` or a stutter |
| `RelayTypes`, `RelayRepliesInOrder`, `HandlerLeavesNothing` (also `WebSocketProofs`) | the type invariant and `RepliesInOrder` of `AppRelay`, and `NothingHeld` | `FramesRelayed`: frames read = frames sent + the one in hand; `NothingHeld` rests on `Entries` (a listed stream belongs to a handler that will remove it) and `CleanedUp` (who stops has closed the channel and cancelled the context).  It is the safety half of `Unwinds`: a relay that outlives its handler has been told to end |
| `EachStreamOnce`, `StreamImplementsServiceRelay` (also `WebSocketProofs`) | `OneLife` of `app_relay`, and `RelaySpec => Life(i)!Spec` for every stream | the invariant above and `Connected` (who was dialled well has a connection, and a heartbeat exists only beside one); a step of another stream is a stutter (`OthersUnseen`), each step of this one is named after the abstract step it is (`LifeStep`) |
| `PersistenceProofs!StoreTypes`, `CacheIsCurrent` | `TypeOK`, `CacheCurrent` for any number of savers | `CacheInv`: once a load or save succeeded the cache equals the store, except between the two writes of a save, whose saver knows what it wrote |
| `SavesAreSnapshots`, `AcknowledgedLostOnlyByOverlap` | the refinement of `FieldStore` and `LostOnlyByOverlap`, for any number of savers and any failures | `CopyFresh`: outside `behind`, a saver's copy agrees with the store, and its own field is what it was called with; so what a save writes is new only where it saved or was behind, and those fields are in `lost` (`AckedStored`) |
| `BootstrapTypes`, `HealthyReleasesKept` (also `PersistenceProofs`) | the type invariant and the action property `HealthyKept` of `bootstrap` | `HelmInv`: `CallPath` (which call goes where), `CallFound` (what the steps of a call already know of the release they act on, unless a call about it failed) and `Untouched` (a call past `History` has no healthy release before it).  `HelmKeeps` proves it for each step of Helm, whoever calls |
| `MiddlewareFound` | `MiddlewareThere` | `PagesMade`: the call that names the middleware starts only after backend and middleware were made, and nothing deletes them |
| `ReadyIsAccounted` | `ReadyAccounted` | `PlanDone`: what is no longer in `todo` is deployed, failed or left broken, and so is the current step once its release is done with (`CallReturned`); `CallPlaces` says which release a place waits for.  Such a step stays accounted for, because nobody touches a healthy release and `faulty` only grows in a process |
| `RegistrationProofs!RegistrationTypes`, `NoTwins`, `GatewaySession` | `TypeOK`, `NoTwinClusters`, `GatewayKept` | `OneRegistrar` (the mutex), `OffGateway` (a goroutine inside `register()` past the mode check sees no gateway link until it makes one), `ReadHolds` (who read under the mutex that no id is stored is still right when the answer comes, although other goroutines save meanwhile), `Alone` and `Resuming` (a new process has one goroutine; a session is resumed for an id that was read) |
| `K8sStreamsProofs!StreamTypes`, `StreamsEndOnce`, `StreamsEndClean`, `StreamsAreFound`, `DataInOrder` | the type invariant and the four invariants of `k8s_streams` | `Mapped` and `Held`: a stream is in the map, in the hands of one closer, or closed, and in one of them only; `Noticed`: notices equal closes; `Sent` and `Queued`: what is written followed by what is queued is a gapless interval unless a message was dropped |
| `ProxyRequestProofs!RequestTypes`, `WholeBodies`, `WholeAnswers`, `OneFinalMessage` | the invariants and the action property `OneAnswer` | `BodyInv`: chunks sent = chunks taken + those skipped + the one the reader holds, until the pipe is shut; `AnswerInv`: at which stages a request may have been answered |
| `TCPTunnelsProofs!TunnelTypes`, `MapAgrees`, `RepliesKeepOrder` | the type invariant, `Listed` and `RepliesInOrder` | `Found`: everyone who may close a tunnel found it in the map, so its forwarder exists; `Shuts`: whoever is about to remove a tunnel has closed it; `Relayed`: chunks read = chunks sent + the one in hand |
| `EachTunnelOnce`, `ImplementsServiceRelay` (also `TCPTunnelsProofs`) | `OneLife` of `tcp_tunnels`, and `Spec => Life(i)!Spec` for every tunnel | the same invariant: whoever removes has closed (`Shuts`) what has a forwarder (`Found`), and an open connection that is read is listed (`Reachable`) |
| `GatewayTunnelsProofs!TunnelTypes`, `StraysKnown`, `LivingKeepTunnels` | the type invariant, `StraysAccounted`, and the action property `LiveTunnelKept` | `Named`: wherever a tunnel is kept, its id has the name of its gateway; `Withdrawing`: the worker withdraws only what is remembered of a gateway that is gone or whose key is queued again.  Only a withdrawal removes a registration (`LossStep`), so a gateway that loses one has the name of the gateway that is gone |
| `IngressProofs!MigrationTypes`, `NoneForgotten`, `UsersTextKept`, `WebhookOfLiving` | the type invariant and all three properties of `ingress_migration` | `Versions`: an object in the version a migrator read has the text it read; `Grows`: versions only grow, only users write text, and no ingress becomes one to move; `Progress`: what is to be moved is still owed or counted; `Guarded`: at the deletion the service was missing at the last look, and later looks have later numbers |
| `RoutesTypes`, `StaleRoutesAccounted`, `EventsInOrder` (also `IngressProofs`) | the type invariant and `StaleAccounted` of `ingress_routes`, and the order of events | `RoutesOwed`: once the informer listed, a route is asked for, in `lost`, or to be withdrawn by an event that is queued or under way, whatever an earlier process left, and a restart begins anew (`NotStarted`); `QueueOrdered` and `WorkerOrdered`: an event that registers a host nobody asks for has one that withdraws it behind it; `UnservedLost`: hosts whose service was ever missing are in `lost` |

None of the properties is inductive alone: `SingleLoop`, for example, is
preserved by `LoopReleases` only because the flag belongs to that loop, which is
what `Exclusion` adds.

Every invariant and every action property of a passing run is stated by one of
these theorems, and the refinements too.  The invariants above were checked by
TLC on the instances of section 4 before they were proved.  `RepliesInOrder` of
the two relays is no property of a run of its own: each step of `OneLife`, which
the runs check, adds the next chunk and no other.

Only model-checked: every liveness property (the prover has no rules for
fairness with `ENABLED`) and what the violation run shows.

## 6. Where code and documents disagree

### Shown by a run

| Run | Property | The code |
|---|---|---|
| `registration_gateway` | `Heals` | on a gateway, "not registered" makes the agent drop its cluster id and then skip every registration until a restart |

### Stated as a property, without a run of its own

Each of these formulas is defined in its module and fails there; add it to the
module's configuration to see the behaviour.

| Property | Instance | The code |
|---|---|---|
| `WSLifecycle!ClosedStaysClosed` | `WSLifecycle.cfg` | a dial in flight during `Close` installs its connection afterwards, sets `connected`, and nobody closes it |
| `WSLifecycle!CloseStopsReaders` | `WSLifecycle.cfg` | a reader in `pipeWriter.Write` (`wsc:940`) looks at no context, and `Close` shuts no pipe: `wg.Wait` waits for the handler that should read it, which on an upgraded request is the end of the session |
| `StateStore!SavedIsReadable` | `StateStore.cfg` | every `SaveX` is a load and a save with the lock released in between: two savers of different fields lose one of them; and a save after a first load that failed writes the other fields back empty |
| `Registration!NeverTwin` | `Registration.cfg` | a stored cluster id that cannot be read counts as none, and the agent registers as a new cluster ("will prevent re-registration on restart", `agent.go:1068`) |
| `ProxyRequest!NoHoles` | `ProxyRequest.cfg` | a body chunk that cannot be decoded is skipped while the pipe stays open, and the origin reads a body with a hole and a proper end |
| `K8sStreams!CloseCleansUp` | `K8sStreams.cfg` | a stream closed while Kubernetes is dialled goes on relaying |
| `ProxyRequest!StreamDataSafe` | `ProxyRequest.cfg` | stream data for an upgraded request is sent on the channel its writer closed: a panic |
| `TCPTunnels!DataInOrder` | with `Chunks = 2` | a goroutine per chunk writes to the service in any order, and loses what arrives before the dial returned; the `Sequence` number "for ordering" (`controlplane/types.go`) is neither sent nor read |
| `AppRelay!NoPanic` | `AppRelay.cfg` | a frame that looked its stream up before the clean-up and sends after it panics; so may the heartbeat and a relay that write at once |
| `Bootstrap!SelfHeals` | `Bootstrap.cfg` | no step of the plan is critical, so a set-up in which components failed is a success, and the loop that promises to retry "until it succeeds" ends |
| `Bootstrap!CredentialsMatch` | `Bootstrap.cfg` | each process makes up another Grafana password, and leaves the installed release alone |
| `IngressMigration!OnlyStaleWebhooks` | `IngressMigration.cfg` | the guard looks in the namespace `ingress-nginx` only, and not again before the deletion |
| `GatewayTunnels!NoPanic` | `GatewayTunnels.cfg` | with `gateway_label` the interval of the bulk synchronisation is zero, and `time.NewTicker` panics |
| `GatewayTunnels!BackendKnown` | `GatewayTunnels.cfg` | each bulk synchronisation erases the backend service of every tunnel |

### Found while modelling

- **WebSocket client.**  A goroutine of an old connection sets `connected` to
  false over a working new one (`wsc:765`, `wsc:1784`), after which
  `IsConnected` (`wsc:2761`: "returns whether the WebSocket is currently
  connected") answers no until the client connects again.  `TriggerReconnectNow`
  on a connected client leaves a token that a later outage consumes (`wsc:2797`,
  "no-op").
- **State store.**  With no store at all, a save is acknowledged and lost.
- **Registration.**  A connection refused with 401 leaves a dead client in
  `c.wsClient` that `RegisterAgent` takes for a live one
  (`controlplane/client.go:174`).  If the first connection of a process fails,
  the agent stays standalone (`agent.go:352`, `agent.go:668`).  A restart never
  resumes its gateway session, because the stored credentials are compared with
  an empty memory (`agent.go:3175`, `agent.go:885`).  Saves of other goroutines
  overlap: one that loaded before `ClearClusterID` writes the rejected id back, and
  the save of the agent id after a failed first read (`agent.go:288`) wipes the
  stored cluster id, so that the next registration makes another cluster.  A second "not registered"
  message that arrives after the new registration discards the new cluster
  (`agent.go:2186`).  A heartbeat skipped because of a registration under way
  counts as sent (`agent.go:1775`).
- **kubectl streams.**  When a stream is asked for by a `proxy_request`, a
  goroutine registers it, and data handled before is lost.
- **Proxied requests.**  `activeProxyRequests` ("for cancellation", `wsc:57`) is
  never filled, so a cancel only breaks the request's body.  A request that is
  refused, or upgraded, never closes its streamed body, and the reader goroutine
  waits for ever on the next chunk.  An upgrade that fails before its header may
  end in an empty, complete answer.  A pipe whose end never arrives stays in the
  map.  Without a Kubernetes client every HTTP request is refused, although
  daemon mode is to "forward to local origins instead" (`agent.go` `New`,
  `handleProxyRequest`).  `controlplane/README.md` names a
  `proxy_response_start` message; the code sends `proxy_response_header`.
- **TCP tunnels.**  `SetOnTCPStart`, `SetOnTCPData`, `SetOnTCPClose` and
  `SetOnUDPData` set the handlers of the current `WebSocketClient` only
  (`controlplane/client.go:426`), and the gateway client that replaces it is
  given the other handlers but not these: after a hand-over tunnel messages are
  dropped.  A close handled while its start dials finds no tunnel, so the tunnel
  opens for a client that is gone, until its read deadline.  The idle time-out is
  a deadline on reads from the service, so a client that only uploads is cut off
  ("close after inactivity", `src/docs/advanced/tcp-udp-tunneling.md:205`).  A
  tunnel registered after `Stop` is never closed.  When `buffer_size` is
  configured, the manager's `CleanupInterval` stays zero (`agent.go:458`) and
  `time.NewTicker` panics.  The handlers are installed even when tunnels are
  disabled and the manager they use is nil (`agent.go:374`, `agent.go:456`).
- **Application WebSockets.**  Frames of one stream may be reordered, since each
  has a goroutine of its own; those for a full channel are dropped.  A close
  handled while the service is dialled finds no stream and is lost.  The gateway
  is never told that the application ended its WebSocket.  `handleZeroCopyProxy`
  is reached by nothing.
- **Ingress watcher.**  An ingress that shares a host with another withdraws the
  route of both when it is deleted; one that loses a host by an update never
  withdraws it; neither does one that is deleted after its service, or whose
  deletion comes as a tombstone.  A synchronisation of an older list registers
  again what was withdrawn meanwhile.  The cluster id of the watcher is updated
  by `handleControlPlaneReconnect` only, not when another goroutine registers
  anew.  Routes of ingresses deleted while the agent is down stay: the informer
  shows what is there, the bulk call adds and withdraws nothing.  A service that
  cannot be read when its ingress is deleted leaves the route too.  A controller's
  service that was found is never looked for again.  A
  failed `Start` is not retried and leaves `isRunning` set.  An empty list is not
  sent.  `syncBatchWithRetry` is reached by nothing.
- **Gateway API watcher.**  It keeps the cluster id it was made with
  (`agent.go:724`), also when the agent registers as another cluster.  `Start` blocks until the informer has listed, before
  the heartbeat is started: where the Gateway API is missing, the agent never
  sends one.  A withdrawal that failed is forgotten; tunnels of gateways that
  went while the agent was down, and of listeners that were removed, are never
  withdrawn (`ListTunnels` is reached by nothing).  Ids have no namespace, so
  gateways of one name share theirs.  A bulk synchronisation registers again
  what was withdrawn while it was sent.  With `gateway_label` the detection has
  no time at all, and the cluster counts as private.
- **Bootstrap and Helm.**  A guarded component whose deployment exists is never
  looked at again, however broken its release; the cluster issuers are never made
  if the webhook was not ready in time.  CoreDNS is changed only when
  metrics-server or the autoscaler is missing.  A cluster role binding of another
  namespace is skipped once its role is gone.  `upgradeWithForce` cannot succeed
  where a plain upgrade failed for the release's state.  NGINX and the old
  Traefik are removed before the new Traefik is installed, and the old one may
  stay after a failed removal.  Traefik's requested version is spelled "v33.1.0"
  and the chart's own "33.1.0", so it is upgraded twice at every start, and loses
  its error pages in between; a process that failed in the second phase makes the
  next one take a working Traefik down.  If the ingress classes cannot be listed,
  another product's default is not respected.  Ingresses of monitoring get class
  `nginx` where no controller is seen.
- **Migration.**  A ConfigMap of NGINX that could not be read is replaced by a
  blank one, with an empty backup (`EditsKept` names it).  Ingresses that were
  counted as failed are not tried again until a restart.

## 7. What is not modelled, and the plan

Left out of the modelled components: contents of payloads, headers, encodings,
logging and metrics; the length of sleeps and time-outs (a time-out may fire at
any moment at which it could); in `Registration` daemon mode; in `StateStore`
`Clear()`, which nothing calls; in `ProxyRequest` bodies sent as binary frames
and a link lost in the middle of a request; in `K8sStreams` the channel framing;
in `TCPTunnels` byte counts and TCP options; in `AppRelay` the backpressure
message, which the agent does not read; in `IngressRoutes` paths, ports and
annotations of a route, and the routing mode (a synchronised host whose service
could not be read is sent without a path, which the control plane is taken to read
as a host that asks for nothing); in `Bootstrap` the values of the
charts, resource profiles and the legacy NGINX installer, which the plan does not
reach; in `GatewayTunnels` the cluster id and the in-memory control plane used by
tests.  The
components without a model and the reasons are in `PROJECT.json`.

Data races on plain fields (`stream.conn`, byte counters) are modelled by the
interleaving of the accesses, which on the supported builds are word-sized.

### Next, in order

1. **UDPTunnels** - on the same manager as `TCPTunnels`: two first datagrams, the
   loser's clean-up, the sweep.  Property: a tunnel that sends replies is
   registered.
2. **YamuxSession** - hello, pipe-fed connection, close; abstract specification:
   at most one session, and frames only for the current one.
3. **Upgrades**, **Encryption** - a rotation's stages around restarts.
4. **FrameCodec**, **Backpressure** - the codec as a pure operator against a
   reference, with widths, and the flow controller.

Abstract specifications worth adding: a stream's end (listed, held by one closer,
closed, told once) for `K8sStreams`, whose ids are used again, so that
`ServiceRelay` does not fit it; "the registered cluster" as a register with one writer for `Registration`; a table
that follows the cluster, for `IngressRoutes` and `GatewayTunnels`.

Theorems worth adding: those refinements; the safety half of each liveness property, as
`HandlerLeavesNothing` is of `Unwinds`.  Liveness stays with TLC.
