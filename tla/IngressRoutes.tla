---------------------------- MODULE IngressRoutes ----------------------------
(***************************************************************************)
(* The ingress watcher of the gateway proxy: ingress/watcher.go, the route *)
(* client of ingress/client.go, and the parts of agent/agent.go that start *)
(* it, resynchronise it and look routes up.                                *)
(*                                                                         *)
(* The informer calls onIngressEvent from one goroutine.  Full             *)
(* synchronisations run in others: the one of Start, the periodic refresh  *)
(* and those of handleControlPlaneReconnect.  All of them call the control *)
(* plane, with retries; a call may fail, or take effect although it        *)
(* reports an error.  The control plane keeps its routes when the agent is *)
(* killed and started anew, and drops one that nobody refreshes for a day. *)
(* Reads of the Kubernetes API fail too: to the watcher the service, the   *)
(* controller or the whole list it looked for is then not there.           *)
(*                                                                         *)
(* Abstractions: an ingress is whether PipeOps manages it and its set of   *)
(* hosts; the paths, ports and annotations of a host are left out.  One    *)
(* backend service stands behind each ingress: it is there and may be      *)
(* exposed, or not.  Hosts of one object are handled in any order.  The    *)
(* reads of one handler that fail count as one failure.                    *)
(***************************************************************************)
EXTENDS Naturals, Sequences, FiniteSets

CONSTANTS
  IngressNames,    \* names of ingresses
  Hosts,
  Specs,        \* what an ingress may be: [managed, hosts]
  Absent,       \* an ingress that does not exist
  Initially,    \* the ingresses there are when the agent starts
  UUIDs,        \* cluster ids, in the order they are issued: 1..n
  NoRoute,
  MaxRetries,   \* 3 in the code
  MaxChanges,   \* bound: changes in the cluster, reconnects and restarts
  MaxFailures   \* bound: failed calls of the control plane, failed reads

ASSUME RoutesAssumption ==
  /\ IsFiniteSet(IngressNames) /\ IsFiniteSet(Hosts)
  /\ \A s \in Specs : s.managed \in BOOLEAN /\ s.hosts \subseteq Hosts
  /\ Absent \notin Specs
  /\ Initially \in [IngressNames -> Specs \cup {Absent}]
  /\ UUIDs \subseteq Nat \ {0} /\ 1 \in UUIDs
  /\ NoRoute \notin UUIDs
  /\ MaxRetries \in Nat \ {0}
  /\ MaxChanges \in Nat /\ MaxFailures \in Nat

(* The goroutines that synchronise everything: Start, and TriggerResync.   *)
Syncers == {"start", "trigger"}

VARIABLES
  ingress,         \* the ingresses of the cluster
  served,          \* the ingresses whose backend service may be exposed
  controller,      \* the ingress controller's service exists
  changes,         \* number of changes so far
  phase,           \* of initializeGatewayProxy and Start
  ingressService,  \* the watcher knows the controller's service
  isRunning,
  clusterUUID,     \* the cluster id of the watcher
  routeCache,      \* hosts with an entry
  queue,           \* the informer's events, not handled yet
  worker,          \* onIngressEvent: what it has still to do
  syncer,          \* syncExistingIngresses, by goroutine
  routes,          \* the routes of the control plane: host -> cluster
  failures,        \* number of calls and reads that failed
  lost             \* history: hosts that nobody may withdraw any more

clusterVars == <<ingress, served, controller>>
watcher == <<phase, ingressService, isRunning, clusterUUID>>
routeVars == <<clusterVars, changes, watcher, routeCache, queue, worker,
          syncer, routes, failures, lost>>

Phases == {"type", "wait", "watch", "sync", "run", "stopped"}
Idle == [at |-> "idle", hosts |-> {}, uuid |-> 1, attempt |-> 0]
Events == [action : {"add", "update", "delete", "tombstone"},
           name : IngressNames, spec : Specs]

RoutesTypeOK ==
  /\ ingress \in [IngressNames -> Specs \cup {Absent}]
  /\ served \subseteq IngressNames
  /\ controller \in BOOLEAN
  /\ changes \in 0..MaxChanges
  /\ phase \in Phases
  /\ ingressService \in BOOLEAN /\ isRunning \in BOOLEAN
  /\ clusterUUID \in UUIDs
  /\ routeCache \subseteq Hosts
  /\ queue \in Seq(Events)
  /\ worker \in [at : {"idle", "register", "unregister", "call", "uncall"},
                 hosts : SUBSET Hosts, host : Hosts \cup {NoRoute},
                 uuid : UUIDs, attempt : 0..MaxRetries]
  /\ syncer \in [Syncers -> [at : {"idle", "build", "call"},
                             hosts : SUBSET Hosts, uuid : UUIDs,
                             attempt : 0..MaxRetries]]
  /\ routes \in [Hosts -> UUIDs \cup {NoRoute}]
  /\ failures \in 0..MaxFailures
  /\ lost \subseteq Hosts

Resting == [at |-> "idle", hosts |-> {}, host |-> NoRoute, uuid |-> 1,
            attempt |-> 0]

(* An earlier process of the agent may have left any routes.               *)
RoutesInit ==
  /\ ingress = Initially
  /\ served = IngressNames
  /\ controller \in BOOLEAN
  /\ changes = 0
  /\ phase = "type"
  /\ ingressService = FALSE /\ isRunning = FALSE
  /\ clusterUUID = 1
  /\ routeCache = {}
  /\ queue = <<>>
  /\ worker = Resting
  /\ syncer = [s \in Syncers |-> Idle]
  /\ routes \in [Hosts -> UUIDs \cup {NoRoute}]
  /\ failures = 0
  /\ lost = {}

-----------------------------------------------------------------------------
(* extractRoutes and the same loop of syncExistingIngresses: a route needs *)
(* a service that exists and may be exposed at the time it is looked at,   *)
(* on a deletion too.                                                      *)
ExtractRoutes(i, spec) == IF i \in served THEN spec.hosts ELSE {}

Managed(i) == ingress[i] # Absent /\ ingress[i].managed

(* What a synchronisation finds.                                           *)
Listed == UNION {ExtractRoutes(i, ingress[i]) : i \in {j \in IngressNames : Managed(j)}}

(* LookupRoute with GetIngressControllerService: a request without routing *)
(* information finds where to go.                                          *)
LookupRoute(h) == h \in routeCache /\ ingressService

(* A call of the control plane returns no error, returns one, or returns   *)
(* one after it took effect (the answer was lost, or came after 30 s).     *)
Succeeds(new) == routes' = new /\ UNCHANGED failures
Fails(new) ==
  /\ failures < MaxFailures
  /\ failures' = failures + 1
  /\ routes' \in {routes, new}

Put(hosts, uuid) == [h \in Hosts |-> IF h \in hosts THEN uuid ELSE routes[h]]

(* A handler's reads of the Kubernetes API find all there is, or one fails.*)
Reads(all) ==
  IF all THEN UNCHANGED failures
  ELSE failures < MaxFailures /\ failures' = failures + 1

-----------------------------------------------------------------------------
(* The cluster.  The informer sees every change once it runs; a deletion   *)
(* that it missed, because its watch broke, comes as a tombstone, which    *)
(* DeleteFunc does not look into.                                          *)
Watching == phase \in {"sync", "run"}

Notify(action, i, spec) ==
  queue' = IF Watching
           THEN Append(queue, [action |-> action, name |-> i, spec |-> spec])
           ELSE queue

(* Bounds: nothing changes any more when the watcher is stopped.           *)
Change == phase # "stopped" /\ changes < MaxChanges /\ changes' = changes + 1

ClusterOnly == UNCHANGED <<watcher, routeCache, worker, syncer,
                           routes, failures>>

Create(i) ==
  /\ Change
  /\ ingress[i] = Absent
  /\ \E s \in Specs :
       /\ ingress' = [ingress EXCEPT ![i] = s]
       /\ Notify("add", i, s)
  /\ ClusterOnly /\ UNCHANGED <<served, controller, lost>>

Edit(i) ==
  /\ Change
  /\ ingress[i] # Absent
  /\ \E s \in Specs \ {ingress[i]} :
       /\ ingress' = [ingress EXCEPT ![i] = s]
       /\ Notify("update", i, s)
       /\ lost' = lost \cup (ingress[i].hosts \ (IF s.managed THEN s.hosts ELSE {}))
  /\ ClusterOnly /\ UNCHANGED <<served, controller>>

Delete(i) ==
  /\ Change
  /\ ingress[i] # Absent
  /\ ingress' = [ingress EXCEPT ![i] = Absent]
  /\ \E a \in {"delete", "tombstone"} :
       /\ Notify(a, i, ingress[i])
       /\ lost' = IF a = "tombstone" THEN lost \cup ingress[i].hosts ELSE lost
  /\ ClusterOnly /\ UNCHANGED <<served, controller>>

BackendChanges(i) ==
  /\ Change
  /\ served' = IF i \in served THEN served \ {i} ELSE served \cup {i}
  /\ lost' = IF i \in served THEN lost \cup UNION {s.hosts : s \in Specs} ELSE lost
  /\ ClusterOnly /\ UNCHANGED <<ingress, controller, queue>>

ControllerAppears ==
  /\ ~controller /\ controller' = TRUE
  /\ ClusterOnly /\ UNCHANGED <<ingress, served, changes, queue, lost>>

-----------------------------------------------------------------------------
(* initializeGatewayProxy, which runs once, and Start.                     *)
StarterOnly == UNCHANGED <<clusterVars, changes, clusterUUID,
                           routeCache, worker, routes>>

(* DetectClusterType and DetectLoadBalancerEndpoint wait up to two minutes *)
(* for a public address; the mode they find is part of each request.       *)
DetectClusterType ==
  /\ phase = "type"
  /\ phase' = "wait"
  /\ StarterOnly
  /\ UNCHANGED <<ingressService, isRunning, queue, syncer, failures, lost>>

(* waitForIngressControllerService, which gives up after three minutes.    *)
WaitForController ==
  /\ phase = "wait"
  /\ phase' = "watch" /\ isRunning' = TRUE
  /\ ingressService' \in {controller, FALSE}
  /\ StarterOnly /\ UNCHANGED <<queue, syncer, failures, lost>>

(* The informer lists what there is and adds it; Start goes on to its own  *)
(* synchronisation.  A route of a host that is not asked for by now is one *)
(* of an earlier process: it will see no event for it.                     *)
StartInformer ==
  /\ phase = "watch"
  /\ phase' = "sync"
  /\ \E q \in [1..Cardinality({i \in IngressNames : ingress[i] # Absent}) ->
                 {[action |-> "add", name |-> i, spec |-> ingress[i]] :
                    i \in {j \in IngressNames : ingress[j] # Absent}}] :
       /\ \A m, n \in DOMAIN q : m # n => q[m] # q[n]
       /\ queue' = q
  /\ lost' = lost \cup {h \in Hosts : routes[h] # NoRoute /\ h \notin Listed}
  /\ StarterOnly /\ UNCHANGED <<ingressService, isRunning, syncer, failures>>

(* The agent stops the watcher that it knows.                              *)
Stop ==
  /\ phase = "run" /\ isRunning
  /\ phase' = "stopped" /\ isRunning' = FALSE
  /\ queue' = <<>>
  /\ StarterOnly /\ UNCHANGED <<ingressService, syncer, failures, lost>>

(* What the calls under way would make of the route of host h.             *)
UnderWay(h) ==
  {u \in UUIDs \cup {NoRoute} :
     \/ worker.at = "call" /\ worker.host = h /\ worker.uuid = u
     \/ worker.at = "uncall" /\ worker.host = h /\ u = NoRoute
     \/ \E s \in Syncers :
          syncer[s].at = "call" /\ h \in syncer[s].hosts /\ syncer[s].uuid = u}

(* The agent is killed and started anew, perhaps as another cluster.  What *)
(* it held is gone, and a call under way may still take effect.            *)
Restart ==
  /\ changes < MaxChanges /\ changes' = changes + 1
  /\ phase' = "type" /\ ingressService' = FALSE /\ isRunning' = FALSE
  /\ clusterUUID' \in {clusterUUID, clusterUUID + 1} \cap UUIDs
  /\ routeCache' = {} /\ queue' = <<>> /\ worker' = Resting
  /\ syncer' = [s \in Syncers |-> Idle]
  /\ routes' \in [Hosts -> UUIDs \cup {NoRoute}]
  /\ \A h \in Hosts : routes'[h] \in {routes[h]} \cup UnderWay(h)
  /\ UNCHANGED <<clusterVars, failures, lost>>

-----------------------------------------------------------------------------
(* onIngressEvent.                                                         *)
WorkerOnly == UNCHANGED <<clusterVars, changes, phase, isRunning,
                          clusterUUID, syncer>>

(* The controller's service is known, or found now.                        *)
Detected == ingressService \/ controller

(* What was found of its routes is registered or withdrawn.  A tombstone   *)
(* is dropped before anything is read.                                     *)
HandleEvent ==
  /\ worker.at = "idle" /\ queue # <<>>
  /\ queue' = Tail(queue)
  /\ LET e == Head(queue)
         all == IF e.spec.managed THEN ExtractRoutes(e.name, e.spec) ELSE {}
         Does(step, hosts) == worker' = [Resting EXCEPT !.at = step, !.hosts = hosts]
     IN  \/ /\ e.action = "tombstone"
            /\ UNCHANGED <<worker, ingressService, failures, lost>>
         \/ /\ e.action \in {"add", "update"}
            /\ \E hosts \in SUBSET all, found \in {ingressService, Detected} :
                 /\ Reads(hosts = all /\ (hosts = {} \/ found = Detected))
                 /\ IF hosts = {} THEN UNCHANGED ingressService
                                  ELSE ingressService' = found
                 /\ IF hosts # {} /\ found THEN Does("register", hosts)
                                            ELSE UNCHANGED worker
            /\ UNCHANGED lost
         \/ /\ e.action = "delete"
            /\ \E hosts \in SUBSET all :
                 /\ Reads(hosts = all)
                 /\ IF hosts = {} THEN UNCHANGED worker
                                  ELSE Does("unregister", hosts)
                 /\ lost' = lost \cup (all \ hosts)
            /\ UNCHANGED ingressService
  /\ WorkerOnly /\ UNCHANGED <<routeCache, routes>>

(* The next route: into the cache, then the calls.                         *)
NextRegister ==
  /\ worker.at = "register" /\ worker.hosts # {}
  /\ \E h \in worker.hosts :
       /\ routeCache' = routeCache \cup {h}
       /\ worker' = [worker EXCEPT !.at = "call", !.hosts = @ \ {h}, !.host = h,
                                   !.uuid = clusterUUID, !.attempt = 0]
  /\ WorkerOnly /\ UNCHANGED <<ingressService, queue, routes, failures, lost>>

NextUnregister ==
  /\ worker.at = "unregister" /\ worker.hosts # {}
  /\ \E h \in worker.hosts :
       /\ routeCache' = routeCache \ {h}
       /\ worker' = [worker EXCEPT !.at = "uncall", !.hosts = @ \ {h}, !.host = h,
                                   !.attempt = 0]
  /\ WorkerOnly /\ UNCHANGED <<ingressService, queue, routes, failures, lost>>

EventDone ==
  /\ worker.at \in {"register", "unregister"} /\ worker.hosts = {}
  /\ worker' = Resting
  /\ WorkerOnly
  /\ UNCHANGED <<ingressService, queue, routeCache, routes, failures, lost>>

(* registerRouteWithRetry                                                  *)
RegisterRoute ==
  /\ worker.at = "call"
  /\ LET new  == Put({worker.host}, worker.uuid)
         Done == [Resting EXCEPT !.at = "register", !.hosts = worker.hosts]
     IN  \/ Succeeds(new) /\ worker' = Done
         \/ /\ Fails(new)
            /\ worker' = IF worker.attempt + 1 < MaxRetries
                         THEN [worker EXCEPT !.attempt = @ + 1] ELSE Done
  /\ WorkerOnly /\ UNCHANGED <<ingressService, queue, routeCache, lost>>

(* Mutant: a withdrawal that fails is not tried again.                     *)
UnregisterOnce ==
  /\ worker.at = "uncall"
  /\ LET new == Put({worker.host}, NoRoute)
     IN  (Succeeds(new) \/ Fails(new))
  /\ worker' = [Resting EXCEPT !.at = "unregister", !.hosts = worker.hosts]
  /\ WorkerOnly /\ UNCHANGED <<ingressService, queue, routeCache, lost>>

(* unregisterRouteWithRetry                                                *)
UnregisterRoute ==
  /\ worker.at = "uncall"
  /\ LET new  == Put({worker.host}, NoRoute)
         Done == [Resting EXCEPT !.at = "unregister", !.hosts = worker.hosts]
         Last == worker.attempt + 1 >= MaxRetries
     IN  \/ Succeeds(new) /\ worker' = Done /\ UNCHANGED lost
         \/ /\ Fails(new)
            /\ worker' = IF Last THEN Done ELSE [worker EXCEPT !.attempt = @ + 1]
            /\ lost' = IF Last THEN lost \cup {worker.host} ELSE lost
  /\ WorkerOnly /\ UNCHANGED <<ingressService, queue, routeCache>>

(* The informer's resynchronisation, every five minutes: an update for     *)
(* every ingress of its cache, once it has caught up.                      *)
Resync(i) ==
  /\ Watching /\ queue = <<>> /\ worker = Resting
  /\ ingress[i] # Absent
  /\ Notify("update", i, ingress[i])
  /\ WorkerOnly
  /\ UNCHANGED <<ingressService, routeCache, worker, routes, failures, lost>>

-----------------------------------------------------------------------------
(* syncExistingIngresses.                                                  *)
SyncerOnly == UNCHANGED <<clusterVars, changes, isRunning, queue, worker>>

(* Mutant: what is synchronised is what the cache holds.                   *)
SyncCached(s) ==
  /\ ingressService' = Detected /\ UNCHANGED failures
  /\ syncer' = [syncer EXCEPT ![s] =
       IF Detected THEN [Idle EXCEPT !.at = "build", !.hosts = Listed \cup routeCache]
       ELSE Idle]

(* The controller's service is found, and the ingresses are listed.  A     *)
(* host whose service cannot be read is sent without a path, which is      *)
(* taken to ask for nothing.                                               *)
Sync(s) ==
  \E found \in {ingressService, Detected}, hosts \in SUBSET Listed :
    /\ Reads(found = Detected /\ hosts = Listed)
    /\ ingressService' = found
    /\ syncer' = [syncer EXCEPT ![s] =
         IF found THEN [Idle EXCEPT !.at = "build", !.hosts = hosts] ELSE Idle]

StartSyncs ==
  /\ phase = "sync" /\ syncer["start"].at = "idle"
  /\ phase' = "run"
  /\ Sync("start")
  /\ SyncerOnly
  /\ UNCHANGED <<clusterUUID, routeCache, routes, lost>>

(* startPeriodicRouteRefresh: TriggerResync of the running watcher.        *)
PeriodicRefresh ==
  /\ phase = "run" /\ isRunning /\ syncer["trigger"].at = "idle"
  /\ Sync("trigger")
  /\ SyncerOnly
  /\ UNCHANGED <<phase, clusterUUID, routeCache, routes, lost>>

(* handleControlPlaneReconnect: TriggerResync, after UpdateClusterUUID if  *)
(* it is this handler that registered again.                               *)
Reconnected ==
  /\ phase = "run" /\ isRunning /\ syncer["trigger"].at = "idle"
  /\ Change
  /\ clusterUUID' \in {clusterUUID, clusterUUID + 1} \cap UUIDs
  /\ Sync("trigger")
  /\ UNCHANGED <<clusterVars, isRunning, queue, worker, phase,
                 routeCache, routes, lost>>

(* The entries of the cache are written, and the request is built.         *)
Build(s) ==
  /\ syncer[s].at = "build"
  /\ routeCache' = routeCache \cup syncer[s].hosts
  /\ syncer' = [syncer EXCEPT ![s] =
       IF syncer[s].hosts = {} THEN Idle
       ELSE [@ EXCEPT !.at = "call", !.uuid = clusterUUID]]
  /\ SyncerOnly
  /\ UNCHANGED <<phase, ingressService, clusterUUID, routes,
                 failures, lost>>

(* SyncIngresses, up to three times.                                       *)
SyncIngresses(s) ==
  /\ syncer[s].at = "call"
  /\ LET new  == Put(syncer[s].hosts, syncer[s].uuid)
     IN  \/ Succeeds(new) /\ syncer' = [syncer EXCEPT ![s] = Idle]
         \/ /\ Fails(new)
            /\ syncer' = IF syncer[s].attempt + 1 < MaxRetries
                         THEN [syncer EXCEPT ![s].attempt = @ + 1]
                         ELSE [syncer EXCEPT ![s] = Idle]
  /\ lost' = lost \cup (syncer[s].hosts \ Listed)
  /\ SyncerOnly
  /\ UNCHANGED <<phase, ingressService, clusterUUID, routeCache>>

-----------------------------------------------------------------------------
(* The control plane forgets a route that nobody refreshed for 24 hours,   *)
(* while refreshes came at least every four, once there is a controller.   *)
Offered(h) == h \in Listed /\ phase # "stopped" /\ Detected

Expire(h) ==
  /\ routes[h] # NoRoute /\ ~Offered(h)
  /\ routes' = [routes EXCEPT ![h] = NoRoute]
  /\ UNCHANGED <<clusterVars, changes, watcher, routeCache, queue,
                 worker, syncer, failures, lost>>

Cluster ==
  \/ \E i \in IngressNames : Create(i) \/ Edit(i) \/ Delete(i) \/ BackendChanges(i)
  \/ ControllerAppears
Starter == DetectClusterType \/ WaitForController
           \/ StartInformer \/ StartSyncs
Worker == HandleEvent \/ NextRegister \/ NextUnregister \/ EventDone
          \/ RegisterRoute \/ UnregisterRoute
Syncs(s) == Build(s) \/ SyncIngresses(s)

RoutesNext ==
  \/ Cluster \/ Starter \/ Stop \/ Restart \/ Worker
  \/ \E i \in IngressNames : Resync(i)
  \/ \E s \in Syncers : Syncs(s)
  \/ PeriodicRefresh \/ Reconnected
  \/ \E h \in Hosts : Expire(h)

RoutesSpec == RoutesInit /\ [][RoutesNext]_routeVars

(* The goroutines go on, the informer resynchronises every ingress, the    *)
(* periodic refresh comes, and routes expire.                              *)
RoutesFairness ==
  /\ WF_routeVars(Starter) /\ WF_routeVars(Worker)
  /\ \A i \in IngressNames : SF_routeVars(Resync(i))
  /\ \A s \in Syncers : WF_routeVars(Syncs(s))
  /\ \A h \in Hosts : WF_routeVars(Expire(h))

FairRoutesSpec == RoutesSpec /\ RoutesFairness

-----------------------------------------------------------------------------
WantedHost(h) == phase = "run" /\ controller /\ h \in Listed

(* When the cluster has settled, every host of a managed ingress has a     *)
(* route for the cluster the watcher knows, and no other host has one:     *)
(* whatever calls failed, however events and synchronisations interleaved, *)
(* and although an ingress that shares a host withdraws it.  The cache     *)
(* then finds the host for a request without routing information.          *)
RoutesConverge ==
  \A h \in Hosts :
    /\ <>[]WantedHost(h) => <>[](routes[h] = clusterUUID /\ LookupRoute(h))
    /\ <>[]~WantedHost(h) => <>[](routes[h] = NoRoute)

(* An event, or a call, that is about to deal with host h.                 *)
Pending(h) ==
  \/ \E n \in DOMAIN queue :
       /\ queue[n].action = "delete" /\ queue[n].spec.managed
       /\ h \in queue[n].spec.hosts
  \/ worker.at \in {"unregister", "uncall"} /\ h \in worker.hosts \cup {worker.host}

(* A route that no ingress asks for any more is about to be withdrawn, or  *)
(* it is one of those nobody withdraws: an earlier process left it, its    *)
(* host was edited away, its service went first or could not be read, its  *)
(* deletion came as a tombstone, its withdrawal failed each time, or a     *)
(* synchronisation had listed it before.                                   *)
StaleAccounted ==
  Watching =>
    \A h \in Hosts : routes[h] # NoRoute /\ h \notin Listed => h \in lost \/ Pending(h)
=============================================================================
