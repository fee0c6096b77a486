---------------------------- MODULE GatewayTunnels ----------------------------
(* The Gateway API watcher (tunnel/gateway_watcher.go): an informer keeps a *)
(* local store of the labelled gateways and queues the key of each one that *)
(* changes; one worker registers the TCP and UDP listeners of the gateway   *)
(* with the control plane, or withdraws what it registered for one that is  *)
(* gone; a ticker sends all it remembers in bulk.  Gateways, routes and the *)
(* load balancer change, calls fail on either way and the process restarts. *)
EXTENDS Naturals, FiniteSets

CONSTANTS
  Gateways,         \* keys of labelled gateways: namespace and name
  Listeners,        \* TCP and UDP ports that gateways may listen on
  Asks,             \* values of the annotation pipeops.io/routing-mode; "auto": none
  ForceTunnelMode,  \* config.Tunnels.Routing.ForceTunnelMode
  DualModeEnabled,  \* config.Tunnels.Routing.DualModeEnabled
  MaxUpsets         \* bound: changes in the cluster, calls that fail and
                    \* restarts of the process, all together

ASSUME TunnelsAssumption ==
  /\ Asks \subseteq {"auto", "tunnel", "dual", "direct"}
  /\ ForceTunnelMode \in BOOLEAN /\ DualModeEnabled \in BOOLEAN
  /\ MaxUpsets \in Nat

Absent == [is |-> "absent"]
Specs ==
  [is : {"gateway"}, listeners : SUBSET Listeners, ip : BOOLEAN, asks : Asks]
Modes == {"tunnel", "dual", "direct"}
\* What is registered: whose it is, how it is reached, and whether its
\* backend service is named.
Tunnels ==
  [is : {"tunnel"}, gw : Gateways, mode : Modes, ip : BOOLEAN, service : BOOLEAN]

\* A tunnel's id has the gateway's name and the port, but no namespace.
Ids == Gateways \X Listeners

VARIABLES
  name,     \* name[g]: stands for the name of g without its namespace
  label,    \* the configuration names a label, and so leaves SyncInterval zero
  gw,       \* the gateways in the cluster
  routed,   \* gateways whose listeners have a TCPRoute or UDPRoute
  balancer, \* some service has a load balancer with an address
  place,    \* "wait" in Start, "run", "stopping", "stopped", "crashed"
  store,    \* the informer's view of gw
  queue,    \* w.workqueue
  worker,   \* runWorker: what it does and with which gateway
  tunnels,  \* w.tunnels, by id
  syncer,   \* periodicSync
  clusterType,  \* w.clusterType
  cp,       \* the registrations at the control plane, by id
  strays,   \* ghost: ids registered without the watcher's knowledge
  upsets    \* how many upsets there were

vars == <<name, label, gw, routed, balancer, place, store, queue, worker,
          tunnels, syncer, clusterType, cp, strays, upsets>>
cluster == <<gw, routed, balancer>>
fixed == <<name, label>>

Idle == [at |-> "idle"]
Id(g, l) == <<name[g], l>>
NoTunnels == [id \in Ids |-> Absent]

Init ==
  /\ name \in [Gateways -> Gateways] /\ label \in BOOLEAN
  /\ gw \in [Gateways -> Specs \cup {Absent}]
  /\ routed \in SUBSET Gateways /\ balancer \in BOOLEAN
  /\ place = "wait" /\ store = [g \in Gateways |-> Absent] /\ queue = {}
  /\ worker = Idle /\ tunnels = NoTunnels /\ syncer = [at |-> "off"]
  /\ clusterType = "unknown" /\ cp = NoTunnels
  /\ strays = {} /\ upsets = 0

-----------------------------------------------------------------------------
(* The cluster.                                                            *)

Upset == upsets < MaxUpsets /\ upsets' = upsets + 1

GatewayChanges(g) ==
  /\ Upset
  /\ \E s \in (Specs \cup {Absent}) \ {gw[g]} : gw' = [gw EXCEPT ![g] = s]
  /\ UNCHANGED <<routed, balancer>>

RouteChanges(g) ==
  /\ Upset
  /\ routed' = (routed \ {g}) \cup ({g} \ routed)
  /\ UNCHANGED <<gw, balancer>>

BalancerGetsAddress ==
  /\ Upset /\ ~balancer /\ balancer' = TRUE
  /\ UNCHANGED <<gw, routed>>

Cluster ==
  /\ \/ \E g \in Gateways : GatewayChanges(g) \/ RouteChanges(g)
     \/ BalancerGetsAddress
  /\ UNCHANGED <<fixed, place, store, queue, worker, tunnels, syncer,
                 clusterType, cp, strays>>

-----------------------------------------------------------------------------
(* The informer and the life of the watcher.                               *)

\* The informer delivers each change, however many at once, in store first.
Present == {g \in Gateways : gw[g] # Absent}

\* WaitForCacheSync ends with the first list; then the two goroutines start.
Start ==
  /\ place = "wait" /\ place' = "run"
  /\ store' = gw /\ queue' = Present /\ syncer' = [at |-> "start"]
  /\ UNCHANGED <<fixed, cluster, worker, tunnels, clusterType, cp, strays, upsets>>

Observe(g) ==
  /\ place = "run" /\ store[g] # gw[g]
  /\ store' = [store EXCEPT ![g] = gw[g]] /\ queue' = queue \cup {g}
  /\ UNCHANGED <<fixed, cluster, place, worker, tunnels, syncer, clusterType,
                 cp, strays, upsets>>

\* Mutant: an update that changes nothing is not queued.
ResyncUnchanged ==
  /\ place = "run" /\ ~label
  /\ queue' = queue \cup {g \in Gateways : store[g] # gw[g]}
  /\ UNCHANGED <<fixed, cluster, place, store, worker, tunnels, syncer,
                 clusterType, cp, strays, upsets>>

\* The informer's own resync, every SyncInterval unless that is zero.
Resync ==
  /\ place = "run" /\ ~label
  /\ queue' = queue \cup {g \in Gateways : store[g] # Absent}
  /\ UNCHANGED <<fixed, cluster, place, store, worker, tunnels, syncer,
                 clusterType, cp, strays, upsets>>

\* Stop lets the worker empty the queue and withdraws nothing.
Stop ==
  /\ Upset /\ place \in {"wait", "run"}
  /\ place' = IF place = "wait" THEN "stopped" ELSE "stopping"
  /\ UNCHANGED <<fixed, cluster, store, queue, worker, tunnels, syncer,
                 clusterType, cp, strays>>

Stopped ==
  /\ place = "stopping" /\ place' = "stopped"
  /\ worker = Idle /\ queue = {} /\ syncer.at \in {"start", "idle"}
  /\ UNCHANGED <<fixed, cluster, store, queue, worker, tunnels, syncer,
                 clusterType, cp, strays, upsets>>

\* A new process, after a stop or a crash or in place of one that was killed,
\* remembers nothing, and never asks what is registered.
Restart ==
  /\ IF place = "stopped" THEN UNCHANGED upsets ELSE Upset
  /\ place' = "wait" /\ store' = [g \in Gateways |-> Absent] /\ queue' = {}
  /\ worker' = Idle /\ tunnels' = NoTunnels /\ syncer' = [at |-> "off"]
  /\ clusterType' = "unknown"
  /\ strays' = {id \in Ids : cp[id] # Absent}
  /\ UNCHANGED <<fixed, cluster, cp>>

Alive == place \in {"run", "stopping"}

-----------------------------------------------------------------------------
(* detectClusterType runs once; its timeout is zero with a label.          *)

Detect(type) ==
  /\ place = "run" /\ clusterType = "unknown" /\ clusterType' = type
  /\ UNCHANGED <<fixed, cluster, place, store, queue, worker, tunnels, syncer,
                 cp, strays, upsets>>

DetectPublic == balancer /\ ~label /\ Detect("public")
DetectTimeout == Detect("private")

-----------------------------------------------------------------------------
(* The worker.                                                             *)

\* determineRoutingMode
RoutingMode(spec) ==
  IF spec.asks # "auto" THEN spec.asks
  ELSE IF ForceTunnelMode \/ clusterType = "private" \/ ~spec.ip THEN "tunnel"
  ELSE IF DualModeEnabled THEN "dual"
  ELSE "direct"

\* Mutant: a gateway that lost its listeners is treated as one that is gone.
SyncGatewayNoListeners(g) ==
  /\ Alive /\ worker = Idle /\ g \in queue /\ queue' = queue \ {g}
  /\ worker' =
       IF store[g] = Absent \/ store[g].listeners = {}
         THEN [at |-> "withdraw", gw |-> g,
               left |-> {id \in Ids : tunnels[id] # Absent /\ tunnels[id].gw = g}]
         ELSE [at |-> "listeners", gw |-> g, spec |-> store[g],
               mode |-> RoutingMode(store[g]), left |-> store[g].listeners]
  /\ UNCHANGED <<fixed, cluster, place, store, tunnels, syncer, clusterType, cp,
                 strays, upsets>>

\* The next key: the gateway as it is in the store now, its mode settled now.
SyncGateway(g) ==
  /\ Alive /\ worker = Idle /\ g \in queue /\ queue' = queue \ {g}
  /\ worker' =
       IF store[g] = Absent
         THEN [at |-> "withdraw", gw |-> g,
               left |-> {id \in Ids : tunnels[id] # Absent /\ tunnels[id].gw = g}]
         ELSE [at |-> "listeners", gw |-> g, spec |-> store[g],
               mode |-> RoutingMode(store[g]), left |-> store[g].listeners]
  /\ UNCHANGED <<fixed, cluster, place, store, tunnels, syncer, clusterType, cp,
                 strays, upsets>>

\* processGateway, the next listener: a backend that cannot be looked up is
\* left out, as if there were no route.
LookupBackendService(l) ==
  /\ Alive /\ worker.at = "listeners" /\ l \in worker.left
  /\ \E found \in BOOLEAN :
       /\ found => worker.gw \in routed
       /\ IF ~found /\ worker.gw \in routed THEN Upset ELSE UNCHANGED upsets
       /\ worker' = [at |-> "call", gw |-> worker.gw, spec |-> worker.spec,
            mode |-> worker.mode, left |-> worker.left \ {l},
            id |-> Id(worker.gw, l),
            tunnel |-> [is |-> "tunnel", gw |-> worker.gw, mode |-> worker.mode,
                        ip |-> worker.spec.ip, service |-> found]]
  /\ UNCHANGED <<fixed, cluster, place, store, queue, tunnels, syncer,
                 clusterType, cp, strays>>

NextListener ==
  [at |-> "listeners", gw |-> worker.gw, spec |-> worker.spec,
   mode |-> worker.mode, left |-> worker.left]

\* The control plane takes the registration (RegisterTunnel).
RegisterTunnel ==
  /\ Alive /\ worker.at = "call"
  /\ cp' = [cp EXCEPT ![worker.id] = worker.tunnel]
  /\ worker' = [worker EXCEPT !.at = "answer"]
  /\ UNCHANGED <<fixed, cluster, place, store, queue, tunnels, syncer,
                 clusterType, strays, upsets>>

\* A call that failed is logged; the next listener's turn comes.  The call
\* may have failed before the control plane saw it, or after.
RegisterFails ==
  /\ Alive /\ worker.at \in {"call", "answer"} /\ Upset
  /\ worker' = NextListener
  /\ strays' = IF worker.at = "answer" /\ tunnels[worker.id] = Absent
                 THEN strays \cup {worker.id} ELSE strays
  /\ UNCHANGED <<fixed, cluster, place, store, queue, tunnels, syncer,
                 clusterType, cp>>

\* registerTunnel returned: the tunnel is remembered.
Registered ==
  /\ Alive /\ worker.at = "answer"
  /\ tunnels' = [tunnels EXCEPT ![worker.id] = worker.tunnel]
  /\ strays' = strays \ {worker.id} /\ worker' = NextListener
  /\ UNCHANGED <<fixed, cluster, place, store, queue, syncer, clusterType, cp, upsets>>

\* Mutant: a tunnel that may be reached directly is dropped without a call.
DeregisterTunnelDirect(id) ==
  /\ Alive /\ worker.at = "withdraw" /\ id \in worker.left
  /\ worker' = [worker EXCEPT !.left = @ \ {id}]
  /\ IF tunnels[id] # Absent /\ tunnels[id].mode # "tunnel"
       THEN UNCHANGED <<cp, strays>>
       ELSE cp' = [cp EXCEPT ![id] = Absent] /\ strays' = strays \ {id}
  /\ tunnels' = [tunnels EXCEPT ![id] = Absent]
  /\ UNCHANGED <<fixed, cluster, place, store, queue, syncer, clusterType, upsets>>

\* deregisterGatewayTunnels, one tunnel; tunnelsMu is held to the end.  What
\* could not be withdrawn is forgotten as well.
DeregisterTunnel(id) ==
  /\ Alive /\ worker.at = "withdraw" /\ id \in worker.left
  /\ worker' = [worker EXCEPT !.left = @ \ {id}]
  /\ tunnels' = [tunnels EXCEPT ![id] = Absent]
  /\ \/ cp' = [cp EXCEPT ![id] = Absent] /\ strays' = strays \ {id}
        /\ UNCHANGED upsets
     \/ Upset /\ strays' = strays \cup {id} /\ UNCHANGED cp
  /\ UNCHANGED <<fixed, cluster, place, store, queue, syncer, clusterType>>

\* syncGateway never returns an error: the key is forgotten, not retried.
GatewaySynced ==
  /\ Alive /\ worker.at \in {"listeners", "withdraw"} /\ worker.left = {}
  /\ worker' = Idle
  /\ UNCHANGED <<fixed, cluster, place, store, queue, tunnels, syncer,
                 clusterType, cp, strays, upsets>>

-----------------------------------------------------------------------------
(* The bulk synchronisation.                                               *)

\* periodicSync starts: time.NewTicker panics at an interval of zero.
NewTicker ==
  /\ Alive /\ syncer.at = "start" /\ syncer' = [at |-> "idle"]
  /\ place' = IF label THEN "crashed" ELSE place
  /\ UNCHANGED <<fixed, cluster, store, queue, worker, tunnels, clusterType, cp,
                 strays, upsets>>

\* syncAllTunnels, under the read lock: no backend is sent.
SyncAllTunnels ==
  /\ place = "run" /\ syncer.at = "idle" /\ worker.at # "withdraw"
  /\ tunnels # NoTunnels
  /\ syncer' = [at |-> "call", all |-> [id \in Ids |->
       IF tunnels[id] = Absent THEN Absent
       ELSE [tunnels[id] EXCEPT !.service = FALSE]]]
  /\ UNCHANGED <<fixed, cluster, place, store, queue, worker, tunnels,
                 clusterType, cp, strays, upsets>>

\* The control plane takes what it was sent, whatever happened since.
TunnelsSynced ==
  /\ Alive /\ syncer.at = "call" /\ syncer' = [at |-> "idle"]
  /\ LET sent == {id \in Ids : syncer.all[id] # Absent} IN
       /\ cp' = [id \in Ids |-> IF id \in sent THEN syncer.all[id] ELSE cp[id]]
       /\ strays' = strays \cup {id \in sent : tunnels[id] = Absent}
  /\ UNCHANGED <<fixed, cluster, place, store, queue, worker, tunnels,
                 clusterType, upsets>>

SyncFails ==
  /\ Alive /\ syncer.at = "call" /\ syncer' = [at |-> "idle"] /\ Upset
  /\ UNCHANGED <<fixed, cluster, place, store, queue, worker, tunnels,
                 clusterType, cp, strays>>

-----------------------------------------------------------------------------
Worker ==
  \/ \E g \in Gateways : SyncGateway(g)
  \/ \E l \in Listeners : LookupBackendService(l)
  \/ RegisterTunnel \/ RegisterFails \/ Registered
  \/ \E id \in Ids : DeregisterTunnel(id)
  \/ GatewaySynced

Informer == Start \/ Resync \/ \E g \in Gateways : Observe(g)
Syncer == NewTicker \/ SyncAllTunnels \/ TunnelsSynced \/ SyncFails

Next ==
  \/ Cluster \/ Informer \/ Worker \/ Syncer
  \/ DetectPublic \/ DetectTimeout
  \/ Stop \/ Stopped \/ Restart

Spec == Init /\ [][Next]_vars

(* Goroutines that can run do; informer and tickers go on; Kubernetes      *)
(* restarts a process that ended.                                          *)
Fairness ==
  /\ WF_vars(Start) /\ WF_vars(Resync)
  /\ \A g \in Gateways : WF_vars(Observe(g)) /\ SF_vars(SyncGateway(g))
  /\ WF_vars(Worker) /\ WF_vars(Syncer)
  /\ WF_vars(DetectTimeout)
  /\ WF_vars(Stopped) /\ WF_vars(place \in {"stopped", "crashed"} /\ Restart)

FairSpec == Spec /\ Fairness

-----------------------------------------------------------------------------
Withdrawals == [at : {"withdraw"}, gw : Gateways, left : SUBSET Ids]
Walks ==
  [at : {"listeners"}, gw : Gateways, spec : Specs, mode : Modes,
   left : SUBSET Listeners]
Calls ==
  [at : {"call", "answer"}, gw : Gateways, spec : Specs, mode : Modes,
   left : SUBSET Listeners, id : Ids, tunnel : Tunnels]
Jobs == {Idle} \cup Withdrawals \cup Walks \cup Calls
Bulks == [at : {"call"}, all : [Ids -> Tunnels \cup {Absent}]]
Syncs == [at : {"off", "start", "idle"}] \cup Bulks

TypeOK ==
  /\ name \in [Gateways -> Gateways] /\ label \in BOOLEAN
  /\ gw \in [Gateways -> Specs \cup {Absent}]
  /\ routed \subseteq Gateways /\ balancer \in BOOLEAN
  /\ place \in {"wait", "run", "stopping", "stopped", "crashed"}
  /\ store \in [Gateways -> Specs \cup {Absent}] /\ queue \subseteq Gateways
  /\ worker \in Jobs
  /\ tunnels \in [Ids -> Tunnels \cup {Absent}]
  /\ syncer \in Syncs
  /\ clusterType \in {"unknown", "public", "private"}
  /\ cp \in [Ids -> Tunnels \cup {Absent}] /\ strays \subseteq Ids
  /\ upsets \in 0..MaxUpsets

Unshared(g) == \A h \in Gateways : name[h] = name[g] => h = g

(* The control plane forwards traffic to what is registered there.  The    *)
(* watcher remembers, and so can withdraw, every such tunnel, except where *)
(* a call about it failed, a restart made it forget, or a bulk             *)
(* synchronisation that was on its way registered it once more             *)
(* (deregisterGatewayTunnels, syncAllTunnels).                             *)
StraysAccounted ==
  \A id \in Ids :
    cp[id] # Absent =>
      \/ tunnels[id] # Absent \/ id \in strays
      \/ worker.at = "answer" /\ worker.id = id

(* A tunnel of a gateway that is there is withdrawn only when the gateway  *)
(* was gone a moment ago, and then its key is queued again; gateways of    *)
(* one name in two namespaces, which share their ids, apart (syncGateway). *)
LiveTunnelKept ==
  [][\A id \in Ids : LET g == cp[id].gw IN
       (cp[id] # Absent /\ cp'[id] = Absent /\ Unshared(g))
         => store[g] = Absent \/ g \in queue]_vars

\* What the control plane should hold for listener l of g, but the backend.
Right(g, l) == LET t == cp[Id(g, l)] IN
  /\ t # Absent /\ t.gw = g /\ t.ip = gw[g].ip /\ t.mode = RoutingMode(gw[g])

(* Once the cluster stays as it is and calls succeed, every listener is    *)
(* registered with the right address and mode for good: the resync makes   *)
(* up for a registration that failed, the mode that was chosen before the  *)
(* type of the cluster was known, and a late bulk synchronisation.         *)
TunnelsConverge ==
  \A g \in Gateways, l \in Listeners :
    (~label /\ Unshared(g)) =>
      <>[](gw[g] # Absent /\ l \in gw[g].listeners => Right(g, l))

(* The control plane knows the backend of a tunnel once there is a route:  *)
(* each bulk synchronisation erases it (syncAllTunnels).                   *)
BackendKnown ==
  \A g \in Gateways, l \in Listeners :
    (~label /\ Unshared(g)) =>
      <>[](gw[g] # Absent /\ l \in gw[g].listeners /\ g \in routed
             => cp[Id(g, l)] # Absent /\ cp[Id(g, l)].service)

(* The watcher never ends the process.                                     *)
NoPanic == place # "crashed"
=============================================================================
