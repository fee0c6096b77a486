------------------------- MODULE GatewayTunnelsProofs -------------------------
(* Proofs about GatewayTunnels, for any gateways, listeners and bounds.  A  *)
(* tunnel that is withdrawn is found by its id, which has no namespace, and *)
(* by the gateway it was registered for.  The invariant relates the two     *)
(* wherever a tunnel is kept (Named), and says that the worker withdraws    *)
(* only for a gateway that is gone, or queued again (Withdrawing).          *)
EXTENDS GatewayTunnels, TLAPS

\* A tunnel kept under an id is of a gateway of that name.
Fits(id, t) == t # Absent => t.gw \in Gateways /\ name[t.gw] = id[1]

Named ==
  /\ \A id \in Ids : Fits(id, cp[id]) /\ Fits(id, tunnels[id])
  /\ syncer.at = "call" => \A id \in Ids : Fits(id, syncer.all[id])
  /\ worker.at \in {"call", "answer"} => Fits(worker.id, worker.tunnel)

Withdrawing ==
  worker.at = "withdraw" =>
    /\ \A id \in worker.left : tunnels[id] # Absent /\ tunnels[id].gw = worker.gw
    /\ store[worker.gw] = Absent \/ worker.gw \in queue

Waiting == place = "wait" => worker = Idle

\* The two halves of the type invariant, without the worker's job.
Kept ==
  /\ tunnels \in [Ids -> Tunnels \cup {Absent}]
  /\ cp \in [Ids -> Tunnels \cup {Absent}]
  /\ syncer \in Syncs

Plain ==
  /\ name \in [Gateways -> Gateways] /\ label \in BOOLEAN
  /\ gw \in [Gateways -> Specs \cup {Absent}]
  /\ routed \subseteq Gateways /\ balancer \in BOOLEAN
  /\ place \in {"wait", "run", "stopping", "stopped", "crashed"}
  /\ store \in [Gateways -> Specs \cup {Absent}] /\ queue \subseteq Gateways
  /\ clusterType \in {"unknown", "public", "private"}
  /\ strays \subseteq Ids /\ upsets \in 0..MaxUpsets

Inv == TypeOK /\ Named /\ Withdrawing /\ Waiting /\ StraysAccounted

-----------------------------------------------------------------------------
(* Records of different kinds are different.                               *)
LEMMA Kinds ==
  /\ Absent \notin Specs /\ Absent \notin Tunnels
  /\ Idle.at = "idle"
  /\ \A w \in Withdrawals : w.at = "withdraw"
  /\ \A w \in Walks : w.at = "listeners"
  /\ \A w \in Calls : w.at \in {"call", "answer"}
BY DEF Absent, Specs, Tunnels, Idle, Withdrawals, Walks, Calls

(* What the worker does tells what its record is.                          *)
LEMMA JobKinds ==
  ASSUME NEW w \in Jobs
  PROVE  /\ w.at = "idle" => w = Idle
         /\ w.at = "withdraw" => w \in Withdrawals
         /\ w.at = "listeners" => w \in Walks
         /\ w.at \in {"call", "answer"} => w \in Calls
BY Kinds DEF Jobs

(* The mode chosen is one of the three (determineRoutingMode).             *)
LEMMA ModeType ==
  ASSUME NEW spec \in Specs, TunnelsAssumption PROVE RoutingMode(spec) \in Modes
BY DEF Specs, TunnelsAssumption, RoutingMode, Modes

(* A step keeps the job of the worker one of the four kinds.               *)
LEMMA JobStep == TypeOK /\ [Next]_vars => worker' \in Jobs
<1> SUFFICES ASSUME TypeOK, [Next]_vars PROVE worker' \in Jobs
  OBVIOUS
<1> USE DEF TypeOK
<1>1. CASE Cluster \/ Start \/ Resync \/ Stop \/ Stopped
  BY <1>1
     DEF Cluster, GatewayChanges, RouteChanges, BalancerGetsAddress, Upset,
     Start, Resync, Stop, Stopped
<1>2. CASE DetectPublic \/ DetectTimeout \/ NewTicker \/ SyncAllTunnels \/ TunnelsSynced \/ SyncFails
  BY <1>2
     DEF DetectPublic, DetectTimeout, Detect, NewTicker, SyncAllTunnels,
     TunnelsSynced, SyncFails, Upset
<1>3. ASSUME NEW g \in Gateways, Observe(g) PROVE worker' \in Jobs
  BY <1>3 DEF Observe
<1>4. CASE Restart
  BY <1>4 DEF Restart, Upset, Jobs
<1>5. ASSUME NEW g \in Gateways, SyncGateway(g) PROVE worker' \in Jobs
  <2>1. CASE store[g] = Absent
    <3>1. worker' \in Withdrawals
      BY <1>5, <2>1 DEF SyncGateway, Withdrawals
    <3>2. QED
      BY <3>1 DEF Jobs
  <2>2. CASE store[g] # Absent
    <3>1. store[g] \in Specs /\ store[g].listeners \subseteq Listeners
      BY <2>2 DEF Specs
    <3>2. worker' \in Walks
      BY <1>5, <2>2, <3>1, ModeType, TunnelsAssumption DEF SyncGateway, Walks
    <3>3. QED
      BY <3>2 DEF Jobs
  <2>3. QED
    BY <2>1, <2>2
<1>6. ASSUME NEW l \in Listeners, LookupBackendService(l) PROVE worker' \in Jobs
  <2>1. worker \in Walks
    BY <1>6, JobKinds DEF LookupBackendService
  <2>2. name[worker.gw] \in Gateways /\ worker.spec.ip \in BOOLEAN
    BY <2>1 DEF Walks, Specs
  <2>3. worker' \in Calls
    BY <1>6, <2>1, <2>2
       DEF LookupBackendService, Walks, Calls, Tunnels, Id, Ids
  <2>4. QED
    BY <2>3 DEF Jobs
<1>7. CASE RegisterTunnel
  <2>1. worker \in Calls
    BY <1>7, JobKinds DEF RegisterTunnel
  <2>2. worker' \in Calls
    BY <1>7, <2>1 DEF RegisterTunnel, Calls
  <2>3. QED
    BY <2>2 DEF Jobs
<1>8. CASE RegisterFails
  <2>1. worker \in Calls
    BY <1>8, JobKinds DEF RegisterFails
  <2>2. worker' \in Walks
    BY <1>8, <2>1 DEF RegisterFails, NextListener, Calls, Walks
  <2>3. QED
    BY <2>2 DEF Jobs
<1>9. CASE Registered
  <2>1. worker \in Calls
    BY <1>9, JobKinds DEF Registered
  <2>2. worker' \in Walks
    BY <1>9, <2>1 DEF Registered, NextListener, Calls, Walks
  <2>3. QED
    BY <2>2 DEF Jobs
<1>10. ASSUME NEW id \in Ids, DeregisterTunnel(id) PROVE worker' \in Jobs
  <2>1. worker \in Withdrawals
    BY <1>10, JobKinds DEF DeregisterTunnel
  <2>2. worker' \in Withdrawals
    BY <1>10, <2>1 DEF DeregisterTunnel, Withdrawals
  <2>3. QED
    BY <2>2 DEF Jobs
<1>11. CASE GatewaySynced
  BY <1>11 DEF GatewaySynced, Jobs
<1>12. CASE UNCHANGED vars
  BY <1>12 DEF vars
<1>13. QED
  BY <1>1, <1>2, <1>3, <1>4, <1>5, <1>6, <1>7, <1>8, <1>9, <1>10, <1>11,
  <1>12
     DEF Next, Cluster, Informer, Worker, Syncer

(* A step keeps the types of what is kept of tunnels.                      *)
LEMMA TunnelStep == TypeOK /\ [Next]_vars => Kept'
<1> SUFFICES ASSUME TypeOK, [Next]_vars PROVE Kept'
  OBVIOUS
<1> USE DEF TypeOK, Kept
<1>1. CASE Cluster \/ Resync \/ Stop \/ Stopped \/ DetectPublic \/ DetectTimeout
  BY <1>1
     DEF Cluster, GatewayChanges, RouteChanges, BalancerGetsAddress, Upset,
     Resync, Stop, Stopped, DetectPublic, DetectTimeout, Detect
<1>2. CASE RegisterFails \/ GatewaySynced
  BY <1>2 DEF RegisterFails, Upset, NextListener, GatewaySynced
<1>3. ASSUME NEW g \in Gateways, Observe(g) PROVE Kept'
  BY <1>3 DEF Observe
<1>4. ASSUME NEW g \in Gateways, SyncGateway(g) PROVE Kept'
  BY <1>4 DEF SyncGateway
<1>5. ASSUME NEW l \in Listeners, LookupBackendService(l) PROVE Kept'
  BY <1>5 DEF LookupBackendService, Upset
<1>6. ASSUME NEW id \in Ids, DeregisterTunnel(id) PROVE Kept'
  BY <1>6 DEF DeregisterTunnel, Upset
<1>7. CASE Start
  BY <1>7 DEF Start, Syncs
<1>8. CASE Restart
  BY <1>8 DEF Restart, Upset, NoTunnels, Syncs
<1>9. CASE RegisterTunnel
  <2>1. worker \in Calls
    BY <1>9, JobKinds DEF RegisterTunnel, TypeOK
  <2>2. QED
    BY <1>9, <2>1 DEF RegisterTunnel, Calls, TypeOK
<1>10. CASE Registered
  <2>1. worker \in Calls
    BY <1>10, JobKinds DEF Registered, TypeOK
  <2>2. QED
    BY <1>10, <2>1 DEF Registered, Calls, TypeOK
<1>11. CASE NewTicker
  BY <1>11 DEF NewTicker, Syncs
<1>12. CASE SyncAllTunnels
  <2>1. ASSUME NEW id \in Ids, tunnels[id] # Absent
        PROVE  [tunnels[id] EXCEPT !.service = FALSE] \in Tunnels
    BY <2>1 DEF TypeOK, Tunnels
  <2>2. syncer' \in Bulks
    BY <1>12, <2>1 DEF SyncAllTunnels, Bulks
  <2>3. QED
    BY <1>12, <2>2 DEF SyncAllTunnels, Syncs, TypeOK
<1>13. CASE TunnelsSynced
  <2>1. syncer \in Bulks
    BY <1>13 DEF TunnelsSynced, Syncs, TypeOK
  <2>2. QED
    BY <1>13, <2>1 DEF TunnelsSynced, Bulks, Syncs, TypeOK
<1>14. CASE SyncFails
  BY <1>14 DEF SyncFails, Upset, Syncs
<1>15. CASE UNCHANGED vars
  BY <1>15 DEF vars
<1>16. QED
  BY <1>1, <1>2, <1>3, <1>4, <1>5, <1>6, <1>7, <1>8, <1>9, <1>10, <1>11,
  <1>12, <1>13, <1>14, <1>15
     DEF Next, Cluster, Informer, Worker, Syncer

(* A step keeps the types of all the rest.                                 *)
LEMMA PlainStep == TypeOK /\ [Next]_vars => Plain'
<1> SUFFICES ASSUME TypeOK, [Next]_vars PROVE Plain'
  OBVIOUS
<1> USE DEF TypeOK, Plain, cluster, fixed
<1>1. CASE Start \/ Resync \/ Stop \/ Stopped \/ Restart
  <2>1. CASE Start \/ Resync
    BY <2>1 DEF Start, Present, Resync
  <2>2. CASE Stop \/ Stopped
    BY <2>2, TunnelsAssumption DEF Stop, Upset, Stopped
  <2>3. CASE Restart
    BY <2>3, TunnelsAssumption DEF Restart, Upset
  <2>4. QED
    BY <1>1, <2>1, <2>2, <2>3
<1>2. CASE DetectPublic \/ DetectTimeout \/ RegisterTunnel \/ Registered \/ GatewaySynced \/ NewTicker
  BY <1>2, TunnelsAssumption
     DEF DetectPublic, DetectTimeout, Detect, RegisterTunnel, Registered,
     NextListener, GatewaySynced, NewTicker
<1>3. CASE SyncAllTunnels \/ SyncFails
  BY <1>3, TunnelsAssumption DEF SyncAllTunnels, SyncFails, Upset
<1>4. ASSUME NEW g \in Gateways, Observe(g) PROVE Plain'
  BY <1>4, TunnelsAssumption DEF Observe
<1>5. ASSUME NEW g \in Gateways, SyncGateway(g) PROVE Plain'
  BY <1>5, TunnelsAssumption DEF SyncGateway
<1>6. ASSUME NEW l \in Listeners, LookupBackendService(l) PROVE Plain'
  BY <1>6, TunnelsAssumption DEF LookupBackendService, Upset
<1>7. ASSUME NEW id \in Ids, DeregisterTunnel(id) PROVE Plain'
  BY <1>7, TunnelsAssumption DEF DeregisterTunnel, Upset
<1>8. CASE Cluster
  <2>1. upsets + 1 \in 0..MaxUpsets \/ upsets >= MaxUpsets
    BY TunnelsAssumption
  <2>2. ASSUME NEW g \in Gateways, NEW s \in Specs \cup {Absent}
        PROVE  [gw EXCEPT ![g] = s] \in [Gateways -> Specs \cup {Absent}]
    OBVIOUS
  <2>3. ASSUME NEW g \in Gateways, GatewayChanges(g), Cluster PROVE Plain'
    BY <2>1, <2>2, <2>3, TunnelsAssumption DEF Cluster, GatewayChanges, Upset
  <2>4. ASSUME NEW g \in Gateways, RouteChanges(g), Cluster PROVE Plain'
    BY <2>1, <2>4, TunnelsAssumption DEF Cluster, RouteChanges, Upset
  <2>5. ASSUME BalancerGetsAddress, Cluster PROVE Plain'
    BY <2>1, <2>5, TunnelsAssumption DEF Cluster, BalancerGetsAddress, Upset
  <2>6. QED
    BY <1>8, <2>3, <2>4, <2>5 DEF Cluster
<1>9. CASE RegisterFails
  <2>1. worker \in Calls
    BY <1>9, JobKinds DEF RegisterFails, TypeOK
  <2>2. QED
    BY <1>9, <2>1, TunnelsAssumption DEF RegisterFails, Upset, Calls
<1>10. CASE TunnelsSynced
  BY <1>10 DEF TunnelsSynced
<1>11. CASE UNCHANGED vars
  BY <1>11, TunnelsAssumption DEF vars
<1>12. QED
  BY <1>1, <1>2, <1>3, <1>4, <1>5, <1>6, <1>7, <1>8, <1>9, <1>10, <1>11
     DEF Next, Cluster, Informer, Worker, Syncer

(* A step keeps the types.                                                 *)
LEMMA TypeStep == TypeOK /\ [Next]_vars => TypeOK'
<1> SUFFICES ASSUME TypeOK, [Next]_vars PROVE TypeOK'
  OBVIOUS
<1>1. worker' \in Jobs /\ Kept' /\ Plain'
  BY JobStep, TunnelStep, PlainStep
<1>2. QED
  BY <1>1 DEF TypeOK, Kept, Plain

(* A step keeps each tunnel under an id with the name of its gateway.      *)
LEMMA NamedStep == TypeOK /\ Named /\ [Next]_vars => Named'
<1> SUFFICES ASSUME TypeOK, Named, [Next]_vars PROVE Named'
  OBVIOUS
<1> USE DEF Named, Fits, cluster, fixed
<1>1. CASE Cluster \/ Start \/ Resync \/ Stop \/ Stopped
  BY <1>1
     DEF Cluster, GatewayChanges, RouteChanges, BalancerGetsAddress, Upset,
     Start, Resync, Stop, Stopped
<1>2. CASE DetectPublic \/ DetectTimeout \/ NewTicker \/ SyncFails
  BY <1>2 DEF DetectPublic, DetectTimeout, Detect, NewTicker, SyncFails, Upset
<1>3. ASSUME NEW g \in Gateways, Observe(g) PROVE Named'
  BY <1>3 DEF Observe
<1>4. CASE Restart
  BY <1>4 DEF Restart, Upset, NoTunnels, Idle
<1>5. ASSUME NEW g \in Gateways, SyncGateway(g) PROVE Named'
  BY <1>5 DEF SyncGateway
<1>6. ASSUME NEW l \in Listeners, LookupBackendService(l) PROVE Named'
  <2>1. worker \in Walks
    BY <1>6, JobKinds DEF LookupBackendService, TypeOK
  <2>2. QED
    BY <1>6, <2>1, Kinds DEF LookupBackendService, Walks, Id
<1>7. CASE RegisterTunnel
  <2>1. worker \in Calls
    BY <1>7, JobKinds DEF RegisterTunnel, TypeOK
  <2>2. QED
    BY <1>7, <2>1, Kinds DEF RegisterTunnel, Calls
<1>8. CASE RegisterFails
  <2>1. worker \in Calls
    BY <1>8, JobKinds DEF RegisterFails, TypeOK
  <2>2. QED
    BY <1>8, <2>1, Kinds DEF RegisterFails, NextListener
<1>9. CASE Registered
  <2>1. worker \in Calls
    BY <1>9, JobKinds DEF Registered, TypeOK
  <2>2. QED
    BY <1>9, <2>1, Kinds DEF Registered, NextListener, Calls
<1>10. ASSUME NEW id \in Ids, DeregisterTunnel(id) PROVE Named'
  <2>1. worker \in Withdrawals
    BY <1>10, JobKinds DEF DeregisterTunnel, TypeOK
  <2>2. QED
    BY <1>10, <2>1, Kinds DEF DeregisterTunnel, TypeOK
<1>11. CASE GatewaySynced
  BY <1>11 DEF GatewaySynced, Idle
<1>12. CASE SyncAllTunnels
  <2>1. ASSUME NEW id \in Ids, tunnels[id] # Absent
        PROVE  [tunnels[id] EXCEPT !.service = FALSE].gw = tunnels[id].gw
    BY <2>1 DEF TypeOK, Tunnels
  <2>2. \A id \in Ids : Fits(id, syncer'.all[id])
    BY <1>12, <2>1 DEF SyncAllTunnels
  <2>3. QED
    BY <1>12, <2>2 DEF SyncAllTunnels
<1>13. CASE TunnelsSynced
  <2>1. \A id \in Ids : cp'[id] \in {cp[id], syncer.all[id]}
    BY <1>13 DEF TunnelsSynced
  <2>2. QED
    BY <1>13, <2>1 DEF TunnelsSynced
<1>14. CASE UNCHANGED vars
  BY <1>14 DEF vars
<1>15. QED
  BY <1>1, <1>2, <1>3, <1>4, <1>5, <1>6, <1>7, <1>8, <1>9, <1>10, <1>11,
  <1>12, <1>13, <1>14
     DEF Next, Cluster, Informer, Worker, Syncer

(* A step keeps what is withdrawn to gateways that are gone or queued.     *)
LEMMA WithdrawStep == TypeOK /\ Waiting /\ Withdrawing /\ [Next]_vars => (Waiting /\ Withdrawing)'
<1> SUFFICES ASSUME TypeOK, Waiting, Withdrawing, [Next]_vars PROVE (Waiting /\ Withdrawing)'
  OBVIOUS
<1> USE DEF Waiting, Withdrawing, Alive, cluster, fixed
<1>1. CASE Cluster \/ Resync \/ Stop \/ Stopped \/ DetectPublic \/ DetectTimeout
  BY <1>1
     DEF Cluster, GatewayChanges, RouteChanges, BalancerGetsAddress, Upset,
     Resync, Stop, Stopped, DetectPublic, DetectTimeout, Detect
<1>2. CASE NewTicker \/ SyncAllTunnels \/ TunnelsSynced \/ SyncFails
  BY <1>2 DEF NewTicker, SyncAllTunnels, TunnelsSynced, SyncFails, Upset
<1>3. ASSUME NEW l \in Listeners, LookupBackendService(l) PROVE (Waiting /\ Withdrawing)'
  BY <1>3 DEF LookupBackendService, Upset
<1>4. CASE Start
  BY <1>4 DEF Start, Idle
<1>5. ASSUME NEW g \in Gateways, Observe(g) PROVE (Waiting /\ Withdrawing)'
  BY <1>5 DEF Observe, TypeOK
<1>6. CASE Restart
  BY <1>6 DEF Restart, Upset, Idle
<1>7. ASSUME NEW g \in Gateways, SyncGateway(g) PROVE (Waiting /\ Withdrawing)'
  <2>1. QED
    BY <1>7, Kinds DEF SyncGateway
<1>8. CASE RegisterTunnel
  <2>1. worker \in Calls
    BY <1>8, JobKinds DEF RegisterTunnel, TypeOK
  <2>2. QED
    BY <1>8, <2>1, Kinds DEF RegisterTunnel, Calls
<1>9. CASE RegisterFails
  <2>1. worker \in Calls
    BY <1>9, JobKinds DEF RegisterFails, TypeOK
  <2>2. QED
    BY <1>9, <2>1, Kinds DEF RegisterFails, NextListener
<1>10. CASE Registered
  <2>1. worker \in Calls
    BY <1>10, JobKinds DEF Registered, TypeOK
  <2>2. QED
    BY <1>10, <2>1, Kinds DEF Registered, NextListener
<1>11. ASSUME NEW id \in Ids, DeregisterTunnel(id) PROVE (Waiting /\ Withdrawing)'
  <2>1. worker \in Withdrawals
    BY <1>11, JobKinds DEF DeregisterTunnel, TypeOK
  <2>2. QED
    BY <1>11, <2>1, Kinds DEF DeregisterTunnel, Withdrawals, TypeOK
<1>12. CASE GatewaySynced
  BY <1>12 DEF GatewaySynced, Idle
<1>13. CASE UNCHANGED vars
  BY <1>13 DEF vars
<1>14. QED
  BY <1>1, <1>2, <1>3, <1>4, <1>5, <1>6, <1>7, <1>8, <1>9, <1>10, <1>11,
  <1>12, <1>13
     DEF Next, Cluster, Informer, Worker, Syncer

(* A step leaves no tunnel registered, unremembered and unaccounted for.   *)
LEMMA StraysStep == TypeOK /\ StraysAccounted /\ [Next]_vars => StraysAccounted'
<1> SUFFICES ASSUME TypeOK, StraysAccounted, [Next]_vars PROVE StraysAccounted'
  OBVIOUS
<1> USE DEF StraysAccounted, cluster, fixed
<1>1. CASE Cluster \/ Start \/ Resync \/ Stop \/ Stopped
  BY <1>1
     DEF Cluster, GatewayChanges, RouteChanges, BalancerGetsAddress, Upset,
     Start, Resync, Stop, Stopped
<1>2. CASE DetectPublic \/ DetectTimeout \/ NewTicker \/ SyncAllTunnels \/ SyncFails
  BY <1>2
     DEF DetectPublic, DetectTimeout, Detect, NewTicker, SyncAllTunnels,
     SyncFails, Upset
<1>3. ASSUME NEW g \in Gateways, Observe(g) PROVE StraysAccounted'
  BY <1>3 DEF Observe
<1>4. ASSUME NEW g \in Gateways, SyncGateway(g) PROVE StraysAccounted'
  BY <1>4, Kinds DEF SyncGateway
<1>5. CASE Restart
  BY <1>5 DEF Restart, Upset, NoTunnels, Idle
<1>6. ASSUME NEW l \in Listeners, LookupBackendService(l) PROVE StraysAccounted'
  <2>1. worker \in Walks
    BY <1>6, JobKinds DEF LookupBackendService, TypeOK
  <2>2. QED
    BY <1>6, <2>1, Kinds DEF LookupBackendService
<1>7. CASE RegisterTunnel
  <2>1. worker \in Calls
    BY <1>7, JobKinds DEF RegisterTunnel, TypeOK
  <2>2. QED
    BY <1>7, <2>1, Kinds DEF RegisterTunnel, Calls, TypeOK
<1>8. CASE RegisterFails
  <2>1. worker \in Calls
    BY <1>8, JobKinds DEF RegisterFails, TypeOK
  <2>2. QED
    BY <1>8, <2>1, Kinds DEF RegisterFails, NextListener
<1>9. CASE Registered
  <2>1. worker \in Calls
    BY <1>9, JobKinds DEF Registered, TypeOK
  <2>2. QED
    BY <1>9, <2>1, Kinds DEF Registered, NextListener, Calls, TypeOK
<1>10. ASSUME NEW id \in Ids, DeregisterTunnel(id) PROVE StraysAccounted'
  <2>1. worker \in Withdrawals
    BY <1>10, JobKinds DEF DeregisterTunnel, TypeOK
  <2>2. QED
    BY <1>10, <2>1, Kinds DEF DeregisterTunnel, Withdrawals, TypeOK
<1>11. CASE GatewaySynced
  BY <1>11 DEF GatewaySynced, Idle
<1>12. CASE TunnelsSynced
  BY <1>12 DEF TunnelsSynced, TypeOK
<1>13. CASE UNCHANGED vars
  BY <1>13 DEF vars
<1>14. QED
  BY <1>1, <1>2, <1>3, <1>4, <1>5, <1>6, <1>7, <1>8, <1>9, <1>10, <1>11,
  <1>12, <1>13
     DEF Next, Cluster, Informer, Worker, Syncer

(* Only a withdrawal removes a registration (DeregisterTunnel).            *)
LEMMA LossStep ==
  TypeOK /\ [Next]_vars =>
    \A id \in Ids : cp[id] # Absent /\ cp'[id] = Absent =>
      worker.at = "withdraw" /\ id \in worker.left
<1> SUFFICES ASSUME TypeOK, [Next]_vars,
                    NEW id \in Ids, cp[id] # Absent, cp'[id] = Absent
             PROVE  worker.at = "withdraw" /\ id \in worker.left
  OBVIOUS
<1>1. CASE RegisterTunnel
  <2>1. worker.tunnel \in Tunnels /\ worker.tunnel # Absent
    BY <1>1, JobKinds, Kinds DEF RegisterTunnel, TypeOK, Calls
  <2>2. cp'[id] = cp[id] \/ cp'[id] = worker.tunnel
    BY <1>1 DEF RegisterTunnel, TypeOK
  <2>3. QED
    BY <2>1, <2>2
<1>2. CASE TunnelsSynced
  BY <1>2 DEF TunnelsSynced
<1>3. ASSUME NEW i \in Ids, DeregisterTunnel(i)
      PROVE  worker.at = "withdraw" /\ id \in worker.left
  BY <1>3 DEF DeregisterTunnel, TypeOK
<1>4. cp' = cp \/ RegisterTunnel \/ TunnelsSynced \/ (\E i \in Ids : DeregisterTunnel(i))
  <2>1. CASE Cluster \/ Start \/ Resync \/ Stop \/ Stopped \/ Restart
    BY <2>1
       DEF Cluster, Start, Resync, Stop, Stopped, Restart, cluster, fixed
  <2>2. CASE DetectPublic \/ DetectTimeout \/ NewTicker \/ SyncAllTunnels \/ SyncFails
    BY <2>2
       DEF DetectPublic, DetectTimeout, Detect, NewTicker, SyncAllTunnels, SyncFails
  <2>3. ASSUME NEW g \in Gateways, Observe(g) \/ SyncGateway(g) PROVE cp' = cp
    BY <2>3 DEF Observe, SyncGateway
  <2>4. ASSUME NEW l \in Listeners, LookupBackendService(l) PROVE cp' = cp
    BY <2>4 DEF LookupBackendService
  <2>5. CASE RegisterFails \/ Registered \/ GatewaySynced
    BY <2>5 DEF RegisterFails, Registered, GatewaySynced
  <2>6. CASE UNCHANGED vars
    BY <2>6 DEF vars
  <2>7. QED
    BY <2>1, <2>2, <2>3, <2>4, <2>5, <2>6 DEF Next, Informer, Worker, Syncer
<1>5. QED
  BY <1>1, <1>2, <1>3, <1>4

-----------------------------------------------------------------------------
LEMMA Invariance == Spec => []Inv
<1>1. Init => Inv
  <2>1. Init => TypeOK
    BY TunnelsAssumption
       DEF Init, TypeOK, Idle, NoTunnels, Jobs, Syncs
  <2>2. Init => Named /\ Withdrawing /\ Waiting /\ StraysAccounted
    BY DEF Init, Named, Fits, Withdrawing, Waiting, StraysAccounted, Idle,
       NoTunnels
  <2>3. QED
    BY <2>1, <2>2 DEF Inv
<1>2. Inv /\ [Next]_vars => Inv'
  BY TypeStep, NamedStep, WithdrawStep, StraysStep DEF Inv
<1>3. QED
  BY <1>1, <1>2, PTL DEF Spec

(* Every variable of the watcher keeps its type.                           *)
THEOREM TunnelTypes == Spec => []TypeOK
<1>1. Inv => TypeOK
  BY DEF Inv
<1>2. QED
  BY Invariance, <1>1, PTL

(* A tunnel that is registered without being remembered is one a failure,  *)
(* a restart or a late synchronisation left (deregisterGatewayTunnels).    *)
THEOREM StraysKnown == Spec => []StraysAccounted
<1>1. Inv => StraysAccounted
  BY DEF Inv
<1>2. QED
  BY Invariance, <1>1, PTL

(* A gateway that is there loses no tunnel, unless its key is queued again *)
(* or it shares its name (syncGateway, deregisterGatewayTunnels).          *)
THEOREM LivingKeepTunnels == Spec => LiveTunnelKept
<1> DEFINE Kept1(id) == LET g == cp[id].gw IN
             (cp[id] # Absent /\ cp'[id] = Absent /\ Unshared(g))
               => store[g] = Absent \/ g \in queue
           AllKept == \A id \in Ids : Kept1(id)
<1>1. ASSUME Inv, [Next]_vars PROVE AllKept
  <2> SUFFICES ASSUME NEW id \in Ids, cp[id] # Absent, cp'[id] = Absent,
                      Unshared(cp[id].gw)
               PROVE  store[cp[id].gw] = Absent \/ cp[id].gw \in queue
    OBVIOUS
  <2>1. worker.at = "withdraw" /\ id \in worker.left
    BY <1>1, LossStep DEF Inv
  <2>2. worker \in Withdrawals
    BY <1>1, <2>1, JobKinds DEF Inv, TypeOK
  <2>3. tunnels[id] # Absent /\ tunnels[id].gw = worker.gw
    BY <1>1, <2>1 DEF Inv, Withdrawing
  <2>4. name[worker.gw] = name[cp[id].gw] /\ worker.gw \in Gateways
    BY <1>1, <2>2, <2>3 DEF Inv, Named, Fits
  <2>5. worker.gw = cp[id].gw
    BY <2>4 DEF Unshared
  <2>6. QED
    BY <1>1, <2>1, <2>5 DEF Inv, Withdrawing
<1>2. AllKept => (\A id \in Ids : LET g == cp[id].gw IN
             (cp[id] # Absent /\ cp'[id] = Absent /\ Unshared(g))
               => store[g] = Absent \/ g \in queue)
  OBVIOUS
<1>3. QED
  BY Invariance, <1>1, <1>2, PTL DEF Spec, LiveTunnelKept
==============================================================================
