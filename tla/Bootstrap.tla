------------------------------ MODULE Bootstrap ------------------------------
(***************************************************************************)
(* The bootstrap of the cluster's components: startMonitoringBootstrap,    *)
(* setupMonitoring and setupGateway of agent/agent.go, the manager, the    *)
(* orchestrator and the essential components of components/, and the       *)
(* installers of ingress/traefik.go and ingress/gateway_api.go, on top of  *)
(* Helm.                                                                   *)
(*                                                                         *)
(* One goroutine of the agent runs the whole of it.  The pod may be killed *)
(* at any point and Kubernetes starts it again (deployments/agent.yaml     *)
(* allows one at a time): the process forgets everything, the cluster      *)
(* keeps what was done so far.                                             *)
(*                                                                         *)
(* Abstractions: the profile of the cluster, the storage classes and the   *)
(* values of the charts are left out, but for the password of Grafana and  *)
(* the middleware of the error pages.  Waits that only let time pass are   *)
(* one step.  The ingress class of the ingresses is in IngressClass.  No   *)
(* step is critical in the code, so executeInstallationPlan never aborts.  *)
(***************************************************************************)
EXTENDS Helm

CONSTANTS
  Enabled,     \* the steps that are configured
  Before,      \* ingress controllers a cluster may have before: a set of sets
  MaxRuns      \* bound: processes started

Steps == <<"metrics-server", "vpa", "coredns", "ingress-controller",
           "cert-manager", "prometheus", "loki">>
AllSteps == {Steps[i] : i \in DOMAIN Steps} \cup {"gateway"}
Essentials == {"metrics-server", "vpa"}
(* The release of a step.                                                  *)
ReleaseOf(s) == IF s = "ingress-controller" THEN "traefik" ELSE s
(* Steps that also create an ingress for what they install.                *)
Routed == {"prometheus", "loki"}
(* Steps that do nothing when a deployment of the component exists.        *)
Guarded == {"metrics-server", "vpa", "cert-manager"}

ASSUME BootstrapAssumption ==
  /\ Enabled \subseteq AllSteps
  /\ {ReleaseOf(s) : s \in Enabled \ {"coredns"}}
       \cup {"traefik", "old-traefik", "nginx"} \subseteq Releases
  /\ Before \subseteq SUBSET {"old-traefik", "nginx"}
  /\ MaxRuns \in Nat \ {0}

VARIABLES
  at,               \* where the goroutine of the bootstrap is
  todo,             \* the steps it has still to do, the current one included
  ingressEnabled,   \* the manager installs an ingress controller
  monitoringReady,
  runs,             \* processes so far: the last one is the current one
  thirdParty,       \* the cluster: its default ingress class is another product's
  created,          \* the cluster: what was made there besides the releases
  ingressOf         \* the cluster: class of the ingress of a monitoring service

cluster == <<thirdParty, created, ingressOf>>
process == <<ingressEnabled, monitoringReady, runs>>
bootstrapVars == <<helmVars, at, todo, process, cluster>>

(* The first of the plan that is not done.                                 *)
Step == Steps[CHOOSE i \in DOMAIN Steps :
                Steps[i] \in todo /\ \A j \in 1..(i - 1) : Steps[j] \notin todo]
Places == {"down", "manager", "namespaces", "backoff", "essential", "next", "start",
           "nginx", "legacy", "traefik", "helm", "verify", "pages", "middleware", "fallback",
           "wired", "webhook", "route", "route-failed", "settle", "ready", "gateway", "up"}
(* CRDs of the Prometheus operator, CoreDNS's rewrite of pipeops.internal, *)
(* the cluster issuers, and what the error pages of Traefik need.          *)
Objects == {"crds", "rewrite", "issuers", "backend", "middleware", "fallback"}
Make(o) == created' = created \cup {o}
Statuses == {"none", "deployed"} \cup Pending \cup Unhealthy

BootstrapTypeOK ==
  /\ release \in [Releases -> [status : Statuses, up : BOOLEAN, values : Nat]]
  /\ foreign \in [Releases -> SUBSET {"role", "binding"}]
  /\ faults \in 0..MaxFaults /\ faulty \subseteq Releases \cup AllSteps \cup {"namespaces"}
  /\ at \in Places /\ todo \subseteq Enabled
  /\ ingressEnabled \in BOOLEAN /\ monitoringReady \in BOOLEAN
  /\ runs \in 0..MaxRuns
  /\ thirdParty \in BOOLEAN /\ created \subseteq Objects
  /\ ingressOf \in [Routed -> {"none", "nginx", "traefik"}]

(* A cluster with or without an ingress controller of its own.             *)
BootstrapInit ==
  /\ \E there \in Before :
       release = [r \in Releases |->
         IF r \in there THEN [status |-> "deployed", up |-> TRUE, values |-> 0] ELSE Gone]
  /\ foreign \in [Releases -> {{}, {"role", "binding"}}]
  /\ \A r \in Releases : foreign[r] # {} => r \in Clashing
  /\ op = Idle /\ faults = 0 /\ faulty = {}
  /\ at = "down" /\ todo = {} /\ runs = 0
  /\ ingressEnabled = FALSE /\ monitoringReady = FALSE
  /\ thirdParty \in BOOLEAN /\ created = {}
  /\ ingressOf = [s \in Routed |-> "none"]

------------------------------------------------------------------------------
(* The process.                                                            *)

Boot ==
  /\ at = "down" /\ runs < MaxRuns
  /\ at' = "manager" /\ runs' = runs + 1
  /\ monitoringReady' = FALSE /\ faulty' = {}
  /\ UNCHANGED <<release, foreign, op, faults, todo, ingressEnabled, cluster>>

Killed ==
  /\ at # "down" /\ runs < MaxRuns
  /\ at' = "down" /\ todo' = {} /\ op' = Idle
  /\ UNCHANGED <<release, foreign, faults, faulty, process, cluster>>

(* NewManager, which determineIngressPreference ends: the cluster's own    *)
(* default ingress class is respected, if the classes could be listed.     *)
DetermineIngressPreference ==
  \/ ingressEnabled' = ~thirdParty /\ NoFault
  \/ ingressEnabled' = TRUE /\ FaultOn("ingress-controller")
NewManager ==
  /\ at = "manager" /\ at' = "namespaces" /\ DetermineIngressPreference
  /\ UNCHANGED <<release, foreign, op, todo, monitoringReady, runs, cluster>>

(* Start fails only where the namespaces cannot be created; then the       *)
(* bootstrap tries again, with the same manager.                           *)
EnsureNamespaces ==
  /\ at = "namespaces"
  /\ \/ at' = "essential" /\ NoFault
     \/ at' = "backoff" /\ FaultOn("namespaces")
  /\ UNCHANGED <<release, foreign, op, todo, process, cluster>>
Backoff ==
  /\ at = "backoff" /\ at' = "namespaces"
  /\ UNCHANGED <<helmVars, todo, process, cluster>>

(* The steps of Start, and the essential components before them: nothing   *)
(* is done about those when both are there, CoreDNS included.              *)
Present(s) == release[ReleaseOf(s)].up
EssentialSteps == {s \in Essentials \cap Enabled : ~Present(s)}
Plan == Enabled \ (Essentials \cup {"coredns", "gateway"}
                     \cup IF ingressEnabled THEN {} ELSE {"ingress-controller"})
InstallEssentialComponents ==
  /\ at = "essential" /\ at' = "next"
  /\ LET first == IF EssentialSteps = {} THEN {} ELSE EssentialSteps \cup {"coredns"}
     IN todo' = (first \cap Enabled) \cup Plan
  /\ UNCHANGED <<helmVars, process, cluster>>

(* The next step of the plan, or its end: Start has succeeded whatever     *)
(* became of the steps.                                                    *)
NextStep ==
  /\ at = "next"
  /\ \/ todo # {} /\ at' = "start" /\ UNCHANGED monitoringReady
     \/ todo = {} /\ at' = "ready" /\ monitoringReady' = TRUE
  /\ UNCHANGED <<helmVars, todo, ingressEnabled, runs, cluster>>

(* A step ends: its failure is only logged and the plan goes on.           *)
Skip == /\ at' = "next" /\ todo' = todo \ {Step}
Done == at' = "settle" /\ UNCHANGED todo
GiveUp == IF Step \in Routed THEN at' = "route-failed" /\ UNCHANGED todo ELSE Skip

------------------------------------------------------------------------------
(* The steps.                                                              *)

(* The release that is installed, and the values: the generated password   *)
(* of Grafana differs with each process.                                   *)
ValuesOf(s) == IF s = "prometheus" THEN runs ELSE 1

(* Components that are there already are left as they are, a broken        *)
(* release of cert-manager included.                                       *)
AlreadyThere ==
  /\ at = "start" /\ Step \in Guarded /\ Present(Step)
  /\ IF Step = "cert-manager" THEN Done ELSE Skip
  /\ UNCHANGED <<helmVars, process, cluster>>

(* A step that installs a release.  What comes before Helm may fail: a     *)
(* repository that cannot be added, for the three that add it themselves.  *)
InstallRelease(s) ==
  /\ at = "start" /\ Step = s /\ at' = "helm" /\ CallInstall(s, ValuesOf(s)) /\ NoFault
  /\ UNCHANGED <<release, foreign, todo, process, thirdParty, ingressOf>>
NotPrepared(s) ==
  /\ at = "start" /\ Step = s /\ FaultOn(s) /\ GiveUp
  /\ UNCHANGED <<release, foreign, op, ingressEnabled, monitoringReady, runs, cluster>>
AddRepoFails(s) == NotPrepared(s) /\ ~Present(s)

InstallMetricsServer ==
  /\ InstallRelease("metrics-server") /\ ~Present("metrics-server") /\ UNCHANGED created
InstallVPA == InstallRelease("vpa") /\ ~Present("vpa") /\ UNCHANGED created
InstallCertManager ==
  /\ InstallRelease("cert-manager") /\ ~Present("cert-manager") /\ UNCHANGED created
(* The CRDs come first, and the chart does not bring its own.              *)
InstallPrometheusCRDs == Make("crds")
InstallPrometheus ==
  \/ InstallRelease("prometheus") /\ InstallPrometheusCRDs
  \/ NotPrepared("prometheus")
InstallLoki == InstallRelease("loki") /\ UNCHANGED created

(* installCoreDNSRewrite: an error is logged, and nobody tries again.      *)
InstallCoreDNSRewrite ==
  /\ at = "start" /\ Step = "coredns" /\ Skip
  /\ \/ Make("rewrite") /\ NoFault
     \/ UNCHANGED created /\ FaultOn("coredns")
  /\ UNCHANGED <<release, foreign, op, process, thirdParty, ingressOf>>

(* The ingress controller: NGINX is uninstalled, then a Traefik of another *)
(* namespace unless one is in ours, then Traefik is installed.  Failures   *)
(* to uninstall are only logged.                                           *)
StartIngressController ==
  /\ at = "start" /\ Step = "ingress-controller"
  /\ \/ Present("nginx") /\ CallUninstall("nginx") /\ at' = "nginx"
     \/ ~Present("nginx") /\ at' = "legacy" /\ UNCHANGED op
  /\ UNCHANGED <<release, foreign, faults, faulty, todo, process, cluster>>
NginxGone ==
  /\ at = "nginx" /\ Returned /\ at' = "legacy" /\ op' = Idle
  /\ UNCHANGED <<release, foreign, faults, faulty, todo, process, cluster>>
MigrateTraefik ==
  /\ at = "legacy" /\ at' = "traefik"
  /\ IF ~Present("traefik") /\ Present("old-traefik")
       THEN CallUninstall("old-traefik") ELSE UNCHANGED op
  /\ UNCHANGED <<release, foreign, faults, faulty, todo, process, cluster>>
InstallTraefik ==
  /\ at = "traefik" /\ (op = Idle \/ Returned)
  /\ UNCHANGED <<release, foreign, ingressEnabled, monitoringReady, runs, cluster>>
  /\ \/ at' = "helm" /\ CallInstall("traefik", 1) /\ NoFault /\ UNCHANGED todo
     \/ Skip /\ op' = Idle /\ FaultOn("traefik")

(* Faulty variant, for the mutants: the first failure ends the plan.       *)
NotInstalledAborts ==
  /\ at = "helm" /\ op.at = "error" /\ op' = Idle
  /\ at' = "next" /\ todo' = {}
  /\ UNCHANGED <<release, foreign, faults, faulty, ingressEnabled, monitoringReady, runs, cluster>>
(* installer.Install returned.                                             *)
Installed ==
  /\ at = "helm" /\ op.at = "ok" /\ op' = Idle /\ UNCHANGED todo
  /\ at' = CASE Step \in Essentials -> "verify"
             [] Step = "ingress-controller" -> "pages"
             [] Step = "cert-manager" -> "webhook"
             [] Step \in Routed -> "route"
             [] OTHER -> "settle"
  /\ UNCHANGED <<release, foreign, faults, faulty, process, cluster>>
NotInstalled ==
  /\ at = "helm" /\ op.at = "error" /\ op' = Idle
  /\ GiveUp
  /\ UNCHANGED <<release, foreign, faults, faulty, ingressEnabled, monitoringReady, runs, cluster>>

(* waitForDeployment of the essential components.                          *)
Verify ==
  /\ at = "verify" /\ Skip
  /\ NoFault \/ FaultOn(Step)
  /\ UNCHANGED <<release, foreign, op, process, cluster>>

(* The second phase of Traefik: the objects of the error pages one by one, *)
(* then the same release again with the middleware at its entry points.    *)
(* Its errors are only logged.                                             *)
Page(here, o, next) ==
  /\ at = here /\ Make(o) /\ at' = next /\ NoFault
  /\ UNCHANGED <<release, foreign, todo, process, thirdParty, ingressOf>>
(* Faulty variant, for the mutants: the entry points are changed at once.  *)
EnsureDefaultBackendOnly == Page("pages", "backend", "wired") /\ CallInstall("traefik", 2)
EnsureDefaultBackend == Page("pages", "backend", "middleware") /\ UNCHANGED op
EnsureErrorMiddleware == Page("middleware", "middleware", "fallback") /\ UNCHANGED op
EnsureCatchAllFallbackRoute ==
  Page("fallback", "fallback", "wired") /\ CallInstall("traefik", 2)
PageFails ==
  /\ at \in {"pages", "middleware", "fallback"} /\ at' = "settle" /\ FaultOn("traefik")
  /\ UNCHANGED <<release, foreign, op, todo, process, cluster>>
PagesWired ==
  /\ at = "wired" /\ Returned /\ at' = "settle" /\ op' = Idle
  /\ UNCHANGED <<release, foreign, faults, faulty, todo, process, cluster>>

(* The cluster issuers of cert-manager: skipped if its webhook is not      *)
(* ready in time; a failure to make them is only logged.                   *)
CertManagerWebhookNotReady == UNCHANGED created /\ FaultOn("cert-manager")
CreateClusterIssuers ==
  /\ at = "webhook" /\ Done
  /\ \/ Make("issuers") /\ NoFault
     \/ CertManagerWebhookNotReady
  /\ UNCHANGED <<release, foreign, op, process, thirdParty, ingressOf>>

(* createPrometheusIngress, createGrafanaIngress and createLokiIngress,    *)
(* deferred: they run after a failure too.  The class is that of the       *)
(* controller there is: NGINX unless a Traefik is seen.                    *)
RouteBy(class) == ingressOf' = [ingressOf EXCEPT ![Step] = class]
TraefikInstalled == Present("traefik") \/ Present("old-traefik")
CreateIngress ==
  /\ at \in {"route", "route-failed"}
  /\ \/ ~ingressEnabled /\ UNCHANGED ingressOf /\ NoFault
     \/ ingressEnabled /\ TraefikInstalled /\ RouteBy("traefik") /\ NoFault
     \/ ingressEnabled /\ ~TraefikInstalled /\ RouteBy("nginx") /\ NoFault
     \/ ingressEnabled /\ UNCHANGED ingressOf /\ FaultOn(Step)
     \/ ingressEnabled /\ RouteBy("nginx") /\ FaultOn(Step)
  /\ IF at = "route" THEN Done ELSE Skip
  /\ UNCHANGED <<release, foreign, op, process, thirdParty, created>>

(* waitForComponentReady: it ends in every case.                           *)
Settle ==
  /\ at = "settle" /\ Skip
  /\ UNCHANGED <<helmVars, process, cluster>>

------------------------------------------------------------------------------
(* After setupMonitoring.                                                  *)

SetupGateway ==
  /\ at = "ready"
  /\ \/ "gateway" \in Enabled /\ at' = "gateway" /\ CallInstall("gateway", 1) /\ NoFault
     \/ "gateway" \in Enabled /\ at' = "up" /\ UNCHANGED op /\ FaultOn("gateway")
     \/ "gateway" \notin Enabled /\ at' = "up" /\ UNCHANGED op /\ NoFault
  /\ UNCHANGED <<release, foreign, todo, process, cluster>>
GatewayDone ==
  /\ at = "gateway" /\ Returned /\ at' = "up" /\ op' = Idle
  /\ UNCHANGED <<release, foreign, faults, faulty, todo, process, cluster>>

Helming == HelmStep /\ UNCHANGED <<at, todo, process, cluster>>

Work ==
  \/ NewManager \/ EnsureNamespaces \/ Backoff \/ InstallEssentialComponents
  \/ NextStep \/ AlreadyThere
  \/ InstallMetricsServer \/ InstallVPA \/ InstallCertManager \/ InstallPrometheus \/ InstallLoki
  \/ (\E s \in Guarded : AddRepoFails(s)) \/ InstallCoreDNSRewrite
  \/ StartIngressController \/ NginxGone \/ MigrateTraefik \/ InstallTraefik
  \/ Installed \/ NotInstalled \/ Verify
  \/ EnsureDefaultBackend \/ EnsureErrorMiddleware \/ EnsureCatchAllFallbackRoute
  \/ PageFails \/ PagesWired
  \/ CreateClusterIssuers \/ CreateIngress \/ Settle \/ SetupGateway \/ GatewayDone \/ Helming

BootstrapNext == Boot \/ Killed \/ Work
BootstrapSpec == BootstrapInit /\ [][BootstrapNext]_bootstrapVars

(* Kubernetes starts the pod again, and the goroutine runs on: the calls   *)
(* of Helm and the waits all have timeouts.                                *)
FairBootstrapSpec == BootstrapSpec /\ WF_bootstrapVars(Boot) /\ WF_bootstrapVars(Work)

------------------------------------------------------------------------------
(* Properties.                                                             *)

(* When the bootstrap reports success, each component of the plan is       *)
(* installed, or a call about it failed in this very process, or it is one *)
(* of the two kinds the code cannot bring back: its deployment exists, so  *)
(* that its broken release is not looked at, or a cluster role binding of  *)
(* another namespace was left without its role.  So a release an earlier   *)
(* process left half installed, upgraded or removed is repaired.           *)
LeftBroken(s) ==
  \/ s \in Guarded /\ Present(s)
  \/ foreign[ReleaseOf(s)] = {"binding"}
ReadyAccounted ==
  monitoringReady /\ at # "down" =>
    \A s \in Plan : \/ release[ReleaseOf(s)].status = "deployed"
                    \/ s \in faulty \/ ReleaseOf(s) \in faulty
                    \/ LeftBroken(s)

(* Install leaves a healthy release of the wanted version alone, in        *)
(* whatever order processes are killed and started: only a process that    *)
(* failed to read the release may upgrade it.                              *)
HealthyKept ==
  [][\A r \in Releases \ {"nginx", "old-traefik"} :
       release[r].status = "deployed" /\ SameVersion(r)
         => release'[r] = release[r] \/ r \in faulty]_bootstrapVars

(* Traefik answers nothing at an entry point whose middleware is missing:  *)
(* a Traefik that was configured with the error pages finds them, whatever *)
(* failed or was interrupted before.                                       *)
MiddlewareThere ==
  release["traefik"].values = 2 => {"backend", "middleware"} \subseteq created

(* A release that a killed process left in a pending state, which Helm     *)
(* refuses to touch, does not stay so: a later process clears it, unless a *)
(* call about it fails there.                                              *)
StuckCleared ==
  \A r \in {"prometheus", "loki", "gateway"} \cap Enabled :
    (at = "down" /\ release[r].status \in Pending)
      ~> (release[r].status \notin Pending \/ r \in faulty)

(* startMonitoringBootstrap, agent.go: "Self-heal: retry monitoring/ingress*)
(* setup with capped exponential backoff until it succeeds".  A component  *)
(* that failed does not stay failed for as long as the agent runs.         *)
SelfHeals ==
  \A s \in Enabled \ {"coredns", "ingress-controller", "gateway"} :
    (at = "up" /\ release[s].status # "deployed") ~> release[s].status = "deployed"

(* The password of Grafana that the heartbeats report is the one Grafana   *)
(* was installed with.  The code does not ensure it: every process         *)
(* generates another one, and leaves an installed release alone.           *)
CredentialsMatch ==
  monitoringReady /\ at # "down" /\ release["prometheus"].status = "deployed"
    => release["prometheus"].values = runs
==============================================================================
