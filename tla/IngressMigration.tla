--------------------------- MODULE IngressMigration ---------------------------
(***************************************************************************)
(* What the agent changes in the ingresses and in the ingress controller   *)
(* of others: migrateExistingNginxIngresses of ingress/traefik.go, which   *)
(* the bootstrap runs after it installed Traefik, and the compatibility    *)
(* steps of the watcher's Start (ingress/watcher.go): the settings of the  *)
(* NGINX controller (ingress/controller.go) or the switch of all           *)
(* ingresses.                                                              *)
(*                                                                         *)
(* The two run in goroutines of their own, while users edit the same       *)
(* objects.  The API server refuses an update of an object that was        *)
(* changed since it was read.  An admission webhook of NGINX may block     *)
(* every update: it fails when NGINX is gone and left it behind, or it     *)
(* denies the object.  The agent then removes the webhook, if NGINX's      *)
(* service is gone, and tries once more.                                   *)
(*                                                                         *)
(* Abstractions: "text" stands for all a user wrote in an ingress, "own"   *)
(* for all he wrote in the ConfigMap; "rev" is the resource version.       *)
(***************************************************************************)
EXTENDS Naturals, FiniteSets

CONSTANTS
  Ingresses,
  MaxEdits,    \* bound: changes made by users
  MaxFaults    \* bound: failing calls

ASSUME MigrationAssumption == IsFiniteSet(Ingresses) /\ MaxEdits \in Nat /\ MaxFaults \in Nat

Migrators == {"installer", "watcher"}
Classes == {"none", "nginx", "traefik", "other"}
ConfigMaps == [there : BOOLEAN, own : Nat, fixed : BOOLEAN, backup : SUBSET (0..MaxEdits + 1),
               annotated : BOOLEAN, rev : Nat]

VARIABLES
  ing,         \* the cluster: the ingresses
  service,     \* the cluster: the admission service of namespace ingress-nginx exists
  webhook,     \* the cluster: NGINX's webhook configuration
  elsewhere,   \* the webhook belongs to an NGINX of another namespace
  cm,          \* the cluster: the ConfigMap of the NGINX controller
  compat,      \* the agent's configuration, and its rights
  pc,          \* where each migrator is
  list,        \* the ingresses as it has them
  todo,        \* those it has still to update
  cur,         \* the one it tries again
  cleaned,     \* not empty once it tried to remove the webhook: history, when that was
  missed,      \* those it counted as failed
  read,        \* the ConfigMap as EnsureNGINXConfigMapSettings has it
  edits, faults

cluster == <<ing, service, webhook, elsewhere, cm>>
migration == <<pc, list, todo, cur, cleaned, missed>>
vars == <<cluster, compat, migration, read, edits, faults>>

None == 0
(* The ConfigMap the agent makes up when it cannot read one.               *)
Blank == [there |-> FALSE, own |-> 0, fixed |-> FALSE, backup |-> {}, annotated |-> FALSE, rev |-> 0]

TypeOK ==
  /\ ing \in [Ingresses -> [spec : Classes, ann : Classes, text : 0..MaxEdits, rev : Nat]]
  /\ service \in BOOLEAN /\ elsewhere \in BOOLEAN /\ webhook \in {"absent", "fail", "ignore"}
  /\ cm \in ConfigMaps /\ read \in ConfigMaps
  /\ compat \in [required : BOOLEAN, backup : BOOLEAN, canDelete : BOOLEAN]
  /\ pc \in [Migrators -> {"list", "update", "check", "delete", "refresh", "retry", "done",
                           "settings", "write", "left"}]
  /\ list \in [Migrators -> [Ingresses -> [spec : Classes, ann : Classes, text : 0..MaxEdits, rev : Nat]]]
  /\ todo \in [Migrators -> SUBSET Ingresses] /\ missed \in [Migrators -> SUBSET Ingresses]
  /\ cur \in [Migrators -> Ingresses \cup {None}] /\ cleaned \in [Migrators -> SUBSET (0..MaxEdits)]
  /\ edits \in 0..MaxEdits /\ faults \in 0..MaxFaults

(* Ingresses of NGINX, by field or by annotation, and of another class.    *)
(* The watcher switches ingresses if it detected Traefik, and looks at the *)
(* ConfigMap if it detected NGINX.                                         *)
Init ==
  /\ ing \in [Ingresses -> {[spec |-> "nginx", ann |-> "none", text |-> 0, rev |-> 1],
                            [spec |-> "none", ann |-> "nginx", text |-> 0, rev |-> 1],
                            [spec |-> "other", ann |-> "none", text |-> 0, rev |-> 1]}]
  /\ service \in BOOLEAN /\ elsewhere \in BOOLEAN /\ webhook \in {"absent", "fail"}
  /\ cm \in {Blank} \cup {[there |-> TRUE, own |-> 1, fixed |-> FALSE, backup |-> {},
                           annotated |-> a, rev |-> 1] : a \in BOOLEAN}
  /\ compat \in [required : BOOLEAN, backup : BOOLEAN, canDelete : BOOLEAN]
  /\ pc \in [Migrators -> {"list", "settings"}] /\ pc["installer"] = "list"
  /\ pc["watcher"] = "list" => cm = Blank /\ ~compat.required /\ ~compat.backup
  /\ list = [m \in Migrators |-> ing] /\ todo = [m \in Migrators |-> {}]
  /\ cur = [m \in Migrators |-> None]
  /\ cleaned = [m \in Migrators |-> {}] /\ missed = [m \in Migrators |-> {}]
  /\ read = Blank /\ edits = 0 /\ faults = 0

Fault == faults < MaxFaults /\ faults' = faults + 1
NoFault == UNCHANGED faults

------------------------------------------------------------------------------
(* Users, and the API server.                                              *)

UserEditsIngress(i) ==
  /\ edits < MaxEdits /\ edits' = edits + 1
  /\ ing' = [ing EXCEPT ![i].text = @ + 1, ![i].rev = @ + 1]
  /\ UNCHANGED <<service, webhook, elsewhere, cm, compat, migration, read, faults>>
UserEditsConfigMap ==
  /\ edits < MaxEdits /\ edits' = edits + 1
  /\ cm.there /\ cm' = [cm EXCEPT !.own = @ + 1, !.rev = @ + 1]
  /\ UNCHANGED <<ing, service, webhook, elsewhere, compat, migration, read, faults>>
(* NGINX is removed or comes back.                                         *)
ServiceChanges ==
  /\ edits < MaxEdits /\ edits' = edits + 1
  /\ service' = ~service
  /\ UNCHANGED <<ing, webhook, elsewhere, cm, compat, migration, read, faults>>

(* The webhook stops an update because nothing answers it, unless it may   *)
(* be ignored, or because NGINX denies it.                                 *)
Alive == service \/ elsewhere
Refuses == webhook # "absent" /\ (webhook = "ignore" => Alive)
Accepts == webhook = "absent" \/ Alive \/ webhook = "ignore"

------------------------------------------------------------------------------
(* The migrators.                                                          *)

Go(m, place) == pc' = [pc EXCEPT ![m] = place]
Miss(m, i) ==
  /\ missed' = [missed EXCEPT ![m] = @ \cup {i}]
  /\ todo' = [todo EXCEPT ![m] = @ \ {i}] /\ Go(m, "update")
Migrated(m, i) ==
  /\ todo' = [todo EXCEPT ![m] = @ \ {i}] /\ Go(m, "update") /\ UNCHANGED missed

(* What a migrator changes: the installer what is of class nginx in either *)
(* place, the watcher whatever is not of class traefik in both.            *)
IngressUsesClass(x, class) == x.spec = class \/ x.ann = class
Wanted(m, x) == \/ m = "installer" /\ IngressUsesClass(x, "nginx")
                \/ m = "watcher" /\ (x.spec # "traefik" \/ x.ann # "traefik")

ListIngresses(m) ==
  /\ pc[m] = "list"
  /\ \/ /\ list' = [list EXCEPT ![m] = ing] /\ NoFault /\ Go(m, "update")
        /\ todo' = [todo EXCEPT ![m] = {i \in Ingresses : Wanted(m, ing[i])}]
        /\ UNCHANGED missed
     \/ /\ Fault /\ Go(m, "done")
        /\ missed' = [missed EXCEPT ![m] = Ingresses]
        /\ UNCHANGED <<list, todo>>
  /\ UNCHANGED <<cluster, compat, cur, cleaned, read, edits>>

(* Update of ingress i to what the migrator has, with class traefik in     *)
(* both places: refused if the ingress was changed since.                  *)
Current(m, i) == list[m][i].rev = ing[i].rev
UpdateIngressClass(m, i) ==
  ing' = [ing EXCEPT ![i] = [list[m][i] EXCEPT !.spec = "traefik", !.ann = "traefik", !.rev = ing[i].rev + 1]]

Migrate(m, i) ==
  /\ pc[m] = "update" /\ i \in todo[m]
  /\ \/ /\ Current(m, i) /\ Accepts /\ UpdateIngressClass(m, i)
        /\ Migrated(m, i) /\ NoFault /\ UNCHANGED cur
     \/ /\ Current(m, i) /\ Refuses
        /\ cur' = [cur EXCEPT ![m] = i] /\ Go(m, IF cleaned[m] = {} THEN "check" ELSE "refresh")
        /\ NoFault /\ UNCHANGED <<ing, todo, missed>>
     \/ ~Current(m, i) /\ Miss(m, i) /\ NoFault /\ UNCHANGED <<ing, cur>>
     \/ Miss(m, i) /\ Fault /\ UNCHANGED <<ing, cur>>
  /\ UNCHANGED <<service, webhook, elsewhere, cm, compat, list, cleaned, read, edits>>
MigrationDone(m) ==
  /\ pc[m] = "update" /\ todo[m] = {} /\ Go(m, "done")
  /\ UNCHANGED <<cluster, compat, list, todo, cur, cleaned, missed, read, edits, faults>>

(* Faulty variant of CheckService, for the mutants: without the guard.     *)
CheckServiceNot(m) ==
  /\ pc[m] = "check" /\ cleaned' = [cleaned EXCEPT ![m] = {edits}]
  /\ Go(m, "delete") /\ NoFault /\ UNCHANGED <<todo, missed>>
  /\ UNCHANGED <<cluster, compat, list, cur, read, edits>>

(* cleanupStaleNginxAdmissionWebhooksForClient: first its safety guard,    *)
(* then the deletion, or a patch where deleting is forbidden.              *)
CheckService(m) ==
  /\ pc[m] = "check" /\ cleaned' = [cleaned EXCEPT ![m] = {edits}]
  /\ \/ ~service /\ Go(m, "delete") /\ NoFault /\ UNCHANGED <<todo, missed>>
     \/ service /\ Miss(m, cur[m]) /\ NoFault
     \/ Miss(m, cur[m]) /\ Fault
  /\ UNCHANGED <<cluster, compat, list, cur, read, edits>>
DeleteWebhook(m) ==
  /\ pc[m] = "delete"
  /\ \/ webhook = "absent" /\ UNCHANGED webhook /\ Go(m, "refresh") /\ NoFault /\ UNCHANGED <<todo, missed>>
     \/ /\ webhook # "absent" /\ compat.canDelete /\ webhook' = "absent"
        /\ Go(m, "refresh") /\ NoFault /\ UNCHANGED <<todo, missed>>
     \/ /\ webhook = "fail" /\ ~compat.canDelete /\ webhook' = "ignore"
        /\ Go(m, "refresh") /\ NoFault /\ UNCHANGED <<todo, missed>>
     \/ webhook = "ignore" /\ ~compat.canDelete /\ UNCHANGED webhook /\ Miss(m, cur[m]) /\ NoFault
     \/ UNCHANGED webhook /\ Miss(m, cur[m]) /\ Fault
  /\ UNCHANGED <<ing, service, elsewhere, cm, compat, list, cur, cleaned, read, edits>>

(* One more attempt, with the ingress read again.                          *)
Refresh(m) ==
  /\ pc[m] = "refresh"
  /\ \/ /\ list' = [list EXCEPT ![m][cur[m]] = ing[cur[m]]]
        /\ Go(m, "retry") /\ NoFault /\ UNCHANGED <<todo, missed>>
     \/ Miss(m, cur[m]) /\ Fault /\ UNCHANGED list
  /\ UNCHANGED <<cluster, compat, cur, cleaned, read, edits>>
(* Faulty variants of Retry, for the mutants: the retry takes over only    *)
(* the new version number; it is not made.                                 *)
RetryAnyway(m) ==
  /\ pc[m] = "retry" /\ Accepts
  /\ UpdateIngressClass(m, cur[m]) /\ Migrated(m, cur[m]) /\ NoFault
  /\ UNCHANGED <<service, webhook, elsewhere, cm, compat, list, cur, cleaned, read, edits>>
RetryNot(m) ==
  /\ pc[m] = "retry" /\ Migrated(m, cur[m])
  /\ UNCHANGED <<cluster, compat, list, cur, cleaned, read, edits, faults>>
Retry(m) ==
  /\ pc[m] = "retry"
  /\ \/ /\ Current(m, cur[m]) /\ Accepts
        /\ UpdateIngressClass(m, cur[m]) /\ Migrated(m, cur[m]) /\ NoFault
     \/ ~Current(m, cur[m]) /\ Miss(m, cur[m]) /\ NoFault /\ UNCHANGED ing
     \/ Refuses /\ Miss(m, cur[m]) /\ NoFault /\ UNCHANGED ing
     \/ Miss(m, cur[m]) /\ Fault /\ UNCHANGED ing
  /\ UNCHANGED <<service, webhook, elsewhere, cm, compat, list, cur, cleaned, read, edits>>

------------------------------------------------------------------------------
(* The settings of the NGINX controller.                                   *)

(* A read that fails for whatever reason is taken for a missing ConfigMap. *)
ReadConfigMap ==
  /\ pc["watcher"] = "settings"
  /\ \/ read' = (IF cm.there THEN cm ELSE Blank) /\ NoFault
     \/ read' = Blank /\ Fault
  /\ Go("watcher", IF read'.annotated \/ ~compat.required THEN "write" ELSE "left")
  /\ UNCHANGED <<cluster, compat, list, todo, cur, cleaned, missed, edits>>

(* The first backup is kept; the settings that are required are set.       *)
BackupConfigMap == IF compat.backup /\ read.backup = {} THEN {read.own} ELSE read.backup
Settled(rev) == [read EXCEPT !.there = TRUE, !.fixed = TRUE, !.backup = BackupConfigMap, !.rev = rev]

(* Faulty variant of the write, for the mutants: the object is sent        *)
(* without the version it was read with.                                   *)
WriteConfigMapAnyway ==
  /\ pc["watcher"] = "write" /\ Go("watcher", "left")
  /\ cm' = Settled(cm.rev + 1) /\ NoFault
  /\ UNCHANGED <<ing, service, webhook, elsewhere, compat, list, todo, cur, cleaned, missed, read, edits>>
(* The ConfigMap is read once more, to tell Create from Update.  A made-up *)
(* one has no version, and the API server then does not compare.           *)
WriteConfigMap ==
  /\ pc["watcher"] = "write" /\ Go("watcher", "left")
  /\ \/ cm.there /\ read.rev \in {None, cm.rev} /\ cm' = Settled(cm.rev + 1) /\ NoFault
     \/ ~cm.there /\ cm' = Settled(1) /\ NoFault
     \/ cm.there /\ read.rev \notin {None, cm.rev} /\ UNCHANGED cm /\ NoFault
     \/ UNCHANGED cm /\ Fault
  /\ UNCHANGED <<ing, service, webhook, elsewhere, compat, list, todo, cur, cleaned, missed, read, edits>>

Work(m) ==
  \/ ListIngresses(m) \/ (\E i \in Ingresses : Migrate(m, i)) \/ MigrationDone(m)
  \/ CheckService(m) \/ DeleteWebhook(m) \/ Refresh(m) \/ Retry(m)
Next ==
  \/ (\E i \in Ingresses : UserEditsIngress(i)) \/ UserEditsConfigMap \/ ServiceChanges
  \/ (\E m \in Migrators : Work(m)) \/ ReadConfigMap \/ WriteConfigMap
Spec == Init /\ [][Next]_vars

------------------------------------------------------------------------------
(* Properties.                                                             *)

(* What users wrote is never overwritten with what the agent read earlier, *)
(* by either migrator, in an ingress or in the ConfigMap of NGINX.  The    *)
(* one exception is a ConfigMap that the agent failed to read: its made-up *)
(* one replaces the users'.                                                *)
EditsKept ==
  [][edits' = edits =>
       /\ \A i \in Ingresses : ing'[i].text = ing[i].text
       /\ cm.there => cm'.own = cm.own \/ read = Blank]_vars

(* A migrator that is done has moved every ingress it is to move, or has   *)
(* counted it as failed: its result is what the log says.                  *)
MissedAccounted ==
  \A m \in Migrators : pc[m] = "done" =>
    \A i \in Ingresses : Wanted(m, ing[i]) => i \in missed[m]

(* The webhook of an NGINX whose service is there is not touched, but for  *)
(* a service that came back after it was looked for, and for an NGINX of   *)
(* another namespace, whose service the guard does not look at.            *)
WebhookGuarded ==
  [][webhook' # webhook =>
       ~service \/ elsewhere \/ \E m \in Migrators : pc[m] = "delete" /\ edits \notin cleaned[m]]_vars

(* cleanupStaleNginxAdmissionWebhooksForClient: "Safety guard: only clean  *)
(* up webhook configurations if the backing admission service is missing." *)
(* The code does not ensure it for an NGINX of another namespace, nor for  *)
(* one that comes back in between.                                         *)
OnlyStaleWebhooks == [][webhook' # webhook => ~Alive]_vars
==============================================================================
