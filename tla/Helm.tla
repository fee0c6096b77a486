-------------------------------- MODULE Helm --------------------------------
(***************************************************************************)
(* The Helm installer: helm/installer.go.                                  *)
(*                                                                         *)
(* Install brings a release to the chart that is wanted, whatever an       *)
(* earlier process left behind; Uninstall removes one.  Both talk to the   *)
(* cluster in several steps, any of which may fail, and between any two    *)
(* steps the process may be killed: a release can stay in a pending state, *)
(* half removed, or without a record of objects that exist.                *)
(*                                                                         *)
(* Abstractions: a release is one record of the cluster, identified by its *)
(* name and namespace; its history is its last revision.  "values" stands  *)
(* for the chart version and the values it was deployed with.  "up" says   *)
(* that the deployments of the chart exist.                                *)
(***************************************************************************)
EXTENDS Naturals, FiniteSets

CONSTANTS
  Releases,
  Mismatched,   \* releases whose requested version is never spelled as the chart's own
  Clashing,     \* releases whose cluster-scoped objects may belong to another namespace
  MaxFaults     \* bound: failed calls

ASSUME HelmAssumption ==
  /\ IsFiniteSet(Releases)
  /\ Mismatched \subseteq Releases /\ Clashing \subseteq Releases
  /\ MaxFaults \in Nat

VARIABLES
  release,   \* the cluster: releases by name
  foreign,   \* cluster role and binding annotated with another namespace
  op,        \* what the installer is doing
  faults,    \* number of failed calls
  faulty     \* history: releases for which a call failed in this process

helmVars == <<release, foreign, op, faults, faulty>>

Pending == {"pending-install", "pending-upgrade"}
Unhealthy == {"failed", "uninstalling"}
Gone == [status |-> "none", up |-> FALSE, values |-> 0]
Idle == [at |-> "idle"]

(* Install(release) and Uninstall(release) are called.                     *)
CallInstall(r, v) == op' = [at |-> "history", release |-> r, call |-> "install", values |-> v]
CallUninstall(r) == op' = [at |-> "uninstall", release |-> r, call |-> "remove", values |-> 0]
Returned == op.at \in {"ok", "error"}

At(step) == op.at = step
R == op.release
Status == release[R].status
Go(step) == op' = [op EXCEPT !.at = step]
GoFor(call, step) == op' = [op EXCEPT !.at = step, !.call = call]
Become(s) == release' = [release EXCEPT ![R].status = s]

(* A call of the cluster, or a download, fails.                            *)
FaultOn(r) == /\ faults < MaxFaults
              /\ faults' = faults + 1 /\ faulty' = faulty \cup {r}
NoFault == UNCHANGED <<faults, faulty>>
Quiet == UNCHANGED <<release, foreign>>

(* Whether the version asked for is the one installed: none was asked for, *)
(* or the two strings are equal.                                           *)
SameVersion(r) == r \notin Mismatched

(* cleanupRelease, before a reinstallation.                                *)
CleanupRelease == GoFor("reinstall", "uninstall")

(* Faulty variants of History, for the mutants: a release that is not      *)
(* healthy is upgraded as it is; a healthy one is upgraded once more.      *)
HistoryUpgrades ==
  /\ At("history") /\ Quiet /\ NoFault
  /\ \/ Status = "none" /\ GoFor("install", "prepare")
     \/ Status = "deployed" /\ SameVersion(R) /\ Go("ok")
     \/ Status # "none" /\ ~(Status = "deployed" /\ SameVersion(R)) /\ GoFor("upgrade", "prepare")
HistoryNoSkip ==
  /\ At("history") /\ Quiet /\ NoFault
  /\ \/ Status = "none" /\ GoFor("install", "prepare")
     \/ Status \in Pending \cup Unhealthy /\ CleanupRelease
     \/ Status = "deployed" /\ GoFor("upgrade", "prepare")

(* Install reads the history, then the release.  A read that fails is      *)
(* taken for a release that does not exist, or for one to be upgraded.     *)
History ==
  /\ At("history") /\ Quiet
  /\ \/ Status = "none" /\ GoFor("install", "prepare") /\ NoFault
     \/ Status \in Pending \cup Unhealthy /\ CleanupRelease /\ NoFault
     \/ Status = "deployed" /\ SameVersion(R) /\ Go("ok") /\ NoFault
     \/ Status = "deployed" /\ ~SameVersion(R) /\ GoFor("upgrade", "prepare") /\ NoFault
     \/ Status # "none" /\ GoFor("install", "prepare") /\ FaultOn(R)
     \/ Status # "none" /\ GoFor("upgrade", "prepare") /\ FaultOn(R)

(* helm uninstall, with Wait: alone, or as the first half of               *)
(* cleanupRelease, which goes on whatever it returns.                      *)
Uninstall ==
  /\ At("uninstall") /\ UNCHANGED foreign
  /\ \/ /\ release' = [release EXCEPT ![R] = Gone] /\ NoFault
        /\ Go(IF op.call = "remove" THEN "ok" ELSE "purge")
     \/ /\ FaultOn(R)
        /\ \/ UNCHANGED release
           \/ \E left \in BOOLEAN : release' = [release EXCEPT ![R].status = "uninstalling",
                                                               ![R].up = @ /\ left]
        /\ Go(IF op.call = "remove" THEN "error" ELSE "purge")

(* deleteFromHistory: the record goes, the objects stay if they are left.  *)
DeleteFromHistory ==
  /\ At("purge") /\ UNCHANGED foreign
  /\ \/ Become("none") /\ NoFault
     \/ UNCHANGED release /\ FaultOn(R)
  /\ Go("prepare")

(* AddRepo, whose errors are only logged, and createNamespace.             *)
CreateNamespace == \/ Go(IF op.call = "install" THEN "role" ELSE "run") /\ NoFault
                   \/ Go("error") /\ FaultOn(R)
Prepare == At("prepare") /\ Quiet /\ CreateNamespace

(* cleanupConflictingClusterResources.  Its errors are only logged; the    *)
(* binding is looked at when the role was there.                           *)
CleanupRole ==
  /\ At("role") /\ UNCHANGED release
  /\ \/ /\ "role" \notin foreign[R] /\ Go("run") /\ NoFault /\ UNCHANGED foreign
     \/ /\ "role" \in foreign[R] /\ Go("binding") /\ NoFault
        /\ foreign' = [foreign EXCEPT ![R] = @ \ {"role"}]
     \/ /\ "role" \in foreign[R] /\ Go("run") /\ FaultOn(R) /\ UNCHANGED foreign
CleanupBinding ==
  /\ At("binding") /\ UNCHANGED release /\ Go("run")
  /\ \/ foreign' = [foreign EXCEPT ![R] = @ \ {"binding"}] /\ NoFault
     \/ "binding" \in foreign[R] /\ FaultOn(R) /\ UNCHANGED foreign

(* What Helm itself accepts.                                               *)
NameFree == \/ Status = "none"
            \/ op.call = "reinstall" /\ Status = "failed"
CanUpgrade == Status \in {"deployed", "failed"}

(* install, upgrade and upgradeWithForce up to the point where Helm has    *)
(* recorded the new revision.  A reinstallation whose name is still in use *)
(* turns into a forced upgrade.                                            *)
UpgradeWithForce == GoFor("force", "run")
Install ==
  /\ At("run") /\ op.call \in {"install", "reinstall"} /\ UNCHANGED foreign
  /\ \/ NameFree /\ foreign[R] = {} /\ Become("pending-install") /\ Go("create") /\ NoFault
     \/ NameFree /\ foreign[R] # {} /\ UNCHANGED release /\ Go("error") /\ NoFault
     \/ ~NameFree /\ op.call = "install" /\ UNCHANGED release /\ Go("error") /\ NoFault
     \/ ~NameFree /\ op.call = "reinstall" /\ UNCHANGED release /\ UpgradeWithForce /\ NoFault
     \/ UNCHANGED release /\ Go("error") /\ FaultOn(R)
Upgrade ==
  /\ At("run") /\ op.call \in {"upgrade", "force"} /\ UNCHANGED foreign
  /\ \/ CanUpgrade /\ Become("pending-upgrade") /\ Go("create") /\ NoFault
     \/ ~CanUpgrade /\ UNCHANGED release /\ Go("error") /\ NoFault
     \/ UNCHANGED release /\ Go("error") /\ FaultOn(R)

(* Helm creates the objects, then waits for them to be ready.              *)
CreateObjects ==
  /\ At("create") /\ UNCHANGED foreign
  /\ \/ release' = [release EXCEPT ![R].up = TRUE] /\ Go("wait") /\ NoFault
     \/ Become("failed") /\ Go("error") /\ FaultOn(R)
Wait ==
  /\ At("wait") /\ UNCHANGED foreign
  /\ \/ /\ release' = [release EXCEPT ![R].status = "deployed", ![R].values = op.values]
        /\ Go("ok") /\ NoFault
     \/ Become("failed") /\ Go("error") /\ FaultOn(R)

HelmStep == \/ History \/ Uninstall \/ DeleteFromHistory \/ Prepare
            \/ CleanupRole \/ CleanupBinding \/ Install \/ Upgrade
            \/ CreateObjects \/ Wait
=============================================================================
