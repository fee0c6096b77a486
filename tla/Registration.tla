---------------------------- MODULE Registration ----------------------------
(***************************************************************************)
(* How the agent gets and keeps its cluster id (internal/agent/agent.go:   *)
(* register, startHeartbeat, handleRegistrationError,                      *)
(* handleControlPlaneReconnect; internal/controlplane/client.go:           *)
(* NewClient, RegisterAgent, ResumeSession).                               *)
(*                                                                         *)
(* Three goroutines call register(), which holds registerMutex: "beat" is  *)
(* Start and then the heartbeat loop, "error" is started when the control  *)
(* plane says the cluster is not registered, "greet" when the connection   *)
(* comes back.  They share the cluster id in memory, the one in the store, *)
(* the control connection, and the flag reregistering.                     *)
(*                                                                         *)
(* The connection is abstracted from WSLifecycle to up, down (its loop     *)
(* will reconnect it) and dead (closed, or its loop ended on a refusal).   *)
(* The store is what StateStore makes of it: a save of any field loads the *)
(* whole state, or takes the cached one when the load fails, and writes    *)
(* all of it back later; other goroutines save in between.  Of the state   *)
(* only the ConfigMap's cluster_id and gateway_ws_url are kept, which one  *)
(* call writes; a save of the agent id or of a credential rewrites both.   *)
(* The payload of a registration is left out.                              *)
(***************************************************************************)
EXTENDS Naturals

CONSTANTS
  MaxIds,          \* bound: cluster ids the control plane hands out
  MaxFaults,       \* bound: faults in a behaviour
  Faults,          \* the kinds of faults that may happen
  MaxPending,      \* bound: "not registered" messages under way
  GatewayAnswers,  \* may an answer name a gateway, may it not
  Credentials,     \* does the process find a token or a CA bundle
  MaxAttempts,     \* attempts of a heartbeat
  Threshold        \* failed heartbeats that mean "disconnected"

FaultKinds == {"crash",   \* the process is killed
               "boot",    \* the first connection of a process fails
               "drop",    \* the connection breaks
               "refuse",  \* a reconnection is answered 401 or 403
               "dial",    \* a connection made by register() fails
               "forget",  \* the control plane loses a cluster
               "lost",    \* an answer to a registration is lost
               "read",    \* a load of the stored state fails
               "save",    \* a save fails, with or without effect
               "rotate"}  \* the service account token changed

ASSUME RegistrationAssumption ==
  /\ {MaxIds, MaxAttempts, Threshold, MaxPending} \subseteq Nat \ {0}
  /\ MaxFaults \in Nat
  /\ Faults \subseteq FaultKinds
  /\ GatewayAnswers \subseteq BOOLEAN /\ GatewayAnswers # {}
  /\ Credentials \subseteq BOOLEAN /\ Credentials # {}

Ids    == 1..MaxIds
NoId   == 0
Unread == MaxIds + 1   \* the stored cluster id could not be read

Stored == [id : Ids \cup {NoId}, url : BOOLEAN]
Blank  == [id |-> NoId, url |-> FALSE]
NoCopy == [id |-> Unread, url |-> FALSE]
Actors == {"beat", "error", "greet"}

VARIABLES
  known,      \* control plane: the clusters it knows
  minted,     \* control plane: how many ids it handed out
  complaints, \* "not registered" messages under way
  store,      \* persistent: cluster_id, and whether gateway_ws_url is set
  cache,      \* StateManager.cachedState
  held,       \* the copy each save under way has loaded
  link,       \* c.wsClient: its mode and what has become of it
  cid,        \* a.clusterID
  rereg,      \* a.reregistering
  fresh,      \* the process has not loaded its credentials yet
  creds,      \* the process finds credentials
  changed,    \* register: the credentials differ from the ones in memory
  starting,   \* Start has not yet begun the heartbeats
  pc,         \* where each goroutine is
  had,        \* register: the cluster id it loaded
  got,        \* register: the cluster id it was given
  beatId,     \* the cluster id in the heartbeat being sent
  attempt,    \* attempt of the current heartbeat
  fails,      \* consecutiveHeartbeatFailures, capped at Threshold
  status,     \* a.connectionState
  faults      \* how many faults have happened

serverVars == <<known, minted>>
beatVars   == <<beatId, attempt, fails>>
regVars    == <<had, got>>
procVars   == <<rereg, fresh, creds, changed, starting>>
storeVars  == <<store, cache, held>>
vars == <<serverVars, complaints, storeVars, link, cid, procVars, pc, regVars,
          beatVars, status, faults>>

RegisterStates == {"load", "token", "readcert", "cert", "loadid", "readurl",
                   "resume", "redial", "ensure", "send", "await", "rejected",
                   "swap", "dial", "saveurl", "setid", "saveid", "newtoken"}
BootStates == {"new", "agentid", "connect"}
SaveStates == {"agentid", "token", "cert", "saveurl", "saveid", "newtoken", "clear"}
AllStates == RegisterStates \cup BootStates \cup
  {"off", "clear", "greet", "enter", "ok", "skipped", "failed",
   "tick", "check", "build", "beat"}

Link(mode, state) == [mode |-> mode, state |-> state]

TypeOK ==
  /\ known \subseteq Ids
  /\ minted \in 0..MaxIds
  /\ complaints \in 0..MaxPending
  /\ store \in Stored /\ cache \in Stored
  /\ held \in [Actors -> Stored \cup {NoCopy}]
  /\ link \in [mode : {"absent", "none", "controller", "gateway"},
               state : {"up", "down", "dead"}]
  /\ cid \in Ids \cup {NoId}
  /\ rereg \in BOOLEAN /\ fresh \in BOOLEAN
  /\ creds \in BOOLEAN /\ changed \in BOOLEAN /\ starting \in BOOLEAN
  /\ pc \in [Actors -> AllStates]
  /\ had \in [Actors -> Ids \cup {NoId, Unread}]
  /\ got \in [Actors -> Ids \cup {NoId}]
  /\ beatId \in Ids \cup {NoId}
  /\ attempt \in 1..MaxAttempts
  /\ fails \in 0..Threshold
  /\ status \in {"disconnected", "connecting", "connected", "reconnecting"}
  /\ faults \in 0..MaxFaults

Fault(kind) == kind \in Faults /\ faults < MaxFaults /\ faults' = faults + 1
Fine        == UNCHANGED faults

Goto(a, where) == pc' = [pc EXCEPT ![a] = where]

Init ==
  /\ known = {} /\ minted = 0 /\ complaints = 0
  /\ store = Blank /\ cache = Blank /\ held = [a \in Actors |-> NoCopy]
  /\ link = Link("none", "down")
  /\ cid = NoId /\ rereg = FALSE /\ fresh = TRUE /\ starting = TRUE
  /\ creds \in Credentials /\ changed = FALSE
  /\ pc = [a \in Actors |-> IF a = "beat" THEN "new" ELSE "off"]
  /\ had = [a \in Actors |-> NoId] /\ got = [a \in Actors |-> NoId]
  /\ beatId = NoId /\ attempt = 1 /\ fails = 0
  /\ status = "disconnected"
  /\ faults = 0

(* A new process finds what the control plane and the store hold.          *)
Boot ==
  /\ cache' = Blank /\ held' = [a \in Actors |-> NoCopy]
  /\ link' = Link("none", "down")
  /\ cid' = NoId /\ rereg' = FALSE /\ fresh' = TRUE /\ starting' = TRUE
  /\ changed' = FALSE
  /\ pc' = [a \in Actors |-> IF a = "beat" THEN "new" ELSE "off"]
  /\ had' = [a \in Actors |-> NoId] /\ got' = [a \in Actors |-> NoId]
  /\ beatId' = NoId /\ attempt' = 1 /\ fails' = 0
  /\ status' = "disconnected"
  /\ complaints' = 0
  /\ UNCHANGED <<serverVars, store, creds>>

-----------------------------------------------------------------------------
(* StateManager.                                                           *)

(* GetX: Load refreshes the cache, unless it fails.                        *)
ReadOk    == cache' = store /\ UNCHANGED <<store, held>> /\ Fine
ReadFails == Fault("read") /\ UNCHANGED storeVars

(* The first half of SaveX: Load, or cloneCachedState when it fails.       *)
SaveLoads(a) ==
  /\ pc[a] \in SaveStates /\ held[a] = NoCopy
  /\ \/ held' = [held EXCEPT ![a] = store] /\ cache' = store /\ Fine
     \/ held' = [held EXCEPT ![a] = cache] /\ UNCHANGED cache /\ Fault("read")
  /\ UNCHANGED <<serverVars, complaints, store, link, cid, procVars, pc, regVars,
                 beatVars, status>>

(* The second half: Save writes the whole copy.  A failed save is logged.  *)
Saves(a, state) ==
  /\ held[a] # NoCopy
  /\ held' = [held EXCEPT ![a] = NoCopy]
  /\ \/ store' = state /\ cache' = state /\ Fine
     \/ store' \in {store, state} /\ UNCHANGED cache /\ Fault("save")
  /\ UNCHANGED <<serverVars, complaints, link, cid, procVars, regVars, beatVars, status>>

-----------------------------------------------------------------------------
(* New: the agent id comes from the configuration or from the store, and   *)
(* is saved unless it was found there.                                     *)
OpenState ==
  /\ pc["beat"] = "new"
  /\ \/ Goto("beat", "agentid") /\ Fine /\ UNCHANGED storeVars
     \/ Goto("beat", "agentid") /\ ReadFails
     \/ ReadOk /\ \E next \in {"agentid", "connect"} : Goto("beat", next)
  /\ UNCHANGED <<serverVars, complaints, link, cid, procVars, regVars, beatVars, status>>

SaveAgentID ==
  /\ pc["beat"] = "agentid"
  /\ Saves("beat", held["beat"]) /\ Goto("beat", "connect")

(* NewClient connects to the controller; when that fails, New goes on      *)
(* without a control plane client.                                         *)
FirstLink == {Link("controller", "up")} \cup
             (IF "boot" \in Faults THEN {Link("absent", "down")} ELSE {})

Connect ==
  /\ pc["beat"] = "connect"
  /\ link' \in FirstLink
  /\ Goto("beat", "enter") /\ Fine
  /\ UNCHANGED <<serverVars, complaints, storeVars, cid, procVars, regVars,
                 beatVars, status>>

-----------------------------------------------------------------------------
(* register().                                                             *)

(* Mutant: registerMutex is not taken.                                     *)
EnterUnlocked(a) ==
  /\ pc[a] = "enter"
  /\ \/ /\ link.mode \in {"gateway", "absent"}
        /\ Goto(a, "skipped") /\ UNCHANGED status
     \/ /\ link.mode \notin {"gateway", "absent"}
        /\ Goto(a, "load") /\ status' = "connecting"
  /\ Fine
  /\ UNCHANGED <<serverVars, complaints, storeVars, link, cid, procVars, regVars, beatVars>>

(* Mutant: a gateway connection does not stop a registration.              *)
EnterAnyMode(a) ==
  /\ pc[a] = "enter"
  /\ \A b \in Actors : pc[b] \notin RegisterStates
  /\ \/ link.mode = "absent" /\ Goto(a, "skipped") /\ UNCHANGED status
     \/ link.mode # "absent" /\ Goto(a, "load") /\ status' = "connecting"
  /\ Fine
  /\ UNCHANGED <<serverVars, complaints, storeVars, link, cid, procVars, regVars, beatVars>>

(* registerMutex; nothing to do on a gateway or without a client.          *)
Enter(a) ==
  /\ pc[a] = "enter"
  /\ \A b \in Actors : pc[b] \notin RegisterStates
  /\ \/ /\ link.mode \in {"gateway", "absent"}
        /\ Goto(a, "skipped") /\ UNCHANGED status
     \/ /\ link.mode \notin {"gateway", "absent"}
        /\ Goto(a, "load") /\ status' = "connecting"
  /\ Fine
  /\ UNCHANGED <<serverVars, complaints, storeVars, link, cid, procVars, regVars, beatVars>>

(* loadClusterCredentials reads the stored token and saves the one that is *)
(* mounted when it differs (bound: one save of the token), then does the   *)
(* same with the CA bundle.  It reports a change whenever they differ from *)
(* the ones in memory, which are empty at first.                           *)
LoadToken(a) ==
  /\ pc[a] = "load"
  /\ fresh' = FALSE
  /\ \/ changed' = (fresh /\ creds) /\ (ReadOk \/ ReadFails)
     \/ /\ changed' = TRUE /\ creds /\ ~fresh
        /\ Fault("rotate") /\ cache' = store /\ UNCHANGED <<store, held>>
  /\ \E saves \in {creds, FALSE} : Goto(a, IF saves THEN "token" ELSE "readcert")
  /\ UNCHANGED <<serverVars, complaints, link, cid, rereg, creds, starting,
                 regVars, beatVars, status>>

LoadCertificate(a) ==
  /\ pc[a] = "readcert"
  /\ ReadOk \/ ReadFails
  /\ \E saves \in {creds, FALSE} : Goto(a, IF saves THEN "cert" ELSE "loadid")
  /\ UNCHANGED <<serverVars, complaints, link, cid, procVars, regVars, beatVars, status>>

(* The stored token or CA bundle, or the token the control plane gave.     *)
SaveCredential(a) ==
  /\ \/ pc[a] = "token" /\ Goto(a, "readcert")
     \/ pc[a] = "cert" /\ Goto(a, "loadid")
     \/ pc[a] = "newtoken" /\ Goto(a, "ok")
  /\ Saves(a, held[a])

(* A cluster id that cannot be read counts as none: existingClusterID      *)
(* stays empty, and a.clusterID what it was.                               *)
LoadState(a) ==
  /\ pc[a] = "loadid"
  /\ \/ /\ ReadOk
        /\ had' = [had EXCEPT ![a] = store.id]
        /\ cid' = IF store.id = NoId THEN cid ELSE store.id
        /\ Goto(a, IF store.id # NoId /\ ~changed THEN "readurl" ELSE "ensure")
     \/ /\ ReadFails
        /\ had' = [had EXCEPT ![a] = Unread]
        /\ Goto(a, "ensure") /\ UNCHANGED cid
  /\ changed' = FALSE
  /\ UNCHANGED <<serverVars, complaints, link, rereg, fresh, creds, starting,
                 got, beatVars, status>>

(* GetGatewayWSURL.                                                        *)
LoadURL(a) ==
  /\ pc[a] = "readurl"
  /\ \/ ReadOk /\ Goto(a, IF store.url THEN "resume" ELSE "ensure")
     \/ ReadFails /\ Goto(a, "ensure")
  /\ UNCHANGED <<serverVars, complaints, link, cid, procVars, regVars, beatVars, status>>

(* ResumeSession: the old connection is closed, then the gateway dialled.  *)
ResumeCloses(a) ==
  /\ pc[a] = "resume"
  /\ link' = Link("none", "down")
  /\ Goto(a, "redial") /\ Fine
  /\ UNCHANGED <<serverVars, complaints, storeVars, cid, procVars, regVars, beatVars, status>>

ResumeDials(a) ==
  /\ pc[a] = "redial"
  /\ \/ /\ link' = Link("gateway", "up")
        /\ cid' = had[a]
        /\ Goto(a, "ok") /\ Fine
     \/ /\ Fault("dial")
        /\ Goto(a, "ensure") /\ UNCHANGED <<link, cid>>
  /\ UNCHANGED <<serverVars, complaints, storeVars, procVars, regVars, beatVars, status>>

(* RegisterAgent: a missing client is replaced, a closed one is not.  Its  *)
(* switch back from a gateway is never taken: register() returned before.  *)
EnsureLink(a) ==
  /\ pc[a] = "ensure"
  /\ \/ link.mode # "none" /\ Goto(a, "send") /\ Fine /\ UNCHANGED link
     \/ /\ link.mode = "none"
        /\ link' = Link("controller", "up")
        /\ Goto(a, "send") /\ Fine
     \/ link.mode = "none" /\ Fault("dial") /\ Goto(a, "failed") /\ UNCHANGED link
  /\ UNCHANGED <<serverVars, complaints, storeVars, cid, procVars, regVars, beatVars, status>>

SendRegister(a) ==
  /\ pc[a] = "send"
  /\ Goto(a, IF link.state = "up" THEN "await" ELSE "failed") /\ Fine
  /\ UNCHANGED <<serverVars, complaints, storeVars, link, cid, procVars, regVars,
                 beatVars, status>>

(* The control plane keeps a cluster it knows and makes a new one when it  *)
(* is told none, which is also what an id that was not read amounts to.    *)
Grant(a) ==
  \/ /\ had[a] \in known
     /\ got' = [got EXCEPT ![a] = had[a]]
     /\ UNCHANGED serverVars
  \/ /\ had[a] \in {NoId, Unread} /\ minted < MaxIds
     /\ minted' = minted + 1
     /\ known' = known \cup {minted + 1}
     /\ got' = [got EXCEPT ![a] = minted + 1]

Answered(a) ==
  /\ pc[a] = "await" /\ link.state = "up"
  /\ Grant(a)
  /\ \E gateway \in GatewayAnswers : Goto(a, IF gateway THEN "swap" ELSE "setid")
  /\ Fine
  /\ UNCHANGED <<complaints, storeVars, link, cid, procVars, had, beatVars, status>>

AnswerLost(a) ==
  /\ pc[a] = "await"
  /\ Grant(a)
  /\ Fault("lost") /\ Goto(a, "failed")
  /\ UNCHANGED <<complaints, storeVars, link, cid, procVars, had, beatVars, status>>

(* A cluster id the control plane does not know gets a "not registered"    *)
(* message and no answer.                                                  *)
Complain == complaints' = IF complaints < MaxPending THEN complaints + 1 ELSE complaints

AnswerRefuses(a) ==
  /\ pc[a] = "await" /\ link.state = "up"
  /\ had[a] \notin known \cup {NoId, Unread}
  /\ Complain
  /\ Goto(a, "rejected") /\ Fine
  /\ UNCHANGED <<serverVars, storeVars, link, cid, procVars, regVars, beatVars, status>>

(* The answer does not come within the 30 s of register().  By then the    *)
(* goroutine of a message that came instead has cleared the cluster id,    *)
(* which matters when a failed Start is about to end the process.          *)
AwaitEnds(a) ==
  /\ \/ pc[a] = "await" /\ link.state # "up"
     \/ pc[a] = "rejected" /\ (starting => complaints = 0 /\ pc["error"] # "clear")
  /\ Goto(a, "failed") /\ Fine
  /\ UNCHANGED <<serverVars, complaints, storeVars, link, cid, procVars, regVars,
                 beatVars, status>>

(* RegisterAgent: the controller's client is closed before the gateway is  *)
(* dialled, and stays in c.wsClient when that fails.                       *)
SwapCloses(a) ==
  /\ pc[a] = "swap"
  /\ link' = [link EXCEPT !.state = "dead"]
  /\ Goto(a, "dial") /\ Fine
  /\ UNCHANGED <<serverVars, complaints, storeVars, cid, procVars, regVars, beatVars, status>>

SwapDials(a) ==
  /\ pc[a] = "dial"
  /\ \/ link' = Link("gateway", "up") /\ Goto(a, "saveurl") /\ Fine
     \/ Fault("dial") /\ Goto(a, "failed") /\ UNCHANGED link
  /\ UNCHANGED <<serverVars, complaints, storeVars, cid, procVars, regVars, beatVars, status>>

SaveURL(a) ==
  /\ pc[a] = "saveurl"
  /\ Saves(a, [held[a] EXCEPT !.url = TRUE]) /\ Goto(a, "setid")

(* The answer may bring a token, which is saved last.                      *)
IdKept(a) == \E next \in {"ok", "newtoken"} : Goto(a, next)

SetId(a) ==
  /\ pc[a] = "setid"
  /\ cid' = got[a]
  /\ \/ got[a] # had[a] /\ Goto(a, "saveid")
     \/ got[a] = had[a] /\ IdKept(a)
  /\ Fine
  /\ UNCHANGED <<serverVars, complaints, storeVars, link, procVars, regVars, beatVars, status>>

SaveId(a) ==
  /\ pc[a] = "saveid"
  /\ Saves(a, [held[a] EXCEPT !.id = got[a]]) /\ IdKept(a)

Register(a) ==
  \/ LoadToken(a) \/ LoadCertificate(a) \/ SaveCredential(a) \/ LoadState(a)
  \/ LoadURL(a) \/ ResumeCloses(a) \/ ResumeDials(a) \/ EnsureLink(a)
  \/ SendRegister(a) \/ Answered(a) \/ AnswerLost(a) \/ AnswerRefuses(a)
  \/ AwaitEnds(a) \/ SwapCloses(a) \/ SwapDials(a) \/ SaveURL(a)
  \/ SetId(a) \/ SaveId(a) \/ SaveLoads(a)

-----------------------------------------------------------------------------
(* The heartbeat loop.                                                     *)

(* sendHeartbeatWithRetry and handleHeartbeatFailure.                      *)
AttemptFails ==
  \/ /\ attempt < MaxAttempts
     /\ attempt' = attempt + 1 /\ status' = "reconnecting"
     /\ Goto("beat", "check")
     /\ UNCHANGED fails
  \/ /\ attempt = MaxAttempts
     /\ attempt' = 1
     /\ fails' = IF fails < Threshold THEN fails + 1 ELSE Threshold
     /\ status' = IF fails' = Threshold THEN "disconnected" ELSE status
     /\ Goto("beat", "tick")

(* handleHeartbeatSuccess.                                                 *)
BeatSucceeds == /\ attempt' = 1 /\ fails' = 0 /\ status' = "connected"
                /\ Goto("beat", "tick")

(* A tick is skipped while the connection is not up.                       *)
BeatTick ==
  /\ pc["beat"] = "tick"
  /\ link.mode = "absent" \/ link.state = "up"
  /\ Goto("beat", "check") /\ Fine
  /\ UNCHANGED <<serverVars, complaints, storeVars, link, cid, procVars, regVars,
                 beatVars, status>>

(* sendHeartbeat: nothing is sent without a client or, as long as another  *)
(* goroutine re-registers, without a cluster id; both count as success.    *)
BeatSkips ==
  /\ pc["beat"] = "check"
  /\ link.mode = "absent" \/ (cid = NoId /\ rereg)
  /\ BeatSucceeds /\ Fine
  /\ UNCHANGED <<serverVars, complaints, storeVars, link, cid, procVars, regVars, beatId>>

BeatChecks ==
  /\ pc["beat"] = "check" /\ link.mode # "absent"
  /\ \/ cid = NoId /\ ~rereg /\ Goto("beat", "enter")
     \/ cid # NoId /\ Goto("beat", "build")
  /\ Fine
  /\ UNCHANGED <<serverVars, complaints, storeVars, link, cid, procVars, regVars,
                 beatVars, status>>

(* The heartbeat is filled in after the cluster's metrics are collected.   *)
BeatBuilds ==
  /\ pc["beat"] = "build"
  /\ beatId' = cid
  /\ Goto("beat", "beat") /\ Fine
  /\ UNCHANGED <<serverVars, complaints, storeVars, link, cid, procVars, regVars,
                 attempt, fails, status>>

(* The control plane answers only a cluster id it does not know.           *)
ComplainOf(id) == IF id \notin known \cup {NoId} THEN Complain ELSE UNCHANGED complaints

BeatSends ==
  /\ pc["beat"] = "beat"
  /\ \/ link.state = "up" /\ ComplainOf(beatId) /\ BeatSucceeds
     \/ link.state # "up" /\ AttemptFails /\ UNCHANGED complaints
  /\ Fine
  /\ UNCHANGED <<serverVars, storeVars, link, cid, procVars, regVars, beatId>>

-----------------------------------------------------------------------------
(* What each caller does when register() returns.                          *)

RegisterEnded(a) == pc[a] \in {"ok", "skipped", "failed"}

(* Start: a failed registration ends the process, and a new one follows.   *)
StartEnds ==
  /\ RegisterEnded("beat") /\ starting
  /\ Fine
  /\ \/ pc["beat"] = "failed" /\ Boot
     \/ /\ pc["beat"] # "failed"
        /\ starting' = FALSE
        /\ status' = IF pc["beat"] = "ok" THEN "connected" ELSE status
        /\ Goto("beat", "check")
        /\ UNCHANGED <<serverVars, complaints, storeVars, link, cid, rereg, fresh,
                       creds, changed, regVars, beatVars>>

(* sendHeartbeat: the heartbeat follows, if there is a cluster id now.     *)
BeatRegistered ==
  /\ RegisterEnded("beat") /\ ~starting
  /\ \/ /\ pc["beat"] # "failed" /\ cid # NoId
        /\ status' = IF pc["beat"] = "ok" THEN "connected" ELSE status
        /\ Goto("beat", "build")
        /\ UNCHANGED <<attempt, fails>>
     \/ (pc["beat"] = "failed" \/ cid = NoId) /\ AttemptFails
  /\ Fine
  /\ UNCHANGED <<serverVars, complaints, storeVars, link, cid, procVars, regVars, beatId>>

ReregEnds(a) ==
  /\ a # "beat" /\ RegisterEnded(a)
  /\ rereg' = FALSE
  /\ status' = IF pc[a] = "ok" THEN "connected" ELSE status
  /\ Goto(a, "off") /\ Fine
  /\ UNCHANGED <<serverVars, complaints, storeVars, link, cid, fresh, creds, changed,
                 starting, regVars, beatVars>>

-----------------------------------------------------------------------------
(* handleRegistrationError: a goroutine per message.                       *)
ComplaintArrives ==
  /\ complaints > 0
  /\ complaints' = complaints - 1
  /\ \/ rereg /\ UNCHANGED <<rereg, cid, pc>>
     \/ ~rereg /\ rereg' = TRUE /\ cid' = NoId /\ Goto("error", "clear")
  /\ Fine
  /\ UNCHANGED <<serverVars, storeVars, link, fresh, creds, changed, starting, regVars,
                 beatVars, status>>

(* Mutant: the rejected cluster id stays in the store.                     *)
KeepStored ==
  /\ pc["error"] = "clear"
  /\ Saves("error", held["error"]) /\ Goto("error", "enter")

(* ClearClusterID does not hold registerMutex.                             *)
ClearStored ==
  /\ pc["error"] = "clear"
  /\ Saves("error", [held["error"] EXCEPT !.id = NoId]) /\ Goto("error", "enter")

(* handleControlPlaneReconnect.  On a gateway one heartbeat is sent; on    *)
(* the controller an agent without a cluster id registers.                 *)
Greet ==
  /\ pc["greet"] = "greet"
  /\ \/ /\ link.mode = "gateway"
        /\ IF link.state = "up" THEN ComplainOf(cid) ELSE UNCHANGED complaints
        /\ Goto("greet", "off") /\ UNCHANGED rereg
     \/ /\ link.mode # "gateway" /\ (cid # NoId \/ rereg)
        /\ Goto("greet", "off") /\ UNCHANGED <<rereg, complaints>>
     \/ /\ link.mode # "gateway" /\ cid = NoId /\ ~rereg
        /\ rereg' = TRUE
        /\ Goto("greet", "enter") /\ UNCHANGED complaints
  /\ Fine
  /\ UNCHANGED <<serverVars, storeVars, link, cid, fresh, creds, changed, starting,
                 regVars, beatVars, status>>

-----------------------------------------------------------------------------
(* The environment.                                                        *)

LinkDrops ==
  /\ link.state = "up"
  /\ link' = [link EXCEPT !.state = "down"]
  /\ Fault("drop")
  /\ UNCHANGED <<serverVars, complaints, storeVars, cid, procVars, pc, regVars,
                 beatVars, status>>

(* reconnectLoop succeeds and starts handleControlPlaneReconnect.  Bound:  *)
(* one such handler at a time.                                             *)
LinkRestored ==
  /\ link.mode \in {"controller", "gateway"} /\ link.state = "down"
  /\ pc["greet"] = "off"
  /\ link' = [link EXCEPT !.state = "up"]
  /\ Goto("greet", "greet") /\ Fine
  /\ UNCHANGED <<serverVars, complaints, storeVars, cid, procVars, regVars, beatVars, status>>

(* reconnectLoop ends on a 401 or 403 and calls the handler of             *)
(* registration errors.                                                    *)
LinkRefused ==
  /\ link.mode \in {"controller", "gateway"} /\ link.state = "down"
  /\ link' = [link EXCEPT !.state = "dead"]
  /\ Complain
  /\ Fault("refuse")
  /\ UNCHANGED <<serverVars, storeVars, cid, procVars, pc, regVars, beatVars, status>>

ServerForgets ==
  /\ \E id \in known : known' = known \ {id}
  /\ Fault("forget")
  /\ UNCHANGED <<minted, complaints, storeVars, link, cid, procVars, pc, regVars,
                 beatVars, status>>

Crash == Fault("crash") /\ Boot

Beat == OpenState \/ SaveAgentID \/ Connect \/ BeatTick \/ BeatSkips \/ BeatChecks \/ BeatBuilds \/ BeatSends
        \/ StartEnds \/ BeatRegistered

Next ==
  \/ \E a \in Actors : Enter(a) \/ Register(a) \/ ReregEnds(a)
  \/ Beat \/ ComplaintArrives \/ ClearStored \/ Greet
  \/ LinkDrops \/ LinkRestored \/ LinkRefused \/ ServerForgets \/ Crash

Spec == Init /\ [][Next]_vars

(* Goroutines run, registerMutex is fair, calls end, messages arrive, and  *)
(* a connection that is down and not refused comes back.                   *)
Fairness ==
  /\ \A a \in Actors : SF_vars(Enter(a)) /\ WF_vars(Register(a)) /\ WF_vars(ReregEnds(a))
  /\ WF_vars(Beat) /\ SF_vars(BeatTick)
  /\ WF_vars(ComplaintArrives) /\ WF_vars(ClearStored) /\ WF_vars(Greet)
  /\ WF_vars(LinkRestored)

FairSpec == Spec /\ Fairness

-----------------------------------------------------------------------------
(* While the store holds a cluster the control plane knows, no goroutine   *)
(* makes it create another one, however Start, the heartbeat loop, the two *)
(* handlers and the saves overlap (registerMutex, line 844), except one    *)
(* that could not read the id it had to send (lines 868-881).              *)
NoTwinClusters ==
  [][minted' # minted =>
       \/ store.id \notin known
       \/ \E a \in Actors :
            pc[a] = "await" /\ pc'[a] # "await" /\ had[a] = Unread]_vars

(* A working gateway connection is not torn down by a registration (the    *)
(* race described at lines 847-850); only a restart ends it.               *)
Rebooted == starting' /\ pc'["beat"] = "new"
GatewayKept ==
  [][link = Link("gateway", "up") =>
       link' \in {link, Link("gateway", "down")} \/ Rebooted]_vars

(* An agent without a cluster, or with one the control plane has lost,     *)
(* gets one, unless it has no client, is on a gateway, or its connection   *)
(* to the controller was refused: then nothing makes it register again     *)
(* (register, RegisterAgent, startHeartbeat).  So the flag that makes the  *)
(* others give up is released each time.                                   *)
Stuck == link.mode \in {"absent", "gateway"} \/ link = Link("controller", "dead")
HealsOnController == (cid \notin known) ~> (cid \in known \/ Stuck)

-----------------------------------------------------------------------------
(* What comments of the source say and the code does not do.               *)

(* "Cluster ID persisted to state - will prevent re-registration on        *)
(* restart" (agent.go:1068): a failed read of it does not prevent it.      *)
NeverTwin == [][minted' # minted => store.id \notin known]_vars

(* "Cleared invalid cluster_id from state - will register as new cluster"  *)
(* (agent.go:2195): an agent whose cluster was lost gets one, whatever it  *)
(* is connected to.                                                        *)
Heals == (cid \notin known) ~> (cid \in known)
=============================================================================
