-------------------------- MODULE PersistenceProofs --------------------------
(***************************************************************************)
(* What outlives a process of the agent: the state it saved (StateStore)   *)
(* and what it installed in the cluster (Bootstrap, on top of Helm). The   *)
(* proofs hold for any fields, values, savers, releases, configured steps  *)
(* and bounds.                                                             *)
(*                                                                         *)
(* The store: the cache is current whatever the savers do and whichever    *)
(* calls fail. CopyFresh says how old each saver's copy is: it holds the   *)
(* stored value of every field it is not behind on. From it follow that a  *)
(* save writes a snapshot, and that what was acknowledged is lost only to  *)
(* a copy that was behind (AckedStored).                                   *)
(*                                                                         *)
(* The bootstrap: HelmInv says what a call of the installer knows of its   *)
(* release at each of its steps, and what it returns (CallReturned); it is *)
(* kept by the installer alone (HelmKeeps). CallPlaces says which call     *)
(* belongs to which step of the plan, so that PlanDone can say that each   *)
(* step left behind is accounted for.                                      *)
(***************************************************************************)
EXTENDS StateStore, Bootstrap, TLAPS

(* sm.mu is held exactly while its holder is between the two writes.       *)
Locking ==
  /\ \A s \in Savers : pc[s] \in {"configmap", "secret"} <=> mu = s
  /\ mu # Nobody => mode = "kube"

(* Between the two writes the ConfigMap is the one being saved.            *)
HalfSaved ==
  \A s \in Savers : pc[s] = "secret" =>
    \A f \in ConfigFields : disk[f] = copy[s][f]

NowhereBlank == mode = "none" => disk = Blank /\ cache = Blank /\ stale

CacheInv == Locking /\ HalfSaved /\ NowhereBlank /\ CacheCurrent

Requested == \A s \in Savers :
  /\ want[s] = NoSave <=> pc[s] = "idle"
  /\ copy[s] = NoSave <=> pc[s] \in {"idle", "load"}

(* What a copy holds: the value being saved, and the stored values of all  *)
(* other fields but the ones it is behind on.                              *)
CopyFresh ==
  \A s \in Savers : copy[s] # NoSave =>
    /\ copy[s][want[s].field] = want[s].value
    /\ \A f \in Fields :
         f # want[s].field /\ f \notin behind[s] => copy[s][f] = disk[f]

(* What was acknowledged is stored, but for the field being written and    *)
(* the fields overwritten from a copy that was behind.                     *)
AckedStored ==
  \A f \in Fields : mode # "none" /\ acked[f] # Unknown /\ f \notin lost =>
    \/ disk[f] = acked[f]
    \/ \E s \in Savers : mu = s /\ want[s].field = f

StoreInv == TypeOK /\ Requested /\ CacheInv /\ CopyFresh

-----------------------------------------------------------------------------
(* A saver rewrites a part of the stored state: what it asked for, and the *)
(* types of what it writes.                                                *)
LEMMA SaverKnows ==
  ASSUME TypeOK, Requested, NEW s \in Savers, pc[s] # "idle"
  PROVE  want[s].field \in Fields /\ want[s].value \in Values
  BY StoreAssumption DEF TypeOK, Requested

LEMMA RewrittenTyped ==
  ASSUME TypeOK, Requested, NEW s \in Savers, pc[s] \notin {"idle", "load"},
         NEW part \in SUBSET Fields, Rewritten(part, s)
  PROVE  /\ disk' \in States
         /\ behind' \in [Savers -> SUBSET Fields]
         /\ lost' \in SUBSET Fields
<1>1. want[s].field \in Fields /\ copy[s] \in States /\ behind[s] \in SUBSET Fields
  BY SaverKnows, StoreAssumption DEF TypeOK, Requested
<1>2. Overlay(part, s) \in States
  BY <1>1 DEF Overlay, TypeOK, States
<1>3. QED
  BY <1>1, <1>2 DEF Rewritten, TypeOK

LEMMA PartsAreFields == /\ {} \in SUBSET Fields /\ Fields \in SUBSET Fields
                        /\ ConfigFields \in SUBSET Fields
                        /\ SecretFields \in SUBSET Fields
  BY DEF Fields

(* Every variable keeps its type through each step of Load and Save.       *)
LEMMA TypeStep == TypeOK /\ Requested /\ Locking /\ [Next]_vars => TypeOK' /\ Requested'
<1> SUFFICES ASSUME TypeOK, Requested, Locking, [Next]_vars PROVE TypeOK' /\ Requested'
  OBVIOUS
<1> USE StoreAssumption DEF TypeOK, Requested, Locking
<1>0. /\ \A s \in Savers : pc[s] # "idle" =>
           want[s].field \in Fields /\ want[s].value \in Values
      /\ Blank \in States /\ NoSave \notin States
  BY SaverKnows DEF Blank, States
<1>1. ASSUME NEW s \in Savers, BeginSave(s) PROVE TypeOK' /\ Requested'
  BY <1>1 DEF BeginSave, history
<1>2. ASSUME NEW s \in Savers, LoadState(s) PROVE TypeOK' /\ Requested'
  <2>1. \E state \in States, missed \in SUBSET Fields : Taken(state, s, missed)
    BY <1>2, <1>0, PartsAreFields DEF LoadState, Loaded
  <2>2. PICK state \in States, missed \in SUBSET Fields : Taken(state, s, missed)
    BY <2>1
  <2>3. Changed(state, s) \in States
    BY <2>2, <1>0 DEF Changed, States, Taken
  <2>4. cache' \in States /\ stale' \in BOOLEAN
    BY <1>2 DEF LoadState, Cached
  <2>5. behind' \in [Savers -> SUBSET Fields] /\ copy' \in [Savers -> States \cup {NoSave}]
    BY <2>2, <2>3 DEF Taken
  <2>6. Requested'
    BY <1>0, <2>2, <2>3 DEF Taken
  <2>7. QED
    BY <2>2, <2>4, <2>5, <2>6 DEF Taken
<1>3. ASSUME NEW s \in Savers, LoadFails(s) PROVE TypeOK' /\ Requested'
  <2>1. \E state \in States, missed \in SUBSET Fields : Taken(state, s, missed)
    BY <1>3, <1>0, PartsAreFields DEF LoadFails, Loaded
  <2>2. PICK state \in States, missed \in SUBSET Fields : Taken(state, s, missed)
    BY <2>1
  <2>3. Changed(state, s) \in States
    BY <2>2, <1>0 DEF Changed, States, Taken
  <2>4. cache' \in States /\ stale' \in BOOLEAN
    BY <1>3 DEF LoadFails, Cached
  <2>5. behind' \in [Savers -> SUBSET Fields] /\ copy' \in [Savers -> States \cup {NoSave}]
    BY <2>2, <2>3 DEF Taken
  <2>6. Requested'
    BY <1>0, <2>2, <2>3 DEF Taken
  <2>7. QED
    BY <2>2, <2>4, <2>5, <2>6 DEF Taken
<1>4. ASSUME NEW s \in Savers, SaveNowhere(s) PROVE TypeOK' /\ Requested'
  <2> USE <1>4 DEF SaveNowhere, Cached, SaveFails, Return, Reported
  <2>1. want[s].field \in Fields /\ want[s].value \in Values /\ copy[s] \in States
    BY <1>0
  <2>2. \E part \in SUBSET Fields : Rewritten(part, s)
    BY PartsAreFields
  <2>3. disk' \in States /\ behind' \in [Savers -> SUBSET Fields] /\ lost' \in SUBSET Fields
    BY <2>2, RewrittenTyped
  <2>4. cache' \in States /\ stale' \in BOOLEAN /\ mode' \in Modes
    BY <2>1
  <2>5. acked' \in [Fields -> Values \cup {Unknown}]
    BY <2>1
  <2>6. /\ pc' \in [Savers -> {"idle", "load", "save", "configmap", "secret"}]
        /\ mu' \in Savers \cup {Nobody}
        /\ want' \in [Savers -> [field : Fields, value : Values] \cup {NoSave}]
        /\ copy' \in [Savers -> States \cup {NoSave}]
    OBVIOUS
  <2>7. Requested'
    OBVIOUS
  <2>8. QED
    BY <2>3, <2>4, <2>5, <2>6, <2>7
<1>5. ASSUME NEW s \in Savers, SaveFile(s) PROVE TypeOK' /\ Requested'
  <2> USE <1>5 DEF SaveFile, Cached, SaveFails, Return, Reported
  <2>1. want[s].field \in Fields /\ want[s].value \in Values /\ copy[s] \in States
    BY <1>0
  <2>2. \E part \in SUBSET Fields : Rewritten(part, s)
    BY PartsAreFields
  <2>3. disk' \in States /\ behind' \in [Savers -> SUBSET Fields] /\ lost' \in SUBSET Fields
    BY <2>2, RewrittenTyped
  <2>4. cache' \in States /\ stale' \in BOOLEAN /\ mode' \in Modes
    BY <2>1
  <2>5. acked' \in [Fields -> Values \cup {Unknown}]
    BY <2>1
  <2>6. /\ pc' \in [Savers -> {"idle", "load", "save", "configmap", "secret"}]
        /\ mu' \in Savers \cup {Nobody}
        /\ want' \in [Savers -> [field : Fields, value : Values] \cup {NoSave}]
        /\ copy' \in [Savers -> States \cup {NoSave}]
    OBVIOUS
  <2>7. Requested'
    OBVIOUS
  <2>8. QED
    BY <2>3, <2>4, <2>5, <2>6, <2>7
<1>6. ASSUME NEW s \in Savers, SaveLocks(s) PROVE TypeOK' /\ Requested'
  BY <1>6 DEF SaveLocks, history
<1>7. ASSUME NEW s \in Savers, WriteConfigMap(s) PROVE TypeOK' /\ Requested'
  <2> USE <1>7 DEF WriteConfigMap, Cached, SaveFails, Return, Reported
  <2>1. want[s].field \in Fields /\ want[s].value \in Values /\ copy[s] \in States
    BY <1>0
  <2>2. \E part \in SUBSET Fields : Rewritten(part, s)
    BY PartsAreFields
  <2>3. disk' \in States /\ behind' \in [Savers -> SUBSET Fields] /\ lost' \in SUBSET Fields
    BY <2>2, RewrittenTyped
  <2>4. cache' \in States /\ stale' \in BOOLEAN /\ mode' \in Modes
    BY <2>1
  <2>5. acked' \in [Fields -> Values \cup {Unknown}]
    BY <2>1
  <2>6. /\ pc' \in [Savers -> {"idle", "load", "save", "configmap", "secret"}]
        /\ mu' \in Savers \cup {Nobody}
        /\ want' \in [Savers -> [field : Fields, value : Values] \cup {NoSave}]
        /\ copy' \in [Savers -> States \cup {NoSave}]
    OBVIOUS
  <2>7. Requested'
    OBVIOUS
  <2>8. QED
    BY <2>3, <2>4, <2>5, <2>6, <2>7
<1>8. ASSUME NEW s \in Savers, WriteSecret(s) PROVE TypeOK' /\ Requested'
  <2> USE <1>8 DEF WriteSecret, Cached, SaveFails, Return, Reported
  <2>1. want[s].field \in Fields /\ want[s].value \in Values /\ copy[s] \in States
    BY <1>0
  <2>2. \E part \in SUBSET Fields : Rewritten(part, s)
    BY PartsAreFields
  <2>3. disk' \in States /\ behind' \in [Savers -> SUBSET Fields] /\ lost' \in SUBSET Fields
    BY <2>2, RewrittenTyped
  <2>4. cache' \in States /\ stale' \in BOOLEAN /\ mode' \in Modes
    BY <2>1
  <2>5. acked' \in [Fields -> Values \cup {Unknown}]
    BY <2>1
  <2>6. /\ pc' \in [Savers -> {"idle", "load", "save", "configmap", "secret"}]
        /\ mu' \in Savers \cup {Nobody}
        /\ want' \in [Savers -> [field : Fields, value : Values] \cup {NoSave}]
        /\ copy' \in [Savers -> States \cup {NoSave}]
    OBVIOUS
  <2>7. Requested'
    OBVIOUS
  <2>8. QED
    BY <2>3, <2>4, <2>5, <2>6, <2>7
<1>9. ASSUME ReadField PROVE TypeOK' /\ Requested'
  BY <1>9 DEF ReadField, Cached, history
<1>10. ASSUME Crash PROVE TypeOK' /\ Requested'
  BY <1>10, <1>0 DEF Crash
<1>11. CASE UNCHANGED vars
  BY <1>11 DEF vars, history
<1>12. QED
  BY <1>1, <1>2, <1>3, <1>4, <1>5, <1>6, <1>7, <1>8, <1>9, <1>10, <1>11
     DEF Next, Save

(* Steps of Load and Save keep mutex, half-written state and cache in      *)
(* agreement.                                                              *)
LEMMA CacheStep == TypeOK /\ Requested /\ CacheInv /\ [Next]_vars => CacheInv'
<1> SUFFICES ASSUME TypeOK, Requested, CacheInv, [Next]_vars PROVE CacheInv'
  OBVIOUS
<1> USE StoreAssumption DEF TypeOK, States, Blank, Requested, CacheInv, Locking, HalfSaved,
        NowhereBlank, CacheCurrent, Loaded, Fields
<1>1. ASSUME NEW s \in Savers, BeginSave(s) PROVE CacheInv'
  BY <1>1 DEF BeginSave, history
<1>2. ASSUME NEW s \in Savers, LoadState(s) PROVE CacheInv'
  BY <1>2 DEF LoadState, Taken, Changed, Cached, Loaded, Return, Reported, Rewritten, SaveFails, Overlay
<1>3. ASSUME NEW s \in Savers, LoadFails(s) PROVE CacheInv'
  BY <1>3 DEF LoadFails, Taken, Changed, Cached, Loaded, Return, Reported, Rewritten, SaveFails, Overlay
<1>4. ASSUME NEW s \in Savers, SaveNowhere(s) PROVE CacheInv'
  <2>1. disk' = disk
    BY <1>4 DEF SaveNowhere, Rewritten, Overlay
  <2>2. QED
    BY <1>4, <2>1 DEF SaveNowhere, Return
<1>5. ASSUME NEW s \in Savers, SaveFile(s) PROVE CacheInv'
  <2>0. /\ Rewritten(Fields, s) => disk' = copy[s]
        /\ Rewritten({}, s) => disk' = disk
    BY <1>5 DEF SaveFile, Rewritten, Overlay
  <2>1. CASE Rewritten(Fields, s) /\ Cached(copy[s])
    BY <1>5, <2>0, <2>1 DEF SaveFile, Return, Cached
  <2>2. CASE Rewritten({}, s) /\ UNCHANGED <<cache, stale, acked>>
    BY <1>5, <2>0, <2>2 DEF SaveFile, Return
  <2>3. QED
    BY <1>5, <2>1, <2>2 DEF SaveFile
<1>6. ASSUME NEW s \in Savers, SaveLocks(s) PROVE CacheInv'
  BY <1>6 DEF SaveLocks, history
<1>7. ASSUME NEW s \in Savers, WriteConfigMap(s) PROVE CacheInv'
  <2> USE <1>7 DEF WriteConfigMap
  <2>1. mode' = "kube" /\ mode = "kube" /\ mu = s
    OBVIOUS
  <2>2. CASE /\ pc' = [pc EXCEPT ![s] = "secret"]
             /\ UNCHANGED <<mu, want, copy, acked, stale>>
             /\ Rewritten(ConfigFields, s)
    <3>1. (Locking /\ NowhereBlank /\ CacheCurrent)'
      BY <2>1, <2>2
    <3>2. \A f \in ConfigFields : disk'[f] = copy[s][f]
      BY <2>2 DEF Rewritten, Overlay
    <3>3. HalfSaved'
      BY <2>1, <2>2, <3>2
    <3>4. QED
      BY <3>1, <3>3
  <2>3. CASE SaveFails(s)
    BY <2>1, <2>3 DEF SaveFails, Return
  <2>4. QED
    BY <2>2, <2>3
<1>8. ASSUME NEW s \in Savers, WriteSecret(s) PROVE CacheInv'
  <2> USE <1>8 DEF WriteSecret, Cached
  <2>1. \A t \in Savers : t # s => pc[t] \notin {"configmap", "secret"}
    OBVIOUS
  <2>2. /\ mu' = Nobody /\ pc' = [pc EXCEPT ![s] = "idle"] /\ mode' = "kube"
        /\ copy' = [copy EXCEPT ![s] = NoSave]
    BY DEF SaveFails, Return
  <2>3. (Locking /\ HalfSaved /\ NowhereBlank)'
    BY <2>1, <2>2
  <2>4. Overlay(SecretFields, s) = copy[s]
    BY DEF Overlay
  <2>5. stale' \/ (disk' = copy[s] /\ cache' = copy[s])
    BY <2>4 DEF SaveFails, Rewritten
  <2>6. QED
    BY <2>2, <2>3, <2>5
<1>9. ASSUME ReadField PROVE CacheInv'
  BY <1>9 DEF ReadField, Cached
<1>10. ASSUME Crash PROVE CacheInv'
  BY <1>10 DEF Crash
<1>11. CASE UNCHANGED vars
  BY <1>11 DEF vars, history
<1>12. QED
  BY <1>1, <1>2, <1>3, <1>4, <1>5, <1>6, <1>7, <1>8, <1>9, <1>10, <1>11
     DEF Next, Save

(* A rewrite is new to every copy it could make old.                       *)
LEMMA RewrittenFresh ==
  ASSUME TypeOK, Requested, CopyFresh, NEW s \in Savers, pc[s] \notin {"idle", "load"},
         NEW part \in SUBSET Fields, Rewritten(part, s),
         \A t \in Savers : copy'[t] # NoSave => copy'[t] = copy[t] /\ want'[t] = want[t]
  PROVE  CopyFresh'
<1>1. copy[s] \in States /\ disk \in States /\ want[s].field \in Fields
  BY SaverKnows, StoreAssumption DEF TypeOK, Requested
<1>2. SUFFICES ASSUME NEW t \in Savers, copy'[t] # NoSave
               PROVE  /\ copy[t][want[t].field] = want[t].value
                      /\ \A f \in Fields : f # want[t].field /\ f \notin behind'[t] =>
                           copy[t][f] = disk'[f]
  BY DEF CopyFresh
<1>3. behind'[t] = IF t = s THEN behind[s]
                   ELSE behind[t] \cup (part \cap ({want[s].field} \cup behind[s]))
  BY <1>2 DEF Rewritten
<1>4. ASSUME NEW f \in Fields, f # want[t].field, f \notin behind'[t]
      PROVE  copy[t][f] = disk'[f]
  <2>1. f \notin behind[t] /\ copy[t][f] = disk[f]
    BY <1>2, <1>3, <1>4 DEF CopyFresh
  <2>2. CASE f \notin part
    BY <2>1, <2>2, <1>1 DEF Rewritten, Overlay, States
  <2>3. CASE f \in part /\ t = s
    BY <2>3, <1>1 DEF Rewritten, Overlay
  <2>4. CASE f \in part /\ t # s
    <3>1. f # want[s].field /\ f \notin behind[s]
      BY <2>4, <1>3, <1>4
    <3>2. copy[s][f] = disk[f]
      BY <3>1, StoreAssumption DEF CopyFresh, Requested
    <3>3. QED
      BY <2>1, <2>4, <3>2 DEF Rewritten, Overlay
  <2>5. QED
    BY <2>2, <2>3, <2>4
<1>5. QED
  BY <1>2, <1>4 DEF CopyFresh

(* A copy stays as old as it is known to be.                               *)
LEMMA FreshStep ==
  ASSUME TypeOK, Requested, CacheInv, CopyFresh, [Next]_vars
  PROVE  CopyFresh'
<1> USE StoreAssumption DEF TypeOK, Requested, CacheInv, Locking
<1>1. ASSUME NEW s \in Savers, BeginSave(s) PROVE CopyFresh'
  BY <1>1 DEF BeginSave, CopyFresh, history
<1>2. ASSUME NEW s \in Savers, LoadState(s) PROVE CopyFresh'
  <2>1. PICK state \in States, missed \in SUBSET Fields :
          /\ Taken(state, s, missed)
          /\ \A f \in Fields : f \notin missed => state[f] = disk[f]
    BY <1>2, PartsAreFields DEF LoadState, Loaded, NowhereBlank, Blank, States
  <2>2. want[s].field \in Fields /\ want[s].value \in Values
    BY <2>1, SaverKnows DEF Taken
  <2>3. QED
    BY <2>1, <2>2 DEF Taken, Changed, CopyFresh, States
<1>3. ASSUME NEW s \in Savers, LoadFails(s) PROVE CopyFresh'
  <2>1. PICK state \in States, missed \in SUBSET Fields :
          /\ Taken(state, s, missed)
          /\ \A f \in Fields : f \notin missed => state[f] = disk[f]
    <3>1. stale \/ cache = disk
      BY <1>3 DEF LoadFails, Taken, CacheCurrent, Loaded
    <3>2. QED
      BY <1>3, <3>1, PartsAreFields DEF LoadFails
  <2>2. want[s].field \in Fields /\ want[s].value \in Values
    BY <2>1, SaverKnows DEF Taken
  <2>3. QED
    BY <2>1, <2>2 DEF Taken, Changed, CopyFresh, States
<1>4. ASSUME NEW s \in Savers, SaveNowhere(s) PROVE CopyFresh'
  <2>1. /\ \E part \in SUBSET Fields : Rewritten(part, s)
        /\ pc[s] \notin {"idle", "load"}
        /\ \A t \in Savers : copy'[t] # NoSave => copy'[t] = copy[t] /\ want'[t] = want[t]
    BY <1>4, PartsAreFields DEF SaveNowhere, SaveFails, Return
  <2>2. QED
    BY <2>1, RewrittenFresh
<1>5. ASSUME NEW s \in Savers, SaveFile(s) PROVE CopyFresh'
  <2>1. /\ \E part \in SUBSET Fields : Rewritten(part, s)
        /\ pc[s] \notin {"idle", "load"}
        /\ \A t \in Savers : copy'[t] # NoSave => copy'[t] = copy[t] /\ want'[t] = want[t]
    BY <1>5, PartsAreFields DEF SaveFile, SaveFails, Return
  <2>2. QED
    BY <2>1, RewrittenFresh
<1>6. ASSUME NEW s \in Savers, SaveLocks(s) PROVE CopyFresh'
  BY <1>6 DEF SaveLocks, CopyFresh, history
<1>7. ASSUME NEW s \in Savers, WriteConfigMap(s) PROVE CopyFresh'
  <2>1. /\ \E part \in SUBSET Fields : Rewritten(part, s)
        /\ pc[s] \notin {"idle", "load"}
        /\ \A t \in Savers : copy'[t] # NoSave => copy'[t] = copy[t] /\ want'[t] = want[t]
    BY <1>7, PartsAreFields DEF WriteConfigMap, SaveFails, Return
  <2>2. QED
    BY <2>1, RewrittenFresh
<1>8. ASSUME NEW s \in Savers, WriteSecret(s) PROVE CopyFresh'
  <2>1. /\ \E part \in SUBSET Fields : Rewritten(part, s)
        /\ pc[s] \notin {"idle", "load"}
        /\ \A t \in Savers : copy'[t] # NoSave => copy'[t] = copy[t] /\ want'[t] = want[t]
    BY <1>8, PartsAreFields DEF WriteSecret, SaveFails, Return
  <2>2. QED
    BY <2>1, RewrittenFresh
<1>9. ASSUME ReadField PROVE CopyFresh'
  BY <1>9 DEF ReadField, CopyFresh, history
<1>10. ASSUME Crash PROVE CopyFresh'
  BY <1>10 DEF Crash, CopyFresh
<1>11. CASE UNCHANGED vars
  BY <1>11 DEF vars, history, CopyFresh
<1>12. QED
  BY <1>1, <1>2, <1>3, <1>4, <1>5, <1>6, <1>7, <1>8, <1>9, <1>10, <1>11
     DEF Next, Save

(* Every step is a step of FieldStore or a stutter.                        *)
LEMMA ContractStep ==
  ASSUME TypeOK, Requested, CacheInv, CopyFresh, [Next]_vars
  PROVE  [Contract!Next]_Contract!storeVars
<1> USE StoreAssumption DEF TypeOK, Requested, CacheInv, Locking, Contract!Next
<1>1. ASSUME NEW s \in Savers, BeginSave(s) PROVE [Contract!Next]_Contract!storeVars
  BY <1>1 DEF BeginSave, Contract!Begin, history
<1>2. ASSUME NEW s \in Savers, LoadState(s) PROVE [Contract!Next]_Contract!storeVars
  <2>1. Contract!TakeFrom(Loaded, s)
    BY <1>2 DEF LoadState, Taken, Changed, Contract!TakeFrom
  <2>2. Loaded = disk /\ (~stale)' \in {~stale, TRUE}
    BY <1>2 DEF LoadState, Loaded, NowhereBlank, Cached
  <2>3. QED
    BY <2>1, <2>2 DEF Contract!Take
<1>3. ASSUME NEW s \in Savers, LoadFails(s) PROVE [Contract!Next]_Contract!storeVars
  <2>1. Contract!TakeFrom(cache, s) /\ UNCHANGED stale
    BY <1>3 DEF LoadFails, Taken, Changed, Contract!TakeFrom
  <2>2. CASE stale
    BY <2>1, <2>2 DEF States, Contract!Guess
  <2>3. CASE ~stale
    <3>1. cache = disk
      BY <1>3, <2>3 DEF LoadFails, Taken, CacheCurrent, Loaded
    <3>2. QED
      BY <2>1, <3>1 DEF Contract!Take
  <2>4. QED
    BY <2>2, <2>3
<1>4. ASSUME NEW s \in Savers, SaveNowhere(s) PROVE [Contract!Next]_Contract!storeVars
  <2>1. Contract!Ends(s) /\ UNCHANGED stale
    BY <1>4 DEF SaveNowhere, Return, Contract!Ends
  <2>2. disk' = disk
    BY <1>4 DEF SaveNowhere, Rewritten, Overlay, States
  <2>3. QED
    BY <2>1, <2>2 DEF Contract!Fail
<1>5. ASSUME NEW s \in Savers, SaveFile(s) PROVE [Contract!Next]_Contract!storeVars
  <2>1. Contract!Ends(s)
    BY <1>5 DEF SaveFile, Return, Contract!Ends
  <2>2. CASE Rewritten(Fields, s) /\ Cached(copy[s])
    <3>1. disk' = copy[s]
      BY <2>2, <1>5 DEF SaveFile, Rewritten, Overlay, States
    <3>2. QED
      BY <2>1, <2>2, <3>1 DEF Contract!Succeed, Cached
  <2>3. CASE Rewritten({}, s) /\ UNCHANGED stale
    <3>1. disk' = disk
      BY <2>3 DEF Rewritten, Overlay, States
    <3>2. QED
      BY <2>1, <2>3, <3>1 DEF Contract!Fail
  <2>4. QED
    BY <1>5, <2>2, <2>3 DEF SaveFile
<1>6. ASSUME NEW s \in Savers, SaveLocks(s) PROVE [Contract!Next]_Contract!storeVars
  BY <1>6 DEF SaveLocks, Contract!storeVars, history
<1>7. ASSUME NEW s \in Savers, WriteConfigMap(s) PROVE [Contract!Next]_Contract!storeVars
  <2>1. \A part : Rewritten(part, s) => disk' = Contract!With(part, s)
    BY DEF Rewritten, Overlay, Contract!With
  <2>2. copy[s] # NoSave
    BY <1>7 DEF WriteConfigMap
  <2>3. CASE UNCHANGED <<want, copy, stale>> /\ Rewritten(ConfigFields, s)
    BY <2>1, <2>2, <2>3, PartsAreFields DEF Contract!Store
  <2>4. CASE SaveFails(s) /\ \E part \in {{}, ConfigFields} : Rewritten(part, s)
    <3>1. Contract!Ends(s) /\ (~stale)' = FALSE
      BY <2>2, <2>4 DEF SaveFails, Return, Contract!Ends
    <3>2. QED
      BY <2>1, <2>4, <3>1, PartsAreFields DEF Contract!Fail
  <2>5. QED
    BY <1>7, <2>3, <2>4 DEF WriteConfigMap
<1>8. ASSUME NEW s \in Savers, WriteSecret(s) PROVE [Contract!Next]_Contract!storeVars
  <2>1. \A part : Rewritten(part, s) => disk' = Contract!With(part, s)
    BY DEF Rewritten, Overlay, Contract!With
  <2>2. copy[s] # NoSave
    BY <1>8 DEF WriteSecret
  <2>3. Contract!Ends(s)
    BY <1>8, <2>2 DEF WriteSecret, SaveFails, Return, Contract!Ends
  <2>4. CASE Rewritten(SecretFields, s) /\ Cached(copy[s])
    <3>1. disk' = copy[s]
      BY <2>2, <2>4, <1>8 DEF WriteSecret, Rewritten, Overlay, HalfSaved, Fields, States
    <3>2. QED
      BY <2>3, <2>4, <3>1 DEF Contract!Succeed, Cached
  <2>5. CASE SaveFails(s) /\ \E part \in {{}, SecretFields} : Rewritten(part, s)
    <3>1. (~stale)' = FALSE
      BY <2>5 DEF SaveFails
    <3>2. QED
      BY <2>1, <2>3, <2>5, <3>1, PartsAreFields DEF Contract!Fail
  <2>6. QED
    BY <1>8, <2>4, <2>5 DEF WriteSecret
<1>9. ASSUME ReadField PROVE [Contract!Next]_Contract!storeVars
  BY <1>9 DEF ReadField, Cached, Contract!Read, history
<1>10. ASSUME Crash PROVE [Contract!Next]_Contract!storeVars
  BY <1>10 DEF Crash, Contract!Crash
<1>11. CASE UNCHANGED vars
  BY <1>11 DEF vars, history, Contract!storeVars
<1>12. QED
  BY <1>1, <1>2, <1>3, <1>4, <1>5, <1>6, <1>7, <1>8, <1>9, <1>10, <1>11
     DEF Next, Save

(* What a rewrite does to a field: another field changes only when the     *)
(* copy was behind on it, and is then counted lost.                        *)
LEMMA RewrittenKeeps ==
  ASSUME TypeOK, Requested, CopyFresh, NEW s \in Savers, pc[s] \notin {"idle", "load"},
         NEW part \in SUBSET Fields, Rewritten(part, s), NEW f \in Fields, f \notin lost'
  PROVE  /\ f # want[s].field \/ f \notin part => f \notin lost /\ disk'[f] = disk[f]
         /\ f = want[s].field /\ f \in part => disk'[f] = want[s].value
<1>1. copy[s] # NoSave
  BY DEF Requested
<1>2. CASE f \notin part
  BY <1>2 DEF Rewritten, Overlay
<1>3. CASE f \in part /\ f # want[s].field
  BY <1>1, <1>3 DEF Rewritten, Overlay, CopyFresh
<1>4. CASE f \in part /\ f = want[s].field
  BY <1>1, <1>4 DEF Rewritten, Overlay, CopyFresh
<1>5. QED
  BY <1>2, <1>3, <1>4

(* What was acknowledged stays stored, when there is a store.              *)
LEMMA AckStep ==
  ASSUME TypeOK, Requested, CacheInv, CopyFresh, AckedStored, [Next]_vars
  PROVE  AckedStored'
<1> USE StoreAssumption DEF TypeOK, Requested, CacheInv, Locking
<1>1. ASSUME NEW s \in Savers, BeginSave(s) PROVE AckedStored'
  BY <1>1 DEF BeginSave, AckedStored, history
<1>2. ASSUME NEW s \in Savers, LoadState(s) PROVE AckedStored'
  BY <1>2 DEF LoadState, Taken, AckedStored
<1>3. ASSUME NEW s \in Savers, LoadFails(s) PROVE AckedStored'
  BY <1>3 DEF LoadFails, Taken, AckedStored
<1>4. ASSUME NEW s \in Savers, SaveNowhere(s) PROVE AckedStored'
  BY <1>4 DEF SaveNowhere, AckedStored
<1>5. ASSUME NEW s \in Savers, SaveFile(s) PROVE AckedStored'
  <2>1. pc[s] \notin {"idle", "load"} /\ want[s].field \in Fields
    BY <1>5, SaverKnows DEF SaveFile
  <2>2. mu = Nobody /\ mu' = Nobody /\ mode' = mode
    BY <1>5 DEF SaveFile
  <2>3. CASE Rewritten(Fields, s) /\ Reported(s, want[s].value)
    BY <2>1, <2>2, <2>3, RewrittenKeeps, PartsAreFields DEF Reported, AckedStored
  <2>4. CASE Rewritten({}, s) /\ UNCHANGED acked
    BY <2>1, <2>2, <2>4, RewrittenKeeps, PartsAreFields DEF AckedStored
  <2>5. QED
    BY <1>5, <2>3, <2>4 DEF SaveFile
<1>6. ASSUME NEW s \in Savers, SaveLocks(s) PROVE AckedStored'
  BY <1>6 DEF SaveLocks, AckedStored, history
<1>7. ASSUME NEW s \in Savers, WriteConfigMap(s) PROVE AckedStored'
  <2>1. pc[s] \notin {"idle", "load"} /\ want[s].field \in Fields
    BY <1>7, SaverKnows DEF WriteConfigMap
  <2>2. mu = s /\ mode' = mode
    BY <1>7 DEF WriteConfigMap
  <2>3. CASE UNCHANGED <<mu, want, acked>> /\ Rewritten(ConfigFields, s)
    BY <2>1, <2>2, <2>3, RewrittenKeeps, PartsAreFields DEF AckedStored
  <2>4. CASE SaveFails(s) /\ \E part \in {{}, ConfigFields} : Rewritten(part, s)
    BY <2>1, <2>2, <2>4, RewrittenKeeps, PartsAreFields DEF AckedStored, SaveFails, Reported
  <2>5. QED
    BY <1>7, <2>3, <2>4 DEF WriteConfigMap
<1>8. ASSUME NEW s \in Savers, WriteSecret(s) PROVE AckedStored'
  <2>1. pc[s] \notin {"idle", "load"} /\ want[s].field \in Fields
    BY <1>8, SaverKnows DEF WriteSecret
  <2>2. mu = s /\ mode' = mode
    BY <1>8 DEF WriteSecret
  <2>3. CASE Rewritten(SecretFields, s) /\ Reported(s, want[s].value)
    <3>1. disk'[want[s].field] = want[s].value
      <4>1. copy[s][want[s].field] = want[s].value
        BY <2>1 DEF CopyFresh
      <4>2. QED
        BY <1>8, <2>1, <2>3, <4>1 DEF WriteSecret, Rewritten, Overlay, HalfSaved, Fields
    <3>2. QED
      BY <2>1, <2>2, <2>3, <3>1, RewrittenKeeps, PartsAreFields DEF Reported, AckedStored
  <2>4. CASE SaveFails(s) /\ \E part \in {{}, SecretFields} : Rewritten(part, s)
    BY <2>1, <2>2, <2>4, RewrittenKeeps, PartsAreFields DEF AckedStored, SaveFails, Reported
  <2>5. QED
    BY <1>8, <2>3, <2>4 DEF WriteSecret
<1>9. ASSUME ReadField PROVE AckedStored'
  BY <1>9 DEF ReadField, AckedStored, history
<1>10. ASSUME Crash PROVE AckedStored'
  BY <1>10 DEF Crash, AckedStored
<1>11. CASE UNCHANGED vars
  BY <1>11 DEF vars, history, AckedStored
<1>12. QED
  BY <1>1, <1>2, <1>3, <1>4, <1>5, <1>6, <1>7, <1>8, <1>9, <1>10, <1>11
     DEF Next, Save

-----------------------------------------------------------------------------
(* The cache agrees with the store after any load or save that succeeded,  *)
(* and every copy is as old as it is known to be, for any number of savers *)
(* and any failures.                                                       *)
THEOREM CacheFollowsStore == Spec => []StoreInv
<1>1. Init => StoreInv
  BY StoreAssumption
     DEF Init, StoreInv, TypeOK, States, Blank, Requested, CacheInv, Locking,
         HalfSaved, NowhereBlank, CacheCurrent, CopyFresh
<1>2. StoreInv /\ [Next]_vars => StoreInv'
  <2> SUFFICES ASSUME StoreInv, [Next]_vars PROVE StoreInv'
    OBVIOUS
  <2>1. TypeOK /\ Requested /\ CacheInv /\ CopyFresh /\ Locking
    BY DEF StoreInv, CacheInv
  <2>2. TypeOK' /\ Requested'
    BY <2>1, TypeStep
  <2>3. CacheInv'
    BY <2>1, CacheStep
  <2>4. CopyFresh'
    BY <2>1, FreshStep
  <2>5. QED
    BY <2>2, <2>3, <2>4 DEF StoreInv
<1>3. QED
  BY <1>1, <1>2, PTL DEF Spec

(* Type correctness of the state manager.                                  *)
THEOREM StoreTypes == Spec => []TypeOK
<1>1. StoreInv => TypeOK
  BY DEF StoreInv
<1>2. QED
  BY <1>1, CacheFollowsStore, PTL

(* The fallback of a failed load is the stored state, unless nothing was   *)
(* loaded or saved since the start or the last failed save.                *)
THEOREM CacheIsCurrent == Spec => []CacheCurrent
<1>1. StoreInv => CacheCurrent
  BY DEF StoreInv, CacheInv
<1>2. QED
  BY <1>1, CacheFollowsStore, PTL

(* However many save at once, and whichever calls fail, a save writes the  *)
(* state as it stood at its load with its own field changed, although it   *)
(* does so in two calls that may fail (Save, state.go:261-292).            *)
THEOREM SavesAreSnapshots == Spec => SnapshotSaves
<1>1. Init => Contract!Init
  BY DEF Init, Contract!Init, Blank
<1>2. StoreInv /\ [Next]_vars => [Contract!Next]_Contract!storeVars
  BY ContractStep DEF StoreInv
<1>3. QED
  BY <1>1, <1>2, CacheFollowsStore, PTL DEF Spec, SnapshotSaves, Contract!Spec

(* However many save at once, what a save acknowledged is lost only to a   *)
(* save whose copy was loaded before it or not at all: never to a failed   *)
(* call, a restart or a later save (state.go:399-447).                     *)
THEOREM AcknowledgedLostOnlyByOverlap == Spec => []LostOnlyByOverlap
<1>1. Init => AckedStored
  BY DEF Init, AckedStored, Blank
<1>2. StoreInv /\ AckedStored /\ [Next]_vars => AckedStored'
  BY AckStep DEF StoreInv
<1>3. StoreInv /\ AckedStored => LostOnlyByOverlap
  BY DEF AckedStored, LostOnlyByOverlap, Loaded
<1>4. QED
  BY <1>1, <1>2, <1>3, CacheFollowsStore, PTL DEF Spec

-----------------------------------------------------------------------------
(* A call of the installer, and its steps.                                 *)
OpSteps == {"history", "uninstall", "purge", "prepare", "role", "binding",
            "run", "create", "wait", "ok", "error"}
OpCalls == {"install", "reinstall", "upgrade", "force", "remove"}
Calls == [at : OpSteps, release : Releases, call : OpCalls, values : Nat]

(* The ingress controllers that the agent only removes.                    *)
Replaced == {"nginx", "old-traefik"}

OpTyped == op = Idle \/ op \in Calls

(* Which release each kind of call is about, and where it goes.            *)
CallPath ==
  op # Idle =>
    /\ op.call = "remove" <=> op.release \in Replaced
    /\ op.call = "remove" => op.at \in {"uninstall", "ok", "error"}
    /\ op.call = "install" => op.at \notin {"uninstall", "purge"}
    /\ op.call # "install" => op.at \notin {"history", "role", "binding"}
    /\ op.call \in {"upgrade", "force"} => op.at \notin {"uninstall", "purge"}

(* A release of ours that has a record has its cluster-scoped objects to   *)
(* itself.                                                                 *)
Recorded ==
  \A r \in Releases \ Replaced : release[r].status # "none" => foreign[r] = {}

(* What a call found, unless a call about its release failed.              *)
CallFound ==
  op # Idle /\ op.call # "remove" =>
    /\ op.call # "install" => foreign[R] = {}
    /\ op.at = "binding" => "role" \notin foreign[R]
    /\ op.at \in {"create", "wait"} => foreign[R] = {} /\ Status # "none"
    /\ \/ R \in faulty
       \/ /\ op.call = "install" /\ op.at \in {"prepare", "role", "binding", "run"}
               => Status = "none"
          /\ op.call = "install" /\ op.at = "run" => "role" \notin foreign[R]
          /\ op.call = "reinstall" /\ op.at \in {"purge", "prepare", "run"}
               => Status = "none"
          /\ op.call = "upgrade" /\ op.at \in {"prepare", "run"} => Status = "deployed"
          /\ op.call # "force"

(* A healthy release of the version that is wanted is not changed.         *)
Untouched ==
  op # Idle /\ op.call # "remove" /\ op.at \notin {"history", "ok", "error"} =>
    Status # "deployed" \/ ~SameVersion(R) \/ R \in faulty

(* What a call returns.                                                    *)
CallReturned ==
  op # Idle /\ op.call # "remove" =>
    /\ op.at = "ok" => Status = "deployed"
    /\ op.at = "error" => R \in faulty \/ foreign[R] = {"binding"}

(* Which call is made where.                                               *)
Controller == {"nginx", "legacy", "traefik", "pages", "middleware", "fallback", "wired"}
InStep == Controller \cup {"start", "helm", "verify", "webhook", "route",
                           "route-failed", "settle"}
CallPlaces ==
  /\ at \notin {"helm", "nginx", "traefik", "wired", "gateway"} => op = Idle
  /\ at \in {"helm", "wired", "gateway"} => op # Idle /\ op.call # "remove"
  /\ at = "helm" => op.release = ReleaseOf(Step)
  /\ at = "wired" => op.release = "traefik"
  /\ at = "gateway" => op.release = "gateway"
  /\ at \in {"nginx", "traefik"} /\ op # Idle =>
       op.call = "remove" /\ op.release \in Replaced
  /\ at \in InStep => todo # {}
  /\ at \in Controller => Step = "ingress-controller"
  /\ "gateway" \notin todo
  /\ at \in {"down", "manager", "namespaces", "backoff", "essential", "ready", "gateway", "up"}
       => todo = {}

(* The entry points of Traefik name the middleware once it is there.       *)
PagesMade ==
  /\ op # Idle /\ op.release = "traefik" /\ op.values = 2
       => {"backend", "middleware"} \subseteq created
  /\ at \in {"middleware", "fallback"} => "backend" \in created
  /\ at = "fallback" => "middleware" \in created

(* A component is installed, or it is accounted for.                       *)
Accounted(s) == \/ release[ReleaseOf(s)].status = "deployed"
                \/ s \in faulty \/ ReleaseOf(s) \in faulty
                \/ LeftBroken(s)

(* What is no longer to be done is accounted for, and so is the current    *)
(* step once its release is.                                               *)
PlanDone ==
  /\ at \notin {"down", "manager", "namespaces", "backoff", "essential"} =>
       /\ \A s \in Plan \ todo : Accounted(s)
       /\ at \in {"verify", "webhook", "route", "route-failed", "settle"} /\ Step \in Plan
            => Accounted(Step)
  /\ monitoringReady => at \in {"down", "ready", "gateway", "up"}

-----------------------------------------------------------------------------
(* The parts of BootstrapTypeOK.                                           *)
Records == [status : Statuses, up : BOOLEAN, values : Nat]

ClusterTyped ==
  /\ release \in [Releases -> Records]
  /\ foreign \in [Releases -> SUBSET {"role", "binding"}]

FaultsTyped ==
  faults \in 0..MaxFaults /\ faulty \subseteq Releases \cup AllSteps \cup {"namespaces"}

ProcessTyped ==
  /\ at \in Places /\ todo \subseteq Enabled
  /\ ingressEnabled \in BOOLEAN /\ monitoringReady \in BOOLEAN
  /\ runs \in 0..MaxRuns
  /\ thirdParty \in BOOLEAN /\ created \subseteq Objects
  /\ ingressOf \in [Routed -> {"none", "nginx", "traefik"}]

LEMMA BootstrapParts ==
  BootstrapTypeOK <=> ClusterTyped /\ FaultsTyped /\ ProcessTyped
BY DEF BootstrapTypeOK, ClusterTyped, FaultsTyped, ProcessTyped, Records

(* How a call goes on.                                                     *)
LEMMA CallGoes ==
  ASSUME op \in Calls, NEW step \in OpSteps, Go(step)
  PROVE  /\ op' \in Calls /\ op'.at = step /\ op'.release = R
         /\ op'.call = op.call /\ op'.values = op.values
BY DEF Calls, Go, R

LEMMA CallGoesFor ==
  ASSUME op \in Calls, NEW step \in OpSteps, NEW c \in OpCalls, GoFor(c, step)
  PROVE  /\ op' \in Calls /\ op'.at = step /\ op'.release = R
         /\ op'.call = c /\ op'.values = op.values
BY DEF Calls, GoFor, R

LEMMA FaultStep ==
  ASSUME FaultsTyped, NEW r \in Releases \cup AllSteps \cup {"namespaces"},
         NoFault \/ FaultOn(r)
  PROVE  /\ FaultsTyped' /\ faulty \subseteq faulty'
         /\ FaultOn(r) => r \in faulty'
<1>1. faults' \in 0..MaxFaults
  BY HelmAssumption DEF FaultsTyped, NoFault, FaultOn
<1>2. QED
  BY <1>1 DEF FaultsTyped, NoFault, FaultOn

LEMMA Becomes ==
  ASSUME ClusterTyped, op \in Calls, NEW s \in Statuses, Become(s)
  PROVE  /\ release' \in [Releases -> Records] /\ release'[R].status = s
         /\ release'[R].values = release[R].values
         /\ \A r \in Releases : r # R => release'[r] = release[r]
BY DEF ClusterTyped, Records, Calls, R, Become

LEMMA GoneRecord == Gone \in Records /\ Gone.status = "none" /\ Gone.values = 0
BY DEF Gone, Records, Statuses

(* What a step of the installer changes: the call, its release, and what   *)
(* is remembered of failures.                                              *)
Effect ==
  /\ op \in Calls /\ op' \in Calls /\ op'.release = R /\ op'.values = op.values
  /\ ClusterTyped' /\ FaultsTyped' /\ faulty \subseteq faulty'
  /\ \A r \in Releases : r # R => release'[r] = release[r] /\ foreign'[r] = foreign[r]
  /\ foreign'[R] \subseteq foreign[R]

HelmInv ==
  OpTyped /\ CallPath /\ Recorded /\ CallFound /\ Untouched /\ CallReturned

LEMMA HistoryStep ==
  ASSUME ClusterTyped, FaultsTyped, HelmInv, History
  PROVE  /\ Effect /\ UNCHANGED <<release, foreign>> /\ op.at = "history"
         /\ op.call = "install"
         /\ \/ Status = "none" /\ op'.call = "install" /\ op'.at = "prepare"
            \/ /\ Status \in Pending \cup Unhealthy
               /\ op'.call = "reinstall" /\ op'.at = "uninstall"
            \/ Status = "deployed" /\ op'.call = "install" /\ op'.at = "ok"
            \/ /\ Status = "deployed" /\ ~SameVersion(R)
               /\ op'.call = "upgrade" /\ op'.at = "prepare"
            \/ /\ Status # "none" /\ R \in faulty'
               /\ op'.call \in {"install", "upgrade"} /\ op'.at = "prepare"
<1>1. op.at = "history" /\ UNCHANGED <<release, foreign>>
  BY DEF History, At, Quiet
<1>2. op \in Calls /\ op # Idle /\ R \in Releases /\ op.call = "install"
  BY <1>1 DEF HelmInv, OpTyped, Idle, CallPath, Calls, R, OpCalls
<1> DEFINE unsure == R \in faulty' /\ FaultsTyped' /\ faulty \subseteq faulty'
           sure == FaultsTyped' /\ faulty \subseteq faulty'
<1>3. /\ FaultOn(R) => unsure
      /\ NoFault => sure
  BY <1>2, FaultStep
<1>4. \/ Status = "none" /\ GoFor("install", "prepare") /\ sure
      \/ Status \in Pending \cup Unhealthy /\ GoFor("reinstall", "uninstall") /\ sure
      \/ Status = "deployed" /\ Go("ok") /\ sure
      \/ Status = "deployed" /\ ~SameVersion(R) /\ GoFor("upgrade", "prepare") /\ sure
      \/ Status # "none" /\ GoFor("install", "prepare") /\ unsure
      \/ Status # "none" /\ GoFor("upgrade", "prepare") /\ unsure
  BY <1>3, Zenon DEF History, CleanupRelease
<1>5. /\ {"prepare", "uninstall", "ok"} \subseteq OpSteps
      /\ {"install", "reinstall", "upgrade"} \subseteq OpCalls
  BY DEF OpSteps, OpCalls
<1>6. ASSUME NEW c \in OpCalls, NEW step \in OpSteps, GoFor(c, step)
      PROVE  /\ op' \in Calls /\ op'.at = step /\ op'.release = R
             /\ op'.call = c /\ op'.values = op.values
  BY <1>2, <1>6, CallGoesFor
<1>7. Go("ok") => /\ op' \in Calls /\ op'.at = "ok" /\ op'.release = R
                  /\ op'.call = "install" /\ op'.values = op.values
  BY <1>2, <1>5, CallGoes
<1>8. op' \in Calls /\ op'.release = R /\ op'.values = op.values /\ sure
  BY <1>4, <1>5, <1>6, <1>7
<1>9. Effect
  BY <1>1, <1>2, <1>8 DEF Effect, ClusterTyped
<1>10. QED
  BY <1>1, <1>2, <1>4, <1>5, <1>6, <1>7, <1>9
(* A call of the installer is under way.                                   *)
LEMMA Calling ==
  ASSUME HelmInv, op.at # "idle"
  PROVE  op \in Calls /\ op # Idle /\ R \in Releases
BY DEF HelmInv, OpTyped, Idle, Calls, R

LEMMA UninstallStep ==
  ASSUME ClusterTyped, FaultsTyped, HelmInv, Uninstall
  PROVE  /\ Effect /\ UNCHANGED foreign /\ op.at = "uninstall" /\ op'.call = op.call
         /\ op.call = "remove" => op'.at \in {"ok", "error"}
         /\ op.call # "remove" => op.call = "reinstall" /\ op'.at = "purge"
         /\ release'[R].status = "none" \/ R \in faulty'
         /\ release'[R].status \in {"none", "uninstalling", Status}
         /\ release'[R].values \in {release[R].values, 0}
<1>1. op.at = "uninstall" /\ UNCHANGED foreign
  BY DEF Uninstall, At
<1>2. op \in Calls /\ op # Idle /\ R \in Releases /\ op.call \in {"remove", "reinstall"}
  BY <1>1, Calling DEF HelmInv, CallPath, Calls, OpCalls
<1> DEFINE next == IF op.call = "remove" THEN "ok" ELSE "purge"
           stop == IF op.call = "remove" THEN "error" ELSE "purge"
<1>3. CASE release' = [release EXCEPT ![R] = Gone] /\ NoFault /\ Go(next)
  <2>1. next \in OpSteps
    BY DEF OpSteps
  <2>2. /\ op' \in Calls /\ op'.at = next /\ op'.release = R
        /\ op'.call = op.call /\ op'.values = op.values
    BY <1>2, <1>3, <2>1, CallGoes
  <2>3. /\ release' \in [Releases -> Records] /\ release'[R] = Gone
        /\ \A r \in Releases : r # R => release'[r] = release[r]
    BY <1>2, <1>3, GoneRecord DEF ClusterTyped
  <2>4. FaultsTyped' /\ faulty \subseteq faulty'
    BY <1>2, <1>3, FaultStep
  <2>5. Effect
    BY <1>1, <1>2, <2>2, <2>3, <2>4 DEF Effect, ClusterTyped
  <2>6. QED
    BY <1>1, <1>2, <2>2, <2>3, <2>5, GoneRecord
<1>4. CASE /\ FaultOn(R) /\ Go(stop)
           /\ \/ UNCHANGED release
              \/ \E left \in BOOLEAN : release' = [release EXCEPT ![R].status = "uninstalling",
                                                                  ![R].up = @ /\ left]
  <2>1. stop \in OpSteps
    BY DEF OpSteps
  <2>2. /\ op' \in Calls /\ op'.at = stop /\ op'.release = R
        /\ op'.call = op.call /\ op'.values = op.values
    BY <1>2, <1>4, <2>1, CallGoes
  <2>3. /\ release' \in [Releases -> Records]
        /\ \A r \in Releases : r # R => release'[r] = release[r]
        /\ release'[R].status \in {"uninstalling", Status}
        /\ release'[R].values = release[R].values
    <3>1. CASE UNCHANGED release
      BY <1>2, <3>1 DEF ClusterTyped, Status
    <3>2. ASSUME NEW left \in BOOLEAN,
                 release' = [release EXCEPT ![R].status = "uninstalling",
                                            ![R].up = @ /\ left]
          PROVE  /\ release' \in [Releases -> Records]
                 /\ \A r \in Releases : r # R => release'[r] = release[r]
                 /\ release'[R].status \in {"uninstalling", Status}
                 /\ release'[R].values = release[R].values
      <4>1. release[R] \in Records /\ release \in [Releases -> Records]
        BY <1>2 DEF ClusterTyped
      <4>2. (release[R].up /\ left) \in BOOLEAN /\ "uninstalling" \in Statuses
        BY DEF Statuses, Unhealthy
      <4> DEFINE was == release[R]
                 v == [was EXCEPT !.status = "uninstalling", !.up = was.up /\ left]
      <4>3. v \in Records /\ v.status = "uninstalling" /\ v.values = was.values
        BY <4>1, <4>2 DEF Records
      <4>4. release' = [release EXCEPT ![R] = v]
        BY <1>2, <3>2, <4>1
      <4> HIDE DEF v
      <4>5. QED
        BY <1>2, <4>1, <4>3, <4>4
    <3>3. QED
      BY <1>4, <3>1, <3>2
  <2>4. FaultsTyped' /\ faulty \subseteq faulty' /\ R \in faulty'
    BY <1>2, <1>4, FaultStep
  <2>5. Effect
    BY <1>1, <1>2, <2>2, <2>3, <2>4 DEF Effect, ClusterTyped
  <2>6. QED
    BY <1>1, <1>2, <2>2, <2>3, <2>4, <2>5
<1>5. QED
  BY <1>3, <1>4, Zenon DEF Uninstall

(* The other steps change the status of their release, or what belongs to  *)
(* another namespace, and go on.                                           *)
LEMMA Advances ==
  ASSUME ClusterTyped, FaultsTyped, op \in Calls, R \in Releases,
         NEW step \in OpSteps, NEW c \in OpCalls, GoFor(c, step),
         NoFault \/ FaultOn(R),
         NEW x \in Statuses, UNCHANGED release \/ Become(x),
         NEW o, UNCHANGED foreign \/ foreign' = [foreign EXCEPT ![R] = @ \ {o}]
  PROVE  /\ Effect /\ op'.at = step /\ op'.call = c
         /\ FaultOn(R) => R \in faulty'
         /\ release'[R].status \in {Status, x}
         /\ Become(x) => release'[R].status = x
         /\ foreign'[R] \in {foreign[R], foreign[R] \ {o}}
         /\ release'[R].values = release[R].values
<1>1. /\ op' \in Calls /\ op'.at = step /\ op'.release = R
      /\ op'.call = c /\ op'.values = op.values
  BY CallGoesFor
<1>2. FaultsTyped' /\ faulty \subseteq faulty' /\ (FaultOn(R) => R \in faulty')
  BY FaultStep
<1>3. /\ Become(x) => release'[R].status = x
      /\ release' \in [Releases -> Records]
      /\ \A r \in Releases : r # R => release'[r] = release[r]
      /\ release'[R].values = release[R].values
      /\ release'[R].status \in {Status, x}
  <2>1. CASE Become(x)
    BY <2>1, Becomes
  <2>2. CASE UNCHANGED release /\ ~Become(x)
    BY <2>2 DEF ClusterTyped, Status
  <2>3. QED
    BY <2>1, <2>2
<1>4. /\ foreign' \in [Releases -> SUBSET {"role", "binding"}]
      /\ foreign'[R] \in {foreign[R], foreign[R] \ {o}}
      /\ \A r \in Releases : r # R => foreign'[r] = foreign[r]
  BY DEF ClusterTyped
<1>5. Effect
  BY <1>1, <1>2, <1>3, <1>4 DEF Effect, ClusterTyped
<1>6. QED
  BY <1>1, <1>2, <1>3, <1>4, <1>5

LEMMA GoKeepsCall ==
  ASSUME op \in Calls, NEW step, Go(step)
  PROVE  GoFor(op.call, step) /\ op.call \in OpCalls
BY DEF Go, GoFor, Calls

LEMMA PurgeStep ==
  ASSUME ClusterTyped, FaultsTyped, HelmInv, DeleteFromHistory
  PROVE  /\ Effect /\ UNCHANGED foreign /\ op.at = "purge"
         /\ op'.at = "prepare" /\ op'.call = op.call /\ op.call = "reinstall"
         /\ release'[R].status \in {"none", Status}
         /\ release'[R].status = "none" \/ R \in faulty'
         /\ release'[R].values = release[R].values
<1>1. op.at = "purge"
  BY DEF DeleteFromHistory, At
<1>2. op \in Calls /\ op # Idle /\ R \in Releases
  BY <1>1, Calling
<1>3. op.call = "reinstall"
  BY <1>1, <1>2 DEF HelmInv, CallPath, Calls, OpCalls
<1>4. /\ "prepare" \in OpSteps /\ "none" \in Statuses
      /\ Go("prepare") /\ UNCHANGED foreign
      /\ (Become("none") /\ NoFault) \/ (UNCHANGED release /\ FaultOn(R))
  BY DEF OpSteps, Statuses, DeleteFromHistory
<1>5. GoFor(op.call, "prepare") /\ op.call \in OpCalls
  BY <1>2, <1>4, GoKeepsCall
<1>6. QED
  BY <1>1, <1>2, <1>3, <1>4, <1>5, Advances

LEMMA PrepareStep ==
  ASSUME ClusterTyped, FaultsTyped, HelmInv, Prepare
  PROVE  /\ Effect /\ UNCHANGED <<release, foreign>> /\ op.at = "prepare"
         /\ op'.call = op.call /\ op.call # "remove"
         /\ \/ op'.at = IF op.call = "install" THEN "role" ELSE "run"
            \/ op'.at = "error" /\ R \in faulty'
<1>1. op.at = "prepare" /\ UNCHANGED <<release, foreign>>
  BY DEF Prepare, At, Quiet
<1>2. op \in Calls /\ op # Idle /\ R \in Releases /\ op.call # "remove"
  BY <1>1, Calling DEF HelmInv, CallPath
<1>3. PICK step \in OpSteps :
        /\ Go(step) /\ (NoFault \/ FaultOn(R))
        /\ \/ step = IF op.call = "install" THEN "role" ELSE "run"
           \/ step = "error" /\ FaultOn(R)
  <2>1. {"role", "run", "error"} \subseteq OpSteps
    BY DEF OpSteps
  <2>2. QED
    BY <2>1 DEF Prepare, CreateNamespace
<1>4. GoFor(op.call, step) /\ op.call \in OpCalls /\ "none" \in Statuses
  BY <1>2, <1>3, GoKeepsCall DEF Statuses
<1>5. Effect /\ op'.at = step /\ op'.call = op.call /\ (FaultOn(R) => R \in faulty')
  BY <1>1, <1>2, <1>3, <1>4, Advances
<1>6. QED
  BY <1>1, <1>2, <1>3, <1>5

LEMMA RoleStep ==
  ASSUME ClusterTyped, FaultsTyped, HelmInv, CleanupRole \/ CleanupBinding
  PROVE  /\ Effect /\ UNCHANGED release /\ op.at \in {"role", "binding"}
         /\ op'.call = "install" /\ op.call = "install"
         /\ \/ op'.at = "binding" /\ "role" \notin foreign'[R]
            \/ op'.at = "run" /\ ("role" \notin foreign'[R] \/ R \in faulty')
<1>1. op.at \in {"role", "binding"} /\ UNCHANGED release
  BY DEF CleanupRole, CleanupBinding, At
<1>2. op \in Calls /\ op # Idle /\ R \in Releases /\ op.call = "install"
  BY <1>1, Calling DEF HelmInv, CallPath
<1>3. {"binding", "run"} \subseteq OpSteps /\ "none" \in Statuses
  BY DEF OpSteps, Statuses
<1>4. CASE CleanupRole
  <2>1. PICK step \in {"binding", "run"} :
          /\ Go(step) /\ (NoFault \/ FaultOn(R))
          /\ \/ UNCHANGED foreign /\ step = "run" /\ ("role" \notin foreign[R] \/ FaultOn(R))
             \/ step = "binding" /\ foreign' = [foreign EXCEPT ![R] = @ \ {"role"}]
    BY <1>4 DEF CleanupRole
  <2>2. GoFor(op.call, step) /\ op.call \in OpCalls
    BY <1>2, <2>1, GoKeepsCall
  <2>3. Effect /\ op'.at = step /\ op'.call = op.call /\ (FaultOn(R) => R \in faulty')
    BY <1>1, <1>2, <1>3, <2>1, <2>2, Advances
  <2>4. foreign' = [foreign EXCEPT ![R] = @ \ {"role"}] => "role" \notin foreign'[R]
    BY <1>2 DEF ClusterTyped
  <2>5. QED
    BY <1>1, <1>2, <2>1, <2>3, <2>4
<1>5. CASE CleanupBinding
  <2>1. /\ Go("run") /\ (NoFault \/ FaultOn(R)) /\ op.at = "binding"
        /\ UNCHANGED foreign \/ foreign' = [foreign EXCEPT ![R] = @ \ {"binding"}]
    BY <1>5 DEF CleanupBinding, At
  <2>2. GoFor(op.call, "run") /\ op.call \in OpCalls
    BY <1>2, <2>1, GoKeepsCall
  <2>3. /\ Effect /\ op'.at = "run" /\ op'.call = op.call
        /\ foreign'[R] \in {foreign[R], foreign[R] \ {"binding"}}
    BY <1>1, <1>2, <1>3, <2>1, <2>2, Advances
  <2>4. "role" \notin foreign[R]
    BY <1>2, <2>1 DEF HelmInv, CallFound
  <2>5. QED
    BY <1>1, <1>2, <2>3, <2>4
<1>6. QED
  BY <1>4, <1>5

LEMMA RunStep ==
  ASSUME ClusterTyped, FaultsTyped, HelmInv, Install \/ Upgrade
  PROVE  /\ Effect /\ UNCHANGED foreign /\ op.at = "run" /\ op.call # "remove"
         /\ release'[R].values = release[R].values
         /\ \/ /\ op'.call = op.call /\ op'.at = "create"
               /\ release'[R].status \in Pending
               /\ IF op.call \in {"install", "reinstall"}
                  THEN foreign[R] = {} ELSE Status # "none"
            \/ /\ UNCHANGED release /\ op'.at = "error" /\ op'.call = op.call
               /\ \/ R \in faulty'
                  \/ /\ op.call \in {"install", "reinstall"}
                     /\ foreign[R] # {} \/ Status # "none"
                  \/ op.call \in {"upgrade", "force"} /\ ~CanUpgrade
            \/ /\ UNCHANGED release /\ op.call = "reinstall" /\ Status # "none"
               /\ op'.call = "force" /\ op'.at = "run"
<1>1. op.at = "run"
  BY DEF Install, Upgrade, At
<1>2. op \in Calls /\ op # Idle /\ R \in Releases /\ op.call # "remove"
  BY <1>1, Calling DEF HelmInv, CallPath
<1>3. /\ {"create", "error", "run"} \subseteq OpSteps /\ "force" \in OpCalls
      /\ Pending \subseteq Statuses /\ "pending-install" \in Pending
      /\ "pending-upgrade" \in Pending
  BY DEF OpSteps, OpCalls, Statuses, Pending
<1>4. ASSUME NEW step \in OpSteps, Go(step)
      PROVE  GoFor(op.call, step) /\ op.call \in OpCalls
  BY <1>2, <1>4, GoKeepsCall
<1>5. CASE Install
  <2>1. op.call \in {"install", "reinstall"} /\ UNCHANGED foreign
    BY <1>5 DEF Install
  <2>2. CASE foreign[R] = {} /\ Become("pending-install") /\ Go("create") /\ NoFault
    BY <1>1, <1>2, <1>3, <1>4, <2>1, <2>2, Advances
  <2>3. CASE /\ UNCHANGED release /\ Go("error")
             /\ \/ NoFault /\ (foreign[R] # {} \/ Status # "none")
                \/ FaultOn(R)
    BY <1>1, <1>2, <1>3, <1>4, <2>1, <2>3, Advances
  <2>4. CASE /\ UNCHANGED release /\ GoFor("force", "run") /\ NoFault
             /\ op.call = "reinstall" /\ Status # "none"
    BY <1>1, <1>2, <1>3, <2>1, <2>4, Advances
  <2>5. QED
    BY <1>5, <2>2, <2>3, <2>4, Zenon DEF Install, NameFree, UpgradeWithForce
<1>6. CASE Upgrade
  <2>1. op.call \in {"upgrade", "force"} /\ UNCHANGED foreign
    BY <1>6 DEF Upgrade
  <2>2. CASE CanUpgrade /\ Become("pending-upgrade") /\ Go("create") /\ NoFault
    BY <1>1, <1>2, <1>3, <1>4, <2>1, <2>2, Advances DEF CanUpgrade
  <2>3. CASE /\ UNCHANGED release /\ Go("error")
             /\ (NoFault /\ ~CanUpgrade) \/ FaultOn(R)
    BY <1>1, <1>2, <1>3, <1>4, <2>1, <2>3, Advances
  <2>4. QED
    BY <1>6, <2>2, <2>3, Zenon DEF Upgrade
<1>7. QED
  BY <1>5, <1>6

LEMMA ObjectsStep ==
  ASSUME ClusterTyped, FaultsTyped, HelmInv, CreateObjects \/ Wait
  PROVE  /\ Effect /\ UNCHANGED foreign /\ op.at \in {"create", "wait"}
         /\ op'.call = op.call /\ op.call # "remove"
         /\ \/ op'.at = "wait" /\ release'[R].status = Status
            \/ op'.at = "error" /\ R \in faulty' /\ release'[R].status = "failed"
            \/ op'.at = "ok" /\ release'[R].status = "deployed"
         /\ release'[R].values \in {release[R].values, op.values}
<1>1. op.at \in {"create", "wait"} /\ UNCHANGED foreign
  BY DEF CreateObjects, Wait, At
<1>2. op \in Calls /\ op # Idle /\ R \in Releases /\ op.call # "remove"
  BY <1>1, Calling DEF HelmInv, CallPath
<1>3. {"wait", "error", "ok"} \subseteq OpSteps /\ {"failed", "deployed"} \subseteq Statuses
  BY DEF OpSteps, Statuses, Unhealthy
<1>4. ASSUME NEW step \in OpSteps, Go(step)
      PROVE  GoFor(op.call, step) /\ op.call \in OpCalls
  BY <1>2, <1>4, GoKeepsCall
<1>5. CASE Become("failed") /\ Go("error") /\ FaultOn(R)
  BY <1>1, <1>2, <1>3, <1>4, <1>5, Advances
<1>6. CASE \/ release' = [release EXCEPT ![R].up = TRUE] /\ Go("wait") /\ NoFault
           \/ /\ release' = [release EXCEPT ![R].status = "deployed", ![R].values = op.values]
              /\ Go("ok") /\ NoFault
  <2>1. release[R] \in Records /\ release \in [Releases -> Records] /\ op.values \in Nat
    BY <1>2 DEF ClusterTyped, Calls
  <2> DEFINE was == release[R]
             made == [was EXCEPT !.up = TRUE]
             now == [was EXCEPT !.status = "deployed", !.values = op.values]
  <2>2. made \in Records /\ made.status = was.status /\ made.values = was.values
    BY <2>1 DEF Records
  <2>3. now \in Records /\ now.status = "deployed" /\ now.values = op.values
    BY <1>3, <2>1 DEF Records
  <2>4. \/ release' = [release EXCEPT ![R] = made] /\ Go("wait") /\ NoFault
        \/ release' = [release EXCEPT ![R] = now] /\ Go("ok") /\ NoFault
    BY <1>2, <1>6, <2>1
  <2> HIDE DEF made, now
  <2>5. PICK step \in {"wait", "ok"} :
          /\ Go(step) /\ NoFault
          /\ \/ step = "wait" /\ release' = [release EXCEPT ![R] = made]
             \/ step = "ok" /\ release' = [release EXCEPT ![R] = now]
    BY <2>4
  <2>6. /\ op' \in Calls /\ op'.at = step /\ op'.release = R
        /\ op'.call = op.call /\ op'.values = op.values
    BY <1>2, <1>3, <2>5, CallGoes
  <2>7. /\ release' \in [Releases -> Records]
        /\ \A r \in Releases : r # R => release'[r] = release[r]
        /\ step = "wait" => release'[R] = made
        /\ step = "ok" => release'[R] = now
    BY <1>2, <2>1, <2>2, <2>3, <2>5
  <2>8. FaultsTyped' /\ faulty \subseteq faulty'
    BY <1>2, <2>5, FaultStep
  <2>9. Effect
    BY <1>1, <1>2, <2>6, <2>7, <2>8 DEF Effect, ClusterTyped
  <2>10. QED
    BY <1>1, <1>2, <2>2, <2>3, <2>5, <2>6, <2>7, <2>9 DEF Status
<1>7. QED
  BY <1>5, <1>6, Zenon DEF CreateObjects, Wait

-----------------------------------------------------------------------------
(* A step of the installer keeps its invariant.                            *)
LEMMA HelmKeeps ==
  ASSUME ClusterTyped, FaultsTyped, HelmInv, HelmStep
  PROVE  Effect /\ HelmInv'
<1>0. /\ op \in Calls => R \in Releases /\ Status \in Statuses
      /\ op \in Calls => foreign[R] \subseteq {"role", "binding"}
      /\ op \in Calls => op # Idle /\ op.release = R
      /\ Status = release[R].status
      /\ CallPath /\ Recorded /\ CallFound /\ Untouched /\ CallReturned
  BY DEF ClusterTyped, Calls, Records, HelmInv, Idle, R, Status
<1>a. ASSUME Effect
      PROVE  /\ OpTyped' /\ op' # Idle /\ R' = R /\ op'.release = R /\ op \in Calls
             /\ Status' = release'[R].status /\ faulty \subseteq faulty'
  BY <1>a DEF Effect, OpTyped, Idle, Calls, R, Status
<1>b. ASSUME Effect, R \in Replaced \/ release'[R].status = "none" \/ foreign'[R] = {}
      PROVE  Recorded'
  BY <1>0, <1>b DEF Effect, Recorded
<1>c. ASSUME Effect, UNCHANGED <<release, foreign>> PROVE Recorded'
  BY <1>0, <1>c DEF Recorded
<1>1. CASE History
  <2>1. Effect /\ UNCHANGED <<release, foreign>>
    BY <1>1, HistoryStep
  <2>2. CallPath'
    BY <1>0, <1>1, <1>a, <2>1, HistoryStep DEF CallPath
  <2>3. CallFound'
    BY <1>0, <1>1, <1>a, <2>1, HistoryStep DEF CallFound, Recorded, Pending, Unhealthy, CallPath
  <2>4. Untouched'
    BY <1>0, <1>1, <1>a, <2>1, HistoryStep DEF Untouched, SameVersion, Pending, Unhealthy
  <2>5. CallReturned'
    BY <1>0, <1>1, <1>a, <2>1, HistoryStep DEF CallReturned
  <2>6. QED
    BY <1>a, <1>c, <2>1, <2>2, <2>3, <2>4, <2>5 DEF HelmInv
<1>2. CASE Uninstall
  <2>1. Effect /\ UNCHANGED foreign
    BY <1>2, UninstallStep
  <2>2. CallPath'
    BY <1>0, <1>2, <1>a, <2>1, UninstallStep DEF CallPath
  <2>3. CallFound'
    BY <1>0, <1>2, <1>a, <2>1, UninstallStep DEF CallFound, CallPath
  <2>4. Untouched'
    BY <1>0, <1>2, <1>a, <2>1, UninstallStep DEF Untouched, CallFound, SameVersion
  <2>5. CallReturned'
    BY <1>0, <1>2, <1>a, <2>1, UninstallStep DEF CallReturned, CallFound
  <2>6. Recorded'
    BY <1>0, <1>2, <1>a, <1>b, <2>1, UninstallStep DEF CallFound, CallPath
  <2>7. QED
    BY <1>a, <2>1, <2>2, <2>3, <2>4, <2>5, <2>6 DEF HelmInv
<1>3. CASE DeleteFromHistory
  <2>1. Effect /\ UNCHANGED foreign
    BY <1>3, PurgeStep
  <2>2. CallPath'
    BY <1>0, <1>3, <1>a, <2>1, PurgeStep DEF CallPath
  <2>3. CallFound'
    BY <1>0, <1>3, <1>a, <2>1, PurgeStep DEF CallFound, CallPath
  <2>4. Untouched'
    BY <1>0, <1>3, <1>a, <2>1, PurgeStep DEF Untouched, CallFound, SameVersion
  <2>5. CallReturned'
    BY <1>0, <1>3, <1>a, <2>1, PurgeStep DEF CallReturned, CallFound
  <2>6. Recorded'
    BY <1>0, <1>3, <1>a, <1>b, <2>1, PurgeStep DEF CallFound
  <2>7. QED
    BY <1>a, <2>1, <2>2, <2>3, <2>4, <2>5, <2>6 DEF HelmInv
<1>4. CASE Prepare
  <2>1. Effect /\ UNCHANGED <<release, foreign>>
    BY <1>4, PrepareStep
  <2>2. CallPath'
    BY <1>0, <1>4, <1>a, <2>1, PrepareStep DEF CallPath
  <2>3. CallFound'
    BY <1>0, <1>4, <1>a, <2>1, PrepareStep DEF CallFound, CallPath
  <2>4. Untouched'
    BY <1>0, <1>4, <1>a, <2>1, PrepareStep DEF Untouched, CallFound, SameVersion
  <2>5. CallReturned'
    BY <1>0, <1>4, <1>a, <2>1, PrepareStep DEF CallReturned, CallFound
  <2>6. QED
    BY <1>a, <1>c, <2>1, <2>2, <2>3, <2>4, <2>5 DEF HelmInv
<1>5. CASE CleanupRole \/ CleanupBinding
  <2>1. Effect /\ UNCHANGED release
    BY <1>5, RoleStep
  <2>2. CallPath'
    BY <1>0, <1>5, <1>a, <2>1, RoleStep DEF CallPath
  <2>3. CallFound'
    BY <1>0, <1>5, <1>a, <2>1, RoleStep DEF CallFound, CallPath
  <2>4. Untouched'
    BY <1>0, <1>5, <1>a, <2>1, RoleStep DEF Untouched, CallFound, SameVersion
  <2>5. CallReturned'
    BY <1>0, <1>5, <1>a, <2>1, RoleStep DEF CallReturned, CallFound
  <2>6. Recorded'
    BY <1>0, <1>a, <2>1 DEF Recorded, Effect
  <2>7. QED
    BY <1>a, <2>1, <2>2, <2>3, <2>4, <2>5, <2>6 DEF HelmInv
<1>6. CASE Install \/ Upgrade
  <2>1. Effect /\ UNCHANGED foreign
    BY <1>6, RunStep
  <2>2. CallPath'
    BY <1>0, <1>6, <1>a, <2>1, RunStep DEF CallPath
  <2>3. CallFound'
    BY <1>0, <1>6, <1>a, <2>1, RunStep DEF CallFound, CallPath, CanUpgrade, Pending
  <2>4. Untouched'
    BY <1>0, <1>6, <1>a, <2>1, RunStep DEF Untouched, CallFound, SameVersion, Pending
  <2>5. CallReturned'
    BY <1>0, <1>6, <1>a, <2>1, RunStep DEF CallReturned, CallFound, CanUpgrade, Pending
  <2>6. Recorded'
    BY <1>0, <1>6, <1>a, <1>b, <1>c, <2>1, RunStep DEF CallFound
  <2>7. QED
    BY <1>a, <2>1, <2>2, <2>3, <2>4, <2>5, <2>6 DEF HelmInv
<1>7. CASE CreateObjects \/ Wait
  <2>1. Effect /\ UNCHANGED foreign
    BY <1>7, ObjectsStep
  <2>2. CallPath'
    BY <1>0, <1>7, <1>a, <2>1, ObjectsStep DEF CallPath
  <2>3. CallFound'
    BY <1>0, <1>7, <1>a, <2>1, ObjectsStep DEF CallFound, CallPath
  <2>4. Untouched'
    BY <1>0, <1>7, <1>a, <2>1, ObjectsStep DEF Untouched, CallFound, SameVersion
  <2>5. CallReturned'
    BY <1>0, <1>7, <1>a, <2>1, ObjectsStep DEF CallReturned, CallFound
  <2>6. Recorded'
    BY <1>0, <1>7, <1>a, <1>b, <2>1, ObjectsStep DEF CallFound
  <2>7. QED
    BY <1>a, <2>1, <2>2, <2>3, <2>4, <2>5, <2>6 DEF HelmInv
<1>8. QED
  BY <1>1, <1>2, <1>3, <1>4, <1>5, <1>6, <1>7 DEF HelmStep

(* A healthy release of ours is changed by no step, unless a call about it *)
(* failed.                                                                 *)
LEMMA HealthyUntouched ==
  ASSUME ClusterTyped, FaultsTyped, HelmInv, HelmStep,
         NEW r \in Releases \ Replaced, release[r].status = "deployed", SameVersion(r)
  PROVE  release'[r] = release[r] \/ r \in faulty
<1>0. /\ Effect /\ op \in Calls /\ op # Idle
      /\ op.call # "remove" \/ R \in Replaced
  BY HelmKeeps DEF Effect, HelmInv, CallPath, Idle, Calls, R
<1>1. CASE r # R
  BY <1>0, <1>1 DEF Effect
<1>2. CASE r = R
  <2>1. CASE History
    BY <2>1 DEF History, Quiet
  <2>2. CASE ~History
    <3>1. op.at \notin {"history", "ok", "error"}
      BY <2>2 DEF HelmStep, Uninstall, DeleteFromHistory, Prepare, CleanupRole,
         CleanupBinding, Install, Upgrade, CreateObjects, Wait, At
    <3>2. Status = "deployed"
      BY <1>2 DEF Status
    <3>3. QED
      BY <1>0, <1>2, <3>1, <3>2 DEF HelmInv, Untouched
  <2>3. QED
    BY <2>1, <2>2
<1>3. QED
  BY <1>1, <1>2

-----------------------------------------------------------------------------
(* The plan.                                                               *)
LEMMA StepNames ==
  /\ DOMAIN Steps = 1..7
  /\ AllSteps = {"metrics-server", "vpa", "coredns", "ingress-controller",
                 "cert-manager", "prometheus", "loki", "gateway"}
<1>1. /\ DOMAIN Steps = 1..7
      /\ Steps[1] = "metrics-server" /\ Steps[2] = "vpa" /\ Steps[3] = "coredns"
      /\ Steps[4] = "ingress-controller" /\ Steps[5] = "cert-manager"
      /\ Steps[6] = "prometheus" /\ Steps[7] = "loki"
  BY DEF Steps
<1>2. 1..7 = {1, 2, 3, 4, 5, 6, 7}
  OBVIOUS
<1>3. {Steps[i] : i \in DOMAIN Steps} = {Steps[i] : i \in {1, 2, 3, 4, 5, 6, 7}}
  BY <1>1, <1>2
<1>4. QED
  BY <1>1, <1>3 DEF AllSteps

(* The current step is one of those that are left.                         *)
LEMMA StepFirst ==
  ASSUME todo \subseteq Enabled, "gateway" \notin todo, todo # {}
  PROVE  Step \in todo
<1> DEFINE first(i) == Steps[i] \in todo /\ \A j \in 1..(i - 1) : Steps[j] \notin todo
<1>1. \E i \in 1..7 : Steps[i] \in todo
  <2>1. todo \subseteq AllSteps \ {"gateway"}
    BY BootstrapAssumption
  <2>2. QED
    BY <2>1, StepNames DEF AllSteps
<1>2. \E i \in DOMAIN Steps : first(i)
  <2>1. CASE Steps[1] \in todo
    BY <2>1, StepNames
  <2>2. CASE Steps[1] \notin todo /\ Steps[2] \in todo
    BY <2>2, StepNames
  <2>3. CASE Steps[1] \notin todo /\ Steps[2] \notin todo /\ Steps[3] \in todo
    BY <2>3, StepNames
  <2>4. CASE /\ Steps[1] \notin todo /\ Steps[2] \notin todo /\ Steps[3] \notin todo
             /\ Steps[4] \in todo
    BY <2>4, StepNames
  <2>5. CASE /\ Steps[1] \notin todo /\ Steps[2] \notin todo /\ Steps[3] \notin todo
             /\ Steps[4] \notin todo /\ Steps[5] \in todo
    BY <2>5, StepNames
  <2>6. CASE /\ Steps[1] \notin todo /\ Steps[2] \notin todo /\ Steps[3] \notin todo
             /\ Steps[4] \notin todo /\ Steps[5] \notin todo /\ Steps[6] \in todo
    BY <2>6, StepNames
  <2>7. CASE /\ Steps[1] \notin todo /\ Steps[2] \notin todo /\ Steps[3] \notin todo
             /\ Steps[4] \notin todo /\ Steps[5] \notin todo /\ Steps[6] \notin todo
             /\ Steps[7] \in todo
    BY <2>7, StepNames
  <2>8. QED
    BY <1>1, <2>1, <2>2, <2>3, <2>4, <2>5, <2>6, <2>7
<1>3. first(CHOOSE i \in DOMAIN Steps : first(i))
  BY <1>2, Zenon
<1>4. QED
  BY <1>3 DEF Step

LEMMA ReleaseNames ==
  /\ {"traefik", "old-traefik", "nginx"} \subseteq Releases
  /\ \A s \in Enabled \ {"coredns"} : ReleaseOf(s) \in Releases
  /\ \A s \in AllSteps : ReleaseOf(s) \notin Replaced
  /\ \A s, x \in AllSteps : ReleaseOf(s) = ReleaseOf(x) => s = x
<1>1. /\ {"traefik", "old-traefik", "nginx"} \subseteq Releases
      /\ \A s \in Enabled \ {"coredns"} : ReleaseOf(s) \in Releases
  BY BootstrapAssumption
<1>2. QED
  BY <1>1, StepNames DEF ReleaseOf, Replaced

(* While a step is worked on, it is one of the plan.                       *)
LEMMA CurrentStep ==
  ASSUME BootstrapTypeOK, CallPlaces, at \in InStep
  PROVE  Step \in todo /\ Step \in Enabled /\ Step \in AllSteps /\ Step # "gateway"
<1>1. todo \subseteq Enabled /\ todo # {} /\ "gateway" \notin todo
  BY DEF BootstrapTypeOK, CallPlaces
<1>2. Step \in todo
  BY <1>1, StepFirst
<1>3. QED
  BY <1>1, <1>2, BootstrapAssumption

LEMMA FaultsNext ==
  ASSUME BootstrapTypeOK, HelmInv, CallPlaces, [BootstrapNext]_bootstrapVars
  PROVE  FaultsTyped' /\ (faulty \subseteq faulty' \/ Boot)
<1> DEFINE goal == FaultsTyped' /\ (faulty \subseteq faulty' \/ Boot)
<1>0. ClusterTyped /\ FaultsTyped
  BY BootstrapParts
<1>a. ASSUME NEW x \in Releases \cup AllSteps \cup {"namespaces"}, NoFault \/ FaultOn(x)
      PROVE  goal
  BY <1>0, <1>a, FaultStep
<1>b. ASSUME UNCHANGED <<faults, faulty>> PROVE goal
  BY <1>0, <1>b DEF FaultsTyped
<1>1. CASE Boot
  BY <1>0, <1>1 DEF Boot, FaultsTyped
<1>2. CASE Killed \/ StartIngressController \/ NginxGone \/ MigrateTraefik \/ Installed
           \/ NotInstalled \/ PagesWired \/ GatewayDone
  BY <1>2, <1>b, Zenon DEF Killed, StartIngressController, NginxGone, MigrateTraefik,
     Installed, NotInstalled, PagesWired, GatewayDone
<1>3. CASE NewManager \/ EnsureNamespaces
  <2>1. NoFault \/ FaultOn("ingress-controller") \/ FaultOn("namespaces")
    BY <1>3 DEF NewManager, DetermineIngressPreference, EnsureNamespaces
  <2>2. QED
    BY <1>a, <2>1, StepNames
<1>4. CASE Backoff \/ InstallEssentialComponents \/ NextStep \/ AlreadyThere \/ Settle
  BY <1>4, <1>b, Zenon DEF Backoff, InstallEssentialComponents, NextStep, AlreadyThere,
     Settle, helmVars
<1>5. CASE InstallMetricsServer \/ InstallVPA \/ InstallCertManager \/ InstallPrometheus
           \/ InstallLoki \/ (\E s \in Guarded : AddRepoFails(s))
  <2>1. NoFault \/ FaultOn("prometheus") \/ \E s \in Guarded : FaultOn(s)
    BY <1>5 DEF InstallMetricsServer, InstallVPA, InstallCertManager, InstallPrometheus,
       InstallLoki, InstallRelease, NotPrepared, AddRepoFails
  <2>2. Guarded \subseteq AllSteps /\ "prometheus" \in AllSteps
    BY StepNames DEF Guarded
  <2>3. QED
    BY <1>a, <2>1, <2>2
<1>6. CASE InstallCoreDNSRewrite \/ InstallTraefik \/ PageFails \/ CreateClusterIssuers
           \/ SetupGateway
  <2>1. \/ NoFault \/ FaultOn("coredns") \/ FaultOn("traefik")
        \/ FaultOn("cert-manager") \/ FaultOn("gateway")
    BY <1>6 DEF InstallCoreDNSRewrite, InstallTraefik, PageFails, CreateClusterIssuers,
       CertManagerWebhookNotReady, SetupGateway
  <2>2. /\ {"coredns", "cert-manager", "gateway"} \subseteq AllSteps
        /\ "traefik" \in Releases
    BY StepNames, ReleaseNames
  <2>3. QED
    BY <1>a, <2>1, <2>2
<1>7. CASE EnsureDefaultBackend \/ EnsureErrorMiddleware \/ EnsureCatchAllFallbackRoute
  <2>1. NoFault
    BY <1>7 DEF EnsureDefaultBackend, EnsureErrorMiddleware,
       EnsureCatchAllFallbackRoute, Page
  <2>2. QED
    BY <1>a, <2>1
<1>8. CASE Verify \/ CreateIngress
  <2>1. (NoFault \/ FaultOn(Step)) /\ at \in InStep
    BY <1>8 DEF Verify, CreateIngress, InStep
  <2>2. QED
    BY <1>a, <2>1, CurrentStep
<1>9. CASE Helming
  BY <1>0, <1>9, HelmKeeps DEF Helming, Effect
<1>10. CASE UNCHANGED bootstrapVars
  BY <1>10, <1>b DEF bootstrapVars, helmVars
<1>11. QED
  BY <1>1, <1>2, <1>3, <1>4, <1>5, <1>6, <1>7, <1>8, <1>9, <1>10 DEF BootstrapNext, Work

LEMMA ProcessNext ==
  ASSUME BootstrapTypeOK, CallPlaces, [BootstrapNext]_bootstrapVars
  PROVE  ProcessTyped'
<1>0. ProcessTyped
  BY BootstrapParts
<1>a. /\ \A s : todo \ {s} \subseteq Enabled /\ {} \subseteq Enabled
      /\ \A o \in Objects : Make(o) => created' \subseteq Objects
  BY <1>0 DEF ProcessTyped, Make
<1>b. Skip \/ Done \/ GiveUp => at' \in Places /\ todo' \subseteq Enabled
  BY <1>0 DEF ProcessTyped, Skip, Done, GiveUp, Places
<1>c. {"crds", "rewrite", "issuers", "backend", "middleware", "fallback"} \subseteq Objects
  BY DEF Objects
<1> USE DEF ProcessTyped, process, cluster
<1>1. CASE Boot \/ Killed
  <2>1. runs < MaxRuns => runs + 1 \in 0..MaxRuns
    BY <1>0, BootstrapAssumption
  <2>2. QED
    BY <1>0, <1>1, <2>1 DEF Boot, Killed, Places
<1>2. CASE StartIngressController \/ NginxGone \/ MigrateTraefik \/ PagesWired \/ GatewayDone
           \/ SetupGateway \/ PageFails \/ Backoff \/ NextStep \/ EnsureNamespaces
  BY <1>0, <1>2 DEF StartIngressController, NginxGone, MigrateTraefik, PagesWired,
     GatewayDone, SetupGateway, PageFails, Backoff, NextStep, EnsureNamespaces, Places
<1>3. CASE NewManager
  BY <1>0, <1>3 DEF NewManager, DetermineIngressPreference, Places
<1>4. CASE InstallEssentialComponents
  BY <1>0, <1>4 DEF InstallEssentialComponents, Plan, Places
<1>5. CASE AlreadyThere \/ Settle \/ Verify \/ NotInstalled
  BY <1>0, <1>5, <1>b DEF AlreadyThere, Settle, Verify, NotInstalled
<1>6. CASE Installed
  BY <1>0, <1>6 DEF Installed, Places
<1>7. CASE InstallMetricsServer \/ InstallVPA \/ InstallCertManager \/ InstallPrometheus
           \/ InstallLoki \/ (\E s \in Guarded : AddRepoFails(s)) \/ InstallTraefik
  <2>1. /\ at' \in Places /\ todo' \subseteq Enabled
    <3>1. \/ Skip \/ GiveUp
          \/ at' = "helm" /\ UNCHANGED todo
      BY <1>7 DEF InstallMetricsServer, InstallVPA, InstallCertManager, InstallPrometheus,
         InstallLoki, AddRepoFails, InstallTraefik, InstallRelease, NotPrepared, process
    <3>2. QED
      BY <1>0, <1>b, <3>1 DEF Places
  <2>2. /\ UNCHANGED <<ingressEnabled, monitoringReady, runs, thirdParty, ingressOf>>
        /\ UNCHANGED created \/ Make("crds")
    BY <1>7 DEF InstallMetricsServer, InstallVPA, InstallCertManager, InstallPrometheus,
       InstallLoki, AddRepoFails, InstallTraefik, InstallRelease, NotPrepared,
       InstallPrometheusCRDs
  <2>3. QED
    BY <1>0, <1>a, <1>c, <2>1, <2>2
<1>8. CASE InstallCoreDNSRewrite \/ CreateClusterIssuers
  BY <1>0, <1>8, <1>a, <1>b, <1>c DEF InstallCoreDNSRewrite, CreateClusterIssuers,
     CertManagerWebhookNotReady
<1>9. CASE EnsureDefaultBackend \/ EnsureErrorMiddleware \/ EnsureCatchAllFallbackRoute
  BY <1>0, <1>9, <1>a, <1>c DEF EnsureDefaultBackend, EnsureErrorMiddleware,
     EnsureCatchAllFallbackRoute, Page, Places
<1>10. CASE CreateIngress
  <2>1. UNCHANGED ingressOf \/ \E c \in {"nginx", "traefik"} : RouteBy(c)
    BY <1>10 DEF CreateIngress
  <2>2. ingressOf' \in [Routed -> {"none", "nginx", "traefik"}]
    BY <1>0, <2>1 DEF RouteBy
  <2>3. QED
    BY <1>0, <1>10, <1>b, <2>2 DEF CreateIngress
<1>11. CASE Helming \/ UNCHANGED bootstrapVars
  BY <1>0, <1>11 DEF Helming, bootstrapVars
<1>12. QED
  BY <1>1, <1>2, <1>3, <1>4, <1>5, <1>6, <1>7, <1>8, <1>9, <1>10, <1>11
     DEF BootstrapNext, Work

(* What each step makes of the installer: it goes on, is called, or is     *)
(* done with.                                                              *)
LEMMA CallsMade ==
  ASSUME BootstrapTypeOK, CallPlaces, [BootstrapNext]_bootstrapVars
  PROVE  \/ HelmStep /\ UNCHANGED <<at, todo, process, cluster>>
         \/ /\ UNCHANGED <<release, foreign>>
            /\ \/ op' = Idle
               \/ UNCHANGED op /\ ~Boot
               \/ \E r \in Releases \ Replaced : \E v \in Nat : CallInstall(r, v)
               \/ \E r \in Releases \cap Replaced : CallUninstall(r)
<1> DEFINE goal == /\ UNCHANGED <<release, foreign>>
                   /\ \/ op' = Idle
                      \/ UNCHANGED op /\ ~Boot
                      \/ \E r \in Releases \ Replaced : \E v \in Nat : CallInstall(r, v)
                      \/ \E r \in Releases \cap Replaced : CallUninstall(r)
<1>a. /\ "traefik" \in Releases \ Replaced
      /\ {"nginx", "old-traefik"} \subseteq Releases \cap Replaced
      /\ "gateway" \in Enabled => "gateway" \in Releases \ Replaced
      /\ 1 \in Nat /\ 2 \in Nat
  BY ReleaseNames DEF Replaced, ReleaseOf
<1>b. ASSUME UNCHANGED <<release, foreign, op>>, at # "down" PROVE goal
  BY <1>b DEF Boot
<1>c. ASSUME NEW s, s \notin {"coredns", "ingress-controller"}, InstallRelease(s)
      PROVE  goal
  <2>1. at = "start" /\ Step = s /\ UNCHANGED <<release, foreign>>
        /\ CallInstall(s, ValuesOf(s))
    BY <1>c DEF InstallRelease
  <2>2. s \in Enabled /\ s \in AllSteps
    BY <2>1, CurrentStep DEF InStep
  <2>3. s \in Releases \ Replaced
    BY <1>c, <2>2, ReleaseNames DEF ReleaseOf
  <2>4. ValuesOf(s) \in Nat
    BY BootstrapAssumption DEF ValuesOf, BootstrapTypeOK
  <2>5. QED
    BY <2>1, <2>3, <2>4
<1>1. CASE Boot \/ Killed
  BY <1>1 DEF Boot, Killed, CallPlaces
<1>2. CASE NewManager \/ EnsureNamespaces \/ Backoff \/ InstallEssentialComponents
           \/ NextStep \/ AlreadyThere \/ Settle \/ Verify \/ CreateIngress \/ PageFails
           \/ CreateClusterIssuers \/ InstallCoreDNSRewrite
           \/ (\E s \in Guarded : AddRepoFails(s))
  BY <1>2, <1>b DEF NewManager, EnsureNamespaces, Backoff, InstallEssentialComponents,
     NextStep, AlreadyThere, Settle, Verify, CreateIngress, PageFails,
     CreateClusterIssuers, InstallCoreDNSRewrite, AddRepoFails, NotPrepared, helmVars
<1>3. CASE InstallMetricsServer \/ InstallVPA \/ InstallCertManager \/ InstallLoki
           \/ InstallPrometheus
  <2>1. CASE NotPrepared("prometheus")
    BY <1>b, <2>1 DEF NotPrepared
  <2>2. QED
    BY <1>3, <1>c, <2>1 DEF InstallMetricsServer, InstallVPA, InstallCertManager,
       InstallLoki, InstallPrometheus
<1>4. CASE StartIngressController \/ MigrateTraefik
  BY <1>4, <1>a DEF StartIngressController, MigrateTraefik, Boot
<1>5. CASE NginxGone \/ Installed \/ NotInstalled \/ PagesWired \/ GatewayDone
  BY <1>5 DEF NginxGone, Installed, NotInstalled, PagesWired, GatewayDone
<1>6. CASE InstallTraefik \/ SetupGateway
  BY <1>6, <1>a DEF InstallTraefik, SetupGateway, Boot
<1>7. CASE EnsureDefaultBackend \/ EnsureErrorMiddleware \/ EnsureCatchAllFallbackRoute
  BY <1>7, <1>a DEF EnsureDefaultBackend, EnsureErrorMiddleware,
     EnsureCatchAllFallbackRoute, Page, Boot
<1>8. CASE Helming
  BY <1>8 DEF Helming
<1>9. CASE UNCHANGED bootstrapVars
  BY <1>9 DEF bootstrapVars, helmVars, Boot
<1>10. QED
  BY <1>1, <1>2, <1>3, <1>4, <1>5, <1>6, <1>7, <1>8, <1>9 DEF BootstrapNext, Work

LEMMA HelmInvNext ==
  ASSUME BootstrapTypeOK, HelmInv, CallPlaces, [BootstrapNext]_bootstrapVars
  PROVE  ClusterTyped' /\ HelmInv'
<1>0. ClusterTyped /\ FaultsTyped
  BY BootstrapParts
<1>1. CASE HelmStep
  BY <1>0, <1>1, HelmKeeps DEF Effect
<1>2. CASE UNCHANGED <<release, foreign>> /\ ~HelmStep
  <2>1. ClusterTyped' /\ Recorded'
    BY <1>0, <1>2 DEF ClusterTyped, Recorded, HelmInv
  <2>2. CASE op' = Idle
    BY <2>1, <2>2 DEF HelmInv, OpTyped, CallPath, CallFound, Untouched, CallReturned
  <2>3. CASE UNCHANGED op /\ ~Boot
    <3>1. faulty \subseteq faulty'
      BY <2>3, FaultsNext
    <3>2. QED
      BY <1>2, <2>1, <2>3, <3>1 DEF HelmInv, OpTyped, CallPath, CallFound, Untouched,
         CallReturned, R, Status, SameVersion
  <2>4. ASSUME NEW r \in Releases \ Replaced, NEW v \in Nat, CallInstall(r, v)
        PROVE  HelmInv'
    <3>1. /\ op' \in Calls /\ op'.at = "history" /\ op'.call = "install"
          /\ op'.release = r
      BY <2>4 DEF CallInstall, Calls, OpSteps, OpCalls
    <3>2. QED
      BY <2>1, <3>1 DEF HelmInv, OpTyped, CallPath, CallFound, Untouched, CallReturned
  <2>5. ASSUME NEW r \in Releases \cap Replaced, CallUninstall(r)
        PROVE  HelmInv'
    <3>1. /\ op' \in Calls /\ op'.at = "uninstall" /\ op'.call = "remove"
          /\ op'.release = r
      BY <2>5 DEF CallUninstall, Calls, OpSteps, OpCalls
    <3>2. QED
      BY <2>1, <3>1 DEF HelmInv, OpTyped, CallPath, CallFound, Untouched, CallReturned
  <2>6. QED
    BY <1>2, <2>1, <2>2, <2>3, <2>4, <2>5, CallsMade
<1>3. QED
  BY <1>1, <1>2, CallsMade

LEMMA StepStays == UNCHANGED todo => Step' = Step
BY DEF Step

LEMMA CallPlacesNext ==
  ASSUME BootstrapTypeOK, HelmInv, CallPlaces, [BootstrapNext]_bootstrapVars
  PROVE  CallPlaces'
<1>0. /\ at \in InStep => /\ todo # {} /\ "gateway" \notin todo
                          /\ Step \in Enabled /\ Step \in AllSteps
      /\ "gateway" \notin todo
      /\ UNCHANGED todo => Step' = Step
  BY CurrentStep, StepStays DEF CallPlaces
<1>a. ASSUME NEW r, NEW v, CallInstall(r, v)
      PROVE  op' # Idle /\ op'.call = "install" /\ op'.release = r
  BY <1>a DEF CallInstall, Idle
<1>b. ASSUME NEW r, CallUninstall(r)
      PROVE  op' # Idle /\ op'.call = "remove" /\ op'.release = r
  BY <1>b DEF CallUninstall, Idle
<1>c. /\ CallPlaces
      /\ InStep = {"nginx", "legacy", "traefik", "pages", "middleware", "fallback",
                   "wired", "start", "helm", "verify", "webhook", "route",
                   "route-failed", "settle"}
  BY DEF InStep, Controller
<1> USE DEF Skip, Done, GiveUp, Controller
<1>1. CASE Boot \/ Killed \/ NewManager \/ EnsureNamespaces \/ Backoff
  BY <1>0, <1>1, <1>c DEF CallPlaces, Boot, Killed, NewManager, EnsureNamespaces, Backoff,
     helmVars
<1>2. CASE InstallEssentialComponents
  <2>1. "gateway" \notin todo'
    BY <1>2 DEF InstallEssentialComponents, Plan, EssentialSteps, Essentials
  <2>2. QED
    BY <1>2, <1>c, <2>1 DEF InstallEssentialComponents, CallPlaces, helmVars
<1>3. CASE NextStep
  BY <1>0, <1>3, <1>c DEF NextStep, CallPlaces, helmVars
<1>4. CASE AlreadyThere \/ Settle \/ Verify \/ CreateIngress \/ CreateClusterIssuers
           \/ InstallCoreDNSRewrite
  BY <1>0, <1>4, <1>c DEF AlreadyThere, Settle, Verify, CreateIngress,
     CreateClusterIssuers, InstallCoreDNSRewrite, CallPlaces, helmVars
<1>5. CASE (\E s \in Guarded : AddRepoFails(s)) \/ NotPrepared("prometheus")
  <2>1. at = "start" /\ GiveUp /\ UNCHANGED op
    BY <1>5 DEF AddRepoFails, NotPrepared
  <2>2. QED
    BY <1>0, <1>c, <2>1 DEF CallPlaces
<1>6. ASSUME NEW s \in {"metrics-server", "vpa", "cert-manager", "prometheus", "loki"},
             InstallRelease(s)
      PROVE  CallPlaces'
  <2>1. /\ at = "start" /\ Step = s /\ at' = "helm" /\ UNCHANGED todo
        /\ CallInstall(s, ValuesOf(s))
    BY <1>6 DEF InstallRelease
  <2>2. ReleaseOf(Step') = s
    BY <1>0, <2>1 DEF ReleaseOf
  <2>3. QED
    BY <1>0, <1>a, <1>c, <2>1, <2>2 DEF CallPlaces
<1>7. CASE StartIngressController \/ NginxGone \/ MigrateTraefik
  BY <1>0, <1>7, <1>b, <1>c DEF StartIngressController, NginxGone, MigrateTraefik,
     CallPlaces, Replaced
<1>8. CASE InstallTraefik
  <2>1. CASE at' = "helm" /\ CallInstall("traefik", 1) /\ UNCHANGED todo
    <3>1. Step' = "ingress-controller"
      BY <1>0, <1>8, <2>1 DEF InstallTraefik, CallPlaces
    <3>2. ReleaseOf(Step') = "traefik"
      BY <3>1 DEF ReleaseOf
    <3>3. at \in InStep
      BY <1>8, <1>c DEF InstallTraefik
    <3>4. QED
      BY <1>0, <1>a, <1>c, <2>1, <3>2, <3>3 DEF CallPlaces
  <2>2. CASE Skip /\ op' = Idle
    BY <1>0, <1>c, <2>2 DEF CallPlaces
  <2>3. QED
    BY <1>8, <2>1, <2>2 DEF InstallTraefik
<1>9. CASE Installed
  <2>1. /\ op' = Idle /\ UNCHANGED todo /\ at = "helm"
        /\ at' \in {"verify", "pages", "webhook", "route", "settle"}
        /\ at' = "pages" => Step = "ingress-controller"
    BY <1>9 DEF Installed, Essentials, Routed
  <2>2. QED
    BY <1>0, <1>c, <2>1 DEF CallPlaces
<1>10. CASE NotInstalled
  BY <1>0, <1>10, <1>c DEF NotInstalled, CallPlaces
<1>11. CASE EnsureDefaultBackend \/ EnsureErrorMiddleware \/ PageFails \/ PagesWired
  BY <1>0, <1>11, <1>c DEF EnsureDefaultBackend, EnsureErrorMiddleware, PageFails,
     PagesWired, Page, CallPlaces
<1>12. CASE EnsureCatchAllFallbackRoute
  BY <1>0, <1>12, <1>a, <1>c DEF EnsureCatchAllFallbackRoute, Page, CallPlaces
<1>13. CASE SetupGateway
  BY <1>0, <1>13, <1>a, <1>c DEF SetupGateway, CallPlaces
<1>14. CASE GatewayDone
  BY <1>0, <1>14, <1>c DEF GatewayDone, CallPlaces
<1>15. CASE Helming
  <2>1. /\ UNCHANGED <<at, todo>> /\ Step' = Step
        /\ op \in Calls /\ op' \in Calls /\ op'.release = op.release
    BY <1>0, <1>15, BootstrapParts, HelmKeeps DEF Helming, Effect, R
  <2>2. op # Idle /\ op' # Idle
    BY <2>1 DEF Calls, Idle
  <2>3. op'.call = "remove" <=> op.call = "remove"
    BY <1>15, <2>1, <2>2, BootstrapParts, HelmKeeps DEF Helming, HelmInv, CallPath
  <2>4. QED
    BY <1>c, <2>1, <2>2, <2>3 DEF CallPlaces
<1>16. CASE UNCHANGED bootstrapVars
  BY <1>0, <1>16, <1>c DEF bootstrapVars, helmVars, CallPlaces
<1>17. QED
  BY <1>1, <1>2, <1>3, <1>4, <1>5, <1>6, <1>7, <1>8, <1>9, <1>10, <1>11, <1>12, <1>13,
     <1>14, <1>15, <1>16
     DEF BootstrapNext, Work, InstallMetricsServer, InstallVPA, InstallCertManager,
     InstallPrometheus, InstallLoki

-----------------------------------------------------------------------------
(* The values of a release are those of a call about it, or none.          *)
LEMMA HelmValues ==
  ASSUME ClusterTyped, FaultsTyped, HelmInv, HelmStep
  PROVE  release'[R].values \in {release[R].values, op.values, 0}
<1>1. CASE History \/ Prepare
  BY <1>1, HistoryStep, PrepareStep
<1>2. CASE Uninstall \/ DeleteFromHistory
  BY <1>2, UninstallStep, PurgeStep
<1>3. CASE CleanupRole \/ CleanupBinding
  BY <1>3, RoleStep
<1>4. CASE Install \/ Upgrade
  BY <1>4, RunStep
<1>5. CASE CreateObjects \/ Wait
  BY <1>5, ObjectsStep
<1>6. QED
  BY <1>1, <1>2, <1>3, <1>4, <1>5 DEF HelmStep

(* The middleware is there before Traefik is told of it.                   *)
LEMMA PagesNext ==
  ASSUME BootstrapTypeOK, HelmInv, CallPlaces, PagesMade, MiddlewareThere,
         [BootstrapNext]_bootstrapVars
  PROVE  PagesMade' /\ MiddlewareThere'
<1>a. ASSUME UNCHANGED release, created \subseteq created' PROVE MiddlewareThere'
  BY <1>a DEF MiddlewareThere
<1>b. ASSUME UNCHANGED op \/ op' = Idle \/ (op'.release = "traefik" => op'.values # 2),
             created \subseteq created', at' \notin {"middleware", "fallback"}
      PROVE  PagesMade'
  BY <1>b DEF PagesMade
<1>c. ASSUME NEW r, NEW v, CallInstall(r, v)
      PROVE  op'.release = r /\ op'.values = v
  BY <1>c DEF CallInstall
<1>d. ASSUME NEW r, CallUninstall(r) PROVE op'.values = 0
  BY <1>d DEF CallUninstall
<1>1. CASE Boot \/ Killed \/ NewManager \/ EnsureNamespaces \/ Backoff
           \/ InstallEssentialComponents \/ NextStep \/ Settle \/ Verify
           \/ AlreadyThere \/ NginxGone \/ Installed \/ PagesWired \/ GatewayDone
           \/ PageFails
  <2>1. /\ UNCHANGED <<release, created>> /\ (UNCHANGED op \/ op' = Idle)
        /\ at' \notin {"middleware", "fallback"}
    BY <1>1 DEF Boot, Killed, NewManager, EnsureNamespaces, Backoff,
       InstallEssentialComponents, NextStep, Settle, Verify, AlreadyThere, NginxGone,
       Installed, PagesWired, GatewayDone, PageFails, cluster, helmVars, Skip, Done
  <2>2. QED
    BY <1>a, <1>b, <2>1
<1>2. CASE (\E s \in Guarded : AddRepoFails(s)) \/ NotPrepared("prometheus")
           \/ NotInstalled
  <2>1. /\ UNCHANGED <<release, created>> /\ (UNCHANGED op \/ op' = Idle)
        /\ at' \notin {"middleware", "fallback"}
    BY <1>2 DEF AddRepoFails, NotPrepared, NotInstalled, cluster, GiveUp, Skip
  <2>2. QED
    BY <1>a, <1>b, <2>1
<1>3. CASE InstallCoreDNSRewrite \/ CreateClusterIssuers \/ CreateIngress
  <2>1. /\ UNCHANGED <<release, op>> /\ created \subseteq created'
        /\ at' \notin {"middleware", "fallback"}
    BY <1>3 DEF InstallCoreDNSRewrite, CreateClusterIssuers, CreateIngress, Make,
       CertManagerWebhookNotReady, Skip, Done
  <2>2. QED
    BY <1>a, <1>b, <2>1
<1>4. ASSUME NEW s \in {"metrics-server", "vpa", "cert-manager", "prometheus", "loki"},
             InstallRelease(s), UNCHANGED created \/ InstallPrometheusCRDs
      PROVE  PagesMade' /\ MiddlewareThere'
  <2>1. /\ UNCHANGED release /\ created \subseteq created' /\ at' = "helm"
        /\ op'.release = s
    BY <1>4, <1>c DEF InstallRelease, InstallPrometheusCRDs, Make
  <2>2. QED
    BY <1>a, <1>b, <2>1
<1>5. CASE StartIngressController \/ MigrateTraefik \/ InstallTraefik \/ SetupGateway
  <2>1. /\ UNCHANGED <<release, created>> /\ at' \notin {"middleware", "fallback"}
        /\ \/ UNCHANGED op \/ op' = Idle
           \/ \E r : CallUninstall(r) \/ CallInstall(r, 1)
    BY <1>5 DEF StartIngressController, MigrateTraefik, InstallTraefik, SetupGateway,
       cluster, Skip
  <2>2. QED
    BY <1>a, <1>b, <1>c, <1>d, <2>1
<1>6. CASE EnsureDefaultBackend \/ EnsureErrorMiddleware
  <2>1. /\ UNCHANGED <<release, op>> /\ created \subseteq created'
        /\ at' = "middleware" => "backend" \in created'
        /\ at' = "fallback" => {"backend", "middleware"} \subseteq created'
        /\ at' \in {"middleware", "fallback"}
    BY <1>6 DEF EnsureDefaultBackend, EnsureErrorMiddleware, Page, Make, PagesMade
  <2>2. QED
    BY <1>a, <2>1 DEF PagesMade
<1>7. CASE EnsureCatchAllFallbackRoute
  <2>1. /\ UNCHANGED release /\ created \subseteq created' /\ at' = "wired"
        /\ {"backend", "middleware"} \subseteq created
    BY <1>7 DEF EnsureCatchAllFallbackRoute, Page, Make, PagesMade
  <2>2. QED
    BY <1>a, <2>1 DEF PagesMade
<1>8. CASE Helming
  <2>1. ClusterTyped /\ FaultsTyped /\ HelmStep /\ UNCHANGED <<at, created>>
    BY <1>8, BootstrapParts DEF Helming, cluster
  <2>2. /\ op \in Calls /\ op'.release = R /\ op'.values = op.values
        /\ \A r \in Releases : r # R => release'[r] = release[r]
        /\ release'[R].values \in {release[R].values, op.values, 0}
    BY <2>1, HelmKeeps, HelmValues DEF Effect
  <2>3. op # Idle /\ "traefik" \in Releases
    BY <2>2, ReleaseNames DEF Calls, Idle
  <2>4. PagesMade'
    BY <2>1, <2>2, <2>3 DEF PagesMade, R
  <2>5. MiddlewareThere'
    BY <2>1, <2>2, <2>3 DEF PagesMade, MiddlewareThere, R
  <2>6. QED
    BY <2>4, <2>5
<1>9. CASE UNCHANGED bootstrapVars
  BY <1>9 DEF bootstrapVars, helmVars, cluster, PagesMade, MiddlewareThere
<1>10. QED
  BY <1>1, <1>2, <1>3, <1>4, <1>5, <1>6, <1>7, <1>8, <1>9
     DEF BootstrapNext, Work, InstallMetricsServer, InstallVPA, InstallCertManager,
         InstallPrometheus, InstallLoki

-----------------------------------------------------------------------------
(* What is accounted for stays so, while the process lives and the         *)
(* installer is busy with another release.                                 *)
LEMMA AccountedStays ==
  ASSUME BootstrapTypeOK, HelmInv, CallPlaces, [BootstrapNext]_bootstrapVars, ~Boot,
         NEW s \in Enabled \ {"coredns"}, Accounted(s),
         HelmStep => R # ReleaseOf(s)
  PROVE  Accounted(s)'
<1>0. ReleaseOf(s) \in Releases /\ faulty \subseteq faulty'
  BY ReleaseNames, FaultsNext
<1>1. release'[ReleaseOf(s)] = release[ReleaseOf(s)] /\ foreign'[ReleaseOf(s)] = foreign[ReleaseOf(s)]
  <2>1. CASE HelmStep
    BY <1>0, <2>1, BootstrapParts, HelmKeeps DEF Effect
  <2>2. CASE UNCHANGED <<release, foreign>>
    BY <2>2
  <2>3. QED
    BY <2>1, <2>2, CallsMade
<1>2. QED
  BY <1>0, <1>1 DEF Accounted, LeftBroken, Present

(* A call at the current step is about its release only.                   *)
LEMMA CallElsewhere ==
  ASSUME BootstrapTypeOK, HelmInv, CallPlaces, HelmStep, NEW s \in Plan \ todo
  PROVE  R # ReleaseOf(s)
<1>1. /\ s \in AllSteps /\ s # "gateway" /\ ReleaseOf(s) \notin Replaced
      /\ \A x \in AllSteps : ReleaseOf(s) = ReleaseOf(x) => s = x
  BY ReleaseNames, BootstrapAssumption DEF Plan
<1>2. op # Idle
  BY BootstrapParts, HelmKeeps DEF Effect, Calls, Idle
<1>3. /\ {"gateway", "ingress-controller"} \subseteq AllSteps
      /\ ReleaseOf("gateway") = "gateway" /\ ReleaseOf("ingress-controller") = "traefik"
  BY StepNames DEF ReleaseOf
<1>4. CASE at \in {"helm", "wired"}
  <2>1. Step \in todo /\ Step \in AllSteps
    BY <1>4, CurrentStep DEF InStep, Controller
  <2>2. R = ReleaseOf(Step)
    BY <1>3, <1>4 DEF CallPlaces, R, Controller
  <2>3. QED
    BY <1>1, <2>1, <2>2
<1>5. CASE at = "gateway"
  BY <1>1, <1>3, <1>5 DEF CallPlaces, R
<1>6. CASE at \in {"nginx", "traefik"}
  BY <1>1, <1>2, <1>6 DEF CallPlaces, R
<1>7. QED
  BY <1>2, <1>4, <1>5, <1>6 DEF CallPlaces

LEMMA PlanDoneNext ==
  ASSUME BootstrapTypeOK, HelmInv, CallPlaces, PlanDone, [BootstrapNext]_bootstrapVars
  PROVE  PlanDone'
<1> DEFINE early == {"down", "manager", "namespaces", "backoff", "essential"}
           handled == {"verify", "webhook", "route", "route-failed", "settle"}
           last == {"down", "ready", "gateway", "up"}
<1>0. Plan \subseteq Enabled \ {"coredns"} /\ FaultsTyped'
  BY FaultsNext DEF Plan
<1>a. ASSUME at' \in early, monitoringReady' => at' = "down" PROVE PlanDone'
  BY <1>a DEF PlanDone
<1>b. ASSUME at \notin early, ~Boot PROVE \A s \in Plan \ todo : Accounted(s)'
  <2>1. ASSUME NEW s \in Plan \ todo PROVE Accounted(s)'
    <3>1. Accounted(s) /\ (HelmStep => R # ReleaseOf(s))
      BY <1>b, <2>1, CallElsewhere DEF PlanDone
    <3>2. QED
      BY <1>0, <1>b, <2>1, <3>1, AccountedStays
  <2>2. QED
    BY <2>1
\* A step goes on, or ends accounted for.
<1>c. ASSUME at \notin early, ~Boot, UNCHANGED <<ingressEnabled, monitoringReady>>,
             at \in last => at' \in last,
             \/ UNCHANGED todo /\ at' \notin handled
             \/ /\ \A s \in Plan : s = Step => Accounted(s)'
                /\ \/ UNCHANGED todo
                   \/ todo' = todo \ {Step} /\ at' \notin handled
      PROVE  PlanDone'
  <2>1. Plan' = Plan
    BY <1>c DEF Plan
  <2>2. \A s \in Plan \ todo : Accounted(s)'
    BY <1>b, <1>c
  <2>3. \A s \in Plan \ todo' : Accounted(s)'
    <3>1. ASSUME NEW s \in Plan \ todo' PROVE s \in Plan \ todo \/ s = Step
      BY <1>c, <3>1
    <3>2. ASSUME NEW s \in Plan \ todo', s \notin Plan \ todo PROVE Accounted(s)'
      BY <1>c, <3>1, <3>2
    <3>3. QED
      BY <2>2, <3>2
  <2>4. monitoringReady' => at' \in last
    BY <1>c DEF PlanDone
  <2>5. at' \in handled /\ Step' \in Plan' => Accounted(Step)'
    <3>1. at' \in handled => UNCHANGED todo /\ \A s \in Plan : s = Step => Accounted(s)'
      BY <1>c
    <3>2. UNCHANGED todo => Step' = Step
      BY StepStays
    <3>3. QED
      BY <2>1, <3>1, <3>2
  <2>6. QED
    BY <2>1, <2>3, <2>4, <2>5 DEF PlanDone
\* The current step is accounted for: by a call that failed, or before.
<1>d. ASSUME FaultOn(Step) \/ FaultOn(ReleaseOf(Step))
      PROVE  \A s \in Plan : s = Step => Accounted(s)'
  <2>1. ASSUME NEW s \in Plan, s = Step PROVE Accounted(s)'
    <3>1. s \in faulty' \/ ReleaseOf(s) \in faulty'
      BY <1>d, <2>1 DEF FaultOn
    <3>2. QED
      BY <3>1 DEF Accounted
  <2>2. QED
    BY <2>1
<1>e. ASSUME at \notin early, ~Boot, ~HelmStep, Step \in Plan => Accounted(Step)
      PROVE  \A s \in Plan : s = Step => Accounted(s)'
  <2>1. ASSUME NEW s \in Plan, s = Step PROVE Accounted(s)'
    BY <1>0, <1>e, <2>1, AccountedStays
  <2>2. QED
    BY <2>1
\* So is what a call of the installer returned for.
<1>f. ASSUME at \in {"helm", "wired"}, Returned PROVE Step \in Plan => Accounted(Step)
  <2>1. op # Idle /\ op.call # "remove" /\ R = ReleaseOf(Step)
    <3>1. op # Idle /\ op.call # "remove"
      BY <1>f DEF CallPlaces
    <3>2. R = ReleaseOf(Step)
      BY <1>f DEF CallPlaces, R, Controller, ReleaseOf
    <3>3. QED
      BY <3>1, <3>2
  <2>2. \/ release[ReleaseOf(Step)].status = "deployed"
        \/ ReleaseOf(Step) \in faulty \/ foreign[ReleaseOf(Step)] = {"binding"}
    BY <1>f, <2>1 DEF HelmInv, CallReturned, Returned, Status
  <2>3. QED
    BY <2>2 DEF Accounted, LeftBroken
<1>g. at \in handled /\ Step \in Plan => Accounted(Step)
  BY DEF PlanDone
<1> USE DEF process
<1>1. CASE Boot \/ Killed \/ NewManager \/ EnsureNamespaces \/ Backoff
  BY <1>1, <1>a DEF Boot, Killed, NewManager, EnsureNamespaces, Backoff, PlanDone
<1>2. CASE InstallEssentialComponents
  <2>1. Plan \subseteq todo' /\ at' = "next" /\ Plan' = Plan
    BY <1>2 DEF InstallEssentialComponents, Plan
  <2>2. ~monitoringReady'
    BY <1>2 DEF InstallEssentialComponents, PlanDone
  <2>3. QED
    BY <2>1, <2>2 DEF PlanDone
<1>3. CASE NextStep
  <2>1. /\ at = "next" /\ ~Boot /\ UNCHANGED <<todo, ingressEnabled>>
        /\ \/ at' = "start" /\ UNCHANGED monitoringReady
           \/ at' = "ready"
    BY <1>3 DEF NextStep, Boot
  <2>2. \A s \in Plan \ todo : Accounted(s)'
    BY <1>b, <2>1
  <2>3. Plan' = Plan
    BY <2>1 DEF Plan
  <2>4. QED
    BY <2>1, <2>2, <2>3 DEF PlanDone
<1>4. CASE StartIngressController \/ NginxGone \/ MigrateTraefik
           \/ EnsureDefaultBackend \/ EnsureErrorMiddleware \/ EnsureCatchAllFallbackRoute
           \/ SetupGateway \/ GatewayDone
  <2>1. /\ at \notin early /\ ~Boot /\ UNCHANGED <<ingressEnabled, monitoringReady, todo>>
        /\ at \in last => at' \in last
        /\ at' \notin handled
    BY <1>4 DEF StartIngressController, NginxGone, MigrateTraefik, EnsureDefaultBackend,
       EnsureErrorMiddleware, EnsureCatchAllFallbackRoute, Page, SetupGateway,
       GatewayDone, Boot
  <2>2. QED
    BY <1>c, <2>1
<1>5. ASSUME NEW s, InstallRelease(s) PROVE PlanDone'
  <2>1. /\ at \notin early /\ ~Boot /\ UNCHANGED <<ingressEnabled, monitoringReady, todo>>
        /\ at \notin last /\ at' \notin handled
    BY <1>5 DEF InstallRelease, Boot
  <2>2. QED
    BY <1>c, <2>1
<1>6. ASSUME NEW s, NotPrepared(s) PROVE PlanDone'
  <2>1. /\ at = "start" /\ ~Boot /\ UNCHANGED <<ingressEnabled, monitoringReady>>
        /\ FaultOn(Step) /\ GiveUp
    BY <1>6 DEF NotPrepared, Boot
  <2>2. UNCHANGED todo \/ (todo' = todo \ {Step} /\ at' = "next")
    BY <2>1 DEF GiveUp, Skip
  <2>3. QED
    BY <1>c, <1>d, <2>1, <2>2
<1>7. CASE AlreadyThere
  <2>1. /\ at = "start" /\ ~Boot /\ ~HelmStep
        /\ UNCHANGED <<ingressEnabled, monitoringReady>>
        /\ Step \in Guarded /\ Present(Step) /\ (Skip \/ Done)
    <3>1. ~HelmStep
      <4>1. op = Idle
        BY <1>7 DEF AlreadyThere, CallPlaces
      <4>2. SUFFICES ASSUME HelmStep PROVE FALSE
        OBVIOUS
      <4>3. op \in Calls
        BY <4>2, BootstrapParts, HelmKeeps DEF Effect
      <4>4. QED
        BY <4>1, <4>3 DEF Calls, Idle
    <3>2. QED
      BY <1>7, <3>1 DEF AlreadyThere, Boot
  <2>2. Accounted(Step)
    BY <2>1 DEF Accounted, LeftBroken
  <2>3. QED
    BY <1>c, <1>e, <2>1, <2>2 DEF Skip, Done
<1>8. CASE InstallCoreDNSRewrite
  <2>1. /\ at = "start" /\ ~Boot /\ UNCHANGED <<ingressEnabled, monitoringReady>>
        /\ Step \notin Plan /\ Skip
    BY <1>8 DEF InstallCoreDNSRewrite, Boot, Plan
  <2>2. QED
    BY <1>c, <2>1 DEF Skip
<1>9. CASE InstallTraefik
  <2>1. /\ at = "traefik" /\ ~Boot /\ UNCHANGED <<ingressEnabled, monitoringReady>>
        /\ Step = "ingress-controller"
        /\ \/ UNCHANGED todo /\ at' = "helm"
           \/ Skip /\ FaultOn("traefik")
    BY <1>9 DEF InstallTraefik, Boot, CallPlaces, Controller
  <2>2. ReleaseOf(Step) = "traefik"
    BY <2>1 DEF ReleaseOf
  <2>3. QED
    BY <1>c, <1>d, <2>1, <2>2 DEF Skip
<1>10. CASE Installed \/ NotInstalled
  <2>1. /\ at = "helm" /\ ~Boot /\ Returned /\ UNCHANGED <<ingressEnabled, monitoringReady>>
        /\ UNCHANGED todo \/ (todo' = todo \ {Step} /\ at' = "next")
    BY <1>10 DEF Installed, NotInstalled, Returned, Boot, GiveUp, Skip
  <2>2. ~HelmStep
    BY <2>1 DEF HelmStep, History, Uninstall, DeleteFromHistory, Prepare, CleanupRole,
       CleanupBinding, Install, Upgrade, CreateObjects, Wait, At, Returned
  <2>3. QED
    BY <1>c, <1>e, <1>f, <2>1, <2>2
<1>11. CASE PagesWired
  <2>1. /\ at = "wired" /\ ~Boot /\ Returned /\ UNCHANGED <<ingressEnabled, monitoringReady>>
        /\ UNCHANGED todo
    BY <1>11 DEF PagesWired, Boot
  <2>2. ~HelmStep
    BY <2>1 DEF HelmStep, History, Uninstall, DeleteFromHistory, Prepare, CleanupRole,
       CleanupBinding, Install, Upgrade, CreateObjects, Wait, At, Returned
  <2>3. QED
    BY <1>c, <1>e, <1>f, <2>1, <2>2
<1>12. CASE PageFails
  <2>1. /\ at \in {"pages", "middleware", "fallback"} /\ ~Boot /\ UNCHANGED todo
        /\ UNCHANGED <<ingressEnabled, monitoringReady>> /\ FaultOn("traefik")
    BY <1>12 DEF PageFails, Boot
  <2>2. ReleaseOf(Step) = "traefik"
    BY <2>1 DEF CallPlaces, Controller, ReleaseOf
  <2>3. QED
    BY <1>c, <1>d, <2>1, <2>2
<1>13. CASE Verify \/ CreateIngress \/ Settle \/ CreateClusterIssuers
  <2>1. /\ at \in handled /\ ~Boot /\ UNCHANGED <<ingressEnabled, monitoringReady>>
        /\ UNCHANGED todo \/ (todo' = todo \ {Step} /\ at' = "next")
    BY <1>13 DEF Verify, CreateIngress, Settle, CreateClusterIssuers, Boot, Skip, Done
  <2>2. ~HelmStep
    <3>1. op = Idle
      BY <2>1 DEF CallPlaces
    <3>2. SUFFICES ASSUME HelmStep PROVE FALSE
      OBVIOUS
    <3>3. op \in Calls
      BY <3>2, BootstrapParts, HelmKeeps DEF Effect
    <3>4. QED
      BY <3>1, <3>3 DEF Calls, Idle
  <2>3. QED
    BY <1>c, <1>e, <1>g, <2>1, <2>2
<1>14. CASE Helming
  <2>1. HelmStep /\ UNCHANGED <<at, todo, ingressEnabled, monitoringReady>>
    BY <1>14 DEF Helming
  <2>2. op \in Calls /\ op # Idle
    BY <2>1, BootstrapParts, HelmKeeps DEF Effect, Calls, Idle
  <2>3. at \in {"helm", "nginx", "traefik", "wired", "gateway"}
    BY <2>2 DEF CallPlaces
  <2>4. ~Boot
    BY <2>3 DEF Boot
  <2>5. QED
    BY <1>c, <2>1, <2>3, <2>4
<1>15. CASE UNCHANGED bootstrapVars
  <2>1. /\ UNCHANGED <<release, foreign, faulty, at, todo, ingressEnabled, monitoringReady>>
        /\ Step' = Step
    BY <1>15, StepStays DEF bootstrapVars, helmVars
  <2>2. Plan' = Plan /\ \A s : Accounted(s)' <=> Accounted(s)
    BY <2>1 DEF Plan, Accounted, LeftBroken, Present
  <2>3. QED
    BY <2>1, <2>2 DEF PlanDone
<1>16. QED
  BY <1>1, <1>2, <1>3, <1>4, <1>5, <1>6, <1>7, <1>8, <1>9, <1>10, <1>11, <1>12, <1>13,
     <1>14, <1>15
     DEF BootstrapNext, Work, InstallMetricsServer, InstallVPA, InstallCertManager,
         InstallPrometheus, InstallLoki, AddRepoFails

-----------------------------------------------------------------------------
BootstrapInv ==
  /\ BootstrapTypeOK /\ HelmInv /\ CallPlaces
  /\ PagesMade /\ MiddlewareThere /\ PlanDone

LEMMA BootstrapInvariance == BootstrapSpec => []BootstrapInv
<1>1. BootstrapInit => BootstrapInv
  <2> SUFFICES ASSUME BootstrapInit PROVE BootstrapInv
    OBVIOUS
  <2>1. PICK there \in Before :
          release = [r \in Releases |->
            IF r \in there THEN [status |-> "deployed", up |-> TRUE, values |-> 0]
            ELSE Gone]
    BY DEF BootstrapInit
  <2>2. /\ release \in [Releases -> Records]
        /\ \A r \in Releases : release[r].values = 0
        /\ \A r \in Releases \ Replaced : release[r].status = "none"
    <3> DEFINE own == [status |-> "deployed", up |-> TRUE, values |-> 0]
    <3>1. own \in Records /\ own.values = 0
      BY DEF Records, Statuses
    <3>2. there \subseteq Replaced
      BY BootstrapAssumption DEF Replaced
    <3> HIDE DEF own
    <3>3. \A r \in Releases : release[r] = IF r \in there THEN own ELSE Gone
      BY <2>1 DEF own
    <3>4. release = [r \in Releases |-> IF r \in there THEN own ELSE Gone]
      BY <2>1 DEF own
    <3>5. QED
      BY <3>1, <3>2, <3>3, <3>4, GoneRecord
  <2>3. ClusterTyped
    BY <2>2 DEF BootstrapInit, ClusterTyped
  <2>4. FaultsTyped /\ ProcessTyped
    <3>1. 0 \in 0..MaxFaults /\ 0 \in 0..MaxRuns
      BY HelmAssumption, BootstrapAssumption
    <3>2. ingressOf \in [Routed -> {"none", "nginx", "traefik"}]
      BY DEF BootstrapInit
    <3>3. "down" \in Places
      BY DEF Places
    <3>4. QED
      BY <3>1, <3>2, <3>3 DEF BootstrapInit, FaultsTyped, ProcessTyped
  <2>5. HelmInv
    BY <2>2 DEF BootstrapInit, HelmInv, OpTyped, CallPath, Recorded, CallFound,
       Untouched, CallReturned
  <2>6. CallPlaces
    BY DEF BootstrapInit, CallPlaces, InStep, Controller
  <2>7. PagesMade /\ PlanDone
    BY DEF BootstrapInit, PagesMade, PlanDone
  <2>8. MiddlewareThere
    BY <2>2, ReleaseNames DEF MiddlewareThere
  <2>9. QED
    BY <2>3, <2>4, <2>5, <2>6, <2>7, <2>8, BootstrapParts DEF BootstrapInv
<1>2. BootstrapInv /\ [BootstrapNext]_bootstrapVars => BootstrapInv'
  <2> SUFFICES ASSUME BootstrapInv, [BootstrapNext]_bootstrapVars PROVE BootstrapInv'
    OBVIOUS
  <2>1. /\ BootstrapTypeOK /\ HelmInv /\ CallPlaces
        /\ PagesMade /\ MiddlewareThere /\ PlanDone
    BY DEF BootstrapInv
  <2>2. ClusterTyped' /\ FaultsTyped' /\ ProcessTyped'
    BY <2>1, HelmInvNext, FaultsNext, ProcessNext
  <2>3. BootstrapTypeOK'
    BY <2>2 DEF BootstrapTypeOK, ClusterTyped, FaultsTyped, ProcessTyped, Records
  <2>4. HelmInv' /\ CallPlaces' /\ PagesMade' /\ MiddlewareThere' /\ PlanDone'
    BY <2>1, HelmInvNext, CallPlacesNext, PagesNext, PlanDoneNext
  <2>5. QED
    BY <2>3, <2>4 DEF BootstrapInv
<1>3. QED
  BY <1>1, <1>2, PTL DEF BootstrapSpec

(* Every variable keeps its type: whatever a killed process left, a        *)
(* release is in one of the states that Install knows (helm/installer.go), *)
(* and the plan has configured steps only (Manager.Start).                 *)
THEOREM BootstrapTypes == BootstrapSpec => []BootstrapTypeOK
<1>1. BootstrapInv => BootstrapTypeOK
  BY DEF BootstrapInv
<1>2. QED
  BY <1>1, BootstrapInvariance, PTL

(* Traefik's entry points name the error-pages middleware only once it and *)
(* its backend exist (setupErrorPages of ingress/traefik.go), in whatever  *)
(* order calls fail and processes are killed.                              *)
THEOREM MiddlewareFound == BootstrapSpec => []MiddlewareThere
<1>1. BootstrapInv => MiddlewareThere
  BY DEF BootstrapInv
<1>2. QED
  BY <1>1, BootstrapInvariance, PTL

(* When the bootstrap reports success (setupMonitoring of agent.go), each  *)
(* component of the plan is installed, a call about it failed in this very *)
(* process, or it is one of those the code cannot bring back.              *)
THEOREM ReadyIsAccounted == BootstrapSpec => []ReadyAccounted
<1>1. BootstrapInv => ReadyAccounted
  <2> SUFFICES ASSUME BootstrapInv, monitoringReady, at # "down", NEW s \in Plan
               PROVE  Accounted(s)
    BY DEF ReadyAccounted, Accounted
  <2>1. at \in {"ready", "gateway", "up"}
    BY DEF BootstrapInv, PlanDone
  <2>2. todo = {}
    BY <2>1 DEF BootstrapInv, CallPlaces
  <2>3. QED
    BY <2>1, <2>2 DEF BootstrapInv, PlanDone
<1>2. QED
  BY <1>1, BootstrapInvariance, PTL

(* A healthy release of the version that is wanted is not changed by any   *)
(* step (Install of helm/installer.go), unless this process failed in a    *)
(* call about it.                                                          *)
THEOREM HealthyReleasesKept == BootstrapSpec => HealthyKept
<1>1. BootstrapInv /\ [BootstrapNext]_bootstrapVars =>
        [\A r \in Releases \ {"nginx", "old-traefik"} :
           release[r].status = "deployed" /\ SameVersion(r)
             => release'[r] = release[r] \/ r \in faulty]_bootstrapVars
  <2> SUFFICES ASSUME BootstrapInv, [BootstrapNext]_bootstrapVars,
                      NEW r \in Releases \ Replaced,
                      release[r].status = "deployed", SameVersion(r)
               PROVE  release'[r] = release[r] \/ r \in faulty
    BY DEF Replaced
  <2>1. CASE HelmStep
    BY <2>1, HealthyUntouched, BootstrapParts DEF BootstrapInv
  <2>2. CASE UNCHANGED release
    BY <2>2
  <2>3. QED
    BY <2>1, <2>2, CallsMade DEF BootstrapInv
<1>2. QED
  BY <1>1, BootstrapInvariance, PTL DEF BootstrapSpec, HealthyKept
=============================================================================
