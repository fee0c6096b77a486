----------------------------- MODULE StateStore -----------------------------
(***************************************************************************)
(* StateManager (pkg/state/state.go): the agent's identity, kept in a      *)
(* ConfigMap and a Secret, or in a local file in daemon mode, or nowhere.  *)
(*                                                                         *)
(* Every SaveX(value) loads the whole state, changes one field of the copy *)
(* and saves the whole copy.  Load and Save each hold sm.mu, the pair does *)
(* not.  When the load fails the copy is taken from the in-memory cache,   *)
(* which is empty in a fresh process.  In Kubernetes a save is two writes, *)
(* either of which may fail, with or without having taken effect.          *)
(***************************************************************************)
EXTENDS Naturals, FiniteSets

CONSTANTS
  Savers,         \* goroutines that save a field
  ConfigFields,   \* fields kept in the ConfigMap: agent_id, cluster_id, ...
  SecretFields,   \* fields kept in the Secret: cluster_token, ...
  Values,         \* what is saved, the empty string included
  Empty,          \* the empty string, read from a field never saved
  Modes,          \* the stores a behaviour may start with
  ReadsFail,      \* when a load may fail: "cold", "warm" (LoadFails)
  Nobody,         \* no holder of sm.mu
  Unknown,        \* a field whose last save failed or was cut off by a crash
  NoSave          \* no save under way

Fields == ConfigFields \cup SecretFields

ASSUME StoreAssumption ==
  /\ ConfigFields \cap SecretFields = {}
  /\ Empty \in Values /\ Unknown \notin Values
  /\ Nobody \notin Savers
  /\ Modes \subseteq {"kube", "file", "none"}
  /\ ReadsFail \subseteq {"cold", "warm"}
  /\ NoSave \notin [field : Fields, value : Values]
  /\ NoSave \notin [Fields -> Values]

VARIABLES
  mode,    \* useConfigMap / useFileStore, fixed by the constructor
  disk,    \* the ConfigMap and the Secret, or the file
  cache,   \* cachedState
  mu,      \* who holds sm.mu between two steps
  pc,      \* where each saver is
  want,    \* the field and value each saver was called with
  copy,    \* the state each saver works on, from its load on
  acked,   \* history: the value of the last save reported done, per field
  stale,   \* history: since process start no load or save succeeded, or the
           \* last save failed
  behind,  \* history: the fields of each copy that another save has written
           \* since the copy was loaded, or that were never loaded
  lost     \* history: the fields a save overwrote from such a copy

history == <<behind, lost>>
vars == <<mode, disk, cache, mu, pc, want, copy, acked, stale, history>>

States == [Fields -> Values]
Blank  == [f \in Fields |-> Empty]

TypeOK ==
  /\ mode \in Modes
  /\ disk \in States
  /\ cache \in States
  /\ mu \in Savers \cup {Nobody}
  /\ pc \in [Savers -> {"idle", "load", "save", "configmap", "secret"}]
  /\ want \in [Savers -> [field : Fields, value : Values] \cup {NoSave}]
  /\ copy \in [Savers -> States \cup {NoSave}]
  /\ acked \in [Fields -> Values \cup {Unknown}]
  /\ stale \in BOOLEAN
  /\ behind \in [Savers -> SUBSET Fields]
  /\ lost \in SUBSET Fields

Init ==
  /\ mode \in Modes
  /\ disk = Blank
  /\ cache = Blank
  /\ mu = Nobody
  /\ pc = [s \in Savers |-> "idle"]
  /\ want = [s \in Savers |-> NoSave]
  /\ copy = [s \in Savers |-> NoSave]
  /\ acked = Blank
  /\ stale = TRUE
  /\ behind = [s \in Savers |-> {}]
  /\ lost = {}

-----------------------------------------------------------------------------
(* SaveAgentID, SaveClusterID, ClearClusterID, SaveClusterToken, ...       *)
BeginSave(s) ==
  /\ pc[s] = "idle"
  /\ \E f \in Fields, v \in Values :
       want' = [want EXCEPT ![s] = [field |-> f, value |-> v]]
  /\ pc' = [pc EXCEPT ![s] = "load"]
  /\ UNCHANGED <<mode, disk, cache, mu, copy, acked, stale, history>>

(* Mutant: a new state that holds the saved field only.                    *)
ChangedAlone(state, s) == [Blank EXCEPT ![want[s].field] = want[s].value]

(* updateCache                                                             *)
Cached(state) == cache' = state /\ stale' = FALSE

(* The copy a saver goes on with: what it loaded, its own field changed.   *)
Changed(state, s) == [state EXCEPT ![want[s].field] = want[s].value]

(* Load: nothing is stored in mode "none", and the cache is left alone.    *)
Loaded == IF mode = "none" THEN Blank ELSE disk

(* Both take the copy; what was not loaded may be anything.               *)
Taken(state, s, missed) ==
  /\ pc[s] = "load" /\ mu = Nobody
  /\ copy' = [copy EXCEPT ![s] = Changed(state, s)]
  /\ behind' = [behind EXCEPT ![s] = missed]
  /\ pc' = [pc EXCEPT ![s] = "save"]
  /\ UNCHANGED <<mode, disk, mu, want, acked, lost>>

(* Mutant: the cached state is used without asking the store.              *)
LoadStateCached(s) == Taken(cache, s, {}) /\ UNCHANGED <<cache, stale>>

LoadState(s) ==
  /\ Taken(Loaded, s, {})
  /\ \/ mode = "none" /\ UNCHANGED <<cache, stale>>
     \/ mode # "none" /\ Cached(disk)

(* The read fails: cloneCachedState().  It fails "cold" when the cache was *)
(* not filled since the start or the last failed save, "warm" otherwise.   *)
LoadFails(s) ==
  /\ (IF stale THEN "cold" ELSE "warm") \in ReadsFail
  /\ mode # "none"
  /\ Taken(cache, s, IF stale THEN Fields ELSE {})
  /\ UNCHANGED <<cache, stale>>

(* GetX: a load that only refreshes the cache.                             *)
ReadField ==
  /\ mode # "none" /\ mu = Nobody
  /\ Cached(disk)
  /\ UNCHANGED <<mode, disk, mu, pc, want, copy, acked, history>>

-----------------------------------------------------------------------------
(* Save.                                                                   *)

Return(s) == /\ pc' = [pc EXCEPT ![s] = "idle"]
             /\ want' = [want EXCEPT ![s] = NoSave]
             /\ copy' = [copy EXCEPT ![s] = NoSave]

Reported(s, result) == acked' = [acked EXCEPT ![want[s].field] = result]

Overlay(part, s) == [f \in Fields |-> IF f \in part THEN copy[s][f] ELSE disk[f]]

(* s rewrites a part of the stored state from its copy: its own field, and *)
(* every field it is behind on, are new to the other copies.               *)
Rewritten(part, s) ==
  LET own == {want[s].field}
      new == part \cap (own \cup behind[s])
  IN /\ disk' = Overlay(part, s)
     /\ behind' = [t \in Savers |-> IF copy'[t] = NoSave THEN {}
                                    ELSE IF t = s THEN behind[s]
                                    ELSE behind[t] \cup new]
     /\ lost' = (lost \cup new) \ (own \cap part)

(* Without a store Save returns nil and leaves the cache as it was.        *)
SaveNowhere(s) ==
  /\ pc[s] = "save" /\ mode = "none" /\ mu = Nobody
  /\ Return(s) /\ Rewritten({}, s) /\ Reported(s, want[s].value)
  /\ UNCHANGED <<mode, cache, mu, stale>>

(* saveToFile: a temporary file, renamed; a failure leaves the old file.   *)
SaveFile(s) ==
  /\ pc[s] = "save" /\ mode = "file" /\ mu = Nobody
  /\ Return(s)
  /\ \/ /\ Rewritten(Fields, s) /\ Cached(copy[s])
        /\ Reported(s, want[s].value)
     \/ Rewritten({}, s) /\ UNCHANGED <<cache, stale, acked>>
  /\ UNCHANGED <<mode, mu>>

(* Mutant: Save does not take the mutex.                                   *)
SaveUnlocked(s) ==
  /\ pc[s] = "save" /\ mode = "kube"
  /\ pc' = [pc EXCEPT ![s] = "configmap"]
  /\ UNCHANGED <<mode, disk, cache, mu, want, copy, acked, stale, history>>

SaveLocks(s) ==
  /\ pc[s] = "save" /\ mode = "kube" /\ mu = Nobody
  /\ mu' = s
  /\ pc' = [pc EXCEPT ![s] = "configmap"]
  /\ UNCHANGED <<mode, disk, cache, want, copy, acked, stale, history>>

SaveFails(s) ==
  /\ Return(s) /\ mu' = Nobody
  /\ stale' = TRUE
  /\ Reported(s, Unknown)

(* saveToConfigMap: a failed call may have taken effect.                   *)
WriteConfigMap(s) ==
  /\ pc[s] = "configmap"
  /\ \/ /\ pc' = [pc EXCEPT ![s] = "secret"]
        /\ UNCHANGED <<mu, want, copy, acked, stale>>
        /\ Rewritten(ConfigFields, s)
     \/ /\ SaveFails(s)
        /\ \E part \in {{}, ConfigFields} : Rewritten(part, s)
  /\ UNCHANGED <<mode, cache>>

(* saveToSecret, and the end of Save.                                      *)
WriteSecret(s) ==
  /\ pc[s] = "secret"
  /\ \/ /\ Return(s) /\ mu' = Nobody
        /\ Rewritten(SecretFields, s)
        /\ Cached(copy[s])
        /\ Reported(s, want[s].value)
     \/ /\ SaveFails(s)
        /\ \E part \in {{}, SecretFields} : Rewritten(part, s)
        /\ UNCHANGED cache
  /\ UNCHANGED mode

(* The process dies and restarts: the cache is empty, the calls are gone.  *)
Crash ==
  /\ cache' = Blank /\ stale' = TRUE
  /\ mu' = Nobody
  /\ pc' = [s \in Savers |-> "idle"]
  /\ want' = [s \in Savers |-> NoSave]
  /\ copy' = [s \in Savers |-> NoSave]
  /\ behind' = [s \in Savers |-> {}]
  /\ acked' = [f \in Fields |->
       IF \E s \in Savers : mu = s /\ want[s].field = f THEN Unknown ELSE acked[f]]
  /\ UNCHANGED <<mode, disk, lost>>

Save(s) == \/ BeginSave(s) \/ LoadState(s) \/ LoadFails(s)
           \/ SaveNowhere(s) \/ SaveFile(s) \/ SaveLocks(s)
           \/ WriteConfigMap(s) \/ WriteSecret(s)

Next == ReadField \/ Crash \/ \E s \in Savers : Save(s)

Spec == Init /\ [][Next]_vars

-----------------------------------------------------------------------------
(* The cache that a failed load falls back on is the stored state, as soon *)
(* as one load or save has succeeded since the process started and since   *)
(* the last failed save (the purpose of updateCache, lines 550-561).       *)
CacheCurrent == mu = Nobody /\ ~stale => cache = Loaded

(* What a save reported as done is what the next load returns, unless a    *)
(* save has overwritten it from a copy loaded before it was written, or    *)
(* never loaded at all: a failed call, a restart, a load that failed once  *)
(* the cache was filled, or a save that comes after, never takes it back.  *)
LostOnlyByOverlap ==
  mode # "none" => \A f \in Fields :
    \/ acked[f] = Unknown \/ f \in lost
    \/ \E s \in Savers : mu = s /\ want[s].field = f
    \/ Loaded[f] = acked[f]

(* What callers expect, and overlapping saves or a first load that fails   *)
(* break: what a save reported as done is what the next load returns.      *)
SavedIsReadable ==
  mode # "none" /\ (\A s \in Savers : pc[s] = "idle") =>
    \A f \in Fields : acked[f] # Unknown => Loaded[f] = acked[f]

Contract == INSTANCE FieldStore WITH
  Field <- Fields, Value <- Values, Saver <- Savers,
  stored <- disk, saving <- want, fresh <- ~stale

(* However saves overlap and fail, each writes, in two calls that may fail *)
(* separately, the state as it stood at its load with its own field        *)
(* changed; a save that reports success leaves that state and no mixture   *)
(* of two savers' states; a guess is written only after a load that failed *)
(* before anything was known of the store (Save, lines 261-292).           *)
SnapshotSaves == Contract!Spec
=============================================================================
