---------------------------- MODULE IngressProofs ----------------------------
(***************************************************************************)
(* What the agent does with the ingresses of the cluster: moving them to   *)
(* Traefik (IngressMigration), and keeping the control plane's routes in   *)
(* step with them (IngressRoutes). The proofs hold for any ingresses,      *)
(* hosts and bounds.                                                       *)
(*                                                                         *)
(* Moving them: what the agent writes back is what it read, so the         *)
(* argument is about versions, an object whose version did not change      *)
(* since has the text it had (Versions). Progress says which ingresses a   *)
(* migrator still owes, Guarded when the service behind the webhook was    *)
(* last looked for.                                                        *)
(*                                                                         *)
(* Routes: RoutesInv says, for each host, that a route of it, a call that  *)
(* makes one and an event that will ask for one are each wanted, given up, *)
(* or followed by a withdrawal. The order of the queue carries the         *)
(* argument (QueueOrdered), through the event being handled                *)
(* (WorkerOrdered) to the routes (RoutesOwed).                             *)
(***************************************************************************)
EXTENDS IngressMigration, IngressRoutes, FiniteSetTheorems,
        SequenceTheorems, TLAPS

Ings == [spec : Classes, ann : Classes, text : 0..MaxEdits, rev : Nat]

\* No more was written than there were edits.
Bounded ==
  /\ \A i \in Ingresses : ing[i].text <= edits
  /\ \A m \in Migrators, i \in Ingresses : list[m][i].text <= edits
  /\ cm.own <= edits + 1 /\ read.own <= edits + 1

Versions ==
  /\ \A m \in Migrators, i \in Ingresses :
       /\ list[m][i].rev <= ing[i].rev
       /\ list[m][i].rev = ing[i].rev => list[m][i].text = ing[i].text
  /\ cm.there => cm.rev >= 1
  /\ \/ read = Blank
     \/ /\ cm.there /\ read.rev >= 1 /\ read.rev <= cm.rev
        /\ read.rev = cm.rev => read.own = cm.own

Busy == {"check", "delete", "refresh", "retry"}

Progress ==
  \A m \in Migrators :
    /\ pc[m] \in Busy \cup {"update"} =>
         \A i \in Ingresses : Wanted(m, ing[i]) => i \in todo[m] \cup missed[m]
    /\ pc[m] \in Busy => cur[m] \in todo[m]
    /\ pc[m] = "done" => \A i \in Ingresses : Wanted(m, ing[i]) => i \in missed[m]

Guarded ==
  \A m \in Migrators :
    /\ \A e \in cleaned[m] : e <= edits
    /\ pc[m] = "delete" /\ edits \in cleaned[m] => ~service

Inv == TypeOK /\ Bounded /\ Versions /\ Progress /\ Guarded

-----------------------------------------------------------------------------
(* An update that was not refused changes the class and the version, and   *)
(* keeps the text (updateIngressClass).                                    *)
LEMMA UpdateKeeps ==
  ASSUME TypeOK, Versions, NEW m \in Migrators, NEW i \in Ingresses,
         Current(m, i), UpdateIngressClass(m, i)
  PROVE  /\ ing' \in [Ingresses -> Ings]
         /\ \A j \in Ingresses : ing'[j].text = ing[j].text
         /\ \A j \in Ingresses : j # i => ing'[j] = ing[j]
         /\ ing'[i].rev = ing[i].rev + 1
         /\ ing'[i].spec = "traefik" /\ ing'[i].ann = "traefik"
<1> DEFINE new == [list[m][i] EXCEPT !.spec = "traefik", !.ann = "traefik", !.rev = ing[i].rev + 1]
<1>1. list[m][i] \in Ings /\ ing[i] \in Ings /\ ing \in [Ingresses -> Ings]
  BY DEF TypeOK, Ings
<1>2. new \in Ings
  <2>1. ing[i].rev + 1 \in Nat /\ "traefik" \in Classes
    BY <1>1 DEF Ings, Classes
  <2>2. QED
    BY <1>1, <2>1 DEF Ings
<1>3. new.text = ing[i].text /\ new.rev = ing[i].rev + 1 /\ new.spec = "traefik" /\ new.ann = "traefik"
  BY <1>1 DEF Ings, Current, Versions
<1>4. ing' = [ing EXCEPT ![i] = new]
  BY DEF UpdateIngressClass
<1> HIDE DEF new
<1>5. QED
  BY <1>1, <1>2, <1>3, <1>4

(* An ingress that was moved is not one to move (needsMigration).          *)
LEMMA MovedUnwanted ==
  ASSUME NEW m \in Migrators, NEW x, x.spec = "traefik", x.ann = "traefik"
  PROVE  ~Wanted(m, x)
BY DEF Wanted, IngressUsesClass, Migrators

(* What any step does to the ingresses: a version names one state of one,  *)
(* only users write text, and none becomes one to move.                    *)
Grows ==
  /\ ing' \in [Ingresses -> Ings]
  /\ \A j \in Ingresses :
       /\ ing[j].rev <= ing'[j].rev
       /\ ing'[j].rev = ing[j].rev => ing'[j] = ing[j]
       /\ ing'[j].text <= ing[j].text + (edits' - edits)
       /\ edits' = edits => ing'[j].text = ing[j].text
       /\ \A m \in Migrators : Wanted(m, ing'[j]) => Wanted(m, ing[j])
  /\ edits' \in {edits, edits + 1} /\ edits' \in 0..MaxEdits

LEMMA IngStep == Inv /\ [Next]_vars => Grows
<1> SUFFICES ASSUME Inv, [Next]_vars PROVE Grows
  OBVIOUS
<1>1. /\ TypeOK /\ Versions /\ MaxEdits \in Nat
      /\ ing \in [Ingresses -> Ings] /\ edits \in 0..MaxEdits
      /\ \A j \in Ingresses : ing[j] \in Ings /\ ing[j].text \in Nat /\ ing[j].rev \in Nat
      /\ \A j \in Ingresses : ing[j].text <= edits
  BY MigrationAssumption DEF Inv, TypeOK, Ings, Bounded
<1>2. ASSUME UNCHANGED <<ing, edits>> PROVE Grows
  BY <1>1, <1>2 DEF Grows
<1>3. ASSUME UNCHANGED ing, edits < MaxEdits, edits' = edits + 1 PROVE Grows
  BY <1>1, <1>3 DEF Grows
<1>4. ASSUME NEW m \in Migrators, NEW i \in Ingresses, Current(m, i),
             UpdateIngressClass(m, i), edits' = edits
      PROVE  Grows
  <2>1. /\ ing' \in [Ingresses -> Ings]
        /\ \A j \in Ingresses : ing'[j].text = ing[j].text
        /\ \A j \in Ingresses : j # i => ing'[j] = ing[j]
        /\ ing'[i].rev = ing[i].rev + 1
        /\ ing'[i].spec = "traefik" /\ ing'[i].ann = "traefik"
    BY <1>1, <1>4, UpdateKeeps
  <2>2. \A mm \in Migrators : ~Wanted(mm, ing'[i])
    BY <2>1, MovedUnwanted
  <2>3. QED
    BY <1>1, <1>4, <2>1, <2>2 DEF Grows
<1>5. ASSUME NEW i \in Ingresses, UserEditsIngress(i) PROVE Grows
  <2> DEFINE new == [ing[i] EXCEPT !.text = @ + 1, !.rev = @ + 1]
  <2>1. /\ new \in Ings /\ new.spec = ing[i].spec /\ new.ann = ing[i].ann
        /\ new.text = ing[i].text + 1 /\ new.rev = ing[i].rev + 1
    BY <1>1, <1>5 DEF UserEditsIngress, Ings
  <2>2. ing' = [ing EXCEPT ![i] = new] /\ edits' = edits + 1 /\ edits < MaxEdits
    BY <1>5 DEF UserEditsIngress
  <2>3. \A m \in Migrators : Wanted(m, new) => Wanted(m, ing[i])
    BY <2>1 DEF Wanted, IngressUsesClass
  <2> HIDE DEF new
  <2>4. \A j \in Ingresses : ing'[j] = IF j = i THEN new ELSE ing[j]
    BY <1>1, <2>2
  <2>5. ing' \in [Ingresses -> Ings]
    BY <1>1, <2>1, <2>2
  <2>6. QED
    BY <1>1, <2>1, <2>2, <2>3, <2>4, <2>5 DEF Grows
<1>6. CASE UserEditsConfigMap \/ ServiceChanges
  BY <1>3, <1>6 DEF UserEditsConfigMap, ServiceChanges
<1>7. CASE ReadConfigMap \/ WriteConfigMap \/ UNCHANGED vars
  BY <1>2, <1>7 DEF ReadConfigMap, WriteConfigMap, vars, cluster
<1>8. ASSUME NEW m \in Migrators, NEW i \in Ingresses, Migrate(m, i) PROVE Grows
  BY <1>2, <1>4, <1>8 DEF Migrate
<1>9. ASSUME NEW m \in Migrators, Retry(m) PROVE Grows
  <2>1. cur[m] \in Ingresses
    BY <1>9 DEF Inv, TypeOK, Progress, Busy, Retry
  <2>2. QED
    BY <1>2, <1>4, <1>9, <2>1 DEF Retry
<1>10. ASSUME NEW m \in Migrators,
              ListIngresses(m) \/ MigrationDone(m) \/ CheckService(m) \/ DeleteWebhook(m) \/ Refresh(m)
       PROVE  Grows
  BY <1>2, <1>10
     DEF ListIngresses, MigrationDone, CheckService, DeleteWebhook, Refresh, cluster
<1>11. QED
  BY <1>5, <1>6, <1>7, <1>8, <1>9, <1>10 DEF Next, Work
-----------------------------------------------------------------------------
\* The parts of the type invariant.
Tasks ==
  /\ pc \in [Migrators -> {"list", "update", "check", "delete", "refresh", "retry", "done",
                           "settings", "write", "left"}]
  /\ todo \in [Migrators -> SUBSET Ingresses] /\ missed \in [Migrators -> SUBSET Ingresses]

Notes ==
  /\ list \in [Migrators -> [Ingresses -> Ings]]
  /\ cur \in [Migrators -> Ingresses \cup {None}]
  /\ cleaned \in [Migrators -> SUBSET (0..MaxEdits)]

Others ==
  /\ service \in BOOLEAN /\ elsewhere \in BOOLEAN /\ webhook \in {"absent", "fail", "ignore"}
  /\ compat \in [required : BOOLEAN, backup : BOOLEAN, canDelete : BOOLEAN]
  /\ faults \in 0..MaxFaults

Settings == cm \in ConfigMaps /\ read \in ConfigMaps

LEMMA TasksStep == Inv /\ [Next]_vars => Tasks'
<1> SUFFICES ASSUME Inv, [Next]_vars PROVE Tasks'
  OBVIOUS
<1>1. Tasks
  BY DEF Inv, TypeOK, Tasks
<1>2. ASSUME UNCHANGED <<pc, todo, missed>> PROVE Tasks'
  BY <1>1, <1>2 DEF Tasks
<1>3. ASSUME NEW m \in Migrators,
             NEW p \in {"list", "update", "check", "delete", "refresh", "retry", "done",
                        "settings", "write", "left"},
             Go(m, p), UNCHANGED <<todo, missed>>
      PROVE  Tasks'
  BY <1>1, <1>3 DEF Tasks, Go
<1>4. ASSUME NEW m \in Migrators, NEW i \in Ingresses, Miss(m, i) PROVE Tasks'
  <2>1. missed[m] \cup {i} \subseteq Ingresses /\ todo[m] \ {i} \subseteq Ingresses
    BY <1>1 DEF Tasks
  <2>2. QED
    BY <1>1, <1>4, <2>1 DEF Tasks, Miss, Go
<1>5. ASSUME NEW m \in Migrators, NEW i \in Ingresses, Migrated(m, i) PROVE Tasks'
  <2>1. todo[m] \ {i} \subseteq Ingresses
    BY <1>1 DEF Tasks
  <2>2. QED
    BY <1>1, <1>5, <2>1 DEF Tasks, Migrated, Go
<1>6. ASSUME NEW m \in Migrators, pc[m] \in Busy PROVE cur[m] \in Ingresses
  BY <1>1, <1>6 DEF Inv, Progress, Tasks
<1>7. ASSUME NEW m \in Migrators, ListIngresses(m) PROVE Tasks'
  BY <1>1, <1>7 DEF ListIngresses, Go, Tasks
<1>8. ASSUME NEW m \in Migrators, NEW i \in Ingresses, Migrate(m, i) PROVE Tasks'
  BY <1>3, <1>4, <1>5, <1>8 DEF Migrate
<1>9. ASSUME NEW m \in Migrators, MigrationDone(m) PROVE Tasks'
  BY <1>3, <1>9 DEF MigrationDone
<1>10. ASSUME NEW m \in Migrators, CheckService(m) PROVE Tasks'
  BY <1>3, <1>4, <1>6, <1>10 DEF CheckService, Busy
<1>11. ASSUME NEW m \in Migrators, DeleteWebhook(m) PROVE Tasks'
  BY <1>3, <1>4, <1>6, <1>11 DEF DeleteWebhook, Busy
<1>12. ASSUME NEW m \in Migrators, Refresh(m) PROVE Tasks'
  BY <1>3, <1>4, <1>6, <1>12 DEF Refresh, Busy
<1>13. ASSUME NEW m \in Migrators, Retry(m) PROVE Tasks'
  BY <1>4, <1>5, <1>6, <1>13 DEF Retry, Busy
<1>14. CASE ReadConfigMap \/ WriteConfigMap
  BY <1>3, <1>14 DEF ReadConfigMap, WriteConfigMap, Migrators
<1>15. CASE UserEditsConfigMap \/ ServiceChanges \/ (\E i \in Ingresses : UserEditsIngress(i)) \/ UNCHANGED vars
  BY <1>2, <1>15 DEF UserEditsConfigMap, ServiceChanges, UserEditsIngress, vars, migration
<1>16. QED
  BY <1>7, <1>8, <1>9, <1>10, <1>11, <1>12, <1>13, <1>14, <1>15 DEF Next, Work

LEMMA NotesStep == Inv /\ [Next]_vars => Notes'
<1> SUFFICES ASSUME Inv, [Next]_vars PROVE Notes'
  OBVIOUS
<1>1. Notes /\ ing \in [Ingresses -> Ings] /\ edits \in 0..MaxEdits
  BY DEF Inv, TypeOK, Notes, Ings
<1>2. ASSUME UNCHANGED <<list, cur, cleaned>> PROVE Notes'
  BY <1>1, <1>2 DEF Notes
<1>3. ASSUME NEW m \in Migrators, ListIngresses(m) PROVE Notes'
  BY <1>1, <1>3 DEF ListIngresses, Notes
<1>4. ASSUME NEW m \in Migrators, NEW i \in Ingresses, Migrate(m, i) PROVE Notes'
  BY <1>1, <1>4 DEF Migrate, Notes
<1>5. ASSUME NEW m \in Migrators, CheckService(m) PROVE Notes'
  <2>1. {edits} \subseteq 0..MaxEdits
    BY <1>1
  <2>2. QED
    BY <1>1, <1>5, <2>1 DEF CheckService, Notes
<1>6. ASSUME NEW m \in Migrators, Refresh(m) PROVE Notes'
  <2>1. cur[m] \in Ingresses
    BY <1>6 DEF Inv, TypeOK, Progress, Refresh, Busy
  <2>2. [list EXCEPT ![m][cur[m]] = ing[cur[m]]] \in [Migrators -> [Ingresses -> Ings]]
    BY <1>1, <2>1 DEF Notes
  <2>3. QED
    BY <1>1, <1>6, <2>2 DEF Refresh, Notes
<1>7. ASSUME NEW m \in Migrators, MigrationDone(m) \/ DeleteWebhook(m) \/ Retry(m) PROVE Notes'
  BY <1>2, <1>7 DEF MigrationDone, DeleteWebhook, Retry
<1>8. CASE ReadConfigMap \/ WriteConfigMap
  BY <1>2, <1>8 DEF ReadConfigMap, WriteConfigMap
<1>9. CASE UserEditsConfigMap \/ ServiceChanges \/ (\E i \in Ingresses : UserEditsIngress(i)) \/ UNCHANGED vars
  BY <1>2, <1>9 DEF UserEditsConfigMap, ServiceChanges, UserEditsIngress, vars, migration
<1>10. QED
  BY <1>3, <1>4, <1>5, <1>6, <1>7, <1>8, <1>9 DEF Next, Work

LEMMA OthersStep == Inv /\ [Next]_vars => Others'
<1> SUFFICES ASSUME Inv, [Next]_vars PROVE Others'
  OBVIOUS
<1>1. Others /\ MaxFaults \in Nat
  BY MigrationAssumption DEF Inv, TypeOK, Others
<1> USE DEF Others, Fault, NoFault, cluster
<1>2. ASSUME NEW m \in Migrators, Work(m) PROVE Others'
  BY <1>1, <1>2
     DEF Work, ListIngresses, Migrate, MigrationDone, CheckService, DeleteWebhook, Refresh, Retry
<1>3. CASE ReadConfigMap \/ WriteConfigMap
  BY <1>1, <1>3 DEF ReadConfigMap, WriteConfigMap
<1>4. CASE UserEditsConfigMap \/ ServiceChanges \/ (\E i \in Ingresses : UserEditsIngress(i)) \/ UNCHANGED vars
  BY <1>1, <1>4 DEF UserEditsConfigMap, ServiceChanges, UserEditsIngress, vars
<1>5. QED
  BY <1>2, <1>3, <1>4 DEF Next

-----------------------------------------------------------------------------
(* What the write leaves: the settings it read, in the version given.      *)
LEMMA SettledType ==
  ASSUME Inv, NEW v \in Nat
  PROVE  /\ Settled(v) \in ConfigMaps /\ Settled(v).there /\ Settled(v).own = read.own
         /\ Settled(v).rev = v
<1>1. read \in ConfigMaps /\ read.own \in 0..(MaxEdits + 1)
  BY MigrationAssumption DEF Inv, TypeOK, ConfigMaps, Bounded
<1>2. BackupConfigMap \subseteq 0..(MaxEdits + 1)
  BY <1>1 DEF BackupConfigMap, ConfigMaps
<1>3. QED
  BY <1>1, <1>2 DEF Settled, ConfigMaps

\* What is known of the ConfigMap and of what was read of it.
ConfigInv ==
  /\ Settings /\ cm.own <= edits + 1 /\ read.own <= edits + 1
  /\ cm.there => cm.rev >= 1
  /\ \/ read = Blank
     \/ /\ cm.there /\ read.rev >= 1 /\ read.rev <= cm.rev
        /\ read.rev = cm.rev => read.own = cm.own

LEMMA ConfigStep ==
  Inv /\ [Next]_vars =>
    /\ ConfigInv'
    /\ edits' = edits /\ cm.there => cm'.own = cm.own \/ read = Blank
<1> SUFFICES ASSUME Inv, [Next]_vars
             PROVE  /\ ConfigInv'
                    /\ edits' = edits /\ cm.there => cm'.own = cm.own \/ read = Blank
  OBVIOUS
<1>1. ConfigInv /\ edits \in Nat /\ MaxEdits \in Nat /\ cm \in ConfigMaps /\ read \in ConfigMaps
  BY MigrationAssumption DEF Inv, TypeOK, Bounded, Versions, ConfigInv, Settings
<1>2. /\ Blank \in ConfigMaps /\ Blank.own = 0 /\ Blank.rev = 0
      /\ \A c \in ConfigMaps : c.own \in Nat /\ c.rev \in Nat /\ c.there \in BOOLEAN
  BY DEF Blank, ConfigMaps
<1> USE DEF ConfigInv, Settings
<1>3. ASSUME UNCHANGED <<cm, read>>, edits' \in {edits, edits + 1}
      PROVE  ConfigInv' /\ cm'.own = cm.own
  BY <1>1, <1>2, <1>3
<1>4. CASE UserEditsConfigMap
  <2>1. /\ cm' \in ConfigMaps /\ cm'.own = cm.own + 1 /\ cm'.rev = cm.rev + 1 /\ cm'.there
        /\ read' = read /\ edits' = edits + 1 /\ cm.there
    <3>1. cm' = [cm EXCEPT !.own = @ + 1, !.rev = @ + 1] /\ cm.there
      BY <1>4 DEF UserEditsConfigMap
    <3>2. cm.own + 1 \in Nat /\ cm.rev + 1 \in Nat
      BY <1>1, <1>2
    <3>3. cm' \in ConfigMaps
      BY <1>1, <3>1, <3>2 DEF ConfigMaps
    <3>4. cm'.own = cm.own + 1 /\ cm'.rev = cm.rev + 1 /\ cm'.there
      BY <1>1, <3>1 DEF ConfigMaps
    <3>5. QED
      BY <1>4, <3>1, <3>3, <3>4 DEF UserEditsConfigMap, migration
  <2>2. QED
    BY <1>1, <1>2, <2>1
<1>5. CASE ReadConfigMap
  <2>1. cm' = cm /\ edits' = edits /\ (read' = Blank \/ (cm.there /\ read' = cm))
    BY <1>5 DEF ReadConfigMap, cluster
  <2>2. QED
    BY <1>1, <1>2, <2>1
<1>6. CASE WriteConfigMap
  <2>1. read' = read /\ edits' = edits
    BY <1>6 DEF WriteConfigMap
  <2>2. CASE cm' = cm
    BY <1>3, <2>1, <2>2
  <2>3. CASE cm.there /\ read.rev \in {None, cm.rev} /\ cm' = Settled(cm.rev + 1)
    <3>1. cm' \in ConfigMaps /\ cm'.there /\ cm'.own = read.own /\ cm'.rev = cm.rev + 1
      BY <1>1, <1>2, <2>3, SettledType
    <3>2. read = Blank \/ read.own = cm.own
      BY <1>1, <1>2, <2>3 DEF None
    <3>3. QED
      BY <1>1, <1>2, <2>1, <3>1, <3>2
  <2>4. CASE ~cm.there /\ cm' = Settled(1)
    <3>1. cm' \in ConfigMaps /\ cm'.there /\ cm'.own = read.own /\ cm'.rev = 1
      BY <2>4, SettledType
    <3>2. QED
      BY <1>1, <1>2, <2>1, <2>4, <3>1
  <2>5. QED
    BY <1>6, <2>2, <2>3, <2>4 DEF WriteConfigMap
<1>7. ASSUME NEW m \in Migrators, Work(m) PROVE UNCHANGED <<cm, read, edits>>
  BY <1>7
     DEF Work, ListIngresses, Migrate, MigrationDone, CheckService, DeleteWebhook, Refresh,
     Retry, cluster
<1>8. CASE ServiceChanges \/ (\E i \in Ingresses : UserEditsIngress(i)) \/ UNCHANGED vars
  BY <1>3, <1>8 DEF ServiceChanges, UserEditsIngress, vars, cluster
<1>9. QED
  BY <1>3, <1>4, <1>5, <1>6, <1>7, <1>8 DEF Next

-----------------------------------------------------------------------------
LEMMA TypeStep == Inv /\ [Next]_vars => TypeOK'
<1> SUFFICES ASSUME Inv, [Next]_vars PROVE TypeOK'
  OBVIOUS
<1>1. Tasks' /\ Notes' /\ Others' /\ Settings' /\ Grows
  BY TasksStep, NotesStep, OthersStep, ConfigStep, IngStep DEF ConfigInv
<1>2. QED
  BY <1>1 DEF TypeOK, Tasks, Notes, Others, Settings, Grows, Ings

\* What a migrator has of an ingress is the ingress of that version.
Copies ==
  \A m \in Migrators, i \in Ingresses :
    /\ list[m][i].rev <= ing[i].rev
    /\ list[m][i].rev = ing[i].rev => list[m][i].text = ing[i].text
    /\ list[m][i].text <= edits

LEMMA CopiesStep == Inv /\ [Next]_vars => Copies' /\ \A i \in Ingresses : ing'[i].text <= edits'
<1> SUFFICES ASSUME Inv, [Next]_vars
             PROVE  Copies' /\ \A i \in Ingresses : ing'[i].text <= edits'
  OBVIOUS
<1>1. /\ Copies /\ Grows /\ edits \in Nat
      /\ \A i \in Ingresses : ing[i].text \in Nat /\ ing[i].rev \in Nat /\ ing[i].text <= edits
      /\ \A i \in Ingresses : ing'[i].text \in Nat /\ ing'[i].rev \in Nat
      /\ \A m \in Migrators, i \in Ingresses : list[m][i].rev \in Nat /\ list[m][i].text \in Nat
      /\ list \in [Migrators -> [Ingresses -> Ings]] /\ MaxEdits \in Nat
  BY IngStep, MigrationAssumption DEF Inv, TypeOK, Bounded, Versions, Copies, Grows, Ings
<1>2. edits' \in {edits, edits + 1} /\ \A i \in Ingresses : ing'[i].text <= edits'
  BY <1>1 DEF Grows
<1>3. ASSUME UNCHANGED list PROVE Copies'
  <2> SUFFICES ASSUME NEW m \in Migrators, NEW i \in Ingresses
               PROVE  /\ list[m][i].rev <= ing'[i].rev
                      /\ list[m][i].rev = ing'[i].rev => list[m][i].text = ing'[i].text
                      /\ list[m][i].text <= edits'
    BY <1>3 DEF Copies
  <2>1. /\ list[m][i].rev <= ing[i].rev /\ ing[i].rev <= ing'[i].rev
        /\ list[m][i].rev = ing[i].rev => list[m][i].text = ing[i].text
        /\ ing'[i].rev = ing[i].rev => ing'[i] = ing[i]
        /\ list[m][i].text <= edits
    BY <1>1 DEF Copies, Grows
  <2>2. /\ list[m][i].rev \in Nat /\ list[m][i].text \in Nat
        /\ ing[i].rev \in Nat /\ ing'[i].rev \in Nat
        /\ edits \in Nat /\ edits' \in {edits, edits + 1}
    BY <1>1, <1>2
  <2>3. list[m][i].rev <= ing'[i].rev /\ list[m][i].text <= edits'
    BY <2>1, <2>2
  <2>4. list[m][i].rev = ing'[i].rev => ing'[i].rev = ing[i].rev
    BY <2>1, <2>2
  <2>5. QED
    BY <2>1, <2>3, <2>4
<1>4. ASSUME NEW m \in Migrators, ListIngresses(m) PROVE Copies'
  <2>1. list' = list \/ (list' = [list EXCEPT ![m] = ing] /\ UNCHANGED <<ing, edits>>)
    BY <1>4 DEF ListIngresses, cluster
  <2>2. QED
    BY <1>1, <1>3, <2>1 DEF Copies
<1>5. ASSUME NEW m \in Migrators, Refresh(m) PROVE Copies'
  <2>1. cur[m] \in Ingresses
    BY <1>5 DEF Inv, TypeOK, Progress, Refresh, Busy
  <2>2. list' = list \/ (list' = [list EXCEPT ![m][cur[m]] = ing[cur[m]]] /\ UNCHANGED <<ing, edits>>)
    BY <1>5 DEF Refresh, cluster
  <2>3. QED
    BY <1>1, <1>3, <2>1, <2>2 DEF Copies
<1>6. ASSUME NEW m \in Migrators, Work(m), ~ListIngresses(m), ~Refresh(m) PROVE list' = list
  BY <1>6 DEF Work, Migrate, MigrationDone, CheckService, DeleteWebhook, Retry
<1>7. CASE ReadConfigMap \/ WriteConfigMap
  BY <1>2, <1>3, <1>7 DEF ReadConfigMap, WriteConfigMap
<1>8. CASE UserEditsConfigMap \/ ServiceChanges \/ (\E i \in Ingresses : UserEditsIngress(i)) \/ UNCHANGED vars
  BY <1>2, <1>3, <1>8 DEF UserEditsConfigMap, ServiceChanges, UserEditsIngress, vars, migration
<1>9. QED
  BY <1>2, <1>3, <1>4, <1>5, <1>6, <1>7, <1>8 DEF Next

-----------------------------------------------------------------------------
LEMMA ProgressStep == Inv /\ [Next]_vars => Progress'
<1> SUFFICES ASSUME Inv, [Next]_vars PROVE Progress'
  OBVIOUS
<1>1. /\ Progress /\ Tasks /\ cur \in [Migrators -> Ingresses \cup {None}]
      /\ \A m \in Migrators, i \in Ingresses : Wanted(m, ing'[i]) => Wanted(m, ing[i])
  BY IngStep DEF Inv, TypeOK, Tasks, Grows
<1>2. ASSUME UNCHANGED <<pc, todo, missed, cur>> PROVE Progress'
  BY <1>1, <1>2 DEF Progress
\* What a step of m does to the tasks of m does nothing to those of others.
<1>3. ASSUME NEW m \in Migrators, UNCHANGED <<todo, missed, cur>>,
             NEW p, Go(m, p), p \in Busy => pc[m] \in Busy,
             p = "update" => pc[m] \in Busy, p # "done"
      PROVE  Progress'
  BY <1>1, <1>3 DEF Progress, Tasks, Go, Busy
<1>4. ASSUME NEW m \in Migrators, NEW i \in Ingresses, Miss(m, i), UNCHANGED cur,
             pc[m] \in Busy \cup {"update"}
      PROVE  Progress'
  BY <1>1, <1>4 DEF Progress, Tasks, Miss, Go, Busy
<1>5. ASSUME NEW m \in Migrators, NEW i \in Ingresses, Migrated(m, i), UNCHANGED cur,
             pc[m] \in Busy \cup {"update"}, \A mm \in Migrators : ~Wanted(mm, ing'[i])
      PROVE  Progress'
  BY <1>1, <1>5 DEF Progress, Tasks, Migrated, Go, Busy
<1>6. ASSUME NEW m \in Migrators, NEW i \in Ingresses, Current(m, i), UpdateIngressClass(m, i)
      PROVE  \A mm \in Migrators : ~Wanted(mm, ing'[i])
  BY <1>6, UpdateKeeps, MovedUnwanted DEF Inv
<1>7. ASSUME NEW m \in Migrators, pc[m] \in Busy PROVE cur[m] \in Ingresses
  BY <1>1, <1>7 DEF Progress, Tasks
<1>8. ASSUME NEW m \in Migrators, ListIngresses(m) PROVE Progress'
  BY <1>1, <1>8 DEF ListIngresses, Progress, Tasks, Go, Busy, cluster
<1>9. ASSUME NEW m \in Migrators, NEW i \in Ingresses, Migrate(m, i) PROVE Progress'
  <2>1. pc[m] = "update" /\ i \in todo[m]
    BY <1>9 DEF Migrate
  <2>2. CASE cur' = [cur EXCEPT ![m] = i] /\ UNCHANGED <<ing, todo, missed>>
             /\ \E p \in Busy : Go(m, p)
    BY <1>1, <2>1, <2>2 DEF Progress, Tasks, Go, Busy
  <2>3. CASE UNCHANGED cur /\ Miss(m, i)
    BY <1>4, <2>1, <2>3
  <2>4. CASE UNCHANGED cur /\ Migrated(m, i) /\ Current(m, i) /\ UpdateIngressClass(m, i)
    BY <1>5, <1>6, <2>1, <2>4
  <2>5. QED
    BY <1>9, <2>2, <2>3, <2>4 DEF Migrate, Busy
<1>10. ASSUME NEW m \in Migrators, MigrationDone(m) PROVE Progress'
  BY <1>1, <1>10 DEF MigrationDone, Progress, Tasks, Go, Busy, cluster
<1>11. ASSUME NEW m \in Migrators, CheckService(m) PROVE Progress'
  BY <1>3, <1>4, <1>7, <1>11 DEF CheckService, Busy
<1>12. ASSUME NEW m \in Migrators, DeleteWebhook(m) PROVE Progress'
  BY <1>3, <1>4, <1>7, <1>12 DEF DeleteWebhook, Busy
<1>13. ASSUME NEW m \in Migrators, Refresh(m) PROVE Progress'
  BY <1>3, <1>4, <1>7, <1>13 DEF Refresh, Busy
<1>14. ASSUME NEW m \in Migrators, Retry(m) PROVE Progress'
  BY <1>4, <1>5, <1>6, <1>7, <1>14 DEF Retry, Busy
<1>15. CASE ReadConfigMap \/ WriteConfigMap
  BY <1>3, <1>15 DEF ReadConfigMap, WriteConfigMap, Migrators, Busy
<1>16. CASE UserEditsConfigMap \/ ServiceChanges \/ (\E i \in Ingresses : UserEditsIngress(i)) \/ UNCHANGED vars
  BY <1>2, <1>16 DEF UserEditsConfigMap, ServiceChanges, UserEditsIngress, vars, migration
<1>17. QED
  BY <1>8, <1>9, <1>10, <1>11, <1>12, <1>13, <1>14, <1>15, <1>16 DEF Next, Work

LEMMA GuardedStep == Inv /\ [Next]_vars => Guarded'
<1> SUFFICES ASSUME Inv, [Next]_vars PROVE Guarded'
  OBVIOUS
<1>1. /\ Guarded /\ Tasks /\ Notes /\ edits \in Nat /\ edits' \in {edits, edits + 1}
      /\ \A m \in Migrators : cleaned[m] \subseteq Nat
  BY IngStep, MigrationAssumption DEF Inv, TypeOK, Tasks, Notes, Grows, Ings
<1>2. ASSUME UNCHANGED <<pc, cleaned>>, edits' = edits + 1 PROVE Guarded'
  BY <1>1, <1>2 DEF Guarded
<1>3. ASSUME UNCHANGED <<pc, cleaned, edits, service>> PROVE Guarded'
  BY <1>1, <1>3 DEF Guarded
\* A step that does not lead to the deletion.
<1>4. ASSUME NEW m \in Migrators, UNCHANGED <<cleaned, edits, service>>,
             NEW p, Go(m, p), p # "delete"
      PROVE  Guarded'
  BY <1>1, <1>4 DEF Guarded, Tasks, Go
<1>5. ASSUME NEW m \in Migrators, CheckService(m) PROVE Guarded'
  BY <1>1, <1>5 DEF CheckService, Guarded, Tasks, Notes, Miss, Go, cluster
<1>6. ASSUME NEW m \in Migrators, ListIngresses(m) \/ MigrationDone(m) \/ Refresh(m) PROVE Guarded'
  BY <1>4, <1>6 DEF ListIngresses, MigrationDone, Refresh, Miss, cluster
<1>7. ASSUME NEW m \in Migrators, DeleteWebhook(m) \/ Retry(m) PROVE Guarded'
  BY <1>4, <1>7 DEF DeleteWebhook, Retry, Miss, Migrated
<1>8. ASSUME NEW m \in Migrators, NEW i \in Ingresses, Migrate(m, i) PROVE Guarded'
  BY <1>4, <1>8 DEF Migrate, Miss, Migrated
<1>9. CASE ReadConfigMap \/ WriteConfigMap
  BY <1>4, <1>9 DEF ReadConfigMap, WriteConfigMap, Migrators, cluster
<1>10. CASE UserEditsConfigMap \/ ServiceChanges \/ (\E i \in Ingresses : UserEditsIngress(i))
  BY <1>2, <1>10 DEF UserEditsConfigMap, ServiceChanges, UserEditsIngress, migration
<1>11. CASE UNCHANGED vars
  BY <1>3, <1>11 DEF vars, cluster, migration
<1>12. QED
  BY <1>5, <1>6, <1>7, <1>8, <1>9, <1>10, <1>11 DEF Next, Work

-----------------------------------------------------------------------------
LEMMA Invariance == Spec => []Inv
<1>1. Init => Inv
  <2> SUFFICES ASSUME Init PROVE Inv
    OBVIOUS
  <2>1. /\ ing \in [Ingresses -> Ings] /\ edits = 0 /\ faults = 0
        /\ \A i \in Ingresses : ing[i].text = 0 /\ ing[i].rev = 1
    BY MigrationAssumption DEF Init, Ings, Classes
  <2>2. /\ Blank \in ConfigMaps /\ cm \in ConfigMaps /\ read = Blank
        /\ Blank.own = 0 /\ ~Blank.there
        /\ cm.own <= 1 /\ (cm.there => cm.rev = 1)
    <3>1. Blank \in ConfigMaps /\ Blank.own = 0 /\ ~Blank.there
      BY DEF Blank, ConfigMaps
    <3>2. cm = Blank \/ \E a \in BOOLEAN :
            cm = [there |-> TRUE, own |-> 1, fixed |-> FALSE, backup |-> {},
                  annotated |-> a, rev |-> 1]
      BY DEF Init
    <3>3. cm \in ConfigMaps /\ cm.own <= 1 /\ (cm.there => cm.rev = 1)
      <4>1. CASE cm = Blank
        BY <3>1, <4>1
      <4>2. ASSUME NEW a \in BOOLEAN,
                   cm = [there |-> TRUE, own |-> 1, fixed |-> FALSE, backup |-> {},
                         annotated |-> a, rev |-> 1]
            PROVE  cm \in ConfigMaps /\ cm.own <= 1 /\ (cm.there => cm.rev = 1)
        <5>1. {} \in SUBSET (0..(MaxEdits + 1)) /\ 1 \in Nat
          OBVIOUS
        <5>2. cm \in ConfigMaps
          BY <4>2, <5>1 DEF ConfigMaps
        <5>3. cm.own = 1 /\ cm.rev = 1
          BY <4>2
        <5>4. QED
          BY <5>2, <5>3
      <4>3. QED
        BY <3>2, <4>1, <4>2
    <3>4. QED
      BY <3>1, <3>3 DEF Init
  <2>3. TypeOK
    BY <2>1, <2>2, MigrationAssumption DEF Init, TypeOK, Ings
  <2>4. list = [m \in Migrators |-> ing] /\ cleaned = [m \in Migrators |-> {}]
    BY DEF Init
  <2>5. Bounded /\ Versions
    BY <2>1, <2>2, <2>4 DEF Bounded, Versions
  <2>6. Progress /\ Guarded
    BY <2>4 DEF Init, Progress, Guarded, Busy
  <2>7. QED
    BY <2>3, <2>5, <2>6 DEF Inv
<1>2. Inv /\ [Next]_vars => Inv'
  <2> SUFFICES ASSUME Inv, [Next]_vars PROVE Inv'
    OBVIOUS
  <2>1. TypeOK' /\ Progress' /\ Guarded' /\ Copies' /\ ConfigInv' /\ \A i \in Ingresses : ing'[i].text <= edits'
    BY TypeStep, ProgressStep, GuardedStep, CopiesStep, ConfigStep
  <2>2. QED
    BY <2>1 DEF Inv, Bounded, Versions, Copies, ConfigInv
<1>3. QED
  BY <1>1, <1>2, PTL DEF Spec

(* The ingresses, the ConfigMap and what the migrators hold keep their     *)
(* types; no version and no text of a user gets out of its range.          *)
THEOREM MigrationTypes == Spec => []TypeOK
<1>1. Inv => TypeOK
  BY DEF Inv
<1>2. QED
  BY Invariance, <1>1, PTL

(* A migrator that is done has moved, or counted as failed, each ingress   *)
(* (migrateExistingNginxIngresses, switchExistingIngressesToClass).        *)
THEOREM NoneForgotten == Spec => []MissedAccounted
<1>1. Inv => MissedAccounted
  BY DEF Inv, Progress, MissedAccounted
<1>2. QED
  BY Invariance, <1>1, PTL

(* What users write in an ingress or a ConfigMap outlives the agent's      *)
(* updates of it (updateIngressClass, EnsureNGINXConfigMapSettings).       *)
THEOREM UsersTextKept == Spec => EditsKept
<1> DEFINE Safe == edits' = edits =>
             /\ \A i \in Ingresses : ing'[i].text = ing[i].text
             /\ cm.there => cm'.own = cm.own \/ read = Blank
<1>1. Inv /\ [Next]_vars => Safe
  BY IngStep, ConfigStep DEF Grows
<1>2. QED
  BY Invariance, <1>1, PTL DEF Spec, EditsKept

(* The webhook of an NGINX whose service was found is left alone           *)
(* (cleanupStaleNginxAdmissionWebhooksForClient).                          *)
THEOREM WebhookOfLiving == Spec => WebhookGuarded
<1> DEFINE Safe == webhook' # webhook =>
             ~service \/ elsewhere \/ \E m \in Migrators : pc[m] = "delete" /\ edits \notin cleaned[m]
<1>1. Inv /\ [Next]_vars => Safe
  <2> SUFFICES ASSUME Inv, [Next]_vars, webhook' # webhook
               PROVE  ~service \/ \E m \in Migrators : pc[m] = "delete" /\ edits \notin cleaned[m]
    OBVIOUS
  <2>1. \E m \in Migrators : DeleteWebhook(m)
    <3>1. ASSUME NEW m \in Migrators, Work(m), ~DeleteWebhook(m) PROVE webhook' = webhook
      BY <3>1
         DEF Work, ListIngresses, Migrate, MigrationDone, CheckService, Refresh, Retry, cluster
    <3>2. ~(ReadConfigMap \/ WriteConfigMap)
      BY DEF ReadConfigMap, WriteConfigMap, cluster
    <3>3. /\ ~(UserEditsConfigMap \/ ServiceChanges)
          /\ ~(\E i \in Ingresses : UserEditsIngress(i)) /\ ~(UNCHANGED vars)
      BY DEF UserEditsConfigMap, ServiceChanges, UserEditsIngress, vars, cluster
    <3>4. QED
      BY <3>1, <3>2, <3>3 DEF Next
  <2>2. QED
    BY <2>1 DEF DeleteWebhook, Inv, Guarded
<1>2. QED
  BY Invariance, <1>1, PTL DEF Spec, WebhookGuarded

-----------------------------------------------------------------------------
(* A host that the cluster asks for, or that nobody may withdraw any more. *)
Resolved(h) == h \in Listed \/ h \in lost

(* An event that, when it is handled, withdraws host h.                    *)
Withdraws(e, h) == e.action = "delete" /\ e.spec.managed /\ h \in e.spec.hosts

(* An event that, when it is handled, registers host h.                    *)
Registers(e, h) ==
  e.action \in {"add", "update"} /\ e.spec.managed /\ h \in e.spec.hosts

WithdrawalQueued(h) == \E n \in DOMAIN queue : Withdraws(queue[n], h)

Withdrawing(h) ==
  \/ worker.at = "unregister" /\ h \in worker.hosts
  \/ worker.at = "uncall" /\ (h \in worker.hosts \/ h = worker.host)

Registering(h) ==
  \/ worker.at = "register" /\ h \in worker.hosts
  \/ worker.at = "call" /\ (h \in worker.hosts \/ h = worker.host)

(* A backend that was ever missing leaves its hosts to nobody.             *)
UnservedLost == \A i \in IngressNames : i \notin served =>
                  \A s \in Specs : s.hosts \subseteq lost

(* A process does nothing before its informer runs.                        *)
NotStarted ==
  phase \in {"type", "wait", "watch"} =>
    /\ queue = <<>> /\ worker.at = "idle"
    /\ \A s \in Syncers : syncer[s].at = "idle"

(* A registration that is queued or under way is for a host that is still  *)
(* wanted, or its withdrawal is queued behind it.                          *)
QueueOrdered ==
  Watching => \A h \in Hosts : \A n \in DOMAIN queue : Registers(queue[n], h) =>
    Resolved(h) \/ \E m \in DOMAIN queue : m > n /\ Withdraws(queue[m], h)

WorkerOrdered ==
  Watching => \A h \in Hosts : Registering(h) => Resolved(h) \/ WithdrawalQueued(h)

RoutesOwed ==
  Watching => \A h \in Hosts : routes[h] # NoRoute =>
    Resolved(h) \/ WithdrawalQueued(h) \/ Withdrawing(h)

-----------------------------------------------------------------------------
(* The parts of RoutesTypeOK.                                              *)
Doing == {"idle", "register", "unregister", "call", "uncall"}
Jobs == [at : Doing, hosts : SUBSET Hosts, host : Hosts \cup {NoRoute},
         uuid : UUIDs, attempt : 0..MaxRetries]

World ==
  /\ ingress \in [IngressNames -> Specs \cup {Absent}]
  /\ served \subseteq IngressNames
  /\ controller \in BOOLEAN
  /\ changes \in 0..MaxChanges
  /\ phase \in Phases
  /\ ingressService \in BOOLEAN /\ isRunning \in BOOLEAN
  /\ clusterUUID \in UUIDs
  /\ lost \subseteq Hosts

Calls ==
  /\ routeCache \subseteq Hosts
  /\ worker \in Jobs
  /\ routes \in [Hosts -> UUIDs \cup {NoRoute}]
  /\ failures \in 0..MaxFailures

Syncing ==
  syncer \in [Syncers -> [at : {"idle", "build", "call"},
                          hosts : SUBSET Hosts, uuid : UUIDs,
                          attempt : 0..MaxRetries]]

Queued == queue \in Seq(Events)

LEMMA RoutesParts == RoutesTypeOK <=> World /\ Calls /\ Syncing /\ Queued
BY DEF RoutesTypeOK, World, Calls, Syncing, Queued, Jobs, Doing

(* The records of onIngressEvent: a new job, the next call of it, and the  *)
(* same call again.                                                        *)
LEMMA RestingJob == Resting \in Jobs /\ Resting.at = "idle"
BY RoutesAssumption DEF Jobs, Resting, Doing

LEMMA JobBegins ==
  ASSUME NEW a \in Doing, NEW hosts \in SUBSET Hosts
  PROVE  LET w == [Resting EXCEPT !.at = a, !.hosts = hosts]
         IN  w \in Jobs /\ w.at = a /\ w.hosts = hosts
BY RestingJob DEF Jobs

LEMMA JobRetries ==
  ASSUME NEW w \in Jobs, w.attempt + 1 < MaxRetries
  PROVE  LET v == [w EXCEPT !.attempt = @ + 1]
         IN  v \in Jobs /\ v.at = w.at /\ v.hosts = w.hosts /\ v.host = w.host
<1>1. w.attempt + 1 \in 0..MaxRetries
  BY RoutesAssumption DEF Jobs
<1>2. QED
  BY <1>1 DEF Jobs

(* A call is about a host.                                                 *)
Addressed == worker.at \in {"call", "uncall"} => worker.host \in Hosts

(* What a specification says, and that Listed has no other hosts.          *)
LEMMA SpecHosts ==
  ASSUME RoutesTypeOK
  PROVE  /\ \A s \in Specs : s.managed \in BOOLEAN /\ s.hosts \subseteq Hosts
         /\ \A i \in IngressNames : ingress[i] # Absent => ingress[i] \in Specs
         /\ Listed \subseteq Hosts
<1>1. \A s \in Specs : s.managed \in BOOLEAN /\ s.hosts \subseteq Hosts
  BY RoutesAssumption
<1>2. \A i \in IngressNames : ingress[i] # Absent => ingress[i] \in Specs
  BY DEF RoutesTypeOK
<1>3. Listed \subseteq Hosts
  BY <1>1, <1>2 DEF Listed, ExtractRoutes, Managed
<1>4. QED
  BY <1>1, <1>2, <1>3

(* What onIngressEvent makes of an event: the hosts it found are its job,  *)
(* and those of a deletion that it did not find are lost.                  *)
LEMMA Handled ==
  ASSUME RoutesTypeOK, HandleEvent
  PROVE  LET e == Head(queue)
             all == IF e.spec.managed THEN ExtractRoutes(e.name, e.spec) ELSE {}
         IN  /\ e \in Events /\ worker' \in Jobs /\ worker.at = "idle"
             /\ lost \subseteq lost' /\ lost' \subseteq Hosts
             /\ worker'.at \in {"idle", "register", "unregister"}
             /\ worker'.at = "register" =>
                  e.action \in {"add", "update"} /\ worker'.hosts \subseteq all
             /\ \A h \in all : e.action = "delete" =>
                  \/ worker'.at = "unregister" /\ h \in worker'.hosts
                  \/ h \in lost'
<1> DEFINE e == Head(queue)
           all == IF e.spec.managed THEN ExtractRoutes(e.name, e.spec) ELSE {}
<1>1. e \in Events /\ queue # <<>>
  BY HeadTailProperties DEF HandleEvent, RoutesTypeOK
<1>2. all \in SUBSET Hosts
  BY <1>1, RoutesAssumption DEF Events, ExtractRoutes
<1>3. worker.at = "idle" /\ worker \in Jobs /\ lost \subseteq Hosts
  BY RoutesParts DEF HandleEvent, Calls, World
<1>4. \/ UNCHANGED <<worker, lost>> /\ e.action # "delete"
      \/ /\ e.action \in {"add", "update"} /\ UNCHANGED lost
         /\ \E hosts \in SUBSET all :
              worker' = [Resting EXCEPT !.at = "register", !.hosts = hosts]
      \/ /\ e.action = "delete"
         /\ \E hosts \in SUBSET all :
              /\ lost' = lost \cup (all \ hosts)
              /\ \/ hosts = {} /\ UNCHANGED worker
                 \/ worker' = [Resting EXCEPT !.at = "unregister", !.hosts = hosts]
  BY <1>1 DEF HandleEvent, Events
<1> HIDE DEF e, all
<1>5. CASE UNCHANGED <<worker, lost>> /\ e.action # "delete"
  BY <1>1, <1>3, <1>5 DEF e, all
<1>6. ASSUME NEW hosts \in SUBSET all, e.action \in {"add", "update"}, UNCHANGED lost,
             worker' = [Resting EXCEPT !.at = "register", !.hosts = hosts]
      PROVE  /\ worker' \in Jobs /\ worker'.at = "register"
             /\ worker'.hosts = hosts /\ e.action # "delete"
  BY <1>2, <1>6, JobBegins DEF Doing
<1>7. ASSUME NEW hosts \in SUBSET all, lost' = lost \cup (all \ hosts),
             worker' = [Resting EXCEPT !.at = "unregister", !.hosts = hosts]
      PROVE  worker' \in Jobs /\ worker'.at = "unregister" /\ worker'.hosts = hosts
  BY <1>2, <1>7, JobBegins DEF Doing
<1>8. CASE /\ e.action \in {"add", "update"} /\ UNCHANGED lost
           /\ \E hosts \in SUBSET all :
                worker' = [Resting EXCEPT !.at = "register", !.hosts = hosts]
  <2>1. PICK hosts \in SUBSET all :
          worker' = [Resting EXCEPT !.at = "register", !.hosts = hosts]
    BY <1>8
  <2>2. /\ worker' \in Jobs /\ worker'.at = "register"
        /\ worker'.hosts = hosts /\ e.action # "delete"
    BY <1>6, <1>8, <2>1
  <2>3. QED
    BY <1>1, <1>3, <1>8, <2>2 DEF e, all
<1>9. CASE /\ e.action = "delete"
           /\ \E hosts \in SUBSET all :
                /\ lost' = lost \cup (all \ hosts)
                /\ \/ hosts = {} /\ UNCHANGED worker
                   \/ worker' = [Resting EXCEPT !.at = "unregister", !.hosts = hosts]
  <2>1. PICK hosts \in SUBSET all :
          /\ lost' = lost \cup (all \ hosts)
          /\ \/ hosts = {} /\ UNCHANGED worker
             \/ worker' = [Resting EXCEPT !.at = "unregister", !.hosts = hosts]
    BY <1>9
  <2>2. lost \subseteq lost' /\ lost' \subseteq Hosts
    BY <1>2, <1>3, <2>1
  <2>3. CASE hosts = {} /\ UNCHANGED worker
    BY <1>1, <1>3, <1>9, <2>1, <2>2, <2>3 DEF e, all
  <2>4. CASE worker' = [Resting EXCEPT !.at = "unregister", !.hosts = hosts]
    <3>1. worker' \in Jobs /\ worker'.at = "unregister" /\ worker'.hosts = hosts
      BY <1>7, <2>1, <2>4
    <3>2. QED
      BY <1>1, <1>3, <1>9, <2>1, <2>2, <3>1 DEF e, all
  <2>5. QED
    BY <2>1, <2>3, <2>4
<1>10. QED
  BY <1>4, <1>5, <1>8, <1>9

(* What a read leaves of the number of failures.                           *)
LEMMA ReadResult ==
  ASSUME RoutesTypeOK, NEW all, Reads(all)
  PROVE  failures' \in 0..MaxFailures
<1>1. failures \in 0..MaxFailures /\ MaxFailures \in Nat
  BY RoutesAssumption DEF RoutesTypeOK
<1>2. QED
  BY <1>1 DEF Reads

LEMMA WorldStep == RoutesTypeOK /\ Addressed /\ [RoutesNext]_routeVars => World'
<1> SUFFICES ASSUME RoutesTypeOK, Addressed, [RoutesNext]_routeVars PROVE World'
  OBVIOUS
<1>0. /\ World /\ Calls /\ Syncing
      /\ \A s \in Specs : s.hosts \subseteq Hosts
      /\ \A i \in IngressNames : ingress[i] # Absent => ingress[i].hosts \subseteq Hosts
      /\ Listed \subseteq Hosts
  BY RoutesParts, SpecHosts
<1>c. ASSUME Change PROVE changes' \in 0..MaxChanges
  BY <1>0, <1>c, RoutesAssumption DEF World, Change
<1> USE DEF World, clusterVars, watcher
<1>1. ASSUME NEW i \in IngressNames, Create(i) PROVE World'
  BY <1>0, <1>1, <1>c DEF Create, ClusterOnly
<1>2. ASSUME NEW i \in IngressNames, Edit(i) PROVE World'
  <2>1. PICK s \in Specs :
          /\ ingress' = [ingress EXCEPT ![i] = s]
          /\ lost' = lost \cup (ingress[i].hosts \ (IF s.managed THEN s.hosts ELSE {}))
    BY <1>2 DEF Edit
  <2>2. lost' \subseteq Hosts
    BY <1>0, <1>2, <2>1 DEF Edit
  <2>3. QED
    BY <1>0, <1>2, <1>c, <2>1, <2>2 DEF Edit, ClusterOnly
<1>3. ASSUME NEW i \in IngressNames, Delete(i) PROVE World'
  BY <1>0, <1>3, <1>c DEF Delete, ClusterOnly
<1>4. ASSUME NEW i \in IngressNames, BackendChanges(i) PROVE World'
  BY <1>0, <1>4, <1>c DEF BackendChanges, ClusterOnly
<1>5. CASE ControllerAppears
  BY <1>0, <1>5 DEF ControllerAppears, ClusterOnly
<1>6. CASE Starter \/ Stop \/ Restart
  <2>1. CASE DetectClusterType \/ WaitForController \/ StartInformer \/ Stop
    BY <1>0, <2>1 DEF DetectClusterType, WaitForController, StartInformer, Stop,
       StarterOnly, Phases
  <2>2. CASE StartSyncs
    BY <1>0, <2>2 DEF StartSyncs, Sync, Detected, SyncerOnly, Phases
  <2>3. CASE Restart
    <3>1. changes' \in 0..MaxChanges
      BY <1>0, <2>3, RoutesAssumption DEF Restart
    <3>2. phase' \in Phases /\ clusterUUID' \in UUIDs
      BY <2>3 DEF Restart, Phases
    <3>3. QED
      BY <1>0, <2>3, <3>1, <3>2 DEF Restart
  <2>4. QED
    BY <1>6, <2>1, <2>2, <2>3 DEF Starter
<1>7. CASE Worker
  <2>1. CASE HandleEvent
    <3>1. lost' \subseteq Hosts
      BY <1>0, <2>1, Handled
    <3>2. ingressService' \in BOOLEAN
      BY <1>0, <2>1 DEF HandleEvent, Detected
    <3>3. QED
      BY <1>0, <2>1, <3>1, <3>2 DEF HandleEvent, WorkerOnly
  <2>2. CASE NextRegister \/ NextUnregister \/ EventDone \/ RegisterRoute
    BY <1>0, <2>2 DEF NextRegister, NextUnregister, EventDone, RegisterRoute,
       WorkerOnly
  <2>3. CASE UnregisterRoute
    <3>1. lost' = lost \/ (lost' = lost \cup {worker.host} /\ worker.at = "uncall")
      BY <2>3, Zenon DEF UnregisterRoute
    <3>2. QED
      BY <1>0, <2>3, <3>1 DEF UnregisterRoute, WorkerOnly, Addressed
  <2>4. QED
    BY <1>7, <2>1, <2>2, <2>3 DEF Worker
<1>8. ASSUME NEW i \in IngressNames, Resync(i) PROVE World'
  BY <1>0, <1>8 DEF Resync, WorkerOnly
<1>9. ASSUME NEW s \in Syncers, Syncs(s) PROVE World'
  <2>1. syncer[s].hosts \subseteq Hosts
    BY <1>0 DEF Syncing
  <2>2. QED
    BY <1>0, <1>9, <2>1 DEF Syncs, Build, SyncIngresses, SyncerOnly
<1>10. CASE PeriodicRefresh \/ Reconnected
  BY <1>0, <1>10, <1>c DEF PeriodicRefresh, Reconnected, Sync, Detected, SyncerOnly
<1>11. ASSUME NEW h \in Hosts, Expire(h) PROVE World'
  BY <1>0, <1>11 DEF Expire
<1>12. CASE UNCHANGED routeVars
  BY <1>0, <1>12 DEF routeVars
<1>13. QED
  BY <1>1, <1>2, <1>3, <1>4, <1>5, <1>6, <1>7, <1>8, <1>9, <1>10, <1>11, <1>12
     DEF RoutesNext, Cluster

(* What a call leaves of the routes and of the number of failed calls.     *)
LEMMA CallResult ==
  ASSUME RoutesTypeOK, NEW hosts, NEW u \in UUIDs \cup {NoRoute},
         Succeeds(Put(hosts, u)) \/ Fails(Put(hosts, u))
  PROVE  /\ routes' \in [Hosts -> UUIDs \cup {NoRoute}]
         /\ failures' \in 0..MaxFailures
         /\ \A h \in Hosts : routes'[h] = routes[h] \/ (h \in hosts /\ routes'[h] = u)
         /\ Succeeds(Put(hosts, u)) => \A h \in Hosts : h \in hosts => routes'[h] = u
<1>1. /\ routes \in [Hosts -> UUIDs \cup {NoRoute}]
      /\ failures \in 0..MaxFailures /\ MaxFailures \in Nat
  BY RoutesAssumption DEF RoutesTypeOK
<1>2. /\ Put(hosts, u) \in [Hosts -> UUIDs \cup {NoRoute}]
      /\ \A h \in Hosts : Put(hosts, u)[h] = IF h \in hosts THEN u ELSE routes[h]
  BY <1>1 DEF Put
<1>3. failures' \in 0..MaxFailures
  BY <1>1 DEF Succeeds, Fails
<1>4. routes' = routes \/ routes' = Put(hosts, u)
  BY DEF Succeeds, Fails
<1>5. Succeeds(Put(hosts, u)) => routes' = Put(hosts, u)
  BY DEF Succeeds
<1>6. QED
  BY <1>1, <1>2, <1>3, <1>4, <1>5

(* What each step of onIngressEvent makes of its job.                      *)
LEMMA CallBegins ==
  ASSUME RoutesTypeOK, NextRegister \/ NextUnregister
  PROVE  /\ worker' \in Jobs /\ routeCache' \subseteq Hosts
         /\ worker'.host \in worker.hosts /\ worker'.hosts = worker.hosts \ {worker'.host}
         /\ NextRegister => worker.at = "register" /\ worker'.at = "call"
         /\ NextUnregister => worker.at = "unregister" /\ worker'.at = "uncall"
<1>0. /\ worker \in Jobs /\ clusterUUID \in UUIDs /\ routeCache \subseteq Hosts
      /\ 0 \in 0..MaxRetries
  BY RoutesParts, RoutesAssumption DEF Calls, World
<1>1. CASE NextRegister
  <2>1. PICK h \in worker.hosts :
          /\ routeCache' = routeCache \cup {h}
          /\ worker' = [worker EXCEPT !.at = "call", !.hosts = @ \ {h}, !.host = h,
                                      !.uuid = clusterUUID, !.attempt = 0]
    BY <1>1 DEF NextRegister
  <2>2. h \in Hosts /\ h \in Hosts \cup {NoRoute} /\ worker.hosts \ {h} \in SUBSET Hosts
    BY <1>0 DEF Jobs
  <2>3. /\ worker' \in Jobs /\ worker'.at = "call" /\ worker'.host = h
        /\ worker'.hosts = worker.hosts \ {h}
    BY <1>0, <2>1, <2>2 DEF Jobs, Doing
  <2>4. worker.at = "register"
    BY <1>1 DEF NextRegister
  <2>5. routeCache' \subseteq Hosts
    BY <1>0, <2>1, <2>2
  <2>6. ~NextUnregister
    BY <2>4 DEF NextUnregister
  <2>7. QED
    BY <2>1, <2>3, <2>4, <2>5, <2>6
<1>2. CASE NextUnregister
  <2>1. PICK h \in worker.hosts :
          /\ routeCache' = routeCache \ {h}
          /\ worker' = [worker EXCEPT !.at = "uncall", !.hosts = @ \ {h}, !.host = h,
                                      !.attempt = 0]
    BY <1>2 DEF NextUnregister
  <2>2. h \in Hosts /\ h \in Hosts \cup {NoRoute} /\ worker.hosts \ {h} \in SUBSET Hosts
    BY <1>0 DEF Jobs
  <2>3. /\ worker' \in Jobs /\ worker'.at = "uncall" /\ worker'.host = h
        /\ worker'.hosts = worker.hosts \ {h}
    BY <1>0, <2>1, <2>2 DEF Jobs, Doing
  <2>4. worker.at = "unregister"
    BY <1>2 DEF NextUnregister
  <2>5. routeCache' \subseteq Hosts
    BY <1>0, <2>1
  <2>6. ~NextRegister
    BY <2>4 DEF NextRegister
  <2>7. QED
    BY <2>1, <2>3, <2>4, <2>5, <2>6
<1>3. QED
  BY <1>1, <1>2

LEMMA Called ==
  ASSUME RoutesTypeOK, RegisterRoute \/ UnregisterRoute
  PROVE  LET new == Put({worker.host}, IF RegisterRoute THEN worker.uuid ELSE NoRoute)
         IN  /\ Succeeds(new) \/ Fails(new)
             /\ worker' \in Jobs /\ UNCHANGED routeCache
             /\ worker'.hosts = worker.hosts
             /\ RegisterRoute =>
                  /\ worker.at = "call" /\ UNCHANGED lost
                  /\ \/ worker'.at = "register"
                     \/ worker'.at = "call" /\ worker'.host = worker.host
             /\ UnregisterRoute =>
                  /\ worker.at = "uncall"
                  /\ \/ Succeeds(new) /\ worker'.at = "unregister" /\ UNCHANGED lost
                     \/ worker'.at = "unregister" /\ lost' = lost \cup {worker.host}
                     \/ /\ worker'.at = "uncall" /\ worker'.host = worker.host
                        /\ UNCHANGED lost
<1>0. /\ worker \in Jobs /\ worker.hosts \in SUBSET Hosts
      /\ worker.attempt \in Nat /\ MaxRetries \in Nat
  BY RoutesParts, RoutesAssumption DEF Calls, Jobs
<1>1. CASE RegisterRoute
  <2> DEFINE new == Put({worker.host}, worker.uuid)
             done == [Resting EXCEPT !.at = "register", !.hosts = worker.hosts]
             again == [worker EXCEPT !.attempt = @ + 1]
  <2>1. /\ Succeeds(new) \/ Fails(new)
        /\ worker' = done \/ (worker.attempt + 1 < MaxRetries /\ worker' = again)
        /\ worker.at = "call" /\ UNCHANGED <<routeCache, lost>>
    BY <1>1 DEF RegisterRoute
  <2>2. done \in Jobs /\ done.at = "register" /\ done.hosts = worker.hosts
    BY <1>0, JobBegins DEF Doing
  <2>3. worker.attempt + 1 < MaxRetries =>
          /\ again \in Jobs /\ again.at = worker.at
          /\ again.hosts = worker.hosts /\ again.host = worker.host
    BY <1>0, JobRetries
  <2> HIDE DEF new, done, again
  <2>4. ~UnregisterRoute
    BY <2>1 DEF UnregisterRoute
  <2>5. QED
    BY <1>1, <2>1, <2>2, <2>3, <2>4 DEF new
<1>2. CASE UnregisterRoute
  <2> DEFINE new == Put({worker.host}, NoRoute)
             done == [Resting EXCEPT !.at = "unregister", !.hosts = worker.hosts]
             again == [worker EXCEPT !.attempt = @ + 1]
  <2>1. /\ \/ Succeeds(new) /\ worker' = done /\ UNCHANGED lost
           \/ Fails(new) /\ worker' = done /\ lost' = lost \cup {worker.host}
           \/ /\ Fails(new) /\ ~(worker.attempt + 1 >= MaxRetries)
              /\ worker' = again /\ UNCHANGED lost
        /\ worker.at = "uncall" /\ UNCHANGED routeCache
    BY <1>2, Zenon DEF UnregisterRoute
  <2>2. done \in Jobs /\ done.at = "unregister" /\ done.hosts = worker.hosts
    BY <1>0, JobBegins DEF Doing
  <2>3. ~(worker.attempt + 1 >= MaxRetries) =>
          /\ again \in Jobs /\ again.at = worker.at
          /\ again.hosts = worker.hosts /\ again.host = worker.host
    BY <1>0, JobRetries
  <2> HIDE DEF new, done, again
  <2>4. ~RegisterRoute
    BY <2>1 DEF RegisterRoute
  <2>5. QED
    BY <1>2, <2>1, <2>2, <2>3, <2>4 DEF new
<1>3. QED
  BY <1>1, <1>2

LEMMA CallsStep ==
  RoutesTypeOK /\ Addressed /\ [RoutesNext]_routeVars => Calls' /\ Addressed'
<1> SUFFICES ASSUME RoutesTypeOK, Addressed, [RoutesNext]_routeVars
             PROVE  Calls' /\ Addressed'
  OBVIOUS
<1>0. /\ World /\ Calls /\ Syncing /\ Queued
      /\ \A s \in Specs : s.hosts \subseteq Hosts
      /\ MaxRetries \in Nat \ {0} /\ 1 \in UUIDs
      /\ Listed \subseteq Hosts
  BY RoutesParts, SpecHosts, RoutesAssumption
<1>a. ASSUME UNCHANGED <<routeCache, worker, routes, failures>>
      PROVE  Calls' /\ Addressed'
  BY <1>0, <1>a DEF Calls, Addressed
<1>1. CASE Cluster
  BY <1>1, <1>a, Zenon DEF Cluster, Create, Edit, Delete, BackendChanges,
     ControllerAppears, ClusterOnly
<1>b. ASSUME NEW s \in Syncers, Sync(s), UNCHANGED <<routeCache, worker, routes>>
      PROVE  Calls' /\ Addressed'
  <2>1. \E all \in BOOLEAN : Reads(all)
    BY <1>b DEF Sync
  <2>2. failures' \in 0..MaxFailures
    BY <2>1, ReadResult
  <2>3. QED
    BY <1>0, <1>b, <2>2 DEF Calls, Addressed
<1>2. CASE DetectClusterType \/ WaitForController \/ StartInformer \/ Stop
  BY <1>2, <1>a, Zenon DEF Stop, DetectClusterType, WaitForController,
     StartInformer, StarterOnly
<1>3. CASE Worker
  <2> USE DEF Calls, Addressed
  <2>1. CASE HandleEvent
    <3>1. worker' \in Jobs /\ worker'.at \notin {"call", "uncall"}
      BY <2>1, Handled
    <3>2. UNCHANGED failures \/ \E all \in BOOLEAN : Reads(all)
      BY <2>1 DEF HandleEvent
    <3>3. failures' \in 0..MaxFailures
      BY <1>0, <3>2, ReadResult
    <3>4. QED
      BY <1>0, <2>1, <3>1, <3>3 DEF HandleEvent
  <2>2. CASE NextRegister \/ NextUnregister
    <3>1. worker' \in Jobs /\ routeCache' \subseteq Hosts /\ worker'.host \in worker.hosts
      BY <2>2, CallBegins
    <3>2. worker'.host \in Hosts
      BY <1>0, <3>1 DEF Jobs
    <3>3. QED
      BY <1>0, <2>2, <3>1, <3>2 DEF NextRegister, NextUnregister
  <2>3. CASE EventDone
    BY <1>0, <2>3, RestingJob DEF EventDone
  <2>4. CASE RegisterRoute \/ UnregisterRoute
    <3> DEFINE u == IF RegisterRoute THEN worker.uuid ELSE NoRoute
    <3>1. /\ Succeeds(Put({worker.host}, u)) \/ Fails(Put({worker.host}, u))
          /\ worker' \in Jobs /\ UNCHANGED routeCache
          /\ worker'.at \in {"call", "uncall"} => worker'.host = worker.host
          /\ worker.at \in {"call", "uncall"}
      BY <2>4, Called
    <3>2. u \in UUIDs \cup {NoRoute}
      BY <1>0 DEF Jobs
    <3> HIDE DEF u
    <3>3. /\ routes' \in [Hosts -> UUIDs \cup {NoRoute}]
          /\ failures' \in 0..MaxFailures
      BY <3>1, <3>2, CallResult
    <3>4. QED
      BY <1>0, <3>1, <3>3
  <2>5. QED
    BY <1>3, <2>1, <2>2, <2>3, <2>4 DEF Worker
<1>4. ASSUME NEW i \in IngressNames, Resync(i) PROVE Calls' /\ Addressed'
  BY <1>4, <1>a DEF Resync
<1>5. ASSUME NEW s \in Syncers, Syncs(s) PROVE Calls' /\ Addressed'
  <2>1. syncer[s].hosts \subseteq Hosts /\ syncer[s].uuid \in UUIDs
    BY <1>0 DEF Syncing
  <2>2. CASE Build(s)
    BY <1>0, <2>1, <2>2 DEF Build, SyncerOnly, Calls, Addressed
  <2>3. CASE SyncIngresses(s)
    <3> DEFINE new == Put(syncer[s].hosts, syncer[s].uuid)
    <3>1. (Succeeds(new) \/ Fails(new)) /\ UNCHANGED <<routeCache, worker>>
      BY <2>3, Zenon DEF SyncIngresses, SyncerOnly
    <3>2. /\ routes' \in [Hosts -> UUIDs \cup {NoRoute}]
          /\ failures' \in 0..MaxFailures
      BY <2>1, <3>1, CallResult
    <3>3. QED
      BY <1>0, <3>1, <3>2 DEF Calls, Addressed
  <2>4. QED
    BY <1>5, <2>2, <2>3 DEF Syncs
<1>6. CASE StartSyncs \/ PeriodicRefresh \/ Reconnected
  BY <1>6, <1>b, Zenon DEF StartSyncs, PeriodicRefresh, Reconnected, SyncerOnly, Syncers
<1>7. ASSUME NEW h \in Hosts, Expire(h) PROVE Calls' /\ Addressed'
  BY <1>0, <1>7 DEF Expire, Calls, Addressed
<1>8. CASE UNCHANGED routeVars
  BY <1>8, <1>a DEF routeVars
<1>9. CASE Restart
  BY <1>0, <1>9, RestingJob DEF Restart, Calls, Addressed
<1>10. QED
  BY <1>1, <1>2, <1>3, <1>4, <1>5, <1>6, <1>7, <1>8, <1>9 DEF RoutesNext, Starter

(* The records of syncExistingIngresses.                                   *)
SyncJobs == [at : {"idle", "build", "call"}, hosts : SUBSET Hosts, uuid : UUIDs,
             attempt : 0..MaxRetries]

LEMMA IdleSync == Idle \in SyncJobs /\ Idle.at = "idle"
BY RoutesAssumption DEF Idle, SyncJobs

(* What the start, the builds and the calls make of a synchronisation.     *)
LEMMA SyncStarted ==
  ASSUME RoutesTypeOK, NEW s \in Syncers, Sync(s)
  PROVE  /\ syncer' \in [Syncers -> SyncJobs]
         /\ \A x \in Syncers : x # s => syncer'[x] = syncer[x]
         /\ syncer'[s].at \in {"idle", "build"}
<1>0. syncer \in [Syncers -> SyncJobs] /\ Listed \in SUBSET Hosts
  BY SpecHosts DEF RoutesTypeOK, SyncJobs
<1> DEFINE v(hosts) == [Idle EXCEPT !.at = "build", !.hosts = hosts]
<1>1. PICK hosts \in SUBSET Listed, found \in {ingressService, Detected} :
        syncer' = [syncer EXCEPT ![s] = IF found THEN v(hosts) ELSE Idle]
  BY Zenon DEF Sync
<1>2. v(hosts) \in SyncJobs /\ v(hosts).at = "build"
  BY <1>0, IdleSync DEF SyncJobs
<1> HIDE DEF v
<1>3. syncer' = [syncer EXCEPT ![s] = v(hosts)] \/ syncer' = [syncer EXCEPT ![s] = Idle]
  BY <1>1
<1>4. QED
  BY <1>0, <1>2, <1>3, IdleSync

LEMMA SyncSteps ==
  ASSUME RoutesTypeOK, NEW s \in Syncers, Syncs(s)
  PROVE  /\ syncer' \in [Syncers -> SyncJobs]
         /\ \A x \in Syncers : x # s => syncer'[x] = syncer[x]
<1>0. syncer \in [Syncers -> SyncJobs] /\ syncer[s] \in SyncJobs /\ clusterUUID \in UUIDs
  BY DEF RoutesTypeOK, SyncJobs
<1> DEFINE built == [syncer[s] EXCEPT !.at = "call", !.uuid = clusterUUID]
           again == [syncer[s] EXCEPT !.attempt = @ + 1]
<1>1. built \in SyncJobs
  BY <1>0 DEF SyncJobs
<1>2. ASSUME syncer[s].attempt + 1 < MaxRetries PROVE again \in SyncJobs
  <2>1. syncer[s].attempt + 1 \in 0..MaxRetries
    BY <1>0, <1>2, RoutesAssumption DEF SyncJobs
  <2>2. QED
    BY <1>0, <2>1 DEF SyncJobs
<1> DEFINE goal == \/ syncer' = [syncer EXCEPT ![s] = Idle]
                   \/ syncer' = [syncer EXCEPT ![s] = built]
                   \/ /\ syncer[s].attempt + 1 < MaxRetries
                      /\ syncer' = [syncer EXCEPT ![s] = again]
<1>3. goal
  <2>1. CASE Build(s)
    <3>1. syncer' = [syncer EXCEPT ![s] = IF syncer[s].hosts = {} THEN Idle ELSE built]
      BY <2>1 DEF Build
    <3>2. QED
      BY <3>1
  <2>2. CASE SyncIngresses(s)
    <3>1. syncer[s].attempt + 1 < MaxRetries =>
            [syncer EXCEPT ![s].attempt = @ + 1] = [syncer EXCEPT ![s] = again]
      BY <1>0
    <3>2. \/ syncer' = [syncer EXCEPT ![s] = Idle]
          \/ syncer' = IF syncer[s].attempt + 1 < MaxRetries
                       THEN [syncer EXCEPT ![s].attempt = @ + 1]
                       ELSE [syncer EXCEPT ![s] = Idle]
      BY <2>2, Zenon DEF SyncIngresses
    <3>3. QED
      BY <3>1, <3>2
  <2>3. QED
    BY <2>1, <2>2 DEF Syncs
<1> HIDE DEF built, again
<1>4. QED
  BY <1>0, <1>1, <1>2, <1>3, IdleSync

LEMMA SyncingStep == RoutesTypeOK /\ [RoutesNext]_routeVars => Syncing'
<1> SUFFICES ASSUME RoutesTypeOK, [RoutesNext]_routeVars PROVE Syncing'
  OBVIOUS
<1>a. ASSUME UNCHANGED syncer PROVE Syncing'
  BY <1>a DEF RoutesTypeOK, Syncing
<1>b. ASSUME syncer' \in [Syncers -> SyncJobs] PROVE Syncing'
  BY <1>b DEF Syncing, SyncJobs
<1>1. CASE Cluster
  BY <1>1, <1>a, Zenon DEF Cluster, Create, Edit, Delete, BackendChanges,
     ControllerAppears, ClusterOnly
<1>2. CASE DetectClusterType \/ WaitForController \/ StartInformer \/ Stop
  BY <1>2, <1>a, Zenon DEF Stop, DetectClusterType, WaitForController, StartInformer
<1>3. CASE StartSyncs \/ PeriodicRefresh \/ Reconnected
  BY <1>3, <1>b, SyncStarted DEF StartSyncs, PeriodicRefresh, Reconnected, Syncers
<1>4. CASE Worker
  BY <1>4, <1>a, Zenon DEF Worker, HandleEvent, NextRegister, NextUnregister,
     EventDone, RegisterRoute, UnregisterRoute, WorkerOnly
<1>5. ASSUME NEW i \in IngressNames, Resync(i) PROVE Syncing'
  BY <1>5, <1>a DEF Resync, WorkerOnly
<1>6. ASSUME NEW s \in Syncers, Syncs(s) PROVE Syncing'
  BY <1>6, <1>b, SyncSteps
<1>7. ASSUME NEW h \in Hosts, Expire(h) PROVE Syncing'
  BY <1>7, <1>a DEF Expire
<1>8. CASE UNCHANGED routeVars
  BY <1>8, <1>a DEF routeVars
<1>9. CASE Restart
  BY <1>9, <1>b, IdleSync DEF Restart
<1>10. QED
  BY <1>1, <1>2, <1>3, <1>4, <1>5, <1>6, <1>7, <1>8, <1>9 DEF RoutesNext, Starter

-----------------------------------------------------------------------------
(* What the informer delivers: an event is added at the end.               *)
LEMMA QueueGrows ==
  ASSUME NEW q \in Seq(Events), NEW e \in Events
  PROVE  LET p == Append(q, e)
         IN  /\ p \in Seq(Events) /\ Len(q) \in Nat
             /\ DOMAIN q = 1..Len(q) /\ DOMAIN p = 1..(Len(q) + 1)
             /\ \A n \in DOMAIN q : p[n] = q[n]
             /\ p[Len(q) + 1] = e
BY AppendProperties

(* How each step changes the queue: what is added as new is there.         *)
Enqueues(e) == queue' = Append(queue, e)

Latest(e) == e.action \in {"add", "update"} => ingress'[e.name] = e.spec

LEMMA QueueChange ==
  ASSUME RoutesTypeOK, [RoutesNext]_routeVars
  PROVE  \/ UNCHANGED queue
         \/ \E e \in Events : Watching /\ Enqueues(e) /\ Latest(e)
         \/ HandleEvent /\ queue # <<>> /\ queue' = Tail(queue)
         \/ StartInformer
         \/ (Stop \/ Restart) /\ queue' = <<>>
<1> DEFINE Goal == \/ UNCHANGED queue
                   \/ \E e \in Events : Watching /\ Enqueues(e) /\ Latest(e)
                   \/ HandleEvent /\ queue # <<>> /\ queue' = Tail(queue)
                   \/ StartInformer
                   \/ (Stop \/ Restart) /\ queue' = <<>>
<1>a. ASSUME NEW a \in {"add", "update", "delete", "tombstone"},
             NEW i \in IngressNames, NEW s \in Specs, Notify(a, i, s),
             a \in {"add", "update"} => ingress'[i] = s
      PROVE  Goal
  <2> DEFINE e == [action |-> a, name |-> i, spec |-> s]
  <2>1. e \in Events /\ Latest(e)
    BY <1>a DEF Events, Latest
  <2>2. UNCHANGED queue \/ (Watching /\ Enqueues(e))
    BY <1>a, Zenon DEF Notify, Enqueues
  <2>3. QED
    BY <2>1, <2>2
<1>0. /\ \A i \in IngressNames : ingress[i] # Absent => ingress[i] \in Specs
      /\ ingress \in [IngressNames -> Specs \cup {Absent}]
  BY SpecHosts DEF RoutesTypeOK
<1>1. ASSUME NEW i \in IngressNames, Create(i) \/ Edit(i) PROVE Goal
  <2>1. PICK a \in {"add", "update"}, s \in Specs :
          ingress' = [ingress EXCEPT ![i] = s] /\ Notify(a, i, s)
    BY <1>1 DEF Create, Edit
  <2>2. ingress'[i] = s
    BY <1>0, <2>1
  <2>3. QED
    BY <1>a, <2>1, <2>2
<1>2. ASSUME NEW i \in IngressNames, Delete(i) \/ Resync(i) PROVE Goal
  <2>1. ingress[i] \in Specs
    BY <1>0, <1>2 DEF Delete, Resync
  <2>2. \/ \E a \in {"delete", "tombstone"} : Notify(a, i, ingress[i])
        \/ Notify("update", i, ingress[i]) /\ ingress'[i] = ingress[i]
    BY <1>2 DEF Delete, Resync, WorkerOnly, clusterVars
  <2>3. QED
    BY <1>a, <2>1, <2>2
<1>3. ASSUME NEW i \in IngressNames, BackendChanges(i) PROVE Goal
  BY <1>3 DEF BackendChanges
<1>4. CASE ControllerAppears \/ Starter \/ Stop \/ Restart
  BY <1>4 DEF ControllerAppears, Starter, Stop, Restart, DetectClusterType,
     WaitForController, StartSyncs, SyncerOnly
<1>5. CASE Worker
  BY <1>5 DEF Worker, HandleEvent, NextRegister, NextUnregister, EventDone,
     RegisterRoute, UnregisterRoute
<1>6. ASSUME NEW s \in Syncers, Syncs(s) PROVE Goal
  BY <1>6 DEF Syncs, Build, SyncIngresses, SyncerOnly
<1>7. CASE PeriodicRefresh \/ Reconnected
  BY <1>7 DEF PeriodicRefresh, Reconnected, SyncerOnly
<1>8. ASSUME NEW h \in Hosts, Expire(h) PROVE Goal
  BY <1>8 DEF Expire
<1>9. CASE UNCHANGED routeVars
  BY <1>9 DEF routeVars
<1>10. QED
  BY <1>1, <1>2, <1>3, <1>4, <1>5, <1>6, <1>7, <1>8, <1>9 DEF RoutesNext, Cluster

(* The informer starts with an event for each ingress there is.            *)
LEMMA FirstEvents ==
  ASSUME RoutesTypeOK, StartInformer
  PROVE  /\ queue' \in Seq(Events)
         /\ \A n \in DOMAIN queue' :
              \E i \in IngressNames : ingress[i] # Absent /\ queue'[n].spec = ingress[i]
<1> DEFINE there == {i \in IngressNames : ingress[i] # Absent}
           first == {[action |-> "add", name |-> i, spec |-> ingress[i]] : i \in there}
<1>1. queue' \in [1..Cardinality(there) -> first]
  BY DEF StartInformer
<1>2. Cardinality(there) \in Nat
  <2>1. IsFiniteSet(IngressNames) /\ there \in SUBSET IngressNames
    BY RoutesAssumption
  <2>2. IsFiniteSet(there)
    BY <2>1, FS_Subset
  <2>3. QED
    BY <2>2, FS_CardinalityType
<1>3. first \subseteq Events
  BY SpecHosts DEF Events
<1>4. \A e \in first : \E i \in IngressNames : ingress[i] # Absent /\ e.spec = ingress[i]
  OBVIOUS
<1> HIDE DEF there, first
<1>5. DOMAIN queue' = 1..Cardinality(there) /\ \A n \in DOMAIN queue' : queue'[n] \in first
  BY <1>1
<1>6. queue' \in Seq(Events)
  BY <1>1, <1>2, <1>3
<1>7. QED
  BY <1>4, <1>5, <1>6

LEMMA QueuedStep == RoutesTypeOK /\ [RoutesNext]_routeVars => Queued'
<1> SUFFICES ASSUME RoutesTypeOK, [RoutesNext]_routeVars PROVE Queued'
  OBVIOUS
<1>0. queue \in Seq(Events)
  BY DEF RoutesTypeOK
<1>1. ASSUME NEW e \in Events, Enqueues(e) PROVE Queued'
  BY <1>0, <1>1, QueueGrows DEF Enqueues, Queued
<1>2. CASE queue # <<>> /\ queue' = Tail(queue)
  BY <1>0, <1>2, HeadTailProperties DEF Queued
<1>3. CASE StartInformer
  BY <1>3, FirstEvents DEF Queued
<1>4. CASE UNCHANGED queue
  BY <1>0, <1>4 DEF Queued
<1>5. CASE queue' = <<>>
  BY <1>5, EmptySeq DEF Queued
<1>6. QED
  BY <1>1, <1>2, <1>3, <1>4, <1>5, QueueChange
-----------------------------------------------------------------------------
(* Types, with what a call is about.                                       *)
RoutesTyped == RoutesTypeOK /\ Addressed

LEMMA RoutesTyping == RoutesSpec => []RoutesTyped
<1>1. RoutesInit => RoutesTyped
  <2> SUFFICES ASSUME RoutesInit PROVE RoutesTyped
    OBVIOUS
  <2>1. World
    <3>1. /\ Initially \in [IngressNames -> Specs \cup {Absent}]
          /\ 1 \in UUIDs /\ 0 \in 0..MaxChanges
      BY RoutesAssumption
    <3>2. "type" \in Phases
      BY DEF Phases
    <3>3. QED
      BY <3>1, <3>2 DEF RoutesInit, World
  <2>2. Calls /\ Addressed
    BY RoutesAssumption, RestingJob DEF RoutesInit, Calls, Addressed
  <2>3. Syncing
    BY IdleSync DEF RoutesInit, Syncing, SyncJobs
  <2>4. Queued
    BY EmptySeq DEF RoutesInit, Queued
  <2>5. QED
    BY <2>1, <2>2, <2>3, <2>4, RoutesParts DEF RoutesTyped
<1>2. RoutesTyped /\ [RoutesNext]_routeVars => RoutesTyped'
  <2>1. World' /\ Calls' /\ Syncing' /\ Queued' => RoutesTypeOK'
    BY RoutesParts, PTL
  <2>2. QED
    BY <2>1, WorldStep, CallsStep, SyncingStep, QueuedStep DEF RoutesTyped
<1>3. QED
  BY <1>1, <1>2, PTL DEF RoutesSpec

(* Every variable keeps its type: in particular a route belongs to a       *)
(* cluster id that was issued, a call is tried at most MaxRetries times,   *)
(* and only hosts that ingresses name are cached, registered or withdrawn  *)
(* (Watcher and Client of ingress/watcher.go and ingress/client.go).       *)
THEOREM RoutesTypes == RoutesSpec => []RoutesTypeOK
<1>1. RoutesTyped => RoutesTypeOK
  BY DEF RoutesTyped
<1>2. QED
  BY <1>1, RoutesTyping, PTL

-----------------------------------------------------------------------------
(* The cluster, before and after a step.                                   *)
LEMMA ListedIs ==
  \A h : h \in Listed <=>
    \E i \in IngressNames : /\ ingress[i] # Absent /\ ingress[i].managed
                            /\ i \in served /\ h \in ingress[i].hosts
BY DEF Listed, ExtractRoutes, Managed

LEMMA ListedNext ==
  \A h : h \in Listed' <=>
    \E i \in IngressNames : /\ ingress'[i] # Absent /\ ingress'[i].managed
                            /\ i \in served' /\ h \in ingress'[i].hosts
BY DEF Listed, ExtractRoutes, Managed

(* Only Cluster changes the ingresses and what is served, and nobody takes *)
(* back that a host is lost.                                               *)
LEMMA LostGrows == [RoutesNext]_routeVars => lost \subseteq lost'
<1> SUFFICES ASSUME [RoutesNext]_routeVars PROVE lost \subseteq lost'
  OBVIOUS
<1>1. CASE Cluster
  BY <1>1 DEF Cluster, Create, Edit, Delete, BackendChanges, ControllerAppears
<1>2. CASE Starter \/ Stop \/ Restart \/ PeriodicRefresh \/ Reconnected
  BY <1>2 DEF Starter, Stop, Restart, DetectClusterType, WaitForController,
     StartInformer, StartSyncs, PeriodicRefresh, Reconnected
<1>3. CASE Worker
  <2>1. UnregisterRoute => lost' = lost \/ lost' = lost \cup {worker.host}
    BY Zenon DEF UnregisterRoute
  <2>2. HandleEvent => lost \subseteq lost'
    BY DEF HandleEvent
  <2>3. UnregisterRoute \/ HandleEvent \/ UNCHANGED lost
    BY <1>3 DEF Worker, NextRegister, NextUnregister, EventDone, RegisterRoute
  <2>4. QED
    BY <2>1, <2>2, <2>3
<1>4. ASSUME NEW s \in Syncers, Syncs(s) PROVE lost \subseteq lost'
  BY <1>4 DEF Syncs, Build, SyncIngresses
<1>5. CASE (\E i \in IngressNames : Resync(i)) \/ (\E h \in Hosts : Expire(h))
  BY <1>5 DEF Resync, Expire
<1>6. CASE UNCHANGED routeVars
  BY <1>6 DEF routeVars
<1>7. QED
  BY <1>1, <1>2, <1>3, <1>4, <1>5, <1>6 DEF RoutesNext

LEMMA ClusterKept == [RoutesNext]_routeVars => Cluster \/ UNCHANGED <<ingress, served>>
<1> SUFFICES ASSUME [RoutesNext]_routeVars, ~Cluster PROVE UNCHANGED <<ingress, served>>
  OBVIOUS
<1> USE DEF clusterVars
<1>1. CASE Starter \/ Stop \/ Restart \/ PeriodicRefresh \/ Reconnected
  BY <1>1 DEF Starter, Stop, Restart, DetectClusterType, WaitForController,
     StartInformer, StartSyncs, PeriodicRefresh, Reconnected, StarterOnly, SyncerOnly
<1>2. CASE Worker
  BY <1>2 DEF Worker, HandleEvent, NextRegister, NextUnregister, EventDone,
     RegisterRoute, UnregisterRoute, WorkerOnly
<1>3. CASE \E s \in Syncers : Syncs(s)
  BY <1>3 DEF Syncs, Build, SyncIngresses, SyncerOnly
<1>4. CASE (\E i \in IngressNames : Resync(i)) \/ (\E h \in Hosts : Expire(h))
  BY <1>4 DEF Resync, Expire, WorkerOnly
<1>5. CASE UNCHANGED routeVars
  BY <1>5 DEF routeVars
<1>6. QED
  BY <1>1, <1>2, <1>3, <1>4, <1>5 DEF RoutesNext

(* How the watcher starts and stops.                                       *)
LEMMA PhaseSteps ==
  [RoutesNext]_routeVars => \/ UNCHANGED phase
                            \/ DetectClusterType \/ WaitForController
                            \/ StartInformer \/ StartSyncs \/ Stop \/ Restart
<1> SUFFICES ASSUME [RoutesNext]_routeVars, ~Starter, ~Stop, ~Restart
             PROVE  UNCHANGED phase
  BY DEF Starter
<1>1. CASE Cluster
  BY <1>1, Zenon DEF Cluster, Create, Edit, Delete, BackendChanges,
     ControllerAppears, ClusterOnly, watcher
<1>2. CASE Worker
  BY <1>2 DEF Worker, HandleEvent, NextRegister, NextUnregister, EventDone,
     RegisterRoute, UnregisterRoute, WorkerOnly
<1>3. CASE (\E s \in Syncers : Syncs(s)) \/ PeriodicRefresh \/ Reconnected
  BY <1>3 DEF Syncs, Build, SyncIngresses, PeriodicRefresh, Reconnected
<1>4. CASE (\E i \in IngressNames : Resync(i)) \/ (\E h \in Hosts : Expire(h))
  BY <1>4 DEF Resync, Expire, WorkerOnly, watcher
<1>5. CASE UNCHANGED routeVars
  BY <1>5 DEF routeVars, watcher
<1>6. QED
  BY <1>1, <1>2, <1>3, <1>4, <1>5 DEF RoutesNext

LEMMA WatchingSince ==
  [RoutesNext]_routeVars /\ Watching' => Watching \/ StartInformer
BY PhaseSteps
   DEF Watching, DetectClusterType, WaitForController, StartSyncs, Stop, Restart

(* A host that is wanted stays so, is left to nobody, or its withdrawal is *)
(* queued.                                                                 *)
LEMMA SettledStays ==
  ASSUME RoutesTypeOK, [RoutesNext]_routeVars, Watching, NEW h \in Hosts, Resolved(h)
  PROVE  Resolved(h)' \/ \E e \in Events : Enqueues(e) /\ Withdraws(e, h)
<1>0. /\ lost \subseteq lost'
      /\ ingress \in [IngressNames -> Specs \cup {Absent}]
  BY LostGrows DEF RoutesTypeOK
<1>1. CASE h \in lost
  BY <1>0, <1>1 DEF Resolved
<1>2. CASE h \in Listed
  <2>1. PICK i \in IngressNames : /\ ingress[i] # Absent /\ ingress[i].managed
                                  /\ i \in served /\ h \in ingress[i].hosts
    BY <1>2, ListedIs
  <2>2. ASSUME ingress'[i] = ingress[i], i \in served' PROVE Resolved(h)'
    BY <2>1, <2>2, ListedNext DEF Resolved
  <2>3. ASSUME NEW j \in IngressNames, Create(j)
        PROVE  Resolved(h)'
    <3>1. j # i /\ served' = served
      BY <2>1, <2>3 DEF Create
    <3>2. ingress'[i] = ingress[i]
      BY <1>0, <2>3, <3>1 DEF Create
    <3>3. QED
      BY <2>1, <2>2, <3>1, <3>2
  <2>4. ASSUME NEW j \in IngressNames, Edit(j) PROVE Resolved(h)'
    <3>1. PICK s \in Specs :
            /\ ingress' = [ingress EXCEPT ![j] = s] /\ served' = served
            /\ lost' = lost \cup (ingress[j].hosts \ (IF s.managed THEN s.hosts ELSE {}))
      BY <2>4 DEF Edit
    <3>2. CASE j # i
      BY <1>0, <2>1, <2>2, <3>1, <3>2
    <3>3. CASE j = i /\ s.managed /\ h \in s.hosts
      <4>1. ingress'[i] = s /\ s # Absent /\ i \in served'
        BY <1>0, <2>1, <3>1, <3>3, RoutesAssumption
      <4>2. QED
        BY <3>3, <4>1, ListedNext DEF Resolved
    <3>4. CASE j = i /\ ~(s.managed /\ h \in s.hosts)
      BY <2>1, <3>1, <3>4 DEF Resolved
    <3>5. QED
      BY <3>2, <3>3, <3>4
  <2>5. ASSUME NEW j \in IngressNames, Delete(j)
        PROVE  Resolved(h)' \/ \E e \in Events : Enqueues(e) /\ Withdraws(e, h)
    <3>1. CASE j # i
      <4>1. ingress'[i] = ingress[i] /\ served' = served
        BY <1>0, <2>5, <3>1 DEF Delete
      <4>2. QED
        BY <2>1, <2>2, <4>1
    <3>2. CASE j = i
      <4>1. \/ Notify("delete", i, ingress[i])
            \/ lost' = lost \cup ingress[i].hosts
        BY <2>5, <3>2 DEF Delete
      <4>2. CASE Notify("delete", i, ingress[i])
        <5> DEFINE e == [action |-> "delete", name |-> i, spec |-> ingress[i]]
        <5>1. e \in Events /\ Withdraws(e, h)
          BY <1>0, <2>1 DEF Events, Withdraws
        <5>2. Enqueues(e)
          BY <4>2, Zenon DEF Notify, Enqueues
        <5>3. QED
          BY <5>1, <5>2
      <4>3. QED
        BY <2>1, <4>1, <4>2 DEF Resolved
    <3>3. QED
      BY <3>1, <3>2
  <2>6. ASSUME NEW j \in IngressNames, BackendChanges(j) PROVE Resolved(h)'
    <3>1. CASE j = i
      <4>1. lost' = lost \cup UNION {s.hosts : s \in Specs}
        BY <2>1, <2>6, <3>1 DEF BackendChanges
      <4>2. ingress[i] \in Specs
        BY <1>0, <2>1
      <4>3. QED
        BY <2>1, <4>1, <4>2 DEF Resolved
    <3>2. CASE j # i
      <4>1. i \in served' /\ ingress' = ingress
        BY <2>1, <2>6, <3>2 DEF BackendChanges
      <4>2. QED
        BY <2>2, <4>1
    <3>3. QED
      BY <3>1, <3>2
  <2>7. CASE ControllerAppears \/ ~Cluster
    <3>1. UNCHANGED <<ingress, served>>
      BY <2>7, ClusterKept DEF ControllerAppears
    <3>2. QED
      BY <2>1, <2>2, <3>1
  <2>8. QED
    BY <2>3, <2>4, <2>5, <2>6, <2>7 DEF Cluster
<1>3. QED
  BY <1>1, <1>2 DEF Resolved

-----------------------------------------------------------------------------
(* The inductive invariant, one part after the other.                      *)
RoutesInv ==
  /\ RoutesTyped /\ UnservedLost /\ NotStarted
  /\ QueueOrdered /\ WorkerOrdered /\ RoutesOwed

LEMMA UnservedLostStep ==
  RoutesTypeOK /\ UnservedLost /\ [RoutesNext]_routeVars => UnservedLost'
<1> SUFFICES ASSUME RoutesTypeOK, UnservedLost, [RoutesNext]_routeVars,
                    NEW i \in IngressNames, i \notin served', NEW s \in Specs
             PROVE  s.hosts \subseteq lost'
  BY DEF UnservedLost
<1>0. lost \subseteq lost'
  BY LostGrows
<1>1. CASE i \notin served
  BY <1>0, <1>1 DEF UnservedLost
<1>2. CASE i \in served
  <2>1. BackendChanges(i)
    <3>1. Cluster
      BY <1>2, ClusterKept
    <3>2. QED
      BY <1>2, <3>1 DEF Cluster, Create, Edit, Delete, BackendChanges,
         ControllerAppears
  <2>2. QED
    BY <1>2, <2>1 DEF BackendChanges
<1>3. QED
  BY <1>1, <1>2

LEMMA NotStartedStep ==
  RoutesTypeOK /\ NotStarted /\ [RoutesNext]_routeVars => NotStarted'
<1> SUFFICES ASSUME RoutesTypeOK, NotStarted, [RoutesNext]_routeVars,
                    phase' \in {"type", "wait", "watch"}
             PROVE  /\ queue' = <<>> /\ worker'.at = "idle"
                    /\ \A s \in Syncers : syncer'[s].at = "idle"
  BY DEF NotStarted
<1>0. CASE Restart
  BY <1>0, RestingJob, IdleSync DEF Restart
<1> SUFFICES ASSUME ~Restart
             PROVE  /\ queue' = <<>> /\ worker'.at = "idle"
                    /\ \A s \in Syncers : syncer'[s].at = "idle"
  BY <1>0
<1>1. phase \in {"type", "wait", "watch"} /\ ~StartInformer /\ ~StartSyncs /\ ~Stop
  BY PhaseSteps DEF DetectClusterType, WaitForController, StartInformer, StartSyncs, Stop
<1>2. /\ queue = <<>> /\ worker.at = "idle"
      /\ \A s \in Syncers : syncer[s].at = "idle"
      /\ ~Watching
  BY <1>1 DEF NotStarted, Watching
<1>3. UNCHANGED queue
  BY <1>1, <1>2, QueueChange
<1>4. UNCHANGED <<worker, syncer>>
  <2>1. CASE Cluster
    BY <2>1, Zenon DEF Cluster, Create, Edit, Delete, BackendChanges,
       ControllerAppears, ClusterOnly
  <2>2. CASE DetectClusterType \/ WaitForController
    BY <2>2 DEF DetectClusterType, WaitForController, StarterOnly
  <2>3. ~Worker
    BY <1>2 DEF Worker, HandleEvent, NextRegister, NextUnregister, EventDone,
       RegisterRoute, UnregisterRoute
  <2>4. ~(\E s \in Syncers : Syncs(s)) /\ ~PeriodicRefresh /\ ~Reconnected
    BY <1>1, <1>2 DEF Syncs, Build, SyncIngresses, PeriodicRefresh, Reconnected
  <2>5. CASE (\E i \in IngressNames : Resync(i)) \/ (\E h \in Hosts : Expire(h))
    BY <2>5 DEF Resync, Expire, WorkerOnly
  <2>6. CASE UNCHANGED routeVars
    BY <2>6 DEF routeVars
  <2>7. QED
    BY <1>1, <2>1, <2>2, <2>3, <2>4, <2>5, <2>6 DEF RoutesNext, Starter
<1>5. QED
  BY <1>2, <1>3, <1>4

(* The next event taken: the others move up.                               *)
LEMMA QueueShifts ==
  ASSUME RoutesTypeOK, queue # <<>>, queue' = Tail(queue)
  PROVE  /\ Head(queue) = queue[1] /\ Head(queue) \in Events /\ 1 \in DOMAIN queue
         /\ \A n \in DOMAIN queue' :
              n + 1 \in DOMAIN queue /\ queue'[n] = queue[n + 1] /\ n \in Nat
         /\ \A n \in DOMAIN queue :
              n # 1 => n - 1 \in DOMAIN queue' /\ queue'[n - 1] = queue[n] /\ n \in Nat
<1>1. queue \in Seq(Events) /\ Len(queue) \in Nat
  BY DEF RoutesTypeOK
<1>2. Len(queue) # 0
  BY <1>1, EmptySeq
<1>3. /\ Tail(queue) \in Seq(Events) /\ Len(Tail(queue)) = Len(queue) - 1
      /\ \A n \in 1..Len(Tail(queue)) : Tail(queue)[n] = queue[n + 1]
      /\ Head(queue) \in Events /\ Head(queue) = queue[1]
  BY <1>1, HeadTailProperties
<1>4. DOMAIN queue = 1..Len(queue) /\ DOMAIN Tail(queue) = 1..Len(Tail(queue))
  BY <1>1, <1>3
<1>5. QED
  BY <1>1, <1>2, <1>3, <1>4

LEMMA QueueLonger ==
  ASSUME RoutesTypeOK, NEW e \in Events, Enqueues(e)
  PROVE  /\ Len(queue) + 1 \in DOMAIN queue' /\ queue'[Len(queue) + 1] = e
         /\ \A n \in DOMAIN queue : n \in DOMAIN queue' /\ queue'[n] = queue[n]
                                    /\ n \in Nat /\ n < Len(queue) + 1
         /\ \A n \in DOMAIN queue' : n \in DOMAIN queue \/ n = Len(queue) + 1
<1>1. queue \in Seq(Events)
  BY DEF RoutesTypeOK
<1>2. QED
  BY <1>1, QueueGrows DEF Enqueues

(* A host that its event asks for, as the cluster is now.                  *)
LEMMA RegisteredSettled ==
  ASSUME UnservedLost, NEW i \in IngressNames, ingress[i] \in Specs,
         ingress[i].managed, NEW h \in ingress[i].hosts
  PROVE  Resolved(h)
<1>1. ingress[i] # Absent
  BY RoutesAssumption
<1>2. QED
  BY <1>1, ListedIs DEF Resolved, UnservedLost

LEMMA RegisteredSettledNext ==
  ASSUME UnservedLost', NEW i \in IngressNames, ingress'[i] \in Specs,
         ingress'[i].managed, NEW h \in ingress'[i].hosts
  PROVE  Resolved(h)'
<1>1. ingress'[i] # Absent
  BY RoutesAssumption
<1>2. QED
  BY <1>1, ListedNext DEF Resolved, UnservedLost

(* While its event is not handled, what is owed to a host stays owed.      *)
LEMMA OwedStays ==
  ASSUME RoutesTypeOK, [RoutesNext]_routeVars, ~HandleEvent, Watching, Watching',
         NEW h \in Hosts, Resolved(h) \/ WithdrawalQueued(h)
  PROVE  Resolved(h)' \/ WithdrawalQueued(h)'
<1>a. ASSUME NEW e \in Events, Enqueues(e), Withdraws(e, h)
      PROVE  WithdrawalQueued(h)'
  BY <1>a, QueueLonger DEF WithdrawalQueued, Withdraws
<1>1. CASE Resolved(h)
  BY <1>1, <1>a, SettledStays
<1>2. CASE WithdrawalQueued(h)
  <2>1. PICK n \in DOMAIN queue : Withdraws(queue[n], h)
    BY <1>2 DEF WithdrawalQueued
  <2>2. UNCHANGED queue \/ \E e \in Events : Enqueues(e)
    <3>1. ~Stop /\ ~Restart /\ ~StartInformer
      BY DEF Watching, Stop, Restart, StartInformer
    <3>2. QED
      BY <3>1, QueueChange
  <2>3. n \in DOMAIN queue' /\ queue'[n] = queue[n]
    BY <2>2, QueueLonger
  <2>4. QED
    BY <2>1, <2>3 DEF WithdrawalQueued, Withdraws
<1>3. QED
  BY <1>1, <1>2

(* Handling an event keeps the withdrawals behind it.                      *)
LEMMA HandlingKeeps ==
  ASSUME RoutesTypeOK, HandleEvent, NEW h \in Hosts
  PROVE  /\ Resolved(h) => Resolved(h)'
         /\ \A n \in DOMAIN queue : n # 1 /\ Withdraws(queue[n], h) => WithdrawalQueued(h)'
<1>1. /\ UNCHANGED <<ingress, served>> /\ lost \subseteq lost'
      /\ queue # <<>> /\ queue' = Tail(queue)
  BY Handled DEF HandleEvent, WorkerOnly, clusterVars
<1>2. Resolved(h) => Resolved(h)'
  BY <1>1, ListedIs, ListedNext DEF Resolved
<1>3. ASSUME NEW n \in DOMAIN queue, n # 1, Withdraws(queue[n], h)
      PROVE  WithdrawalQueued(h)'
  <2>1. n - 1 \in DOMAIN queue' /\ queue'[n - 1] = queue[n]
    BY <1>1, <1>3, QueueShifts
  <2>2. QED
    BY <1>3, <2>1 DEF WithdrawalQueued, Withdraws
<1>4. QED
  BY <1>2, <1>3


LEMMA QueueOrderedStep ==
  RoutesInv /\ UnservedLost' /\ [RoutesNext]_routeVars => QueueOrdered'
<1> DEFINE Behind(n, h) == \E m \in DOMAIN queue : m > n /\ Withdraws(queue[m], h)
<1> SUFFICES ASSUME RoutesInv, UnservedLost', [RoutesNext]_routeVars, Watching',
                    NEW h \in Hosts, NEW n \in DOMAIN queue', Registers(queue'[n], h)
             PROVE  Resolved(h)' \/ Behind(n, h)'
  BY DEF QueueOrdered
<1>0. RoutesTypeOK /\ QueueOrdered /\ UnservedLost
  BY DEF RoutesInv, RoutesTyped
<1>1. CASE StartInformer
  <2>1. PICK i \in IngressNames : ingress[i] # Absent /\ queue'[n].spec = ingress[i]
    BY <1>0, <1>1, FirstEvents
  <2>2. UNCHANGED ingress
    BY <1>1 DEF StartInformer, StarterOnly, clusterVars
  <2>3. /\ ingress'[i] \in Specs /\ ingress'[i].managed /\ h \in ingress'[i].hosts
    BY <1>0, <2>1, <2>2, SpecHosts DEF Registers
  <2>4. QED
    BY <2>3, RegisteredSettledNext
<1>2. CASE ~StartInformer
  <2>1. Watching /\ ~Stop /\ ~Restart
    BY <1>2, WatchingSince DEF Watching, Stop, Restart
  <2>2. ASSUME NEW k \in DOMAIN queue, Registers(queue[k], h)
        PROVE  Resolved(h) \/ Behind(k, h)
    BY <1>0, <2>1, <2>2 DEF QueueOrdered
  <2> HIDE DEF Behind
  <2>3. CASE \E e \in Events : Enqueues(e)
    <3>1. \E e \in Events : Enqueues(e) /\ Latest(e)
      <4>1. PICK d \in Events : Enqueues(d)
        BY <2>3
      <4>2. /\ Len(queue) \in Nat
            /\ ~(UNCHANGED queue) /\ ~(queue # <<>> /\ queue' = Tail(queue))
        <5>1. queue \in Seq(Events) /\ Len(queue') = Len(queue) + 1 /\ Len(queue) \in Nat
          BY <1>0, <4>1, AppendProperties DEF Enqueues, RoutesTypeOK
        <5>2. queue # <<>> => Len(Tail(queue)) = Len(queue) - 1
          BY <5>1, HeadTailProperties
        <5>3. QED
          BY <5>1, <5>2
      <4>3. QED
        BY <1>0, <1>2, <2>1, <4>2, QueueChange
    <3>2. PICK e \in Events : Enqueues(e) /\ Latest(e)
      BY <3>1
    <3>3. CASE n = Len(queue) + 1
      <4>1. queue'[n] = e
        BY <1>0, <3>2, <3>3, QueueLonger
      <4>2. /\ e.name \in IngressNames /\ ingress'[e.name] = e.spec
            /\ e.spec \in Specs /\ e.spec.managed /\ h \in e.spec.hosts
        BY <3>2, <4>1 DEF Events, Latest, Registers
      <4>3. QED
        BY <4>2, RegisteredSettledNext
    <3>4. CASE n \in DOMAIN queue
      <4>1. queue'[n] = queue[n]
        BY <1>0, <3>2, <3>4, QueueLonger
      <4>2. Resolved(h) \/ Behind(n, h)
        BY <2>2, <3>4, <4>1
      <4>3. CASE Resolved(h)
        <5>1. CASE Resolved(h)'
          BY <5>1
        <5>2. CASE \E d \in Events : Enqueues(d) /\ Withdraws(d, h)
          <6>1. PICK d \in Events : Enqueues(d) /\ Withdraws(d, h)
            BY <5>2
          <6>2. /\ Len(queue) + 1 \in DOMAIN queue' /\ queue'[Len(queue) + 1] = d
                /\ n < Len(queue) + 1 /\ n \in Nat /\ Len(queue) \in Nat
            BY <1>0, <3>4, <6>1, QueueLonger DEF RoutesTypeOK
          <6>3. QED
            BY <6>1, <6>2 DEF Behind, Withdraws
        <5>3. QED
          BY <1>0, <2>1, <4>3, <5>1, <5>2, SettledStays
      <4>4. CASE Behind(n, h)
        <5>1. PICK m \in DOMAIN queue : m > n /\ Withdraws(queue[m], h)
          BY <4>4 DEF Behind
        <5>2. m \in DOMAIN queue' /\ queue'[m] = queue[m]
          BY <1>0, <3>2, QueueLonger
        <5>3. QED
          BY <5>1, <5>2 DEF Behind, Withdraws
      <4>5. QED
        BY <4>2, <4>3, <4>4
    <3>5. QED
      BY <1>0, <3>2, <3>3, <3>4, QueueLonger
  <2>4. CASE UNCHANGED queue /\ ~\E e \in Events : Enqueues(e)
    <3>1. Resolved(h) \/ Behind(n, h)
      BY <2>2, <2>4
    <3>2. Resolved(h) => Resolved(h)'
      BY <1>0, <2>1, <2>4, SettledStays
    <3>3. Behind(n, h) => Behind(n, h)'
      BY <2>4 DEF Behind, Withdraws
    <3>4. QED
      BY <3>1, <3>2, <3>3
  <2>5. CASE HandleEvent /\ queue # <<>> /\ queue' = Tail(queue)
    <3>1. n + 1 \in DOMAIN queue /\ queue'[n] = queue[n + 1] /\ n \in Nat
      BY <1>0, <2>5, QueueShifts
    <3>2. Resolved(h) \/ Behind(n + 1, h)
      BY <2>2, <3>1
    <3>3. CASE Resolved(h)
      BY <1>0, <2>5, <3>3, HandlingKeeps
    <3>4. CASE Behind(n + 1, h)
      <4>1. PICK m \in DOMAIN queue : m > n + 1 /\ Withdraws(queue[m], h)
        BY <3>4 DEF Behind
      <4>2. m \in Nat /\ m - 1 > n /\ m # 1
        BY <1>0, <3>1, <4>1 DEF RoutesTypeOK
      <4>3. m - 1 \in DOMAIN queue' /\ queue'[m - 1] = queue[m]
        BY <1>0, <2>5, <4>2, QueueShifts
      <4>4. QED
        BY <4>1, <4>2, <4>3 DEF Behind, Withdraws
    <3>5. QED
      BY <3>2, <3>3, <3>4
  <2>6. QED
    BY <1>0, <1>2, <2>1, <2>3, <2>4, <2>5, QueueChange
<1>3. QED
  BY <1>1, <1>2

LEMMA WorkerOrderedStep ==
  RoutesInv /\ [RoutesNext]_routeVars => WorkerOrdered'
<1> SUFFICES ASSUME RoutesInv, [RoutesNext]_routeVars, Watching',
                    NEW h \in Hosts, Registering(h)'
             PROVE  Resolved(h)' \/ WithdrawalQueued(h)'
  BY DEF WorkerOrdered
<1>0. /\ RoutesTypeOK /\ worker \in Jobs /\ QueueOrdered /\ WorkerOrdered /\ NotStarted
      /\ worker.at = "idle" => ~Registering(h)
  BY RoutesParts DEF RoutesInv, RoutesTyped, Calls, Registering
<1>1. ASSUME Watching, Registering(h) PROVE Resolved(h)' \/ WithdrawalQueued(h)'
  <2>1. Resolved(h) \/ WithdrawalQueued(h)
    BY <1>0, <1>1 DEF WorkerOrdered
  <2>2. ~HandleEvent
    BY <1>0, <1>1 DEF HandleEvent
  <2>3. QED
    BY <1>0, <1>1, <2>1, <2>2, OwedStays
<1>2. ~StartInformer
  <2>1. SUFFICES ASSUME StartInformer PROVE FALSE
    OBVIOUS
  <2>2. worker.at = "idle" /\ worker' = worker
    BY <1>0, <2>1 DEF StartInformer, StarterOnly, NotStarted
  <2>3. QED
    BY <2>2 DEF Registering
<1>3. Watching
  BY <1>2, WatchingSince
<1>4. CASE UNCHANGED worker
  BY <1>1, <1>3, <1>4 DEF Registering
<1>5. CASE HandleEvent /\ ~UNCHANGED worker
  <2> DEFINE e == Head(queue)
  <2>1. /\ Registers(e, h) /\ queue # <<>>
    <3>1. /\ worker'.at = "register" /\ e.action \in {"add", "update"}
          /\ h \in IF e.spec.managed THEN ExtractRoutes(e.name, e.spec) ELSE {}
      BY <1>0, <1>5, Handled DEF Registering
    <3>2. QED
      BY <1>5, <3>1 DEF ExtractRoutes, Registers, HandleEvent
  <2>2. Head(queue) = queue[1] /\ 1 \in DOMAIN queue
    BY <1>0, <1>5, <2>1, QueueShifts DEF HandleEvent
  <2>3. Resolved(h) \/ \E m \in DOMAIN queue : m > 1 /\ Withdraws(queue[m], h)
    BY <1>0, <1>3, <2>1, <2>2 DEF QueueOrdered
  <2>4. QED
    BY <1>0, <1>5, <2>3, HandlingKeeps
<1>6. CASE NextRegister \/ NextUnregister
  BY <1>0, <1>1, <1>3, <1>6, CallBegins DEF Registering
<1>7. CASE EventDone
  BY <1>7, RestingJob DEF EventDone, Registering
<1>8. CASE RegisterRoute \/ UnregisterRoute
  BY <1>0, <1>1, <1>3, <1>8, Called DEF Registering
<1>9. QED
  <2>0. ~Restart
    BY DEF Watching, Restart
  <2>1. CASE Cluster
    BY <1>4, <2>1, Zenon DEF Cluster, Create, Edit, Delete, BackendChanges,
       ControllerAppears, ClusterOnly
  <2>2. CASE Starter \/ Stop \/ PeriodicRefresh \/ Reconnected
    BY <1>4, <2>2 DEF Starter, Stop, DetectClusterType, WaitForController,
       StartInformer, StartSyncs, PeriodicRefresh, Reconnected, StarterOnly, SyncerOnly
  <2>3. CASE Worker
    BY <1>4, <1>5, <1>6, <1>7, <1>8, <2>3 DEF Worker
  <2>4. CASE \E s \in Syncers : Syncs(s)
    BY <1>4, <2>4 DEF Syncs, Build, SyncIngresses, SyncerOnly
  <2>5. CASE (\E i \in IngressNames : Resync(i)) \/ (\E g \in Hosts : Expire(g))
    BY <1>4, <2>5 DEF Resync, Expire
  <2>6. CASE UNCHANGED routeVars
    BY <1>4, <2>6 DEF routeVars
  <2>7. QED
    BY <2>0, <2>1, <2>2, <2>3, <2>4, <2>5, <2>6 DEF RoutesNext

LEMMA RoutesOwedStep == RoutesInv /\ [RoutesNext]_routeVars => RoutesOwed'
<1> SUFFICES ASSUME RoutesInv, [RoutesNext]_routeVars, Watching',
                    NEW h \in Hosts, routes'[h] # NoRoute
             PROVE  (Resolved(h) \/ WithdrawalQueued(h) \/ Withdrawing(h))'
  BY DEF RoutesOwed
<1>0. /\ RoutesTypeOK /\ worker \in Jobs /\ RoutesOwed /\ WorkerOrdered
      /\ NotStarted /\ UnservedLost
  BY RoutesParts DEF RoutesInv, RoutesTyped, Calls
<1>a. CASE StartInformer
  <2>1. /\ UNCHANGED <<routes, ingress, served>>
        /\ lost' = lost \cup {g \in Hosts : routes[g] # NoRoute /\ g \notin Listed}
    BY <1>a DEF StartInformer, StarterOnly, clusterVars
  <2>2. h \in Listed => h \in Listed'
    BY <2>1, ListedIs, ListedNext
  <2>3. QED
    BY <2>1, <2>2 DEF Resolved
<1>1. SUFFICES ASSUME ~StartInformer
               PROVE  (Resolved(h) \/ WithdrawalQueued(h) \/ Withdrawing(h))'
  BY <1>a
<1>2. Watching
  BY <1>1, WatchingSince
<1>3. ASSUME routes[h] # NoRoute
      PROVE  Resolved(h) \/ WithdrawalQueued(h) \/ Withdrawing(h)
  BY <1>0, <1>2, <1>3 DEF RoutesOwed
<1>4. ASSUME UNCHANGED worker, routes[h] # NoRoute
      PROVE  (Resolved(h) \/ WithdrawalQueued(h) \/ Withdrawing(h))' \/ HandleEvent
  <2>1. Withdrawing(h) => Withdrawing(h)'
    BY <1>4 DEF Withdrawing
  <2>2. QED
    BY <1>0, <1>2, <1>3, <1>4, <2>1, OwedStays
<1>5. CASE HandleEvent
  <2>1. routes[h] # NoRoute
    BY <1>5 DEF HandleEvent
  <2>2. ~Withdrawing(h)
    BY <1>5 DEF HandleEvent, Withdrawing
  <2>3. CASE Resolved(h)
    BY <1>0, <1>5, <2>3, HandlingKeeps
  <2>4. CASE WithdrawalQueued(h)
    <3>1. PICK n \in DOMAIN queue : Withdraws(queue[n], h)
      BY <2>4 DEF WithdrawalQueued
    <3>2. CASE n # 1
      BY <1>0, <1>5, <3>1, <3>2, HandlingKeeps
    <3>3. CASE n = 1
      <4> DEFINE e == Head(queue)
      <4>1. Withdraws(e, h)
        BY <1>0, <1>5, <3>1, <3>3, QueueShifts DEF HandleEvent
      <4>2. CASE e.name \in served
        <5>1. h \in IF e.spec.managed THEN ExtractRoutes(e.name, e.spec) ELSE {}
          BY <4>1, <4>2 DEF Withdraws, ExtractRoutes
        <5>2. \/ worker'.at = "unregister" /\ h \in worker'.hosts
              \/ h \in lost'
          <6>1. e.action = "delete"
            BY <4>1 DEF Withdraws
          <6>2. QED
            BY <1>0, <1>5, <5>1, <6>1, Handled
        <5>3. QED
          BY <5>2 DEF Withdrawing, Resolved
      <4>3. CASE e.name \notin served
        <5>1. e \in Events
          BY <1>0, <1>5, Handled
        <5>2. h \in lost
          BY <1>0, <4>1, <4>3, <5>1 DEF UnservedLost, Events, Withdraws
        <5>3. QED
          BY <1>0, <1>5, <5>2, HandlingKeeps DEF Resolved
      <4>4. QED
        BY <4>2, <4>3
    <3>4. QED
      BY <3>2, <3>3
  <2>5. QED
    BY <1>3, <2>1, <2>2, <2>3, <2>4
<1>6. CASE NextRegister \/ NextUnregister
  <2>1. ~HandleEvent /\ UNCHANGED routes
    BY <1>6 DEF NextRegister, NextUnregister, HandleEvent
  <2>2. Withdrawing(h) => Withdrawing(h)'
    BY <1>0, <1>6, CallBegins DEF Withdrawing
  <2>3. QED
    BY <1>0, <1>2, <1>3, <2>1, <2>2, OwedStays
<1>7. CASE EventDone
  <2>1. ~HandleEvent /\ UNCHANGED routes /\ ~Withdrawing(h)
    BY <1>7 DEF EventDone, HandleEvent, Withdrawing
  <2>2. QED
    BY <1>0, <1>2, <1>3, <2>1, OwedStays
<1>8. CASE RegisterRoute
  <2>1. worker.at = "call" /\ ~HandleEvent
    BY <1>8 DEF RegisterRoute, HandleEvent
  <2>2. routes'[h] = routes[h] \/ h = worker.host
    <3>1. /\ worker.uuid \in UUIDs \cup {NoRoute}
          /\ \/ Succeeds(Put({worker.host}, worker.uuid))
             \/ Fails(Put({worker.host}, worker.uuid))
      BY <1>0, <1>8 DEF RegisterRoute, Jobs
    <3>2. QED
      BY <1>0, <3>1, CallResult
  <2>3. h = worker.host => Resolved(h) \/ WithdrawalQueued(h)
    BY <1>0, <1>2, <2>1 DEF WorkerOrdered, Registering
  <2>4. ~Withdrawing(h)
    BY <2>1 DEF Withdrawing
  <2>5. QED
    BY <1>0, <1>2, <1>3, <2>1, <2>2, <2>3, <2>4, OwedStays
<1>9. CASE UnregisterRoute
  <2> DEFINE new == Put({worker.host}, NoRoute)
  <2>1. /\ worker.at = "uncall" /\ ~HandleEvent /\ ~RegisterRoute
    BY <1>9 DEF UnregisterRoute, HandleEvent, RegisterRoute
  <2>2. /\ Succeeds(new) \/ Fails(new)
        /\ worker'.hosts = worker.hosts
        /\ \/ Succeeds(new) /\ worker'.at = "unregister"
           \/ worker'.at = "unregister" /\ lost' = lost \cup {worker.host}
           \/ worker'.at = "uncall" /\ worker'.host = worker.host
    BY <1>0, <1>9, <2>1, Called
  <2>3. /\ routes'[h] = routes[h] \/ (h = worker.host /\ routes'[h] = NoRoute)
        /\ Succeeds(new) /\ h = worker.host => routes'[h] = NoRoute
    BY <1>0, <2>2, CallResult
  <2> HIDE DEF new
  <2>4. routes[h] # NoRoute
    BY <2>3
  <2>5. Withdrawing(h) => Withdrawing(h)' \/ h \in lost'
    BY <2>1, <2>2, <2>3 DEF Withdrawing
  <2>6. QED
    BY <1>0, <1>2, <1>3, <2>1, <2>4, <2>5, OwedStays DEF Resolved
<1>10. ASSUME NEW s \in Syncers, Syncs(s)
       PROVE  (Resolved(h) \/ WithdrawalQueued(h) \/ Withdrawing(h))'
  <2>1. UNCHANGED worker
    BY <1>10 DEF Syncs, Build, SyncIngresses, SyncerOnly
  <2>2. CASE routes[h] # NoRoute
    BY <1>4, <1>5, <2>1, <2>2
  <2>3. CASE routes[h] = NoRoute
    <3>1. SyncIngresses(s)
      BY <1>10, <2>3 DEF Syncs, Build
    <3>2. h \in syncer[s].hosts
      <4>1. syncer[s].uuid \in UUIDs \cup {NoRoute}
        BY <1>0 DEF RoutesTypeOK
      <4>2. \/ Succeeds(Put(syncer[s].hosts, syncer[s].uuid))
            \/ Fails(Put(syncer[s].hosts, syncer[s].uuid))
        BY <3>1, Zenon DEF SyncIngresses
      <4>3. QED
        BY <1>0, <2>3, <4>1, <4>2, CallResult
    <3>3. /\ lost' = lost \cup (syncer[s].hosts \ Listed)
          /\ UNCHANGED <<ingress, served>>
      BY <3>1 DEF SyncIngresses, SyncerOnly, clusterVars
    <3>4. h \in Listed => h \in Listed'
      BY <3>3, ListedIs, ListedNext
    <3>5. QED
      BY <3>2, <3>3, <3>4 DEF Resolved
  <2>4. QED
    BY <2>2, <2>3
<1>11. ASSUME NEW g \in Hosts, Expire(g)
       PROVE  (Resolved(h) \/ WithdrawalQueued(h) \/ Withdrawing(h))'
  <2>1. UNCHANGED worker /\ routes[h] # NoRoute
    BY <1>0, <1>11 DEF Expire, RoutesTypeOK
  <2>2. QED
    BY <1>4, <1>5, <2>1
<1>12. ASSUME UNCHANGED <<worker, routes>>
       PROVE  (Resolved(h) \/ WithdrawalQueued(h) \/ Withdrawing(h))'
  BY <1>4, <1>5, <1>12
<1>13. QED
  <2>0. ~Restart
    BY DEF Watching, Restart
  <2>1. CASE Cluster
    BY <1>12, <2>1, Zenon DEF Cluster, Create, Edit, Delete, BackendChanges,
       ControllerAppears, ClusterOnly
  <2>2. CASE Starter \/ Stop \/ PeriodicRefresh \/ Reconnected
    BY <1>1, <1>12, <2>2 DEF Starter, Stop, DetectClusterType, WaitForController,
       StartInformer, StartSyncs, PeriodicRefresh, Reconnected, StarterOnly, SyncerOnly
  <2>3. CASE Worker
    BY <1>5, <1>6, <1>7, <1>8, <1>9, <2>3 DEF Worker
  <2>4. CASE \E i \in IngressNames : Resync(i)
    BY <1>12, <2>4 DEF Resync
  <2>5. CASE UNCHANGED routeVars
    BY <1>12, <2>5 DEF routeVars
  <2>6. QED
    BY <1>10, <1>11, <2>0, <2>1, <2>2, <2>3, <2>4, <2>5 DEF RoutesNext

LEMMA RoutesInvariance == RoutesSpec => []RoutesInv
<1>1. RoutesInit => UnservedLost /\ NotStarted /\ QueueOrdered /\ WorkerOrdered /\ RoutesOwed
  <2> SUFFICES ASSUME RoutesInit
               PROVE  UnservedLost /\ NotStarted /\ QueueOrdered /\ WorkerOrdered /\ RoutesOwed
    OBVIOUS
  <2>1. UnservedLost
    BY DEF RoutesInit, UnservedLost
  <2>2. ~Watching
    BY DEF RoutesInit, Watching
  <2>3. NotStarted
    BY RestingJob DEF RoutesInit, NotStarted, Idle
  <2>4. QED
    BY <2>1, <2>2, <2>3 DEF QueueOrdered, WorkerOrdered, RoutesOwed
<1>2. RoutesInv /\ RoutesTyped' /\ [RoutesNext]_routeVars => RoutesInv'
  <2> SUFFICES ASSUME RoutesInv, RoutesTyped', [RoutesNext]_routeVars PROVE RoutesInv'
    OBVIOUS
  <2>1. RoutesTypeOK /\ UnservedLost /\ NotStarted
    BY DEF RoutesInv, RoutesTyped
  <2>2. UnservedLost' /\ NotStarted'
    BY <2>1, UnservedLostStep, NotStartedStep
  <2>3. QueueOrdered' /\ WorkerOrdered' /\ RoutesOwed'
    BY <2>2, QueueOrderedStep, WorkerOrderedStep, RoutesOwedStep
  <2>4. QED
    BY <2>2, <2>3 DEF RoutesInv
<1>3. RoutesTyped /\ UnservedLost /\ NotStarted /\ QueueOrdered /\ WorkerOrdered /\ RoutesOwed
        => RoutesInv
  BY DEF RoutesInv
<1>4. QED
  BY <1>1, <1>2, <1>3, RoutesTyping, PTL DEF RoutesSpec

(* A route of a host that no managed ingress asks for any more is about to *)
(* be withdrawn, or its host is on the list of those that nobody withdraws *)
(* (onIngressEvent, syncExistingIngresses and the calls of ingress/        *)
(* client.go): whatever routes earlier processes left, and however changes,*)
(* events, synchronisations, restarts, failing calls and failing reads     *)
(* interleave, there is no other way to leave a stale route.               *)
THEOREM StaleRoutesAccounted == RoutesSpec => []StaleAccounted
<1>1. RoutesInv => StaleAccounted
  <2> SUFFICES ASSUME RoutesInv, Watching, NEW h \in Hosts,
                      routes[h] # NoRoute, h \notin Listed
               PROVE  h \in lost \/ Pending(h)
    BY DEF StaleAccounted
  <2>1. h \in lost \/ WithdrawalQueued(h) \/ Withdrawing(h)
    BY DEF RoutesInv, RoutesOwed, Resolved
  <2>2. WithdrawalQueued(h) \/ Withdrawing(h) => Pending(h)
    BY DEF WithdrawalQueued, Withdraws, Withdrawing, Pending
  <2>3. QED
    BY <2>1, <2>2
<1>2. QED
  BY <1>1, RoutesInvariance, PTL

(* What the informer has told and what onIngressEvent is doing is in       *)
(* order: an event that registers a host nobody asks for any more has the  *)
(* event that withdraws it behind it, so the older one cannot have the     *)
(* last word.                                                              *)
THEOREM EventsInOrder == RoutesSpec => [](QueueOrdered /\ WorkerOrdered)
<1>1. RoutesInv => QueueOrdered /\ WorkerOrdered
  BY DEF RoutesInv
<1>2. QED
  BY <1>1, RoutesInvariance, PTL
=============================================================================
