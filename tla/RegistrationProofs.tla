-------------------------- MODULE RegistrationProofs --------------------------
(***************************************************************************)
(* Proofs about Registration, for any numbers of clusters, faults and      *)
(* attempts and any kinds of faults.  Both action properties come from     *)
(* what registerMutex protects: the goroutine that holds it is the only    *)
(* one to move the agent to a gateway and to store a cluster id, so what   *)
(* it read when it entered is still true when it acts on it.               *)
(***************************************************************************)
EXTENDS Registration, TLAPS

(* Where a registration has not reached a gateway yet, and where it has    *)
(* read the stored cluster id besides.                                     *)
AfterRead == {"readurl", "resume", "redial", "ensure", "send", "await",
              "rejected", "swap", "dial"}
BeforeGateway == {"load", "token", "readcert", "cert", "loadid"} \cup AfterRead

(* registerMutex has one holder at a time.                                 *)
OneRegistrar ==
  \A a, b \in Actors : pc[a] \in RegisterStates /\ pc[b] \in RegisterStates => a = b

OffGateway ==
  \A a \in Actors : pc[a] \in BeforeGateway => link.mode # "gateway"

(* A new process does nothing else before it is connected.                 *)
Alone ==
  pc["beat"] \in BootStates =>
    /\ link = Link("none", "down") /\ complaints = 0
    /\ pc["error"] = "off" /\ pc["greet"] = "off"

(* A goroutine that read that no cluster id is stored is still right.      *)
ReadHolds ==
  \A a \in Actors : pc[a] \in AfterRead /\ had[a] = NoId => store.id = NoId

(* A session is resumed for an id that was read.                           *)
Resuming ==
  \A a \in Actors : pc[a] \in {"readurl", "resume", "redial"} => had[a] # Unread

Inv == TypeOK /\ Resuming /\ OneRegistrar /\ OffGateway /\ Alone /\ ReadHolds

-----------------------------------------------------------------------------
Flags == {rereg, fresh, creds, changed, starting} \subseteq BOOLEAN

StoreTyped ==
  /\ store \in Stored /\ cache \in Stored
  /\ held \in [Actors -> Stored \cup {NoCopy}]

Data ==
  /\ known \subseteq Ids /\ minted \in 0..MaxIds
  /\ complaints \in 0..MaxPending
  /\ link \in [mode : {"absent", "none", "controller", "gateway"},
               state : {"up", "down", "dead"}]
  /\ cid \in Ids \cup {NoId}
  /\ pc \in [Actors -> AllStates]
  /\ had \in [Actors -> Ids \cup {NoId, Unread}] /\ got \in [Actors -> Ids \cup {NoId}]
  /\ beatId \in Ids \cup {NoId} /\ attempt \in 1..MaxAttempts
  /\ fails \in 0..Threshold
  /\ status \in {"disconnected", "connecting", "connected", "reconnecting"}
  /\ faults \in 0..MaxFaults

LEMMA TypeParts == TypeOK <=> Flags /\ StoreTyped /\ Data
  BY DEF TypeOK, Flags, StoreTyped, Data

(* The flags stay Boolean in each step.                                    *)
LEMMA FlagStep == Flags /\ [Next]_vars => Flags'
<1> SUFFICES ASSUME Flags, [Next]_vars PROVE Flags'
  OBVIOUS
<1> USE DEF Flags, procVars
<1>1. ASSUME OpenState PROVE Flags'
  BY <1>1 DEF OpenState, ReadOk, ReadFails, Goto, Fine, Fault
<1>2. ASSUME SaveAgentID PROVE Flags'
  BY <1>2 DEF SaveAgentID, Saves, Goto, Fine, Fault
<1>3. ASSUME Connect PROVE Flags'
  BY <1>3 DEF Connect, FirstLink, Goto, Fine
<1>4. ASSUME NEW a \in Actors, Enter(a) PROVE Flags'
  BY <1>4 DEF Enter, Goto, Fine
<1>5. ASSUME NEW a \in Actors, LoadToken(a) PROVE Flags'
  BY <1>5 DEF LoadToken, ReadOk, ReadFails, Goto, Fine, Fault
<1>6. ASSUME NEW a \in Actors, LoadCertificate(a) PROVE Flags'
  BY <1>6 DEF LoadCertificate, ReadOk, ReadFails, Goto, Fine, Fault
<1>7. ASSUME NEW a \in Actors, SaveCredential(a) PROVE Flags'
  BY <1>7 DEF SaveCredential, Saves, Goto, Fine, Fault
<1>8. ASSUME NEW a \in Actors, LoadState(a) PROVE Flags'
  BY <1>8 DEF LoadState, ReadOk, ReadFails, Goto, Fine, Fault
<1>9. ASSUME NEW a \in Actors, LoadURL(a) PROVE Flags'
  BY <1>9 DEF LoadURL, ReadOk, ReadFails, Goto, Fine, Fault
<1>10. ASSUME NEW a \in Actors, ResumeCloses(a) PROVE Flags'
  BY <1>10 DEF ResumeCloses, Goto, Fine
<1>11. ASSUME NEW a \in Actors, ResumeDials(a) PROVE Flags'
  BY <1>11 DEF ResumeDials, Goto, Fine, Fault
<1>12. ASSUME NEW a \in Actors, EnsureLink(a) PROVE Flags'
  BY <1>12 DEF EnsureLink, Goto, Fine, Fault
<1>13. ASSUME NEW a \in Actors, SendRegister(a) PROVE Flags'
  BY <1>13 DEF SendRegister, Goto, Fine
<1>14. ASSUME NEW a \in Actors, Answered(a) PROVE Flags'
  BY <1>14 DEF Answered, Grant, Goto, Fine
<1>15. ASSUME NEW a \in Actors, AnswerLost(a) PROVE Flags'
  BY <1>15 DEF AnswerLost, Grant, Goto, Fault
<1>16. ASSUME NEW a \in Actors, AnswerRefuses(a) PROVE Flags'
  BY <1>16 DEF AnswerRefuses, Complain, Goto, Fine
<1>17. ASSUME NEW a \in Actors, AwaitEnds(a) PROVE Flags'
  BY <1>17 DEF AwaitEnds, Goto, Fine
<1>18. ASSUME NEW a \in Actors, SwapCloses(a) PROVE Flags'
  BY <1>18 DEF SwapCloses, Goto, Fine
<1>19. ASSUME NEW a \in Actors, SwapDials(a) PROVE Flags'
  BY <1>19 DEF SwapDials, Goto, Fine, Fault
<1>20. ASSUME NEW a \in Actors, SaveURL(a) PROVE Flags'
  BY <1>20 DEF SaveURL, Saves, Goto, Fine, Fault
<1>21. ASSUME NEW a \in Actors, SetId(a) PROVE Flags'
  BY <1>21 DEF SetId, IdKept, Goto, Fine
<1>22. ASSUME NEW a \in Actors, SaveId(a) PROVE Flags'
  BY <1>22 DEF SaveId, Saves, IdKept, Goto, Fine, Fault
<1>23. ASSUME NEW a \in Actors, SaveLoads(a) PROVE Flags'
  BY <1>23 DEF SaveLoads, Fine, Fault
<1>24. ASSUME NEW a \in Actors, ReregEnds(a) PROVE Flags'
  BY <1>24 DEF ReregEnds, RegisterEnded, Goto, Fine
<1>25. ASSUME BeatTick PROVE Flags'
  BY <1>25 DEF BeatTick, Goto, Fine
<1>26. ASSUME BeatSkips PROVE Flags'
  BY <1>26 DEF BeatSkips, BeatSucceeds, Goto, Fine
<1>27. ASSUME BeatChecks PROVE Flags'
  BY <1>27 DEF BeatChecks, Goto, Fine
<1>28. ASSUME BeatBuilds PROVE Flags'
  BY <1>28 DEF BeatBuilds, Goto, Fine
<1>29. ASSUME BeatSends PROVE Flags'
  BY <1>29 DEF BeatSends, BeatSucceeds, AttemptFails, ComplainOf, Complain, Goto, Fine
<1>30. ASSUME StartEnds PROVE Flags'
  BY <1>30 DEF StartEnds, RegisterEnded, Boot, Goto, Fine
<1>31. ASSUME BeatRegistered PROVE Flags'
  BY <1>31 DEF BeatRegistered, RegisterEnded, AttemptFails, Goto, Fine
<1>32. ASSUME ComplaintArrives PROVE Flags'
  BY <1>32 DEF ComplaintArrives, Goto, Fine
<1>33. ASSUME ClearStored PROVE Flags'
  BY <1>33 DEF ClearStored, Saves, Goto, Fine, Fault
<1>34. ASSUME Greet PROVE Flags'
  BY <1>34 DEF Greet, ComplainOf, Complain, Goto, Fine
<1>35. ASSUME LinkDrops PROVE Flags'
  BY <1>35 DEF LinkDrops, Fault
<1>36. ASSUME LinkRestored PROVE Flags'
  BY <1>36 DEF LinkRestored, Goto, Fine
<1>37. ASSUME LinkRefused PROVE Flags'
  BY <1>37 DEF LinkRefused, Complain, Fault
<1>38. ASSUME ServerForgets PROVE Flags'
  BY <1>38 DEF ServerForgets, Fault
<1>39. ASSUME Crash PROVE Flags'
  BY <1>39 DEF Crash, Boot, Fault
<1>40. CASE UNCHANGED vars
  BY <1>40 DEF vars
<1>41. QED
  BY <1>1, <1>2, <1>3, <1>4, <1>5, <1>6, <1>7, <1>8, <1>9, <1>10, <1>11,
     <1>12, <1>13, <1>14, <1>15, <1>16, <1>17, <1>18, <1>19, <1>20, <1>21,
     <1>22, <1>23, <1>24, <1>25, <1>26, <1>27, <1>28, <1>29, <1>30, <1>31,
     <1>32, <1>33, <1>34, <1>35, <1>36, <1>37, <1>38, <1>39, <1>40
     DEF Next, Register, Beat

(* What the store may hold.                                                *)
LEMMA StoredStates ==
  /\ Blank \in Stored /\ NoCopy \notin Stored
  /\ \A s \in Stored : /\ s.id \in Ids \cup {NoId}
                       /\ [s EXCEPT !.url = TRUE] \in Stored
                       /\ \A id \in Ids \cup {NoId} : [s EXCEPT !.id = id] \in Stored
<1>1. Unread \notin Ids \cup {NoId}
  BY RegistrationAssumption DEF Unread, Ids, NoId
<1>2. Blank \in Stored /\ NoCopy \notin Stored
  BY <1>1 DEF Stored, Blank, NoCopy
<1>3. ASSUME NEW s \in Stored
      PROVE  /\ s.id \in Ids \cup {NoId}
             /\ [s EXCEPT !.url = TRUE] \in Stored
             /\ \A id \in Ids \cup {NoId} : [s EXCEPT !.id = id] \in Stored
  BY DEF Stored
<1>4. QED
  BY <1>2, <1>3

(* A save writes a state, and drops its copy.                              *)
LEMMA SavesTyped ==
  ASSUME StoreTyped, NEW a \in Actors, NEW state \in Stored, Saves(a, state)
  PROVE  StoreTyped'
  BY DEF StoreTyped, Saves

(* Store, cache and copies are states in each step.                        *)
LEMMA StoreStep == StoreTyped /\ Data /\ [Next]_vars => StoreTyped'
<1> SUFFICES ASSUME StoreTyped, Data, [Next]_vars PROVE StoreTyped'
  OBVIOUS
<1> USE StoredStates DEF StoreTyped, storeVars
<1>1. ASSUME OpenState PROVE StoreTyped'
  BY <1>1 DEF OpenState, ReadOk, ReadFails, Goto, Fine, Fault
<1>2. ASSUME SaveAgentID PROVE StoreTyped'
  <2>1. held["beat"] # NoCopy /\ Saves("beat", held["beat"])
    BY <1>2 DEF SaveAgentID, Saves
  <2>2. held["beat"] \in Stored
    BY <2>1, <1>2 DEF Actors
  <2>3. held["beat"] \in Stored
    BY <2>2
  <2>4. QED
    BY <2>1, <2>3, SavesTyped DEF Actors
<1>3. ASSUME Connect PROVE StoreTyped'
  BY <1>3 DEF Connect, FirstLink, Goto, Fine
<1>4. ASSUME NEW a \in Actors, Enter(a) PROVE StoreTyped'
  BY <1>4 DEF Enter, Goto, Fine
<1>5. ASSUME NEW a \in Actors, LoadToken(a) PROVE StoreTyped'
  BY <1>5 DEF LoadToken, ReadOk, ReadFails, Goto, Fine, Fault
<1>6. ASSUME NEW a \in Actors, LoadCertificate(a) PROVE StoreTyped'
  BY <1>6 DEF LoadCertificate, ReadOk, ReadFails, Goto, Fine, Fault
<1>7. ASSUME NEW a \in Actors, SaveCredential(a) PROVE StoreTyped'
  <2>1. held[a] # NoCopy /\ Saves(a, held[a])
    BY <1>7 DEF SaveCredential, Saves
  <2>2. held[a] \in Stored
    BY <2>1, <1>7 DEF Actors
  <2>3. held[a] \in Stored
    BY <2>2
  <2>4. QED
    BY <2>1, <2>3, SavesTyped
<1>8. ASSUME NEW a \in Actors, LoadState(a) PROVE StoreTyped'
  BY <1>8 DEF LoadState, ReadOk, ReadFails, Goto, Fine, Fault
<1>9. ASSUME NEW a \in Actors, LoadURL(a) PROVE StoreTyped'
  BY <1>9 DEF LoadURL, ReadOk, ReadFails, Goto, Fine, Fault
<1>10. ASSUME NEW a \in Actors, ResumeCloses(a) PROVE StoreTyped'
  BY <1>10 DEF ResumeCloses, Goto, Fine
<1>11. ASSUME NEW a \in Actors, ResumeDials(a) PROVE StoreTyped'
  BY <1>11 DEF ResumeDials, Goto, Fine, Fault
<1>12. ASSUME NEW a \in Actors, EnsureLink(a) PROVE StoreTyped'
  BY <1>12 DEF EnsureLink, Goto, Fine, Fault
<1>13. ASSUME NEW a \in Actors, SendRegister(a) PROVE StoreTyped'
  BY <1>13 DEF SendRegister, Goto, Fine
<1>14. ASSUME NEW a \in Actors, Answered(a) PROVE StoreTyped'
  BY <1>14 DEF Answered, Grant, Goto, Fine
<1>15. ASSUME NEW a \in Actors, AnswerLost(a) PROVE StoreTyped'
  BY <1>15 DEF AnswerLost, Grant, Goto, Fault
<1>16. ASSUME NEW a \in Actors, AnswerRefuses(a) PROVE StoreTyped'
  BY <1>16 DEF AnswerRefuses, Complain, Goto, Fine
<1>17. ASSUME NEW a \in Actors, AwaitEnds(a) PROVE StoreTyped'
  BY <1>17 DEF AwaitEnds, Goto, Fine
<1>18. ASSUME NEW a \in Actors, SwapCloses(a) PROVE StoreTyped'
  BY <1>18 DEF SwapCloses, Goto, Fine
<1>19. ASSUME NEW a \in Actors, SwapDials(a) PROVE StoreTyped'
  BY <1>19 DEF SwapDials, Goto, Fine, Fault
<1>20. ASSUME NEW a \in Actors, SaveURL(a) PROVE StoreTyped'
  <2>1. held[a] # NoCopy /\ Saves(a, [held[a] EXCEPT !.url = TRUE])
    BY <1>20 DEF SaveURL, Saves
  <2>2. held[a] \in Stored
    BY <2>1, <1>20 DEF Actors
  <2>3. [held[a] EXCEPT !.url = TRUE] \in Stored
    BY <2>2
  <2>4. QED
    BY <2>1, <2>3, SavesTyped
<1>21. ASSUME NEW a \in Actors, SetId(a) PROVE StoreTyped'
  BY <1>21 DEF SetId, IdKept, Goto, Fine
<1>22. ASSUME NEW a \in Actors, SaveId(a) PROVE StoreTyped'
  <2>1. held[a] # NoCopy /\ Saves(a, [held[a] EXCEPT !.id = got[a]])
    BY <1>22 DEF SaveId, Saves
  <2>2. held[a] \in Stored
    BY <2>1, <1>22 DEF Actors
  <2>3. [held[a] EXCEPT !.id = got[a]] \in Stored
    BY <2>2 DEF Data
  <2>4. QED
    BY <2>1, <2>3, SavesTyped
<1>23. ASSUME NEW a \in Actors, SaveLoads(a) PROVE StoreTyped'
  BY <1>23 DEF SaveLoads, Fine, Fault
<1>24. ASSUME NEW a \in Actors, ReregEnds(a) PROVE StoreTyped'
  BY <1>24 DEF ReregEnds, RegisterEnded, Goto, Fine
<1>25. ASSUME BeatTick PROVE StoreTyped'
  BY <1>25 DEF BeatTick, Goto, Fine
<1>26. ASSUME BeatSkips PROVE StoreTyped'
  BY <1>26 DEF BeatSkips, BeatSucceeds, Goto, Fine
<1>27. ASSUME BeatChecks PROVE StoreTyped'
  BY <1>27 DEF BeatChecks, Goto, Fine
<1>28. ASSUME BeatBuilds PROVE StoreTyped'
  BY <1>28 DEF BeatBuilds, Goto, Fine
<1>29. ASSUME BeatSends PROVE StoreTyped'
  BY <1>29 DEF BeatSends, BeatSucceeds, AttemptFails, ComplainOf, Complain, Goto, Fine
<1>30. ASSUME StartEnds PROVE StoreTyped'
  BY <1>30 DEF StartEnds, RegisterEnded, Boot, Goto, Fine
<1>31. ASSUME BeatRegistered PROVE StoreTyped'
  BY <1>31 DEF BeatRegistered, RegisterEnded, AttemptFails, Goto, Fine
<1>32. ASSUME ComplaintArrives PROVE StoreTyped'
  BY <1>32 DEF ComplaintArrives, Goto, Fine
<1>33. ASSUME ClearStored PROVE StoreTyped'
  <2>1. held["error"] # NoCopy /\ Saves("error", [held["error"] EXCEPT !.id = NoId])
    BY <1>33 DEF ClearStored, Saves
  <2>2. held["error"] \in Stored
    BY <2>1, <1>33 DEF Actors
  <2>3. [held["error"] EXCEPT !.id = NoId] \in Stored
    BY <2>2
  <2>4. QED
    BY <2>1, <2>3, SavesTyped DEF Actors
<1>34. ASSUME Greet PROVE StoreTyped'
  BY <1>34 DEF Greet, ComplainOf, Complain, Goto, Fine
<1>35. ASSUME LinkDrops PROVE StoreTyped'
  BY <1>35 DEF LinkDrops, Fault
<1>36. ASSUME LinkRestored PROVE StoreTyped'
  BY <1>36 DEF LinkRestored, Goto, Fine
<1>37. ASSUME LinkRefused PROVE StoreTyped'
  BY <1>37 DEF LinkRefused, Complain, Fault
<1>38. ASSUME ServerForgets PROVE StoreTyped'
  BY <1>38 DEF ServerForgets, Fault
<1>39. ASSUME Crash PROVE StoreTyped'
  BY <1>39 DEF Crash, Boot, Fault
<1>40. CASE UNCHANGED vars
  BY <1>40 DEF vars
<1>41. QED
  BY <1>1, <1>2, <1>3, <1>4, <1>5, <1>6, <1>7, <1>8, <1>9, <1>10, <1>11,
     <1>12, <1>13, <1>14, <1>15, <1>16, <1>17, <1>18, <1>19, <1>20, <1>21,
     <1>22, <1>23, <1>24, <1>25, <1>26, <1>27, <1>28, <1>29, <1>30, <1>31,
     <1>32, <1>33, <1>34, <1>35, <1>36, <1>37, <1>38, <1>39, <1>40
     DEF Next, Register, Beat

(* What the control plane grants is an id in the range.                    *)
LEMMA GrantTypes ==
  ASSUME Data, NEW a \in Actors, Grant(a)
  PROVE  /\ known' \subseteq Ids /\ minted' \in 0..MaxIds
         /\ got' \in [Actors -> Ids \cup {NoId}]
<1> USE RegistrationAssumption DEF Data, Ids, NoId, serverVars
<1>1. CASE had[a] \in known /\ got' = [got EXCEPT ![a] = had[a]] /\ UNCHANGED serverVars
  BY <1>1
<1>2. CASE /\ minted < MaxIds /\ minted' = minted + 1
           /\ known' = known \cup {minted + 1}
           /\ got' = [got EXCEPT ![a] = minted + 1]
  <2>1. minted + 1 \in 1..MaxIds
    BY <1>2
  <2>2. QED
    BY <1>2, <2>1
<1>3. QED
  BY <1>1, <1>2 DEF Grant

(* Every other variable keeps its type in each step of the agent and of    *)
(* the control plane.                                                      *)
LEMMA DataStep == StoreTyped /\ Data /\ Resuming /\ [Next]_vars => Data'
<1> SUFFICES ASSUME StoreTyped, Data, Resuming, [Next]_vars PROVE Data'
  OBVIOUS
<1>0. store.id \in Ids \cup {NoId}
  BY StoredStates DEF StoreTyped
<1> USE RegistrationAssumption
    DEF Data, Ids, NoId, Unread, Link, Actors, AllStates, RegisterStates, BootStates,
        serverVars, beatVars, regVars
<1>1. ASSUME OpenState PROVE Data'
  BY <1>1 DEF OpenState, ReadOk, ReadFails, Goto, Fine, Fault
<1>2. ASSUME SaveAgentID PROVE Data'
  BY <1>2 DEF SaveAgentID, Saves, Goto, Fine, Fault
<1>3. ASSUME Connect PROVE Data'
  BY <1>3 DEF Connect, FirstLink, Goto, Fine
<1>4. ASSUME NEW a \in Actors, Enter(a) PROVE Data'
  BY <1>4 DEF Enter, Goto, Fine
<1>5. ASSUME NEW a \in Actors, LoadToken(a) PROVE Data'
  BY <1>5 DEF LoadToken, ReadOk, ReadFails, Goto, Fine, Fault
<1>6. ASSUME NEW a \in Actors, LoadCertificate(a) PROVE Data'
  BY <1>6 DEF LoadCertificate, ReadOk, ReadFails, Goto, Fine, Fault
<1>7. ASSUME NEW a \in Actors, SaveCredential(a) PROVE Data'
  BY <1>7 DEF SaveCredential, Saves, Goto, Fine, Fault
<1>8. ASSUME NEW a \in Actors, LoadState(a) PROVE Data'
  <2>1. faults' \in 0..MaxFaults
    BY <1>8 DEF LoadState, ReadOk, ReadFails, Fine, Fault
  <2>2. pc' \in [Actors -> AllStates]
    BY <1>8 DEF LoadState, Goto
  <2>3. had' \in [Actors -> Ids \cup {NoId, Unread}] /\ cid' \in Ids \cup {NoId}
    BY <1>8, <1>0 DEF LoadState
  <2>4. QED
    BY <1>8, <2>1, <2>2, <2>3 DEF LoadState
<1>9. ASSUME NEW a \in Actors, LoadURL(a) PROVE Data'
  BY <1>9 DEF LoadURL, ReadOk, ReadFails, Goto, Fine, Fault
<1>10. ASSUME NEW a \in Actors, ResumeCloses(a) PROVE Data'
  BY <1>10 DEF ResumeCloses, Goto, Fine
<1>11. ASSUME NEW a \in Actors, ResumeDials(a) PROVE Data'
  BY <1>11 DEF ResumeDials, Resuming, Goto, Fine, Fault
<1>12. ASSUME NEW a \in Actors, EnsureLink(a) PROVE Data'
  BY <1>12 DEF EnsureLink, Goto, Fine, Fault
<1>13. ASSUME NEW a \in Actors, SendRegister(a) PROVE Data'
  BY <1>13 DEF SendRegister, Goto, Fine
<1>14. ASSUME NEW a \in Actors, Answered(a) PROVE Data'
  <2>1. faults' \in 0..MaxFaults /\ pc' \in [Actors -> AllStates]
    BY <1>14 DEF Answered, Goto, Fine
  <2>2. QED
    BY <1>14, <2>1, GrantTypes DEF Answered, Fine
<1>15. ASSUME NEW a \in Actors, AnswerLost(a) PROVE Data'
  <2>1. faults' \in 0..MaxFaults /\ pc' \in [Actors -> AllStates]
    BY <1>15 DEF AnswerLost, Goto, Fault
  <2>2. QED
    BY <1>15, <2>1, GrantTypes DEF AnswerLost
<1>16. ASSUME NEW a \in Actors, AnswerRefuses(a) PROVE Data'
  BY <1>16 DEF AnswerRefuses, Complain, Goto, Fine
<1>17. ASSUME NEW a \in Actors, AwaitEnds(a) PROVE Data'
  BY <1>17 DEF AwaitEnds, Goto, Fine
<1>18. ASSUME NEW a \in Actors, SwapCloses(a) PROVE Data'
  BY <1>18 DEF SwapCloses, Goto, Fine
<1>19. ASSUME NEW a \in Actors, SwapDials(a) PROVE Data'
  BY <1>19 DEF SwapDials, Goto, Fine, Fault
<1>20. ASSUME NEW a \in Actors, SaveURL(a) PROVE Data'
  BY <1>20 DEF SaveURL, Saves, Goto, Fine, Fault
<1>21. ASSUME NEW a \in Actors, SetId(a) PROVE Data'
  BY <1>21 DEF SetId, IdKept, Goto, Fine
<1>22. ASSUME NEW a \in Actors, SaveId(a) PROVE Data'
  BY <1>22 DEF SaveId, Saves, IdKept, Goto, Fine, Fault
<1>23. ASSUME NEW a \in Actors, SaveLoads(a) PROVE Data'
  BY <1>23 DEF SaveLoads, Fine, Fault
<1>24. ASSUME NEW a \in Actors, ReregEnds(a) PROVE Data'
  BY <1>24 DEF ReregEnds, RegisterEnded, Goto, Fine
<1>25. ASSUME BeatTick PROVE Data'
  BY <1>25 DEF BeatTick, Goto, Fine
<1>26. ASSUME BeatSkips PROVE Data'
  BY <1>26 DEF BeatSkips, BeatSucceeds, Goto, Fine
<1>27. ASSUME BeatChecks PROVE Data'
  BY <1>27 DEF BeatChecks, Goto, Fine
<1>28. ASSUME BeatBuilds PROVE Data'
  BY <1>28 DEF BeatBuilds, Goto, Fine
<1>29. ASSUME BeatSends PROVE Data'
  BY <1>29 DEF BeatSends, BeatSucceeds, AttemptFails, ComplainOf, Complain, Goto, Fine
<1>30. ASSUME StartEnds PROVE Data'
  <2>1. CASE Boot /\ Fine
    BY <2>1 DEF Boot, Fine
  <2>2. CASE /\ Fine /\ Goto("beat", "check")
             /\ status' = IF pc["beat"] = "ok" THEN "connected" ELSE status
             /\ UNCHANGED <<serverVars, complaints, storeVars, link, cid, rereg, fresh,
                            creds, changed, regVars, beatVars>>
    BY <2>2 DEF Goto, Fine
  <2>3. QED
    BY <1>30, <2>1, <2>2 DEF StartEnds
<1>31. ASSUME BeatRegistered PROVE Data'
  BY <1>31 DEF BeatRegistered, RegisterEnded, AttemptFails, Goto, Fine
<1>32. ASSUME ComplaintArrives PROVE Data'
  BY <1>32 DEF ComplaintArrives, Goto, Fine
<1>33. ASSUME ClearStored PROVE Data'
  BY <1>33 DEF ClearStored, Saves, Goto, Fine, Fault
<1>34. ASSUME Greet PROVE Data'
  BY <1>34 DEF Greet, ComplainOf, Complain, Goto, Fine
<1>35. ASSUME LinkDrops PROVE Data'
  BY <1>35 DEF LinkDrops, Fault
<1>36. ASSUME LinkRestored PROVE Data'
  BY <1>36 DEF LinkRestored, Goto, Fine
<1>37. ASSUME LinkRefused PROVE Data'
  BY <1>37 DEF LinkRefused, Complain, Fault
<1>38. ASSUME ServerForgets PROVE Data'
  BY <1>38 DEF ServerForgets, Fault
<1>39. ASSUME Crash PROVE Data'
  BY <1>39 DEF Crash, Boot, Fault
<1>40. CASE UNCHANGED vars
  BY <1>40 DEF vars
<1>41. QED
  BY <1>1, <1>2, <1>3, <1>4, <1>5, <1>6, <1>7, <1>8, <1>9, <1>10, <1>11,
     <1>12, <1>13, <1>14, <1>15, <1>16, <1>17, <1>18, <1>19, <1>20, <1>21,
     <1>22, <1>23, <1>24, <1>25, <1>26, <1>27, <1>28, <1>29, <1>30, <1>31,
     <1>32, <1>33, <1>34, <1>35, <1>36, <1>37, <1>38, <1>39, <1>40
     DEF Next, Register, Beat

(* A goroutine goes on to resume a session only with an id in hand.        *)
LEMMA ResumeStep == StoreTyped /\ Data /\ Resuming /\ [Next]_vars => Resuming'
<1> SUFFICES ASSUME StoreTyped, Data, Resuming, [Next]_vars PROVE Resuming'
  OBVIOUS
<1>0. store.id # Unread
  <2>1. store.id \in Ids \cup {NoId}
    BY StoredStates DEF StoreTyped
  <2>2. Unread \notin Ids \cup {NoId}
    BY RegistrationAssumption DEF Unread, Ids, NoId
  <2>3. QED
    BY <2>1, <2>2
<1> USE DEF Data, Resuming, regVars
<1>1. ASSUME OpenState PROVE Resuming'
  BY <1>1 DEF OpenState, ReadOk, ReadFails, Goto, Fine, Fault
<1>2. ASSUME SaveAgentID PROVE Resuming'
  BY <1>2 DEF SaveAgentID, Saves, Goto, Fine, Fault
<1>3. ASSUME Connect PROVE Resuming'
  BY <1>3 DEF Connect, FirstLink, Goto, Fine
<1>4. ASSUME NEW a \in Actors, Enter(a) PROVE Resuming'
  BY <1>4 DEF Enter, Goto, Fine
<1>5. ASSUME NEW a \in Actors, LoadToken(a) PROVE Resuming'
  BY <1>5 DEF LoadToken, ReadOk, ReadFails, Goto, Fine, Fault
<1>6. ASSUME NEW a \in Actors, LoadCertificate(a) PROVE Resuming'
  BY <1>6 DEF LoadCertificate, ReadOk, ReadFails, Goto, Fine, Fault
<1>7. ASSUME NEW a \in Actors, SaveCredential(a) PROVE Resuming'
  BY <1>7 DEF SaveCredential, Saves, Goto, Fine, Fault
<1>8. ASSUME NEW a \in Actors, LoadState(a) PROVE Resuming'
  BY <1>8, <1>0 DEF LoadState, Goto
<1>9. ASSUME NEW a \in Actors, LoadURL(a) PROVE Resuming'
  BY <1>9 DEF LoadURL, ReadOk, ReadFails, Goto, Fine, Fault
<1>10. ASSUME NEW a \in Actors, ResumeCloses(a) PROVE Resuming'
  BY <1>10 DEF ResumeCloses, Goto, Fine
<1>11. ASSUME NEW a \in Actors, ResumeDials(a) PROVE Resuming'
  BY <1>11 DEF ResumeDials, Goto, Fine, Fault
<1>12. ASSUME NEW a \in Actors, EnsureLink(a) PROVE Resuming'
  BY <1>12 DEF EnsureLink, Goto, Fine, Fault
<1>13. ASSUME NEW a \in Actors, SendRegister(a) PROVE Resuming'
  BY <1>13 DEF SendRegister, Goto, Fine
<1>14. ASSUME NEW a \in Actors, Answered(a) PROVE Resuming'
  BY <1>14 DEF Answered, Grant, Goto, Fine
<1>15. ASSUME NEW a \in Actors, AnswerLost(a) PROVE Resuming'
  BY <1>15 DEF AnswerLost, Grant, Goto, Fault
<1>16. ASSUME NEW a \in Actors, AnswerRefuses(a) PROVE Resuming'
  BY <1>16 DEF AnswerRefuses, Complain, Goto, Fine
<1>17. ASSUME NEW a \in Actors, AwaitEnds(a) PROVE Resuming'
  BY <1>17 DEF AwaitEnds, Goto, Fine
<1>18. ASSUME NEW a \in Actors, SwapCloses(a) PROVE Resuming'
  BY <1>18 DEF SwapCloses, Goto, Fine
<1>19. ASSUME NEW a \in Actors, SwapDials(a) PROVE Resuming'
  BY <1>19 DEF SwapDials, Goto, Fine, Fault
<1>20. ASSUME NEW a \in Actors, SaveURL(a) PROVE Resuming'
  BY <1>20 DEF SaveURL, Saves, Goto, Fine, Fault
<1>21. ASSUME NEW a \in Actors, SetId(a) PROVE Resuming'
  BY <1>21 DEF SetId, IdKept, Goto, Fine
<1>22. ASSUME NEW a \in Actors, SaveId(a) PROVE Resuming'
  BY <1>22 DEF SaveId, Saves, IdKept, Goto, Fine, Fault
<1>23. ASSUME NEW a \in Actors, SaveLoads(a) PROVE Resuming'
  BY <1>23 DEF SaveLoads, Fine, Fault
<1>24. ASSUME NEW a \in Actors, ReregEnds(a) PROVE Resuming'
  BY <1>24 DEF ReregEnds, RegisterEnded, Goto, Fine
<1>25. ASSUME BeatTick PROVE Resuming'
  BY <1>25 DEF BeatTick, Goto, Fine
<1>26. ASSUME BeatSkips PROVE Resuming'
  BY <1>26 DEF BeatSkips, BeatSucceeds, Goto, Fine
<1>27. ASSUME BeatChecks PROVE Resuming'
  BY <1>27 DEF BeatChecks, Goto, Fine
<1>28. ASSUME BeatBuilds PROVE Resuming'
  BY <1>28 DEF BeatBuilds, Goto, Fine
<1>29. ASSUME BeatSends PROVE Resuming'
  BY <1>29 DEF BeatSends, BeatSucceeds, AttemptFails, ComplainOf, Complain, Goto, Fine
<1>30. ASSUME StartEnds PROVE Resuming'
  BY <1>30 DEF StartEnds, RegisterEnded, Boot, Goto, Fine
<1>31. ASSUME BeatRegistered PROVE Resuming'
  BY <1>31 DEF BeatRegistered, RegisterEnded, AttemptFails, Goto, Fine
<1>32. ASSUME ComplaintArrives PROVE Resuming'
  BY <1>32 DEF ComplaintArrives, Goto, Fine
<1>33. ASSUME ClearStored PROVE Resuming'
  BY <1>33 DEF ClearStored, Saves, Goto, Fine, Fault
<1>34. ASSUME Greet PROVE Resuming'
  BY <1>34 DEF Greet, ComplainOf, Complain, Goto, Fine
<1>35. ASSUME LinkDrops PROVE Resuming'
  BY <1>35 DEF LinkDrops, Fault
<1>36. ASSUME LinkRestored PROVE Resuming'
  BY <1>36 DEF LinkRestored, Goto, Fine
<1>37. ASSUME LinkRefused PROVE Resuming'
  BY <1>37 DEF LinkRefused, Complain, Fault
<1>38. ASSUME ServerForgets PROVE Resuming'
  BY <1>38 DEF ServerForgets, Fault
<1>39. ASSUME Crash PROVE Resuming'
  BY <1>39 DEF Crash, Boot, Fault
<1>40. CASE UNCHANGED vars
  BY <1>40 DEF vars
<1>41. QED
  BY <1>1, <1>2, <1>3, <1>4, <1>5, <1>6, <1>7, <1>8, <1>9, <1>10, <1>11,
     <1>12, <1>13, <1>14, <1>15, <1>16, <1>17, <1>18, <1>19, <1>20, <1>21,
     <1>22, <1>23, <1>24, <1>25, <1>26, <1>27, <1>28, <1>29, <1>30, <1>31,
     <1>32, <1>33, <1>34, <1>35, <1>36, <1>37, <1>38, <1>39, <1>40
     DEF Next, Register, Beat

(* Together they are the type invariant.                                   *)
LEMMA TypeStep == TypeOK /\ Resuming /\ [Next]_vars => TypeOK' /\ Resuming'
<1>1. /\ Flags /\ StoreTyped /\ Data /\ Resuming /\ [Next]_vars
      => (Flags /\ StoreTyped /\ Data /\ Resuming)'
  BY FlagStep, StoreStep, DataStep, ResumeStep
<1>2. TypeOK' <=> (Flags /\ StoreTyped /\ Data)'
  BY TypeParts, PTL
<1>3. QED
  BY <1>1, <1>2, TypeParts

(* Registrations exclude each other and never start on a gateway, and a    *)
(* new process is alone.                                                   *)
LEMMA RegistrarStep == Inv /\ [Next]_vars => (OneRegistrar /\ OffGateway /\ Alone)'
<1> SUFFICES ASSUME Inv, [Next]_vars PROVE (OneRegistrar /\ OffGateway /\ Alone)'
  OBVIOUS
<1> USE DEF Inv, TypeOK, OneRegistrar, OffGateway, Alone, BeforeGateway, AfterRead,
        Link, Actors, AllStates, RegisterStates, BootStates, serverVars, beatVars,
        regVars, procVars
<1>1. ASSUME OpenState PROVE (OneRegistrar /\ OffGateway /\ Alone)'
  BY <1>1 DEF OpenState, ReadOk, ReadFails, Goto, Fine, Fault
<1>2. ASSUME SaveAgentID PROVE (OneRegistrar /\ OffGateway /\ Alone)'
  BY <1>2 DEF SaveAgentID, Saves, Goto, Fine, Fault
<1>3. ASSUME Connect PROVE (OneRegistrar /\ OffGateway /\ Alone)'
  BY <1>3 DEF Connect, FirstLink, Goto, Fine
<1>4. ASSUME NEW a \in Actors, Enter(a) PROVE (OneRegistrar /\ OffGateway /\ Alone)'
  BY <1>4 DEF Enter, Goto, Fine
<1>5. ASSUME NEW a \in Actors, LoadToken(a) PROVE (OneRegistrar /\ OffGateway /\ Alone)'
  BY <1>5 DEF LoadToken, ReadOk, ReadFails, Goto, Fine, Fault
<1>6. ASSUME NEW a \in Actors, LoadCertificate(a) PROVE (OneRegistrar /\ OffGateway /\ Alone)'
  BY <1>6 DEF LoadCertificate, ReadOk, ReadFails, Goto, Fine, Fault
<1>7. ASSUME NEW a \in Actors, SaveCredential(a) PROVE (OneRegistrar /\ OffGateway /\ Alone)'
  BY <1>7 DEF SaveCredential, Saves, Goto, Fine, Fault
<1>8. ASSUME NEW a \in Actors, LoadState(a) PROVE (OneRegistrar /\ OffGateway /\ Alone)'
  BY <1>8 DEF LoadState, ReadOk, ReadFails, Goto, Fine, Fault
<1>9. ASSUME NEW a \in Actors, LoadURL(a) PROVE (OneRegistrar /\ OffGateway /\ Alone)'
  BY <1>9 DEF LoadURL, ReadOk, ReadFails, Goto, Fine, Fault
<1>10. ASSUME NEW a \in Actors, ResumeCloses(a) PROVE (OneRegistrar /\ OffGateway /\ Alone)'
  BY <1>10 DEF ResumeCloses, Goto, Fine
<1>11. ASSUME NEW a \in Actors, ResumeDials(a) PROVE (OneRegistrar /\ OffGateway /\ Alone)'
  BY <1>11 DEF ResumeDials, Goto, Fine, Fault
<1>12. ASSUME NEW a \in Actors, EnsureLink(a) PROVE (OneRegistrar /\ OffGateway /\ Alone)'
  BY <1>12 DEF EnsureLink, Goto, Fine, Fault
<1>13. ASSUME NEW a \in Actors, SendRegister(a) PROVE (OneRegistrar /\ OffGateway /\ Alone)'
  BY <1>13 DEF SendRegister, Goto, Fine
<1>14. ASSUME NEW a \in Actors, Answered(a) PROVE (OneRegistrar /\ OffGateway /\ Alone)'
  BY <1>14 DEF Answered, Grant, Goto, Fine
<1>15. ASSUME NEW a \in Actors, AnswerLost(a) PROVE (OneRegistrar /\ OffGateway /\ Alone)'
  BY <1>15 DEF AnswerLost, Grant, Goto, Fault
<1>16. ASSUME NEW a \in Actors, AnswerRefuses(a) PROVE (OneRegistrar /\ OffGateway /\ Alone)'
  BY <1>16 DEF AnswerRefuses, Complain, Goto, Fine
<1>17. ASSUME NEW a \in Actors, AwaitEnds(a) PROVE (OneRegistrar /\ OffGateway /\ Alone)'
  BY <1>17 DEF AwaitEnds, Goto, Fine
<1>18. ASSUME NEW a \in Actors, SwapCloses(a) PROVE (OneRegistrar /\ OffGateway /\ Alone)'
  BY <1>18 DEF SwapCloses, Goto, Fine
<1>19. ASSUME NEW a \in Actors, SwapDials(a) PROVE (OneRegistrar /\ OffGateway /\ Alone)'
  BY <1>19 DEF SwapDials, Goto, Fine, Fault
<1>20. ASSUME NEW a \in Actors, SaveURL(a) PROVE (OneRegistrar /\ OffGateway /\ Alone)'
  BY <1>20 DEF SaveURL, Saves, Goto, Fine, Fault
<1>21. ASSUME NEW a \in Actors, SetId(a) PROVE (OneRegistrar /\ OffGateway /\ Alone)'
  BY <1>21 DEF SetId, IdKept, Goto, Fine
<1>22. ASSUME NEW a \in Actors, SaveId(a) PROVE (OneRegistrar /\ OffGateway /\ Alone)'
  BY <1>22 DEF SaveId, Saves, IdKept, Goto, Fine, Fault
<1>23. ASSUME NEW a \in Actors, SaveLoads(a) PROVE (OneRegistrar /\ OffGateway /\ Alone)'
  BY <1>23 DEF SaveLoads, Fine, Fault
<1>24. ASSUME NEW a \in Actors, ReregEnds(a) PROVE (OneRegistrar /\ OffGateway /\ Alone)'
  BY <1>24 DEF ReregEnds, RegisterEnded, Goto, Fine
<1>25. ASSUME BeatTick PROVE (OneRegistrar /\ OffGateway /\ Alone)'
  BY <1>25 DEF BeatTick, Goto, Fine
<1>26. ASSUME BeatSkips PROVE (OneRegistrar /\ OffGateway /\ Alone)'
  BY <1>26 DEF BeatSkips, BeatSucceeds, Goto, Fine
<1>27. ASSUME BeatChecks PROVE (OneRegistrar /\ OffGateway /\ Alone)'
  BY <1>27 DEF BeatChecks, Goto, Fine
<1>28. ASSUME BeatBuilds PROVE (OneRegistrar /\ OffGateway /\ Alone)'
  BY <1>28 DEF BeatBuilds, Goto, Fine
<1>29. ASSUME BeatSends PROVE (OneRegistrar /\ OffGateway /\ Alone)'
  BY <1>29 DEF BeatSends, BeatSucceeds, AttemptFails, ComplainOf, Complain, Goto, Fine
<1>30. ASSUME StartEnds PROVE (OneRegistrar /\ OffGateway /\ Alone)'
  BY <1>30 DEF StartEnds, RegisterEnded, Boot, Goto, Fine
<1>31. ASSUME BeatRegistered PROVE (OneRegistrar /\ OffGateway /\ Alone)'
  BY <1>31 DEF BeatRegistered, RegisterEnded, AttemptFails, Goto, Fine
<1>32. ASSUME ComplaintArrives PROVE (OneRegistrar /\ OffGateway /\ Alone)'
  BY <1>32 DEF ComplaintArrives, Goto, Fine
<1>33. ASSUME ClearStored PROVE (OneRegistrar /\ OffGateway /\ Alone)'
  BY <1>33 DEF ClearStored, Saves, Goto, Fine, Fault
<1>34. ASSUME Greet PROVE (OneRegistrar /\ OffGateway /\ Alone)'
  BY <1>34 DEF Greet, ComplainOf, Complain, Goto, Fine
<1>35. ASSUME LinkDrops PROVE (OneRegistrar /\ OffGateway /\ Alone)'
  BY <1>35 DEF LinkDrops, Fault
<1>36. ASSUME LinkRestored PROVE (OneRegistrar /\ OffGateway /\ Alone)'
  BY <1>36 DEF LinkRestored, Goto, Fine
<1>37. ASSUME LinkRefused PROVE (OneRegistrar /\ OffGateway /\ Alone)'
  BY <1>37 DEF LinkRefused, Complain, Fault
<1>38. ASSUME ServerForgets PROVE (OneRegistrar /\ OffGateway /\ Alone)'
  BY <1>38 DEF ServerForgets, Fault
<1>39. ASSUME Crash PROVE (OneRegistrar /\ OffGateway /\ Alone)'
  BY <1>39 DEF Crash, Boot, Fault
<1>40. CASE UNCHANGED vars
  BY <1>40 DEF vars
<1>41. QED
  BY <1>1, <1>2, <1>3, <1>4, <1>5, <1>6, <1>7, <1>8, <1>9, <1>10, <1>11,
     <1>12, <1>13, <1>14, <1>15, <1>16, <1>17, <1>18, <1>19, <1>20, <1>21,
     <1>22, <1>23, <1>24, <1>25, <1>26, <1>27, <1>28, <1>29, <1>30, <1>31,
     <1>32, <1>33, <1>34, <1>35, <1>36, <1>37, <1>38, <1>39, <1>40
     DEF Next, Register, Beat

(* A save writes, if anything, a state with the given id.                  *)
LEMMA SavesId ==
  ASSUME NEW a \in Actors, NEW state, Saves(a, state)
  PROVE  store'.id = store.id \/ store'.id = state.id
  BY DEF Saves

(* Only the holder of registerMutex, a new process that is alone and a     *)
(* goroutine that clears the id write to the store.                        *)
LEMMA ReadStep == Inv /\ [Next]_vars => ReadHolds'
<1> SUFFICES ASSUME Inv, [Next]_vars PROVE ReadHolds'
  OBVIOUS
<1> USE DEF Inv, TypeOK, ReadHolds, AfterRead, Actors, serverVars, beatVars, regVars, storeVars
<1>1. ASSUME OpenState PROVE ReadHolds'
  BY <1>1 DEF OpenState, ReadOk, ReadFails, Goto, Fine, Fault
<1>2. ASSUME SaveAgentID PROVE ReadHolds'
  BY <1>2 DEF SaveAgentID, Saves, Goto, Alone, BootStates
<1>3. ASSUME Connect PROVE ReadHolds'
  BY <1>3 DEF Connect, FirstLink, Goto, Fine
<1>4. ASSUME NEW a \in Actors, Enter(a) PROVE ReadHolds'
  BY <1>4 DEF Enter, Goto, Fine
<1>5. ASSUME NEW a \in Actors, LoadToken(a) PROVE ReadHolds'
  BY <1>5 DEF LoadToken, ReadOk, ReadFails, Goto, Fine, Fault
<1>6. ASSUME NEW a \in Actors, LoadCertificate(a) PROVE ReadHolds'
  BY <1>6 DEF LoadCertificate, ReadOk, ReadFails, Goto, Fine, Fault
<1>7. ASSUME NEW a \in Actors, SaveCredential(a) PROVE ReadHolds'
  <2>1. \A b \in Actors \ {a} : pc'[b] \notin AfterRead
    BY <1>7 DEF SaveCredential, OneRegistrar, RegisterStates, Goto, IdKept, Saves
  <2>2. pc'[a] \notin AfterRead
    BY <1>7 DEF SaveCredential, Goto, IdKept, Saves
  <2>3. QED
    BY <2>1, <2>2
<1>8. ASSUME NEW a \in Actors, LoadState(a) PROVE ReadHolds'
  <2>1. \A b \in Actors \ {a} : pc'[b] \notin AfterRead
    BY <1>8 DEF LoadState, OneRegistrar, RegisterStates, Goto
  <2>2. store' = store
    BY <1>8 DEF LoadState, ReadOk, ReadFails
  <2>3. Unread # NoId
    BY RegistrationAssumption DEF Unread, NoId
  <2>4. had'[a] = NoId => store.id = NoId
    BY <1>8, <2>3 DEF LoadState
  <2>5. QED
    BY <2>1, <2>2, <2>4
<1>9. ASSUME NEW a \in Actors, LoadURL(a) PROVE ReadHolds'
  BY <1>9 DEF LoadURL, ReadOk, ReadFails, Goto, Fine, Fault
<1>10. ASSUME NEW a \in Actors, ResumeCloses(a) PROVE ReadHolds'
  BY <1>10 DEF ResumeCloses, Goto, Fine
<1>11. ASSUME NEW a \in Actors, ResumeDials(a) PROVE ReadHolds'
  BY <1>11 DEF ResumeDials, Goto, Fine, Fault
<1>12. ASSUME NEW a \in Actors, EnsureLink(a) PROVE ReadHolds'
  BY <1>12 DEF EnsureLink, Goto, Fine, Fault
<1>13. ASSUME NEW a \in Actors, SendRegister(a) PROVE ReadHolds'
  BY <1>13 DEF SendRegister, Goto, Fine
<1>14. ASSUME NEW a \in Actors, Answered(a) PROVE ReadHolds'
  BY <1>14 DEF Answered, Grant, Goto, Fine
<1>15. ASSUME NEW a \in Actors, AnswerLost(a) PROVE ReadHolds'
  BY <1>15 DEF AnswerLost, Grant, Goto, Fault
<1>16. ASSUME NEW a \in Actors, AnswerRefuses(a) PROVE ReadHolds'
  BY <1>16 DEF AnswerRefuses, Complain, Goto, Fine
<1>17. ASSUME NEW a \in Actors, AwaitEnds(a) PROVE ReadHolds'
  BY <1>17 DEF AwaitEnds, Goto, Fine
<1>18. ASSUME NEW a \in Actors, SwapCloses(a) PROVE ReadHolds'
  BY <1>18 DEF SwapCloses, Goto, Fine
<1>19. ASSUME NEW a \in Actors, SwapDials(a) PROVE ReadHolds'
  BY <1>19 DEF SwapDials, Goto, Fine, Fault
<1>20. ASSUME NEW a \in Actors, SaveURL(a) PROVE ReadHolds'
  <2>1. \A b \in Actors \ {a} : pc'[b] \notin AfterRead
    BY <1>20 DEF SaveURL, OneRegistrar, RegisterStates, Goto, IdKept, Saves
  <2>2. pc'[a] \notin AfterRead
    BY <1>20 DEF SaveURL, Goto, IdKept, Saves
  <2>3. QED
    BY <2>1, <2>2
<1>21. ASSUME NEW a \in Actors, SetId(a) PROVE ReadHolds'
  BY <1>21 DEF SetId, IdKept, Goto, Fine
<1>22. ASSUME NEW a \in Actors, SaveId(a) PROVE ReadHolds'
  <2>1. \A b \in Actors \ {a} : pc'[b] \notin AfterRead
    BY <1>22 DEF SaveId, OneRegistrar, RegisterStates, Goto, IdKept, Saves
  <2>2. pc'[a] \notin AfterRead
    BY <1>22 DEF SaveId, Goto, IdKept, Saves
  <2>3. QED
    BY <2>1, <2>2
<1>23. ASSUME NEW a \in Actors, SaveLoads(a) PROVE ReadHolds'
  BY <1>23 DEF SaveLoads, Fine, Fault
<1>24. ASSUME NEW a \in Actors, ReregEnds(a) PROVE ReadHolds'
  BY <1>24 DEF ReregEnds, RegisterEnded, Goto, Fine
<1>25. ASSUME BeatTick PROVE ReadHolds'
  BY <1>25 DEF BeatTick, Goto, Fine
<1>26. ASSUME BeatSkips PROVE ReadHolds'
  BY <1>26 DEF BeatSkips, BeatSucceeds, Goto, Fine
<1>27. ASSUME BeatChecks PROVE ReadHolds'
  BY <1>27 DEF BeatChecks, Goto, Fine
<1>28. ASSUME BeatBuilds PROVE ReadHolds'
  BY <1>28 DEF BeatBuilds, Goto, Fine
<1>29. ASSUME BeatSends PROVE ReadHolds'
  BY <1>29 DEF BeatSends, BeatSucceeds, AttemptFails, ComplainOf, Complain, Goto, Fine
<1>30. ASSUME StartEnds PROVE ReadHolds'
  BY <1>30 DEF StartEnds, RegisterEnded, Boot, Goto, Fine
<1>31. ASSUME BeatRegistered PROVE ReadHolds'
  BY <1>31 DEF BeatRegistered, RegisterEnded, AttemptFails, Goto, Fine
<1>32. ASSUME ComplaintArrives PROVE ReadHolds'
  BY <1>32 DEF ComplaintArrives, Goto, Fine
<1>33. ASSUME ClearStored PROVE ReadHolds'
  <2>1. pc["error"] \notin AfterRead /\ had' = had
    BY <1>33 DEF ClearStored, Saves
  <2>2. store'.id \in {store.id, NoId}
    <3>1. held["error"] \in Stored
      BY <1>33 DEF ClearStored, Saves
    <3>2. [held["error"] EXCEPT !.id = NoId].id = NoId
      BY <3>1 DEF Stored
    <3>3. QED
      BY <1>33, <3>2, SavesId DEF ClearStored
  <2>3. QED
    BY <1>33, <2>1, <2>2 DEF ClearStored, Goto
<1>34. ASSUME Greet PROVE ReadHolds'
  BY <1>34 DEF Greet, ComplainOf, Complain, Goto, Fine
<1>35. ASSUME LinkDrops PROVE ReadHolds'
  BY <1>35 DEF LinkDrops, Fault
<1>36. ASSUME LinkRestored PROVE ReadHolds'
  BY <1>36 DEF LinkRestored, Goto, Fine
<1>37. ASSUME LinkRefused PROVE ReadHolds'
  BY <1>37 DEF LinkRefused, Complain, Fault
<1>38. ASSUME ServerForgets PROVE ReadHolds'
  BY <1>38 DEF ServerForgets, Fault
<1>39. ASSUME Crash PROVE ReadHolds'
  BY <1>39 DEF Crash, Boot, Fault
<1>40. CASE UNCHANGED vars
  BY <1>40 DEF vars
<1>41. QED
  BY <1>1, <1>2, <1>3, <1>4, <1>5, <1>6, <1>7, <1>8, <1>9, <1>10, <1>11,
     <1>12, <1>13, <1>14, <1>15, <1>16, <1>17, <1>18, <1>19, <1>20, <1>21,
     <1>22, <1>23, <1>24, <1>25, <1>26, <1>27, <1>28, <1>29, <1>30, <1>31,
     <1>32, <1>33, <1>34, <1>35, <1>36, <1>37, <1>38, <1>39, <1>40
     DEF Next, Register, Beat

(* A cluster is created only when the store holds none that is known, or   *)
(* by a registration that could not read it.                               *)
TwinAllowed ==
  minted' # minted =>
    \/ store.id \notin known
    \/ \E a \in Actors : pc[a] = "await" /\ pc'[a] # "await" /\ had[a] = Unread

LEMMA TwinStep == Inv /\ [Next]_vars => [TwinAllowed]_vars
<1> SUFFICES ASSUME Inv, [Next]_vars PROVE [TwinAllowed]_vars
  OBVIOUS
<1> USE DEF TwinAllowed, serverVars
<1>a. ASSUME NEW a \in Actors, pc[a] = "await", Grant(a),
             \E where \in {"swap", "setid", "failed"} : Goto(a, where)
      PROVE  TwinAllowed
  <2>1. CASE UNCHANGED serverVars
    BY <2>1
  <2>2. CASE had[a] = NoId
    BY <1>a, <2>2 DEF Inv, TypeOK, ReadHolds, AfterRead, Ids, NoId
  <2>3. CASE had[a] = Unread
    BY <1>a, <2>3 DEF Inv, TypeOK, Goto
  <2>4. QED
    BY <1>a, <2>1, <2>2, <2>3 DEF Grant
<1>1. ASSUME OpenState PROVE TwinAllowed
  BY <1>1 DEF OpenState, ReadOk, ReadFails, Goto, Fine, Fault
<1>2. ASSUME SaveAgentID PROVE TwinAllowed
  BY <1>2 DEF SaveAgentID, Saves, Goto, Fine, Fault
<1>3. ASSUME Connect PROVE TwinAllowed
  BY <1>3 DEF Connect, FirstLink, Goto, Fine
<1>4. ASSUME NEW a \in Actors, Enter(a) PROVE TwinAllowed
  BY <1>4 DEF Enter, Goto, Fine
<1>5. ASSUME NEW a \in Actors, LoadToken(a) PROVE TwinAllowed
  BY <1>5 DEF LoadToken, ReadOk, ReadFails, Goto, Fine, Fault
<1>6. ASSUME NEW a \in Actors, LoadCertificate(a) PROVE TwinAllowed
  BY <1>6 DEF LoadCertificate, ReadOk, ReadFails, Goto, Fine, Fault
<1>7. ASSUME NEW a \in Actors, SaveCredential(a) PROVE TwinAllowed
  BY <1>7 DEF SaveCredential, Saves, Goto, Fine, Fault
<1>8. ASSUME NEW a \in Actors, LoadState(a) PROVE TwinAllowed
  BY <1>8 DEF LoadState, ReadOk, ReadFails, Goto, Fine, Fault
<1>9. ASSUME NEW a \in Actors, LoadURL(a) PROVE TwinAllowed
  BY <1>9 DEF LoadURL, ReadOk, ReadFails, Goto, Fine, Fault
<1>10. ASSUME NEW a \in Actors, ResumeCloses(a) PROVE TwinAllowed
  BY <1>10 DEF ResumeCloses, Goto, Fine
<1>11. ASSUME NEW a \in Actors, ResumeDials(a) PROVE TwinAllowed
  BY <1>11 DEF ResumeDials, Goto, Fine, Fault
<1>12. ASSUME NEW a \in Actors, EnsureLink(a) PROVE TwinAllowed
  BY <1>12 DEF EnsureLink, Goto, Fine, Fault
<1>13. ASSUME NEW a \in Actors, SendRegister(a) PROVE TwinAllowed
  BY <1>13 DEF SendRegister, Goto, Fine
<1>14. ASSUME NEW a \in Actors, Answered(a) PROVE TwinAllowed
  BY <1>14, <1>a DEF Answered
<1>15. ASSUME NEW a \in Actors, AnswerLost(a) PROVE TwinAllowed
  BY <1>15, <1>a DEF AnswerLost
<1>16. ASSUME NEW a \in Actors, AnswerRefuses(a) PROVE TwinAllowed
  BY <1>16 DEF AnswerRefuses, Complain, Goto, Fine
<1>17. ASSUME NEW a \in Actors, AwaitEnds(a) PROVE TwinAllowed
  BY <1>17 DEF AwaitEnds, Goto, Fine
<1>18. ASSUME NEW a \in Actors, SwapCloses(a) PROVE TwinAllowed
  BY <1>18 DEF SwapCloses, Goto, Fine
<1>19. ASSUME NEW a \in Actors, SwapDials(a) PROVE TwinAllowed
  BY <1>19 DEF SwapDials, Goto, Fine, Fault
<1>20. ASSUME NEW a \in Actors, SaveURL(a) PROVE TwinAllowed
  BY <1>20 DEF SaveURL, Saves, Goto, Fine, Fault
<1>21. ASSUME NEW a \in Actors, SetId(a) PROVE TwinAllowed
  BY <1>21 DEF SetId, IdKept, Goto, Fine
<1>22. ASSUME NEW a \in Actors, SaveId(a) PROVE TwinAllowed
  BY <1>22 DEF SaveId, Saves, IdKept, Goto, Fine, Fault
<1>23. ASSUME NEW a \in Actors, SaveLoads(a) PROVE TwinAllowed
  BY <1>23 DEF SaveLoads, Fine, Fault
<1>24. ASSUME NEW a \in Actors, ReregEnds(a) PROVE TwinAllowed
  BY <1>24 DEF ReregEnds, RegisterEnded, Goto, Fine
<1>25. ASSUME BeatTick PROVE TwinAllowed
  BY <1>25 DEF BeatTick, Goto, Fine
<1>26. ASSUME BeatSkips PROVE TwinAllowed
  BY <1>26 DEF BeatSkips, BeatSucceeds, Goto, Fine
<1>27. ASSUME BeatChecks PROVE TwinAllowed
  BY <1>27 DEF BeatChecks, Goto, Fine
<1>28. ASSUME BeatBuilds PROVE TwinAllowed
  BY <1>28 DEF BeatBuilds, Goto, Fine
<1>29. ASSUME BeatSends PROVE TwinAllowed
  BY <1>29 DEF BeatSends, BeatSucceeds, AttemptFails, ComplainOf, Complain, Goto, Fine
<1>30. ASSUME StartEnds PROVE TwinAllowed
  BY <1>30 DEF StartEnds, RegisterEnded, Boot, Goto, Fine
<1>31. ASSUME BeatRegistered PROVE TwinAllowed
  BY <1>31 DEF BeatRegistered, RegisterEnded, AttemptFails, Goto, Fine
<1>32. ASSUME ComplaintArrives PROVE TwinAllowed
  BY <1>32 DEF ComplaintArrives, Goto, Fine
<1>33. ASSUME ClearStored PROVE TwinAllowed
  BY <1>33 DEF ClearStored, Saves, Goto, Fine, Fault
<1>34. ASSUME Greet PROVE TwinAllowed
  BY <1>34 DEF Greet, ComplainOf, Complain, Goto, Fine
<1>35. ASSUME LinkDrops PROVE TwinAllowed
  BY <1>35 DEF LinkDrops, Fault
<1>36. ASSUME LinkRestored PROVE TwinAllowed
  BY <1>36 DEF LinkRestored, Goto, Fine
<1>37. ASSUME LinkRefused PROVE TwinAllowed
  BY <1>37 DEF LinkRefused, Complain, Fault
<1>38. ASSUME ServerForgets PROVE TwinAllowed
  BY <1>38 DEF ServerForgets, Fault
<1>39. ASSUME Crash PROVE TwinAllowed
  BY <1>39 DEF Crash, Boot, Fault
<1>40. CASE UNCHANGED vars
  BY <1>40 DEF vars
<1>41. QED
  BY <1>1, <1>2, <1>3, <1>4, <1>5, <1>6, <1>7, <1>8, <1>9, <1>10, <1>11,
     <1>12, <1>13, <1>14, <1>15, <1>16, <1>17, <1>18, <1>19, <1>20, <1>21,
     <1>22, <1>23, <1>24, <1>25, <1>26, <1>27, <1>28, <1>29, <1>30, <1>31,
     <1>32, <1>33, <1>34, <1>35, <1>36, <1>37, <1>38, <1>39, <1>40
     DEF Next, Register, Beat

GatewayStays ==
  link = Link("gateway", "up") => link' \in {link, Link("gateway", "down")} \/ Rebooted

(* Only a restart or a broken connection ends a working gateway session.   *)
LEMMA GatewayStep == Inv /\ [Next]_vars => [GatewayStays]_vars
<1> SUFFICES ASSUME Inv, [Next]_vars PROVE [GatewayStays]_vars
  OBVIOUS
<1> USE DEF Inv, TypeOK, OffGateway, Alone, BeforeGateway, AfterRead, BootStates, Link, Actors, GatewayStays, Rebooted,
        serverVars, beatVars, regVars, procVars
<1>1. ASSUME OpenState PROVE GatewayStays
  BY <1>1 DEF OpenState, ReadOk, ReadFails, Goto, Fine, Fault
<1>2. ASSUME SaveAgentID PROVE GatewayStays
  BY <1>2 DEF SaveAgentID, Saves, Goto, Fine, Fault
<1>3. ASSUME Connect PROVE GatewayStays
  BY <1>3 DEF Connect, FirstLink, Goto, Fine
<1>4. ASSUME NEW a \in Actors, Enter(a) PROVE GatewayStays
  BY <1>4 DEF Enter, Goto, Fine
<1>5. ASSUME NEW a \in Actors, LoadToken(a) PROVE GatewayStays
  BY <1>5 DEF LoadToken, ReadOk, ReadFails, Goto, Fine, Fault
<1>6. ASSUME NEW a \in Actors, LoadCertificate(a) PROVE GatewayStays
  BY <1>6 DEF LoadCertificate, ReadOk, ReadFails, Goto, Fine, Fault
<1>7. ASSUME NEW a \in Actors, SaveCredential(a) PROVE GatewayStays
  BY <1>7 DEF SaveCredential, Saves, Goto, Fine, Fault
<1>8. ASSUME NEW a \in Actors, LoadState(a) PROVE GatewayStays
  BY <1>8 DEF LoadState, ReadOk, ReadFails, Goto, Fine, Fault
<1>9. ASSUME NEW a \in Actors, LoadURL(a) PROVE GatewayStays
  BY <1>9 DEF LoadURL, ReadOk, ReadFails, Goto, Fine, Fault
<1>10. ASSUME NEW a \in Actors, ResumeCloses(a) PROVE GatewayStays
  BY <1>10 DEF ResumeCloses, Goto, Fine
<1>11. ASSUME NEW a \in Actors, ResumeDials(a) PROVE GatewayStays
  BY <1>11 DEF ResumeDials, Goto, Fine, Fault
<1>12. ASSUME NEW a \in Actors, EnsureLink(a) PROVE GatewayStays
  BY <1>12 DEF EnsureLink, Goto, Fine, Fault
<1>13. ASSUME NEW a \in Actors, SendRegister(a) PROVE GatewayStays
  BY <1>13 DEF SendRegister, Goto, Fine
<1>14. ASSUME NEW a \in Actors, Answered(a) PROVE GatewayStays
  BY <1>14 DEF Answered, Grant, Goto, Fine
<1>15. ASSUME NEW a \in Actors, AnswerLost(a) PROVE GatewayStays
  BY <1>15 DEF AnswerLost, Grant, Goto, Fault
<1>16. ASSUME NEW a \in Actors, AnswerRefuses(a) PROVE GatewayStays
  BY <1>16 DEF AnswerRefuses, Complain, Goto, Fine
<1>17. ASSUME NEW a \in Actors, AwaitEnds(a) PROVE GatewayStays
  BY <1>17 DEF AwaitEnds, Goto, Fine
<1>18. ASSUME NEW a \in Actors, SwapCloses(a) PROVE GatewayStays
  BY <1>18 DEF SwapCloses, Goto, Fine
<1>19. ASSUME NEW a \in Actors, SwapDials(a) PROVE GatewayStays
  BY <1>19 DEF SwapDials, Goto, Fine, Fault
<1>20. ASSUME NEW a \in Actors, SaveURL(a) PROVE GatewayStays
  BY <1>20 DEF SaveURL, Saves, Goto, Fine, Fault
<1>21. ASSUME NEW a \in Actors, SetId(a) PROVE GatewayStays
  BY <1>21 DEF SetId, IdKept, Goto, Fine
<1>22. ASSUME NEW a \in Actors, SaveId(a) PROVE GatewayStays
  BY <1>22 DEF SaveId, Saves, IdKept, Goto, Fine, Fault
<1>23. ASSUME NEW a \in Actors, SaveLoads(a) PROVE GatewayStays
  BY <1>23 DEF SaveLoads, Fine, Fault
<1>24. ASSUME NEW a \in Actors, ReregEnds(a) PROVE GatewayStays
  BY <1>24 DEF ReregEnds, RegisterEnded, Goto, Fine
<1>25. ASSUME BeatTick PROVE GatewayStays
  BY <1>25 DEF BeatTick, Goto, Fine
<1>26. ASSUME BeatSkips PROVE GatewayStays
  BY <1>26 DEF BeatSkips, BeatSucceeds, Goto, Fine
<1>27. ASSUME BeatChecks PROVE GatewayStays
  BY <1>27 DEF BeatChecks, Goto, Fine
<1>28. ASSUME BeatBuilds PROVE GatewayStays
  BY <1>28 DEF BeatBuilds, Goto, Fine
<1>29. ASSUME BeatSends PROVE GatewayStays
  BY <1>29 DEF BeatSends, BeatSucceeds, AttemptFails, ComplainOf, Complain, Goto, Fine
<1>30. ASSUME StartEnds PROVE GatewayStays
  BY <1>30 DEF StartEnds, RegisterEnded, Boot, Goto, Fine
<1>31. ASSUME BeatRegistered PROVE GatewayStays
  BY <1>31 DEF BeatRegistered, RegisterEnded, AttemptFails, Goto, Fine
<1>32. ASSUME ComplaintArrives PROVE GatewayStays
  BY <1>32 DEF ComplaintArrives, Goto, Fine
<1>33. ASSUME ClearStored PROVE GatewayStays
  BY <1>33 DEF ClearStored, Saves, Goto, Fine, Fault
<1>34. ASSUME Greet PROVE GatewayStays
  BY <1>34 DEF Greet, ComplainOf, Complain, Goto, Fine
<1>35. ASSUME LinkDrops PROVE GatewayStays
  BY <1>35 DEF LinkDrops, Fault
<1>36. ASSUME LinkRestored PROVE GatewayStays
  BY <1>36 DEF LinkRestored, Goto, Fine
<1>37. ASSUME LinkRefused PROVE GatewayStays
  BY <1>37 DEF LinkRefused, Complain, Fault
<1>38. ASSUME ServerForgets PROVE GatewayStays
  BY <1>38 DEF ServerForgets, Fault
<1>39. ASSUME Crash PROVE GatewayStays
  BY <1>39 DEF Crash, Boot, Fault
<1>40. CASE UNCHANGED vars
  BY <1>40 DEF vars
<1>41. QED
  BY <1>1, <1>2, <1>3, <1>4, <1>5, <1>6, <1>7, <1>8, <1>9, <1>10, <1>11,
     <1>12, <1>13, <1>14, <1>15, <1>16, <1>17, <1>18, <1>19, <1>20, <1>21,
     <1>22, <1>23, <1>24, <1>25, <1>26, <1>27, <1>28, <1>29, <1>30, <1>31,
     <1>32, <1>33, <1>34, <1>35, <1>36, <1>37, <1>38, <1>39, <1>40
     DEF Next, Register, Beat

-----------------------------------------------------------------------------
(* The inductive invariant of the registration.                            *)
THEOREM Invariance == Spec => []Inv
<1>1. Init => Inv
  <2> SUFFICES ASSUME Init PROVE Inv
    OBVIOUS
  <2>1. Flags
    BY RegistrationAssumption DEF Init, Flags
  <2>2. Data
    BY RegistrationAssumption
       DEF Init, Data, Ids, NoId, Link, Actors, AllStates, BootStates
  <2>3. OneRegistrar /\ OffGateway /\ Alone /\ ReadHolds
    BY DEF Init, OneRegistrar, OffGateway, Alone, ReadHolds, BeforeGateway, AfterRead, Actors,
           RegisterStates, BootStates
  <2>4. StoreTyped
    BY StoredStates DEF Init, StoreTyped
  <2>5. Resuming
    BY DEF Init, Resuming
  <2>6. QED
    BY <2>1, <2>2, <2>3, <2>4, <2>5, TypeParts DEF Inv
<1>2. Inv /\ [Next]_vars => Inv'
  BY TypeStep, RegistrarStep, ReadStep DEF Inv
<1>3. QED
  BY <1>1, <1>2, PTL DEF Spec

(* Type correctness of the agent's registration.                           *)
THEOREM RegistrationTypes == Spec => []TypeOK
<1>1. Inv => TypeOK
  BY DEF Inv
<1>2. QED
  BY <1>1, Invariance, PTL

(* Only a registration that could not read the stored cluster id makes the *)
(* control plane create a second cluster while the store holds one it      *)
(* knows, whatever else fails and whoever saves (register, line 843).      *)
THEOREM NoTwins == Spec => NoTwinClusters
<1>1. Inv /\ [Next]_vars =>
        [minted' # minted =>
           \/ store.id \notin known
           \/ \E a \in Actors :
                pc[a] = "await" /\ pc'[a] # "await" /\ had[a] = Unread]_vars
  BY TwinStep DEF TwinAllowed
<1>2. QED
  BY Invariance, <1>1, PTL DEF Spec, NoTwinClusters

(* A registration never tears down a working gateway session, whichever    *)
(* goroutines race for it (register, lines 847-854).                       *)
THEOREM GatewaySession == Spec => GatewayKept
<1>1. Inv /\ [Next]_vars =>
        [link = Link("gateway", "up") =>
           link' \in {link, Link("gateway", "down")} \/ Rebooted]_vars
  BY GatewayStep DEF GatewayStays
<1>2. QED
  BY Invariance, <1>1, PTL DEF Spec, GatewayKept
=============================================================================
