--------------------------- MODULE WebSocketProofs ---------------------------
(***************************************************************************)
(* Proofs about the two kinds of WebSocket of the agent: the control link, *)
(* WSLifecycle, for any number of connections and of slots for the         *)
(* reconnect loop, and the WebSockets of applications, AppRelay, for any   *)
(* streams, capacities and numbers of frames.  The two modules declare     *)
(* different names, and no theorem is about both.                          *)
(*                                                                         *)
(* SingleLoop and Watched are not inductive: what keeps two loops apart is *)
(* that the flag c.reconnecting tells whether one runs, and what keeps a   *)
(* client watched is that a loop that ends well leaves a pinger behind     *)
(* that has not ticked yet.  RepliesInOrder is not either: frames are      *)
(* numbered as they are read, so what counts is that none but the one in   *)
(* hand was read and not sent, and that the relay starts only once.  A     *)
(* stream is a ServiceRelay because it leaves wsStreams only with its      *)
(* context cancelled, which Send looks at.                                 *)
(***************************************************************************)
EXTENDS WSLifecycle, AppRelay, SequenceTheorems, TLAPS

-----------------------------------------------------------------------------
(* The control link.                                                       *)
Connecting == {"dial", "swap", "mark", "spawn"}

(* The flag is set exactly while a loop runs.                              *)
LoopFlag == reconnecting <=> \E l \in Loops : Active(l)

(* No goroutine but the owner exists before the first Connect is through.  *)
OwnerFirst ==
  dpc[Owner] \in Connecting =>
    ~reconnecting /\ \A k \in Conn : rpc[k] = "none" /\ ppc[k] = "none"

OwnerOrLoop ==
  /\ dpc[Owner] = "dial" => dat[Owner] = NoConn
  /\ dpc[Owner] \notin {"none", "wait", "callback"}
  /\ \A l \in Loops : dpc[l] # "done"

(* Close cancels the context before anything else.                         *)
ClosingCancelled == closer = "no" <=> ~ctxDone

Loaded ==
  \A d \in Dialers : dpc[d] \in {"swap", "mark", "spawn"} => dat[d] \in Conn

(* A loop about to release the flag has left a pinger that waits for its   *)
(* first tick, unless it was cancelled or rejected.                        *)
FreshPinger ==
  \A l \in Loops : dpc[l] = "release" =>
    ctxDone \/ rejected \/ (dat[l] \in Conn /\ ppc[dat[l]] = "idle")

StillWatched ==
  /\ dpc[Owner] \in {"release", "done"} /\ dat[Owner] # NoConn
  /\ ~ctxDone /\ ~rejected
  => reconnecting \/ \E k \in Conn : PingerLive(k)

(* Connections are numbered in the order of their dials.                   *)
Numbered ==
  /\ \A j, k \in Conn : j < k /\ conn[k] # "unused" => conn[j] # "unused"
  /\ cur # NoConn => conn[cur] # "unused"
  /\ \A d \in Dialers : dpc[d] = "swap" => conn[dat[d]] # "unused" /\ cur < dat[d]

Exclusion == /\ SingleLoop /\ LoopFlag /\ OwnerFirst /\ OwnerOrLoop
             /\ Loaded /\ ClosingCancelled

Watching == FreshPinger /\ StillWatched

Inv == TypeOK /\ Exclusion /\ Watching /\ Numbered

-----------------------------------------------------------------------------
(* Every variable stays in its range: what each step of readMessages,      *)
(* pingHandler, reconnectLoop, Connect and Close assigns.                  *)
LEMMA TypeStep == TypeOK /\ [Next]_vars => TypeOK'
<1> SUFFICES ASSUME TypeOK, [Next]_vars PROVE TypeOK'
  OBVIOUS
<1> USE DEF TypeOK, ConnStates, ReaderStates, PingerStates,
            DialerStates, CloserStates, readerVars, pingerVars, dialerVars
<1>1. ASSUME NEW r \in Conn, ReaderTop(r) PROVE TypeOK'
  BY <1>1 DEF ReaderTop
<1>2. ASSUME NEW r \in Conn, ReaderMessage(r) PROVE TypeOK'
  BY <1>2 DEF ReaderMessage
<1>2a. ASSUME NEW r \in Conn, ReaderHandled(r) PROVE TypeOK'
  BY <1>2a DEF ReaderHandled
<1>3. ASSUME NEW r \in Conn, ReaderFails(r) PROVE TypeOK'
  BY <1>3 DEF ReaderFails
<1>4. ASSUME NEW r \in Conn, ReaderMarks(r) PROVE TypeOK'
  BY <1>4 DEF ReaderMarks
<1>5. ASSUME NEW r \in Conn, ReaderRetries(r) PROVE TypeOK'
  BY <1>5 DEF ReaderRetries, Reconnect
<1>6. ASSUME NEW p \in Conn, PingerTick(p) PROVE TypeOK'
  BY <1>6 DEF PingerTick, FirstTickDue
<1>7. ASSUME NEW p \in Conn, PingSent(p) PROVE TypeOK'
  BY <1>7 DEF PingSent
<1>8. ASSUME NEW p \in Conn, PingFails(p) PROVE TypeOK'
  BY <1>8 DEF PingFails
<1>9. ASSUME NEW p \in Conn, PingerMarks(p) PROVE TypeOK'
  BY <1>9 DEF PingerMarks
<1>10. ASSUME NEW p \in Conn, PingerRetries(p) PROVE TypeOK'
  BY <1>10 DEF PingerRetries, Reconnect
<1>11. ASSUME NEW d \in Dialers, NEW k \in Conn, DialSucceeds(d, k) PROVE TypeOK'
  BY <1>11 DEF DialSucceeds
<1>12. ASSUME NEW d \in Dialers, DialFails(d) PROVE TypeOK'
  BY <1>12 DEF DialFails
<1>13. ASSUME NEW d \in Dialers, InstallConn(d) PROVE TypeOK'
  BY <1>13 DEF InstallConn
<1>14. ASSUME NEW d \in Dialers, MarkConnected(d) PROVE TypeOK'
  BY <1>14 DEF MarkConnected
<1>15. ASSUME NEW d \in Dialers, StartGoroutines(d) PROVE TypeOK'
  BY <1>15 DEF StartGoroutines
<1>16. ASSUME NEW l \in Loops, LoopWakes(l) PROVE TypeOK'
  BY <1>16 DEF LoopWakes
<1>17. ASSUME NEW l \in Loops, LoopCancelled(l) PROVE TypeOK'
  BY <1>17 DEF LoopCancelled
<1>18. ASSUME NEW l \in Loops, DialRejected(l) PROVE TypeOK'
  BY <1>18 DEF DialRejected
<1>19. ASSUME NEW l \in Loops, CallbackReturns(l) PROVE TypeOK'
  BY <1>19 DEF CallbackReturns
<1>20. ASSUME NEW l \in Loops, LoopReleases(l) PROVE TypeOK'
  BY <1>20 DEF LoopReleases
<1>21. ASSUME OwnerReturns PROVE TypeOK'
  BY <1>21 DEF OwnerReturns
<1>22. ASSUME CloseCancels PROVE TypeOK'
  BY <1>22 DEF CloseCancels
<1>23. ASSUME CloseConn PROVE TypeOK'
  BY <1>23 DEF CloseConn
<1>24. ASSUME CloseMarks PROVE TypeOK'
  BY <1>24 DEF CloseMarks
<1>25. ASSUME CloseReturns PROVE TypeOK'
  BY <1>25 DEF CloseReturns
<1>26. ASSUME NEW k \in Conn, WritesStall(k) PROVE TypeOK'
  BY <1>26 DEF WritesStall
<1>27. ASSUME NEW k \in Conn, ConnBreaks(k) PROVE TypeOK'
  BY <1>27 DEF ConnBreaks
<1>28. CASE UNCHANGED vars
  BY <1>28 DEF vars
<1>29. QED
  BY <1>1, <1>2, <1>2a, <1>3, <1>4, <1>5, <1>6, <1>7, <1>8, <1>9, <1>10,
     <1>11, <1>12, <1>13, <1>14, <1>15, <1>16, <1>17, <1>18, <1>19,
     <1>20, <1>21, <1>22, <1>23, <1>24, <1>25, <1>26, <1>27,
     <1>28
     DEF Next, Reader, Pinger, Dialer, Loop, Close, Network

(* Type correctness of the client, for every number of dials and of slots. *)
THEOREM TypeCorrect == Spec => []TypeOK
<1>1. Init => TypeOK
  <2> SUFFICES ASSUME Init PROVE TypeOK
    OBVIOUS
  <2>1. conn \in [Conn -> ConnStates] /\ closer \in CloserStates
    BY DEF Init, ConnStates, CloserStates
  <2>2. rpc \in [Conn -> ReaderStates] /\ ppc \in [Conn -> PingerStates]
    BY DEF Init, ReaderStates, PingerStates
  <2>3. dpc \in [Dialers -> DialerStates]
    BY DEF Init, DialerStates
  <2>4. /\ rat \in [Conn -> Conn \cup {NoConn}]
        /\ pat \in [Conn -> Conn \cup {NoConn}]
        /\ dat \in [Dialers -> Conn \cup {NoConn}]
    BY DEF Init
  <2>5. QED
    BY <2>1, <2>2, <2>3, <2>4 DEF Init, TypeOK
<1>2. QED
  BY <1>1, TypeStep, PTL DEF Spec

(* Readers and pingers that call reconnect() together start one loop: the  *)
(* compare-and-swap and the deferred release keep flag and loop in step.   *)
LEMMA ExclusionStep == TypeOK /\ Exclusion /\ [Next]_vars => Exclusion'
<1> SUFFICES ASSUME TypeOK, Exclusion, [Next]_vars PROVE Exclusion'
  OBVIOUS
<1> USE LifecycleAssumption DEF TypeOK, Exclusion, SingleLoop, LoopFlag,
            OwnerFirst, OwnerOrLoop, Loaded, ClosingCancelled, Active, Connecting, Dialers,
            readerVars, pingerVars, dialerVars
<1>1. ASSUME NEW r \in Conn, ReaderTop(r) PROVE Exclusion'
  BY <1>1 DEF ReaderTop
<1>2. ASSUME NEW r \in Conn, ReaderMessage(r) PROVE Exclusion'
  BY <1>2 DEF ReaderMessage
<1>2a. ASSUME NEW r \in Conn, ReaderHandled(r) PROVE Exclusion'
  BY <1>2a DEF ReaderHandled
<1>3. ASSUME NEW r \in Conn, ReaderFails(r) PROVE Exclusion'
  BY <1>3 DEF ReaderFails
<1>4. ASSUME NEW r \in Conn, ReaderMarks(r) PROVE Exclusion'
  BY <1>4 DEF ReaderMarks
<1>5. ASSUME NEW r \in Conn, ReaderRetries(r) PROVE Exclusion'
  BY <1>5 DEF ReaderRetries, Reconnect
<1>6. ASSUME NEW p \in Conn, PingerTick(p) PROVE Exclusion'
  BY <1>6 DEF PingerTick, FirstTickDue
<1>7. ASSUME NEW p \in Conn, PingSent(p) PROVE Exclusion'
  BY <1>7 DEF PingSent
<1>8. ASSUME NEW p \in Conn, PingFails(p) PROVE Exclusion'
  BY <1>8 DEF PingFails
<1>9. ASSUME NEW p \in Conn, PingerMarks(p) PROVE Exclusion'
  BY <1>9 DEF PingerMarks
<1>10. ASSUME NEW p \in Conn, PingerRetries(p) PROVE Exclusion'
  BY <1>10 DEF PingerRetries, Reconnect
<1>11. ASSUME NEW d \in Dialers, NEW k \in Conn, DialSucceeds(d, k) PROVE Exclusion'
  BY <1>11 DEF DialSucceeds
<1>12. ASSUME NEW d \in Dialers, DialFails(d) PROVE Exclusion'
  BY <1>12 DEF DialFails
<1>13. ASSUME NEW d \in Dialers, InstallConn(d) PROVE Exclusion'
  BY <1>13 DEF InstallConn
<1>14. ASSUME NEW d \in Dialers, MarkConnected(d) PROVE Exclusion'
  BY <1>14 DEF MarkConnected
<1>15. ASSUME NEW d \in Dialers, StartGoroutines(d) PROVE Exclusion'
  BY <1>15 DEF StartGoroutines
<1>16. ASSUME NEW l \in Loops, LoopWakes(l) PROVE Exclusion'
  BY <1>16 DEF LoopWakes
<1>17. ASSUME NEW l \in Loops, LoopCancelled(l) PROVE Exclusion'
  BY <1>17 DEF LoopCancelled
<1>18. ASSUME NEW l \in Loops, DialRejected(l) PROVE Exclusion'
  BY <1>18 DEF DialRejected
<1>19. ASSUME NEW l \in Loops, CallbackReturns(l) PROVE Exclusion'
  BY <1>19 DEF CallbackReturns
<1>20. ASSUME NEW l \in Loops, LoopReleases(l) PROVE Exclusion'
  BY <1>20 DEF LoopReleases
<1>21. ASSUME OwnerReturns PROVE Exclusion'
  BY <1>21 DEF OwnerReturns
<1>22. ASSUME CloseCancels PROVE Exclusion'
  BY <1>22 DEF CloseCancels
<1>23. ASSUME CloseConn PROVE Exclusion'
  BY <1>23 DEF CloseConn
<1>24. ASSUME CloseMarks PROVE Exclusion'
  BY <1>24 DEF CloseMarks
<1>25. ASSUME CloseReturns PROVE Exclusion'
  BY <1>25 DEF CloseReturns
<1>26. ASSUME NEW k \in Conn, WritesStall(k) PROVE Exclusion'
  BY <1>26 DEF WritesStall
<1>27. ASSUME NEW k \in Conn, ConnBreaks(k) PROVE Exclusion'
  BY <1>27 DEF ConnBreaks
<1>28. CASE UNCHANGED vars
  BY <1>28 DEF vars
<1>29. QED
  BY <1>1, <1>2, <1>2a, <1>3, <1>4, <1>5, <1>6, <1>7, <1>8, <1>9, <1>10,
     <1>11, <1>12, <1>13, <1>14, <1>15, <1>16, <1>17, <1>18, <1>19,
     <1>20, <1>21, <1>22, <1>23, <1>24, <1>25, <1>26, <1>27,
     <1>28
     DEF Next, Reader, Pinger, Dialer, Loop, Close, Network

(* No step of a reader, pinger, dialer or Close leaves an open client with *)
(* neither a reconnect loop nor a pinger.                                  *)
LEMMA WatchStep == TypeOK /\ Exclusion /\ Watching /\ [Next]_vars => Watching'
<1> SUFFICES ASSUME TypeOK, Exclusion, Watching, [Next]_vars PROVE Watching'
  OBVIOUS
<1> USE LifecycleAssumption DEF TypeOK, Exclusion, SingleLoop, LoopFlag,
            OwnerFirst, OwnerOrLoop, Loaded, ClosingCancelled, Active, Connecting, Dialers,
            Watching, FreshPinger, StillWatched, PingerLive, readerVars,
            pingerVars, dialerVars
<1>1. ASSUME NEW r \in Conn, ReaderTop(r) PROVE Watching'
  BY <1>1 DEF ReaderTop
<1>2. ASSUME NEW r \in Conn, ReaderMessage(r) PROVE Watching'
  BY <1>2 DEF ReaderMessage
<1>2a. ASSUME NEW r \in Conn, ReaderHandled(r) PROVE Watching'
  BY <1>2a DEF ReaderHandled
<1>3. ASSUME NEW r \in Conn, ReaderFails(r) PROVE Watching'
  BY <1>3 DEF ReaderFails
<1>4. ASSUME NEW r \in Conn, ReaderMarks(r) PROVE Watching'
  BY <1>4 DEF ReaderMarks
<1>5. ASSUME NEW r \in Conn, ReaderRetries(r) PROVE Watching'
  BY <1>5 DEF ReaderRetries, Reconnect
<1>6. ASSUME NEW p \in Conn, PingerTick(p) PROVE Watching'
  BY <1>6 DEF PingerTick, FirstTickDue
<1>7. ASSUME NEW p \in Conn, PingSent(p) PROVE Watching'
  BY <1>7 DEF PingSent
<1>8. ASSUME NEW p \in Conn, PingFails(p) PROVE Watching'
  BY <1>8 DEF PingFails
<1>9. ASSUME NEW p \in Conn, PingerMarks(p) PROVE Watching'
  BY <1>9 DEF PingerMarks
<1>10. ASSUME NEW p \in Conn, PingerRetries(p) PROVE Watching'
  BY <1>10 DEF PingerRetries, Reconnect
<1>11. ASSUME NEW d \in Dialers, NEW k \in Conn, DialSucceeds(d, k) PROVE Watching'
  BY <1>11 DEF DialSucceeds
<1>12. ASSUME NEW d \in Dialers, DialFails(d) PROVE Watching'
  BY <1>12 DEF DialFails
<1>13. ASSUME NEW d \in Dialers, InstallConn(d) PROVE Watching'
  BY <1>13 DEF InstallConn
<1>14. ASSUME NEW d \in Dialers, MarkConnected(d) PROVE Watching'
  BY <1>14 DEF MarkConnected
<1>15. ASSUME NEW d \in Dialers, StartGoroutines(d) PROVE Watching'
  BY <1>15 DEF StartGoroutines
<1>16. ASSUME NEW l \in Loops, LoopWakes(l) PROVE Watching'
  BY <1>16 DEF LoopWakes
<1>17. ASSUME NEW l \in Loops, LoopCancelled(l) PROVE Watching'
  BY <1>17 DEF LoopCancelled
<1>18. ASSUME NEW l \in Loops, DialRejected(l) PROVE Watching'
  BY <1>18 DEF DialRejected
<1>19. ASSUME NEW l \in Loops, CallbackReturns(l) PROVE Watching'
  BY <1>19 DEF CallbackReturns
<1>20. ASSUME NEW l \in Loops, LoopReleases(l) PROVE Watching'
  BY <1>20 DEF LoopReleases
<1>21. ASSUME OwnerReturns PROVE Watching'
  BY <1>21 DEF OwnerReturns
<1>22. ASSUME CloseCancels PROVE Watching'
  BY <1>22 DEF CloseCancels
<1>23. ASSUME CloseConn PROVE Watching'
  BY <1>23 DEF CloseConn
<1>24. ASSUME CloseMarks PROVE Watching'
  BY <1>24 DEF CloseMarks
<1>25. ASSUME CloseReturns PROVE Watching'
  BY <1>25 DEF CloseReturns
<1>26. ASSUME NEW k \in Conn, WritesStall(k) PROVE Watching'
  BY <1>26 DEF WritesStall
<1>27. ASSUME NEW k \in Conn, ConnBreaks(k) PROVE Watching'
  BY <1>27 DEF ConnBreaks
<1>28. CASE UNCHANGED vars
  BY <1>28 DEF vars
<1>29. QED
  BY <1>1, <1>2, <1>2a, <1>3, <1>4, <1>5, <1>6, <1>7, <1>8, <1>9, <1>10,
     <1>11, <1>12, <1>13, <1>14, <1>15, <1>16, <1>17, <1>18, <1>19,
     <1>20, <1>21, <1>22, <1>23, <1>24, <1>25, <1>26, <1>27,
     <1>28
     DEF Next, Reader, Pinger, Dialer, Loop, Close, Network

(* A dial yields a connection newer than the one in c.conn, and stays so   *)
(* until it is installed, since nobody else installs one meanwhile.        *)
LEMMA NumberStep == TypeOK /\ Exclusion /\ Numbered /\ [Next]_vars => Numbered'
<1> SUFFICES ASSUME TypeOK, Exclusion, Numbered, [Next]_vars PROVE Numbered'
  OBVIOUS
<1> USE LifecycleAssumption DEF TypeOK, Exclusion, SingleLoop, LoopFlag,
            OwnerFirst, OwnerOrLoop, Loaded, ClosingCancelled, Active, Connecting, Dialers,
            Numbered, Conn, NoConn, readerVars, pingerVars, dialerVars
<1>1. ASSUME NEW r \in Conn, ReaderTop(r) PROVE Numbered'
  BY <1>1 DEF ReaderTop
<1>2. ASSUME NEW r \in Conn, ReaderMessage(r) PROVE Numbered'
  BY <1>2 DEF ReaderMessage
<1>2a. ASSUME NEW r \in Conn, ReaderHandled(r) PROVE Numbered'
  BY <1>2a DEF ReaderHandled
<1>3. ASSUME NEW r \in Conn, ReaderFails(r) PROVE Numbered'
  BY <1>3 DEF ReaderFails
<1>4. ASSUME NEW r \in Conn, ReaderMarks(r) PROVE Numbered'
  BY <1>4 DEF ReaderMarks
<1>5. ASSUME NEW r \in Conn, ReaderRetries(r) PROVE Numbered'
  BY <1>5 DEF ReaderRetries, Reconnect
<1>6. ASSUME NEW p \in Conn, PingerTick(p) PROVE Numbered'
  BY <1>6 DEF PingerTick, FirstTickDue
<1>7. ASSUME NEW p \in Conn, PingSent(p) PROVE Numbered'
  BY <1>7 DEF PingSent
<1>8. ASSUME NEW p \in Conn, PingFails(p) PROVE Numbered'
  BY <1>8 DEF PingFails
<1>9. ASSUME NEW p \in Conn, PingerMarks(p) PROVE Numbered'
  BY <1>9 DEF PingerMarks
<1>10. ASSUME NEW p \in Conn, PingerRetries(p) PROVE Numbered'
  BY <1>10 DEF PingerRetries, Reconnect
<1>11. ASSUME NEW d \in Dialers, NEW k \in Conn, DialSucceeds(d, k) PROVE Numbered'
  BY <1>11 DEF DialSucceeds
<1>12. ASSUME NEW d \in Dialers, DialFails(d) PROVE Numbered'
  BY <1>12 DEF DialFails
<1>13. ASSUME NEW d \in Dialers, InstallConn(d) PROVE Numbered'
  BY <1>13 DEF InstallConn
<1>14. ASSUME NEW d \in Dialers, MarkConnected(d) PROVE Numbered'
  BY <1>14 DEF MarkConnected
<1>15. ASSUME NEW d \in Dialers, StartGoroutines(d) PROVE Numbered'
  BY <1>15 DEF StartGoroutines
<1>16. ASSUME NEW l \in Loops, LoopWakes(l) PROVE Numbered'
  BY <1>16 DEF LoopWakes
<1>17. ASSUME NEW l \in Loops, LoopCancelled(l) PROVE Numbered'
  BY <1>17 DEF LoopCancelled
<1>18. ASSUME NEW l \in Loops, DialRejected(l) PROVE Numbered'
  BY <1>18 DEF DialRejected
<1>19. ASSUME NEW l \in Loops, CallbackReturns(l) PROVE Numbered'
  BY <1>19 DEF CallbackReturns
<1>20. ASSUME NEW l \in Loops, LoopReleases(l) PROVE Numbered'
  BY <1>20 DEF LoopReleases
<1>21. ASSUME OwnerReturns PROVE Numbered'
  BY <1>21 DEF OwnerReturns
<1>22. ASSUME CloseCancels PROVE Numbered'
  BY <1>22 DEF CloseCancels
<1>23. ASSUME CloseConn PROVE Numbered'
  BY <1>23 DEF CloseConn
<1>24. ASSUME CloseMarks PROVE Numbered'
  BY <1>24 DEF CloseMarks
<1>25. ASSUME CloseReturns PROVE Numbered'
  BY <1>25 DEF CloseReturns
<1>26. ASSUME NEW k \in Conn, WritesStall(k) PROVE Numbered'
  BY <1>26 DEF WritesStall
<1>27. ASSUME NEW k \in Conn, ConnBreaks(k) PROVE Numbered'
  BY <1>27 DEF ConnBreaks
<1>28. CASE UNCHANGED vars
  BY <1>28 DEF vars
<1>29. QED
  BY <1>1, <1>2, <1>2a, <1>3, <1>4, <1>5, <1>6, <1>7, <1>8, <1>9, <1>10,
     <1>11, <1>12, <1>13, <1>14, <1>15, <1>16, <1>17, <1>18, <1>19,
     <1>20, <1>21, <1>22, <1>23, <1>24, <1>25, <1>26, <1>27,
     <1>28
     DEF Next, Reader, Pinger, Dialer, Loop, Close, Network

(* Every step of the client is a step of LinkOwnership or a stutter.       *)
LEMMA OwnershipStep == TypeOK /\ Exclusion /\ Numbered /\ [Next]_vars => [Ownership!Next]_Ownership!ownerVars
<1> SUFFICES ASSUME TypeOK, Exclusion, Numbered, [Next]_vars PROVE [Ownership!Next]_Ownership!ownerVars
  OBVIOUS
<1> USE LifecycleAssumption DEF TypeOK, Exclusion, SingleLoop, LoopFlag,
            OwnerFirst, OwnerOrLoop, Loaded, ClosingCancelled, Active, Connecting, Dialers,
            Numbered, Conn, NoConn, readerVars, pingerVars, dialerVars,
            OwnerPhase, Ownership!Next, Ownership!Enter, Ownership!Leave,
            Ownership!Dial, Ownership!Fail, Ownership!Obtain,
            Ownership!Replace, Ownership!Shut, Ownership!Unlink,
            Ownership!ownerVars
<1>1. ASSUME NEW r \in Conn, ReaderTop(r) PROVE [Ownership!Next]_Ownership!ownerVars
  BY <1>1 DEF ReaderTop
<1>2. ASSUME NEW r \in Conn, ReaderMessage(r) PROVE [Ownership!Next]_Ownership!ownerVars
  BY <1>2 DEF ReaderMessage
<1>2a. ASSUME NEW r \in Conn, ReaderHandled(r) PROVE [Ownership!Next]_Ownership!ownerVars
  BY <1>2a DEF ReaderHandled
<1>3. ASSUME NEW r \in Conn, ReaderFails(r) PROVE [Ownership!Next]_Ownership!ownerVars
  BY <1>3 DEF ReaderFails
<1>4. ASSUME NEW r \in Conn, ReaderMarks(r) PROVE [Ownership!Next]_Ownership!ownerVars
  BY <1>4 DEF ReaderMarks
<1>5. ASSUME NEW r \in Conn, ReaderRetries(r) PROVE [Ownership!Next]_Ownership!ownerVars
  BY <1>5 DEF ReaderRetries, Reconnect
<1>6. ASSUME NEW p \in Conn, PingerTick(p) PROVE [Ownership!Next]_Ownership!ownerVars
  BY <1>6 DEF PingerTick, FirstTickDue
<1>7. ASSUME NEW p \in Conn, PingSent(p) PROVE [Ownership!Next]_Ownership!ownerVars
  BY <1>7 DEF PingSent
<1>8. ASSUME NEW p \in Conn, PingFails(p) PROVE [Ownership!Next]_Ownership!ownerVars
  BY <1>8 DEF PingFails
<1>9. ASSUME NEW p \in Conn, PingerMarks(p) PROVE [Ownership!Next]_Ownership!ownerVars
  BY <1>9 DEF PingerMarks
<1>10. ASSUME NEW p \in Conn, PingerRetries(p) PROVE [Ownership!Next]_Ownership!ownerVars
  BY <1>10 DEF PingerRetries, Reconnect
<1>11. ASSUME NEW d \in Dialers, NEW k \in Conn, DialSucceeds(d, k) PROVE [Ownership!Next]_Ownership!ownerVars
  BY <1>11 DEF DialSucceeds
<1>12. ASSUME NEW d \in Dialers, DialFails(d) PROVE [Ownership!Next]_Ownership!ownerVars
  BY <1>12 DEF DialFails
<1>13. ASSUME NEW d \in Dialers, InstallConn(d) PROVE [Ownership!Next]_Ownership!ownerVars
  BY <1>13 DEF InstallConn
<1>14. ASSUME NEW d \in Dialers, MarkConnected(d) PROVE [Ownership!Next]_Ownership!ownerVars
  BY <1>14 DEF MarkConnected
<1>15. ASSUME NEW d \in Dialers, StartGoroutines(d) PROVE [Ownership!Next]_Ownership!ownerVars
  BY <1>15 DEF StartGoroutines
<1>16. ASSUME NEW l \in Loops, LoopWakes(l) PROVE [Ownership!Next]_Ownership!ownerVars
  BY <1>16 DEF LoopWakes
<1>17. ASSUME NEW l \in Loops, LoopCancelled(l) PROVE [Ownership!Next]_Ownership!ownerVars
  BY <1>17 DEF LoopCancelled
<1>18. ASSUME NEW l \in Loops, DialRejected(l) PROVE [Ownership!Next]_Ownership!ownerVars
  BY <1>18 DEF DialRejected
<1>19. ASSUME NEW l \in Loops, CallbackReturns(l) PROVE [Ownership!Next]_Ownership!ownerVars
  BY <1>19 DEF CallbackReturns
<1>20. ASSUME NEW l \in Loops, LoopReleases(l) PROVE [Ownership!Next]_Ownership!ownerVars
  BY <1>20 DEF LoopReleases
<1>21. ASSUME OwnerReturns PROVE [Ownership!Next]_Ownership!ownerVars
  BY <1>21 DEF OwnerReturns
<1>22. ASSUME CloseCancels PROVE [Ownership!Next]_Ownership!ownerVars
  BY <1>22 DEF CloseCancels
<1>23. ASSUME CloseConn PROVE [Ownership!Next]_Ownership!ownerVars
  BY <1>23 DEF CloseConn
<1>24. ASSUME CloseMarks PROVE [Ownership!Next]_Ownership!ownerVars
  BY <1>24 DEF CloseMarks
<1>25. ASSUME CloseReturns PROVE [Ownership!Next]_Ownership!ownerVars
  BY <1>25 DEF CloseReturns
<1>26. ASSUME NEW k \in Conn, WritesStall(k) PROVE [Ownership!Next]_Ownership!ownerVars
  BY <1>26 DEF WritesStall
<1>27. ASSUME NEW k \in Conn, ConnBreaks(k) PROVE [Ownership!Next]_Ownership!ownerVars
  BY <1>27 DEF ConnBreaks
<1>28. CASE UNCHANGED vars
  BY <1>28 DEF vars
<1>29. QED
  BY <1>1, <1>2, <1>2a, <1>3, <1>4, <1>5, <1>6, <1>7, <1>8, <1>9, <1>10,
     <1>11, <1>12, <1>13, <1>14, <1>15, <1>16, <1>17, <1>18, <1>19,
     <1>20, <1>21, <1>22, <1>23, <1>24, <1>25, <1>26, <1>27,
     <1>28
     DEF Next, Reader, Pinger, Dialer, Loop, Close, Network


-----------------------------------------------------------------------------
(* The inductive invariant holds: it is what makes the next three theorems *)
(* true of reconnect(), reconnectLoop() and Connect().                     *)
THEOREM Invariance == Spec => []Inv
<1>1. Init => Inv
  <2> SUFFICES ASSUME Init PROVE Inv
    OBVIOUS
  <2>1. TypeOK
    BY DEF Init, TypeOK, ConnStates, ReaderStates, PingerStates,
           DialerStates, CloserStates
  <2>2. Exclusion
    BY LifecycleAssumption
       DEF Init, Exclusion, SingleLoop, LoopFlag, OwnerFirst, OwnerOrLoop,
           Loaded, ClosingCancelled, Active, Connecting, Dialers
  <2>3. Watching
    BY LifecycleAssumption
       DEF Init, Watching, FreshPinger, StillWatched, Dialers
  <2>4. Numbered
    BY DEF Init, Numbered, Dialers
  <2>5. QED
    BY <2>1, <2>2, <2>3, <2>4 DEF Inv
<1>2. Inv /\ [Next]_vars => Inv'
  BY TypeStep, ExclusionStep, WatchStep, NumberStep DEF Inv
<1>3. QED
  BY <1>1, <1>2, PTL DEF Spec

(* However many goroutines detect failures at once, at most one of them    *)
(* runs reconnectLoop, for any number of slots.                            *)
THEOREM OneReconnectLoop == Spec => []SingleLoop
<1>1. Inv => SingleLoop
  BY DEF Inv, Exclusion
<1>2. QED
  BY <1>1, Invariance, PTL

(* An open, accepted client always has a reconnect loop or a live pinger,  *)
(* however its goroutines interleave: no wake-up is lost for good.         *)
THEOREM AlwaysWatched == Spec => []Watched
<1>1. Inv => Watched
  BY DEF Inv, Watching, StillWatched, Watched, Started
<1>2. QED
  BY <1>1, Invariance, PTL

(* The client implements LinkOwnership: one dialler at a time replaces     *)
(* c.conn, always by a newer connection, and starts no dial after Close.   *)
THEOREM ImplementsOwnership == Spec => OwnedLink
<1>1. Init => Ownership!Init
  BY LifecycleAssumption
     DEF Init, Ownership!Init, OwnerPhase, Dialers, NoConn
<1>2. Inv /\ [Next]_vars => [Ownership!Next]_Ownership!ownerVars
  BY OwnershipStep DEF Inv
<1>3. QED
  BY <1>1, <1>2, Invariance, PTL DEF Spec, OwnedLink, Ownership!Spec

-----------------------------------------------------------------------------
(* WebSockets of applications.                                             *)

(* The relays start once, after the answer.                                *)
RelaysStart ==
  \A i \in Streams :
    handler[i] \in {"none", "dial", "list", "answer"} =>
      up[i] = "none" /\ down[i] = "none"

(* What was read from the service was sent, except the frame in hand.      *)
FramesRelayed ==
  \A i \in Streams :
    /\ up[i] \in {"none", "read"} => taken[i] = Len(sent[i])
    /\ up[i] = "send" => taken[i] = Len(sent[i]) + 1

(* A stream is in the map from its listing to the clean-up.                *)
Entries == \A i \in Streams : i \in wsStreams <=> handler[i] \in {"answer", "wait"}

(* The connection and its heartbeat come with the dial ...                 *)
Dialled ==
  \A i \in Streams :
    handler[i] \in {"none", "dial"} => serviceConn[i] = "none" /\ beat[i] = "none"

(* ... and the channel is closed and the context cancelled on the way out. *)
CleanedUp ==
  \A i \in Streams :
    /\ shut[i] => handler[i] \in {"stop", "done"}
    /\ handler[i] = "stop" => shut[i] /\ cancelled[i] # "no"

(* A handler that has returned leaves no entry, no connection and no       *)
(* heartbeat, and every relay it started is told to end.                   *)
NothingHeld ==
  \A i \in Streams : handler[i] = "done" =>
    /\ i \notin wsStreams /\ serviceConn[i] # "open" /\ beat[i] \in {"none", "done"}
    /\ up[i] # "none" \/ down[i] # "none" => shut[i] /\ cancelled[i] # "no"

(* The parts of RelayTypeOK.                                               *)
Threads ==
  /\ wsStreams \subseteq Streams
  /\ handler \in [Streams -> Handling]
  /\ up \in [Streams -> {"none", "read", "send", "done"}]
  /\ down \in [Streams -> {"none", "select", "write", "done"}]
  /\ beat \in [Streams -> {"none", "wait", "ping", "done"}]
  /\ closing \in [Streams -> {"none", "get", "cancel", "done"}]

Resources ==
  /\ serviceConn \in [Streams -> {"none", "open", "closed"}]
  /\ shut \in [Streams -> BOOLEAN]
  /\ cancelled \in [Streams -> {"no", "ws", "request"}]
  /\ silent \in [Streams -> BOOLEAN]
  /\ answer \in [Streams -> {"none", "101", "error"}]
  /\ link \in {"up", "lost", "back"}
  /\ crashed \in BOOLEAN

Counters ==
  /\ errChan \in [Streams -> 0..ErrCapacity]
  /\ missed \in [Streams -> 0..MaxMissedPongs]
  /\ dataChan \in [Streams -> 0..ChannelCapacity]
  /\ frames \in [Streams -> [Framing -> Nat]]
  /\ taken \in [Streams -> Nat]
  /\ sent \in [Streams -> Seq(Nat)]

LEMMA RelayParts == RelayTypeOK <=> Threads /\ Resources /\ Counters
BY DEF RelayTypeOK, Threads, Resources, Counters

LEMMA ThreadsStep == RelayTypeOK /\ [RelayNext]_relayVars => Threads'
<1> SUFFICES ASSUME Threads, [RelayNext]_relayVars PROVE Threads'
  BY RelayParts
<1> USE DEF Threads, Moves, local, Handling
<1>1. ASSUME NEW i \in Streams, Gateway(i) PROVE Threads'
  <2>1. CASE Ask(i)
    BY <2>1 DEF Ask
  <2>2. CASE HandleFrame(i)
    BY <2>2 DEF HandleFrame
  <2>3. CASE HandleClose(i)
    BY <2>3 DEF HandleClose
  <2>4. QED
    BY <1>1, <2>1, <2>2, <2>3 DEF Gateway
<1>2. ASSUME NEW i \in Streams, Handler(i) PROVE Threads'
  <2>1. CASE Dial(i)
    BY <2>1 DEF Dial, HandlerOnly
  <2>2. CASE List(i)
    BY <2>2 DEF List, HandlerOnly
  <2>3. CASE Answer(i)
    BY <2>3 DEF Answer, CleanUp, HandlerOnly
  <2>4. CASE SessionEnds(i)
    BY <2>4 DEF SessionEnds, CleanUp, HandlerOnly
  <2>5. CASE HangUp(i)
    BY <2>5 DEF HangUp, HandlerOnly
  <2>6. QED
    BY <1>2, <2>1, <2>2, <2>3, <2>4, <2>5 DEF Handler
<1>3. ASSUME NEW i \in Streams, Up(i) PROVE Threads'
  <2>1. CASE ReadMessage(i)
    BY <2>1 DEF ReadMessage, UpOnly
  <2>2. CASE ServiceCloses(i)
    BY <2>2 DEF ServiceCloses, UpOnly
  <2>3. CASE ReadFails(i)
    BY <2>3 DEF ReadFails, UpOnly
  <2>4. CASE Send(i)
    BY <2>4 DEF Send, UpOnly
  <2>5. QED
    BY <1>3, <2>1, <2>2, <2>3, <2>4 DEF Up
<1>4. ASSUME NEW i \in Streams, Down(i) PROVE Threads'
  <2>1. CASE TakeFrame(i)
    BY <2>1 DEF TakeFrame, DownOnly
  <2>2. CASE WriteFrame(i)
    BY <2>2 DEF WriteFrame, DownOnly
  <2>3. CASE WriteBreaks(i)
    BY <2>3 DEF WriteBreaks, DownOnly
  <2>4. CASE WriteFails(i)
    BY <2>4 DEF WriteFails, DownOnly
  <2>5. CASE DownEnds(i)
    BY <2>5 DEF DownEnds, DownOnly
  <2>6. QED
    BY <1>4, <2>1, <2>2, <2>3, <2>4, <2>5 DEF Down
<1>5. ASSUME NEW i \in Streams, Beat(i) PROVE Threads'
  <2>1. CASE Ping(i)
    BY <2>1 DEF Ping, BeatOnly
  <2>2. CASE CheckPong(i)
    BY <2>2 DEF CheckPong, BeatOnly
  <2>3. CASE BeatEnds(i)
    BY <2>3 DEF BeatEnds, BeatOnly
  <2>4. QED
    BY <1>5, <2>1, <2>2, <2>3 DEF Beat
<1>6. ASSUME NEW i \in Streams, Closer(i) \/ Expire(i) PROVE Threads'
  <2>1. CASE FindForClose(i)
    BY <2>1 DEF FindForClose, CloserOnly
  <2>2. CASE CancelRelay(i)
    BY <2>2 DEF CancelRelay, CloserOnly
  <2>3. CASE Expire(i)
    BY <2>3 DEF Expire, CloserOnly
  <2>4. QED
    BY <1>6, <2>1, <2>2, <2>3 DEF Closer
<1>7. ASSUME NEW i \in Streams, GoSilent(i) \/ LookUp(i) \/ Put(i) PROVE Threads'
  <2>1. CASE GoSilent(i)
    BY <2>1 DEF GoSilent
  <2>2. CASE LookUp(i)
    BY <2>2 DEF LookUp, FramerOnly
  <2>3. CASE Put(i)
    BY <2>3 DEF Put, FramerOnly
  <2>4. QED
    BY <1>7, <2>1, <2>2, <2>3
<1>8. CASE LinkChanges \/ UNCHANGED relayVars
  BY <1>8 DEF LinkChanges, relayVars
<1>9. QED
  BY <1>1, <1>2, <1>3, <1>4, <1>5, <1>6, <1>7, <1>8 DEF RelayNext

LEMMA ResourcesStep == RelayTypeOK /\ [RelayNext]_relayVars => Resources'
<1> SUFFICES ASSUME Resources, [RelayNext]_relayVars PROVE Resources'
  BY RelayParts
<1> USE DEF Resources, Moves, local
<1>1. ASSUME NEW i \in Streams, Gateway(i) PROVE Resources'
  <2>1. CASE Ask(i)
    BY <2>1 DEF Ask
  <2>2. CASE HandleFrame(i)
    BY <2>2 DEF HandleFrame
  <2>3. CASE HandleClose(i)
    BY <2>3 DEF HandleClose
  <2>4. QED
    BY <1>1, <2>1, <2>2, <2>3 DEF Gateway
<1>2. ASSUME NEW i \in Streams, Handler(i) PROVE Resources'
  <2>1. CASE Dial(i)
    BY <2>1 DEF Dial, HandlerOnly
  <2>2. CASE List(i)
    BY <2>2 DEF List, HandlerOnly
  <2>3. CASE Answer(i)
    BY <2>3 DEF Answer, CleanUp, HandlerOnly
  <2>4. CASE SessionEnds(i)
    BY <2>4 DEF SessionEnds, CleanUp, HandlerOnly
  <2>5. CASE HangUp(i)
    BY <2>5 DEF HangUp, HandlerOnly
  <2>6. QED
    BY <1>2, <2>1, <2>2, <2>3, <2>4, <2>5 DEF Handler
<1>3. ASSUME NEW i \in Streams, Up(i) PROVE Resources'
  <2>1. CASE ReadMessage(i)
    BY <2>1 DEF ReadMessage, UpOnly
  <2>2. CASE ServiceCloses(i)
    BY <2>2 DEF ServiceCloses, UpOnly
  <2>3. CASE ReadFails(i)
    BY <2>3 DEF ReadFails, UpOnly
  <2>4. CASE Send(i)
    BY <2>4 DEF Send, UpOnly
  <2>5. QED
    BY <1>3, <2>1, <2>2, <2>3, <2>4 DEF Up
<1>4. ASSUME NEW i \in Streams, Down(i) PROVE Resources'
  <2>1. CASE TakeFrame(i)
    BY <2>1 DEF TakeFrame, DownOnly
  <2>2. CASE WriteFrame(i)
    BY <2>2 DEF WriteFrame, DownOnly
  <2>3. CASE WriteBreaks(i)
    BY <2>3 DEF WriteBreaks, DownOnly
  <2>4. CASE WriteFails(i)
    BY <2>4 DEF WriteFails, DownOnly
  <2>5. CASE DownEnds(i)
    BY <2>5 DEF DownEnds, DownOnly
  <2>6. QED
    BY <1>4, <2>1, <2>2, <2>3, <2>4, <2>5 DEF Down
<1>5. ASSUME NEW i \in Streams, Beat(i) PROVE Resources'
  <2>1. CASE Ping(i)
    BY <2>1 DEF Ping, BeatOnly
  <2>2. CASE CheckPong(i)
    BY <2>2 DEF CheckPong, BeatOnly
  <2>3. CASE BeatEnds(i)
    BY <2>3 DEF BeatEnds, BeatOnly
  <2>4. QED
    BY <1>5, <2>1, <2>2, <2>3 DEF Beat
<1>6. ASSUME NEW i \in Streams, Closer(i) \/ Expire(i) PROVE Resources'
  <2>1. CASE FindForClose(i)
    BY <2>1 DEF FindForClose, CloserOnly
  <2>2. CASE CancelRelay(i)
    BY <2>2 DEF CancelRelay, CloserOnly
  <2>3. CASE Expire(i)
    BY <2>3 DEF Expire, CloserOnly
  <2>4. QED
    BY <1>6, <2>1, <2>2, <2>3 DEF Closer
<1>7. ASSUME NEW i \in Streams, GoSilent(i) \/ LookUp(i) \/ Put(i) PROVE Resources'
  <2>1. CASE GoSilent(i)
    BY <2>1 DEF GoSilent
  <2>2. CASE LookUp(i)
    BY <2>2 DEF LookUp, FramerOnly
  <2>3. CASE Put(i)
    BY <2>3 DEF Put, FramerOnly
  <2>4. QED
    BY <1>7, <2>1, <2>2, <2>3
<1>8. CASE LinkChanges \/ UNCHANGED relayVars
  BY <1>8 DEF LinkChanges, relayVars
<1>9. QED
  BY <1>1, <1>2, <1>3, <1>4, <1>5, <1>6, <1>7, <1>8 DEF RelayNext

LEMMA FrameCount ==
  ASSUME NEW g \in [Framing -> Nat], NEW n \in Nat
  PROVE  /\ [g EXCEPT !.sent = n] \in [Framing -> Nat]
         /\ [g EXCEPT !.get = n] \in [Framing -> Nat]
         /\ [g EXCEPT !.put = n] \in [Framing -> Nat]
BY Zenon DEF Framing

LEMMA CountersStep == RelayTypeOK /\ [RelayNext]_relayVars => Counters'
<1> SUFFICES ASSUME RelayTypeOK, [RelayNext]_relayVars PROVE Counters'
  OBVIOUS
<1> USE RelayAssumption DEF RelayTypeOK, Counters, Moves, local, Report, ErrCapacity
<1>0. /\ \A j \in Streams : taken[j] + 1 \in Nat
      /\ \A j \in Streams : frames[j] \in [Framing -> Nat]
      /\ \A j \in Streams, f \in Framing : frames[j][f] \in Nat
  OBVIOUS
<1>a. ASSUME NEW i \in Streams, NEW g \in [Framing -> Nat]
      PROVE  [frames EXCEPT ![i] = g] \in [Streams -> [Framing -> Nat]]
  OBVIOUS
<1>b. ASSUME NEW i \in Streams, Report(i)
      PROVE  errChan' \in [Streams -> 0..ErrCapacity]
  <2>1. errChan[i] \in 0..ErrCapacity /\ errChan[i] < ErrCapacity
    BY <1>b
  <2>2. errChan[i] + 1 \in 0..ErrCapacity
    BY <2>1
  <2>3. QED
    BY <1>b, <2>2
<1>c. ASSUME NEW i \in Streams, NEW k \in 0..ChannelCapacity
      PROVE  [dataChan EXCEPT ![i] = k] \in [Streams -> 0..ChannelCapacity]
  OBVIOUS
<1>d. ASSUME NEW i \in Streams, NEW k \in 0..MaxMissedPongs
      PROVE  [missed EXCEPT ![i] = k] \in [Streams -> 0..MaxMissedPongs]
  OBVIOUS
<1>1. ASSUME NEW i \in Streams, Ask(i) \/ HandleClose(i) PROVE Counters'
  BY <1>1 DEF Ask, HandleClose
<1>2. ASSUME NEW i \in Streams, HandleFrame(i) PROVE Counters'
  <2> DEFINE n == frames[i].sent + 1
             g == [frames[i] EXCEPT !.sent = n]
             m == frames[i].get + 1
  <2>1. frames' = [frames EXCEPT ![i] = [g EXCEPT !.get = m]]
    BY Zenon, <1>2 DEF HandleFrame
  <2>2. n \in Nat /\ m \in Nat
    BY <1>0 DEF Framing
  <2> HIDE DEF n, m
  <2>3. [g EXCEPT !.get = m] \in [Framing -> Nat]
    BY <1>0, <2>2, FrameCount, Zenon
  <2> HIDE DEF g
  <2>4. frames' \in [Streams -> [Framing -> Nat]]
    BY <2>1, <2>3, <1>a, Zenon
  <2>5. QED
    BY <1>2, <2>4 DEF HandleFrame
<1>3. ASSUME NEW i \in Streams, LookUp(i) PROVE Counters'
  <2> DEFINE n == frames[i].get - 1
             g == [frames[i] EXCEPT !.get = n]
             m == IF i \in wsStreams THEN frames[i].put + 1 ELSE frames[i].put
  <2>1. frames' = [frames EXCEPT ![i] = [g EXCEPT !.put = m]]
    BY Zenon, <1>3 DEF LookUp
  <2>2. n \in Nat /\ m \in Nat
    BY <1>0, <1>3 DEF LookUp, Framing
  <2> HIDE DEF n, m
  <2>3. [g EXCEPT !.put = m] \in [Framing -> Nat]
    BY <1>0, <2>2, FrameCount, Zenon
  <2> HIDE DEF g
  <2>4. frames' \in [Streams -> [Framing -> Nat]]
    BY <2>1, <2>3, <1>a, Zenon
  <2>5. UNCHANGED <<errChan, missed, dataChan, taken, sent>>
    BY <1>3 DEF LookUp, FramerOnly
  <2>6. QED
    BY <2>4, <2>5
<1>4. ASSUME NEW i \in Streams, Put(i) PROVE Counters'
  <2> DEFINE n == frames[i].put - 1
  <2>1. frames' = [frames EXCEPT ![i] = [frames[i] EXCEPT !.put = n]]
    BY Zenon, <1>4 DEF Put
  <2>2. n \in Nat
    BY <1>0, <1>4 DEF Put, Framing
  <2> HIDE DEF n
  <2>3. [frames[i] EXCEPT !.put = n] \in [Framing -> Nat]
    BY <1>0, <2>2, FrameCount, Zenon
  <2>4. frames' \in [Streams -> [Framing -> Nat]]
    BY <2>1, <2>3, <1>a, Zenon
  <2>5. dataChan' \in [Streams -> 0..ChannelCapacity]
    <3>1. CASE UNCHANGED dataChan
      BY <3>1
    <3>2. CASE dataChan' = [dataChan EXCEPT ![i] = @ + 1] /\ dataChan[i] < ChannelCapacity
      <4>1. dataChan[i] \in 0..ChannelCapacity
        OBVIOUS
      <4>2. dataChan[i] + 1 \in 0..ChannelCapacity
        BY <3>2, <4>1
      <4>3. QED
        BY <1>c, <3>2, <4>2
    <3>3. QED
      BY <1>4, <3>1, <3>2 DEF Put
  <2>6. UNCHANGED <<errChan, missed, taken, sent>>
    BY <1>4 DEF Put, FramerOnly
  <2>7. QED
    BY <2>4, <2>5, <2>6
<1>5. ASSUME NEW i \in Streams, Handler(i) PROVE Counters'
  <2>1. CASE Dial(i)
    BY <2>1 DEF Dial, HandlerOnly
  <2>2. CASE List(i)
    BY <2>2 DEF List, HandlerOnly
  <2>3. CASE Answer(i)
    BY <2>3 DEF Answer, CleanUp, HandlerOnly
  <2>4. CASE SessionEnds(i)
    <3>1. errChan' \in [Streams -> 0..ErrCapacity]
      <4>1. errChan[i] \in 0..ErrCapacity
        OBVIOUS
      <4>2. CASE errChan[i] > 0 /\ errChan' = [errChan EXCEPT ![i] = @ - 1]
        <5>1. errChan[i] - 1 \in 0..ErrCapacity
          BY <4>1, <4>2
        <5>2. QED
          BY <4>2, <5>1
      <4>3. CASE UNCHANGED errChan
        BY <4>3
      <4>4. QED
        BY <2>4, <4>2, <4>3 DEF SessionEnds
    <3>2. UNCHANGED <<missed, dataChan, frames, taken, sent>>
      BY <2>4 DEF SessionEnds, HandlerOnly
    <3>3. QED
      BY <3>1, <3>2
  <2>5. CASE HangUp(i)
    BY <2>5 DEF HangUp, HandlerOnly
  <2>6. QED
    BY <1>5, <2>1, <2>2, <2>3, <2>4, <2>5 DEF Handler
<1>6. ASSUME NEW i \in Streams, Up(i) PROVE Counters'
  <2>1. CASE ReadMessage(i)
    BY <1>0, <2>1 DEF ReadMessage, UpOnly
  <2>2. CASE ServiceCloses(i) \/ ReadFails(i)
    <3>1. /\ errChan' \in [Streams -> 0..ErrCapacity]
          /\ UNCHANGED <<missed, dataChan, frames, taken, sent>>
      BY <1>b, <2>2, Zenon DEF ServiceCloses, ReadFails, UpOnly
    <3>2. QED
      BY <3>1
  <2>3. CASE Send(i)
    <3>1. sent[i] \in Seq(Nat) /\ taken[i] \in Nat
      OBVIOUS
    <3>2. Append(sent[i], taken[i]) \in Seq(Nat)
      BY <3>1, AppendProperties
    <3>3. [sent EXCEPT ![i] = Append(@, taken[i])] \in [Streams -> Seq(Nat)]
      BY <3>2
    <3>4. /\ sent' = [sent EXCEPT ![i] = Append(@, taken[i])] \/ UNCHANGED sent
          /\ UNCHANGED errChan \/ Report(i)
          /\ UNCHANGED <<missed, dataChan, frames, taken>>
      BY <2>3, Zenon DEF Send, UpOnly
    <3>5. sent' \in [Streams -> Seq(Nat)]
      BY <3>3, <3>4
    <3>6. errChan' \in [Streams -> 0..ErrCapacity]
      BY <1>b, <3>4
    <3>7. QED
      BY <3>4, <3>5, <3>6
  <2>4. QED
    BY <1>6, <2>1, <2>2, <2>3 DEF Up
<1>7. ASSUME NEW i \in Streams, Down(i) PROVE Counters'
  <2>1. /\ UNCHANGED errChan \/ Report(i)
        /\ \/ UNCHANGED dataChan
           \/ dataChan[i] > 0 /\ dataChan' = [dataChan EXCEPT ![i] = @ - 1]
        /\ UNCHANGED <<missed, frames, taken, sent>>
    <3>1. CASE TakeFrame(i)
      BY <3>1, Zenon DEF TakeFrame, DownOnly
    <3>2. CASE WriteFrame(i)
      BY <3>2, Zenon DEF WriteFrame, DownOnly
    <3>3. CASE WriteBreaks(i) \/ WriteFails(i)
      BY <3>3, Zenon DEF WriteBreaks, WriteFails, DownOnly
    <3>4. CASE DownEnds(i)
      BY <3>4, Zenon DEF DownEnds, DownOnly
    <3>5. QED
      BY <1>7, <3>1, <3>2, <3>3, <3>4 DEF Down
  <2>2. errChan' \in [Streams -> 0..ErrCapacity]
    BY <1>b, <2>1
  <2>3. dataChan[i] \in 0..ChannelCapacity
    OBVIOUS
  <2>4. dataChan[i] > 0 => dataChan[i] - 1 \in 0..ChannelCapacity
    BY <2>3
  <2>5. dataChan' \in [Streams -> 0..ChannelCapacity]
    <3>1. CASE UNCHANGED dataChan
      BY <3>1
    <3>2. CASE dataChan[i] > 0 /\ dataChan' = [dataChan EXCEPT ![i] = @ - 1]
      BY <1>c, <2>4, <3>2
    <3>3. QED
      BY <2>1, <3>1, <3>2
  <2>6. QED
    BY <2>1, <2>2, <2>5
<1>8. ASSUME NEW i \in Streams, Beat(i) PROVE Counters'
  <2>1. /\ \/ UNCHANGED missed
           \/ missed' = [missed EXCEPT ![i] = 0]
           \/ missed[i] + 1 < MaxMissedPongs /\ missed' = [missed EXCEPT ![i] = @ + 1]
           \/ missed' = [missed EXCEPT ![i] = MaxMissedPongs]
        /\ UNCHANGED <<errChan, dataChan, frames, taken, sent>>
    <3>1. CASE Ping(i) \/ BeatEnds(i)
      BY <3>1, Zenon DEF Ping, BeatEnds, BeatOnly
    <3>2. CASE CheckPong(i)
      BY <3>2, Zenon DEF CheckPong, BeatOnly
    <3>3. QED
      BY <1>8, <3>1, <3>2 DEF Beat
  <2>2. missed[i] \in 0..MaxMissedPongs
    OBVIOUS
  <2>3. /\ 0 \in 0..MaxMissedPongs /\ MaxMissedPongs \in 0..MaxMissedPongs
        /\ missed[i] + 1 < MaxMissedPongs => missed[i] + 1 \in 0..MaxMissedPongs
    BY <2>2
  <2>4. missed' \in [Streams -> 0..MaxMissedPongs]
    <3>1. CASE UNCHANGED missed
      BY <3>1
    <3>2. CASE missed' = [missed EXCEPT ![i] = 0]
      BY <1>d, <2>3, <3>2
    <3>3. CASE missed[i] + 1 < MaxMissedPongs /\ missed' = [missed EXCEPT ![i] = @ + 1]
      BY <1>d, <2>3, <3>3
    <3>4. CASE missed' = [missed EXCEPT ![i] = MaxMissedPongs]
      BY <1>d, <2>3, <3>4
    <3>5. QED
      BY <2>1, <3>1, <3>2, <3>3, <3>4
  <2>5. QED
    BY <2>1, <2>4
<1>9. ASSUME NEW i \in Streams, Closer(i) \/ Expire(i) \/ GoSilent(i)
      PROVE  Counters'
  BY <1>9 DEF Closer, FindForClose, CancelRelay, Expire, CloserOnly, GoSilent
<1>10. CASE LinkChanges \/ UNCHANGED relayVars
  BY <1>10 DEF LinkChanges, relayVars
<1>11. QED
  BY <1>1, <1>2, <1>3, <1>4, <1>5, <1>6, <1>7, <1>8, <1>9, <1>10
     DEF RelayNext, Gateway

LEMMA RelayTypesInit == RelayInit => RelayTypeOK
<1> SUFFICES ASSUME RelayInit PROVE RelayTypeOK
  OBVIOUS
<1> USE RelayAssumption DEF RelayInit
<1>1. [f \in Framing |-> 0] \in [Framing -> Nat] /\ <<>> \in Seq(Nat)
  OBVIOUS
<1>2. frames \in [Streams -> [Framing -> Nat]]
  BY <1>1, Zenon
<1>3. shut \in [Streams -> BOOLEAN] /\ silent \in [Streams -> BOOLEAN]
  OBVIOUS
<1>4. Threads /\ Resources
  BY <1>3 DEF Threads, Resources, Handling
<1>5. Counters
  BY <1>2 DEF Counters, ErrCapacity
<1>6. QED
  BY <1>4, <1>5, RelayParts

(* Every variable of AppRelay stays in its range, for any streams, any     *)
(* capacity and any number of frames.                                      *)
THEOREM RelayTypes == RelaySpec => []RelayTypeOK
<1>1. RelayTypeOK /\ [RelayNext]_relayVars => RelayTypeOK'
  <2>1. RelayTypeOK /\ [RelayNext]_relayVars
          => Threads' /\ Resources' /\ Counters'
    BY ThreadsStep, ResourcesStep, CountersStep
  <2>2. Threads' /\ Resources' /\ Counters' => RelayTypeOK'
    BY DEF RelayTypeOK, Threads, Resources, Counters
  <2>3. QED
    BY <2>1, <2>2
<1>2. QED
  BY RelayTypesInit, <1>1, PTL DEF RelaySpec

-----------------------------------------------------------------------------
(* A step keeps what a handler has to do and what it leaves behind.        *)
Lifecycle == RelaysStart /\ Entries /\ Dialled /\ CleanedUp /\ NothingHeld

LEMMA LifecycleStep ==
  RelayTypeOK /\ Lifecycle /\ [RelayNext]_relayVars => Lifecycle'
<1> SUFFICES ASSUME RelayTypeOK, Lifecycle, [RelayNext]_relayVars
             PROVE  Lifecycle'
  OBVIOUS
<1>0. Threads /\ Resources
  BY RelayParts
<1> USE DEF Threads, Resources, Handling, Moves, local, Lifecycle, RelaysStart,
        Entries, Dialled, CleanedUp, NothingHeld
<1>1. ASSUME NEW i \in Streams, Gateway(i) PROVE Lifecycle'
  BY <1>0, <1>1 DEF Gateway, Ask, HandleFrame, HandleClose
<1>2. ASSUME NEW i \in Streams, Handler(i) PROVE Lifecycle'
  <2>1. CASE Dial(i)
    BY <1>0, <2>1 DEF Dial, HandlerOnly
  <2>2. CASE List(i)
    BY <1>0, <2>2 DEF List, HandlerOnly
  <2>3. CASE Answer(i)
    BY <1>0, <2>3 DEF Answer, CleanUp, HandlerOnly
  <2>4. CASE SessionEnds(i)
    BY <1>0, <2>4 DEF SessionEnds, CleanUp, HandlerOnly
  <2>5. CASE HangUp(i)
    BY <1>0, <2>5 DEF HangUp, HandlerOnly
  <2>6. QED
    BY <1>2, <2>1, <2>2, <2>3, <2>4, <2>5 DEF Handler
<1>3. ASSUME NEW i \in Streams, Up(i) PROVE Lifecycle'
  <2>1. /\ up[i] # "none" /\ \E x : up' = [up EXCEPT ![i] = x]
        /\ UNCHANGED <<wsStreams, handler, serviceConn, down, beat, shut, cancelled>>
    BY <1>3, Zenon DEF Up, ReadMessage, ServiceCloses, ReadFails, Send, UpOnly
  <2>2. QED
    BY <1>0, <2>1
<1>4. ASSUME NEW i \in Streams, Down(i) PROVE Lifecycle'
  <2>1. /\ down[i] # "none" /\ \E x : down' = [down EXCEPT ![i] = x]
        /\ UNCHANGED <<wsStreams, handler, serviceConn, up, beat, shut, cancelled>>
    BY <1>4, Zenon DEF Down, TakeFrame, WriteFrame, WriteBreaks, WriteFails,
       DownEnds, DownOnly
  <2>2. QED
    BY <1>0, <2>1
<1>5. ASSUME NEW i \in Streams, Beat(i) PROVE Lifecycle'
  <2>1. CASE Ping(i)
    BY <1>0, <2>1 DEF Ping, BeatOnly
  <2>2. CASE CheckPong(i)
    <3>1. /\ beat[i] = "ping" /\ beat' = [beat EXCEPT ![i] = "wait"]
          /\ UNCHANGED serviceConn \/ serviceConn' = [serviceConn EXCEPT ![i] = "closed"]
          /\ UNCHANGED <<wsStreams, handler, up, down, shut, cancelled>>
      BY <2>2, Zenon DEF CheckPong, BeatOnly
    <3>2. QED
      BY <1>0, <3>1
  <2>3. CASE BeatEnds(i)
    BY <1>0, <2>3 DEF BeatEnds, BeatOnly
  <2>4. QED
    BY <1>5, <2>1, <2>2, <2>3 DEF Beat
<1>6. ASSUME NEW i \in Streams, Closer(i) \/ Expire(i) PROVE Lifecycle'
  BY <1>0, <1>6 DEF Closer, FindForClose, CancelRelay, Expire, CloserOnly
<1>7. ASSUME NEW i \in Streams, GoSilent(i) \/ LookUp(i) \/ Put(i)
      PROVE  Lifecycle'
  BY <1>0, <1>7 DEF GoSilent, LookUp, Put, FramerOnly
<1>8. CASE LinkChanges \/ UNCHANGED relayVars
  BY <1>0, <1>8 DEF LinkChanges, relayVars
<1>9. QED
  BY <1>1, <1>2, <1>3, <1>4, <1>5, <1>6, <1>7, <1>8 DEF RelayNext

-----------------------------------------------------------------------------
(* What is sent to the gateway grows only by the frame in hand.            *)
LEMMA FrameSent ==
  ASSUME RelayTypeOK, NEW i \in Streams,
         sent' = [sent EXCEPT ![i] = Append(@, taken[i])]
  PROVE  /\ Len(sent[i]) \in Nat /\ Len(sent'[i]) = Len(sent[i]) + 1
         /\ \A k \in 1..Len(sent[i]) : sent'[i][k] = sent[i][k]
         /\ sent'[i][Len(sent[i]) + 1] = taken[i]
         /\ \A j \in Streams : j # i => sent'[j] = sent[j]
<1> DEFINE s == Append(sent[i], taken[i])
<1>1. sent[i] \in Seq(Nat) /\ taken[i] \in Nat /\ sent \in [Streams -> Seq(Nat)]
  BY DEF RelayTypeOK
<1>2. /\ s \in Seq(Nat) /\ Len(s) = Len(sent[i]) + 1 /\ Len(sent[i]) \in Nat
      /\ \A k \in 1..Len(sent[i]) : s[k] = sent[i][k]
      /\ s[Len(sent[i]) + 1] = taken[i]
  BY <1>1, AppendProperties
<1> HIDE DEF s
<1>3. sent' = [sent EXCEPT ![i] = s]
  BY DEF s
<1>4. sent'[i] = s /\ \A j \in Streams : j # i => sent'[j] = sent[j]
  BY <1>1, <1>3
<1>5. QED
  BY <1>2, <1>4

RelayInv == /\ RelayTypeOK /\ Lifecycle /\ FramesRelayed /\ RepliesInOrder

LEMMA RepliesStep ==
  RelayInv /\ [RelayNext]_relayVars => FramesRelayed' /\ RepliesInOrder'
<1> SUFFICES ASSUME RelayInv, [RelayNext]_relayVars
             PROVE  FramesRelayed' /\ RepliesInOrder'
  OBVIOUS
<1>0. /\ RelayTypeOK /\ Threads /\ taken \in [Streams -> Nat]
      /\ \A j \in Streams : Len(sent[j]) \in Nat
      /\ RelaysStart /\ FramesRelayed /\ RepliesInOrder
  BY RelayParts DEF RelayInv, Counters, Lifecycle
<1> USE DEF Threads, Handling, RelaysStart, FramesRelayed, RepliesInOrder, Moves,
        local
<1>1. ASSUME NEW i \in Streams, up' = [up EXCEPT ![i] = "done"],
             UNCHANGED <<sent, taken, handler>>
      PROVE  FramesRelayed' /\ RepliesInOrder'
  BY <1>0, <1>1
<1>2. ASSUME NEW i \in Streams, up[i] = "send", up' = [up EXCEPT ![i] = "read"],
             sent' = [sent EXCEPT ![i] = Append(@, taken[i])], UNCHANGED taken
      PROVE  FramesRelayed' /\ RepliesInOrder'
  <2>1. /\ Len(sent'[i]) = Len(sent[i]) + 1 /\ taken[i] = Len(sent[i]) + 1
        /\ \A k \in 1..Len(sent[i]) : sent'[i][k] = sent[i][k]
        /\ sent'[i][Len(sent[i]) + 1] = taken[i]
        /\ \A j \in Streams : j # i => sent'[j] = sent[j]
    BY <1>0, <1>2, FrameSent
  <2>2. FramesRelayed'
    BY <1>0, <1>2, <2>1
  <2>3. ASSUME NEW k \in 1..Len(sent'[i]) PROVE sent'[i][k] = k
    <3>1. k \in 1..Len(sent[i]) \/ k = Len(sent[i]) + 1
      BY <1>0, <2>1
    <3>2. QED
      BY <1>0, <2>1, <3>1
  <2>4. QED
    BY <1>0, <2>1, <2>2, <2>3
<1>3. ASSUME NEW i \in Streams, Up(i) PROVE FramesRelayed' /\ RepliesInOrder'
  <2>1. CASE ReadMessage(i)
    BY <1>0, <2>1 DEF ReadMessage, UpOnly
  <2>2. CASE ServiceCloses(i) \/ ReadFails(i)
    BY <1>0, <2>2 DEF ServiceCloses, ReadFails, UpOnly
  <2>3. CASE Send(i)
    BY <1>1, <1>2, <2>3 DEF Send, UpOnly
  <2>4. QED
    BY <1>3, <2>1, <2>2, <2>3 DEF Up
<1>4. ASSUME NEW i \in Streams, Handler(i) PROVE FramesRelayed' /\ RepliesInOrder'
  BY <1>0, <1>4 DEF Handler, Dial, List, Answer, SessionEnds, HangUp, HandlerOnly
<1>5. ASSUME NEW i \in Streams, Gateway(i) \/ Closer(i) \/ Expire(i)
      PROVE  FramesRelayed' /\ RepliesInOrder'
  BY <1>0, <1>5 DEF Gateway, Ask, HandleFrame, HandleClose, Closer, FindForClose,
     CancelRelay, Expire, CloserOnly
<1>6. ASSUME NEW i \in Streams, Down(i) \/ Beat(i)
      PROVE  FramesRelayed' /\ RepliesInOrder'
  BY <1>0, <1>6 DEF Down, TakeFrame, WriteFrame, WriteBreaks, WriteFails,
     DownEnds, DownOnly, Beat, Ping, CheckPong, BeatEnds, BeatOnly
<1>7. ASSUME NEW i \in Streams, GoSilent(i) \/ LookUp(i) \/ Put(i)
      PROVE  FramesRelayed' /\ RepliesInOrder'
  BY <1>0, <1>7 DEF GoSilent, LookUp, Put, FramerOnly
<1>8. CASE LinkChanges \/ UNCHANGED relayVars
  BY <1>0, <1>8 DEF LinkChanges, relayVars
<1>9. QED
  BY <1>3, <1>4, <1>5, <1>6, <1>7, <1>8 DEF RelayNext

THEOREM RelayInvariance == RelaySpec => []RelayInv
<1>1. RelayInit => RelayInv
  <2> SUFFICES ASSUME RelayInit PROVE RelayInv
    OBVIOUS
  <2>1. RelayTypeOK
    BY RelayTypesInit
  <2>2. Len(<<>>) = 0 /\ \A i \in Streams : sent[i] = <<>> /\ taken[i] = 0
    BY DEF RelayInit
  <2>3. Lifecycle
    BY DEF RelayInit, Lifecycle, RelaysStart, Entries, Dialled, CleanedUp,
       NothingHeld
  <2>4. FramesRelayed /\ RepliesInOrder
    BY <2>2 DEF RelayInit, FramesRelayed, RepliesInOrder
  <2>5. QED
    BY <2>1, <2>3, <2>4 DEF RelayInv
<1>2. RelayInv /\ [RelayNext]_relayVars => RelayInv'
  <2>1. RelayInv /\ [RelayNext]_relayVars
          => Threads' /\ Resources' /\ Counters' /\ Lifecycle'
    BY ThreadsStep, ResourcesStep, CountersStep, LifecycleStep DEF RelayInv
  <2>2. Threads' /\ Resources' /\ Counters' => RelayTypeOK'
    BY DEF RelayTypeOK, Threads, Resources, Counters
  <2>3. QED
    BY <2>1, <2>2, RepliesStep DEF RelayInv
<1>3. QED
  BY <1>1, <1>2, PTL DEF RelaySpec

(* The frames the gateway gets are those of the service, in order and      *)
(* without a hole, through a lost link and every way to end: the relay of  *)
(* handleWebSocketProxy ends rather than skip a frame it cannot send.      *)
THEOREM RelayRepliesInOrder == RelaySpec => []RepliesInOrder
<1>1. RelayInv => RepliesInOrder
  BY DEF RelayInv
<1>2. QED
  BY RelayInvariance, <1>1, PTL

(* When handleWebSocketProxy has returned, its entry is gone from          *)
(* wsStreams, the service's connection is closed, the heartbeat has ended, *)
(* and a relay that still runs finds its channel closed and its context    *)
(* cancelled: all that Unwinds needs besides fairness.                     *)
THEOREM HandlerLeavesNothing == RelaySpec => []NothingHeld
<1>1. RelayInv => NothingHeld
  BY DEF RelayInv, Lifecycle
<1>2. QED
  BY RelayInvariance, <1>1, PTL

-----------------------------------------------------------------------------
(* From a dial that went well on, a stream has a connection, open or       *)
(* closed, and a heartbeat exists only beside one.                         *)
Connected ==
  \A i \in Streams :
    handler[i] \in {"list", "answer", "wait", "stop"} \/ beat[i] # "none"
      => serviceConn[i] # "none"

LEMMA ConnectedStep ==
  RelayInv /\ Connected /\ [RelayNext]_relayVars => Connected'
<1> SUFFICES ASSUME RelayInv, Connected, [RelayNext]_relayVars PROVE Connected'
  OBVIOUS
<1>0. Threads /\ Resources
  BY RelayParts DEF RelayInv
<1> USE DEF Threads, Resources, Handling, Moves, local, Connected
<1>1. ASSUME NEW i \in Streams, Handler(i) PROVE Connected'
  <2>1. CASE Dial(i)
    BY <1>0, <2>1 DEF Dial, HandlerOnly
  <2>2. CASE List(i)
    BY <1>0, <2>2 DEF List, HandlerOnly
  <2>3. CASE Answer(i)
    BY <1>0, <2>3 DEF Answer, HandlerOnly
  <2>4. CASE SessionEnds(i)
    BY <1>0, <2>4 DEF SessionEnds, HandlerOnly
  <2>5. CASE HangUp(i)
    BY <1>0, <2>5 DEF HangUp, HandlerOnly
  <2>6. QED
    BY <1>1, <2>1, <2>2, <2>3, <2>4, <2>5 DEF Handler
<1>2. ASSUME NEW i \in Streams, Beat(i) PROVE Connected'
  <2>1. /\ beat[i] # "none" /\ \E x : beat' = [beat EXCEPT ![i] = x]
        /\ UNCHANGED serviceConn \/ serviceConn' = [serviceConn EXCEPT ![i] = "closed"]
        /\ UNCHANGED handler
    BY <1>2, Zenon DEF Beat, Ping, CheckPong, BeatEnds, BeatOnly
  <2>2. QED
    BY <1>0, <2>1
<1>3. ASSUME NEW i \in Streams, Gateway(i) PROVE Connected'
  BY <1>0, <1>3 DEF Gateway, Ask, HandleFrame, HandleClose
<1>4. ASSUME NEW i \in Streams,
             \/ Up(i) \/ Down(i) \/ Closer(i) \/ Expire(i) \/ GoSilent(i)
             \/ LookUp(i) \/ Put(i)
      PROVE  UNCHANGED <<handler, serviceConn, beat>>
  BY <1>4, Zenon DEF Up, ReadMessage, ServiceCloses, ReadFails, Send, UpOnly,
     Down, TakeFrame, WriteFrame, WriteBreaks, WriteFails, DownEnds, DownOnly,
     Closer, FindForClose, CancelRelay, Expire, CloserOnly, GoSilent, LookUp,
     Put, FramerOnly, local
<1>5. CASE LinkChanges \/ UNCHANGED relayVars
  BY <1>0, <1>5 DEF LinkChanges, relayVars
<1>6. ASSUME UNCHANGED <<handler, serviceConn, beat>> PROVE Connected'
  BY <1>6
<1>7. QED
  BY <1>1, <1>2, <1>3, <1>4, <1>5, <1>6 DEF RelayNext

LEMMA ConnectedAlways == RelaySpec => []Connected
<1>1. RelayInit => Connected
  BY DEF RelayInit, Connected
<1>2. QED
  BY <1>1, RelayInvariance, ConnectedStep, PTL DEF RelaySpec

(* What ServiceRelay sees of stream i.                                     *)
LEMMA Unseen ==
  ASSUME NEW i \in Streams, i \in wsStreams' <=> i \in wsStreams,
         handler'[i] = handler[i], serviceConn'[i] = serviceConn[i],
         up'[i] = up[i], taken'[i] = taken[i], sent'[i] = sent[i]
  PROVE  UNCHANGED Life(i)!relay
BY DEF Life!relay, Entry, Reading

(* A step of another stream is not seen.                                   *)
LEMMA OthersUnseen ==
  ASSUME RelayInv, NEW i \in Streams, NEW j \in Streams, j # i,
         \/ Gateway(j) \/ Handler(j) \/ Up(j) \/ Down(j) \/ Beat(j)
         \/ Closer(j) \/ Expire(j) \/ GoSilent(j) \/ LookUp(j) \/ Put(j)
  PROVE  UNCHANGED Life(i)!relay
<1> DEFINE Same == /\ i \in wsStreams' <=> i \in wsStreams
                   /\ handler'[i] = handler[i]
                   /\ serviceConn'[i] = serviceConn[i]
                   /\ up'[i] = up[i] /\ taken'[i] = taken[i]
                   /\ sent'[i] = sent[i]
<1>0. SUFFICES Same
  BY Unseen
<1>1. /\ Threads /\ Resources
      /\ taken \in [Streams -> Nat] /\ sent \in [Streams -> Seq(Nat)]
  BY RelayParts DEF RelayInv, Counters
<1> USE DEF Threads, Resources, Moves, local
<1>2. CASE Gateway(j)
  BY <1>1, <1>2 DEF Gateway, Ask, HandleFrame, HandleClose
<1>3. CASE Handler(j)
  <2>1. CASE Dial(j)
    BY <1>1, <2>1 DEF Dial, HandlerOnly
  <2>2. CASE List(j)
    BY <1>1, <2>2 DEF List, HandlerOnly
  <2>3. CASE Answer(j)
    BY <1>1, <2>3 DEF Answer, CleanUp, HandlerOnly
  <2>4. CASE SessionEnds(j)
    BY <1>1, <2>4 DEF SessionEnds, CleanUp, HandlerOnly
  <2>5. CASE HangUp(j)
    BY <1>1, <2>5 DEF HangUp, HandlerOnly
  <2>6. QED
    BY <1>3, <2>1, <2>2, <2>3, <2>4, <2>5 DEF Handler
<1>4. CASE Up(j)
  <2>1. CASE ReadMessage(j)
    BY <1>1, <2>1 DEF ReadMessage, UpOnly
  <2>2. CASE ServiceCloses(j) \/ ReadFails(j)
    BY <1>1, <2>2 DEF ServiceCloses, ReadFails, UpOnly
  <2>3. CASE Send(j)
    BY <1>1, <2>3 DEF Send, UpOnly
  <2>4. QED
    BY <1>4, <2>1, <2>2, <2>3 DEF Up
<1>5. CASE Down(j)
  <2>1. UNCHANGED <<wsStreams, handler, serviceConn, up, taken, sent>>
    BY <1>5, Zenon DEF Down, TakeFrame, WriteFrame, WriteBreaks, WriteFails,
       DownEnds, DownOnly
  <2>2. QED
    BY <2>1
<1>6. CASE Beat(j)
  <2>1. /\ UNCHANGED serviceConn \/ serviceConn' = [serviceConn EXCEPT ![j] = "closed"]
        /\ UNCHANGED <<wsStreams, handler, up, taken, sent>>
    BY <1>6, Zenon DEF Beat, Ping, CheckPong, BeatEnds, BeatOnly
  <2>2. QED
    BY <1>1, <2>1
<1>7. CASE Closer(j) \/ Expire(j) \/ GoSilent(j) \/ LookUp(j) \/ Put(j)
  BY <1>1, <1>7 DEF Closer, FindForClose, CancelRelay, Expire, CloserOnly,
     GoSilent, LookUp, Put, FramerOnly
<1>8. QED
  BY <1>2, <1>3, <1>4, <1>5, <1>6, <1>7

(* A step of stream i is one of ServiceRelay or is not seen.               *)
LEMMA LifeStep ==
  ASSUME RelayInv, Connected, [RelayNext]_relayVars, NEW i \in Streams
  PROVE  [Life(i)!Next]_(Life(i)!relay)
<1>0. /\ Threads /\ Resources
      /\ taken \in [Streams -> Nat] /\ sent \in [Streams -> Seq(Nat)]
  BY RelayParts DEF RelayInv, Counters
<1>1. /\ handler[i] \in {"none", "dial", "list", "answer"} => up[i] = "none"
      /\ i \in wsStreams <=> handler[i] \in {"answer", "wait"}
      /\ handler[i] \in {"none", "dial"} => serviceConn[i] = "none"
      /\ up[i] # "none" /\ cancelled[i] = "no" => handler[i] = "wait"
  BY <1>0 DEF RelayInv, Lifecycle, RelaysStart, Entries, Dialled, CleanedUp,
     NothingHeld, Threads, Handling
<1>2. /\ up[i] = "read" => taken[i] = Len(sent[i])
      /\ up[i] = "send" => taken[i] = Len(sent[i]) + 1
      /\ handler[i] \in {"list", "answer", "wait", "stop"} \/ beat[i] # "none"
           => serviceConn[i] \in {"open", "closed"}
  BY <1>0 DEF RelayInv, FramesRelayed, Connected, Resources
<1> USE DEF Threads, Resources, Handling, Moves, local
<1>3. CASE Gateway(i)
  <2>1. CASE Ask(i)
    BY <1>0, <1>1, <2>1 DEF Ask, Entry, Reading, Life!relay
  <2>2. CASE HandleFrame(i) \/ HandleClose(i)
    BY <2>2, Unseen DEF HandleFrame, HandleClose
  <2>3. QED
    BY <1>3, <2>1, <2>2 DEF Gateway
<1>4. CASE Dial(i)
  BY <1>0, <1>1, <1>4 DEF Dial, HandlerOnly, Entry, Reading, Life!Next,
     Life!Dial, Life!relay
<1>5. CASE List(i)
  BY <1>0, <1>1, <1>2, <1>5 DEF List, HandlerOnly, Entry, Reading, Life!Next,
     Life!List
<1>6. CASE Answer(i)
  <2>1. CASE Linked
    BY <1>0, <1>1, <1>6, <2>1 DEF Answer, HandlerOnly, Entry, Reading, Life!Next,
       Life!Serve
  <2>2. CASE ~Linked
    BY <1>0, <1>1, <1>2, <1>6, <2>2 DEF Answer, CleanUp, HandlerOnly, Entry,
       Reading, Life!Next, Life!Unlist
  <2>3. QED
    BY <2>1, <2>2
<1>7. CASE SessionEnds(i)
  BY <1>0, <1>1, <1>2, <1>7 DEF SessionEnds, CleanUp, HandlerOnly, Entry,
     Reading, Life!Next, Life!Unlist
<1>8. CASE HangUp(i)
  BY <1>0, <1>1, <1>2, <1>8 DEF HangUp, HandlerOnly, Entry, Reading, Life!Next,
     Life!HangUp, Life!relay
<1>9. CASE ReadMessage(i)
  BY <1>0, <1>2, <1>9 DEF ReadMessage, UpOnly, Entry, Reading, Life!Next, Life!Read
<1>10. CASE ServiceCloses(i) \/ ReadFails(i)
  BY <1>0, <1>10 DEF ServiceCloses, ReadFails, UpOnly, Entry, Reading,
     Life!Next, Life!Return
<1>11. CASE Send(i)
  <2>1. CASE Linked /\ cancelled[i] = "no"
    BY <1>0, <1>1, <1>2, <1>11, <2>1 DEF Send, UpOnly, Entry, Reading,
       Life!Next, Life!Pass
  <2>2. CASE ~Linked \/ cancelled[i] # "no"
    BY <1>0, <1>11, <2>2 DEF Send, UpOnly, Entry, Reading, Life!Next, Life!Return
  <2>3. QED
    BY <2>1, <2>2
<1>12. CASE Down(i)
  <2>1. UNCHANGED <<wsStreams, handler, serviceConn, up, taken, sent>>
    BY <1>12, Zenon DEF Down, TakeFrame, WriteFrame, WriteBreaks, WriteFails,
       DownEnds, DownOnly
  <2>2. QED
    BY <2>1, Unseen
<1>13. CASE Beat(i)
  <2>1. CASE Ping(i) \/ BeatEnds(i)
    BY <2>1, Unseen DEF Ping, BeatEnds, BeatOnly
  <2>2. CASE CheckPong(i)
    BY <1>0, <1>2, <2>2 DEF CheckPong, BeatOnly, Entry, Reading, Life!Next,
       Life!HangUp, Life!relay
  <2>3. QED
    BY <1>13, <2>1, <2>2 DEF Beat
<1>14. CASE Closer(i) \/ Expire(i) \/ GoSilent(i) \/ LookUp(i) \/ Put(i)
  BY <1>14, Unseen DEF Closer, FindForClose, CancelRelay, Expire, CloserOnly,
     GoSilent, LookUp, Put, FramerOnly
<1>15. CASE LinkChanges \/ UNCHANGED relayVars
  BY <1>15, Unseen DEF LinkChanges, relayVars
<1>16. QED
  BY <1>3, <1>4, <1>5, <1>6, <1>7, <1>8, <1>9, <1>10, <1>11, <1>12, <1>13,
     <1>14, <1>15, OthersUnseen DEF RelayNext, Handler, Up

(* Every WebSocket of an application, however it ends, is one life of a    *)
(* ServiceRelay (handleWebSocketProxy, its relays and its heartbeat): the  *)
(* gateway is sent nothing of a stream that has left wsStreams.            *)
THEOREM EachStreamOnce == RelaySpec => OneLife
<1>1. RelayInit => \A i \in Streams : Life(i)!Init
  BY DEF RelayInit, Life!Init, Entry, Reading
<1>2. RelayInv /\ Connected /\ [RelayNext]_relayVars
        => \A i \in Streams : [Life(i)!Next]_(Life(i)!relay)
  BY LifeStep
<1>3. QED
  BY <1>1, <1>2, RelayInvariance, ConnectedAlways, PTL DEF RelaySpec, OneLife

(* The same, stream by stream.                                             *)
THEOREM StreamImplementsServiceRelay ==
  ASSUME NEW i \in Streams PROVE RelaySpec => Life(i)!Spec
<1>1. RelayInit => Life(i)!Init
  BY DEF RelayInit, Life!Init, Entry, Reading
<1>2. RelayInv /\ Connected /\ [RelayNext]_relayVars
        => [Life(i)!Next]_(Life(i)!relay)
  BY LifeStep
<1>3. QED
  BY <1>1, <1>2, RelayInvariance, ConnectedAlways, PTL DEF RelaySpec, Life!Spec
==============================================================================
