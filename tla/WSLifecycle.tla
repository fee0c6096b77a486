----------------------------- MODULE WSLifecycle -----------------------------
(***************************************************************************)
(* The life of one WebSocketClient (internal/controlplane/                 *)
(* websocket_client.go): the goroutines that read, ping, reconnect and     *)
(* close the control connection, and the fields they share.                *)
(*                                                                         *)
(* Every successful dial yields a connection number k and starts two       *)
(* goroutines: reader k (readMessages) and pinger k (pingHandler).  Both   *)
(* re-read the shared field c.conn, so reader k and pinger k may end up    *)
(* working on a later connection than the one they were started for.       *)
(* Whoever sees a failure calls reconnect(), which starts a reconnectLoop  *)
(* goroutine behind an atomic compare-and-swap.                            *)
(*                                                                         *)
(* What a message does, and the yamux client, are other modules.  Here the *)
(* reader is in handleMessage for as long as that takes, which may be for  *)
(* ever: a body chunk is written into a pipe nobody may be reading.        *)
(***************************************************************************)
EXTENDS Naturals, FiniteSets

CONSTANTS
  MaxDials,   \* bound: successful dials in a behaviour
  Loops,      \* goroutine slots for reconnectLoop (two are enough to overlap)
  Owner       \* the caller of the first Connect

ASSUME LifecycleAssumption ==
  /\ MaxDials \in Nat \ {0}
  /\ Owner \notin Loops

Conn    == 1..MaxDials
NoConn  == 0
Dialers == Loops \cup {Owner}

VARIABLES
  conn,          \* what the network makes of each dialed connection
  cur,           \* the field c.conn
  connected,     \* the field c.connected, behind IsConnected()
  reconnecting,  \* the atomic flag c.reconnecting
  ctxDone,       \* c.ctx is cancelled
  rpc, rat,      \* reader k: where it is, the connection it reads
  ppc, pat,      \* pinger k: where it is, the connection it pings
  dpc, dat,      \* dialer d: where it is, the connection it got
  closer,        \* the goroutine in Close()
  rejected       \* the last reconnectLoop ended on a 401 or 403

vars == <<conn, cur, connected, reconnecting, ctxDone,
          rpc, rat, ppc, pat, dpc, dat, closer, rejected>>

readerVars == <<rpc, rat>>
pingerVars == <<ppc, pat>>
dialerVars == <<dpc, dat>>

(* "half": our writes fail while the read side still delivers.             *)
ConnStates   == {"unused", "up", "half", "down", "closed"}
ReaderStates == {"none", "top", "read", "handle", "failed", "retry", "done"}
PingerStates == {"none", "idle", "ping", "failed", "retry", "done"}
DialerStates == {"none", "wait", "dial", "swap", "mark", "spawn", "release",
                 "callback", "done"}
CloserStates == {"no", "conn", "mark", "wait", "done"}

TypeOK ==
  /\ conn \in [Conn -> ConnStates]
  /\ cur \in Conn \cup {NoConn}
  /\ connected \in BOOLEAN
  /\ reconnecting \in BOOLEAN
  /\ ctxDone \in BOOLEAN
  /\ rpc \in [Conn -> ReaderStates]
  /\ rat \in [Conn -> Conn \cup {NoConn}]
  /\ ppc \in [Conn -> PingerStates]
  /\ pat \in [Conn -> Conn \cup {NoConn}]
  /\ dpc \in [Dialers -> DialerStates]
  /\ dat \in [Dialers -> Conn \cup {NoConn}]
  /\ closer \in CloserStates
  /\ rejected \in BOOLEAN

Init ==
  /\ conn = [k \in Conn |-> "unused"]
  /\ cur = NoConn
  /\ connected = FALSE
  /\ reconnecting = FALSE
  /\ ctxDone = FALSE
  /\ rpc = [k \in Conn |-> "none"] /\ rat = [k \in Conn |-> NoConn]
  /\ ppc = [k \in Conn |-> "none"] /\ pat = [k \in Conn |-> NoConn]
  /\ dpc = [d \in Dialers |-> IF d = Owner THEN "dial" ELSE "none"]
  /\ dat = [d \in Dialers |-> NoConn]
  /\ closer = "no"
  /\ rejected = FALSE

-----------------------------------------------------------------------------
(* reconnect(): a goroutine that saw a failure starts the loop, unless the *)
(* flag says that one is running.                                          *)

(* Mutant: the flag is stored without looking at it.                       *)
ReconnectUnguarded ==
  /\ reconnecting' = TRUE
  /\ \E l \in Loops : dpc[l] = "none" /\ dpc' = [dpc EXCEPT ![l] = "wait"]

Reconnect ==
  \/ /\ reconnecting
     /\ UNCHANGED <<reconnecting, dpc>>
  \/ /\ ~reconnecting
     /\ reconnecting' = TRUE
     /\ \E l \in Loops : /\ dpc[l] = "none"
                         /\ dpc' = [dpc EXCEPT ![l] = "wait"]

(* The reader: readMessages.                                               *)

ReaderTop(r) ==
  /\ rpc[r] = "top"
  /\ \/ /\ ctxDone \/ cur = NoConn
        /\ rpc' = [rpc EXCEPT ![r] = "done"]
        /\ UNCHANGED rat
     \/ /\ ~ctxDone /\ cur # NoConn
        /\ rpc' = [rpc EXCEPT ![r] = "read"]
        /\ rat' = [rat EXCEPT ![r] = cur]
  /\ UNCHANGED <<conn, cur, connected, reconnecting, ctxDone,
                 pingerVars, dialerVars, closer, rejected>>

ReaderMessage(r) ==
  /\ rpc[r] = "read"
  /\ conn[rat[r]] \in {"up", "half"}
  /\ rpc' = [rpc EXCEPT ![r] = "handle"]
  /\ rat' = [rat EXCEPT ![r] = NoConn]
  /\ UNCHANGED <<conn, cur, connected, reconnecting, ctxDone,
                 pingerVars, dialerVars, closer, rejected>>

(* Most messages are handled at once; pipeWriter.Write waits for the       *)
(* handler of the request, which may have left the pipe.                   *)
ReaderHandled(r) ==
  /\ rpc[r] = "handle"
  /\ rpc' = [rpc EXCEPT ![r] = "top"]
  /\ UNCHANGED <<conn, cur, connected, reconnecting, ctxDone,
                 rat, pingerVars, dialerVars, closer, rejected>>

ReaderFails(r) ==
  /\ rpc[r] = "read"
  /\ conn[rat[r]] \in {"down", "closed"}
  /\ rpc' = [rpc EXCEPT ![r] = "failed"]
  /\ rat' = [rat EXCEPT ![r] = NoConn]
  /\ UNCHANGED <<conn, cur, connected, reconnecting, ctxDone,
                 pingerVars, dialerVars, closer, rejected>>

ReaderMarks(r) ==
  /\ rpc[r] = "failed"
  /\ connected' = FALSE
  /\ rpc' = [rpc EXCEPT ![r] = "retry"]
  /\ UNCHANGED <<conn, cur, reconnecting, ctxDone,
                 rat, pingerVars, dialerVars, closer, rejected>>

ReaderRetries(r) ==
  /\ rpc[r] = "retry"
  /\ Reconnect
  /\ rpc' = [rpc EXCEPT ![r] = "done"]
  /\ UNCHANGED <<conn, cur, connected, ctxDone,
                 rat, pingerVars, dat, closer, rejected>>

(* The pinger: pingHandler.  The first tick comes a ping interval (seconds)*)
(* after the start, long after the Connect that started it has returned.   *)

FirstTickDue(p) == \A d \in Dialers : ~(dpc[d] = "release" /\ dat[d] = p)

PingerTick(p) ==
  /\ ppc[p] = "idle"
  /\ FirstTickDue(p)
  /\ \/ /\ ctxDone
        /\ ppc' = [ppc EXCEPT ![p] = "done"]
        /\ UNCHANGED pat
     \/ /\ ~ctxDone /\ cur # NoConn
        /\ ppc' = [ppc EXCEPT ![p] = "ping"]
        /\ pat' = [pat EXCEPT ![p] = cur]
  /\ UNCHANGED <<conn, cur, connected, reconnecting, ctxDone,
                 readerVars, dialerVars, closer, rejected>>

(* A ping may still be buffered by the kernel on a dead connection.        *)
PingSent(p) ==
  /\ ppc[p] = "ping"
  /\ conn[pat[p]] # "closed"
  /\ ppc' = [ppc EXCEPT ![p] = "idle"]
  /\ pat' = [pat EXCEPT ![p] = NoConn]
  /\ UNCHANGED <<conn, cur, connected, reconnecting, ctxDone,
                 readerVars, dialerVars, closer, rejected>>

PingFails(p) ==
  /\ ppc[p] = "ping"
  /\ conn[pat[p]] # "up"
  /\ ppc' = [ppc EXCEPT ![p] = "failed"]
  /\ pat' = [pat EXCEPT ![p] = NoConn]
  /\ UNCHANGED <<conn, cur, connected, reconnecting, ctxDone,
                 readerVars, dialerVars, closer, rejected>>

PingerMarks(p) ==
  /\ ppc[p] = "failed"
  /\ connected' = FALSE
  /\ ppc' = [ppc EXCEPT ![p] = "retry"]
  /\ UNCHANGED <<conn, cur, reconnecting, ctxDone,
                 readerVars, pat, dialerVars, closer, rejected>>

(* Mutant: the pinger leaves recovery to the reader.                       *)
PingerQuits(p) ==
  /\ ppc[p] = "retry"
  /\ ppc' = [ppc EXCEPT ![p] = "done"]
  /\ UNCHANGED <<conn, cur, connected, reconnecting, ctxDone,
                 readerVars, pat, dialerVars, closer, rejected>>

PingerRetries(p) ==
  /\ ppc[p] = "retry"
  /\ Reconnect
  /\ ppc' = [ppc EXCEPT ![p] = "done"]
  /\ UNCHANGED <<conn, cur, connected, ctxDone,
                 readerVars, pat, dat, closer, rejected>>

-----------------------------------------------------------------------------
(* reconnectLoop: sleep, dial, give up or start over; and Connect /        *)
(* ConnectToGateway, which the owner runs once and the loop every time.    *)

(* Mutant: the context is not looked at after the sleep.                   *)
LoopWakesAnyway(l) ==
  /\ dpc[l] = "wait"
  /\ dpc' = [dpc EXCEPT ![l] = "dial"]
  /\ UNCHANGED <<conn, cur, connected, reconnecting, ctxDone, readerVars,
                 pingerVars, dat, closer, rejected>>

(* The backoff elapses, or TriggerReconnectNow cuts it short: how long it  *)
(* lasts is not modelled.                                                  *)
LoopWakes(l) ==
  /\ dpc[l] = "wait"
  /\ ~ctxDone
  /\ dpc' = [dpc EXCEPT ![l] = "dial"]
  /\ UNCHANGED <<conn, cur, connected, reconnecting, ctxDone, readerVars,
                 pingerVars, dat, closer, rejected>>

LoopCancelled(l) ==
  /\ dpc[l] = "wait"
  /\ ctxDone
  /\ dpc' = [dpc EXCEPT ![l] = "release"]
  /\ UNCHANGED <<conn, cur, connected, reconnecting, ctxDone, readerVars,
                 pingerVars, dat, closer, rejected>>

(* Dialling is not tied to c.ctx: it finishes even after Close.            *)
DialSucceeds(d, k) ==
  /\ dpc[d] = "dial"
  /\ conn[k] = "unused"
  /\ \A j \in Conn : j < k => conn[j] # "unused"
  /\ conn' = [conn EXCEPT ![k] = "up"]
  /\ dat' = [dat EXCEPT ![d] = k]
  /\ dpc' = [dpc EXCEPT ![d] = "swap"]
  /\ UNCHANGED <<cur, connected, reconnecting, ctxDone,
                 readerVars, pingerVars, closer, rejected>>

(* Mutant: any failed dial ends the loop.                                  *)
DialFailsForGood(d) ==
  /\ dpc[d] = "dial"
  /\ dpc' = [dpc EXCEPT ![d] = IF d = Owner THEN "done" ELSE "release"]
  /\ UNCHANGED <<conn, cur, connected, reconnecting, ctxDone,
                 readerVars, pingerVars, dat, closer, rejected>>

(* A transient failure: the loop sleeps again, the owner returns the error *)
(* and drops the client.                                                   *)
DialFails(d) ==
  /\ dpc[d] = "dial"
  /\ dpc' = [dpc EXCEPT ![d] = IF d = Owner THEN "done" ELSE "wait"]
  /\ UNCHANGED <<conn, cur, connected, reconnecting, ctxDone,
                 readerVars, pingerVars, dat, closer, rejected>>

(* 401 or 403 (isNonRetryableHTTPError): the callback, then the loop ends. *)
DialRejected(l) ==
  /\ dpc[l] = "dial"
  /\ dpc' = [dpc EXCEPT ![l] = "callback"]
  /\ UNCHANGED <<conn, cur, connected, reconnecting, ctxDone,
                 readerVars, pingerVars, dat, closer, rejected>>

CallbackReturns(l) ==
  /\ dpc[l] = "callback"
  /\ dpc' = [dpc EXCEPT ![l] = "release"]
  /\ rejected' = TRUE
  /\ UNCHANGED <<conn, cur, connected, reconnecting, ctxDone,
                 readerVars, pingerVars, dat, closer>>

(* The previous connection is neither closed nor told.                     *)
InstallConn(d) ==
  /\ dpc[d] = "swap"
  /\ cur' = dat[d]
  /\ dpc' = [dpc EXCEPT ![d] = "mark"]
  /\ UNCHANGED <<conn, connected, reconnecting, ctxDone,
                 readerVars, pingerVars, dat, closer, rejected>>

MarkConnected(d) ==
  /\ dpc[d] = "mark"
  /\ connected' = TRUE
  /\ dpc' = [dpc EXCEPT ![d] = "spawn"]
  /\ UNCHANGED <<conn, cur, reconnecting, ctxDone,
                 readerVars, pingerVars, dat, closer, rejected>>

StartGoroutines(d) ==
  /\ dpc[d] = "spawn"
  /\ rpc' = [rpc EXCEPT ![dat[d]] = "top"]
  /\ ppc' = [ppc EXCEPT ![dat[d]] = "idle"]
  /\ dpc' = [dpc EXCEPT ![d] = "release"]
  /\ rejected' = FALSE
  /\ UNCHANGED <<conn, cur, connected, reconnecting, ctxDone,
                 rat, pat, dat, closer>>

(* The deferred reconnecting.Store(false).                                 *)
LoopReleases(l) ==
  /\ dpc[l] = "release"
  /\ reconnecting' = FALSE
  /\ dpc' = [dpc EXCEPT ![l] = "none"]
  /\ dat' = [dat EXCEPT ![l] = NoConn]
  /\ UNCHANGED <<conn, cur, connected, ctxDone,
                 readerVars, pingerVars, closer, rejected>>

OwnerReturns ==
  /\ dpc[Owner] = "release"
  /\ dpc' = [dpc EXCEPT ![Owner] = "done"]
  /\ UNCHANGED <<conn, cur, connected, reconnecting, ctxDone,
                 readerVars, pingerVars, dat, closer, rejected>>

-----------------------------------------------------------------------------
(* Close(), called once by the owner of a client whose Connect succeeded.  *)

CloseCancels ==
  /\ closer = "no"
  /\ dpc[Owner] = "done" /\ dat[Owner] # NoConn
  /\ ctxDone' = TRUE
  /\ closer' = "conn"
  /\ UNCHANGED <<conn, cur, connected, reconnecting,
                 readerVars, pingerVars, dialerVars, rejected>>

(* Mutant: the connection is forgotten but not closed.                     *)
CloseForgetsConn ==
  /\ closer = "conn"
  /\ cur' = NoConn
  /\ closer' = "mark"
  /\ UNCHANGED <<conn, connected, reconnecting, ctxDone,
                 readerVars, pingerVars, dialerVars, rejected>>

CloseConn ==
  /\ closer = "conn"
  /\ conn' = [k \in Conn |-> IF k = cur THEN "closed" ELSE conn[k]]
  /\ cur' = NoConn
  /\ closer' = "mark"
  /\ UNCHANGED <<connected, reconnecting, ctxDone,
                 readerVars, pingerVars, dialerVars, rejected>>

CloseMarks ==
  /\ closer = "mark"
  /\ connected' = FALSE
  /\ closer' = "wait"
  /\ UNCHANGED <<conn, cur, reconnecting, ctxDone,
                 readerVars, pingerVars, dialerVars, rejected>>

ReaderLive(k) == rpc[k] \notin {"none", "done"}
PingerLive(k) == ppc[k] \notin {"none", "done"}

(* c.wg.Wait(): the group counts readers and pingers, not the loop.        *)
CloseReturns ==
  /\ closer = "wait"
  /\ \A k \in Conn : ~ReaderLive(k) /\ ~PingerLive(k)
  /\ closer' = "done"
  /\ UNCHANGED <<conn, cur, connected, reconnecting, ctxDone,
                 readerVars, pingerVars, dialerVars, rejected>>

-----------------------------------------------------------------------------
(* The network.  Bound: the last connection of a behaviour does not fail,  *)
(* so that a liveness run has a state to converge to.                      *)

WritesStall(k) ==
  /\ conn[k] = "up" /\ k < MaxDials
  /\ conn' = [conn EXCEPT ![k] = "half"]
  /\ UNCHANGED <<cur, connected, reconnecting, ctxDone,
                 readerVars, pingerVars, dialerVars, closer, rejected>>

(* The peer closes, the network breaks, or the read deadline passes.       *)
ConnBreaks(k) ==
  /\ conn[k] \in {"up", "half"} /\ k < MaxDials
  /\ conn' = [conn EXCEPT ![k] = "down"]
  /\ UNCHANGED <<cur, connected, reconnecting, ctxDone,
                 readerVars, pingerVars, dialerVars, closer, rejected>>

Reader(r) == ReaderTop(r) \/ ReaderMessage(r) \/ ReaderHandled(r)
             \/ ReaderFails(r) \/ ReaderMarks(r) \/ ReaderRetries(r)
Pinger(p) == PingerTick(p) \/ PingSent(p) \/ PingFails(p)
             \/ PingerMarks(p) \/ PingerRetries(p)
Dialer(d) == \/ \E k \in Conn : DialSucceeds(d, k)
             \/ DialFails(d) \/ InstallConn(d) \/ MarkConnected(d)
             \/ StartGoroutines(d)
Loop(l)   == LoopWakes(l) \/ LoopCancelled(l) \/ DialRejected(l)
             \/ CallbackReturns(l) \/ LoopReleases(l)
Close     == CloseCancels \/ CloseConn \/ CloseMarks \/ CloseReturns
Network   == \E k \in Conn : WritesStall(k) \/ ConnBreaks(k)

Next ==
  \/ \E r \in Conn : Reader(r)
  \/ \E p \in Conn : Pinger(p)
  \/ \E d \in Dialers : Dialer(d)
  \/ \E l \in Loops : Loop(l)
  \/ OwnerReturns \/ Close \/ Network

Spec == Init /\ [][Next]_vars

(* Fairness: goroutines run, though nothing makes a message arrive or      *)
(* handleMessage return; timers fire; a dial that is retried for ever      *)
(* succeeds in the end; a ping on a dead connection fails in the end; a    *)
(* connection that is no longer pinged, or whose pings stall, either       *)
(* delivers messages or runs into its read deadline.  One goroutine at a   *)
(* time dials or runs the loop, so that they share their conditions.       *)
ReaderRuns(r) == ReaderTop(r) \/ ReaderFails(r) \/ ReaderMarks(r) \/ ReaderRetries(r)
PingerRuns(p) == PingerTick(p) \/ PingerMarks(p) \/ PingerRetries(p)
DialerRuns(d) == InstallConn(d) \/ MarkConnected(d) \/ StartGoroutines(d)
LoopRuns(l)   == LoopWakes(l) \/ LoopCancelled(l) \/ CallbackReturns(l) \/ LoopReleases(l)
DeadlinePasses(k) == (conn[k] = "half" \/ k # cur) /\ ConnBreaks(k)

Fairness ==
  /\ \A k \in Conn : /\ WF_vars(ReaderRuns(k))
                     /\ WF_vars(PingerRuns(k)) /\ SF_vars(PingFails(k))
                     /\ WF_vars(DeadlinePasses(k))
  /\ WF_vars(\E d \in Dialers : DialerRuns(d))
  /\ WF_vars(\E d \in Dialers : Dialer(d))
  /\ SF_vars(\E d \in Dialers, k \in Conn : DialSucceeds(d, k))
  /\ WF_vars(\E l \in Loops : LoopRuns(l))
  /\ WF_vars(OwnerReturns)
  /\ WF_vars(CloseConn \/ CloseMarks \/ CloseReturns)

FairSpec == Spec /\ Fairness

-----------------------------------------------------------------------------
Active(l) == dpc[l] # "none"

(* However many readers and pingers see failures at the same time, one     *)
(* goroutine at most runs reconnectLoop (comment at lines 1794-1797).      *)
SingleLoop == \A l, m \in Loops : Active(l) /\ Active(m) => l = m

Started == dpc[Owner] = "done" /\ dat[Owner] # NoConn

(* A reconnect() that found the flag taken is never the last chance: until *)
(* Close, or a refusal by the server, a reconnect loop is running or some  *)
(* pinger is still there to notice a dead connection.                      *)
Watched ==
  Started /\ ~ctxDone /\ ~rejected => reconnecting \/ \E k \in Conn : PingerLive(k)

(* A broken current connection is replaced, unless the client is closed or *)
(* the server refuses its credentials.                                     *)
Dead == cur # NoConn /\ conn[cur] = "down"
DeadReplaced == Dead ~> (~Dead \/ ctxDone \/ rejected)

(* Close returns unless a message holds a reader for ever: every reader    *)
(* and pinger it waits for ends, those still working on a connection it    *)
(* does not close included.                                                *)
CloseReaches  == (closer = "conn") ~> (closer = "done")
CloseFinishes == (\A k \in Conn : []<>(rpc[k] # "handle")) => CloseReaches

(* The connection itself is owned by one dialling goroutine at a time: the *)
(* owner during the first Connect, then whoever runs the reconnect loop.   *)
OwnerPhase ==
  IF \E d \in Dialers : dpc[d] = "dial" THEN "dialing"
  ELSE IF \E d \in Dialers : dpc[d] = "swap" THEN "carrying"
  ELSE IF reconnecting \/ dpc[Owner] \in {"mark", "spawn", "release"} THEN "held"
  ELSE "idle"

Ownership == INSTANCE LinkOwnership WITH
  Link <- Conn \cup {NoConn}, phase <- OwnerPhase, link <- cur, shut <- ctxDone

(* Only the goroutine that owns the reconnect lifecycle replaces c.conn,   *)
(* always by a newer connection, and starts no dial once Close has begun.  *)
OwnedLink == Ownership!Spec

-----------------------------------------------------------------------------
(* What comments of the source say and the code does not do.               *)

(* "Close closes the WebSocket connection" (line 696) and waits for the    *)
(* goroutines: afterwards the client has no connection.                    *)
ClosedStaysClosed == closer = "done" => cur = NoConn /\ ~connected

(* "Cancel context to stop goroutines" (line 700): Close always returns.   *)
(* A reader in pipeWriter.Write (line 940) does not look at the context,   *)
(* and Close shuts none of the pipes of request bodies.                    *)
CloseStopsReaders == CloseReaches
=============================================================================
