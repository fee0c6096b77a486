------------------------------ MODULE AppRelay ------------------------------
(***************************************************************************)
(* WebSockets of applications, relayed between the gateway and a service   *)
(* of the cluster: handleWebSocketProxy, handleWebSocketData and           *)
(* handleWebSocketClose of agent/agent.go, the two cases of handleMessage  *)
(* that feed them, and the heartbeat of websocket/heartbeat.go.            *)
(*                                                                         *)
(* The handler of a request dials the service, lists the stream, answers   *)
(* 101 and starts two relays; it ends when one of them does or the context *)
(* is cancelled, and cleans up by its deferred calls.  Every frame of the  *)
(* gateway, and its close, is handled by a goroutine of its own.           *)
(*                                                                         *)
(* Undefined behaviour of the code is a choice here: two goroutines that   *)
(* write to one service connection at once may panic, for the library's    *)
(* detection is best effort.  A panic ends the process.                    *)
(*                                                                         *)
(* Left out: metrics, the backpressure signal (a message nothing in the    *)
(* agent reads), and frames sent as proxy_stream_data (see ProxyRequest).  *)
(***************************************************************************)
EXTENDS Naturals, Sequences, FiniteSets

CONSTANTS
  Streams,          \* request ids of upgrade requests
  ChannelCapacity,  \* capacity of dataChan
  Pings,            \* the heartbeat is on: PingInterval > 0
  MaxMissedPongs,   \* 3 in the code
  FramesOf,         \* bound: frames the gateway sends for each stream
  RepliesOf         \* bound: frames the service of each stream sends

ASSUME RelayAssumption ==
  /\ IsFiniteSet(Streams)
  /\ ChannelCapacity \in Nat \ {0}
  /\ Pings \in BOOLEAN
  /\ MaxMissedPongs \in Nat \ {0}
  /\ FramesOf \in [Streams -> Nat]
  /\ RepliesOf \in [Streams -> Nat]

(* Mutant: room for the error of one relay. *)
OneError == 1

ErrCapacity == 2

VARIABLES
  wsStreams,    \* the keys of the map
  handler,      \* handleWebSocketProxy, with its deferred calls
  serviceConn,  \* the connection to the service
  up,           \* the relay from the service; "done" closes the channel done
  down,         \* the relay to the service
  errChan,      \* number of errors in errChan
  beat,         \* heartbeatLoop
  missed,       \* missedPongs
  dataChan,     \* number of frames in the channel
  shut,         \* dataChan is closed
  cancelled,    \* wsCtx is done, alone or with the context of the request
  frames,       \* handleWebSocketData: number of goroutines at each step
  closing,      \* handleWebSocketClose
  silent,       \* the service no longer reads or answers
  taken,        \* number of frames read from the service
  sent,         \* frames sent to the gateway
  answer,       \* what the gateway was answered
  link,         \* the control WebSocket
  crashed       \* a goroutine panicked

local == <<serviceConn, up, down, errChan, beat, missed, dataChan, shut,
           cancelled>>
relayVars == <<wsStreams, handler, local, frames, closing, silent, taken,
               sent, answer, link, crashed>>

Handling == {"none", "dial", "list", "answer", "wait", "stop", "done"}
Framing  == {"sent", "get", "put"}

RelayTypeOK ==
  /\ wsStreams \subseteq Streams
  /\ handler \in [Streams -> Handling]
  /\ serviceConn \in [Streams -> {"none", "open", "closed"}]
  /\ up \in [Streams -> {"none", "read", "send", "done"}]
  /\ down \in [Streams -> {"none", "select", "write", "done"}]
  /\ errChan \in [Streams -> 0..ErrCapacity]
  /\ beat \in [Streams -> {"none", "wait", "ping", "done"}]
  /\ missed \in [Streams -> 0..MaxMissedPongs]
  /\ dataChan \in [Streams -> 0..ChannelCapacity]
  /\ shut \in [Streams -> BOOLEAN]
  /\ cancelled \in [Streams -> {"no", "ws", "request"}]
  /\ frames \in [Streams -> [Framing -> Nat]]
  /\ closing \in [Streams -> {"none", "get", "cancel", "done"}]
  /\ silent \in [Streams -> BOOLEAN]
  /\ taken \in [Streams -> Nat]
  /\ sent \in [Streams -> Seq(Nat)]
  /\ answer \in [Streams -> {"none", "101", "error"}]
  /\ link \in {"up", "lost", "back"}
  /\ crashed \in BOOLEAN

RelayInit ==
  /\ wsStreams = {}
  /\ handler = [i \in Streams |-> "none"]
  /\ serviceConn = [i \in Streams |-> "none"]
  /\ up = [i \in Streams |-> "none"]
  /\ down = [i \in Streams |-> "none"]
  /\ errChan = [i \in Streams |-> 0]
  /\ beat = [i \in Streams |-> "none"]
  /\ missed = [i \in Streams |-> 0]
  /\ dataChan = [i \in Streams |-> 0]
  /\ shut = [i \in Streams |-> FALSE]
  /\ cancelled = [i \in Streams |-> "no"]
  /\ frames = [i \in Streams |-> [f \in Framing |-> 0]]
  /\ closing = [i \in Streams |-> "none"]
  /\ silent = [i \in Streams |-> FALSE]
  /\ taken = [i \in Streams |-> 0]
  /\ sent = [i \in Streams |-> <<>>]
  /\ answer = [i \in Streams |-> "none"]
  /\ link = "up"
  /\ crashed = FALSE

Linked == link # "lost"

(* An error sent on errChan, which blocks when the channel is full.        *)
Report(i) ==
  /\ errChan[i] < ErrCapacity
  /\ errChan' = [errChan EXCEPT ![i] = @ + 1]

(* A step of one part of stream i, described by an update of one function. *)
Moves(f, i, here, next) == f[i] = here /\ f' = [f EXCEPT ![i] = next]

-----------------------------------------------------------------------------
(* The messages of the gateway.  It sends frames once it was answered 101, *)
(* and may close the stream as soon as it has asked for it.                *)
Ask(i) ==
  /\ Linked
  /\ Moves(handler, i, "none", "dial")
  /\ UNCHANGED <<wsStreams, local, frames, closing, silent, taken, sent,
                 answer, link, crashed>>

HandleFrame(i) ==
  /\ Linked
  /\ answer[i] = "101" /\ closing[i] = "none"
  /\ frames[i].sent < FramesOf[i]
  /\ frames' = [frames EXCEPT ![i].sent = @ + 1, ![i].get = @ + 1]
  /\ UNCHANGED <<wsStreams, handler, local, closing, silent, taken, sent,
                 answer, link, crashed>>

HandleClose(i) ==
  /\ Linked
  /\ handler[i] # "none"
  /\ Moves(closing, i, "none", "get")
  /\ UNCHANGED <<wsStreams, handler, local, frames, silent, taken, sent,
                 answer, link, crashed>>

-----------------------------------------------------------------------------
(* handleWebSocketProxy up to the start of the relays.                     *)
HandlerOnly == UNCHANGED <<frames, closing, silent, taken, sent, link,
                           crashed>>

Dial(i) ==
  /\ \/ /\ Moves(handler, i, "dial", "list")
        /\ serviceConn' = [serviceConn EXCEPT ![i] = "open"]
        /\ beat' = [beat EXCEPT ![i] = IF Pings THEN "wait" ELSE "done"]
        /\ UNCHANGED answer
     \/ /\ Moves(handler, i, "dial", "done")
        /\ answer' = [answer EXCEPT ![i] = IF Linked THEN "error" ELSE @]
        /\ UNCHANGED <<serviceConn, beat>>
  /\ HandlerOnly
  /\ UNCHANGED <<wsStreams, up, down, errChan, missed, dataChan, shut, cancelled>>

List(i) ==
  /\ Moves(handler, i, "list", "answer")
  /\ wsStreams' = wsStreams \cup {i}
  /\ HandlerOnly
  /\ UNCHANGED <<local, answer>>

(* The deferred clean-up and wsCancel: the stream is unlisted, its channel  *)
(* closed and its context cancelled.  What others do in between they may   *)
(* also do before.                                                         *)
CleanUp(i) ==
  /\ wsStreams' = wsStreams \ {i}
  /\ shut' = [shut EXCEPT ![i] = TRUE]
  /\ cancelled' = [cancelled EXCEPT ![i] = IF @ = "no" THEN "ws" ELSE @]

(* Answer 101 and start both relays, or give up on a lost link.            *)
Answer(i) ==
  /\ \/ /\ Linked
        /\ Moves(handler, i, "answer", "wait")
        /\ answer' = [answer EXCEPT ![i] = "101"]
        /\ up' = [up EXCEPT ![i] = "read"]
        /\ down' = [down EXCEPT ![i] = "select"]
        /\ UNCHANGED <<wsStreams, shut, cancelled>>
     \/ /\ ~Linked
        /\ Moves(handler, i, "answer", "stop")
        /\ CleanUp(i)
        /\ UNCHANGED <<answer, up, down>>
  /\ HandlerOnly
  /\ UNCHANGED <<serviceConn, errChan, beat, missed, dataChan>>

(* The select: done, errChan or wsCtx.  Then a close frame is written,     *)
(* with a deadline of a second, and the clean-up begins.                   *)
SessionEnds(i) ==
  /\ Moves(handler, i, "wait", "stop")
  /\ \/ up[i] = "done" /\ UNCHANGED errChan
     \/ errChan[i] > 0 /\ errChan' = [errChan EXCEPT ![i] = @ - 1]
     \/ cancelled[i] # "no" /\ UNCHANGED errChan
  /\ CleanUp(i)
  /\ HandlerOnly
  /\ UNCHANGED <<serviceConn, up, down, beat, missed, dataChan, answer>>

(* heartbeat.Stop() waits for the loop, then the connection is closed.     *)
HangUp(i) ==
  /\ beat[i] = "done"
  /\ Moves(handler, i, "stop", "done")
  /\ serviceConn' = [serviceConn EXCEPT ![i] = "closed"]
  /\ HandlerOnly
  /\ UNCHANGED <<wsStreams, up, down, errChan, beat, missed, dataChan, shut,
                 cancelled, answer>>

-----------------------------------------------------------------------------
(* The relay from the service.                                             *)
UpOnly == UNCHANGED <<wsStreams, handler, serviceConn, down, beat, missed,
                      dataChan, shut, cancelled, frames, closing, silent,
                      answer, link, crashed>>

ReadMessage(i) ==
  /\ serviceConn[i] = "open" /\ ~silent[i] /\ taken[i] < RepliesOf[i]
  /\ Moves(up, i, "read", "send")
  /\ taken' = [taken EXCEPT ![i] = @ + 1]
  /\ UpOnly /\ UNCHANGED <<errChan, sent>>

(* The service closed the WebSocket, in an orderly way or not.             *)
ServiceCloses(i) ==
  /\ serviceConn[i] = "open" /\ ~silent[i]
  /\ Moves(up, i, "read", "done")
  /\ UNCHANGED errChan \/ Report(i)
  /\ UpOnly /\ UNCHANGED <<taken, sent>>

(* The connection was closed under the read.                               *)
ReadFails(i) ==
  /\ serviceConn[i] = "closed"
  /\ Moves(up, i, "read", "done")
  /\ Report(i)
  /\ UpOnly /\ UNCHANGED <<taken, sent>>

(* Mutant: a frame that could not be sent is skipped.                      *)
SendAnyway(i) ==
  /\ Moves(up, i, "send", "read")
  /\ sent' = IF Linked THEN [sent EXCEPT ![i] = Append(@, taken[i])] ELSE sent
  /\ UpOnly /\ UNCHANGED <<taken, errChan>>

(* SendWebSocketData refuses when its context is done or the link is down. *)
Send(i) ==
  /\ \/ /\ Linked /\ cancelled[i] = "no"
        /\ Moves(up, i, "send", "read")
        /\ sent' = [sent EXCEPT ![i] = Append(@, taken[i])]
        /\ UNCHANGED errChan
     \/ /\ ~Linked \/ cancelled[i] # "no"
        /\ Moves(up, i, "send", "done")
        /\ Report(i)
        /\ UNCHANGED sent
  /\ UpOnly /\ UNCHANGED taken

-----------------------------------------------------------------------------
(* The relay to the service.  A write by another goroutine at the same     *)
(* time may panic.                                                         *)
DownOnly == UNCHANGED <<wsStreams, handler, serviceConn, up, beat, missed, shut,
                        cancelled, frames, closing, silent, taken, sent, answer,
                        link>>

TakeFrame(i) ==
  /\ dataChan[i] > 0
  /\ Moves(down, i, "select", "write")
  /\ dataChan' = [dataChan EXCEPT ![i] = @ - 1]
  /\ crashed' \in {FALSE, beat[i] = "ping"}
  /\ DownOnly /\ UNCHANGED <<errChan>>

WriteFrame(i) ==
  /\ serviceConn[i] = "open" /\ ~silent[i]
  /\ Moves(down, i, "write", "select")
  /\ DownOnly /\ UNCHANGED <<dataChan, errChan, crashed>>

(* The service hung up, or the deadline of a ping broke the connection for *)
(* writing.                                                                *)
WriteBreaks(i) ==
  /\ serviceConn[i] = "open"
  /\ Moves(down, i, "write", "done")
  /\ Report(i)
  /\ DownOnly /\ UNCHANGED <<dataChan, crashed>>

(* The connection was closed under the write.                              *)
WriteFails(i) ==
  /\ serviceConn[i] = "closed"
  /\ Moves(down, i, "write", "done")
  /\ Report(i)
  /\ DownOnly /\ UNCHANGED <<dataChan, crashed>>

(* dataChan is closed and drained, the context is done, or the other relay *)
(* has ended.                                                              *)
DownEnds(i) ==
  /\ Moves(down, i, "select", "done")
  /\ \/ shut[i] /\ dataChan[i] = 0 /\ Report(i)
     \/ (cancelled[i] # "no" \/ up[i] = "done") /\ UNCHANGED errChan
  /\ DownOnly /\ UNCHANGED <<dataChan, crashed>>

-----------------------------------------------------------------------------
(* heartbeatLoop.  A ping is written with a deadline of five seconds, so   *)
(* it returns even if the service reads nothing.                           *)
BeatOnly == UNCHANGED <<wsStreams, handler, up, down, errChan, dataChan,
                        shut, cancelled, frames, closing, silent, taken,
                        sent, answer, link>>

Ping(i) ==
  /\ Moves(beat, i, "wait", "ping")
  /\ crashed' \in {FALSE, down[i] = "write"}
  /\ BeatOnly /\ UNCHANGED <<serviceConn, missed>>

(* Mutant: missed pongs are counted and nothing else.                      *)
CountOnly(i) ==
  /\ Moves(beat, i, "ping", "wait")
  /\ \/ ~silent[i] /\ missed' = [missed EXCEPT ![i] = 0]
     \/ missed' = [missed EXCEPT ![i] = IF @ < MaxMissedPongs THEN @ + 1 ELSE @]
  /\ BeatOnly /\ UNCHANGED <<serviceConn, crashed>>

(* A pong came since the last look, or one more is missed and the third    *)
(* missed one closes the connection.                                       *)
CheckPong(i) ==
  /\ Moves(beat, i, "ping", "wait")
  /\ \/ /\ ~silent[i]
        /\ missed' = [missed EXCEPT ![i] = 0]
        /\ UNCHANGED serviceConn
     \/ /\ missed[i] + 1 < MaxMissedPongs
        /\ missed' = [missed EXCEPT ![i] = @ + 1]
        /\ UNCHANGED serviceConn
     \/ /\ missed[i] + 1 >= MaxMissedPongs
        /\ missed' = [missed EXCEPT ![i] = MaxMissedPongs]
        /\ serviceConn' = [serviceConn EXCEPT ![i] = "closed"]
  /\ BeatOnly /\ UNCHANGED crashed

(* stopChan is closed, or the context of the request is done.              *)
BeatEnds(i) ==
  /\ handler[i] = "stop" \/ cancelled[i] = "request"
  /\ Moves(beat, i, "wait", "done")
  /\ BeatOnly /\ UNCHANGED <<serviceConn, missed, crashed>>

-----------------------------------------------------------------------------
(* handleWebSocketData: the goroutine of a frame looks the stream up and   *)
(* then sends on its channel, which panics if the channel was closed.      *)
FramerOnly == UNCHANGED <<wsStreams, handler, serviceConn, up, down, errChan,
                          beat, missed, shut, cancelled, closing, silent,
                          taken, sent, answer, link>>

LookUp(i) ==
  /\ frames[i].get > 0
  /\ frames' = [frames EXCEPT ![i].get = @ - 1,
                               ![i].put = IF i \in wsStreams THEN @ + 1 ELSE @]
  /\ FramerOnly /\ UNCHANGED <<dataChan, crashed>>

(* A frame for a full channel is dropped.                                  *)
Put(i) ==
  /\ frames[i].put > 0
  /\ frames' = [frames EXCEPT ![i].put = @ - 1]
  /\ \/ /\ ~shut[i] /\ dataChan[i] < ChannelCapacity
        /\ dataChan' = [dataChan EXCEPT ![i] = @ + 1]
     \/ /\ shut[i] \/ dataChan[i] >= ChannelCapacity
        /\ UNCHANGED dataChan
  /\ crashed' = shut[i]
  /\ FramerOnly

(* handleWebSocketClose                                                    *)
CloserOnly == UNCHANGED <<wsStreams, handler, serviceConn, up, down, errChan,
                          beat, missed, dataChan, shut, frames, silent, taken,
                          sent, answer, link, crashed>>

FindForClose(i) ==
  /\ Moves(closing, i, "get", IF i \in wsStreams THEN "cancel" ELSE "done")
  /\ CloserOnly /\ UNCHANGED cancelled

CancelRelay(i) ==
  /\ Moves(closing, i, "cancel", "done")
  /\ cancelled' = [cancelled EXCEPT ![i] = IF @ = "no" THEN "ws" ELSE @]
  /\ CloserOnly

-----------------------------------------------------------------------------
(* The deadline of the request passes (24 hours if it names none), or the  *)
(* agent stops.                                                            *)
Expire(i) ==
  /\ handler[i] \in {"dial", "list", "answer", "wait"}
  /\ cancelled' = [cancelled EXCEPT ![i] = "request"]
  /\ CloserOnly /\ UNCHANGED closing

(* The service neither reads nor answers any more, without closing.        *)
GoSilent(i) ==
  /\ serviceConn[i] = "open"
  /\ silent' = [silent EXCEPT ![i] = TRUE]
  /\ UNCHANGED <<wsStreams, handler, local, frames, closing, taken, sent,
                 answer, link, crashed>>

LinkChanges ==
  /\ \/ link = "up" /\ link' = "lost"
     \/ link = "lost" /\ link' = "back"
  /\ UNCHANGED <<wsStreams, handler, local, frames, closing, silent, taken,
                 sent, answer, crashed>>

-----------------------------------------------------------------------------
Gateway(i) == Ask(i) \/ HandleFrame(i) \/ HandleClose(i)
Handler(i) ==
  \/ Dial(i) \/ List(i) \/ Answer(i) \/ SessionEnds(i)
  \/ HangUp(i)
Up(i) == ReadMessage(i) \/ ServiceCloses(i) \/ ReadFails(i) \/ Send(i)
Down(i) == TakeFrame(i) \/ WriteFrame(i) \/ WriteBreaks(i) \/ WriteFails(i)
                        \/ DownEnds(i)
Beat(i) == Ping(i) \/ CheckPong(i) \/ BeatEnds(i)
Closer(i) == FindForClose(i) \/ CancelRelay(i)

RelayNext ==
  /\ ~crashed
  /\ \/ \E i \in Streams :
          \/ Gateway(i) \/ Handler(i) \/ Up(i) \/ Down(i) \/ Beat(i)
          \/ Closer(i) \/ Expire(i) \/ GoSilent(i)
          \/ LookUp(i) \/ Put(i)
     \/ LinkChanges

RelaySpec == RelayInit /\ [][RelayNext]_relayVars

(* A goroutine that can go on does, unless it waits for the service.  The  *)
(* ticker of the heartbeat ticks, and its select, which chooses at random, *)
(* does not overlook the stop for ever.                                    *)
RelayFairness ==
  \A i \in Streams :
    /\ WF_relayVars(~crashed /\ Handler(i))
    /\ WF_relayVars(~crashed /\ (ReadFails(i) \/ Send(i)))
    /\ WF_relayVars(~crashed /\ (TakeFrame(i) \/ WriteFails(i) \/ DownEnds(i)))
    /\ WF_relayVars(~crashed /\ (Ping(i) \/ CheckPong(i)))
    /\ SF_relayVars(~crashed /\ BeatEnds(i))
    /\ WF_relayVars(~crashed /\ Closer(i))

FairRelaySpec == RelaySpec /\ RelayFairness

-----------------------------------------------------------------------------
(* Nothing of stream i is left behind. *)
Ended(i) ==
  /\ i \notin wsStreams
  /\ serviceConn[i] # "open"
  /\ handler[i] = "done"
  /\ up[i] \in {"none", "done"} /\ down[i] \in {"none", "done"}
  /\ beat[i] \in {"none", "done"}

(* What the gateway is sent is what the service said, in order and without *)
(* a hole, through a lost link and every way to end.                       *)
RepliesInOrder ==
  \A i \in Streams : \A k \in 1..Len(sent[i]) : sent[i][k] = k

(* When a relay has ended, or a close has found the stream, everything of  *)
(* the stream ends: the handler, the other relay however it is blocked,    *)
(* the heartbeat, the entry and the connection; or the process crashed.    *)
Unwinds ==
  \A i \in Streams :
    (up[i] = "done" \/ down[i] = "done" \/ closing[i] = "cancel")
      ~> (Ended(i) \/ crashed)

(* With the heartbeat on, a service that fell silent is given up.          *)
SilenceEnds ==
  \A i \in Streams : (Pings /\ silent[i]) ~> (Ended(i) \/ crashed)

(* The agent survives its relays.                                          *)
NoPanic == ~crashed

-----------------------------------------------------------------------------
(* Stream i as a ServiceRelay.  A stream that could not be dialled was     *)
(* never listed.                                                           *)
Entry(i) ==
  IF i \in wsStreams THEN "listed"
  ELSE IF handler[i] \in {"stop", "done"} /\ serviceConn[i] # "none" THEN "gone"
  ELSE "none"

Reading(i) == IF up[i] \in {"none", "done"} THEN up[i] ELSE "on"

Life(i) == INSTANCE ServiceRelay WITH
  ClosesFirst <- FALSE, entry <- Entry(i), conn <- serviceConn[i],
  reader <- Reading(i), taken <- taken[i], sent <- sent[i]

(* However handler, relays, heartbeat, close and clean-up interleave, a    *)
(* stream lives once, its frames are passed on one by one, and the gateway *)
(* is sent nothing of a stream that has left wsStreams.  It is             *)
(* Life(i)!Spec of every i, in the form TLC evaluates.                     *)
OneLife ==
  /\ \A i \in Streams : Life(i)!Init
  /\ [][\A i \in Streams : [Life(i)!Next]_(Life(i)!relay)]_relayVars
=============================================================================
