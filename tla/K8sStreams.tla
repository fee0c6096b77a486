----------------------------- MODULE K8sStreams -----------------------------
(***************************************************************************)
(* The kubectl exec/attach/port-forward streams of a WebSocketClient       *)
(* (WebSocketProxyManager, internal/controlplane/websocket_proxy.go).      *)
(*                                                                         *)
(* One reader goroutine handles the gateway's start, data and close        *)
(* messages in order.  A start registers a WebSocketStream under its id    *)
(* and spawns its goroutine (connectToKubernetes), which dials the         *)
(* Kubernetes API, runs one relay goroutine per direction, and ends with   *)
(* the deferred closeStream(id).  The reader, every stream's goroutine and *)
(* the goroutine in Close (CloseAll) may be in closeStream at once.        *)
(*                                                                         *)
(* A stream object is a number, in the order of creation.  The payload of  *)
(* a data message is its sequence number within its id.                    *)
(***************************************************************************)
EXTENDS Naturals, Sequences, FiniteSets

CONSTANTS
  Ids,          \* stream_ids the gateway uses
  MaxStreams,   \* bound: stream objects created
  MaxData,      \* bound: data messages per id
  ChanCap       \* capacity of dataCh (100 in the code)

ASSUME StreamsAssumption ==
  /\ MaxStreams \in Nat \ {0}
  /\ MaxData \in Nat
  /\ ChanCap \in Nat \ {0}

Stream   == 1..MaxStreams
NoStream == 0

VARIABLES
  streams,    \* the map m.streams
  idOf,       \* stream.streamID
  stage,      \* the stream's own goroutine
  k8s,        \* its connection to the Kubernetes API
  known,      \* stream.conn is set
  cancelled,  \* stream.ctx is cancelled
  closes,     \* times stream.closeCh was closed
  up, down,   \* relayClientToK8s and relayK8sToClient
  dataCh,     \* data messages queued for Kubernetes
  written,    \* data messages written to Kubernetes
  dropped,    \* the stream lost a data message
  holds,      \* the stream each closer took out of the map and must finish
  todo,       \* ids CloseAll has still to close
  closer,     \* the goroutine in WebSocketClient.Close
  reading,    \* the reader goroutine is alive
  gateway,    \* the gateway's side of an id
  sentData,   \* data messages the gateway sent for an id
  notices     \* proxy_websocket_close messages sent for an id

vars == <<streams, idOf, stage, k8s, known, cancelled, closes, up, down,
          dataCh, written, dropped, holds, todo, closer, reading, gateway,
          sentData, notices>>

(* The goroutines that call closeStream: stream i itself, the reader, the  *)
(* goroutine in Close.                                                     *)
Reader  == 0
Closer  == MaxStreams + 1
Callers == Reader..Closer

Stages  == {"free", "asked", "dial", "dialed", "relay", "close",
            "release", "done"}
K8sStates == {"none", "open", "gone", "shut"}
RelayStates == {"off", "run", "done"}

dataVars == <<dataCh, written, dropped, sentData>>
gwVars   == <<gateway, notices>>
endVars  == <<todo, closer>>

TypeOK ==
  /\ streams \in [Ids -> Stream \cup {NoStream}]
  /\ idOf \in [Stream -> Ids]
  /\ stage \in [Stream -> Stages]
  /\ k8s \in [Stream -> K8sStates]
  /\ known \in [Stream -> BOOLEAN]
  /\ cancelled \in [Stream -> BOOLEAN]
  /\ closes \in [Stream -> Nat]
  /\ up \in [Stream -> RelayStates]
  /\ down \in [Stream -> RelayStates]
  /\ dataCh \in [Stream -> Seq(Nat)]
  /\ \A i \in Stream : Len(dataCh[i]) <= ChanCap
  /\ written \in [Stream -> Seq(Nat)]
  /\ dropped \in [Stream -> BOOLEAN]
  /\ holds \in [Callers -> Stream \cup {NoStream}]
  /\ todo \in SUBSET Ids
  /\ closer \in {"no", "all", "done"}
  /\ reading \in BOOLEAN
  /\ gateway \in [Ids -> {"idle", "open", "closed"}]
  /\ sentData \in [Ids -> Nat]
  /\ notices \in [Ids -> Nat]

Init ==
  /\ streams = [d \in Ids |-> NoStream]
  /\ idOf \in [Stream -> Ids]       \* fixed when the stream is created
  /\ stage = [i \in Stream |-> "free"]
  /\ k8s = [i \in Stream |-> "none"]
  /\ known = [i \in Stream |-> FALSE]
  /\ cancelled = [i \in Stream |-> FALSE]
  /\ closes = [i \in Stream |-> 0]
  /\ up = [i \in Stream |-> "off"]
  /\ down = [i \in Stream |-> "off"]
  /\ dataCh = [i \in Stream |-> <<>>]
  /\ written = [i \in Stream |-> <<>>]
  /\ dropped = [i \in Stream |-> FALSE]
  /\ holds = [c \in Callers |-> NoStream]
  /\ todo = {}
  /\ closer = "no"
  /\ reading = TRUE
  /\ gateway = [d \in Ids |-> "idle"]
  /\ sentData = [d \in Ids |-> 0]
  /\ notices = [d \in Ids |-> 0]

-----------------------------------------------------------------------------
(* Mutant: the entry stays in the map until its stream is released.        *)
TakeLater(c, d) ==
  /\ holds' = [holds EXCEPT ![c] = streams[d]]
  /\ UNCHANGED streams

(* closeStream: take the entry out of the map under the lock ...           *)
Take(c, d) ==
  /\ holds' = [holds EXCEPT ![c] = streams[d]]
  /\ streams' = [streams EXCEPT ![d] = NoStream]

(* ... and, outside the lock, cancel the stream, close its channel and its *)
(* connection if stream.conn is already visible, and tell the gateway.     *)
Release(c) ==
  LET i == holds[c] IN
  /\ cancelled' = [cancelled EXCEPT ![i] = TRUE]
  /\ closes' = [closes EXCEPT ![i] = @ + 1]
  /\ k8s' = [k8s EXCEPT ![i] = IF known[i] THEN "shut" ELSE @]
  /\ notices' = [notices EXCEPT ![idOf[i]] = @ + 1]
  /\ holds' = [holds EXCEPT ![c] = NoStream]

-----------------------------------------------------------------------------
(* The reader.  It handles one message at a time; once the client's        *)
(* context is cancelled it leaves after the message in hand.               *)
CanRead  == reading /\ holds[Reader] = NoStream
NextRead == reading' = (closer = "no")

(* The gateway asks for stream d, which it may have used before; objects   *)
(* are numbered in this order.                                             *)
Asks(d, i) ==
  /\ CanRead
  /\ stage[i] = "free" /\ idOf[i] = d
  /\ \A j \in Stream : j < i => stage[j] # "free"
  /\ gateway' = [gateway EXCEPT ![d] = "open"]
  /\ NextRead
  /\ UNCHANGED <<idOf, k8s, known, cancelled, closes, up, down, holds,
                 notices, dataVars, endVars>>

(* Mutant: the stream is registered by its goroutine, not by the handler.  *)
HandleStartAsync(d, i) ==
  /\ Asks(d, i)
  /\ stage' = [stage EXCEPT ![i] = "dial"]
  /\ UNCHANGED streams

(* HandleWebSocketProxyStart with a valid path, on the reader.             *)
HandleStart(d, i) ==
  /\ Asks(d, i)
  /\ streams' = [streams EXCEPT ![d] = i]
  /\ stage' = [stage EXCEPT ![i] = "dial"]

(* The same stream asked for by a proxy_request with upgrade headers: the  *)
(* reader spawns a goroutine that registers it later                       *)
(* (DispatchK8sWebSocketProxy).                                            *)
HandleProxyRequest(d, i) ==
  /\ Asks(d, i)
  /\ stage' = [stage EXCEPT ![i] = "asked"]
  /\ UNCHANGED streams

Dispatch(i) ==
  /\ stage[i] = "asked"
  /\ streams' = [streams EXCEPT ![idOf[i]] = i]
  /\ stage' = [stage EXCEPT ![i] = "dial"]
  /\ UNCHANGED <<idOf, k8s, known, cancelled, closes, up, down, holds,
                 reading, gwVars, dataVars, endVars>>

(* HandleWebSocketProxyData: the select takes the queue or the cancelled   *)
(* context, whichever is ready, and drops the message when neither is.     *)
Queue(i, n) ==
  \/ /\ Len(dataCh[i]) < ChanCap
     /\ dataCh' = [dataCh EXCEPT ![i] = Append(@, n)]
     /\ UNCHANGED dropped
  \/ /\ cancelled[i] \/ Len(dataCh[i]) = ChanCap
     /\ dropped' = [dropped EXCEPT ![i] = TRUE]
     /\ UNCHANGED dataCh

HandleData(d) ==
  /\ CanRead
  /\ gateway[d] = "open" /\ sentData[d] < MaxData
  /\ sentData' = [sentData EXCEPT ![d] = @ + 1]
  /\ \/ streams[d] # NoStream /\ Queue(streams[d], sentData'[d])
     \/ streams[d] = NoStream /\ UNCHANGED <<dataCh, dropped>>
  /\ NextRead
  /\ UNCHANGED <<streams, idOf, stage, k8s, known, cancelled, closes, up,
                 down, written, holds, gwVars, endVars>>

(* HandleWebSocketProxyClose.                                              *)
HandleClose(d) ==
  /\ CanRead
  /\ gateway[d] = "open"
  /\ gateway' = [gateway EXCEPT ![d] = "closed"]
  /\ Take(Reader, d)
  /\ NextRead
  /\ UNCHANGED <<idOf, stage, k8s, known, cancelled, closes, up, down,
                 notices, dataVars, endVars>>

ReaderReleases ==
  /\ holds[Reader] # NoStream
  /\ Release(Reader)
  /\ UNCHANGED <<streams, idOf, stage, known, up, down, reading, gateway,
                 dataVars, endVars>>

-----------------------------------------------------------------------------
(* connectToKubernetes: the dial knows nothing of the stream's context.    *)
Dial(i) ==
  /\ stage[i] = "dial"
  /\ \/ /\ stage' = [stage EXCEPT ![i] = "dialed"]
        /\ k8s' = [k8s EXCEPT ![i] = "open"]
     \/ /\ stage' = [stage EXCEPT ![i] = "close"]
        /\ UNCHANGED k8s
  /\ UNCHANGED <<streams, idOf, known, cancelled, closes, up, down, holds,
                 reading, gwVars, dataVars, endVars>>

(* stream.conn is set and the two relay goroutines start.                  *)
StartRelays(i) ==
  /\ stage[i] = "dialed"
  /\ stage' = [stage EXCEPT ![i] = "relay"]
  /\ known' = [known EXCEPT ![i] = TRUE]
  /\ up' = [up EXCEPT ![i] = "run"]
  /\ down' = [down EXCEPT ![i] = "run"]
  /\ UNCHANGED <<streams, idOf, k8s, cancelled, closes, holds, reading,
                 gwVars, dataVars, endVars>>

(* Mutant: no deferred conn.Close().                                       *)
JoinRelaysOpen(i) ==
  /\ stage[i] = "relay"
  /\ up[i] = "done" /\ down[i] = "done"
  /\ stage' = [stage EXCEPT ![i] = "close"]
  /\ UNCHANGED <<streams, idOf, k8s, known, cancelled, closes, up, down,
                 holds, reading, gwVars, dataVars, endVars>>

(* Both relays ended: the deferred conn.Close() runs.                      *)
JoinRelays(i) ==
  /\ stage[i] = "relay"
  /\ up[i] = "done" /\ down[i] = "done"
  /\ stage' = [stage EXCEPT ![i] = "close"]
  /\ k8s' = [k8s EXCEPT ![i] = "shut"]
  /\ UNCHANGED <<streams, idOf, known, cancelled, closes, up, down, holds,
                 reading, gwVars, dataVars, endVars>>

(* The deferred closeStream(stream.streamID).                              *)
CloseOwn(i) ==
  /\ stage[i] = "close"
  /\ Take(i, idOf[i])
  /\ stage' = [stage EXCEPT ![i] = "release"]
  /\ UNCHANGED <<idOf, k8s, known, cancelled, closes, up, down, reading,
                 gwVars, dataVars, endVars>>

ReleaseOwn(i) ==
  /\ stage[i] = "release"
  /\ stage' = [stage EXCEPT ![i] = "done"]
  /\ \/ holds[i] # NoStream /\ Release(i)
     \/ holds[i] = NoStream
        /\ UNCHANGED <<cancelled, closes, k8s, notices, holds>>
  /\ UNCHANGED <<streams, idOf, known, up, down, reading, gateway, dataVars,
                 endVars>>

-----------------------------------------------------------------------------
(* Mutant: the cancelled context is noticed only with a message at hand.   *)
UpStopsOnData(i) ==
  /\ up[i] = "run"
  /\ cancelled[i] /\ dataCh[i] # <<>>
  /\ up' = [up EXCEPT ![i] = "done"]
  /\ UNCHANGED <<streams, idOf, stage, k8s, known, cancelled, closes, down,
                 holds, reading, gwVars, dataVars, endVars>>

(* relayClientToK8s: one pass of its loop.                                 *)
UpStops(i) ==
  /\ up[i] = "run"
  /\ cancelled[i] \/ closes[i] > 0
  /\ up' = [up EXCEPT ![i] = "done"]
  /\ UNCHANGED <<streams, idOf, stage, k8s, known, cancelled, closes, down,
                 holds, reading, gwVars, dataVars, endVars>>

(* Mutant: a write that reported an error after it went through is tried  *)
(* again.                                                                  *)
UpWritesAgain(i) ==
  /\ up[i] = "run"
  /\ dataCh[i] # <<>>
  /\ k8s[i] = "open"
  /\ dataCh' = [dataCh EXCEPT ![i] = Tail(@)]
  /\ written' = [written EXCEPT ![i] = @ \o <<Head(dataCh[i]), Head(dataCh[i])>>]
  /\ UNCHANGED <<streams, idOf, stage, k8s, known, cancelled, closes, up,
                 down, holds, reading, dropped, sentData, gwVars, endVars>>

UpWrites(i) ==
  /\ up[i] = "run"
  /\ dataCh[i] # <<>>
  /\ dataCh' = [dataCh EXCEPT ![i] = Tail(@)]
  /\ \/ /\ k8s[i] = "open"
        /\ written' = [written EXCEPT ![i] = Append(@, Head(dataCh[i]))]
        /\ UNCHANGED <<cancelled, up>>
     \/ /\ k8s[i] # "open"
        /\ cancelled' = [cancelled EXCEPT ![i] = TRUE]
        /\ up' = [up EXCEPT ![i] = "done"]
        /\ UNCHANGED written
     \/ /\ k8s[i] = "gone"           \* not noticed yet
        /\ UNCHANGED <<written, cancelled, up>>
  /\ UNCHANGED <<streams, idOf, stage, k8s, known, closes, down, holds,
                 reading, dropped, sentData, gwVars, endVars>>

(* Mutant: the read side ends without cancelling the write side.           *)
DownStopsAlone(i) ==
  /\ down[i] = "run"
  /\ k8s[i] # "open"
  /\ down' = [down EXCEPT ![i] = "done"]
  /\ UNCHANGED <<streams, idOf, stage, k8s, known, cancelled, closes, up,
                 holds, reading, gwVars, dataVars, endVars>>

(* relayK8sToClient: a read fails, or what was read cannot be sent.        *)
DownStops(i) ==
  /\ down[i] = "run"
  /\ down' = [down EXCEPT ![i] = "done"]
  /\ cancelled' = [cancelled EXCEPT ![i] = TRUE]
  /\ UNCHANGED <<streams, idOf, stage, k8s, known, closes, up, holds,
                 reading, gwVars, dataVars, endVars>>

(* Environment: the Kubernetes API ends the connection.                    *)
K8sEnds(i) ==
  /\ k8s[i] = "open"
  /\ k8s' = [k8s EXCEPT ![i] = "gone"]
  /\ UNCHANGED <<streams, idOf, stage, known, cancelled, closes, up, down,
                 holds, reading, gwVars, dataVars, endVars>>

-----------------------------------------------------------------------------
(* WebSocketClient.Close: CloseAll lists the ids, then closes them.        *)
CloseBegins ==
  /\ closer = "no"
  /\ closer' = "all"
  /\ todo' = {d \in Ids : streams[d] # NoStream}
  /\ UNCHANGED <<streams, idOf, stage, k8s, known, cancelled, closes, up,
                 down, holds, reading, gwVars, dataVars>>

CloseNext(d) ==
  /\ holds[Closer] = NoStream
  /\ d \in todo
  /\ todo' = todo \ {d}
  /\ Take(Closer, d)
  /\ UNCHANGED <<idOf, stage, k8s, known, cancelled, closes, up, down,
                 reading, closer, gwVars, dataVars>>

CloserReleases ==
  /\ holds[Closer] # NoStream
  /\ Release(Closer)
  /\ UNCHANGED <<streams, idOf, stage, known, up, down, reading, gateway,
                 dataVars, endVars>>

(* The control connection is closed: the reader gets no further message.   *)
CloseEnds ==
  /\ closer = "all" /\ todo = {} /\ holds[Closer] = NoStream
  /\ closer' = "done"
  /\ reading' = FALSE
  /\ UNCHANGED <<streams, idOf, stage, k8s, known, cancelled, closes, up,
                 down, holds, todo, gwVars, dataVars>>

-----------------------------------------------------------------------------
StreamStep(i) ==
  \/ Dispatch(i) \/ Dial(i) \/ StartRelays(i) \/ JoinRelays(i)
  \/ CloseOwn(i) \/ ReleaseOwn(i)

Message ==
  \E d \in Ids : HandleData(d) \/ HandleClose(d)
                 \/ \E i \in Stream : HandleStart(d, i)
                                      \/ HandleProxyRequest(d, i)

Next ==
  \/ Message \/ ReaderReleases
  \/ \E i \in Stream :
       StreamStep(i) \/ UpStops(i) \/ UpWrites(i) \/ DownStops(i)
       \/ K8sEnds(i)
  \/ CloseBegins \/ (\E d \in Ids : CloseNext(d)) \/ CloserReleases
  \/ CloseEnds

Spec == Init /\ [][Next]_vars

(* The scheduler runs every goroutine that can go on, and a dial returns.  *)
(* Nothing is assumed of the gateway, of Kubernetes or of who calls Close. *)
Fairness ==
  /\ WF_vars(ReaderReleases) /\ WF_vars(CloserReleases) /\ WF_vars(CloseEnds)
  /\ \A d \in Ids : WF_vars(CloseNext(d))
  /\ \A i \in Stream :
       /\ WF_vars(StreamStep(i))
       /\ WF_vars(UpStops(i)) /\ WF_vars(UpWrites(i))
       /\ WF_vars(DownStops(i) /\ k8s[i] # "open")

FairSpec == Spec /\ Fairness

(* The gateway has not used the id of stream i for another stream.         *)
UsedOnce(i) == \A j \in Stream : idOf[j] = idOf[i] /\ stage[j] # "free" => j = i

-----------------------------------------------------------------------------
(* No stream's closeCh is closed twice, which would panic: the reader, the *)
(* stream's goroutine and CloseAll may all want to close it                *)
(* (closeStream).                                                          *)
ClosedOnce == \A i \in Stream : closes[i] <= 1

(* A stream whose goroutine has returned left no connection to the         *)
(* Kubernetes API open and no entry in the map (connectToKubernetes).      *)
NothingLeft ==
  \A i \in Stream : stage[i] = "done" =>
    /\ k8s[i] \in {"none", "shut"}
    /\ streams[idOf[i]] # i

(* Data that follows a start finds the stream in the map, as long as       *)
(* neither side ended it and the id is not used twice: the start is        *)
(* handled synchronously, before the next message (handleMessage).         *)
DataFindsStream ==
  \A i \in Stream :
    stage[i] \in {"dial", "dialed", "relay"} /\ closer = "no"
      /\ gateway[idOf[i]] = "open" /\ UsedOnce(i)
    => streams[idOf[i]] = i

(* Kubernetes gets the client's data in order, and without a gap unless    *)
(* the stream dropped a message or shares its id                           *)
(* (HandleWebSocketProxyData, relayClientToK8s).                           *)
InOrder ==
  \A i \in Stream : LET w == written[i] IN
    /\ \A m, n \in DOMAIN w : m < n => w[m] < w[n]
    /\ (UsedOnce(i) /\ ~dropped[i]) => \A n \in DOMAIN w : w[n] = w[1] + n - 1

(* The gateway is told of a stream's end once at most, and only after the  *)
(* stream was taken out of the map, when the id is its own (closeStream).  *)
OneNotice ==
  \A i \in Stream : UsedOnce(i) /\ stage[i] # "free" =>
    /\ notices[idOf[i]] <= 1
    /\ notices[idOf[i]] = 1 => streams[idOf[i]] # i

(* However many want to end a stream, and however its id is used again, it *)
(* is ended once: one close of the channel, one notice, one removal.       *)
EndsOnce == ClosedOnce /\ OneNotice

(* A stream whose Kubernetes connection has ended, whichever side ended it,*)
(* winds up: both relays stop, its goroutine returns, and the gateway is   *)
(* sent a close (relayK8sToClient, relayClientToK8s, closeStream).         *)
EndWindsUp ==
  \A i \in Stream :
    k8s[i] \in {"gone", "shut"} ~> stage[i] = "done" /\ notices[idOf[i]] > 0

(* "Clean Shutdown: Proper cleanup on close, errors, or timeout": closing  *)
(* a stream ends its goroutine and its connection (closeStream).           *)
CloseCleansUp == \A i \in Stream : closes[i] = 1 ~> stage[i] = "done"
=============================================================================
