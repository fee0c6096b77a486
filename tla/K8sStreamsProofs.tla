-------------------------- MODULE K8sStreamsProofs --------------------------
(***************************************************************************)
(* Proofs about K8sStreams, for any ids, streams, data and queue.  They    *)
(* rest on who may still close a stream: the map, or the one goroutine     *)
(* that took it out of the map, and nobody once it is closed.              *)
(***************************************************************************)
EXTENDS K8sStreams, SequenceTheorems, TLAPS

(* A stream in the map is under its own id, asked for and not closed.      *)
Mapped ==
  \A d \in Ids : streams[d] # NoStream =>
    /\ idOf[streams[d]] = d
    /\ stage[streams[d]] \notin {"free", "asked"}
    /\ closes[streams[d]] = 0

(* A stream being closed is out of the map and closed by one goroutine.    *)
Held ==
  /\ \A c \in Callers : holds[c] # NoStream =>
       /\ streams[idOf[holds[c]]] # holds[c]
       /\ stage[holds[c]] \notin {"free", "asked"}
       /\ closes[holds[c]] = 0
  /\ \A c, e \in Callers : holds[c] = holds[e] /\ holds[c] # NoStream => c = e
  /\ \A i \in Stream : holds[i] # NoStream => stage[i] = "release"

(* What a stream has at each stage of its goroutine.                       *)
Staged ==
  \A i \in Stream :
    /\ stage[i] \in {"free", "asked"} => closes[i] = 0
    /\ stage[i] \in {"free", "asked", "dial"} => k8s[i] = "none"
    /\ known[i] => stage[i] \in {"relay", "close", "release", "done"}
    /\ stage[i] \in {"close", "release", "done"} => k8s[i] \in {"none", "shut"}
    /\ stage[i] \in {"release", "done"} => streams[idOf[i]] # i

(* The notices sent for an id that one stream used are its closes.         *)
Noticed ==
  /\ \A i \in Stream : UsedOnce(i) /\ stage[i] # "free" =>
       notices[idOf[i]] = closes[i]
  /\ \A d \in Ids :
       (\A j \in Stream : idOf[j] = d => stage[j] = "free") => notices[d] = 0

Idle == closer = "no" => todo = {}

(* What was written, w, then what is queued, q, of the n messages sent, in *)
(* the order they were sent.                                               *)
Sorted(s) == \A m, n \in 1..Len(s) : m < n => s[m] < s[n]

Ordered(w, q, n) ==
  /\ Sorted(w) /\ Sorted(q)
  /\ \A k \in 1..Len(w), l \in 1..Len(q) : w[k] < q[l]
  /\ \A k \in 1..Len(w) : w[k] <= n
  /\ \A l \in 1..Len(q) : q[l] <= n

Sent == \A i \in Stream : Ordered(written[i], dataCh[i], sentData[idOf[i]])

(* Neither has a gap, nor is there one between them while Kubernetes       *)
(* listens, nor after them while the stream is in the map.                 *)
Gapless(s) == \A n \in 1..Len(s) : s[n] = s[1] + n - 1

Complete(i, w, q, n, api, entry) ==
  /\ Gapless(w) /\ Gapless(q)
  /\ api = "open" /\ w # <<>> /\ q # <<>> => q[1] = w[Len(w)] + 1
  /\ entry = i /\ q # <<>> => q[Len(q)] = n
  /\ entry = i /\ api = "open" /\ w # <<>> /\ q = <<>> => w[Len(w)] = n

CompleteStream(i) ==
  Complete(i, written[i], dataCh[i], sentData[idOf[i]], k8s[i],
           streams[idOf[i]])

Queued ==
  \A i \in Stream :
    /\ stage[i] \in {"free", "asked"} => dataCh[i] = <<>>
    /\ stage[i] \in {"free", "asked", "dial"} => written[i] = <<>>
    /\ UsedOnce(i) /\ ~dropped[i] => CompleteStream(i)

Inv ==
  /\ TypeOK /\ Mapped /\ Held /\ Staged /\ Noticed /\ Idle
  /\ ClosedOnce /\ DataFindsStream /\ Sent /\ Queued

-----------------------------------------------------------------------------
Flags ==
  /\ known \in [Stream -> BOOLEAN] /\ cancelled \in [Stream -> BOOLEAN]
  /\ dropped \in [Stream -> BOOLEAN] /\ reading \in BOOLEAN

Data ==
  /\ streams \in [Ids -> Stream \cup {NoStream}]
  /\ idOf \in [Stream -> Ids]
  /\ stage \in [Stream -> Stages] /\ k8s \in [Stream -> K8sStates]
  /\ closes \in [Stream -> Nat]
  /\ up \in [Stream -> RelayStates] /\ down \in [Stream -> RelayStates]
  /\ holds \in [Callers -> Stream \cup {NoStream}]
  /\ todo \in SUBSET Ids
  /\ closer \in {"no", "all", "done"}
  /\ gateway \in [Ids -> {"idle", "open", "closed"}]
  /\ sentData \in [Ids -> Nat] /\ notices \in [Ids -> Nat]

Queues ==
  /\ dataCh \in [Stream -> Seq(Nat)]
  /\ \A i \in Stream : Len(dataCh[i]) <= ChanCap
  /\ written \in [Stream -> Seq(Nat)]

(* What the numbering of streams and goroutines is used for.               *)
LEMMA Numbers ==
  /\ NoStream \notin Stream
  /\ Stream \subseteq Callers
  /\ Reader \in Callers \ Stream /\ Closer \in Callers \ Stream
  /\ Reader # Closer
<1>1. QED
  BY StreamsAssumption DEF NoStream, Stream, Callers, Reader, Closer

(* The flags stay Boolean in each step.                                    *)
LEMMA FlagStep == TypeOK /\ [Next]_vars => Flags'
<1> SUFFICES ASSUME TypeOK, [Next]_vars PROVE Flags'
  OBVIOUS
<1> USE Numbers DEF TypeOK, Flags, dataVars, gwVars, endVars
<1>1. ASSUME NEW d \in Ids, NEW i \in Stream,
             HandleStart(d, i) \/ HandleProxyRequest(d, i)
      PROVE  Flags'
  BY <1>1 DEF HandleStart, Asks, CanRead, NextRead, HandleProxyRequest
<1>2. ASSUME NEW d \in Ids, HandleData(d)
      PROVE  Flags'
  BY <1>2 DEF HandleData, CanRead, NextRead, Queue
<1>3. ASSUME NEW d \in Ids,
             HandleClose(d) \/ CloseNext(d)
      PROVE  Flags'
  BY <1>3 DEF HandleClose, CanRead, NextRead, Take, CloseNext
<1>4. ASSUME ReaderReleases \/ CloserReleases
      PROVE  Flags'
  BY <1>4 DEF ReaderReleases, Release, CloserReleases
<1>5. ASSUME NEW i \in Stream,
             Dispatch(i) \/ Dial(i) \/ StartRelays(i) \/
             JoinRelays(i) \/ CloseOwn(i)
      PROVE  Flags'
  BY <1>5 DEF Dispatch, Dial, StartRelays, JoinRelays, CloseOwn, Take
<1>6. ASSUME NEW i \in Stream, ReleaseOwn(i)
      PROVE  Flags'
  BY <1>6 DEF ReleaseOwn, Release
<1>7. ASSUME NEW i \in Stream,
             UpStops(i) \/ UpWrites(i) \/ DownStops(i) \/ K8sEnds(i)
      PROVE  Flags'
  BY <1>7 DEF UpStops, UpWrites, DownStops, K8sEnds
<1>8. ASSUME CloseBegins \/ CloseEnds
      PROVE  Flags'
  BY <1>8 DEF CloseBegins, CloseEnds
<1>9. CASE UNCHANGED vars
  BY <1>9 DEF vars
<1>10. QED
  BY <1>1, <1>2, <1>3, <1>4, <1>5, <1>6, <1>7, <1>8, <1>9
     DEF Next, Message, StreamStep

(* The queues stay bounded sequences in each step.                         *)
LEMMA QueueStep == TypeOK /\ [Next]_vars => Queues'
<1> SUFFICES ASSUME TypeOK, [Next]_vars PROVE Queues'
  OBVIOUS
<1> USE Numbers DEF TypeOK, Queues, dataVars, gwVars, endVars
<1>1. ASSUME NEW d \in Ids, NEW i \in Stream,
             HandleStart(d, i) \/ HandleProxyRequest(d, i)
      PROVE  Queues'
  BY <1>1 DEF HandleStart, Asks, CanRead, NextRead, HandleProxyRequest
<1>2. ASSUME NEW d \in Ids, HandleData(d)
      PROVE  Queues'
  <2>1. sentData'[d] \in Nat
    BY <1>2 DEF HandleData
  <2>2. CASE streams[d] # NoStream /\ Queue(streams[d], sentData'[d])
    <3>1. streams[d] \in Stream /\ dataCh[streams[d]] \in Seq(Nat)
      BY <2>2
    <3>2. /\ Append(dataCh[streams[d]], sentData'[d]) \in Seq(Nat)
          /\ Len(Append(dataCh[streams[d]], sentData'[d]))
               = Len(dataCh[streams[d]]) + 1
      BY <2>1, <3>1
    <3>3. UNCHANGED written /\ ChanCap \in Nat
      BY <1>2, StreamsAssumption DEF HandleData
    <3>4. CASE /\ Len(dataCh[streams[d]]) < ChanCap
               /\ dataCh' = [dataCh EXCEPT ![streams[d]] = Append(@, sentData'[d])]
      <4>1. Len(dataCh[streams[d]]) \in Nat
        BY <3>1
      <4>2. QED
        BY <3>1, <3>2, <3>3, <3>4, <4>1
    <3>5. CASE UNCHANGED dataCh
      BY <3>3, <3>5
    <3>6. QED
      BY <2>2, <3>4, <3>5 DEF Queue
  <2>3. CASE UNCHANGED <<dataCh, dropped>>
    BY <1>2, <2>3 DEF HandleData
  <2>4. QED
    BY <1>2, <2>2, <2>3 DEF HandleData
<1>3. ASSUME NEW d \in Ids,
             HandleClose(d) \/ CloseNext(d)
      PROVE  Queues'
  BY <1>3 DEF HandleClose, CanRead, NextRead, Take, CloseNext
<1>4. ASSUME ReaderReleases \/ CloseBegins \/ CloserReleases \/
             CloseEnds
      PROVE  Queues'
  BY <1>4 DEF ReaderReleases, Release, CloseBegins, CloserReleases, CloseEnds
<1>5. ASSUME NEW i \in Stream,
             Dispatch(i) \/ Dial(i) \/ StartRelays(i) \/
             JoinRelays(i) \/ CloseOwn(i) \/ ReleaseOwn(i) \/
             UpStops(i) \/ DownStops(i) \/ K8sEnds(i)
      PROVE  Queues'
  BY <1>5 DEF Dispatch, Dial, StartRelays, JoinRelays, CloseOwn, Take,
     ReleaseOwn, Release, UpStops, DownStops, K8sEnds
<1>6. ASSUME NEW i \in Stream, UpWrites(i)
      PROVE  Queues'
  <2>1. Head(dataCh[i]) \in Nat /\ Tail(dataCh[i]) \in Seq(Nat)
        /\ Len(Tail(dataCh[i])) <= ChanCap
    BY <1>6, StreamsAssumption DEF UpWrites
  <2>2. dataCh' \in [Stream -> Seq(Nat)]
        /\ \A j \in Stream : Len(dataCh'[j]) <= ChanCap
    BY <1>6, <2>1 DEF UpWrites
  <2>3. written' \in [Stream -> Seq(Nat)]
    <3>1. Append(written[i], Head(dataCh[i])) \in Seq(Nat)
      BY <2>1
    <3>2. QED
      BY <1>6, <3>1 DEF UpWrites
  <2>4. QED
    BY <2>2, <2>3
<1>7. CASE UNCHANGED vars
  BY <1>7 DEF vars
<1>8. QED
  BY <1>1, <1>2, <1>3, <1>4, <1>5, <1>6, <1>7
     DEF Next, Message, StreamStep

(* Every other variable keeps its type in each step.                       *)
LEMMA DataStep == Inv /\ [Next]_vars => Data'
<1> SUFFICES ASSUME Inv, [Next]_vars PROVE Data'
  OBVIOUS
<1> USE Numbers DEF Inv, TypeOK, Data, Stages, K8sStates, RelayStates,
   dataVars, gwVars, endVars
<1>1. ASSUME NEW d \in Ids, NEW i \in Stream, HandleStart(d, i)
      PROVE  Data'
  BY <1>1 DEF HandleStart, Asks, CanRead, NextRead
<1>2. ASSUME NEW d \in Ids, NEW i \in Stream, HandleProxyRequest(d, i)
      PROVE  Data'
  BY <1>2 DEF HandleProxyRequest, Asks, CanRead, NextRead
<1>3. ASSUME NEW d \in Ids, HandleData(d)
      PROVE  Data'
  BY <1>3 DEF HandleData, CanRead, NextRead, Queue
<1>4. ASSUME NEW d \in Ids, HandleClose(d)
      PROVE  Data'
  BY <1>4 DEF HandleClose, CanRead, NextRead, Take
<1>5. ASSUME ReaderReleases
      PROVE  Data'
  BY <1>5 DEF ReaderReleases, Release, Held
<1>6. ASSUME NEW i \in Stream, Dispatch(i)
      PROVE  Data'
  BY <1>6 DEF Dispatch
<1>7. ASSUME NEW i \in Stream, Dial(i)
      PROVE  Data'
  BY <1>7 DEF Dial
<1>8. ASSUME NEW i \in Stream, StartRelays(i)
      PROVE  Data'
  BY <1>8 DEF StartRelays
<1>9. ASSUME NEW i \in Stream, JoinRelays(i)
      PROVE  Data'
  BY <1>9 DEF JoinRelays
<1>10. ASSUME NEW i \in Stream, CloseOwn(i)
      PROVE  Data'
  BY <1>10 DEF CloseOwn, Take
<1>11. ASSUME NEW i \in Stream, ReleaseOwn(i)
      PROVE  Data'
  <2>1. CASE holds[i] # NoStream /\ Release(i)
    <3>1. holds[i] \in Stream /\ idOf[holds[i]] \in Ids /\ i \in Callers
      BY <2>1 DEF Callers
    <3>2. closes' \in [Stream -> Nat] /\ notices' \in [Ids -> Nat]
      BY <2>1, <3>1 DEF Release
    <3>3. /\ k8s' \in [Stream -> K8sStates]
          /\ holds' \in [Callers -> Stream \cup {NoStream}]
      BY <2>1, <3>1 DEF Release
    <3>4. stage' \in [Stream -> Stages]
      BY <1>11 DEF ReleaseOwn
    <3>5. QED
      BY <1>11, <3>2, <3>3, <3>4 DEF ReleaseOwn
  <2>2. CASE UNCHANGED <<cancelled, closes, k8s, notices, holds>>
    BY <1>11, <2>2 DEF ReleaseOwn, Release
  <2>3. QED
    BY <1>11, <2>1, <2>2 DEF ReleaseOwn
<1>12. ASSUME NEW i \in Stream,
             UpStops(i) \/ UpWrites(i) \/ DownStops(i) \/ K8sEnds(i)
      PROVE  Data'
  <2>1. CASE UpStops(i)
    BY <2>1 DEF UpStops
  <2>2. CASE UpWrites(i)
    BY <2>2 DEF UpWrites
  <2>3. CASE DownStops(i)
    BY <2>3 DEF DownStops
  <2>4. CASE K8sEnds(i)
    BY <2>4 DEF K8sEnds
  <2>5. QED
    BY <1>12, <2>1, <2>2, <2>3, <2>4
<1>13. ASSUME CloseBegins \/ CloseEnds
      PROVE  Data'
  BY <1>13 DEF CloseBegins, CloseEnds
<1>14. ASSUME NEW d \in Ids, CloseNext(d)
      PROVE  Data'
  BY <1>14 DEF CloseNext, Take
<1>15. ASSUME CloserReleases
      PROVE  Data'
  BY <1>15 DEF CloserReleases, Release
<1>16. CASE UNCHANGED vars
  BY <1>16 DEF vars
<1>17. QED
  BY <1>1, <1>2, <1>3, <1>4, <1>5, <1>6, <1>7, <1>8, <1>9, <1>10, <1>11,
     <1>12, <1>13, <1>14, <1>15, <1>16
     DEF Next, Message, StreamStep

(* A stream leaves the map before it is closed (closeStream).              *)
LEMMA MapStep == Inv /\ [Next]_vars => Mapped'
<1> SUFFICES ASSUME Inv, [Next]_vars PROVE Mapped'
  OBVIOUS
<1> USE Numbers DEF Inv, TypeOK, Mapped, Held, Staged, dataVars, gwVars,
   endVars
<1>1. ASSUME NEW d \in Ids, NEW i \in Stream, HandleStart(d, i)
      PROVE  Mapped'
  BY <1>1 DEF HandleStart, Asks, CanRead, NextRead
<1>2. ASSUME NEW d \in Ids, NEW i \in Stream, HandleProxyRequest(d, i)
      PROVE  Mapped'
  BY <1>2 DEF HandleProxyRequest, Asks, CanRead, NextRead
<1>3. ASSUME NEW d \in Ids,
             HandleData(d) \/ HandleClose(d) \/ CloseNext(d)
      PROVE  Mapped'
  BY <1>3 DEF HandleData, CanRead, NextRead, Queue, HandleClose, Take,
     CloseNext
<1>4. ASSUME ReaderReleases \/ CloserReleases
      PROVE  Mapped'
  BY <1>4 DEF ReaderReleases, Release, CloserReleases
<1>5. ASSUME NEW i \in Stream, Dispatch(i)
      PROVE  Mapped'
  BY <1>5 DEF Dispatch
<1>6. ASSUME NEW i \in Stream,
             Dial(i) \/ StartRelays(i) \/ JoinRelays(i) \/ UpStops(i) \/
             UpWrites(i) \/ DownStops(i) \/ K8sEnds(i)
      PROVE  Mapped'
  BY <1>6 DEF Dial, StartRelays, JoinRelays, UpStops, UpWrites, DownStops,
     K8sEnds
<1>7. ASSUME NEW i \in Stream, CloseOwn(i)
      PROVE  Mapped'
  BY <1>7 DEF CloseOwn, Take
<1>8. ASSUME NEW i \in Stream, ReleaseOwn(i)
      PROVE  Mapped'
  <2>1. CASE holds[i] # NoStream /\ Release(i)
    BY <1>8, <2>1 DEF ReleaseOwn, Release
  <2>2. CASE UNCHANGED <<cancelled, closes, k8s, notices, holds>>
    BY <1>8, <2>2 DEF ReleaseOwn, Release
  <2>3. QED
    BY <1>8, <2>1, <2>2 DEF ReleaseOwn
<1>9. ASSUME CloseBegins \/ CloseEnds
      PROVE  Mapped'
  BY <1>9 DEF CloseBegins, CloseEnds
<1>10. CASE UNCHANGED vars
  BY <1>10 DEF vars
<1>11. QED
  BY <1>1, <1>2, <1>3, <1>4, <1>5, <1>6, <1>7, <1>8, <1>9, <1>10
     DEF Next, Message, StreamStep

(* A step that closes nothing and sends no stream back keeps Held.         *)
LEMMA HeldQuiet ==
  ASSUME Held, UNCHANGED <<holds, streams, idOf, closes>>,
         holds \in [Callers -> Stream \cup {NoStream}],
         \A i \in Stream : /\ stage[i] = "release" => stage'[i] = "release"
                           /\ stage[i] \notin {"free", "asked"}
                                => stage'[i] \notin {"free", "asked"}
  PROVE  Held'
BY DEF Held

(* One goroutine takes a stream out of the map (closeStream).              *)
LEMMA HeldStep == Inv /\ [Next]_vars => Held'
<1> SUFFICES ASSUME Inv, [Next]_vars PROVE Held'
  OBVIOUS
<1> USE Numbers DEF Inv, TypeOK, Mapped, Held, Staged, dataVars, gwVars,
   endVars
<1>1. ASSUME NEW d \in Ids, NEW i \in Stream, HandleStart(d, i)
      PROVE  Held'
  BY <1>1 DEF HandleStart, Asks, CanRead, NextRead
<1>2. ASSUME NEW d \in Ids, NEW i \in Stream, HandleProxyRequest(d, i)
      PROVE  Held'
  BY <1>2 DEF HandleProxyRequest, Asks, CanRead, NextRead
<1>3. ASSUME NEW d \in Ids, HandleData(d)
      PROVE  Held'
  BY <1>3 DEF HandleData, CanRead, NextRead, Queue
<1>4. ASSUME NEW d \in Ids, HandleClose(d)
      PROVE  Held'
  BY <1>4 DEF HandleClose, CanRead, NextRead, Take
<1>5. ASSUME ReaderReleases
      PROVE  Held'
  BY <1>5 DEF ReaderReleases, Release
<1>6. ASSUME NEW i \in Stream, Dispatch(i)
      PROVE  Held'
  BY <1>6 DEF Dispatch
<1>7. ASSUME NEW i \in Stream,
             Dial(i) \/ StartRelays(i) \/ JoinRelays(i) \/ UpStops(i) \/
             UpWrites(i) \/ DownStops(i) \/ K8sEnds(i)
      PROVE  Held'
  <2>1. CASE Dial(i)
    <3>1. /\ UNCHANGED <<holds, streams, idOf, closes>>
          /\ stage[i] \notin {"free", "asked", "release"}
          /\ stage'[i] \notin {"free", "asked"}
          /\ \A j \in Stream \ {i} : stage'[j] = stage[j]
      BY <2>1 DEF Dial
    <3>2. QED
      BY <3>1, HeldQuiet
  <2>2. CASE StartRelays(i)
    <3>1. /\ UNCHANGED <<holds, streams, idOf, closes>>
          /\ stage[i] \notin {"free", "asked", "release"}
          /\ stage'[i] \notin {"free", "asked"}
          /\ \A j \in Stream \ {i} : stage'[j] = stage[j]
      BY <2>2 DEF StartRelays
    <3>2. QED
      BY <3>1, HeldQuiet
  <2>3. CASE JoinRelays(i)
    <3>1. /\ UNCHANGED <<holds, streams, idOf, closes>>
          /\ stage[i] \notin {"free", "asked", "release"}
          /\ stage'[i] \notin {"free", "asked"}
          /\ \A j \in Stream \ {i} : stage'[j] = stage[j]
      BY <2>3 DEF JoinRelays
    <3>2. QED
      BY <3>1, HeldQuiet
  <2>4. CASE UpStops(i)
    <3>1. UNCHANGED <<holds, streams, idOf, closes, stage>>
      BY <2>4 DEF UpStops
    <3>2. QED
      BY <3>1, HeldQuiet
  <2>5. CASE UpWrites(i)
    <3>1. UNCHANGED <<holds, streams, idOf, closes, stage>>
      BY <2>5 DEF UpWrites
    <3>2. QED
      BY <3>1, HeldQuiet
  <2>6. CASE DownStops(i)
    <3>1. UNCHANGED <<holds, streams, idOf, closes, stage>>
      BY <2>6 DEF DownStops
    <3>2. QED
      BY <3>1, HeldQuiet
  <2>7. CASE K8sEnds(i)
    <3>1. UNCHANGED <<holds, streams, idOf, closes, stage>>
      BY <2>7 DEF K8sEnds
    <3>2. QED
      BY <3>1, HeldQuiet
  <2>8. QED
    BY <1>7, <2>1, <2>2, <2>3, <2>4, <2>5, <2>6, <2>7
<1>8. ASSUME NEW i \in Stream, CloseOwn(i)
      PROVE  Held'
  BY <1>8 DEF CloseOwn, Take
<1>9. ASSUME NEW i \in Stream, ReleaseOwn(i)
      PROVE  Held'
  <2>1. CASE holds[i] # NoStream /\ Release(i)
    BY <1>9, <2>1 DEF ReleaseOwn, Release
  <2>2. CASE UNCHANGED <<cancelled, closes, k8s, notices, holds>>
    BY <1>9, <2>2 DEF ReleaseOwn, Release
  <2>3. QED
    BY <1>9, <2>1, <2>2 DEF ReleaseOwn
<1>10. ASSUME CloseBegins \/ CloseEnds
      PROVE  Held'
  BY <1>10 DEF CloseBegins, CloseEnds
<1>11. ASSUME NEW d \in Ids, CloseNext(d)
      PROVE  Held'
  BY <1>11 DEF CloseNext, Take
<1>12. ASSUME CloserReleases
      PROVE  Held'
  BY <1>12 DEF CloserReleases, Release
<1>13. CASE UNCHANGED vars
  BY <1>13 DEF vars
<1>14. QED
  BY <1>1, <1>2, <1>3, <1>4, <1>5, <1>6, <1>7, <1>8, <1>9, <1>10, <1>11,
     <1>12, <1>13
     DEF Next, Message, StreamStep

(* What a stage says of a stream stays true.                               *)
LEMMA StagedStep == Inv /\ [Next]_vars => Staged'
<1> SUFFICES ASSUME Inv, [Next]_vars PROVE Staged'
  OBVIOUS
<1> USE Numbers DEF Inv, TypeOK, Mapped, Held, Staged, dataVars, gwVars,
   endVars
<1>1. ASSUME NEW d \in Ids, NEW i \in Stream, HandleStart(d, i)
      PROVE  Staged'
  BY <1>1 DEF HandleStart, Asks, CanRead, NextRead
<1>2. ASSUME NEW d \in Ids, NEW i \in Stream, HandleProxyRequest(d, i)
      PROVE  Staged'
  BY <1>2 DEF HandleProxyRequest, Asks, CanRead, NextRead
<1>3. ASSUME NEW d \in Ids,
             HandleData(d) \/ HandleClose(d) \/ CloseNext(d)
      PROVE  Staged'
  BY <1>3 DEF HandleData, CanRead, NextRead, Queue, HandleClose, Take,
     CloseNext
<1>4. ASSUME ReaderReleases
      PROVE  Staged'
  BY <1>4 DEF ReaderReleases, Release
<1>5. ASSUME NEW i \in Stream, Dispatch(i)
      PROVE  Staged'
  BY <1>5 DEF Dispatch
<1>6. ASSUME NEW i \in Stream, Dial(i)
      PROVE  Staged'
  BY <1>6 DEF Dial
<1>7. ASSUME NEW i \in Stream,
             StartRelays(i) \/ JoinRelays(i) \/ UpStops(i) \/
             UpWrites(i) \/ DownStops(i) \/ K8sEnds(i)
      PROVE  Staged'
  <2>1. CASE StartRelays(i)
    BY <2>1 DEF StartRelays
  <2>2. CASE JoinRelays(i)
    BY <2>2 DEF JoinRelays
  <2>3. CASE UpStops(i)
    BY <2>3 DEF UpStops
  <2>4. CASE UpWrites(i)
    BY <2>4 DEF UpWrites
  <2>5. CASE DownStops(i)
    BY <2>5 DEF DownStops
  <2>6. CASE K8sEnds(i)
    BY <2>6 DEF K8sEnds
  <2>7. QED
    BY <1>7, <2>1, <2>2, <2>3, <2>4, <2>5, <2>6
<1>8. ASSUME NEW i \in Stream, CloseOwn(i)
      PROVE  Staged'
  BY <1>8 DEF CloseOwn, Take
<1>9. ASSUME NEW i \in Stream, ReleaseOwn(i)
      PROVE  Staged'
  <2>1. CASE holds[i] # NoStream /\ Release(i)
    <3>1. holds[i] \in Stream /\ stage[holds[i]] \notin {"free", "asked"}
      BY <2>1
    <3>2. /\ closes' = [closes EXCEPT ![holds[i]] = @ + 1]
          /\ k8s' = [k8s EXCEPT ![holds[i]] = IF known[holds[i]] THEN "shut" ELSE @]
          /\ stage' = [stage EXCEPT ![i] = "done"] /\ stage[i] = "release"
          /\ UNCHANGED <<streams, idOf, known>>
      BY <1>9, <2>1 DEF ReleaseOwn, Release
    <3>3. /\ stage'[i] = "done"
          /\ \A j \in Stream \ {i} : stage'[j] = stage[j]
          /\ \A j \in Stream \ {holds[i]} : closes'[j] = closes[j] /\ k8s'[j] = k8s[j]
          /\ k8s'[holds[i]] = IF known[holds[i]] THEN "shut" ELSE k8s[holds[i]]
      BY <3>1, <3>2
    <3>4. Staged /\ i \in Stream
      OBVIOUS
    <3> HIDE DEF Inv, TypeOK, Mapped, Held
    <3>5. ASSUME NEW j \in Stream
          PROVE  /\ stage'[j] \in {"free", "asked"} => closes'[j] = 0
                 /\ stage'[j] \in {"free", "asked", "dial"} => k8s'[j] = "none"
      <4>1. stage'[j] \in {"free", "asked", "dial"} => j # i /\ stage[j] = stage'[j]
        BY <3>3
      <4>2. QED
        BY <3>1, <3>3, <3>4, <4>1
    <3>6. ASSUME NEW j \in Stream
          PROVE  /\ known'[j] => stage'[j] \in {"relay", "close", "release", "done"}
                 /\ stage'[j] \in {"close", "release", "done"} => k8s'[j] \in {"none", "shut"}
                 /\ stage'[j] \in {"release", "done"} => streams'[idOf'[j]] # j
      BY <3>2, <3>3, <3>4
    <3>7. QED
      BY <3>5, <3>6
  <2>2. CASE UNCHANGED <<cancelled, closes, k8s, notices, holds>>
    BY <1>9, <2>2 DEF ReleaseOwn, Release
  <2>3. QED
    BY <1>9, <2>1, <2>2 DEF ReleaseOwn
<1>10. ASSUME CloseBegins \/ CloseEnds
      PROVE  Staged'
  BY <1>10 DEF CloseBegins, CloseEnds
<1>11. ASSUME CloserReleases
      PROVE  Staged'
  BY <1>11 DEF CloserReleases, Release
<1>12. CASE UNCHANGED vars
  BY <1>12 DEF vars
<1>13. QED
  BY <1>1, <1>2, <1>3, <1>4, <1>5, <1>6, <1>7, <1>8, <1>9, <1>10, <1>11, <1>12
     DEF Next, Message, StreamStep

(* Closing a stream and telling the gateway go together (closeStream).     *)
LEMMA ReleaseNotices ==
  ASSUME Inv, NEW c \in Callers, holds[c] # NoStream, Release(c),
         UNCHANGED idOf,
         \A j \in Stream : stage'[j] = "free" <=> stage[j] = "free"
  PROVE  Noticed'
<1> DEFINE i == holds[c]
<1> USE Numbers DEF Inv, TypeOK
<1>1. /\ i \in Stream /\ stage[i] # "free"
      /\ closes' = [closes EXCEPT ![i] = @ + 1]
      /\ notices' = [notices EXCEPT ![idOf[i]] = @ + 1]
  BY DEF Release, Held
<1>2. ASSUME NEW j \in Stream, UsedOnce(j)', stage'[j] # "free"
      PROVE  notices'[idOf'[j]] = closes'[j]
  <2>1. UsedOnce(j) /\ stage[j] # "free"
    BY <1>2 DEF UsedOnce
  <2>2. notices[idOf[j]] = closes[j] /\ (idOf[i] = idOf[j] => i = j)
    BY <1>1, <2>1 DEF Noticed, UsedOnce
  <2>3. QED
    BY <1>1, <2>2
<1>3. ASSUME NEW d \in Ids, \A j \in Stream : idOf'[j] = d => stage'[j] = "free"
      PROVE  notices'[d] = 0
  BY <1>1, <1>3 DEF Noticed
<1>4. QED
  BY <1>2, <1>3 DEF Noticed

(* Every close is told to the gateway (closeStream).                       *)
LEMMA NoticeStep == Inv /\ [Next]_vars => Noticed'
<1> SUFFICES ASSUME Inv, [Next]_vars PROVE Noticed'
  OBVIOUS
<1> USE Numbers DEF Inv, TypeOK, Mapped, Held, Staged, Noticed, UsedOnce,
   dataVars, gwVars, endVars
<1>1. ASSUME NEW d \in Ids, NEW i \in Stream, HandleStart(d, i)
      PROVE  Noticed'
  BY <1>1 DEF HandleStart, Asks, CanRead, NextRead
<1>2. ASSUME NEW d \in Ids, NEW i \in Stream, HandleProxyRequest(d, i)
      PROVE  Noticed'
  BY <1>2 DEF HandleProxyRequest, Asks, CanRead, NextRead
<1>3. ASSUME NEW d \in Ids,
             HandleData(d) \/ HandleClose(d) \/ CloseNext(d)
      PROVE  Noticed'
  BY <1>3 DEF HandleData, CanRead, NextRead, Queue, HandleClose, Take,
     CloseNext
<1>4. ASSUME ReaderReleases
      PROVE  Noticed'
  BY <1>4, ReleaseNotices DEF ReaderReleases
<1>5. ASSUME NEW i \in Stream, Dispatch(i)
      PROVE  Noticed'
  BY <1>5 DEF Dispatch
<1>6. ASSUME NEW i \in Stream, Dial(i)
      PROVE  Noticed'
  <2>1. CASE stage' = [stage EXCEPT ![i] = "dialed"]
    BY <1>6, <2>1 DEF Dial
  <2>2. CASE stage' = [stage EXCEPT ![i] = "close"]
    BY <1>6, <2>2 DEF Dial
  <2>3. QED
    BY <1>6, <2>1, <2>2 DEF Dial
<1>7. ASSUME NEW i \in Stream, StartRelays(i)
      PROVE  Noticed'
  BY <1>7 DEF StartRelays
<1>8. ASSUME NEW i \in Stream, JoinRelays(i)
      PROVE  Noticed'
  BY <1>8 DEF JoinRelays
<1>9. ASSUME NEW i \in Stream, CloseOwn(i)
      PROVE  Noticed'
  BY <1>9 DEF CloseOwn, Take
<1>10. ASSUME NEW i \in Stream, ReleaseOwn(i)
      PROVE  Noticed'
  <2>1. CASE holds[i] # NoStream /\ Release(i)
    BY <1>10, <2>1, ReleaseNotices DEF ReleaseOwn
  <2>2. CASE UNCHANGED <<cancelled, closes, k8s, notices, holds>>
    BY <1>10, <2>2 DEF ReleaseOwn
  <2>3. QED
    BY <1>10, <2>1, <2>2 DEF ReleaseOwn
<1>11. ASSUME NEW i \in Stream,
             UpStops(i) \/ UpWrites(i) \/ DownStops(i) \/ K8sEnds(i)
      PROVE  Noticed'
  BY <1>11 DEF UpStops, UpWrites, DownStops, K8sEnds
<1>12. ASSUME CloseBegins \/ CloseEnds
      PROVE  Noticed'
  BY <1>12 DEF CloseBegins, CloseEnds
<1>13. ASSUME CloserReleases
      PROVE  Noticed'
  BY <1>13, ReleaseNotices DEF CloserReleases
<1>14. CASE UNCHANGED vars
  BY <1>14 DEF vars
<1>15. QED
  BY <1>1, <1>2, <1>3, <1>4, <1>5, <1>6, <1>7, <1>8, <1>9, <1>10, <1>11,
     <1>12, <1>13, <1>14
     DEF Next, Message, StreamStep

(* No step closes a channel that is closed (closeStream).                  *)
LEMMA OnceStep == Inv /\ [Next]_vars => ClosedOnce'
<1> SUFFICES ASSUME Inv, [Next]_vars PROVE ClosedOnce'
  OBVIOUS
<1> USE Numbers DEF Inv, TypeOK, Held, ClosedOnce, dataVars, gwVars, endVars
<1>1. ASSUME NEW d \in Ids, NEW i \in Stream,
             HandleStart(d, i) \/ HandleProxyRequest(d, i)
      PROVE  ClosedOnce'
  BY <1>1 DEF HandleStart, Asks, CanRead, NextRead, HandleProxyRequest
<1>2. ASSUME NEW d \in Ids,
             HandleData(d) \/ HandleClose(d) \/ CloseNext(d)
      PROVE  ClosedOnce'
  BY <1>2 DEF HandleData, CanRead, NextRead, Queue, HandleClose, Take,
     CloseNext
<1>3. ASSUME ReaderReleases
      PROVE  ClosedOnce'
  BY <1>3 DEF ReaderReleases, Release
<1>4. ASSUME NEW i \in Stream,
             Dispatch(i) \/ Dial(i) \/ StartRelays(i) \/
             JoinRelays(i) \/ CloseOwn(i) \/ UpStops(i) \/
             UpWrites(i) \/ DownStops(i) \/ K8sEnds(i)
      PROVE  ClosedOnce'
  BY <1>4 DEF Dispatch, Dial, StartRelays, JoinRelays, CloseOwn, Take,
     UpStops, UpWrites, DownStops, K8sEnds
<1>5. ASSUME NEW i \in Stream, ReleaseOwn(i)
      PROVE  ClosedOnce'
  <2>1. CASE holds[i] # NoStream /\ Release(i)
    BY <1>5, <2>1 DEF ReleaseOwn, Release
  <2>2. CASE UNCHANGED <<cancelled, closes, k8s, notices, holds>>
    BY <1>5, <2>2 DEF ReleaseOwn, Release
  <2>3. QED
    BY <1>5, <2>1, <2>2 DEF ReleaseOwn
<1>6. ASSUME CloseBegins \/ CloseEnds
      PROVE  ClosedOnce'
  BY <1>6 DEF CloseBegins, CloseEnds
<1>7. ASSUME CloserReleases
      PROVE  ClosedOnce'
  BY <1>7 DEF CloserReleases, Release
<1>8. CASE UNCHANGED vars
  BY <1>8 DEF vars
<1>9. QED
  BY <1>1, <1>2, <1>3, <1>4, <1>5, <1>6, <1>7, <1>8
     DEF Next, Message, StreamStep

(* No step takes a stream in use out of the map.                           *)
LEMMA FindStep == Inv /\ [Next]_vars => DataFindsStream'
<1> SUFFICES ASSUME Inv, [Next]_vars PROVE DataFindsStream'
  OBVIOUS
<1> USE Numbers DEF Inv, TypeOK, Idle, DataFindsStream, UsedOnce, Mapped,
   dataVars, gwVars, endVars
<1>1. ASSUME NEW d \in Ids, NEW i \in Stream, HandleStart(d, i)
      PROVE  DataFindsStream'
  BY <1>1 DEF HandleStart, Asks, CanRead, NextRead
<1>2. ASSUME NEW d \in Ids, NEW i \in Stream, HandleProxyRequest(d, i)
      PROVE  DataFindsStream'
  BY <1>2 DEF HandleProxyRequest, Asks, CanRead, NextRead
<1>3. ASSUME NEW d \in Ids, HandleData(d)
      PROVE  DataFindsStream'
  BY <1>3 DEF HandleData, CanRead, NextRead, Queue
<1>4. ASSUME NEW d \in Ids, HandleClose(d)
      PROVE  DataFindsStream'
  BY <1>4 DEF HandleClose, CanRead, NextRead, Take
<1>5. ASSUME ReaderReleases
      PROVE  DataFindsStream'
  BY <1>5 DEF ReaderReleases, Release
<1>6. ASSUME NEW i \in Stream, Dispatch(i)
      PROVE  DataFindsStream'
  BY <1>6 DEF Dispatch
<1>7. ASSUME NEW i \in Stream, Dial(i)
      PROVE  DataFindsStream'
  <2>1. CASE stage' = [stage EXCEPT ![i] = "dialed"]
    BY <1>7, <2>1 DEF Dial
  <2>2. CASE stage' = [stage EXCEPT ![i] = "close"]
    BY <1>7, <2>2 DEF Dial
  <2>3. QED
    BY <1>7, <2>1, <2>2 DEF Dial
<1>8. ASSUME NEW i \in Stream, StartRelays(i)
      PROVE  DataFindsStream'
  BY <1>8 DEF StartRelays
<1>9. ASSUME NEW i \in Stream,
             JoinRelays(i) \/ UpStops(i) \/ UpWrites(i) \/
             DownStops(i) \/ K8sEnds(i)
      PROVE  DataFindsStream'
  <2>1. CASE JoinRelays(i)
    BY <2>1 DEF JoinRelays
  <2>2. CASE UpStops(i)
    BY <2>2 DEF UpStops
  <2>3. CASE UpWrites(i)
    BY <2>3 DEF UpWrites
  <2>4. CASE DownStops(i)
    BY <2>4 DEF DownStops
  <2>5. CASE K8sEnds(i)
    BY <2>5 DEF K8sEnds
  <2>6. QED
    BY <1>9, <2>1, <2>2, <2>3, <2>4, <2>5
<1>10. ASSUME NEW i \in Stream, CloseOwn(i)
      PROVE  DataFindsStream'
  BY <1>10 DEF CloseOwn, Take
<1>11. ASSUME NEW i \in Stream, ReleaseOwn(i)
      PROVE  DataFindsStream'
  <2>1. CASE holds[i] # NoStream /\ Release(i)
    BY <1>11, <2>1 DEF ReleaseOwn, Release
  <2>2. CASE UNCHANGED <<cancelled, closes, k8s, notices, holds>>
    BY <1>11, <2>2 DEF ReleaseOwn, Release
  <2>3. QED
    BY <1>11, <2>1, <2>2 DEF ReleaseOwn
<1>12. ASSUME CloseBegins \/ CloseEnds
      PROVE  DataFindsStream'
  BY <1>12 DEF CloseBegins, CloseEnds
<1>13. ASSUME NEW d \in Ids, CloseNext(d)
      PROVE  DataFindsStream'
  BY <1>13 DEF CloseNext, Take
<1>14. ASSUME CloserReleases
      PROVE  DataFindsStream'
  BY <1>14 DEF CloserReleases, Release
<1>15. CASE UNCHANGED vars
  BY <1>15 DEF vars
<1>16. QED
  BY <1>1, <1>2, <1>3, <1>4, <1>5, <1>6, <1>7, <1>8, <1>9, <1>10, <1>11,
     <1>12, <1>13, <1>14, <1>15
     DEF Next, Message, StreamStep

(* What the sequences below are made of.                                   *)
LEMMA Elements ==
  ASSUME NEW s \in Seq(Nat)
  PROVE  /\ Len(s) \in Nat /\ (s = <<>> <=> Len(s) = 0)
         /\ \A k \in 1..Len(s) : s[k] \in Nat
<1>1. QED
  BY EmptySeq, LenProperties, ElementOfSeq

(* Appending to a sequence.                                                *)
LEMMA Appended ==
  ASSUME NEW s \in Seq(Nat), NEW e \in Nat
  PROVE  /\ Append(s, e) \in Seq(Nat) /\ Append(s, e) # <<>>
         /\ Len(Append(s, e)) = Len(s) + 1
         /\ \A k \in 1..Len(Append(s, e)) :
              \/ k \in 1..Len(s) /\ Append(s, e)[k] = s[k]
              \/ k = Len(s) + 1 /\ Append(s, e)[k] = e
         /\ Append(s, e)[Len(s) + 1] = e
         /\ \A k \in 1..Len(s) : Append(s, e)[k] = s[k]
<1>1. /\ Append(s, e) \in Seq(Nat) /\ Append(s, e) # <<>>
      /\ Len(Append(s, e)) = Len(s) + 1
      /\ \A k \in 1..Len(s) : Append(s, e)[k] = s[k]
  BY AppendProperties
<1>2. Append(s, e)[Len(s) + 1] = e
  BY AppendProperties
<1>3. Len(s) \in Nat
  BY Elements
<1>4. ASSUME NEW k \in 1..Len(Append(s, e))
      PROVE  \/ k \in 1..Len(s) /\ Append(s, e)[k] = s[k]
             \/ k = Len(s) + 1 /\ Append(s, e)[k] = e
  <2>1. k \in 1..Len(s) \/ k = Len(s) + 1
    BY <1>1, <1>3
  <2>2. QED
    BY <1>1, <1>2, <2>1
<1>5. QED
  BY <1>1, <1>2, <1>4

(* Taking the first element off.                                           *)
LEMMA Shifted ==
  ASSUME NEW s \in Seq(Nat), s # <<>>
  PROVE  /\ Tail(s) \in Seq(Nat) /\ Len(Tail(s)) = Len(s) - 1
         /\ Len(s) \in Nat \ {0} /\ Len(Tail(s)) \in Nat
         /\ Head(s) = s[1] /\ s[1] \in Nat
         /\ \A k \in 1..Len(Tail(s)) : k + 1 \in 1..Len(s) /\ Tail(s)[k] = s[k + 1]
         /\ Tail(s) = <<>> <=> Len(s) = 1
<1>1. /\ Tail(s) \in Seq(Nat) /\ Len(Tail(s)) = Len(s) - 1
      /\ \A k \in 1..Len(Tail(s)) : Tail(s)[k] = s[k + 1]
  BY HeadTailProperties
<1>2. Len(s) \in Nat \ {0} /\ s[1] \in Nat
  BY Elements
<1>3. Head(s) = s[1]
  OBVIOUS
<1>4. Tail(s) = <<>> <=> Len(Tail(s)) = 0
  BY <1>1, Elements
<1>5. QED
  BY <1>1, <1>2, <1>3, <1>4

(* A message queued after all that were sent keeps the order ...           *)
LEMMA OrderedQueue ==
  ASSUME NEW w \in Seq(Nat), NEW q \in Seq(Nat), NEW n \in Nat, Ordered(w, q, n)
  PROVE  Ordered(w, q, n + 1) /\ Ordered(w, Append(q, n + 1), n + 1)
<1> DEFINE a == Append(q, n + 1)
<1>1. n + 1 \in Nat /\ Len(q) \in Nat /\ Len(w) \in Nat
      /\ (\A k \in 1..Len(q) : q[k] \in Nat) /\ (\A k \in 1..Len(w) : w[k] \in Nat)
  BY Elements
<1>2. Len(a) = Len(q) + 1
      /\ \A k \in 1..Len(a) : \/ k \in 1..Len(q) /\ a[k] = q[k]
                              \/ k = Len(q) + 1 /\ a[k] = n + 1
  BY <1>1, Appended
<1> HIDE DEF a
<1>3. Ordered(w, q, n + 1)
  BY <1>1 DEF Ordered
<1>4. Sorted(a)
  <2>1. ASSUME NEW k \in 1..Len(a), NEW l \in 1..Len(a), k < l
        PROVE  a[k] < a[l]
    <3>1. k \in 1..Len(q) /\ a[k] = q[k]
      BY <1>1, <1>2, <2>1
    <3>2. CASE l \in 1..Len(q) /\ a[l] = q[l]
      BY <2>1, <3>1, <3>2 DEF Ordered, Sorted
    <3>3. CASE l = Len(q) + 1 /\ a[l] = n + 1
      BY <1>1, <3>1, <3>3 DEF Ordered
    <3>4. QED
      BY <1>2, <3>2, <3>3
  <2>2. QED
    BY <2>1 DEF Sorted
<1>5. Ordered(w, a, n + 1)
  <2>1. ASSUME NEW l \in 1..Len(a)
        PROVE  a[l] <= n + 1 /\ \A k \in 1..Len(w) : w[k] < a[l]
    <3>1. CASE l \in 1..Len(q) /\ a[l] = q[l]
      BY <1>1, <3>1 DEF Ordered
    <3>2. CASE l = Len(q) + 1 /\ a[l] = n + 1
      BY <1>1, <3>2 DEF Ordered
    <3>3. QED
      BY <1>2, <3>1, <3>2
  <2>2. QED
    BY <1>3, <1>4, <2>1 DEF Ordered
<1>6. QED
  BY <1>3, <1>5 DEF a

(* ... and so does one that is written, or skipped.                        *)
LEMMA OrderedWrite ==
  ASSUME NEW w \in Seq(Nat), NEW q \in Seq(Nat), NEW n \in Nat, Ordered(w, q, n),
         q # <<>>
  PROVE  Ordered(w, Tail(q), n) /\ Ordered(Append(w, Head(q)), Tail(q), n)
<1> DEFINE t == Tail(q)
           a == Append(w, q[1])
<1>1. /\ Len(w) \in Nat /\ Len(q) \in Nat \ {0} /\ q[1] \in Nat /\ Head(q) = q[1]
      /\ (\A k \in 1..Len(q) : q[k] \in Nat) /\ (\A k \in 1..Len(w) : w[k] \in Nat)
  BY Elements, Shifted
<1>2. Len(t) = Len(q) - 1 /\ \A k \in 1..Len(t) : k + 1 \in 1..Len(q) /\ t[k] = q[k + 1]
  BY Shifted
<1>3. Len(a) = Len(w) + 1
      /\ \A k \in 1..Len(a) : \/ k \in 1..Len(w) /\ a[k] = w[k]
                              \/ k = Len(w) + 1 /\ a[k] = q[1]
  BY <1>1, Appended
<1> HIDE DEF t, a
<1>4. Ordered(w, t, n)
  <2>1. ASSUME NEW k \in 1..Len(t), NEW l \in 1..Len(t), k < l
        PROVE  t[k] < t[l]
    <3>1. /\ k + 1 \in 1..Len(q) /\ l + 1 \in 1..Len(q) /\ k + 1 < l + 1
          /\ t[k] = q[k + 1] /\ t[l] = q[l + 1]
      BY <1>1, <1>2, <2>1
    <3>2. QED
      BY <3>1 DEF Ordered, Sorted
  <2>2. Sorted(t)
    BY <2>1 DEF Sorted
  <2>3. QED
    BY <1>2, <2>2 DEF Ordered
<1>5. Sorted(a)
  <2>1. \A k \in 1..Len(w) : w[k] < q[1]
    BY <1>1 DEF Ordered
  <2>2. \A k, l \in 1..Len(w) : k < l => w[k] < w[l]
    BY DEF Ordered, Sorted
  <2>3. ASSUME NEW k \in 1..Len(a), NEW l \in 1..Len(a), k < l
        PROVE  a[k] < a[l]
    <3>1. k \in 1..Len(w) /\ a[k] = w[k]
      BY <1>1, <1>3, <2>3
    <3>2. QED
      BY <1>3, <2>1, <2>2, <2>3, <3>1
  <2>4. QED
    BY <2>3 DEF Sorted
<1>6. ASSUME NEW l \in 1..Len(t) PROVE q[1] < t[l]
  <2>1. 1 \in 1..Len(q) /\ l + 1 \in 1..Len(q) /\ 1 < l + 1 /\ t[l] = q[l + 1]
    BY <1>1, <1>2
  <2>2. QED
    BY <2>1 DEF Ordered, Sorted
<1>7. Ordered(a, t, n)
  <2>1. ASSUME NEW k \in 1..Len(a)
        PROVE  a[k] <= n /\ \A l \in 1..Len(t) : a[k] < t[l]
    <3>1. CASE k \in 1..Len(w) /\ a[k] = w[k]
      BY <1>4, <3>1 DEF Ordered
    <3>2. CASE k = Len(w) + 1 /\ a[k] = q[1]
      <4>1. 1 \in 1..Len(q)
        BY <1>1
      <4>2. QED
        BY <1>6, <3>2, <4>1 DEF Ordered
    <3>3. QED
      BY <1>3, <3>1, <3>2
  <2>2. QED
    BY <1>4, <1>5, <2>1 DEF Ordered
<1>8. QED
  BY <1>1, <1>4, <1>7 DEF t, a

(* A message queued opens no gap ...                                       *)
LEMMA CompleteQueue ==
  ASSUME NEW w \in Seq(Nat), NEW q \in Seq(Nat), NEW n \in Nat,
         NEW i, NEW api, NEW entry, Complete(i, w, q, n, api, entry)
  PROVE  /\ entry # i => Complete(i, w, q, n + 1, api, entry)
         /\ entry = i => Complete(i, w, Append(q, n + 1), n + 1, api, entry)
<1> DEFINE a == Append(q, n + 1)
<1>1. n + 1 \in Nat /\ Len(q) \in Nat /\ Len(w) \in Nat /\ (q = <<>> <=> Len(q) = 0)
      /\ (\A k \in 1..Len(q) : q[k] \in Nat) /\ (\A k \in 1..Len(w) : w[k] \in Nat)
  BY Elements
<1>2. Len(a) = Len(q) + 1 /\ a # <<>> /\ a[Len(q) + 1] = n + 1
      /\ \A k \in 1..Len(q) : a[k] = q[k]
  BY <1>1, Appended
<1> HIDE DEF a
<1>3. ASSUME entry = i PROVE Complete(i, w, a, n + 1, api, entry)
  <2>1. CASE q = <<>>
    <3>1. Gapless(a)
      BY <1>1, <1>2, <2>1 DEF Gapless
    <3>2. api = "open" /\ w # <<>> => a[1] = w[Len(w)] + 1
      BY <1>1, <1>2, <1>3, <2>1 DEF Complete
    <3>3. QED
      BY <1>1, <1>2, <2>1, <3>1, <3>2 DEF Complete
  <2>2. CASE q # <<>>
    <3>1. 1 \in 1..Len(q) /\ q[Len(q)] = n /\ Gapless(q) /\ Len(q) \in 1..Len(q)
      BY <1>1, <1>3, <2>2 DEF Complete
    <3>2. n = q[1] + Len(q) - 1 /\ a[1] = q[1]
      BY <1>2, <3>1 DEF Gapless
    <3>3. ASSUME NEW k \in 1..Len(a) PROVE a[k] = a[1] + k - 1
      <4>1. k \in 1..Len(q) \/ k = Len(q) + 1
        BY <1>1, <1>2
      <4>2. CASE k \in 1..Len(q)
        BY <1>2, <3>1, <3>2, <4>2 DEF Gapless
      <4>3. CASE k = Len(q) + 1
        BY <1>1, <1>2, <3>2, <4>3
      <4>4. QED
        BY <4>1, <4>2, <4>3
    <3>4. api = "open" /\ w # <<>> => a[1] = w[Len(w)] + 1
      BY <2>2, <3>2 DEF Complete
    <3>5. QED
      BY <1>1, <1>2, <3>3, <3>4 DEF Complete, Gapless
  <2>3. QED
    BY <2>1, <2>2
<1>4. QED
  BY <1>3 DEF Complete, a

(* ... nor does one written while Kubernetes listens.                      *)
LEMMA CompleteWrite ==
  ASSUME NEW w \in Seq(Nat), NEW q \in Seq(Nat), NEW n \in Nat, q # <<>>,
         NEW i, NEW api, NEW entry, Complete(i, w, q, n, api, entry)
  PROVE  /\ api # "open" => Complete(i, w, Tail(q), n, api, entry)
         /\ api = "open" => Complete(i, Append(w, Head(q)), Tail(q), n, api, entry)
<1> DEFINE t == Tail(q)
           a == Append(w, q[1])
<1>1. /\ Len(w) \in Nat /\ Len(q) \in Nat \ {0} /\ q[1] \in Nat /\ Head(q) = q[1]
      /\ (\A k \in 1..Len(q) : q[k] \in Nat) /\ (\A k \in 1..Len(w) : w[k] \in Nat)
      /\ (w = <<>> <=> Len(w) = 0)
  BY Elements, Shifted
<1>2. /\ Len(t) = Len(q) - 1 /\ (t = <<>> <=> Len(q) = 1)
      /\ \A k \in 1..Len(t) : k + 1 \in 1..Len(q) /\ t[k] = q[k + 1]
  BY Shifted
<1>3. /\ Len(a) = Len(w) + 1 /\ a # <<>> /\ a[Len(w) + 1] = q[1]
      /\ \A k \in 1..Len(w) : a[k] = w[k]
  BY <1>1, Appended
<1> HIDE DEF t, a
<1>4. \A k \in 1..Len(q) : q[k] = q[1] + k - 1
  BY DEF Complete, Gapless
<1>5. Gapless(t)
  <2>1. ASSUME NEW k \in 1..Len(t) PROVE t[k] = t[1] + k - 1
    <3>1. t[k] = q[1] + (k + 1) - 1
      BY <1>1, <1>2, <1>4
    <3>2. 1 \in 1..Len(t)
      BY <1>1, <1>2
    <3>3. t[1] = q[1] + (1 + 1) - 1
      BY <1>1, <1>2, <1>4, <3>2
    <3>4. QED
      BY <1>1, <3>1, <3>3
  <2>2. QED
    BY <2>1 DEF Gapless
<1>6. t # <<>> => t[1] = q[1] + 1 /\ t[Len(t)] = q[Len(q)]
  <2>1. ASSUME t # <<>> PROVE 1 \in 1..Len(t) /\ Len(t) \in 1..Len(t)
    BY <1>1, <1>2, <2>1
  <2>2. ASSUME t # <<>> PROVE t[1] = q[1] + 1
    <3>1. t[1] = q[1 + 1] /\ 1 + 1 \in 1..Len(q)
      BY <1>2, <2>1, <2>2
    <3>2. QED
      BY <1>1, <1>4, <3>1
  <2>3. ASSUME t # <<>> PROVE t[Len(t)] = q[Len(q)]
    <3>1. t[Len(t)] = q[Len(t) + 1]
      BY <1>2, <2>1, <2>3
    <3>2. QED
      BY <1>1, <1>2, <3>1
  <2>4. QED
    BY <2>2, <2>3
<1>7. ASSUME api = "open" PROVE Complete(i, a, t, n, api, entry)
  <2>1. Gapless(a)
    <3>1. CASE w = <<>>
      BY <1>1, <1>3, <3>1 DEF Gapless
    <3>2. CASE w # <<>>
      <4>1. /\ 1 \in 1..Len(w) /\ Len(w) \in 1..Len(w) /\ w[1] \in Nat
            /\ q[1] = w[Len(w)] + 1 /\ a[1] = w[1]
            /\ \A k \in 1..Len(w) : w[k] = w[1] + k - 1
        BY <1>1, <1>3, <1>7, <3>2 DEF Complete, Gapless
      <4>2. ASSUME NEW k \in 1..Len(a) PROVE a[k] = a[1] + k - 1
        <5>1. k \in 1..Len(w) \/ k = Len(w) + 1
          BY <1>1, <1>3
        <5>2. CASE k \in 1..Len(w)
          BY <1>3, <4>1, <5>2
        <5>3. CASE k = Len(w) + 1
          <6>1. w[Len(w)] = w[1] + Len(w) - 1
            BY <4>1
          <6>2. QED
            BY <1>1, <1>3, <4>1, <5>3, <6>1
        <5>4. QED
          BY <5>1, <5>2, <5>3
      <4>3. QED
        BY <4>2 DEF Gapless
    <3>3. QED
      BY <3>1, <3>2
  <2>2. Len(q) = 1 => t = <<>> /\ q[Len(q)] = q[1]
    BY <1>2
  <2>3. QED
    BY <1>1, <1>2, <1>3, <1>5, <1>6, <2>1, <2>2 DEF Complete
<1>8. ASSUME api # "open" PROVE Complete(i, w, t, n, api, entry)
  BY <1>5, <1>6, <1>8 DEF Complete
<1>9. QED
  BY <1>1, <1>7, <1>8 DEF t, a

(* No step queues or writes data out of order.                             *)
LEMMA SentStep == Inv /\ [Next]_vars => Sent'
<1> SUFFICES ASSUME Inv, [Next]_vars PROVE Sent'
  OBVIOUS
<1> USE Numbers DEF Inv, TypeOK, Sent, dataVars, gwVars, endVars
<1>1. ASSUME NEW d \in Ids, NEW i \in Stream,
             HandleStart(d, i) \/ HandleProxyRequest(d, i)
      PROVE  Sent'
  BY <1>1 DEF HandleStart, Asks, CanRead, NextRead, HandleProxyRequest
<1>2. ASSUME NEW d \in Ids, HandleData(d)
      PROVE  Sent'
  <2>1. /\ sentData[d] \in Nat /\ sentData' = [sentData EXCEPT ![d] = @ + 1]
        /\ UNCHANGED <<idOf, written>>
        /\ \A j \in Stream : written[j] \in Seq(Nat) /\ dataCh[j] \in Seq(Nat)
    BY <1>2 DEF HandleData
  <2>2. CASE UNCHANGED dataCh
    BY <2>1, <2>2, OrderedQueue
  <2>3. CASE /\ streams[d] \in Stream /\ idOf[streams[d]] = d
             /\ dataCh' = [dataCh EXCEPT ![streams[d]] = Append(@, sentData'[d])]
    <3>1. ASSUME NEW j \in Stream
          PROVE  Ordered(written[j], dataCh'[j], sentData'[idOf[j]])
      <4>1. CASE j = streams[d]
        <5>1. dataCh'[j] = Append(dataCh[j], sentData[d] + 1)
              /\ sentData'[idOf[j]] = sentData[d] + 1 /\ idOf[j] = d
          BY <2>1, <2>3, <4>1
        <5>2. QED
          BY <2>1, <5>1, OrderedQueue
      <4>2. CASE j # streams[d]
        <5>1. /\ dataCh'[j] = dataCh[j]
              /\ sentData'[idOf[j]] \in {sentData[idOf[j]], sentData[idOf[j]] + 1}
              /\ sentData[idOf[j]] \in Nat
          BY <2>1, <2>3, <4>2
        <5>2. QED
          BY <2>1, <5>1, OrderedQueue
      <4>3. QED
        BY <4>1, <4>2
    <3>2. QED
      BY <2>1, <3>1
  <2>4. \/ UNCHANGED dataCh
        \/ /\ streams[d] # NoStream
           /\ dataCh' = [dataCh EXCEPT ![streams[d]] = Append(@, sentData'[d])]
    BY <1>2 DEF HandleData, Queue
  <2>5. streams[d] # NoStream => streams[d] \in Stream /\ idOf[streams[d]] = d
    BY DEF Mapped
  <2>6. QED
    BY <2>2, <2>3, <2>4, <2>5
<1>3. ASSUME NEW d \in Ids,
             HandleClose(d) \/ CloseNext(d)
      PROVE  Sent'
  BY <1>3 DEF HandleClose, CanRead, NextRead, Take, CloseNext
<1>4. ASSUME ReaderReleases \/ CloseBegins \/ CloserReleases \/
             CloseEnds
      PROVE  Sent'
  BY <1>4 DEF ReaderReleases, Release, CloseBegins, CloserReleases, CloseEnds
<1>5. ASSUME NEW i \in Stream,
             Dispatch(i) \/ Dial(i) \/ StartRelays(i) \/
             JoinRelays(i) \/ CloseOwn(i) \/ ReleaseOwn(i) \/
             UpStops(i) \/ DownStops(i) \/ K8sEnds(i)
      PROVE  Sent'
  BY <1>5 DEF Dispatch, Dial, StartRelays, JoinRelays, CloseOwn, Take,
     ReleaseOwn, Release, UpStops, DownStops, K8sEnds
<1>6. ASSUME NEW i \in Stream, UpWrites(i)
      PROVE  Sent'
  <2>1. /\ dataCh[i] # <<>> /\ dataCh' = [dataCh EXCEPT ![i] = Tail(@)]
        /\ UNCHANGED <<idOf, sentData>>
        /\ \A j \in Stream : /\ written[j] \in Seq(Nat) /\ dataCh[j] \in Seq(Nat)
                              /\ sentData[idOf[j]] \in Nat
    BY <1>6 DEF UpWrites
  <2>2. CASE written' = [written EXCEPT ![i] = Append(@, Head(dataCh[i]))]
    BY <2>1, <2>2, OrderedWrite
  <2>3. CASE UNCHANGED written
    BY <2>1, <2>3, OrderedWrite
  <2>4. QED
    BY <1>6, <2>2, <2>3 DEF UpWrites
<1>7. CASE UNCHANGED vars
  BY <1>7 DEF vars
<1>8. QED
  BY <1>1, <1>2, <1>3, <1>4, <1>5, <1>6, <1>7
     DEF Next, Message, StreamStep

(* A step that moves no data opens no gap.                                 *)
LEMMA Quiet ==
  ASSUME Queued, UNCHANGED <<dataCh, written, dropped, sentData, idOf>>,
         \A i \in Stream :
           /\ stage[i] # "free" => stage'[i] # "free"
           /\ stage'[i] \in {"free", "asked"} => stage[i] \in {"free", "asked"}
           /\ stage'[i] = "dial" => stage[i] \in {"free", "asked", "dial"}
           /\ k8s'[i] = "open" => k8s[i] = "open" \/ stage[i] = "dial"
           /\ streams'[idOf[i]] = i =>
                streams[idOf[i]] = i \/ stage[i] \in {"free", "asked"}
  PROVE  Queued'
<1> SUFFICES ASSUME NEW i \in Stream
             PROVE  /\ stage'[i] \in {"free", "asked"} => dataCh[i] = <<>>
                    /\ stage'[i] \in {"free", "asked", "dial"} => written[i] = <<>>
                    /\ UsedOnce(i)' /\ ~dropped[i] => CompleteStream(i)'
  BY DEF Queued
<1>1. UsedOnce(i)' => UsedOnce(i)
  BY DEF UsedOnce
<1>2. ASSUME CompleteStream(i) PROVE CompleteStream(i)'
  BY <1>2 DEF Queued, CompleteStream, Complete
<1>3. QED
  BY <1>1, <1>2 DEF Queued

(* No step leaves a gap without dropping a message.                        *)
LEMMA QueuedStep == Inv /\ [Next]_vars => Queued'
<1> SUFFICES ASSUME Inv, [Next]_vars PROVE Queued'
  OBVIOUS
<1> USE Numbers DEF Inv, TypeOK, Mapped, Held, Staged, Queued, dataVars,
   gwVars, endVars
<1>1. ASSUME NEW d \in Ids, NEW i \in Stream, HandleStart(d, i)
      PROVE  Queued'
  <2> HIDE DEF Queued, Mapped, Held, Staged
  <2>1. UNCHANGED <<dataCh, written, dropped, sentData, idOf, k8s>>
    BY <1>1 DEF HandleStart, Asks
  <2>2. /\ stage[i] = "free" /\ stage' = [stage EXCEPT ![i] = "dial"]
        /\ streams' = [streams EXCEPT ![d] = i] /\ idOf[i] = d
    BY <1>1 DEF HandleStart, Asks
  <2>3. \A j \in Stream : streams'[idOf[j]] = j => streams[idOf[j]] = j \/ j = i
    BY <2>2
  <2>4. QED
    BY <2>1, <2>2, <2>3, Quiet
<1>2. ASSUME NEW d \in Ids, NEW i \in Stream, HandleProxyRequest(d, i)
      PROVE  Queued'
  <2> HIDE DEF Queued, Mapped, Held, Staged
  <2>1. UNCHANGED <<dataCh, written, dropped, sentData, idOf, k8s, streams>>
    BY <1>2 DEF HandleProxyRequest, Asks
  <2>2. stage[i] = "free" /\ stage' = [stage EXCEPT ![i] = "asked"]
    BY <1>2 DEF HandleProxyRequest, Asks
  <2>3. QED
    BY <2>1, <2>2, Quiet
<1>3. ASSUME NEW d \in Ids, HandleData(d)
      PROVE  Queued'
  <2>1. /\ sentData[d] \in Nat /\ sentData' = [sentData EXCEPT ![d] = @ + 1]
        /\ UNCHANGED <<idOf, written, stage, k8s, streams>>
        /\ \/ UNCHANGED <<dataCh, dropped>> /\ streams[d] = NoStream
           \/ /\ streams[d] \in Stream /\ UNCHANGED dropped
              /\ dataCh' = [dataCh EXCEPT ![streams[d]] = Append(@, sentData[d] + 1)]
           \/ /\ streams[d] \in Stream /\ UNCHANGED dataCh
              /\ dropped' = [dropped EXCEPT ![streams[d]] = TRUE]
    BY <1>3 DEF HandleData, Queue
  <2>2. ASSUME NEW i \in Stream, UsedOnce(i), ~dropped'[i]
        PROVE  CompleteStream(i)'
    <3>1. ~dropped[i]
      <4>1. CASE UNCHANGED dropped
        BY <2>2, <4>1
      <4>2. CASE /\ streams[d] \in Stream
                 /\ dropped' = [dropped EXCEPT ![streams[d]] = TRUE]
        <5>1. i # streams[d]
          BY <2>2, <4>2
        <5>2. QED
          BY <2>2, <4>2, <5>1
      <4>3. QED
        BY <2>1, <4>1, <4>2
    <3>2. CompleteStream(i) /\ written[i] \in Seq(Nat) /\ dataCh[i] \in Seq(Nat)
      BY <2>2, <3>1
    <3>3. CASE idOf[i] # d
      <4>1. dataCh'[i] = dataCh[i] /\ sentData'[idOf[i]] = sentData[idOf[i]]
        BY <2>1, <3>3
      <4>2. QED
        BY <2>1, <3>2, <4>1 DEF CompleteStream
    <3>4. CASE idOf[i] = d
      <4>1. streams[d] \in Stream => streams[d] = i
        BY <2>2, <3>4 DEF UsedOnce
      <4>2. Complete(i, written[i], dataCh[i], sentData[d], k8s[i], streams[d])
        BY <3>2, <3>4 DEF CompleteStream
      <4>3. Complete(i, written[i], dataCh'[i], sentData[d] + 1, k8s[i], streams[d])
        <5>1. CASE streams[d] = i
          <6>1. dataCh'[i] = Append(dataCh[i], sentData[d] + 1)
            BY <2>1, <2>2, <5>1
          <6>2. QED
            BY <2>1, <3>2, <4>2, <5>1, <6>1, CompleteQueue
        <5>2. CASE streams[d] # i
          <6>1. dataCh'[i] = dataCh[i]
            BY <2>1, <4>1, <5>2
          <6>2. QED
            BY <2>1, <3>2, <4>2, <5>2, <6>1, CompleteQueue
        <5>3. QED
          BY <5>1, <5>2
      <4>4. QED
        BY <2>1, <3>4, <4>3 DEF CompleteStream
    <3>5. QED
      BY <3>3, <3>4
  <2>3. \A i \in Stream : stage[i] \in {"free", "asked"} => dataCh'[i] = <<>>
    BY <2>1
  <2>4. QED
    BY <2>1, <2>2, <2>3 DEF UsedOnce
<1>4. ASSUME NEW d \in Ids,
             HandleClose(d) \/ CloseNext(d)
      PROVE  Queued'
  BY <1>4, Quiet DEF HandleClose, CanRead, NextRead, Take, CloseNext
<1>5. ASSUME ReaderReleases
      PROVE  Queued'
  BY <1>5, Quiet DEF ReaderReleases, Release
<1>6. ASSUME NEW i \in Stream, Dispatch(i)
      PROVE  Queued'
  BY <1>6, Quiet DEF Dispatch
<1>7. ASSUME NEW i \in Stream, Dial(i)
      PROVE  Queued'
  BY <1>7, Quiet DEF Dial
<1>8. ASSUME NEW i \in Stream, StartRelays(i)
      PROVE  Queued'
  BY <1>8, Quiet DEF StartRelays
<1>9. ASSUME NEW i \in Stream, JoinRelays(i)
      PROVE  Queued'
  BY <1>9, Quiet DEF JoinRelays
<1>10. ASSUME NEW i \in Stream, CloseOwn(i)
      PROVE  Queued'
  BY <1>10, Quiet DEF CloseOwn, Take
<1>11. ASSUME NEW i \in Stream, ReleaseOwn(i)
      PROVE  Queued'
  BY <1>11, Quiet DEF ReleaseOwn, Release
<1>12. ASSUME NEW i \in Stream,
             UpStops(i) \/ DownStops(i) \/ K8sEnds(i)
      PROVE  Queued'
  <2>1. CASE UpStops(i)
    BY <2>1, Quiet DEF UpStops
  <2>2. CASE DownStops(i)
    BY <2>2, Quiet DEF DownStops
  <2>3. CASE K8sEnds(i)
    BY <2>3, Quiet DEF K8sEnds
  <2>4. QED
    BY <1>12, <2>1, <2>2, <2>3
<1>13. ASSUME NEW i \in Stream, UpWrites(i)
      PROVE  Queued'
  <2>1. /\ dataCh[i] # <<>> /\ dataCh' = [dataCh EXCEPT ![i] = Tail(@)]
        /\ UNCHANGED <<idOf, sentData, stage, k8s, streams, dropped>>
        /\ \/ /\ k8s[i] = "open"
              /\ written' = [written EXCEPT ![i] = Append(@, Head(dataCh[i]))]
           \/ k8s[i] # "open" /\ UNCHANGED written
    BY <1>13 DEF UpWrites
  <2>2. ASSUME CompleteStream(i) PROVE CompleteStream(i)'
    <3>1. /\ Complete(i, written[i], dataCh[i], sentData[idOf[i]], k8s[i],
                      streams[idOf[i]])
          /\ written[i] \in Seq(Nat) /\ dataCh[i] \in Seq(Nat)
          /\ sentData[idOf[i]] \in Nat
      BY <2>2 DEF CompleteStream
    <3>2. Complete(i, written'[i], dataCh'[i], sentData[idOf[i]], k8s[i],
                   streams[idOf[i]])
      <4>1. CASE k8s[i] = "open"
        <5>1. /\ written'[i] = Append(written[i], Head(dataCh[i]))
              /\ dataCh'[i] = Tail(dataCh[i])
          BY <2>1, <4>1
        <5>2. Complete(i, Append(written[i], Head(dataCh[i])), Tail(dataCh[i]),
                       sentData[idOf[i]], k8s[i], streams[idOf[i]])
          BY <2>1, <3>1, <4>1, CompleteWrite
        <5>3. QED
          BY <5>1, <5>2
      <4>2. CASE k8s[i] # "open"
        BY <2>1, <3>1, <4>2, CompleteWrite
      <4>3. QED
        BY <4>1, <4>2
    <3>3. QED
      BY <2>1, <3>2 DEF CompleteStream
  <2>3. ASSUME NEW j \in Stream, j # i, CompleteStream(j)
        PROVE  CompleteStream(j)'
    BY <2>1, <2>3 DEF CompleteStream
  <2>4. stage[i] \notin {"free", "asked"}
    BY <2>1
  <2>5. \A j \in Stream :
          /\ stage[j] \in {"free", "asked"} => dataCh'[j] = <<>>
          /\ stage[j] \in {"free", "asked", "dial"} => written'[j] = <<>>
    <3>1. \A j \in Stream \ {i} : dataCh'[j] = dataCh[j] /\ written'[j] = written[j]
      BY <2>1
    <3>2. stage[i] = "dial" => written'[i] = written[i]
      BY <2>1
    <3>3. Queued
      OBVIOUS
    <3> HIDE DEF Inv, TypeOK, Mapped, Held, Staged
    <3>4. QED
      BY <2>4, <3>1, <3>2, <3>3
  <2>6. \A j \in Stream : UsedOnce(j)' => UsedOnce(j)
    BY <2>1 DEF UsedOnce
  <2>7. ASSUME NEW j \in Stream, UsedOnce(j), ~dropped[j]
        PROVE  CompleteStream(j)'
    <3>1. CompleteStream(j)
      BY <2>7
    <3>2. QED
      BY <2>2, <2>3, <2>7, <3>1
  <2>8. QED
    BY <2>1, <2>5, <2>6, <2>7
<1>14. ASSUME CloseBegins \/ CloseEnds
      PROVE  Queued'
  BY <1>14, Quiet DEF CloseBegins, CloseEnds
<1>15. ASSUME CloserReleases
      PROVE  Queued'
  BY <1>15, Quiet DEF CloserReleases, Release
<1>16. CASE UNCHANGED vars
  BY <1>16, Quiet DEF vars
<1>17. QED
  BY <1>1, <1>2, <1>3, <1>4, <1>5, <1>6, <1>7, <1>8, <1>9, <1>10, <1>11,
     <1>12, <1>13, <1>14, <1>15, <1>16
     DEF Next, Message, StreamStep

-----------------------------------------------------------------------------
(* The invariant holds initially ...                                       *)
LEMMA Initially == Init => Inv
<1> SUFFICES ASSUME Init PROVE Inv
  OBVIOUS
<1> USE Numbers DEF Init
<1>1. Flags
  BY DEF Flags
<1>2. Data
  BY DEF Data, Stages, K8sStates, RelayStates
<1>3. Queues
  BY StreamsAssumption DEF Queues
<1>4. Mapped /\ Held /\ Staged /\ Noticed /\ Idle
  BY DEF Mapped, Held, Staged, Noticed, Idle
<1>5. ClosedOnce /\ DataFindsStream
  BY DEF ClosedOnce, DataFindsStream
<1>6. Sent /\ Queued
  BY DEF Sent, Ordered, Queued, Sorted, CompleteStream, Complete, Gapless
<1>7. QED
  BY <1>1, <1>2, <1>3, <1>4, <1>5, <1>6 DEF Inv, TypeOK, Flags, Data, Queues

(* Only Close lists ids to close (CloseAll).                               *)
LEMMA IdleStep == Inv /\ [Next]_vars => Idle'
<1> SUFFICES ASSUME Inv, [Next]_vars PROVE Idle'
  OBVIOUS
<1> USE DEF Inv, Idle, dataVars, gwVars, endVars
<1>1. ASSUME NEW d \in Ids, NEW i \in Stream,
             HandleStart(d, i) \/ HandleProxyRequest(d, i)
      PROVE  Idle'
  BY <1>1 DEF HandleStart, Asks, CanRead, NextRead, HandleProxyRequest
<1>2. ASSUME NEW d \in Ids,
             HandleData(d) \/ HandleClose(d)
      PROVE  Idle'
  BY <1>2 DEF HandleData, CanRead, NextRead, Queue, HandleClose, Take
<1>3. ASSUME ReaderReleases \/ CloserReleases
      PROVE  Idle'
  BY <1>3 DEF ReaderReleases, Release, CloserReleases
<1>4. ASSUME NEW i \in Stream,
             Dispatch(i) \/ Dial(i) \/ StartRelays(i) \/
             JoinRelays(i) \/ CloseOwn(i) \/ ReleaseOwn(i) \/
             UpStops(i) \/ UpWrites(i) \/ DownStops(i) \/ K8sEnds(i)
      PROVE  Idle'
  BY <1>4 DEF Dispatch, Dial, StartRelays, JoinRelays, CloseOwn, Take,
     ReleaseOwn, Release, UpStops, UpWrites, DownStops, K8sEnds
<1>5. ASSUME CloseBegins
      PROVE  Idle'
  BY <1>5 DEF CloseBegins
<1>6. ASSUME NEW d \in Ids, CloseNext(d)
      PROVE  Idle'
  BY <1>6 DEF CloseNext, Take
<1>7. ASSUME CloseEnds
      PROVE  Idle'
  BY <1>7 DEF CloseEnds
<1>8. CASE UNCHANGED vars
  BY <1>8 DEF vars
<1>9. QED
  BY <1>1, <1>2, <1>3, <1>4, <1>5, <1>6, <1>7, <1>8
     DEF Next, Message, StreamStep

(* ... and in each step.                                                   *)
LEMMA Preserved == Inv /\ [Next]_vars => Inv'
<1>1. Inv /\ [Next]_vars => TypeOK'
  BY FlagStep, QueueStep, DataStep DEF Inv, Flags, Queues, Data, TypeOK
<1>2. QED
  BY <1>1, MapStep, HeldStep, StagedStep, NoticeStep, IdleStep, OnceStep,
     FindStep, SentStep, QueuedStep
     DEF Inv

(* The inductive invariant holds in every behaviour.                       *)
THEOREM Invariance == Spec => []Inv
  BY Initially, Preserved, PTL DEF Spec

(* Every variable of the streams keeps its type (WebSocketProxyManager).   *)
THEOREM StreamTypes == Spec => []TypeOK
  BY Invariance, PTL DEF Inv

(* The reader, the stream's goroutine and CloseAll never close a channel   *)
(* twice, whatever ids the gateway uses again (closeStream).               *)
THEOREM ChannelsCloseOnce == Spec => []ClosedOnce
  BY Invariance, PTL DEF Inv

(* A goroutine that returned left neither a connection nor an entry        *)
(* (connectToKubernetes).                                                  *)
THEOREM StreamsEndClean == Spec => []NothingLeft
<1>1. Inv => NothingLeft
  BY DEF Inv, Staged, NothingLeft
<1>2. QED
  BY Invariance, <1>1, PTL

(* Data that follows its start finds the stream (handleMessage).           *)
THEOREM StreamsAreFound == Spec => []DataFindsStream
  BY Invariance, PTL DEF Inv

(* The gateway gets one close per stream, after it left the map            *)
(* (closeStream).                                                          *)
THEOREM OneCloseNotice == Spec => []OneNotice
<1>1. ASSUME Inv PROVE OneNotice
  <2>1. ASSUME NEW i \in Stream, UsedOnce(i), stage[i] # "free"
        PROVE  /\ notices[idOf[i]] <= 1
               /\ notices[idOf[i]] = 1 => streams[idOf[i]] # i
    <3>1. notices[idOf[i]] = closes[i] /\ closes[i] <= 1 /\ idOf[i] \in Ids
      BY <1>1, <2>1 DEF Inv, TypeOK, Noticed, ClosedOnce
    <3>2. streams[idOf[i]] = i => closes[i] = 0
      BY <1>1, <3>1, Numbers DEF Inv, Mapped
    <3>3. QED
      BY <3>1, <3>2
  <2>2. QED
    BY <2>1 DEF OneNotice
<1>2. QED
  BY Invariance, <1>1, PTL

(* A stream ends once, for the agent and for the gateway (closeStream).    *)
THEOREM StreamsEndOnce == Spec => []EndsOnce
<1>1. ClosedOnce /\ OneNotice => EndsOnce
  BY DEF EndsOnce
<1>2. QED
  BY ChannelsCloseOnce, OneCloseNotice, <1>1, PTL

(* Kubernetes gets the client's data in order, and without a gap when      *)
(* nothing was dropped (relayClientToK8s).                                 *)
THEOREM DataInOrder == Spec => []InOrder
<1>1. ASSUME Inv, NEW i \in Stream
      PROVE  /\ \A m, n \in DOMAIN written[i] : m < n => written[i][m] < written[i][n]
             /\ UsedOnce(i) /\ ~dropped[i] =>
                  \A n \in DOMAIN written[i] : written[i][n] = written[i][1] + n - 1
  <2>1. DOMAIN written[i] = 1..Len(written[i])
    BY <1>1, LenProperties DEF Inv, TypeOK
  <2>2. Sorted(written[i])
    BY <1>1 DEF Inv, Sent, Ordered
  <2>3. UsedOnce(i) /\ ~dropped[i] => Gapless(written[i])
    BY <1>1 DEF Inv, Queued, CompleteStream, Complete
  <2>4. QED
    BY <2>1, <2>2, <2>3 DEF Sorted, Gapless
<1>2. Inv => InOrder
  BY <1>1 DEF InOrder
<1>3. QED
  BY Invariance, <1>2, PTL
=============================================================================
