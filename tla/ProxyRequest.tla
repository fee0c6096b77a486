---------------------------- MODULE ProxyRequest ----------------------------
(***************************************************************************)
(* HTTP requests the gateway sends through the agent: the reader of a      *)
(* WebSocketClient (handleMessage), one goroutine per request              *)
(* (dispatchStreamingProxyRequest, Agent.handleProxyRequest), its response *)
(* writer, and the pipe that carries a streamed request body.              *)
(*                                                                         *)
(* The reader handles one message at a time.  A body chunk is written to   *)
(* an unbuffered pipe on the reader itself, so until the origin's side     *)
(* reads it or closes the pipe the reader handles nothing else.            *)
(* A request is its request_id; chunks of bodies are counted.              *)
(***************************************************************************)
EXTENDS Naturals, FiniteSets

CONSTANTS
  Requests,     \* request_ids, each used once
  Idle,         \* no request
  Shapes,       \* for each request, what the gateway may ask of it
  MaxBody,      \* bound: for each request, the chunks of its body
  MaxResp       \* bound: chunks of a response body

(* Plain HTTP, a WebSocket to a service, or one to the K8s API; the        *)
(* gateway takes a streamed response; it streams the request body.         *)
Kinds == {"http", "socket", "exec"}
Shape == [kind : Kinds, streamed : BOOLEAN, body : BOOLEAN]

ASSUME ProxyAssumption ==
  /\ Idle \notin Requests
  /\ Shapes \in [Requests -> SUBSET Shape]
  /\ MaxBody \in [Requests -> Nat] /\ MaxResp \in Nat

VARIABLES
  cluster,    \* the agent has a Kubernetes client; without one it is a daemon
  reader,     \* the request whose pipe the reader is blocked on, or Idle
  kind,       \* what the request is
  streamed,   \* its writer is the streaming one
  stage,      \* its goroutine
  expired,    \* its context is done
  pipe,       \* the writer's end of its pipe; open: in activeRequestBodyPipes
  shut,       \* the reader's end of the pipe is closed
  sent,       \* body chunks the gateway sent into the pipe
  bodyEnd,    \* the gateway sent proxy_request_stream_end
  bad,        \* of those, chunks without data or that cannot be decoded
  taken,      \* body chunks the origin read
  ate,        \* the origin read the end of the body
  origin,     \* the origin's response body
  served,     \* response chunks read from the origin
  header,     \* the gateway got the response header
  got,        \* response chunks the gateway got
  answer,     \* the message that ended the response; none: not closed yet
  crashed     \* the process panicked

shapeVars  == <<cluster, kind, streamed>>
bodyVars   == <<pipe, sent, bad, bodyEnd, taken, ate>>
originVars == <<origin, served>>
answerVars == <<header, got, answer>>

vars == <<shapeVars, reader, stage, expired, bodyVars, shut, originVars,
          answerVars, crashed>>

Stages == {"new", "spawned", "open", "header", "relay", "fail", "session",
           "ending", "returned", "done"}

TypeOK ==
  /\ cluster \in BOOLEAN
  /\ reader \in Requests \cup {Idle}
  /\ kind \in [Requests -> Kinds]
  /\ streamed \in [Requests -> BOOLEAN]
  /\ stage \in [Requests -> Stages]
  /\ expired \in [Requests -> BOOLEAN]
  /\ pipe \in [Requests -> {"none", "open", "eof", "error"}]
  /\ shut \in [Requests -> BOOLEAN]
  /\ sent \in [Requests -> Nat] /\ \A r \in Requests : sent[r] <= MaxBody[r]
  /\ bodyEnd \in [Requests -> BOOLEAN]
  /\ bad \in [Requests -> Nat]
  /\ taken \in [Requests -> Nat]
  /\ ate \in [Requests -> BOOLEAN]
  /\ origin \in [Requests -> {"open", "eof", "broken"}]
  /\ served \in [Requests -> 0..MaxResp]
  /\ header \in [Requests -> BOOLEAN]
  /\ got \in [Requests -> 0..MaxResp]
  /\ answer \in [Requests -> {"none", "whole", "error", "lost"}]
  /\ crashed \in BOOLEAN

Init ==
  /\ cluster \in BOOLEAN
  /\ reader = Idle
  /\ kind = [r \in Requests |-> "http"]
  /\ streamed = [r \in Requests |-> FALSE]
  /\ stage = [r \in Requests |-> "new"]
  /\ expired = [r \in Requests |-> FALSE]
  /\ pipe = [r \in Requests |-> "none"]
  /\ shut = [r \in Requests |-> FALSE]
  /\ sent = [r \in Requests |-> 0]
  /\ bodyEnd = [r \in Requests |-> FALSE]
  /\ bad = [r \in Requests |-> 0]
  /\ taken = [r \in Requests |-> 0]
  /\ ate = [r \in Requests |-> FALSE]
  /\ origin = [r \in Requests |-> "open"]
  /\ served = [r \in Requests |-> 0]
  /\ header = [r \in Requests |-> FALSE]
  /\ got = [r \in Requests |-> 0]
  /\ answer = [r \in Requests |-> "none"]
  /\ crashed = FALSE

-----------------------------------------------------------------------------
(* The response writers.  A buffered writer sends one proxy_response       *)
(* (binary first, then JSON) or proxy_error; a streaming one sends the     *)
(* header and each chunk as they come, then an end or an abort.            *)
Deliver(r, what) ==
  /\ answer' = [answer EXCEPT ![r] = what]
  /\ IF what = "whole" /\ ~streamed[r]
     THEN /\ header' = [header EXCEPT ![r] = TRUE]
          /\ got' = [got EXCEPT ![r] = served[r]]
     ELSE UNCHANGED <<header, got>>

NotDelivered(r) ==
  /\ answer' = [answer EXCEPT ![r] = "lost"]
  /\ UNCHANGED <<header, got>>

(* Mutant: no compare-and-swap on closed.                                  *)
FinishAgain(r, what) == Deliver(r, what) \/ NotDelivered(r)

(* CloseWithError, and Close, of both writers: the first one counts.       *)
Finish(r, what) ==
  IF answer[r] = "none" THEN Deliver(r, what) \/ NotDelivered(r)
                        ELSE UNCHANGED answerVars

GoesTo(r, s) == stage' = [stage EXCEPT ![r] = s]

-----------------------------------------------------------------------------
(* The reader.                                                             *)
Asks(r, shape) ==
  /\ reader = Idle
  /\ stage[r] = "new"
  /\ GoesTo(r, "spawned")
  /\ kind' = [kind EXCEPT ![r] = shape.kind]
  /\ streamed' = [streamed EXCEPT ![r] = shape.streamed]
  /\ pipe' = [pipe EXCEPT ![r] = IF shape.body THEN "open" ELSE "none"]

(* proxy_request: parseProxyRequest opens the pipe of a streamed body      *)
(* before the request's goroutine is spawned.                              *)
HandleRequest(r, shape) ==
  /\ Asks(r, shape)
  /\ UNCHANGED <<cluster, reader, expired, sent, bad, bodyEnd, taken, ate,
                 shut, originVars, answerVars, crashed>>

(* Mutant: the request's goroutine opens the pipe: a chunk that comes      *)
(* before is dropped.                                                      *)
HandleChunkEarly(r) ==
  /\ reader = Idle
  /\ pipe[r] = "open" /\ sent[r] < MaxBody[r]
  /\ sent' = [sent EXCEPT ![r] = @ + 1]
  /\ reader' = IF shut[r] \/ stage[r] = "spawned" THEN Idle ELSE r
  /\ UNCHANGED <<shapeVars, stage, expired, pipe, bad, bodyEnd, taken, ate,
                 shut, originVars, answerVars, crashed>>

(* proxy_request_chunk: the reader waits in pipeWriter.Write, unless the   *)
(* other end of the pipe is closed.  A chunk without data, or whose data   *)
(* cannot be decoded, is logged and skipped, and the pipe stays open.      *)
(* Without a pipe a chunk is dropped.                                      *)
HandleChunk(r) ==
  /\ reader = Idle
  /\ pipe[r] = "open" /\ sent[r] < MaxBody[r]
  /\ sent' = [sent EXCEPT ![r] = @ + 1]
  /\ \/ reader' = (IF shut[r] THEN Idle ELSE r) /\ UNCHANGED bad
     \/ bad' = [bad EXCEPT ![r] = @ + 1] /\ UNCHANGED reader
  /\ UNCHANGED <<shapeVars, stage, expired, pipe, bodyEnd, taken, ate, shut,
                 originVars, answerVars, crashed>>

(* proxy_request_stream_end.                                               *)
HandleEnd(r) ==
  /\ reader = Idle
  /\ pipe[r] = "open"
  /\ pipe' = [pipe EXCEPT ![r] = "eof"]
  /\ bodyEnd' = [bodyEnd EXCEPT ![r] = TRUE]
  /\ UNCHANGED <<shapeVars, reader, stage, expired, sent, bad, taken, ate,
                 shut, originVars, answerVars, crashed>>

(* proxy_cancel.  Nothing ever enters activeProxyRequests, so there is no  *)
(* context to cancel: only the pipe is closed, with an error.              *)
HandleCancel(r) ==
  /\ reader = Idle
  /\ pipe[r] = "open"
  /\ pipe' = [pipe EXCEPT ![r] = "error"]
  /\ UNCHANGED <<shapeVars, reader, stage, expired, sent, bad, bodyEnd, taken,
                 ate, shut, originVars, answerVars, crashed>>

(* proxy_stream_data for a WebSocket: a send that does not wait on the     *)
(* stream channel of the registered writer, which the writer closes.       *)
HandleStreamData(r) ==
  /\ reader = Idle
  /\ kind[r] = "socket" /\ stage[r] \notin {"new", "spawned", "done"}
  /\ crashed' = (answer[r] # "none")
  /\ UNCHANGED <<shapeVars, reader, stage, expired, bodyVars, shut,
                 originVars, answerVars>>

(* The transport of an HTTP request may read the body, whatever the        *)
(* handler is doing, until the handler closes it.                          *)
Reading(r) ==
  /\ cluster /\ kind[r] = "http"
  /\ stage[r] \notin {"new", "spawned"} /\ ~shut[r]

ChunkTaken(r) ==
  /\ reader = r /\ Reading(r)
  /\ reader' = Idle
  /\ taken' = [taken EXCEPT ![r] = @ + 1]
  /\ UNCHANGED <<shapeVars, stage, expired, pipe, sent, bad, bodyEnd, ate,
                 shut, originVars, answerVars, crashed>>

ChunkRefused(r) ==
  /\ reader = r /\ shut[r]
  /\ reader' = Idle
  /\ UNCHANGED <<shapeVars, stage, expired, bodyVars, shut, originVars,
                 answerVars, crashed>>

BodyEnds(r) ==
  /\ Reading(r)
  /\ pipe[r] = "eof" /\ ~ate[r]
  /\ ate' = [ate EXCEPT ![r] = TRUE]
  /\ UNCHANGED <<shapeVars, reader, stage, expired, pipe, sent, bad, bodyEnd,
                 taken, shut, originVars, answerVars, crashed>>

-----------------------------------------------------------------------------
(* The request's goroutine.  dispatchStreamingProxyRequest registers the   *)
(* writer.                                                                 *)
Begin(r) ==
  /\ stage[r] = "spawned"
  /\ GoesTo(r, "open")
  /\ UNCHANGED <<shapeVars, reader, expired, bodyVars, shut, originVars,
                 answerVars, crashed>>

(* handleProxyRequest without a Kubernetes client.                         *)
Refuse(r) ==
  /\ stage[r] = "open" /\ ~cluster
  /\ GoesTo(r, "ending")
  /\ Finish(r, "error")
  /\ UNCHANGED <<shapeVars, reader, expired, bodyVars, shut, originVars,
                 crashed>>

(* A WebSocket upgrade for the K8s API is handed to K8sStreams.            *)
HandOver(r) ==
  /\ stage[r] = "open" /\ cluster /\ kind[r] = "exec"
  /\ GoesTo(r, "ending")
  /\ Finish(r, "whole")
  /\ UNCHANGED <<shapeVars, reader, expired, bodyVars, shut, originVars,
                 crashed>>

(* handleWebSocketProxy: the service cannot be reached, or the 101 is sent *)
(* and the writer closed at once, or the 101 cannot be sent.               *)
OpenSocket(r) ==
  /\ stage[r] = "open" /\ cluster /\ kind[r] = "socket"
  /\ \/ GoesTo(r, "ending") /\ Finish(r, "error")
     \/ GoesTo(r, "session") /\ Finish(r, "whole")
     \/ streamed[r] /\ GoesTo(r, "ending") /\ UNCHANGED answerVars
  /\ UNCHANGED <<shapeVars, reader, expired, bodyVars, shut, originVars,
                 crashed>>

(* The frame relay, not modelled here, ends.                               *)
SessionEnds(r) ==
  /\ stage[r] = "session"
  /\ GoesTo(r, "ending")
  /\ UNCHANGED <<shapeVars, reader, expired, bodyVars, shut, originVars,
                 answerVars, crashed>>

(* proxyToService or Client.ProxyRequest returns a response ...            *)
CallReturns(r) ==
  /\ stage[r] = "open" /\ cluster /\ kind[r] = "http"
  /\ GoesTo(r, "header")
  /\ UNCHANGED <<shapeVars, reader, expired, bodyVars, shut, originVars,
                 answerVars, crashed>>

(* Mutant: the call is made without the request's context.                 *)
CallFailsNoContext(r) ==
  /\ stage[r] = "open" /\ cluster /\ kind[r] = "http" /\ ~expired[r]
  /\ GoesTo(r, "fail")
  /\ shut' = [shut EXCEPT ![r] = TRUE]
  /\ UNCHANGED <<shapeVars, reader, expired, bodyVars, originVars,
                 answerVars, crashed>>

(* ... or fails, at any time or because the context is done, and has       *)
(* closed the request body.                                                *)
CallFails(r) ==
  /\ stage[r] = "open" /\ cluster /\ kind[r] = "http"
  /\ GoesTo(r, "fail")
  /\ shut' = [shut EXCEPT ![r] = TRUE]
  /\ UNCHANGED <<shapeVars, reader, expired, bodyVars, originVars,
                 answerVars, crashed>>

(* WriteHeader sends the header, which may fail, or keeps it.              *)
WriteHeader(r) ==
  /\ stage[r] = "header"
  /\ \/ header' = [header EXCEPT ![r] = streamed[r]] /\ GoesTo(r, "relay")
     \/ streamed[r] /\ UNCHANGED header /\ GoesTo(r, "fail")
  /\ UNCHANGED <<shapeVars, reader, expired, bodyVars, shut, originVars,
                 got, answer, crashed>>

(* One pass of the copy loop: a chunk, which a streaming writer sends ...  *)
RelayChunk(r) ==
  /\ stage[r] = "relay" /\ ~expired[r]
  /\ served[r] < MaxResp
  /\ served' = [served EXCEPT ![r] = @ + 1]
  /\ \/ /\ got' = [got EXCEPT ![r] = IF streamed[r] THEN @ + 1 ELSE @]
        /\ UNCHANGED stage
     \/ /\ streamed[r]
        /\ GoesTo(r, "fail")
        /\ UNCHANGED got
  /\ UNCHANGED <<shapeVars, reader, expired, bodyVars, shut, origin, header,
                 answer, crashed>>

(* ... the end of the response ...                                         *)
RelayEnds(r) ==
  /\ stage[r] = "relay" /\ ~expired[r]
  /\ origin' = [origin EXCEPT ![r] = "eof"]
  /\ GoesTo(r, "ending")
  /\ Finish(r, "whole")
  /\ UNCHANGED <<shapeVars, reader, expired, bodyVars, shut, served, crashed>>

(* Mutant: a read error ends the loop like the end of the response.        *)
RelayBreaksQuietly(r) ==
  /\ stage[r] = "relay"
  /\ origin' = [origin EXCEPT ![r] = "broken"]
  /\ GoesTo(r, "ending")
  /\ Finish(r, "whole")
  /\ UNCHANGED <<shapeVars, reader, expired, bodyVars, shut, served, crashed>>

(* ... or an error, which the end of the context also causes.              *)
RelayBreaks(r) ==
  /\ stage[r] = "relay"
  /\ origin' = [origin EXCEPT ![r] = "broken"]
  /\ GoesTo(r, "ending")
  /\ Finish(r, "error")
  /\ UNCHANGED <<shapeVars, reader, expired, bodyVars, shut, served, crashed>>

Fail(r) ==
  /\ stage[r] = "fail"
  /\ GoesTo(r, "ending")
  /\ Finish(r, "error")
  /\ UNCHANGED <<shapeVars, reader, expired, bodyVars, shut, originVars,
                 crashed>>

(* Mutant: the body is closed only after a failed call.                    *)
ReturnOpen(r) ==
  /\ stage[r] = "ending"
  /\ GoesTo(r, "returned")
  /\ expired' = [expired EXCEPT ![r] = TRUE]
  /\ UNCHANGED <<shapeVars, reader, bodyVars, shut, originVars, answerVars,
                 crashed>>

(* handleProxyRequest returns: the deferred cancel() and, on the HTTP path *)
(* only, req.CloseBody().                                                  *)
Return(r) ==
  /\ stage[r] = "ending"
  /\ GoesTo(r, "returned")
  /\ expired' = [expired EXCEPT ![r] = TRUE]
  /\ shut' = [shut EXCEPT ![r] = @ \/ (cluster /\ kind[r] = "http")]
  /\ UNCHANGED <<shapeVars, reader, bodyVars, originVars, answerVars,
                 crashed>>

(* The writer leaves activeProxyWriters and ensureClosed runs.             *)
Unregister(r) ==
  /\ stage[r] = "returned"
  /\ GoesTo(r, "done")
  /\ Finish(r, "whole")
  /\ UNCHANGED <<shapeVars, reader, expired, bodyVars, shut, originVars,
                 crashed>>

(* proxyRequestContext: the request's deadline, its timeout, or 2 minutes  *)
(* (24 hours for a WebSocket) have passed, or the agent is stopped.        *)
Expire(r) ==
  /\ stage[r] \in {"open", "header", "relay", "session"}
  /\ cluster /\ ~expired[r]
  /\ expired' = [expired EXCEPT ![r] = TRUE]
  /\ UNCHANGED <<shapeVars, reader, stage, bodyVars, shut, originVars,
                 answerVars, crashed>>

-----------------------------------------------------------------------------
Message(r) ==
  \/ \E shape \in Shapes[r] : HandleRequest(r, shape)
  \/ HandleChunk(r) \/ HandleEnd(r) \/ HandleCancel(r) \/ HandleStreamData(r)

OriginEnds(r) == CallFails(r) \/ RelayBreaks(r) \/ SessionEnds(r)

Origin(r) ==
  \/ ChunkTaken(r) \/ BodyEnds(r) \/ CallReturns(r) \/ RelayChunk(r)
  \/ RelayEnds(r) \/ OriginEnds(r)

Handler(r) ==
  \/ Begin(r) \/ Refuse(r) \/ HandOver(r) \/ OpenSocket(r) \/ WriteHeader(r)
  \/ Fail(r) \/ Return(r) \/ Unregister(r)

Next ==
  /\ ~crashed
  /\ \E r \in Requests :
       Message(r) \/ Origin(r) \/ Handler(r) \/ ChunkRefused(r) \/ Expire(r)

Spec == Init /\ [][Next]_vars

(* The scheduler runs every goroutine that can go on, a dial to a service  *)
(* times out, a context expires, and a call, a read or a session whose     *)
(* context is done ends.  Nothing is assumed of the gateway or the origins.*)
Fairness ==
  \A r \in Requests :
    /\ WF_vars(~crashed /\ Handler(r))
    /\ WF_vars(~crashed /\ ChunkRefused(r))
    /\ WF_vars(~crashed /\ Expire(r))
    /\ WF_vars(~crashed /\ expired[r] /\ OriginEnds(r))

FairSpec == Spec /\ Fairness

-----------------------------------------------------------------------------
(* The gateway gets one final message per request, and nothing of the      *)
(* response after it, although the handler closes the writer on every path *)
(* and ensureClosed closes it again (CloseWithError).                      *)
OneAnswer ==
  [][\A r \in Requests : answer[r] # "none" =>
       answer'[r] = answer[r] /\ got'[r] = got[r] /\ header'[r] = header[r]]_vars

(* A response the gateway takes for complete is complete: the origin ended *)
(* it, and the gateway has its header and every chunk of it                *)
(* (handleProxyRequest).                                                   *)
WholeAnswer ==
  \A r \in Requests : answer[r] = "whole" /\ kind[r] = "http" =>
    /\ origin[r] = "eof"
    /\ header[r] /\ got[r] = served[r]

(* An origin that reads the end of a request body has read every chunk of  *)
(* it but those the reader could not use, and the gateway had ended it: no *)
(* body is cut short by a cancel, and no chunk is lost because it came too *)
(* early, too late or while another request held the reader                *)
(* (handleMessage).                                                        *)
WholeBody ==
  \A r \in Requests : ate[r] => bodyEnd[r] /\ taken[r] + bad[r] = sent[r]

(* A body an origin takes for complete has no hole: false, for a chunk     *)
(* that cannot be decoded is skipped while its pipe stays open, and the    *)
(* end that follows ends the body well (handleMessage, lines 922-937).     *)
NoHoles ==
  \A r \in Requests : ate[r] => taken[r] = sent[r]

(* The reader, and with it the whole control link, does not stay blocked   *)
(* on the body of an HTTP request: whatever the origin does, the request   *)
(* ends and lets the pipe go (handleProxyRequest).                         *)
ReaderFreed ==
  \A r \in Requests :
    (reader = r /\ kind[r] = "http" /\ cluster) ~> (reader # r \/ crashed)

(* Every request's goroutine ends, and the response was closed on the way  *)
(* (proxyRequestContext, ensureClosed).                                    *)
Answered ==
  \A r \in Requests :
    stage[r] = "spawned" ~>
      (stage[r] = "done" /\ answer[r] # "none") \/ crashed

(* "Handle streaming data from controller for bidirectional WebSocket":    *)
(* stream data for an open WebSocket does not bring the agent down         *)
(* (handleMessage, DeliverStreamData).                                     *)
StreamDataSafe == crashed => \A r \in Requests : stage[r] # "session"
=============================================================================
