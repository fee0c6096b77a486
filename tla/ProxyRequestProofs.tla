------------------------ MODULE ProxyRequestProofs ------------------------
(***************************************************************************)
(* Proofs about ProxyRequest, for any requests, shapes and numbers of      *)
(* chunks.  The request side rests on a count: until the handler lets go   *)
(* of the body, every chunk sent was read, was skipped as unusable, or is  *)
(* the one the reader is still holding.  The response side rests on where  *)
(* in its handler a request may have been answered.                        *)
(***************************************************************************)
EXTENDS ProxyRequest, TLAPS

(* Stages in which the writer is still open.                               *)
Unanswered == {"new", "spawned", "open", "header", "relay", "fail"}

(* Where a body stands: it ended when the gateway ended it, the reader     *)
(* waits on open pipes only, and no chunk is unaccounted for.            *)
BodyAccount(r) ==
  /\ stage[r] = "new" => pipe[r] = "none"
  /\ pipe[r] = "eof" => bodyEnd[r]
  /\ reader = r => pipe[r] = "open"
  /\ taken[r] + bad[r] <= sent[r]
  /\ ~shut[r] => sent[r] = taken[r] + bad[r] + (IF reader = r THEN 1 ELSE 0)
  /\ ate[r] => pipe[r] = "eof" /\ taken[r] + bad[r] = sent[r]

BodyInv == \A r \in Requests : BodyAccount(r)

(* Where a response stands.                                                *)
AnswerAccount(r) ==
  /\ stage[r] \in Unanswered => answer[r] = "none"
  /\ stage[r] \in {"header", "relay", "fail"} => kind[r] = "http"
  /\ stage[r] \in {"new", "spawned", "open", "header"} => got[r] = 0 /\ served[r] = 0
  /\ got[r] <= served[r]
  /\ stage[r] = "relay" /\ streamed[r] => header[r] /\ got[r] = served[r]
  /\ kind[r] = "http" /\ stage[r] \notin Unanswered => answer[r] # "none"

AnswerInv == \A r \in Requests : AnswerAccount(r)

Inv == TypeOK /\ BodyInv /\ AnswerInv /\ WholeAnswer

-----------------------------------------------------------------------------
Flags ==
  /\ cluster \in BOOLEAN /\ crashed \in BOOLEAN
  /\ streamed \in [Requests -> BOOLEAN] /\ expired \in [Requests -> BOOLEAN]
  /\ shut \in [Requests -> BOOLEAN] /\ bodyEnd \in [Requests -> BOOLEAN]
  /\ ate \in [Requests -> BOOLEAN] /\ header \in [Requests -> BOOLEAN]

Data ==
  /\ reader \in Requests \cup {Idle}
  /\ kind \in [Requests -> Kinds]
  /\ stage \in [Requests -> Stages]
  /\ pipe \in [Requests -> {"none", "open", "eof", "error"}]
  /\ sent \in [Requests -> Nat] /\ \A r \in Requests : sent[r] <= MaxBody[r]
  /\ bad \in [Requests -> Nat]
  /\ taken \in [Requests -> Nat]
  /\ origin \in [Requests -> {"open", "eof", "broken"}]
  /\ served \in [Requests -> 0..MaxResp] /\ got \in [Requests -> 0..MaxResp]
  /\ answer \in [Requests -> {"none", "whole", "error", "lost"}]

(* The end of an answer leaves the flag of its header Boolean.             *)
LEMMA FinishFlag ==
  ASSUME header \in [Requests -> BOOLEAN], NEW r \in Requests,
         NEW what, Finish(r, what)
  PROVE  header' \in [Requests -> BOOLEAN]
BY DEF Finish, Deliver, NotDelivered, answerVars

(* The flags stay Boolean in each step.                                    *)
LEMMA FlagStep == TypeOK /\ [Next]_vars => Flags'
<1> SUFFICES ASSUME TypeOK, [Next]_vars PROVE Flags'
  OBVIOUS
<1> USE ProxyAssumption DEF TypeOK, Flags, Shape, shapeVars, bodyVars,
   originVars, answerVars
<1>1. ASSUME NEW r \in Requests, NEW shape \in Shape, HandleRequest(r, shape)
      PROVE  Flags'
  BY <1>1 DEF HandleRequest, Asks, GoesTo
<1>2. ASSUME NEW r \in Requests,
             HandleChunk(r) \/ ChunkTaken(r) \/ ChunkRefused(r) \/
             CallReturns(r) \/ RelayChunk(r) \/ SessionEnds(r) \/
             Begin(r) \/ HandleEnd(r) \/ HandleCancel(r) \/
             HandleStreamData(r) \/ BodyEnds(r) \/ Expire(r) \/
             Return(r) \/ CallFails(r)
      PROVE  Flags'
  <2>1. CASE HandleChunk(r)
    BY <2>1 DEF HandleChunk, Reading, GoesTo
  <2>2. CASE ChunkTaken(r)
    BY <2>2 DEF ChunkTaken, Reading, GoesTo
  <2>3. CASE ChunkRefused(r)
    BY <2>3 DEF ChunkRefused, Reading, GoesTo
  <2>4. CASE CallReturns(r)
    BY <2>4 DEF CallReturns, Reading, GoesTo
  <2>5. CASE RelayChunk(r)
    BY <2>5 DEF RelayChunk, Reading, GoesTo
  <2>6. CASE SessionEnds(r)
    BY <2>6 DEF SessionEnds, Reading, GoesTo
  <2>7. CASE Begin(r)
    BY <2>7 DEF Begin, Reading, GoesTo
  <2>8. CASE HandleEnd(r)
    BY <2>8 DEF HandleEnd, Reading, GoesTo
  <2>9. CASE HandleCancel(r)
    BY <2>9 DEF HandleCancel, Reading, GoesTo
  <2>10. CASE HandleStreamData(r)
    BY <2>10 DEF HandleStreamData, Reading, GoesTo
  <2>11. CASE BodyEnds(r)
    BY <2>11 DEF BodyEnds, Reading, GoesTo
  <2>12. CASE Expire(r)
    BY <2>12 DEF Expire, Reading, GoesTo
  <2>13. CASE Return(r)
    BY <2>13 DEF Return, Reading, GoesTo
  <2>14. CASE CallFails(r)
    BY <2>14 DEF CallFails, Reading, GoesTo
  <2>15. QED
    BY <1>2, <2>1, <2>2, <2>3, <2>4, <2>5, <2>6, <2>7, <2>8, <2>9, <2>10, <2>11,
       <2>12, <2>13, <2>14
<1>3. ASSUME NEW r \in Requests,
             RelayEnds(r) \/ RelayBreaks(r) \/ Refuse(r) \/
             HandOver(r) \/ OpenSocket(r) \/ Fail(r) \/ Unregister(r)
      PROVE  Flags'
  <2>1. CASE RelayEnds(r)
    BY <2>1, FinishFlag DEF RelayEnds
  <2>2. CASE RelayBreaks(r)
    BY <2>2, FinishFlag DEF RelayBreaks
  <2>3. CASE Refuse(r)
    BY <2>3, FinishFlag DEF Refuse
  <2>4. CASE HandOver(r)
    BY <2>4, FinishFlag DEF HandOver
  <2>5. CASE OpenSocket(r)
    BY <2>5, FinishFlag DEF OpenSocket
  <2>6. CASE Fail(r)
    BY <2>6, FinishFlag DEF Fail
  <2>7. CASE Unregister(r)
    BY <2>7, FinishFlag DEF Unregister
  <2>8. QED
    BY <1>3, <2>1, <2>2, <2>3, <2>4, <2>5, <2>6, <2>7
<1>4. ASSUME NEW r \in Requests, WriteHeader(r)
      PROVE  Flags'
  BY <1>4 DEF WriteHeader, GoesTo
<1>5. CASE UNCHANGED vars
  BY <1>5 DEF vars
<1>6. QED
  BY <1>1, <1>2, <1>3, <1>4, <1>5
     DEF Next, Message, Origin, OriginEnds, Handler

(* Every other variable keeps its type in each step.                       *)
LEMMA DataStep == Inv /\ [Next]_vars => Data'
<1> SUFFICES ASSUME Inv, [Next]_vars PROVE Data'
  OBVIOUS
<1> USE ProxyAssumption DEF Inv, TypeOK, Data, Shape, Kinds, Stages,
   shapeVars, bodyVars, originVars, answerVars
<1>1. ASSUME NEW r \in Requests, NEW shape \in Shape, HandleRequest(r, shape)
      PROVE  Data'
  BY <1>1 DEF HandleRequest, Asks, GoesTo
<1>2. ASSUME NEW r \in Requests, HandleChunk(r)
      PROVE  Data'
  BY <1>2 DEF HandleChunk
<1>3. ASSUME NEW r \in Requests,
             HandleStreamData(r) \/ BodyEnds(r) \/ Expire(r) \/
             ChunkRefused(r) \/ HandleEnd(r) \/ HandleCancel(r)
      PROVE  Data'
  BY <1>3 DEF HandleStreamData, BodyEnds, Reading, Expire, ChunkRefused,
     HandleEnd, HandleCancel
<1>4. ASSUME NEW r \in Requests, ChunkTaken(r)
      PROVE  Data'
  BY <1>4 DEF ChunkTaken, Reading, BodyInv, BodyAccount
<1>5. ASSUME NEW r \in Requests,
             SessionEnds(r) \/ Begin(r) \/ CallReturns(r) \/
             CallFails(r) \/ Return(r)
      PROVE  Data'
  BY <1>5 DEF SessionEnds, GoesTo, Begin, CallReturns, CallFails, Return
<1>6. ASSUME NEW r \in Requests, RelayChunk(r)
      PROVE  Data'
  BY <1>6 DEF RelayChunk, GoesTo, AnswerInv, AnswerAccount
<1>7. ASSUME NEW r \in Requests,
             RelayEnds(r) \/ RelayBreaks(r)
      PROVE  Data'
  <2>1. CASE RelayEnds(r)
    BY <2>1 DEF RelayEnds, GoesTo, Finish, Deliver, NotDelivered
  <2>2. CASE RelayBreaks(r)
    BY <2>2 DEF RelayBreaks, GoesTo, Finish, Deliver, NotDelivered
  <2>3. QED
    BY <1>7, <2>1, <2>2
<1>8. ASSUME NEW r \in Requests,
             Refuse(r) \/ HandOver(r) \/ Fail(r) \/ Unregister(r)
      PROVE  Data'
  BY <1>8 DEF Refuse, GoesTo, Finish, Deliver, NotDelivered, HandOver, Fail,
     Unregister
<1>9. ASSUME NEW r \in Requests, OpenSocket(r)
      PROVE  Data'
  BY <1>9 DEF OpenSocket, GoesTo, Finish, Deliver, NotDelivered
<1>10. ASSUME NEW r \in Requests, WriteHeader(r)
      PROVE  Data'
  BY <1>10 DEF WriteHeader, GoesTo
<1>11. CASE UNCHANGED vars
  BY <1>11 DEF vars
<1>12. QED
  BY <1>1, <1>2, <1>3, <1>4, <1>5, <1>6, <1>7, <1>8, <1>9, <1>10, <1>11
     DEF Next, Message, Origin, OriginEnds, Handler

(* No step loses a chunk of a body.                                        *)
LEMMA BodyStep == Inv /\ [Next]_vars => BodyInv'
<1> SUFFICES ASSUME Inv, [Next]_vars PROVE BodyInv'
  OBVIOUS
<1> USE ProxyAssumption DEF Inv, TypeOK, BodyInv, BodyAccount, Shape, Kinds,
   Stages, shapeVars, bodyVars, originVars, answerVars
<1>1. ASSUME NEW r \in Requests, NEW shape \in Shape, HandleRequest(r, shape)
      PROVE  BodyInv'
  BY <1>1 DEF HandleRequest, Asks, GoesTo
<1>2. ASSUME NEW r \in Requests, HandleChunk(r)
      PROVE  BodyInv'
  BY <1>2 DEF HandleChunk
<1>3. ASSUME NEW r \in Requests, HandleEnd(r)
      PROVE  BodyInv'
  BY <1>3 DEF HandleEnd
<1>4. ASSUME NEW r \in Requests, HandleCancel(r)
      PROVE  BodyInv'
  BY <1>4 DEF HandleCancel
<1>5. ASSUME NEW r \in Requests,
             Begin(r) \/ Refuse(r) \/ HandOver(r) \/ OpenSocket(r) \/
             SessionEnds(r) \/ CallReturns(r) \/ WriteHeader(r) \/
             RelayChunk(r) \/ RelayEnds(r) \/ RelayBreaks(r) \/
             Fail(r) \/ Unregister(r) \/ Expire(r) \/
             HandleStreamData(r)
      PROVE  BodyInv'
  BY <1>5 DEF Begin, GoesTo, Refuse, Finish, Deliver, NotDelivered, HandOver,
     OpenSocket, SessionEnds, CallReturns, WriteHeader, RelayChunk, RelayEnds,
     RelayBreaks, Fail, Unregister, Expire, HandleStreamData
<1>6. ASSUME NEW r \in Requests, ChunkTaken(r)
      PROVE  BodyInv'
  BY <1>6 DEF ChunkTaken, Reading
<1>7. ASSUME NEW r \in Requests, BodyEnds(r)
      PROVE  BodyInv'
  BY <1>7 DEF BodyEnds, Reading
<1>8. ASSUME NEW r \in Requests, CallFails(r)
      PROVE  BodyInv'
  BY <1>8 DEF CallFails, GoesTo
<1>9. ASSUME NEW r \in Requests, Return(r)
      PROVE  BodyInv'
  BY <1>9 DEF Return, GoesTo
<1>10. ASSUME NEW r \in Requests, ChunkRefused(r)
      PROVE  BodyInv'
  BY <1>10 DEF ChunkRefused
<1>11. CASE UNCHANGED vars
  BY <1>11 DEF vars
<1>12. QED
  BY <1>1, <1>2, <1>3, <1>4, <1>5, <1>6, <1>7, <1>8, <1>9, <1>10, <1>11
     DEF Next, Message, Origin, OriginEnds, Handler

(* No step answers a request early, or loses track of its response.        *)
LEMMA AnswerStep == Inv /\ [Next]_vars => AnswerInv'
<1> SUFFICES ASSUME Inv, [Next]_vars PROVE AnswerInv'
  OBVIOUS
<1> USE ProxyAssumption DEF Inv, TypeOK, AnswerInv, AnswerAccount, Unanswered,
   Shape, Kinds, Stages, shapeVars, bodyVars, originVars, answerVars
<1>1. ASSUME NEW r \in Requests, NEW shape \in Shape, HandleRequest(r, shape)
      PROVE  AnswerInv'
  BY <1>1 DEF HandleRequest, Asks, GoesTo
<1>2. ASSUME NEW r \in Requests,
             HandleChunk(r) \/ HandleEnd(r) \/ HandleCancel(r) \/
             HandleStreamData(r) \/ ChunkTaken(r) \/ BodyEnds(r) \/
             ChunkRefused(r) \/ Expire(r)
      PROVE  AnswerInv'
  BY <1>2 DEF HandleChunk, HandleEnd, HandleCancel, HandleStreamData,
     ChunkTaken, Reading, BodyEnds, ChunkRefused, Expire
<1>3. ASSUME NEW r \in Requests, CallReturns(r)
      PROVE  AnswerInv'
  BY <1>3 DEF CallReturns, GoesTo
<1>4. ASSUME NEW r \in Requests, RelayChunk(r)
      PROVE  AnswerInv'
  BY <1>4 DEF RelayChunk, GoesTo
<1>5. ASSUME NEW r \in Requests, RelayEnds(r)
      PROVE  AnswerInv'
  BY <1>5 DEF RelayEnds, GoesTo, Finish, Deliver, NotDelivered
<1>6. ASSUME NEW r \in Requests, CallFails(r)
      PROVE  AnswerInv'
  BY <1>6 DEF CallFails, GoesTo
<1>7. ASSUME NEW r \in Requests, RelayBreaks(r)
      PROVE  AnswerInv'
  BY <1>7 DEF RelayBreaks, GoesTo, Finish, Deliver, NotDelivered
<1>8. ASSUME NEW r \in Requests, SessionEnds(r)
      PROVE  AnswerInv'
  BY <1>8 DEF SessionEnds, GoesTo
<1>9. ASSUME NEW r \in Requests, Begin(r)
      PROVE  AnswerInv'
  BY <1>9 DEF Begin, GoesTo
<1>10. ASSUME NEW r \in Requests, Refuse(r)
      PROVE  AnswerInv'
  BY <1>10 DEF Refuse, GoesTo, Finish, Deliver, NotDelivered
<1>11. ASSUME NEW r \in Requests, HandOver(r)
      PROVE  AnswerInv'
  BY <1>11 DEF HandOver, GoesTo, Finish, Deliver, NotDelivered
<1>12. ASSUME NEW r \in Requests, OpenSocket(r)
      PROVE  AnswerInv'
  BY <1>12 DEF OpenSocket, GoesTo, Finish, Deliver, NotDelivered
<1>13. ASSUME NEW r \in Requests, WriteHeader(r)
      PROVE  AnswerInv'
  BY <1>13 DEF WriteHeader, GoesTo
<1>14. ASSUME NEW r \in Requests, Fail(r)
      PROVE  AnswerInv'
  BY <1>14 DEF Fail, GoesTo, Finish, Deliver, NotDelivered
<1>15. ASSUME NEW r \in Requests, Return(r)
      PROVE  AnswerInv'
  BY <1>15 DEF Return, GoesTo
<1>16. ASSUME NEW r \in Requests, Unregister(r)
      PROVE  AnswerInv'
  BY <1>16 DEF Unregister, GoesTo, Finish, Deliver, NotDelivered
<1>17. CASE UNCHANGED vars
  BY <1>17 DEF vars
<1>18. QED
  BY <1>1, <1>2, <1>3, <1>4, <1>5, <1>6, <1>7, <1>8, <1>9, <1>10, <1>11,
     <1>12, <1>13, <1>14, <1>15, <1>16, <1>17
     DEF Next, Message, Origin, OriginEnds, Handler

(* No step makes a response look whole that is not.                        *)
LEMMA WholeStep == Inv /\ [Next]_vars => WholeAnswer'
<1> SUFFICES ASSUME Inv, [Next]_vars PROVE WholeAnswer'
  OBVIOUS
<1> USE ProxyAssumption DEF Inv, TypeOK, AnswerInv, AnswerAccount,
   WholeAnswer, Unanswered, Shape, Kinds, Stages, shapeVars, bodyVars,
   originVars, answerVars
<1>1. ASSUME NEW r \in Requests, NEW shape \in Shape, HandleRequest(r, shape)
      PROVE  WholeAnswer'
  BY <1>1 DEF HandleRequest, Asks, GoesTo
<1>2. ASSUME NEW r \in Requests,
             HandleChunk(r) \/ HandleEnd(r) \/ HandleCancel(r) \/
             HandleStreamData(r) \/ ChunkTaken(r) \/ BodyEnds(r) \/
             ChunkRefused(r) \/ Expire(r) \/ Begin(r) \/
             CallReturns(r) \/ CallFails(r) \/ SessionEnds(r) \/
             Return(r)
      PROVE  WholeAnswer'
  BY <1>2 DEF HandleChunk, HandleEnd, HandleCancel, HandleStreamData,
     ChunkTaken, Reading, BodyEnds, ChunkRefused, Expire, Begin, GoesTo,
     CallReturns, CallFails, SessionEnds, Return
<1>3. ASSUME NEW r \in Requests, RelayChunk(r)
      PROVE  WholeAnswer'
  BY <1>3 DEF RelayChunk, GoesTo
<1>4. ASSUME NEW r \in Requests, RelayEnds(r)
      PROVE  WholeAnswer'
  BY <1>4 DEF RelayEnds, GoesTo, Finish, Deliver, NotDelivered
<1>5. ASSUME NEW r \in Requests, RelayBreaks(r)
      PROVE  WholeAnswer'
  BY <1>5 DEF RelayBreaks, GoesTo, Finish, Deliver, NotDelivered
<1>6. ASSUME NEW r \in Requests, Refuse(r)
      PROVE  WholeAnswer'
  BY <1>6 DEF Refuse, GoesTo, Finish, Deliver, NotDelivered
<1>7. ASSUME NEW r \in Requests, HandOver(r)
      PROVE  WholeAnswer'
  BY <1>7 DEF HandOver, GoesTo, Finish, Deliver, NotDelivered
<1>8. ASSUME NEW r \in Requests, OpenSocket(r)
      PROVE  WholeAnswer'
  BY <1>8 DEF OpenSocket, GoesTo, Finish, Deliver, NotDelivered
<1>9. ASSUME NEW r \in Requests, WriteHeader(r)
      PROVE  WholeAnswer'
  BY <1>9 DEF WriteHeader, GoesTo
<1>10. ASSUME NEW r \in Requests, Fail(r)
      PROVE  WholeAnswer'
  BY <1>10 DEF Fail, GoesTo, Finish, Deliver, NotDelivered
<1>11. ASSUME NEW r \in Requests, Unregister(r)
      PROVE  WholeAnswer'
  BY <1>11 DEF Unregister, GoesTo, Finish, Deliver, NotDelivered
<1>12. CASE UNCHANGED vars
  BY <1>12 DEF vars
<1>13. QED
  BY <1>1, <1>2, <1>3, <1>4, <1>5, <1>6, <1>7, <1>8, <1>9, <1>10, <1>11, <1>12
     DEF Next, Message, Origin, OriginEnds, Handler

-----------------------------------------------------------------------------
(* The invariant holds initially ...                                       *)
LEMMA Initially == Init => Inv
<1> SUFFICES ASSUME Init PROVE Inv
  OBVIOUS
<1> USE ProxyAssumption DEF Init
<1>1. Flags
  BY DEF Flags
<1>2. Data
  BY DEF Data, Kinds, Stages
<1>3. BodyInv /\ AnswerInv /\ WholeAnswer
  BY DEF BodyInv, BodyAccount, AnswerInv, AnswerAccount, Unanswered, WholeAnswer
<1>4. QED
  BY <1>1, <1>2, <1>3 DEF Inv, TypeOK, Flags, Data

(* ... and in each step.                                                   *)
LEMMA Preserved == Inv /\ [Next]_vars => Inv'
<1>1. Inv /\ [Next]_vars => TypeOK'
  BY FlagStep, DataStep DEF Inv, Flags, Data, TypeOK
<1>2. QED
  BY <1>1, BodyStep, AnswerStep, WholeStep DEF Inv

(* The inductive invariant holds in every behaviour.                       *)
THEOREM Invariance == Spec => []Inv
  BY Initially, Preserved, PTL DEF Spec

(* Every variable of the reader, the handlers and the writers keeps its    *)
(* type (ProxyRequest).                                                    *)
THEOREM RequestTypes == Spec => []TypeOK
  BY Invariance, PTL DEF Inv

(* A request body an origin takes for complete lacks only the chunks the   *)
(* reader could not use, whatever is cancelled, whoever holds the reader   *)
(* and in whatever order the messages are handled (handleMessage).         *)
THEOREM WholeBodies == Spec => []WholeBody
<1>1. Inv => WholeBody
  BY DEF Inv, BodyInv, BodyAccount, WholeBody
<1>2. QED
  BY Invariance, <1>1, PTL

(* No response the gateway takes for complete is cut short or has a hole   *)
(* (handleProxyRequest).                                                   *)
THEOREM WholeAnswers == Spec => []WholeAnswer
  BY Invariance, PTL DEF Inv

(* What a step may do to the answers: nothing once there is one.           *)
Settled ==
  \A r \in Requests : answer[r] # "none" =>
    answer'[r] = answer[r] /\ got'[r] = got[r] /\ header'[r] = header[r]

(* A closed writer sends nothing (CloseWithError).                         *)
LEMMA SettledStep == Inv /\ [Next]_vars => Settled
<1> SUFFICES ASSUME Inv, [Next]_vars PROVE Settled
  OBVIOUS
<1> USE ProxyAssumption DEF Inv, TypeOK, AnswerInv, AnswerAccount, Unanswered,
   Settled, Stages, shapeVars, bodyVars, originVars, answerVars
<1>1. ASSUME NEW r \in Requests, NEW shape \in Shape, HandleRequest(r, shape)
      PROVE  Settled
  BY <1>1 DEF HandleRequest, Asks, GoesTo
<1>2. ASSUME NEW r \in Requests,
             HandleChunk(r) \/ HandleEnd(r) \/ HandleCancel(r) \/
             HandleStreamData(r) \/ ChunkTaken(r) \/ BodyEnds(r) \/
             ChunkRefused(r) \/ Expire(r) \/ Begin(r) \/
             CallReturns(r) \/ CallFails(r) \/ SessionEnds(r) \/
             Return(r)
      PROVE  Settled
  BY <1>2 DEF HandleChunk, HandleEnd, HandleCancel, HandleStreamData,
     ChunkTaken, Reading, BodyEnds, ChunkRefused, Expire, Begin, GoesTo,
     CallReturns, CallFails, SessionEnds, Return
<1>3. ASSUME NEW r \in Requests, RelayChunk(r)
      PROVE  Settled
  BY <1>3 DEF RelayChunk, GoesTo
<1>4. ASSUME NEW r \in Requests,
             RelayEnds(r) \/ RelayBreaks(r) \/ Refuse(r) \/
             HandOver(r) \/ OpenSocket(r) \/ Fail(r) \/ Unregister(r)
      PROVE  Settled
  BY <1>4 DEF RelayEnds, GoesTo, Finish, Deliver, NotDelivered, RelayBreaks,
     Refuse, HandOver, OpenSocket, Fail, Unregister
<1>5. ASSUME NEW r \in Requests, WriteHeader(r)
      PROVE  Settled
  BY <1>5 DEF WriteHeader, GoesTo
<1>6. CASE UNCHANGED vars
  BY <1>6 DEF vars
<1>7. QED
  BY <1>1, <1>2, <1>3, <1>4, <1>5, <1>6
     DEF Next, Message, Origin, OriginEnds, Handler

(* The gateway gets one final message per request and nothing after it     *)
(* (CloseWithError).                                                       *)
THEOREM OneFinalMessage == Spec => OneAnswer
<1>1. Inv /\ [Next]_vars => [Settled]_vars
  BY SettledStep
<1>2. QED
  BY Invariance, <1>1, PTL DEF Spec, OneAnswer, Settled
=============================================================================
