-------------------------- MODULE HttpSessionProofs --------------------------
(***************************************************************************)
(* Theorems about HttpSession, for every set of routes and every bound on  *)
(* requests, body pieces and emissions.                                    *)
(***************************************************************************)
EXTENDS HttpSession, TLAPS

Records == [req: Nat, close: BOOLEAN, shut: BOOLEAN, whole: BOOLEAN]
Places == Suspended \cup Straight

(* TypeOK in three parts: what control is made of, the current request and *)
(* its answer, and the connection with what has been written to it.        *)
TypeControl ==
  /\ pc \in Places /\ op \in OpResults /\ expired \in BOOLEAN
  /\ cancelled \in BOOLEAN /\ shielded \in BOOLEAN
  /\ failed \in Failures /\ midstream \in BOOLEAN
  /\ hard \in Failures \cup {"none"}

TypeRequest ==
  /\ req \in Request /\ shutting \in BOOLEAN
  /\ answer \in [site: Sites, keep: BOOLEAN]

PlainConnection ==
  /\ sock \in {"open", "closed", "taken"} /\ buffered \in BOOLEAN /\ peerGone \in BOOLEAN
  /\ reqno \in Nat /\ emits \in 0 .. MaxEmits

TypeConnection == PlainConnection /\ wire \in Seq(Records)

(* Where the body of the current request stands, by control point.  A read *)
(* is only under way while some of the body is missing; a connection is    *)
(* only kept (answer.keep) by an answer written with the body consumed.    *)
BodyInv ==
  /\ pc \in {"body", "uread"} => req.body > 0
  /\ (pc = "upload" /\ op = "read") => req.body > 0
  /\ pc \in {"start", "handler", "unwind", "produce", "next", "wheader", "wchunk",
             "wlast"} => req.body = 0
  /\ pc \in {"loop", "idle", "header"} => req.body = 0 \/ answer.site = "opaque"
  /\ (pc \in {"write", "soft"} /\ answer.keep) => req.body = 0 \/ answer.site = "opaque"
  /\ pc = "raw" => op \in {"pending", "return", "throw", "aborted"}

(* What is being written is the last answer on the wire.                   *)
WireInv == pc \in {"wheader", "wchunk", "wlast", "next", "write"} => Len(wire) > 0

IInv == TypeControl /\ TypeRequest /\ TypeConnection /\ BodyInv /\ WireInv

-----------------------------------------------------------------------------
(* The elements of the enumerations, so that no step has to expand them.   *)
LEMMA Elements ==
  /\ \A p \in {"idle", "header", "body", "uread", "wheader", "wchunk", "wlast", "write",
               "produce", "next", "intercept", "handler", "upload", "soft", "raw", "linger",
               "loop", "dispatch", "start", "unwind", "closing", "done"} : p \in Places
  /\ \A f \in {"request", "timeout", "user", "transport", "aborted", "protocol"} : f \in Failures
  /\ \A r \in {"none", "pending", "ok", "eof", "bad", "error", "timeout", "aborted", "proceed",
               "reject", "throw", "return", "read", "ioerror", "answer", "escalate", "value",
               "end"} : r \in OpResults
BY DEF Places, Suspended, Straight, Reads, Writes, Produces, UserCode, Failures, OpResults

(* Changing whether the connection may be kept, or counting a read of the  *)
(* body, leaves a request.                                                 *)
LEMMA RequestUpdates ==
  ASSUME req \in Request
  PROVE  /\ \A b \in BOOLEAN : /\ [req EXCEPT !.ka = b] \in Request
                               /\ [req EXCEPT !.ka = b].body = req.body
                               /\ [req EXCEPT !.ka = b].ka = b
         /\ req.body > 0 => /\ [req EXCEPT !.body = req.body - 1] \in Request
                            /\ [req EXCEPT !.body = req.body - 1].body = req.body - 1
         /\ req.ka \in BOOLEAN /\ req.body \in Nat
BY SessionAssumption DEF Request

(* How a step may touch the wire: not at all, by starting an answer, or by *)
(* completing the last one.                                                *)
Touch ==
  \/ UNCHANGED wire /\ answer' \in [site: Sites, keep: BOOLEAN]
  \/ \E site \in Sites, close, keep, shut \in BOOLEAN : StartResponse(site, close, keep, shut)
  \/ Len(wire) > 0 /\ MarkWhole /\ UNCHANGED answer

(* Marking the last answer whole keeps the sequence of answers well formed *)
(* and changes nothing but `whole'.                                        *)
LEMMA MarkWholeType ==
  ASSUME wire \in Seq(Records), Len(wire) > 0, MarkWhole
  PROVE  /\ wire' \in Seq(Records)
         /\ Len(wire') = Len(wire)
         /\ \A i \in 1 .. Len(wire) : wire'[i].req = wire[i].req
<1> DEFINE last == wire[Len(wire)]
           rec == [last EXCEPT !.whole = TRUE]
<1>1. last \in Records
  OBVIOUS
<1>2. rec \in Records /\ rec.req = last.req
  BY <1>1 DEF Records
<1>3. wire' = [wire EXCEPT ![Len(wire)] = rec]
  BY DEF MarkWhole
<1> HIDE DEF rec
<1> QED
  BY <1>2, <1>3

(* Starting an answer appends one record for the current request.          *)
LEMMA StartResponseType ==
  ASSUME TypeConnection, NEW site \in Sites, NEW close \in BOOLEAN, NEW keep \in BOOLEAN,
         NEW shut \in BOOLEAN, StartResponse(site, close, keep, shut)
  PROVE  /\ answer' \in [site: Sites, keep: BOOLEAN]
         /\ answer'.keep = keep
         /\ wire' \in Seq(Records)
         /\ Len(wire') = Len(wire) + 1
         /\ \A i \in 1 .. Len(wire) : wire'[i] = wire[i]
         /\ wire'[Len(wire) + 1].req = reqno
<1> DEFINE rec == [req |-> reqno, close |-> close, shut |-> shut, whole |-> FALSE]
<1>1. rec \in Records
  BY DEF TypeConnection, PlainConnection, Records
<1>2. wire' = Append(wire, rec)
  BY DEF StartResponse
<1>3. answer' = [site |-> site, keep |-> keep]
  BY DEF StartResponse
<1>4. rec.req = reqno
  OBVIOUS
<1> HIDE DEF rec
<1> QED
  BY <1>1, <1>2, <1>3, <1>4 DEF TypeConnection

(* An answer that was started is the one being written.                    *)
LEMMA Started ==
  ASSUME wire \in Seq(Records), NEW site, NEW close, NEW keep, NEW shut,
         StartResponse(site, close, keep, shut)
  PROVE  Len(wire') > 0 /\ answer'.keep = keep
<1> DEFINE rec == [req |-> reqno, close |-> close, shut |-> shut, whole |-> FALSE]
<1>1. wire' = Append(wire, rec)
  BY DEF StartResponse
<1>2. answer'.keep = keep
  BY DEF StartResponse
<1> HIDE DEF rec
<1> QED
  BY <1>1, <1>2

(* Touching the wire keeps it well formed.                                 *)
LEMMA TouchType ==
  ASSUME TypeConnection, TypeRequest, Touch
  PROVE  /\ answer' \in [site: Sites, keep: BOOLEAN]
         /\ wire' \in Seq(Records)
         /\ Len(wire') >= Len(wire)
<1>1. CASE UNCHANGED wire /\ answer' \in [site: Sites, keep: BOOLEAN]
  BY <1>1 DEF TypeConnection
<1>2. ASSUME NEW site \in Sites, NEW close \in BOOLEAN, NEW keep \in BOOLEAN, NEW shut \in BOOLEAN,
             StartResponse(site, close, keep, shut)
      PROVE  /\ answer' \in [site: Sites, keep: BOOLEAN]
             /\ wire' \in Seq(Records)
             /\ Len(wire') >= Len(wire)
  BY <1>2, StartResponseType DEF TypeConnection
<1>3. CASE Len(wire) > 0 /\ MarkWhole /\ UNCHANGED answer
  BY <1>3, MarkWholeType DEF TypeRequest, TypeConnection
<1> QED
  BY <1>1, <1>2, <1>3 DEF Touch

(* The answer of a handler that reads its body keeps the connection only if*)
(* it does not announce the close and, unless it is a message_generator,   *)
(* only if the body has been read.                                         *)
LEMMA UploadAnswers ==
  ASSUME NEW allows \in BOOLEAN, cancelled \in BOOLEAN, req \in Request, AnswerUpload(allows)
  PROVE  \E site \in Sites, close, keep \in BOOLEAN :
           /\ StartResponse(site, close, keep, cancelled)
           /\ keep => ~close /\ (req.body = 0 \/ site = "opaque")
<1>1. CASE req.route = "upload"
  <2> DEFINE ka == UploadKeepAlive(allows)
  <2>1. ka \in BOOLEAN /\ (ka => req.body = 0)
    BY DEF UploadKeepAlive
  <2>2. StartResponse("upload", ~ka, ka, cancelled)
    BY <1>1 DEF AnswerUpload
  <2>3. (~ka) \in BOOLEAN /\ "upload" \in Sites
    BY <2>1 DEF Sites
  <2> HIDE DEF ka
  <2> QED
    BY <2>1, <2>2, <2>3
<1>2. CASE req.route # "upload"
  <2> DEFINE ka == allows /\ ~cancelled
  <2>1. ka \in BOOLEAN /\ (ka => allows)
    OBVIOUS
  <2>2. StartResponse("opaque", ~allows, ka, cancelled)
    BY <1>2 DEF AnswerUpload
  <2>3. (~allows) \in BOOLEAN /\ "opaque" \in Sites
    BY DEF Sites
  <2> HIDE DEF ka
  <2> QED
    BY <2>1, <2>2, <2>3
<1> QED
  BY <1>1, <1>2

(* An answer of the soft error handler keeps the connection only if it does*)
(* not announce the close and the place of the failure allows it.          *)
LEMMA SoftAnswers ==
  ASSUME ResumeSoft, op = "answer"
  PROVE  \E ka \in BOOLEAN : Answer(answer.site, ~ka, ka /\ answer.keep, shutting)
<1>1. PICK allows \in BOOLEAN, opaque \in BOOLEAN :
        Answer(answer.site, ~((req.ka \/ opaque) /\ allows),
               ((req.ka \/ opaque) /\ allows) /\ answer.keep, shutting)
  BY DEF ResumeSoft
<1>2. ((req.ka \/ opaque) /\ allows) \in BOOLEAN
  BY Zenon
<1> QED
  BY <1>1, <1>2, Zenon

-----------------------------------------------------------------------------
(* The strengthened invariant holds initially.                             *)
LEMMA InitIInv == Init => IInv
<1> SUFFICES ASSUME Init PROVE IInv
  OBVIOUS
<1>1. TypeControl
  BY Elements DEF Init, TypeControl
<1>2. TypeRequest
  <2>1. NoRequest \in Request
    BY SessionAssumption DEF NoRequest, Request, RouteKinds
  <2>2. [site |-> "notfound", keep |-> TRUE] \in [site: Sites, keep: BOOLEAN]
    BY DEF Sites
  <2> QED
    BY <2>1, <2>2 DEF Init, TypeRequest
<1>3. TypeConnection
  <2>1. PlainConnection
    <3>1. reqno \in Nat /\ emits \in 0 .. MaxEmits
      BY SessionAssumption DEF Init
    <3> QED
      BY <3>1 DEF Init, PlainConnection
  <2> QED
    BY <2>1 DEF Init, TypeConnection
<1>4. BodyInv /\ WireInv
  BY DEF Init, BodyInv, WireInv, NoRequest
<1> QED
  BY <1>1, <1>2, <1>3, <1>4 DEF IInv

(* Every step preserves it.                                                *)
LEMMA StepIInv == IInv /\ [Next]_vars => IInv'
<1> SUFFICES ASSUME IInv, [Next]_vars
             PROVE  IInv'
  OBVIOUS
<1> USE SessionAssumption DEF IInv, Go, Await, Raise, Throws, CoAwait, TryAwait
<1>1. CASE LoopTop
  <2>1. TypeControl'
    BY <1>1, Elements DEF LoopTop, LoopEnds, BeginRequest, TypeControl
  <2>2. Touch
    BY <1>1, RequestUpdates DEF LoopTop, LoopEnds, BeginRequest, TypeControl,
       TypeRequest, BodyInv, WireInv, Touch
  <2>3. req' \in Request /\ shutting' \in BOOLEAN
    BY <1>1, RequestUpdates DEF LoopTop, LoopEnds, BeginRequest, TypeControl,
       TypeRequest, BodyInv
  <2>4. PlainConnection'
    <3>1. reqno' \in Nat
      BY <1>1 DEF LoopTop, LoopEnds, BeginRequest, TypeConnection, PlainConnection
    <3>2. buffered' \in BOOLEAN
      BY <1>1 DEF LoopTop, LoopEnds, BeginRequest, TypeConnection, PlainConnection
    <3>3. UNCHANGED <<sock, peerGone, emits>>
      BY <1>1 DEF LoopTop
    <3> QED
      BY <3>1, <3>2, <3>3 DEF TypeConnection, PlainConnection
  <2>5. BodyInv'
    BY <1>1, RequestUpdates, Started DEF LoopTop, LoopEnds, BeginRequest, TypeControl,
       TypeRequest, TypeConnection, BodyInv
  <2>6. WireInv'
    BY <1>1, <2>2, Started, TouchType DEF LoopTop, LoopEnds, BeginRequest, TypeRequest,
       TypeConnection, WireInv
  <2> QED
    BY <2>1, <2>2, <2>3, <2>4, <2>5, <2>6, TouchType DEF TypeRequest, TypeConnection
<1>2. CASE ResumeIdle
  <2>1. TypeControl'
    BY <1>2, Elements DEF ResumeIdle, BeginRequest, TypeControl
  <2>2. Touch
    BY <1>2, RequestUpdates DEF ResumeIdle, BeginRequest, TypeControl, TypeRequest,
       BodyInv, WireInv, Touch
  <2>3. req' \in Request /\ shutting' \in BOOLEAN
    BY <1>2, RequestUpdates DEF ResumeIdle, BeginRequest, TypeControl, TypeRequest, BodyInv
  <2>4. PlainConnection'
    BY <1>2 DEF ResumeIdle, BeginRequest, TypeConnection, PlainConnection
  <2>5. BodyInv'
    BY <1>2, RequestUpdates, Started DEF ResumeIdle, BeginRequest, TypeControl,
       TypeRequest, TypeConnection, BodyInv
  <2>6. WireInv'
    BY <1>2, <2>2, Started, TouchType DEF ResumeIdle, BeginRequest, TypeRequest,
       TypeConnection, WireInv
  <2> QED
    BY <2>1, <2>2, <2>3, <2>4, <2>5, <2>6, TouchType DEF TypeRequest, TypeConnection
<1>3. CASE ResumeHeader
  <2>1. TypeControl'
    BY <1>3, Elements DEF ResumeHeader, HeaderParsed, HeaderFailed, ReadResult,
       ProtocolError, Answer, Overread, Shield, TypeControl
  <2>2. Touch
    BY <1>3, RequestUpdates DEF ResumeHeader, HeaderParsed, HeaderFailed, ReadResult,
       ProtocolError, Answer, Overread, Shield, TypeControl, TypeRequest, BodyInv,
       WireInv, Touch, Sites
  <2>3. req' \in Request /\ shutting' \in BOOLEAN
    BY <1>3, RequestUpdates DEF ResumeHeader, HeaderParsed, HeaderFailed, ReadResult,
       ProtocolError, Answer, Overread, Shield, TypeControl, TypeRequest, BodyInv
  <2>4. PlainConnection'
    BY <1>3 DEF ResumeHeader, HeaderParsed, HeaderFailed, ReadResult, ProtocolError,
       Answer, Overread, Shield, TypeConnection, PlainConnection
  <2>5. BodyInv'
    BY <1>3, RequestUpdates, Started DEF ResumeHeader, HeaderParsed, HeaderFailed,
       ReadResult, ProtocolError, Answer, Overread, Shield, TypeControl, TypeRequest,
       TypeConnection, BodyInv
  <2>6. WireInv'
    BY <1>3, <2>2, Started, TouchType DEF ResumeHeader, HeaderParsed, HeaderFailed,
       ReadResult, ProtocolError, Answer, Overread, Shield, TypeRequest, TypeConnection,
       WireInv
  <2> QED
    BY <2>1, <2>2, <2>3, <2>4, <2>5, <2>6, TouchType DEF TypeRequest, TypeConnection
<1>4. CASE ResumeIntercept
  <2>1. TypeControl'
    BY <1>4, Elements DEF ResumeIntercept, ObserveShutdown, TypeControl
  <2>2. Touch
    <3>1. CASE op = "proceed"
      BY <1>4, <3>1 DEF ResumeIntercept, TypeRequest, Touch
    <3>2. CASE op = "reject"
      <4>1. PICK allows \in BOOLEAN :
              LET ka == req'.ka /\ allows /\ ~cancelled
              IN  StartResponse("intercept", ~ka, ka, cancelled)
        BY <1>4, <3>2 DEF ResumeIntercept
      <4> DEFINE ka == req'.ka /\ allows /\ ~cancelled
      <4>2. ka \in BOOLEAN
        BY Zenon
      <4>3. (~ka) \in BOOLEAN
        BY Zenon
      <4>4. "intercept" \in Sites /\ cancelled \in BOOLEAN
        BY DEF TypeControl, Sites
      <4>5. StartResponse("intercept", ~ka, ka, cancelled)
        BY <4>1
      <4> HIDE DEF ka
      <4> QED
        BY <4>2, <4>3, <4>4, <4>5 DEF Touch
    <3>3. CASE op = "throw"
      <4>1. answer' = [site |-> "intercept", keep |-> ~cancelled /\ req.body = 0] /\ UNCHANGED wire
        BY <1>4, <3>3 DEF ResumeIntercept
      <4> QED
        BY <4>1 DEF Touch, Sites
    <3> QED
      BY <1>4, <3>1, <3>2, <3>3 DEF ResumeIntercept
  <2>3. req' \in Request /\ shutting' \in BOOLEAN
    BY <1>4, RequestUpdates DEF ResumeIntercept, ObserveShutdown, TypeControl,
       TypeRequest, BodyInv
  <2>4. PlainConnection'
    BY <1>4 DEF ResumeIntercept, ObserveShutdown, TypeConnection, PlainConnection
  <2>5. BodyInv'
    <3>1. CASE op = "proceed"
      BY <1>4, <3>1 DEF ResumeIntercept, BodyInv
    <3>2. CASE op = "reject"
      <4>1. PICK allows \in BOOLEAN :
              LET ka == req'.ka /\ allows /\ ~cancelled
              IN  StartResponse("intercept", ~ka, ka, cancelled)
        BY <1>4, <3>2 DEF ResumeIntercept
      <4>2. answer'.keep => req'.ka
        BY <4>1 DEF StartResponse
      <4>3. req'.ka => req'.body = 0
        BY <1>4, <3>2, RequestUpdates DEF ResumeIntercept, TypeRequest
      <4>4. pc' = "write"
        BY <1>4, <3>2 DEF ResumeIntercept
      <4> QED
        BY <4>2, <4>3, <4>4 DEF BodyInv
    <3>3. CASE op = "throw"
      <4>1. /\ pc' = "soft"
            /\ answer' = [site |-> "intercept", keep |-> ~cancelled /\ req.body = 0]
            /\ req' = [req EXCEPT !.ka = req.ka /\ req.body = 0]
        BY <1>4, <3>3 DEF ResumeIntercept
      <4>2. answer'.keep => req.body = 0
        BY <4>1
      <4>3. req'.body = req.body
        BY <4>1, RequestUpdates DEF TypeRequest
      <4> QED
        BY <4>1, <4>2, <4>3 DEF BodyInv
    <3> QED
      BY <1>4, <3>1, <3>2, <3>3 DEF ResumeIntercept
  <2>6. WireInv'
    BY <1>4, <2>2, Started, TouchType DEF ResumeIntercept, ObserveShutdown, TypeRequest,
       TypeConnection, WireInv
  <2> QED
    BY <2>1, <2>2, <2>3, <2>4, <2>5, <2>6, TouchType DEF TypeRequest, TypeConnection
<1>5. CASE Dispatch
  <2>1. TypeControl'
    BY <1>5, Elements DEF Dispatch, ReadsItsBody, AnswerNotFound, ProtocolError, Answer, TypeControl
  <2>2. Touch
    BY <1>5, RequestUpdates DEF Dispatch, ReadsItsBody, AnswerNotFound, ProtocolError, Answer,
       TypeControl, TypeRequest, BodyInv, WireInv, Touch, Sites
  <2>3. req' \in Request /\ shutting' \in BOOLEAN
    BY <1>5, RequestUpdates DEF Dispatch, ReadsItsBody, AnswerNotFound, ProtocolError, Answer,
       TypeControl, TypeRequest, BodyInv
  <2>4. PlainConnection'
    BY <1>5 DEF Dispatch, ReadsItsBody, AnswerNotFound, ProtocolError, Answer, TypeConnection, PlainConnection
  <2>5. BodyInv'
    BY <1>5, RequestUpdates DEF Dispatch, ReadsItsBody, AnswerNotFound, ProtocolError, Answer,
       StartResponse, TypeControl, TypeRequest, BodyInv
  <2>6. WireInv'
    BY <1>5, <2>2, Started, TouchType DEF Dispatch, ReadsItsBody, AnswerNotFound, ProtocolError,
       Answer, TypeRequest, TypeConnection, WireInv
  <2> QED
    BY <2>1, <2>2, <2>3, <2>4, <2>5, <2>6, TouchType DEF TypeRequest, TypeConnection
<1>6. CASE ResumeBody
  <2>1. TypeControl'
    BY <1>6, Elements DEF ResumeBody, BodyIncomplete, AnswerNotFound, ReadResult,
       ProtocolError, Answer, Overread, TypeControl
  <2>2. Touch
    BY <1>6, RequestUpdates DEF ResumeBody, BodyIncomplete, AnswerNotFound, ReadResult,
       ProtocolError, Answer, Overread, TypeControl, TypeRequest, BodyInv, WireInv,
       Touch, Sites
  <2>3. req' \in Request /\ shutting' \in BOOLEAN
    BY <1>6, RequestUpdates DEF ResumeBody, BodyIncomplete, AnswerNotFound, ReadResult,
       ProtocolError, Answer, Overread, TypeControl, TypeRequest, BodyInv
  <2>4. PlainConnection'
    BY <1>6 DEF ResumeBody, BodyIncomplete, AnswerNotFound, ReadResult, ProtocolError,
       Answer, Overread, TypeConnection, PlainConnection
  <2>5. BodyInv'
    <3>1. CASE ReadResult = "ok"
      <4>1. req'.body = req.body - 1 /\ req.body > 0 /\ req.body \in Nat
        BY <1>6, <3>1, RequestUpdates DEF ResumeBody, ReadResult, TypeRequest, BodyInv
      <4>2. CASE BodyIncomplete
        BY <1>6, <3>1, <4>1, <4>2 DEF ResumeBody, BodyIncomplete, BodyInv, ReadResult
      <4>3. CASE ~BodyIncomplete
        <5>1. req'.body = 0
          BY <4>1, <4>3 DEF BodyIncomplete
        <5>2. pc' \in {"write", "closing", "start"}
          BY <1>6, <3>1, <4>3 DEF ResumeBody, ReadResult, AnswerNotFound, Answer
        <5> QED
          BY <5>1, <5>2 DEF BodyInv
      <4> QED
        BY <4>2, <4>3
    <3>2. CASE ReadResult # "ok"
      <4>1. pc' = "closing" \/ (pc' = "write" /\ answer'.keep = FALSE)
        BY <1>6, <3>2 DEF ResumeBody, ProtocolError, Answer, StartResponse, ReadResult
      <4> QED
        BY <4>1 DEF BodyInv
    <3> QED
      BY <3>1, <3>2
  <2>6. WireInv'
    BY <1>6, <2>2, Started, TouchType DEF ResumeBody, BodyIncomplete, AnswerNotFound,
       ReadResult, ProtocolError, Answer, Overread, TypeRequest, TypeConnection, WireInv
  <2> QED
    BY <2>1, <2>2, <2>3, <2>4, <2>5, <2>6, TouchType DEF TypeRequest, TypeConnection
<1>7. CASE Start
  <2>1. TypeControl'
    BY <1>7, Elements DEF Start, ShieldsHandler, TypeControl
  <2>2. Touch
    BY <1>7, RequestUpdates DEF Start, ShieldsHandler, TypeControl, TypeRequest,
       BodyInv, WireInv, Touch
  <2>3. req' \in Request /\ shutting' \in BOOLEAN
    BY <1>7, RequestUpdates DEF Start, ShieldsHandler, TypeControl, TypeRequest, BodyInv
  <2>4. PlainConnection'
    BY <1>7 DEF Start, ShieldsHandler, TypeConnection, PlainConnection
  <2>5. BodyInv'
    BY <1>7, RequestUpdates, Started DEF Start, ShieldsHandler, TypeControl,
       TypeRequest, TypeConnection, BodyInv
  <2>6. WireInv'
    BY <1>7, <2>2, Started, TouchType DEF Start, ShieldsHandler, TypeRequest,
       TypeConnection, WireInv
  <2> QED
    BY <2>1, <2>2, <2>3, <2>4, <2>5, <2>6, TouchType DEF TypeRequest, TypeConnection
<1>8. CASE ResumeHandler
  <2>1. TypeControl'
    BY <1>8, Elements DEF ResumeHandler, FinishResponse, ObserveShutdown, Thrown, TypeControl
  <2>2. Touch
    BY <1>8, RequestUpdates DEF ResumeHandler, FinishResponse, ObserveShutdown, Thrown,
       TypeControl, TypeRequest, BodyInv, WireInv, Touch, Sites
  <2>3. req' \in Request /\ shutting' \in BOOLEAN
    BY <1>8, RequestUpdates DEF ResumeHandler, FinishResponse, ObserveShutdown, Thrown,
       TypeControl, TypeRequest, BodyInv
  <2>4. PlainConnection'
    BY <1>8 DEF ResumeHandler, FinishResponse, ObserveShutdown, Thrown, TypeConnection,
       PlainConnection
  <2>5. BodyInv'
    BY <1>8, RequestUpdates, Started DEF ResumeHandler, FinishResponse, ObserveShutdown,
       Thrown, TypeControl, TypeRequest, TypeConnection, BodyInv
  <2>6. WireInv'
    BY <1>8, <2>2, Started, TouchType DEF ResumeHandler, FinishResponse,
       ObserveShutdown, Thrown, TypeRequest, TypeConnection, WireInv
  <2> QED
    BY <2>1, <2>2, <2>3, <2>4, <2>5, <2>6, TouchType DEF TypeRequest, TypeConnection
<1>9. CASE Unwind
  <2>1. TypeControl'
    BY <1>9, Elements DEF Unwind, EndedByShutdown, ObserveShutdown, TypeControl
  <2>2. Touch
    <3>1. CASE UNCHANGED answer
      BY <1>9, <3>1 DEF Unwind, Touch, TypeRequest
    <3>2. CASE answer' = [site |-> "buffered", keep |-> ~shutting']
      BY <1>9, <3>2 DEF Unwind, Touch, Sites
    <3> QED
      BY <1>9, <3>1, <3>2 DEF Unwind
  <2>3. req' \in Request /\ shutting' \in BOOLEAN
    BY <1>9, RequestUpdates DEF Unwind, EndedByShutdown, ObserveShutdown, TypeControl,
       TypeRequest, BodyInv
  <2>4. PlainConnection'
    BY <1>9 DEF Unwind, EndedByShutdown, ObserveShutdown, TypeConnection, PlainConnection
  <2>5. BodyInv'
    BY <1>9, RequestUpdates, Started DEF Unwind, EndedByShutdown, ObserveShutdown,
       TypeControl, TypeRequest, TypeConnection, BodyInv
  <2>6. WireInv'
    BY <1>9, <2>2, Started, TouchType DEF Unwind, EndedByShutdown, ObserveShutdown,
       TypeRequest, TypeConnection, WireInv
  <2> QED
    BY <2>1, <2>2, <2>3, <2>4, <2>5, <2>6, TouchType DEF TypeRequest, TypeConnection
<1>10. CASE ResumeUpload
  <2>1. TypeControl'
    BY <1>10, Elements DEF ResumeUpload, AnswerUpload, Leftover, UploadKeepAlive, ObserveShutdown, Thrown, TypeControl
  <2>2. Touch
    <3>1. CASE op = "read"
      BY <1>10, <3>1 DEF ResumeUpload, AnswerUpload, Leftover, TypeRequest, Touch
    <3>2. CASE op = "return"
      <4>1. PICK allows \in BOOLEAN : AnswerUpload(allows)
        BY <1>10, <3>2 DEF ResumeUpload
      <4>2. cancelled \in BOOLEAN /\ req \in Request
        BY DEF TypeControl, TypeRequest
      <4> QED
        BY <4>1, <4>2, UploadAnswers DEF Touch
    <3>3. CASE op \in {"throw", "aborted", "ioerror"}
      <4>1. answer' = [site |-> "upload", keep |-> ~cancelled /\ req.body = 0] /\ UNCHANGED wire
        BY <1>10, <3>3 DEF ResumeUpload
      <4> QED
        BY <4>1 DEF Touch, Sites
    <3> QED
      BY <1>10, <3>1, <3>2, <3>3 DEF ResumeUpload
  <2>3. req' \in Request /\ shutting' \in BOOLEAN
    BY <1>10, RequestUpdates DEF ResumeUpload, AnswerUpload, Leftover, UploadKeepAlive, ObserveShutdown, Thrown,
       TypeControl, TypeRequest, BodyInv
  <2>4. PlainConnection'
    BY <1>10 DEF ResumeUpload, AnswerUpload, Leftover, UploadKeepAlive, ObserveShutdown, Thrown, TypeConnection,
       PlainConnection
  <2>5. BodyInv'
    <3>1. CASE op = "read"
      BY <1>10, <3>1 DEF ResumeUpload, AnswerUpload, Leftover, BodyInv
    <3>2. CASE op = "return"
      <4>1. PICK allows \in BOOLEAN : AnswerUpload(allows)
        BY <1>10, <3>2 DEF ResumeUpload
      <4>2. answer'.keep => req.body = 0 \/ answer'.site = "opaque"
        <5>1. PICK site \in Sites, close \in BOOLEAN, keep \in BOOLEAN :
                /\ StartResponse(site, close, keep, cancelled)
                /\ keep => req.body = 0 \/ site = "opaque"
          BY <4>1, UploadAnswers DEF TypeControl, TypeRequest
        <5>2. answer' = [site |-> site, keep |-> keep]
          BY <5>1 DEF StartResponse
        <5> QED
          BY <5>1, <5>2
      <4>3. pc' = "write" /\ UNCHANGED req
        BY <1>10, <3>2 DEF ResumeUpload
      <4> QED
        BY <4>2, <4>3 DEF BodyInv
    <3>3. CASE op \in {"throw", "aborted", "ioerror"}
      <4>1. /\ pc' = "soft"
            /\ answer' = [site |-> "upload", keep |-> ~cancelled /\ req.body = 0]
            /\ req' = [req EXCEPT !.ka = req.ka /\ req.body = 0]
        BY <1>10, <3>3 DEF ResumeUpload
      <4>2. answer'.keep => req.body = 0
        BY <4>1
      <4>3. req'.body = req.body
        BY <4>1, RequestUpdates DEF TypeRequest
      <4> QED
        BY <4>1, <4>2, <4>3 DEF BodyInv
    <3> QED
      BY <1>10, <3>1, <3>2, <3>3 DEF ResumeUpload
  <2>6. WireInv'
    BY <1>10, <2>2, Started, TouchType DEF ResumeUpload, AnswerUpload, Leftover, UploadKeepAlive,
       ObserveShutdown, Thrown, TypeRequest, TypeConnection, WireInv
  <2> QED
    BY <2>1, <2>2, <2>3, <2>4, <2>5, <2>6, TouchType DEF TypeRequest, TypeConnection
<1>11. CASE ResumeUploadRead
  <2>1. TypeControl'
    BY <1>11, Elements DEF ResumeUploadRead, ReadResult, Overread, TypeControl
  <2>2. Touch
    BY <1>11, RequestUpdates DEF ResumeUploadRead, ReadResult, Overread, TypeControl,
       TypeRequest, BodyInv, WireInv, Touch
  <2>3. req' \in Request /\ shutting' \in BOOLEAN
    BY <1>11, RequestUpdates DEF ResumeUploadRead, ReadResult, Overread, TypeControl,
       TypeRequest, BodyInv
  <2>4. PlainConnection'
    BY <1>11 DEF ResumeUploadRead, ReadResult, Overread, TypeConnection, PlainConnection
  <2>5. BodyInv'
    BY <1>11, RequestUpdates, Started DEF ResumeUploadRead, ReadResult, Overread,
       TypeControl, TypeRequest, TypeConnection, BodyInv
  <2>6. WireInv'
    BY <1>11, <2>2, Started, TouchType DEF ResumeUploadRead, ReadResult, Overread,
       TypeRequest, TypeConnection, WireInv
  <2> QED
    BY <2>1, <2>2, <2>3, <2>4, <2>5, <2>6, TouchType DEF TypeRequest, TypeConnection
<1>12. CASE ResumeProduce
  <2>1. TypeControl'
    BY <1>12, Elements DEF ResumeProduce, Thrown, TypeControl
  <2>2. Touch
    BY <1>12, RequestUpdates DEF ResumeProduce, Thrown, TypeControl, TypeRequest,
       BodyInv, WireInv, Touch, Sites
  <2>3. req' \in Request /\ shutting' \in BOOLEAN
    BY <1>12, RequestUpdates DEF ResumeProduce, Thrown, TypeControl, TypeRequest, BodyInv
  <2>4. PlainConnection'
    BY <1>12 DEF ResumeProduce, Thrown, TypeConnection, PlainConnection
  <2>5. BodyInv'
    BY <1>12, RequestUpdates, Started DEF ResumeProduce, Thrown, TypeControl,
       TypeRequest, TypeConnection, BodyInv
  <2>6. WireInv'
    BY <1>12, <2>2, Started, TouchType DEF ResumeProduce, Thrown, TypeRequest,
       TypeConnection, WireInv
  <2> QED
    BY <2>1, <2>2, <2>3, <2>4, <2>5, <2>6, TouchType DEF TypeRequest, TypeConnection
<1>13. CASE ResumeStreamHeader
  <2>1. TypeControl'
    BY <1>13, Elements DEF ResumeStreamHeader, Return, TypeControl
  <2>2. Touch
    BY <1>13, RequestUpdates DEF ResumeStreamHeader, Return, TypeControl, TypeRequest,
       BodyInv, WireInv, Touch
  <2>3. req' \in Request /\ shutting' \in BOOLEAN
    BY <1>13, RequestUpdates DEF ResumeStreamHeader, Return, TypeControl, TypeRequest, BodyInv
  <2>4. PlainConnection'
    BY <1>13 DEF ResumeStreamHeader, Return, TypeConnection, PlainConnection
  <2>5. BodyInv'
    BY <1>13, RequestUpdates, Started DEF ResumeStreamHeader, Return, TypeControl,
       TypeRequest, TypeConnection, BodyInv
  <2>6. WireInv'
    BY <1>13, <2>2, Started, TouchType DEF ResumeStreamHeader, Return, TypeRequest,
       TypeConnection, WireInv
  <2> QED
    BY <2>1, <2>2, <2>3, <2>4, <2>5, <2>6, TouchType DEF TypeRequest, TypeConnection
<1>14. CASE ResumeChunk
  <2>1. TypeControl'
    BY <1>14, Elements DEF ResumeChunk, TypeControl
  <2>2. Touch
    BY <1>14, RequestUpdates DEF ResumeChunk, TypeControl, TypeRequest, BodyInv, WireInv, Touch
  <2>3. req' \in Request /\ shutting' \in BOOLEAN
    BY <1>14, RequestUpdates DEF ResumeChunk, TypeControl, TypeRequest, BodyInv
  <2>4. PlainConnection'
    BY <1>14 DEF ResumeChunk, TypeConnection, PlainConnection
  <2>5. BodyInv'
    BY <1>14, RequestUpdates, Started DEF ResumeChunk, TypeControl, TypeRequest,
       TypeConnection, BodyInv
  <2>6. WireInv'
    BY <1>14, <2>2, Started, TouchType DEF ResumeChunk, TypeRequest, TypeConnection, WireInv
  <2> QED
    BY <2>1, <2>2, <2>3, <2>4, <2>5, <2>6, TouchType DEF TypeRequest, TypeConnection
<1>15. CASE ResumeNext
  <2>1. TypeControl'
    BY <1>15, Elements DEF ResumeNext, KeepStreamError, Thrown, TypeControl
  <2>2. Touch
    BY <1>15, RequestUpdates DEF ResumeNext, KeepStreamError, Thrown, TypeControl,
       TypeRequest, BodyInv, WireInv, Touch
  <2>3. req' \in Request /\ shutting' \in BOOLEAN
    BY <1>15, RequestUpdates DEF ResumeNext, KeepStreamError, Thrown, TypeControl,
       TypeRequest, BodyInv
  <2>4. PlainConnection'
    BY <1>15 DEF ResumeNext, KeepStreamError, Thrown, TypeConnection, PlainConnection
  <2>5. BodyInv'
    BY <1>15, RequestUpdates, Started DEF ResumeNext, KeepStreamError, Thrown,
       TypeControl, TypeRequest, TypeConnection, BodyInv
  <2>6. WireInv'
    BY <1>15, <2>2, Started, TouchType DEF ResumeNext, KeepStreamError, Thrown,
       TypeRequest, TypeConnection, WireInv
  <2> QED
    BY <2>1, <2>2, <2>3, <2>4, <2>5, <2>6, TouchType DEF TypeRequest, TypeConnection
<1>16. CASE ResumeLastChunk
  <2>1. TypeControl'
    BY <1>16, Elements DEF ResumeLastChunk, Return, TypeControl
  <2>2. Touch
    BY <1>16, RequestUpdates DEF ResumeLastChunk, Return, TypeControl, TypeRequest,
       BodyInv, WireInv, Touch
  <2>3. req' \in Request /\ shutting' \in BOOLEAN
    BY <1>16, RequestUpdates DEF ResumeLastChunk, Return, TypeControl, TypeRequest, BodyInv
  <2>4. PlainConnection'
    BY <1>16 DEF ResumeLastChunk, Return, TypeConnection, PlainConnection
  <2>5. BodyInv'
    BY <1>16, RequestUpdates, Started DEF ResumeLastChunk, Return, TypeControl,
       TypeRequest, TypeConnection, BodyInv
  <2>6. WireInv'
    BY <1>16, <2>2, Started, TouchType DEF ResumeLastChunk, Return, TypeRequest,
       TypeConnection, WireInv
  <2> QED
    BY <2>1, <2>2, <2>3, <2>4, <2>5, <2>6, TouchType DEF TypeRequest, TypeConnection
<1>17. CASE ResumeSoft
  <2>1. TypeControl'
    BY <1>17, Elements DEF ResumeSoft, Answer, Escalates, TypeControl
  <2>2. Touch
    <3>1. CASE op = "answer"
      <4>1. PICK ka \in BOOLEAN : Answer(answer.site, ~ka, ka /\ answer.keep, shutting)
        BY <1>17, <3>1, SoftAnswers
      <4>2. /\ answer.site \in Sites /\ shutting \in BOOLEAN
            /\ (~ka) \in BOOLEAN /\ (ka /\ answer.keep) \in BOOLEAN
        BY DEF TypeRequest
      <4>3. CASE Throws
        BY <4>1, <4>3 DEF Answer, Touch, TypeRequest
      <4>4. CASE ~Throws
        BY <4>1, <4>2, <4>4 DEF Answer, Touch
      <4> QED
        BY <4>3, <4>4
    <3>2. CASE op # "answer"
      BY <1>17, <3>2 DEF ResumeSoft, Touch, TypeRequest
    <3> QED
      BY <3>1, <3>2
  <2>3. req' \in Request /\ shutting' \in BOOLEAN
    BY <1>17, RequestUpdates DEF ResumeSoft, Answer, Escalates, TypeControl,
       TypeRequest, BodyInv
  <2>4. PlainConnection'
    BY <1>17 DEF ResumeSoft, Answer, Escalates, TypeConnection, PlainConnection
  <2>5. BodyInv'
    <3>1. CASE op = "answer"
      <4>1. PICK ka \in BOOLEAN : Answer(answer.site, ~ka, ka /\ answer.keep, shutting)
        BY <1>17, <3>1, SoftAnswers
      <4>2. pc = "soft" /\ UNCHANGED req
        BY <1>17 DEF ResumeSoft
      <4>3. CASE Throws
        BY <4>1, <4>2, <4>3 DEF Answer, BodyInv
      <4>4. CASE ~Throws
        <5>1. StartResponse(answer.site, ~ka, ka /\ answer.keep, shutting) /\ pc' = "write"
          BY <4>1, <4>4 DEF Answer
        <5>2. answer' = [site |-> answer.site, keep |-> ka /\ answer.keep]
          BY <5>1 DEF StartResponse
        <5>3. answer'.site = answer.site /\ (answer'.keep => answer.keep)
          BY <5>2
        <5> QED
          BY <4>2, <5>1, <5>3 DEF BodyInv
      <4> QED
        BY <4>3, <4>4
    <3>2. CASE op # "answer"
      BY <1>17, <3>2 DEF ResumeSoft, BodyInv
    <3> QED
      BY <3>1, <3>2
  <2>6. WireInv'
    BY <1>17, <2>2, Started, TouchType DEF ResumeSoft, Answer, Escalates, TypeRequest,
       TypeConnection, WireInv
  <2> QED
    BY <2>1, <2>2, <2>3, <2>4, <2>5, <2>6, TouchType DEF TypeRequest, TypeConnection
<1>18. CASE ResumeWrite
  <2>1. TypeControl'
    BY <1>18, Elements DEF ResumeWrite, Return, TypeControl
  <2>2. Touch
    BY <1>18, RequestUpdates DEF ResumeWrite, Return, TypeControl, TypeRequest, BodyInv,
       WireInv, Touch
  <2>3. req' \in Request /\ shutting' \in BOOLEAN
    BY <1>18, RequestUpdates DEF ResumeWrite, Return, TypeControl, TypeRequest, BodyInv
  <2>4. PlainConnection'
    BY <1>18 DEF ResumeWrite, Return, TypeConnection, PlainConnection
  <2>5. BodyInv'
    BY <1>18, RequestUpdates, Started DEF ResumeWrite, Return, TypeControl, TypeRequest,
       TypeConnection, BodyInv
  <2>6. WireInv'
    BY <1>18, <2>2, Started, TouchType DEF ResumeWrite, Return, TypeRequest,
       TypeConnection, WireInv
  <2> QED
    BY <2>1, <2>2, <2>3, <2>4, <2>5, <2>6, TouchType DEF TypeRequest, TypeConnection
<1>19. CASE ResumeRaw
  <2>1. TypeControl'
    BY <1>19, Elements DEF ResumeRaw, BodyInv, TypeControl
  <2>2. Touch
    BY <1>19, RequestUpdates DEF ResumeRaw, BodyInv, TypeControl, TypeRequest, BodyInv,
       WireInv, Touch
  <2>3. req' \in Request /\ shutting' \in BOOLEAN
    BY <1>19, RequestUpdates DEF ResumeRaw, BodyInv, TypeControl, TypeRequest, BodyInv
  <2>4. PlainConnection'
    BY <1>19 DEF ResumeRaw, BodyInv, TypeConnection, PlainConnection
  <2>5. BodyInv'
    BY <1>19, RequestUpdates, Started DEF ResumeRaw, BodyInv, TypeControl, TypeRequest,
       TypeConnection, BodyInv
  <2>6. WireInv'
    BY <1>19, <2>2, Started, TouchType DEF ResumeRaw, BodyInv, TypeRequest,
       TypeConnection, WireInv
  <2> QED
    BY <2>1, <2>2, <2>3, <2>4, <2>5, <2>6, TouchType DEF TypeRequest, TypeConnection
<1>20. CASE Closing
  <2>1. TypeControl'
    BY <1>20, Elements DEF Closing, TypeControl
  <2>2. Touch
    BY <1>20, RequestUpdates DEF Closing, TypeControl, TypeRequest, BodyInv, WireInv, Touch
  <2>3. req' \in Request /\ shutting' \in BOOLEAN
    BY <1>20, RequestUpdates DEF Closing, TypeControl, TypeRequest, BodyInv
  <2>4. PlainConnection'
    BY <1>20 DEF Closing, TypeConnection, PlainConnection
  <2>5. BodyInv'
    BY <1>20, RequestUpdates, Started DEF Closing, TypeControl, TypeRequest,
       TypeConnection, BodyInv
  <2>6. WireInv'
    BY <1>20, <2>2, Started, TouchType DEF Closing, TypeRequest, TypeConnection, WireInv
  <2> QED
    BY <2>1, <2>2, <2>3, <2>4, <2>5, <2>6, TouchType DEF TypeRequest, TypeConnection
<1>21. CASE ResumeLinger
  <2>1. TypeControl'
    BY <1>21, Elements DEF ResumeLinger, TypeControl
  <2>2. Touch
    BY <1>21, RequestUpdates DEF ResumeLinger, TypeControl, TypeRequest, BodyInv, WireInv, Touch
  <2>3. req' \in Request /\ shutting' \in BOOLEAN
    BY <1>21, RequestUpdates DEF ResumeLinger, TypeControl, TypeRequest, BodyInv
  <2>4. PlainConnection'
    BY <1>21 DEF ResumeLinger, TypeConnection, PlainConnection
  <2>5. BodyInv'
    BY <1>21, RequestUpdates, Started DEF ResumeLinger, TypeControl, TypeRequest,
       TypeConnection, BodyInv
  <2>6. WireInv'
    BY <1>21, <2>2, Started, TouchType DEF ResumeLinger, TypeRequest, TypeConnection, WireInv
  <2> QED
    BY <2>1, <2>2, <2>3, <2>4, <2>5, <2>6, TouchType DEF TypeRequest, TypeConnection
<1>22. CASE PeerSends
  BY <1>22, Elements DEF PeerSends, Complete, Reads, Writes, Produces, TypeControl,
     TypeRequest, TypeConnection,
     PlainConnection, BodyInv, WireInv
<1>23. CASE PeerSendsBad
  BY <1>23, Elements DEF PeerSendsBad, Complete, Deadlined, Reads, Writes, Produces, TypeControl,
     TypeRequest, TypeConnection,
     PlainConnection, BodyInv, WireInv
<1>24. CASE PeerCloses
  BY <1>24, Elements DEF PeerCloses, Complete, Reads, Writes, Produces, TypeControl,
     TypeRequest, TypeConnection,
     PlainConnection, BodyInv, WireInv
<1>25. CASE PeerResets
  BY <1>25, Elements DEF PeerResets, Complete, Reads, Writes, Produces, TypeControl,
     TypeRequest, TypeConnection,
     PlainConnection, BodyInv, WireInv
<1>26. CASE PeerReads
  BY <1>26, Elements DEF PeerReads, Complete, Reads, Writes, Produces, TypeControl,
     TypeRequest, TypeConnection,
     PlainConnection, BodyInv, WireInv
<1>27. CASE ExpiryFires
  BY <1>27, Elements DEF ExpiryFires, Expiring, Complete, Reads, Writes, TypeControl,
     TypeRequest, TypeConnection,
     PlainConnection, BodyInv, WireInv
<1>28. CASE DeadlineFires
  BY <1>28, Elements DEF DeadlineFires, Deadlined, TypeControl, TypeRequest, TypeConnection,
     PlainConnection, BodyInv, WireInv
<1>29. CASE UserCodeCompletes
  BY <1>29, Elements DEF UserCodeCompletes, Escalates, Complete, TypeControl, TypeRequest,
     TypeConnection,
     PlainConnection, BodyInv, WireInv
<1>30. CASE RawCompletes
  BY <1>30, Elements DEF RawCompletes, Complete, Reads, Writes, Produces, TypeControl,
     TypeRequest, TypeConnection,
     PlainConnection, BodyInv, WireInv
<1>31. CASE GeneratorCompletes
  BY <1>31, Elements DEF GeneratorCompletes, Complete, Reads, Writes, Produces,
     TypeControl, TypeRequest, TypeConnection,
     PlainConnection, BodyInv, WireInv
<1>32. CASE Emit
  BY <1>32, Elements DEF Emit, TypeControl, TypeRequest, TypeConnection,
     PlainConnection, BodyInv, WireInv
<1>33. CASE Terminated
  BY <1>33, Elements DEF Terminated, moving, TypeControl, TypeRequest, TypeConnection,
     PlainConnection, BodyInv, WireInv
<1>34. CASE UNCHANGED moving
  BY <1>34 DEF moving, TypeControl, TypeRequest, TypeConnection, PlainConnection, BodyInv, WireInv
<1> QED
  BY <1>1, <1>2, <1>3, <1>4, <1>5, <1>6, <1>7, <1>8, <1>9, <1>10, <1>11, <1>12, <1>13,
     <1>14, <1>15, <1>16, <1>17, <1>18, <1>19, <1>20, <1>21, <1>22, <1>23, <1>24, <1>25,
     <1>26, <1>27, <1>28, <1>29, <1>30, <1>31, <1>32, <1>33, <1>34 DEF Next, Step, Coroutine,
     Peer, vars

(* The parts of the invariant make up TypeOK.                              *)
LEMMA IInvType == IInv => TypeOK
BY DEF IInv, TypeControl, TypeRequest, TypeConnection, PlainConnection, Places, Records, TypeOK

(* Type correctness of a connection, whatever routes it serves and however *)
(* many requests, reads and emissions there are.                           *)
THEOREM TypeCorrect == Spec => []TypeOK
<1>1. Init => IInv
  BY InitIInv
<1>2. IInv /\ [Next]_vars => IInv'
  BY StepIInv
<1>3. IInv => TypeOK
  BY IInvType
<1> QED
  BY <1>1, <1>2, <1>3, PTL DEF Spec

(* No byte of a request body is taken for the next request, on any path but*)
(* one: the message_generator of a handler that reads its body is sent as  *)
(* the handler made it (UnreadBodyCloses).                                 *)
THEOREM BodyNeverMistaken == Spec => []BodyConsumed
<1>1. Init => IInv
  BY InitIInv
<1>2. IInv /\ [Next]_vars => IInv'
  BY StepIInv
<1>3. IInv => BodyConsumed
  BY DEF IInv, BodyInv, BodyConsumed
<1> QED
  BY <1>1, <1>2, <1>3, PTL DEF Spec

-----------------------------------------------------------------------------
(* One answer per request.  Until a request's answer is started everything *)
(* on the wire belongs to earlier requests; an exception that unwinds the  *)
(* handler after that point is either the generator's own, kept apart, or  *)
(* the abort a shutdown caused, and neither is answered.                   *)
Unanswered == {"header", "intercept", "dispatch", "body", "start", "handler", "upload",
               "uread", "produce", "soft", "raw"}

AllEarlier == \A i \in 1 .. Len(wire) : wire[i].req < reqno

AnswerInv ==
  /\ pc \in Unanswered => AllEarlier
  /\ pc = "unwind" => \/ AllEarlier
                      \/ midstream
                      \/ (cancelled \/ shutting) /\ failed = "aborted"

(* An answer started when all others are for earlier requests keeps the    *)
(* order.                                                                  *)
LEMMA StartOrdered ==
  ASSUME wire \in Seq(Records), reqno \in Nat, OneAnswerEach, AllEarlier, reqno' = reqno,
         NEW site, NEW close \in BOOLEAN, NEW keep, NEW shut \in BOOLEAN,
         StartResponse(site, close, keep, shut)
  PROVE  OneAnswerEach'
<1> DEFINE rec == [req |-> reqno, close |-> close, shut |-> shut, whole |-> FALSE]
<1>1. rec \in Records /\ rec.req = reqno
  BY DEF Records
<1>2. wire' = Append(wire, rec)
  BY DEF StartResponse
<1> HIDE DEF rec
<1>3. Len(wire') = Len(wire) + 1 /\ wire'[Len(wire) + 1].req = reqno
  BY <1>1, <1>2
<1>4. \A i \in 1 .. Len(wire) : wire'[i] = wire[i]
  BY <1>1, <1>2
<1>5. \A i \in 1 .. Len(wire) : wire[i] \in Records
  OBVIOUS
<1>6. \A i \in 1 .. Len(wire) : wire[i].req \in Nat
  BY <1>5 DEF Records
<1>7. Len(wire) \in Nat
  OBVIOUS
<1>8. \A i \in 1 .. Len(wire) : wire'[i].req = wire[i].req /\ wire[i].req < reqno
  BY <1>4 DEF AllEarlier
<1>9. \A i \in 1 .. Len(wire') : i \in 1 .. Len(wire) \/ i = Len(wire) + 1
  BY <1>3, <1>7
<1>10. \A i \in 1 .. Len(wire') : wire'[i].req <= reqno'
  BY <1>3, <1>6, <1>8, <1>9
<1>11. \A i, j \in 1 .. Len(wire') : i < j => wire'[i].req < wire'[j].req
  <2> SUFFICES ASSUME NEW i \in 1 .. Len(wire'), NEW j \in 1 .. Len(wire'), i < j
               PROVE  wire'[i].req < wire'[j].req
    OBVIOUS
  <2>1. i \in 1 .. Len(wire)
    BY <1>3, <1>7, <1>9
  <2>2. CASE j \in 1 .. Len(wire)
    BY <1>8, <2>1, <2>2 DEF OneAnswerEach
  <2>3. CASE j = Len(wire) + 1
    BY <1>3, <1>8, <2>1, <2>3
  <2> QED
    BY <1>9, <2>2, <2>3
<1> QED
  BY <1>10, <1>11 DEF OneAnswerEach

(* Completing the last answer, or leaving the wire alone, keeps the order  *)
(* also when a further request is begun.                                   *)
LEMMA StutterOrdered ==
  ASSUME wire \in Seq(Records), reqno \in Nat, reqno' \in {reqno, reqno + 1}, OneAnswerEach,
         UNCHANGED wire \/ (Len(wire) > 0 /\ MarkWhole)
  PROVE  /\ OneAnswerEach'
         /\ AllEarlier \/ reqno' = reqno + 1 => AllEarlier'
<1>1. Len(wire') = Len(wire) /\ \A i \in 1 .. Len(wire) : wire'[i].req = wire[i].req
  BY MarkWholeType
<1>2. \A i \in 1 .. Len(wire) : wire[i] \in Records
  OBVIOUS
<1>3. Len(wire) \in Nat /\ \A i \in 1 .. Len(wire) : wire[i].req \in Nat
  BY <1>2 DEF Records
<1> QED
  BY <1>1, <1>3 DEF OneAnswerEach, AllEarlier

(* What every step does about answers: it starts the answer of the current *)
(* request, the first one for it, or it leaves the answers as they are and *)
(* does not move to where an answer is owed that has been started.         *)
AnswerStep ==
  \/ /\ AllEarlier /\ reqno' = reqno
     /\ pc \in Unanswered \ {"raw"} /\ pc' \in {"write", "wheader"}
     /\ \E site \in Sites, close, keep, shut \in BOOLEAN : StartResponse(site, close, keep, shut)
  \/ /\ UNCHANGED wire \/ (Len(wire) > 0 /\ MarkWhole)
     /\ reqno' \in {reqno, reqno + 1}
     /\ pc' \in Unanswered => AllEarlier \/ reqno' = reqno + 1
     /\ pc' = "unwind" => \/ AllEarlier
                          \/ midstream'
                          \/ (cancelled' \/ shutting') /\ failed' = "aborted"

(* Such a step keeps one answer per request.                              *)
LEMMA AnswerStepSuffices ==
  ASSUME IInv, OneAnswerEach, AnswerInv, AnswerStep
  PROVE  OneAnswerEach' /\ AnswerInv'
<1>1. wire \in Seq(Records) /\ reqno \in Nat
  BY DEF IInv, TypeConnection, PlainConnection
<1>2. CASE /\ AllEarlier /\ reqno' = reqno
           /\ pc \in Unanswered \ {"raw"} /\ pc' \in {"write", "wheader"}
           /\ \E site \in Sites, close, keep, shut \in BOOLEAN :
                StartResponse(site, close, keep, shut)
  BY <1>1, <1>2, StartOrdered DEF AnswerInv, Unanswered
<1>3. CASE /\ UNCHANGED wire \/ (Len(wire) > 0 /\ MarkWhole)
           /\ reqno' \in {reqno, reqno + 1}
           /\ pc' \in Unanswered => AllEarlier \/ reqno' = reqno + 1
           /\ pc' = "unwind" => \/ AllEarlier
                                \/ midstream'
                                \/ (cancelled' \/ shutting') /\ failed' = "aborted"
  BY <1>1, <1>3, StutterOrdered DEF AnswerInv
<1> QED
  BY <1>2, <1>3 DEF AnswerStep

(* Every step is such a step.                                              *)
LEMMA StepAnswer ==
  ASSUME IInv, AnswerInv, [Next]_vars
  PROVE  AnswerStep
<1>0. reqno \in Nat /\ "unwind" \notin Unanswered
  BY DEF IInv, TypeConnection, PlainConnection, Unanswered
<1> USE <1>0 DEF Go, Await, Raise, Throws, CoAwait, TryAwait, AnswerInv, AnswerStep
<1>1. CASE LoopTop
  BY <1>1 DEF LoopTop, LoopEnds, BeginRequest, Unanswered
<1>2. CASE ResumeIdle
  BY <1>2 DEF ResumeIdle, BeginRequest, Unanswered
<1>3. CASE ResumeHeader
  BY <1>3, RequestUpdates DEF ResumeHeader, HeaderParsed, HeaderFailed, ReadResult,
     ProtocolError, Answer, Overread, Shield, Unanswered, Sites, TypeControl, TypeRequest,
     IInv
<1>4. CASE ResumeIntercept
  BY <1>4, RequestUpdates DEF ResumeIntercept, ObserveShutdown, Unanswered, Sites,
     TypeControl, TypeRequest, IInv
<1>5. CASE Dispatch
  BY <1>5, RequestUpdates DEF Dispatch, ReadsItsBody, AnswerNotFound, ProtocolError, Answer, Unanswered,
     Sites, TypeControl, TypeRequest, IInv
<1>6. CASE ResumeBody
  BY <1>6, RequestUpdates DEF ResumeBody, BodyIncomplete, AnswerNotFound, ReadResult,
     ProtocolError, Answer, Overread, Unanswered, Sites, TypeControl, TypeRequest, IInv
<1>7. CASE Start
  BY <1>7 DEF Start, ShieldsHandler, Unanswered
<1>8. CASE ResumeHandler
  BY <1>8, RequestUpdates DEF ResumeHandler, FinishResponse, ObserveShutdown, Thrown,
     Unanswered, Sites, TypeControl, TypeRequest, IInv
<1>9. CASE Unwind
  BY <1>9, RequestUpdates DEF Unwind, EndedByShutdown, ObserveShutdown, Unanswered, Sites,
     TypeControl, TypeRequest, IInv
<1>10. CASE ResumeUpload
  BY <1>10, RequestUpdates DEF ResumeUpload, AnswerUpload, Leftover, UploadKeepAlive, ObserveShutdown, Thrown,
     Unanswered, Sites, TypeControl, TypeRequest, IInv
<1>11. CASE ResumeUploadRead
  BY <1>11 DEF ResumeUploadRead, ReadResult, Overread, Unanswered
<1>12. CASE ResumeProduce
  BY <1>12, RequestUpdates DEF ResumeProduce, Thrown, Unanswered, Sites, TypeControl,
     TypeRequest, IInv
<1>13. CASE ResumeStreamHeader
  BY <1>13 DEF ResumeStreamHeader, Return, Unanswered, IInv, WireInv
<1>14. CASE ResumeChunk
  BY <1>14 DEF ResumeChunk, Unanswered
<1>15. CASE ResumeNext
  BY <1>15 DEF ResumeNext, KeepStreamError, Thrown, Unanswered
<1>16. CASE ResumeLastChunk
  BY <1>16 DEF ResumeLastChunk, Return, Unanswered, IInv, WireInv
<1>17. CASE ResumeSoft
  <2>1. CASE op = "answer"
    <3>1. PICK ka \in BOOLEAN : Answer(answer.site, ~ka, ka /\ answer.keep, shutting)
      BY <1>17, <2>1, SoftAnswers
    <3>2. pc = "soft" /\ reqno' = reqno
      BY <1>17 DEF ResumeSoft
    <3>3. /\ answer.site \in Sites /\ shutting \in BOOLEAN
          /\ (~ka) \in BOOLEAN /\ (ka /\ answer.keep) \in BOOLEAN
      BY DEF TypeRequest, IInv
    <3>4. CASE Throws
      BY <3>1, <3>2, <3>4 DEF Answer, Unanswered
    <3>5. CASE ~Throws
      BY <3>1, <3>2, <3>3, <3>5 DEF Answer, Unanswered
    <3> QED
      BY <3>4, <3>5
  <2>2. CASE op # "answer"
    BY <1>17, <2>2 DEF ResumeSoft, Unanswered
  <2> QED
    BY <2>1, <2>2
<1>18. CASE ResumeWrite
  BY <1>18 DEF ResumeWrite, Return, Unanswered, IInv, WireInv
<1>19. CASE ResumeRaw
  BY <1>19 DEF ResumeRaw, BodyInv, Unanswered, IInv
<1>20. CASE Closing
  BY <1>20 DEF Closing, Unanswered
<1>21. CASE ResumeLinger
  BY <1>21 DEF ResumeLinger, Unanswered
<1>22. CASE PeerSends
  BY <1>22 DEF PeerSends, Complete, Unanswered
<1>23. CASE PeerSendsBad
  BY <1>23 DEF PeerSendsBad, Complete, Unanswered
<1>24. CASE PeerCloses
  BY <1>24 DEF PeerCloses, Complete, Unanswered
<1>25. CASE PeerResets
  BY <1>25 DEF PeerResets, Complete, Unanswered
<1>26. CASE PeerReads
  BY <1>26 DEF PeerReads, Complete, Unanswered
<1>27. CASE ExpiryFires
  BY <1>27 DEF ExpiryFires, Complete, Unanswered
<1>28. CASE DeadlineFires
  BY <1>28 DEF DeadlineFires, Unanswered
<1>29. CASE UserCodeCompletes
  BY <1>29 DEF UserCodeCompletes, Complete, Unanswered
<1>30. CASE RawCompletes
  BY <1>30 DEF RawCompletes, Complete, Unanswered
<1>31. CASE GeneratorCompletes
  BY <1>31 DEF GeneratorCompletes, Complete, Unanswered
<1>32. CASE Emit
  BY <1>32 DEF Emit, Unanswered
<1>33. CASE Terminated
  BY <1>33 DEF Terminated, moving, Unanswered
<1>34. CASE UNCHANGED moving
  BY <1>34 DEF moving
<1> QED
  BY <1>1, <1>2, <1>3, <1>4, <1>5, <1>6, <1>7, <1>8, <1>9, <1>10, <1>11, <1>12, <1>13,
     <1>14, <1>15, <1>16, <1>17, <1>18, <1>19, <1>20, <1>21, <1>22, <1>23, <1>24, <1>25,
     <1>26, <1>27, <1>28, <1>29, <1>30, <1>31, <1>32, <1>33, <1>34 DEF Next, Step, Coroutine,
     Peer, vars

(* Whatever fails, and wherever, a request gets at most one answer and the *)
(* answers go out in the order of the requests.                            *)
THEOREM AtMostOneAnswer == Spec => []OneAnswerEach
<1> DEFINE Inv == IInv /\ OneAnswerEach /\ AnswerInv
<1>1. Init => Inv
  BY InitIInv DEF Init, OneAnswerEach, AnswerInv, AllEarlier, Unanswered
<1>2. Inv /\ [Next]_vars => Inv'
  BY StepIInv, StepAnswer, AnswerStepSuffices
<1>3. Inv => OneAnswerEach
  OBVIOUS
<1> QED
  BY <1>1, <1>2, <1>3, PTL DEF Spec

-----------------------------------------------------------------------------
(* What a timeout or a raw handler leaves to the connection, and what a    *)
(* shutdown may interrupt.  A socket that is not open any more is only met *)
(* on the way to the end of the connection; while an interceptor, a plain  *)
(* handler or a handler that reads its body runs, the coroutine is         *)
(* shielded.                                                               *)
SocketInv ==
  \/ sock = "open"
  \/ pc \in {"loop", "closing", "done", "raw", "linger"}
  \/ pc \in {"idle"} \cup Writes /\ op = "timeout"

ShieldInv == pc \in {"intercept", "handler", "upload", "uread"} => shielded

(* Every step keeps both.                                                  *)
LEMMA StepSocket ==
  ASSUME IInv, SocketInv, ShieldInv, [Next]_vars
  PROVE  SocketInv' /\ ShieldInv'
<1> USE DEF Go, Await, Raise, Throws, CoAwait, TryAwait, SocketInv, ShieldInv, Writes
<1>1. CASE LoopTop
  BY <1>1 DEF LoopTop, LoopEnds, BeginRequest
<1>2. CASE ResumeIdle
  BY <1>2 DEF ResumeIdle, BeginRequest
<1>3. CASE ResumeHeader
  BY <1>3 DEF ResumeHeader, HeaderParsed, HeaderFailed, ReadResult, ProtocolError, Answer, Shield
<1>4. CASE ResumeIntercept
  BY <1>4 DEF ResumeIntercept, ObserveShutdown
<1>5. CASE Dispatch
  BY <1>5 DEF Dispatch, ReadsItsBody, AnswerNotFound, ProtocolError, Answer
<1>6. CASE ResumeBody
  BY <1>6 DEF ResumeBody, AnswerNotFound, ReadResult, ProtocolError, Answer
<1>7. CASE Start
  BY <1>7 DEF Start, ShieldsHandler
<1>8. CASE ResumeHandler
  BY <1>8 DEF ResumeHandler, ObserveShutdown
<1>9. CASE Unwind
  BY <1>9 DEF Unwind, ObserveShutdown
<1>10. CASE ResumeUpload
  <2>1. pc = "upload" /\ sock = "open" /\ UNCHANGED sock
    BY <1>10 DEF ResumeUpload
  <2>2. pc' \in {"write", "soft"} \/ (pc' = "uread" /\ UNCHANGED shielded)
    BY <1>10 DEF ResumeUpload
  <2>3. SocketInv'
    BY <2>1
  <2>4. ShieldInv'
    BY <2>1, <2>2
  <2> QED
    BY <2>3, <2>4
<1>11. CASE ResumeUploadRead
  BY <1>11 DEF ResumeUploadRead
<1>12. CASE ResumeProduce
  BY <1>12 DEF ResumeProduce
<1>13. CASE ResumeStreamHeader
  BY <1>13 DEF ResumeStreamHeader, Return
<1>14. CASE ResumeChunk
  BY <1>14 DEF ResumeChunk
<1>15. CASE ResumeNext
  BY <1>15 DEF ResumeNext
<1>16. CASE ResumeLastChunk
  BY <1>16 DEF ResumeLastChunk, Return
<1>17. CASE ResumeSoft
  BY <1>17 DEF ResumeSoft, Answer
<1>18. CASE ResumeWrite
  BY <1>18 DEF ResumeWrite, Return
<1>19. CASE ResumeRaw
  BY <1>19 DEF ResumeRaw, IInv, BodyInv
<1>20. CASE Closing
  BY <1>20 DEF Closing
<1>21. CASE ResumeLinger
  BY <1>21 DEF ResumeLinger
<1>22. CASE PeerSends
  BY <1>22 DEF PeerSends, Complete
<1>23. CASE PeerSendsBad
  BY <1>23 DEF PeerSendsBad, Complete
<1>24. CASE PeerCloses
  BY <1>24 DEF PeerCloses, Complete
<1>25. CASE PeerResets
  BY <1>25 DEF PeerResets, Complete
<1>26. CASE PeerReads
  BY <1>26 DEF PeerReads, Complete
<1>27. CASE ExpiryFires
  BY <1>27 DEF ExpiryFires, Complete, Expiring
<1>28. CASE DeadlineFires
  BY <1>28 DEF DeadlineFires, Deadlined
<1>29. CASE UserCodeCompletes
  BY <1>29 DEF UserCodeCompletes, Complete
<1>30. CASE RawCompletes
  BY <1>30 DEF RawCompletes, Complete
<1>31. CASE GeneratorCompletes
  BY <1>31 DEF GeneratorCompletes, Complete
<1>32. CASE Emit
  BY <1>32 DEF Emit
<1>33. CASE Terminated
  BY <1>33 DEF Terminated, moving
<1>34. CASE UNCHANGED moving
  BY <1>34 DEF moving
<1> QED
  BY <1>1, <1>2, <1>3, <1>4, <1>5, <1>6, <1>7, <1>8, <1>9, <1>10, <1>11, <1>12, <1>13,
     <1>14, <1>15, <1>16, <1>17, <1>18, <1>19, <1>20, <1>21, <1>22, <1>23, <1>24, <1>25,
     <1>26, <1>27, <1>28, <1>29, <1>30, <1>31, <1>32, <1>33, <1>34
     DEF Next, Step, Coroutine, Peer, vars

(* No answer is started on a socket that a timeout closed or that a raw    *)
(* handler took over.                                                      *)
THEOREM ClosedStaysSilent == Spec => NoAnswerAfterClose
<1> DEFINE Inv == IInv /\ OneAnswerEach /\ AnswerInv /\ SocketInv /\ ShieldInv
<1>1. Init => Inv
  BY InitIInv DEF Init, OneAnswerEach, AnswerInv, AllEarlier, Unanswered, SocketInv, ShieldInv
<1>2. Inv /\ [Next]_vars => Inv'
  BY StepIInv, StepAnswer, AnswerStepSuffices, StepSocket
<1>3. Inv /\ [Next]_vars => [Len(wire') > Len(wire) => sock = "open"]_vars
  <2> SUFFICES ASSUME Inv, [Next]_vars, Len(wire') > Len(wire)
               PROVE  sock = "open"
    OBVIOUS
  <2>1. wire \in Seq(Records) /\ Len(wire) \in Nat
    BY DEF IInv, TypeConnection
  <2>2. ~(UNCHANGED wire \/ (Len(wire) > 0 /\ MarkWhole))
    BY <2>1, MarkWholeType
  <2>3. pc \in Unanswered \ {"raw"}
    BY <2>2, StepAnswer DEF AnswerStep
  <2> QED
    BY <2>3 DEF SocketInv, Unanswered, Writes
<1> QED
  BY <1>1, <1>2, <1>3, PTL DEF Spec, NoAnswerAfterClose

(* However many emissions there are, none interrupts an interceptor, a     *)
(* plain handler or a handler that reads its body.                         *)
THEOREM ShutdownSparesHandlers == Spec => PlainHandlersSpared
<1> DEFINE Inv == SocketInv /\ ShieldInv /\ IInv
<1>1. Init => Inv
  BY InitIInv DEF Init, SocketInv, ShieldInv
<1>2. Inv /\ [Next]_vars => Inv'
  BY StepIInv, StepSocket
<1>3. Inv /\ [Next]_vars =>
        [emits' > emits /\ pc \in {"intercept", "handler", "upload", "uread"} => op' = op]_vars
  <2> SUFFICES ASSUME Inv, [Next]_vars, emits' > emits,
                      pc \in {"intercept", "handler", "upload", "uread"}
               PROVE  op' = op
    OBVIOUS
  <2>1. emits \in Nat /\ shielded
    BY SessionAssumption DEF IInv, TypeControl, TypeConnection, PlainConnection, ShieldInv
  <2>2. Emit \/ UNCHANGED emits
    BY DEF Next, Step, Coroutine, Peer, vars, moving, Complete, LoopTop, ResumeIdle, ResumeHeader,
       ResumeIntercept, Dispatch, ResumeBody, Start, ResumeHandler, Unwind, ResumeUpload,
       ResumeUploadRead, ResumeProduce, ResumeStreamHeader, ResumeChunk, ResumeNext,
       ResumeLastChunk, ResumeSoft, ResumeWrite, ResumeRaw, Closing, ResumeLinger,
       PeerSends, PeerSendsBad, PeerCloses, PeerResets, PeerReads, ExpiryFires,
       DeadlineFires, UserCodeCompletes, RawCompletes, GeneratorCompletes, Terminated
  <2>3. emits # emits'
    BY <2>1
  <2>4. Emit
    BY <2>2, <2>3
  <2>5. op' = IF op = "pending" /\ ~shielded THEN "aborted" ELSE op
    BY <2>4 DEF Emit
  <2> QED
    BY <2>1, <2>5
<1> QED
  BY <1>1, <1>2, <1>3, PTL DEF Spec, PlainHandlersSpared

-----------------------------------------------------------------------------
(* The last answer.  Where a further answer may still be started all       *)
(* answers so far left the connection usable: none announced its close, and*)
(* none was cut short, unless the peer is gone and will take nothing more. *)
Owed == {"idle", "header", "intercept", "dispatch", "body", "start", "handler", "upload",
         "uread", "produce", "soft"}

AllClear ==
  /\ \A i \in 1 .. Len(wire) : ~wire[i].close
  /\ peerGone \/ \A i \in 1 .. Len(wire) : wire[i].whole

EarlierClear ==
  /\ \A i \in 1 .. Len(wire) - 1 : ~wire[i].close
  /\ peerGone \/ \A i \in 1 .. Len(wire) - 1 : wire[i].whole

FinalInv ==
  /\ pc \in Owed => AllClear
  /\ pc = "loop" => LoopEnds \/ AllClear
  /\ pc = "unwind" => \/ AllClear
                      \/ midstream
                      \/ (cancelled \/ shutting) /\ failed = "aborted"
  /\ pc \in Writes \cup {"next"} => /\ EarlierClear
                                    /\ answer.keep => ~wire[Len(wire)].close

(* What the end of a write says: only a failed one leaves its answer cut   *)
(* short, and each way to fail ends the connection.                        *)
WriteInv ==
  pc \in Writes =>
    /\ op \in {"pending", "ok", "error", "timeout", "aborted"}
    /\ op = "ok" => ~peerGone
    /\ op = "error" => peerGone
    /\ op = "timeout" => sock # "open"
    /\ op = "aborted" => cancelled

(* A usable connection may take a further answer, which is kept only if it *)
(* does not announce the close.                                            *)
LEMMA StartFinal ==
  ASSUME wire \in Seq(Records), NothingAfterTheLast, AllClear, UNCHANGED peerGone,
         NEW site, NEW close \in BOOLEAN, NEW keep \in BOOLEAN, NEW shut, keep => ~close,
         StartResponse(site, close, keep, shut)
  PROVE  /\ NothingAfterTheLast'
         /\ EarlierClear'
         /\ answer'.keep => ~wire'[Len(wire')].close
<1> DEFINE rec == [req |-> reqno, close |-> close, shut |-> shut, whole |-> FALSE]
<1>1. rec.close = close /\ rec.whole = FALSE
  OBVIOUS
<1>2. wire' = Append(wire, rec) /\ answer'.keep = keep
  BY DEF StartResponse
<1> HIDE DEF rec
<1>3. Len(wire) \in Nat /\ Len(wire') = Len(wire) + 1 /\ wire'[Len(wire')] = rec
  BY <1>2
<1>4. \A i \in 1 .. Len(wire) : wire'[i] = wire[i]
  BY <1>2
<1>5. EarlierClear'
  BY <1>3, <1>4 DEF AllClear, EarlierClear
<1>6. NothingAfterTheLast'
  <2> SUFFICES ASSUME NEW i \in 1 .. Len(wire'), NEW j \in 1 .. Len(wire'), i < j
               PROVE  ~wire'[i].close /\ (wire'[j].whole => wire'[i].whole)
    BY DEF NothingAfterTheLast
  <2>1. i \in 1 .. Len(wire) /\ ~wire'[i].close
    BY <1>3, <1>4 DEF AllClear, EarlierClear
  <2>2. CASE j = Len(wire')
    BY <1>1, <1>3, <2>1, <2>2
  <2>3. CASE j # Len(wire')
    BY <1>3, <1>4, <2>1, <2>3 DEF NothingAfterTheLast
  <2> QED
    BY <2>2, <2>3
<1> QED
  BY <1>1, <1>2, <1>3, <1>5, <1>6

(* Completing the last answer after answers that were completed.           *)
LEMMA MarkFinal ==
  ASSUME wire \in Seq(Records), Len(wire) > 0, NothingAfterTheLast, EarlierClear,
         ~peerGone, MarkWhole
  PROVE  /\ NothingAfterTheLast'
         /\ ~wire[Len(wire)].close => AllClear'
<1> DEFINE last == wire[Len(wire)]
           rec == [last EXCEPT !.whole = TRUE]
<1>1. Len(wire) \in Nat /\ last \in Records
  OBVIOUS
<1>2. rec.close = last.close /\ rec.whole = TRUE
  BY <1>1 DEF Records
<1>3. wire' = [wire EXCEPT ![Len(wire)] = rec]
  BY DEF MarkWhole
<1> HIDE DEF rec
<1>4. /\ Len(wire') = Len(wire) /\ wire'[Len(wire)] = rec
      /\ \A i \in 1 .. Len(wire) : i # Len(wire) => wire'[i] = wire[i]
  BY <1>1, <1>3
<1>5. \A i \in 1 .. Len(wire) - 1 : ~wire'[i].close /\ wire'[i].whole
  BY <1>1, <1>4 DEF AllClear, EarlierClear
<1>6. NothingAfterTheLast'
  <2> SUFFICES ASSUME NEW i \in 1 .. Len(wire'), NEW j \in 1 .. Len(wire'), i < j
               PROVE  ~wire'[i].close /\ (wire'[j].whole => wire'[i].whole)
    BY DEF NothingAfterTheLast
  <2>1. i \in 1 .. Len(wire) - 1
    BY <1>1, <1>4
  <2> QED
    BY <1>5, <2>1
<1>7. ASSUME ~wire[Len(wire)].close PROVE AllClear'
  BY <1>1, <1>2, <1>4, <1>5, <1>7 DEF AllClear, EarlierClear
<1> QED
  BY <1>6, <1>7

(* What every step does about the last answer: it starts one on a usable   *)
(* connection, it completes the one being written and goes on only with a  *)
(* connection that is kept, or it leaves the answers alone and goes to     *)
(* where further ones may be started only from such a place, or after a    *)
(* write that failed because the peer is gone.                             *)
FinalStep ==
  \/ /\ AllClear /\ UNCHANGED peerGone
     /\ pc' \in {"write", "wheader"} /\ op' = "pending"
     /\ \E site \in Sites, close, keep, shut \in BOOLEAN :
          (keep => ~close) /\ StartResponse(site, close, keep, shut)
  \/ /\ pc \in Writes /\ op = "ok" /\ MarkWhole /\ UNCHANGED <<peerGone, answer>>
     /\ pc' \in {"loop", "closing"} /\ (pc' = "loop" => answer.keep)
  \/ /\ UNCHANGED wire /\ (peerGone => peerGone') /\ WriteInv'
     /\ pc' \in Owed => AllClear
     /\ pc' = "loop" => \/ LoopEnds' \/ AllClear
                        \/ pc \in Writes /\ answer.keep /\ peerGone
     /\ pc' = "unwind" => \/ AllClear
                          \/ midstream'
                          \/ (cancelled' \/ shutting') /\ failed' = "aborted"
     /\ pc' \in Writes \cup {"next"} => pc \in Writes \cup {"next"} /\ UNCHANGED answer

(* Such a step leaves nothing after the last answer.                       *)
LEMMA FinalStepSuffices ==
  ASSUME IInv, NothingAfterTheLast, FinalInv, WriteInv, FinalStep
  PROVE  NothingAfterTheLast' /\ FinalInv' /\ WriteInv'
<1>1. wire \in Seq(Records) /\ Len(wire) \in Nat /\ peerGone \in BOOLEAN
  BY DEF IInv, TypeConnection, PlainConnection
<1>2. ASSUME AllClear, UNCHANGED peerGone, pc' \in {"write", "wheader"}, op' = "pending",
             NEW site \in Sites, NEW close \in BOOLEAN, NEW keep \in BOOLEAN, NEW shut \in BOOLEAN,
             keep => ~close, StartResponse(site, close, keep, shut)
      PROVE  NothingAfterTheLast' /\ FinalInv' /\ WriteInv'
  <2>1. /\ NothingAfterTheLast' /\ EarlierClear'
        /\ answer'.keep => ~wire'[Len(wire')].close
    BY <1>1, <1>2, StartFinal
  <2>2. FinalInv'
    BY <1>2, <2>1 DEF FinalInv, Owed, AllClear, EarlierClear
  <2>3. WriteInv'
    BY <1>2 DEF WriteInv
  <2> QED
    BY <2>1, <2>2, <2>3
<1>3. CASE /\ pc \in Writes /\ op = "ok" /\ MarkWhole /\ UNCHANGED <<peerGone, answer>>
           /\ pc' \in {"loop", "closing"} /\ (pc' = "loop" => answer.keep)
  <2>1. Len(wire) > 0 /\ ~peerGone /\ EarlierClear
    <3>1. Len(wire) > 0
      BY <1>3 DEF IInv, WireInv, Writes
    <3>2. ~peerGone
      BY <1>3 DEF WriteInv
    <3>3. EarlierClear
      BY <1>3 DEF FinalInv
    <3> QED
      BY <3>1, <3>2, <3>3
  <2>2. NothingAfterTheLast' /\ (~wire[Len(wire)].close => AllClear')
    BY <1>1, <1>3, <2>1, MarkFinal
  <2>3. Len(wire') = Len(wire)
    BY <1>1, <1>3, <2>1, MarkWholeType
  <2>4. pc' = "loop" => AllClear'
    <3> SUFFICES ASSUME pc' = "loop" PROVE AllClear'
      OBVIOUS
    <3>1. answer.keep => ~wire[Len(wire)].close
      BY <1>3 DEF FinalInv
    <3> QED
      BY <1>3, <2>2, <3>1
  <2>5. FinalInv'
    BY <1>3, <2>4 DEF FinalInv, Owed, Writes, AllClear, EarlierClear
  <2>6. WriteInv'
    BY <1>3 DEF WriteInv, Writes
  <2> QED
    BY <2>2, <2>5, <2>6
<1>4. CASE /\ UNCHANGED wire /\ (peerGone => peerGone') /\ WriteInv'
           /\ pc' \in Owed => AllClear
           /\ pc' = "loop" => \/ LoopEnds' \/ AllClear
                              \/ pc \in Writes /\ answer.keep /\ peerGone
           /\ pc' = "unwind" => \/ AllClear
                                \/ midstream'
                                \/ (cancelled' \/ shutting') /\ failed' = "aborted"
           /\ pc' \in Writes \cup {"next"} => pc \in Writes \cup {"next"} /\ UNCHANGED answer
  <2>1. NothingAfterTheLast'
    BY <1>4 DEF NothingAfterTheLast
  <2>2. AllClear => AllClear'
    BY <1>4 DEF AllClear, EarlierClear
  <2>3. EarlierClear => EarlierClear'
    BY <1>4 DEF AllClear, EarlierClear
  <2>4. pc \in Writes /\ answer.keep /\ peerGone => AllClear
    <3> SUFFICES ASSUME pc \in Writes, answer.keep, peerGone
                 PROVE  \A i \in 1 .. Len(wire) : ~wire[i].close
      BY DEF AllClear, EarlierClear
    <3>1. EarlierClear /\ (answer.keep => ~wire[Len(wire)].close)
      BY DEF FinalInv
    <3> QED
      BY <1>1, <3>1 DEF AllClear, EarlierClear
  <2>5. FinalInv'
    <3>1. pc' \in Owed => AllClear'
      BY <1>4, <2>2
    <3>2. pc' = "loop" => LoopEnds' \/ AllClear'
      BY <1>4, <2>2, <2>4
    <3>3. pc' = "unwind" => \/ AllClear'
                            \/ midstream'
                            \/ (cancelled' \/ shutting') /\ failed' = "aborted"
      BY <1>4, <2>2
    <3>4. pc' \in Writes \cup {"next"} => EarlierClear' /\ (answer'.keep => ~wire'[Len(wire')].close)
      <4> SUFFICES ASSUME pc' \in Writes \cup {"next"}
                   PROVE  EarlierClear' /\ (answer'.keep => ~wire'[Len(wire')].close)
        OBVIOUS
      <4>1. pc \in Writes \cup {"next"} /\ UNCHANGED <<answer, wire>>
        BY <1>4
      <4>2. EarlierClear /\ (answer.keep => ~wire[Len(wire)].close)
        BY <4>1 DEF FinalInv
      <4> QED
        BY <2>3, <4>1, <4>2
    <3> QED
      BY <3>1, <3>2, <3>3, <3>4 DEF FinalInv
  <2> QED
    BY <1>4, <2>1, <2>5
<1> QED
  BY <1>2, <1>3, <1>4 DEF FinalStep

(* Every step is such a step.                                              *)
LEMMA StepFinal ==
  ASSUME IInv, FinalInv, WriteInv, [Next]_vars
  PROVE  FinalStep
<1>0. /\ "unwind" \notin Owed /\ "loop" \notin Owed /\ "next" \notin Owed
      /\ Owed \cap Writes = {} /\ wire \in Seq(Records)
  BY DEF IInv, TypeConnection, Owed, Writes
<1> USE <1>0 DEF Go, Await, Raise, Throws, CoAwait, TryAwait, FinalInv, WriteInv, FinalStep,
        Owed, Writes, LoopEnds
<1>1. CASE LoopTop
  BY <1>1 DEF LoopTop, BeginRequest
<1>2. CASE ResumeIdle
  BY <1>2 DEF ResumeIdle, BeginRequest
<1>3. CASE ResumeHeader
  BY <1>3, RequestUpdates DEF ResumeHeader, HeaderParsed, HeaderFailed, ReadResult,
     ProtocolError, Answer, Shield, Sites, TypeControl, TypeRequest, IInv
<1>4. CASE ResumeIntercept
  BY <1>4, RequestUpdates DEF ResumeIntercept, ObserveShutdown, Sites, TypeControl,
     TypeRequest, IInv
<1>5. CASE Dispatch
  BY <1>5, RequestUpdates DEF Dispatch, ReadsItsBody, AnswerNotFound, ProtocolError, Answer, Sites,
     TypeControl, TypeRequest, IInv
<1>6. CASE ResumeBody
  BY <1>6, RequestUpdates DEF ResumeBody, AnswerNotFound, ReadResult, ProtocolError,
     Answer, Sites, TypeControl, TypeRequest, IInv
<1>7. CASE Start
  BY <1>7 DEF Start, ShieldsHandler
<1>8. CASE ResumeHandler
  BY <1>8, RequestUpdates DEF ResumeHandler, ObserveShutdown, FinishResponse, Sites,
     Thrown, TypeControl, TypeRequest, IInv
<1>9. CASE Unwind
  BY <1>9 DEF Unwind, ObserveShutdown, EndedByShutdown
<1>10. CASE ResumeUpload
  BY <1>10, RequestUpdates DEF ResumeUpload, AnswerUpload, Leftover, ObserveShutdown, UploadKeepAlive, Sites,
     Thrown, TypeControl, TypeRequest, IInv
<1>11. CASE ResumeUploadRead
  BY <1>11 DEF ResumeUploadRead
<1>12. CASE ResumeProduce
  BY <1>12, RequestUpdates DEF ResumeProduce, Sites, Thrown, TypeControl, TypeRequest,
     IInv
<1>13. CASE ResumeStreamHeader
  BY <1>13 DEF ResumeStreamHeader, Return
<1>14. CASE ResumeChunk
  BY <1>14 DEF ResumeChunk
<1>15. CASE ResumeNext
  BY <1>15 DEF ResumeNext, KeepStreamError
<1>16. CASE ResumeLastChunk
  BY <1>16 DEF ResumeLastChunk, Return
<1>17. CASE ResumeSoft
  BY <1>17, RequestUpdates DEF ResumeSoft, Answer, TypeControl, TypeRequest, IInv
<1>18. CASE ResumeWrite
  BY <1>18 DEF ResumeWrite, Return
<1>19. CASE ResumeRaw
  BY <1>19 DEF ResumeRaw, BodyInv, IInv
<1>20. CASE Closing
  BY <1>20 DEF Closing
<1>21. CASE ResumeLinger
  BY <1>21 DEF ResumeLinger
<1>22. CASE PeerSends
  BY <1>22 DEF PeerSends, Complete
<1>23. CASE PeerSendsBad
  BY <1>23 DEF PeerSendsBad, Complete, Deadlined
<1>24. CASE PeerCloses
  BY <1>24 DEF PeerCloses, Complete
<1>25. CASE PeerResets
  BY <1>25 DEF PeerResets, Complete
<1>26. CASE PeerReads
  BY <1>26 DEF PeerReads, Complete
<1>27. CASE ExpiryFires
  BY <1>27 DEF ExpiryFires, Complete, Expiring
<1>28. CASE DeadlineFires
  BY <1>28 DEF DeadlineFires, Deadlined
<1>29. CASE UserCodeCompletes
  BY <1>29 DEF UserCodeCompletes, Complete
<1>30. CASE RawCompletes
  BY <1>30 DEF RawCompletes, Complete
<1>31. CASE GeneratorCompletes
  BY <1>31 DEF GeneratorCompletes, Complete, Produces
<1>32. CASE Emit
  BY <1>32 DEF Emit
<1>33. CASE Terminated
  BY <1>33 DEF Terminated, moving
<1>34. CASE UNCHANGED moving
  BY <1>34 DEF moving
<1> QED
  BY <1>1, <1>2, <1>3, <1>4, <1>5, <1>6, <1>7, <1>8, <1>9, <1>10, <1>11, <1>12, <1>13,
     <1>14, <1>15, <1>16, <1>17, <1>18, <1>19, <1>20, <1>21, <1>22, <1>23, <1>24, <1>25,
     <1>26, <1>27, <1>28, <1>29, <1>30, <1>31, <1>32, <1>33, <1>34
     DEF Next, Step, Coroutine, Peer, vars

(* Nothing follows an answer that announced the close of the connection,   *)
(* and nothing complete follows one that was cut short.                    *)
THEOREM LastIsLast == Spec => []NothingAfterTheLast
<1> DEFINE Inv == IInv /\ NothingAfterTheLast /\ FinalInv /\ WriteInv
<1>1. Init => Inv
  BY InitIInv DEF Init, NothingAfterTheLast, FinalInv, WriteInv, Owed, Writes, AllClear, EarlierClear
<1>2. Inv /\ [Next]_vars => Inv'
  BY StepIInv, StepFinal, FinalStepSuffices
<1>3. Inv => NothingAfterTheLast
  OBVIOUS
<1> QED
  BY <1>1, <1>2, <1>3, PTL DEF Spec

-----------------------------------------------------------------------------
(* No request is dropped in silence.  Until a shutdown is emitted, the     *)
(* connection is in one of these places only if the request counted last   *)
(* has been answered, reported as a hard error or taken over by a raw      *)
(* handler; and the wait for a header is only cancelled by its deadline,   *)
(* which is answered.                                                      *)
Accounted == {"loop", "idle", "next", "raw", "linger", "closing", "done"} \cup Writes

AnsweredNow == \E i \in 1 .. Len(wire) : wire[i].req = reqno

Settled == reqno = 0 \/ hard # "none" \/ req.route = "raw" \/ AnsweredNow

ReportInv ==
  emits = 0 => /\ ~cancelled /\ ~shutting
               /\ pc \in Accounted => Settled
               /\ (pc = "header" /\ op = "aborted") => expired

(* What every step before a shutdown does about the current request: it    *)
(* starts its answer, or goes to one of these places only with a failure to*)
(* report, to a raw handler, or from another of them with the same request.*)
SettlesStep ==
  \/ /\ UNCHANGED reqno
     /\ \E site \in Sites, close, keep, shut \in BOOLEAN :
          StartResponse(site, close, keep, shut)
  \/ /\ UNCHANGED wire \/ (Len(wire) > 0 /\ MarkWhole)
     /\ pc' \in Accounted => \/ hard' # "none"
                             \/ req'.route = "raw"
                             \/ pc \in Accounted /\ UNCHANGED <<reqno, req, hard>>

ReportStep ==
  emits' = 0 => /\ emits = 0 /\ ~cancelled' /\ ~shutting'
                /\ (pc' = "header" /\ op' = "aborted") => expired'
                /\ SettlesStep

(* The answer to the current request stays on the wire.                    *)
LEMMA AnsweredStays ==
  ASSUME wire \in Seq(Records), UNCHANGED wire \/ (Len(wire) > 0 /\ MarkWhole),
         UNCHANGED reqno, AnsweredNow
  PROVE  AnsweredNow'
<1>1. CASE UNCHANGED wire
  BY <1>1 DEF AnsweredNow
<1>2. CASE Len(wire) > 0 /\ MarkWhole
  BY <1>2, MarkWholeType DEF AnsweredNow
<1> QED
  BY <1>1, <1>2

(* Such a step drops no request.                                           *)
LEMMA ReportStepSuffices ==
  ASSUME IInv, ReportInv, ReportStep
  PROVE  ReportInv'
<1> SUFFICES ASSUME emits' = 0, pc' \in Accounted
             PROVE  Settled'
  BY DEF ReportStep, ReportInv
<1>1. emits = 0 /\ (pc \in Accounted => Settled) /\ SettlesStep
  BY DEF ReportStep, ReportInv
<1>2. ASSUME UNCHANGED reqno, NEW site \in Sites, NEW close \in BOOLEAN, NEW keep \in BOOLEAN,
             NEW shut \in BOOLEAN, StartResponse(site, close, keep, shut)
      PROVE  AnsweredNow'
  <2>1. Len(wire') = Len(wire) + 1 /\ wire'[Len(wire) + 1].req = reqno
    BY <1>2, StartResponseType DEF IInv
  <2>2. Len(wire) \in Nat
    BY DEF IInv, TypeConnection
  <2>3. Len(wire) + 1 \in 1 .. Len(wire')
    BY <2>1, <2>2
  <2> QED
    BY <1>2, <2>1, <2>3 DEF AnsweredNow
<1>3. CASE hard' # "none" \/ req'.route = "raw"
  BY <1>3 DEF Settled
<1>4. CASE /\ UNCHANGED wire \/ (Len(wire) > 0 /\ MarkWhole)
           /\ pc \in Accounted /\ UNCHANGED <<reqno, req, hard>>
  <2>1. AnsweredNow => AnsweredNow'
    BY <1>4, AnsweredStays DEF IInv, TypeConnection
  <2> QED
    BY <1>1, <1>4, <2>1 DEF Settled
<1> QED
  BY <1>1, <1>2, <1>3, <1>4 DEF SettlesStep, Settled

(* Every step is such a step.                                              *)
LEMMA StepReport ==
  ASSUME IInv, ReportInv, WriteInv, [Next]_vars
  PROVE  ReportStep
<1> SUFFICES ASSUME emits' = 0 PROVE ReportStep
  BY DEF ReportStep
<1>0. emits \in Nat /\ wire \in Seq(Records) /\ "none" \notin Failures
  BY SessionAssumption DEF IInv, TypeConnection, PlainConnection, Failures
<1> USE <1>0 DEF Go, Await, Raise, Throws, CoAwait, TryAwait, ReportInv, ReportStep,
        SettlesStep, Accounted, Writes
<1>1. CASE LoopTop
  BY <1>1 DEF LoopTop, BeginRequest
<1>2. CASE ResumeIdle
  BY <1>2 DEF ResumeIdle, BeginRequest
<1>3. CASE ResumeHeader
  BY <1>3, RequestUpdates DEF ResumeHeader, HeaderParsed, HeaderFailed, ReadResult,
     ProtocolError, Answer, Shield, Sites, TypeControl, TypeRequest, IInv
<1>4. CASE ResumeIntercept
  BY <1>4, RequestUpdates DEF ResumeIntercept, ObserveShutdown, Sites, TypeControl,
     TypeRequest, IInv
<1>5. CASE Dispatch
  BY <1>5, RequestUpdates DEF Dispatch, ReadsItsBody, AnswerNotFound, ProtocolError, Answer, Sites,
     TypeControl, TypeRequest, IInv
<1>6. CASE ResumeBody
  BY <1>6, RequestUpdates DEF ResumeBody, AnswerNotFound, ReadResult, ProtocolError,
     Answer, Sites, TypeControl, TypeRequest, IInv
<1>7. CASE Start
  BY <1>7 DEF Start, ShieldsHandler
<1>8. CASE ResumeHandler
  BY <1>8, RequestUpdates DEF ResumeHandler, ObserveShutdown, FinishResponse, Sites,
     TypeControl, TypeRequest, IInv
<1>9. CASE Unwind
  BY <1>9 DEF Unwind, ObserveShutdown, EndedByShutdown, TypeControl, IInv
<1>10. CASE ResumeUpload
  BY <1>10, RequestUpdates DEF ResumeUpload, AnswerUpload, Leftover, ObserveShutdown, UploadKeepAlive, Sites,
     TypeControl, TypeRequest, IInv
<1>11. CASE ResumeUploadRead
  BY <1>11 DEF ResumeUploadRead
<1>12. CASE ResumeProduce
  BY <1>12, RequestUpdates DEF ResumeProduce, Sites, TypeControl, TypeRequest, IInv
<1>13. CASE ResumeStreamHeader
  BY <1>13 DEF ResumeStreamHeader, Return, WireInv, IInv
<1>14. CASE ResumeChunk
  BY <1>14 DEF ResumeChunk
<1>15. CASE ResumeNext
  BY <1>15 DEF ResumeNext, KeepStreamError
<1>16. CASE ResumeLastChunk
  BY <1>16 DEF ResumeLastChunk, Return, WireInv, IInv
<1>17. CASE ResumeSoft
  BY <1>17, RequestUpdates DEF ResumeSoft, Answer, TypeControl, TypeRequest, IInv
<1>18. CASE ResumeWrite
  BY <1>18 DEF ResumeWrite, Return, WireInv, IInv
<1>19. CASE ResumeRaw
  BY <1>19 DEF ResumeRaw, BodyInv, IInv
<1>20. CASE Closing
  BY <1>20 DEF Closing
<1>21. CASE ResumeLinger
  BY <1>21 DEF ResumeLinger
<1>22. CASE PeerSends
  BY <1>22 DEF PeerSends, Complete
<1>23. CASE PeerSendsBad
  BY <1>23 DEF PeerSendsBad, Complete
<1>24. CASE PeerCloses
  BY <1>24 DEF PeerCloses, Complete
<1>25. CASE PeerResets
  BY <1>25 DEF PeerResets, Complete
<1>26. CASE PeerReads
  BY <1>26 DEF PeerReads, Complete
<1>27. CASE ExpiryFires
  BY <1>27 DEF ExpiryFires, Complete
<1>28. CASE DeadlineFires
  BY <1>28 DEF DeadlineFires
<1>29. CASE UserCodeCompletes
  BY <1>29 DEF UserCodeCompletes, Complete
<1>30. CASE RawCompletes
  BY <1>30 DEF RawCompletes, Complete
<1>31. CASE GeneratorCompletes
  BY <1>31 DEF GeneratorCompletes, Complete
<1>32. CASE Emit
  BY <1>32 DEF Emit
<1>33. CASE Terminated
  BY <1>33 DEF Terminated, moving
<1>34. CASE UNCHANGED moving
  BY <1>34 DEF moving
<1> QED
  BY <1>1, <1>2, <1>3, <1>4, <1>5, <1>6, <1>7, <1>8, <1>9, <1>10, <1>11, <1>12, <1>13,
     <1>14, <1>15, <1>16, <1>17, <1>18, <1>19, <1>20, <1>21, <1>22, <1>23, <1>24, <1>25,
     <1>26, <1>27, <1>28, <1>29, <1>30, <1>31, <1>32, <1>33, <1>34
     DEF Next, Step, Coroutine, Peer, vars

(* Without a shutdown, a request that was begun is answered or its failure *)
(* reaches the hard error handler before the connection is gone.           *)
THEOREM NothingDropped == Spec => []AnsweredOrReported
<1> DEFINE Inv == IInv /\ FinalInv /\ WriteInv /\ ReportInv /\ NothingAfterTheLast
<1>1. Init => Inv
  BY InitIInv DEF Init, NothingAfterTheLast, FinalInv, WriteInv, Owed, Writes, AllClear,
     EarlierClear, ReportInv, Settled
<1>2. Inv /\ [Next]_vars => Inv'
  BY StepIInv, StepFinal, FinalStepSuffices, StepReport, ReportStepSuffices
<1>3. Inv => AnsweredOrReported
  BY DEF ReportInv, Accounted, Settled, AnsweredNow, AnsweredOrReported, IInv, TypeConnection,
     PlainConnection
<1> QED
  BY <1>1, <1>2, <1>3, PTL DEF Spec

=============================================================================
