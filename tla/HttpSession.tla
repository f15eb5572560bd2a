----------------------------- MODULE HttpSession -----------------------------
(***************************************************************************)
(* One HTTP connection of boost.taar: the coroutine                        *)
(* basic_http::operator() with the handler wrapper made by install_handler,*)
(* run_interceptors, read_body, the four writers and the close sequence.   *)
(*                                                                         *)
(* The coroutine runs on the strand of its connection, so everything       *)
(* between two suspension points is atomic towards timers and towards the  *)
(* cancellation emitted by a shutdown.  `pc' is either a suspension point  *)
(* (one of Suspended), where `op' says how the awaited operation stands,   *)
(* or the name of a piece of straight-line code that runs next; shutdown,  *)
(* timers and the peer can only act at suspension points.                  *)
(*                                                                         *)
(* Asio's rule for co_await is part of the model: while cancellation is    *)
(* recorded and the coroutine is not shielded, starting any further wait   *)
(* throws operation_aborted instead (CoAwait, TryAwait).                   *)
(***************************************************************************)
EXTENDS Naturals, Sequences

CONSTANTS
  Routes,        (* kinds of route a request may match, a subset of RouteKinds *)
  Interceptors,  (* whether the session has interceptors: a subset of BOOLEAN  *)
  MaxRequests,   (* bound: requests the peer sends on this connection          *)
  MaxPieces,     (* bound: reads it takes to receive one request body          *)
  MaxEmits       (* bound: emissions of the cancellation pool                  *)

RouteKinds == {"plain",   \* typed response, body buffered by the session
               "opaque",  \* message_generator response, body buffered
               "stream",  \* chunked_response or async_generator, body buffered
               "upload",  \* streaming_request: the handler reads the body
               "opaqueupload",  \* the same, with a message_generator response
               "raw",     \* raw handler: takes the stream over
               "none"}    \* no route matches: 404 or 405

ASSUME SessionAssumption ==
  /\ Routes \subseteq RouteKinds /\ Routes # {}
  /\ Interceptors \subseteq BOOLEAN
  /\ MaxRequests \in Nat \ {0}
  /\ MaxPieces \in Nat
  /\ MaxEmits \in Nat

VARIABLES
  interceptors,         \* TRUE if the session has any
  pc, op, expired,      \* where the coroutine is, its pending operation, its read_deadline
  cancelled, shielded,  \* the coroutine's cancellation state
  req, shutting,        \* the current request; the local shutting_down
  answer,               \* who writes the current answer, and whether it keeps the connection
  failed, midstream,    \* the exception caught; TRUE if it is the generator's, mid-stream
  sock, buffered, peerGone, reqno, emits,
  wire, hard            \* responses written so far; failure given to the hard error handler

moving == <<pc, op, expired, cancelled, shielded, req, shutting, answer, failed,
            midstream, sock, buffered, peerGone, reqno, emits, wire, hard>>
vars == <<interceptors, moving>>

Reads     == {"idle", "header", "body", "uread"}
Deadlined == {"header", "body", "uread"}
Writes    == {"wheader", "wchunk", "wlast", "write"}
Produces  == {"produce", "next"}
UserCode  == {"intercept", "handler", "upload", "soft", "raw"}
Suspended == Reads \cup Writes \cup Produces \cup UserCode \cup {"linger"}
Straight  == {"loop", "dispatch", "start", "unwind", "closing", "done"}

Failures == {"request",    \* maps to 400 or 413
             "timeout",    \* beast::error::timeout
             "user",       \* a user exception, maps to 500
             "transport",  \* a transport error, maps to 500
             "aborted",    \* operation_aborted, maps to 500
             "protocol"}   \* the request could not be parsed, or is too large

Sites == {"intercept", "upload", "opaque", "buffered", "notfound", "408", "protocol"}

(* A request header as the router and the body reader see it.  `body' is   *)
(* the number of reads still needed to consume the body, `large' a declared*)
(* Content-Length above the body limit.                                    *)
Request == [route: RouteKinds, ka: BOOLEAN, body: 0 .. MaxPieces, large: BOOLEAN]
NoRequest == [route |-> "none", ka |-> TRUE, body |-> 0, large |-> FALSE]

-----------------------------------------------------------------------------
(* Control.  Every use sets pc, op, expired and hard.                      *)

Go(p)    == pc' = p /\ op' = "none" /\ expired' = FALSE /\ UNCHANGED hard
Await(p) == pc' = p /\ op' = "pending" /\ expired' = FALSE /\ UNCHANGED hard

(* An exception that leaves the loop: the hard error handler sees it.      *)
Raise(f) == pc' = "closing" /\ op' = "none" /\ expired' = FALSE /\ hard' = f

(* co_await outside and inside the handler wrapper's try block.            *)
Throws == cancelled /\ ~shielded
CoAwait(p) == IF Throws THEN Raise("aborted") ELSE Await(p)
TryAwait(p) ==
  IF Throws THEN Go("unwind") /\ failed' = "aborted"
            ELSE Await(p) /\ UNCHANGED failed

Return(keep) == IF keep THEN Go("loop") ELSE Go("closing")

(* How the awaited read ended, with the read_deadline taken into account.  *)
ReadResult == IF op # "ok" /\ expired THEN "timeout" ELSE op

(* Bytes of the next request that came along with the end of this one.     *)
Overread(body) ==
  buffered' \in (IF body = 0 /\ reqno < MaxRequests THEN BOOLEAN ELSE {FALSE})

Shield == shielded' = TRUE /\ UNCHANGED cancelled
ObserveShutdown == cancelled' = FALSE /\ shielded' = FALSE

(* Start writing a whole response: `close' is what it announces, `keep'    *)
(* what the caller does with the connection afterwards.                    *)
StartResponse(site, close, keep, shut) ==
  /\ answer' = [site |-> site, keep |-> keep]
  /\ wire' = Append(wire, [req |-> reqno, close |-> close, shut |-> shut, whole |-> FALSE])

Answer(site, close, keep, shut) ==
  /\ CoAwait("write")
  /\ IF Throws THEN UNCHANGED <<answer, wire>> ELSE StartResponse(site, close, keep, shut)

ProtocolError(site) == Answer(site, TRUE, FALSE, FALSE)

MarkWhole ==
  LET last == Len(wire)
  IN  wire' = [wire EXCEPT ![last] = [wire[last] EXCEPT !.whole = TRUE]]

-----------------------------------------------------------------------------
Init ==
  /\ interceptors \in Interceptors
  /\ pc = "loop" /\ op = "none" /\ expired = FALSE
  /\ cancelled = FALSE /\ shielded = FALSE
  /\ req = NoRequest /\ shutting = FALSE
  /\ answer = [site |-> "notfound", keep |-> TRUE]
  /\ failed = "user" /\ midstream = FALSE
  /\ sock = "open" /\ buffered = FALSE /\ peerGone = FALSE
  /\ reqno = 0 /\ emits = 0
  /\ wire = <<>> /\ hard = "none"

-----------------------------------------------------------------------------
(* The keep-alive loop.                                                    *)

(* Shutdown was requested, or a write that hit the send timeout closed the *)
(* socket.                                                                 *)
LoopEnds == cancelled \/ sock # "open"

(* The first byte of a request is there: read its header.                  *)
BeginRequest ==
  /\ CoAwait("header")
  /\ reqno' = IF Throws THEN reqno ELSE reqno + 1

LoopTop ==
  /\ pc = "loop"
  /\ \/ /\ LoopEnds
        /\ Go("closing")
        /\ UNCHANGED <<buffered, reqno>>
     \/ /\ ~LoopEnds /\ ~buffered
        /\ CoAwait("idle")
        /\ UNCHANGED <<buffered, reqno>>
     \/ /\ ~LoopEnds /\ buffered
        /\ BeginRequest
        /\ buffered' = FALSE
  /\ UNCHANGED <<cancelled, shielded, req, shutting, answer, failed, midstream,
                 sock, peerGone, emits, wire>>

ResumeIdle ==
  /\ pc = "idle" /\ op # "pending"
  /\ \/ /\ op = "ok"
        /\ BeginRequest
     \/ /\ op \in {"timeout", "eof", "aborted"} \/ (op = "error" /\ sock # "open")
        /\ Go("closing")
        /\ UNCHANGED reqno
     \/ /\ op = "error" /\ sock = "open"
        /\ Raise("transport")
        /\ UNCHANGED reqno
  /\ UNCHANGED <<cancelled, shielded, req, shutting, answer, failed, midstream,
                 sock, buffered, peerGone, emits, wire>>

(* A complete header starts a request; interceptors run first, shielded.   *)
HeaderParsed ==
  /\ ReadResult = "ok"
  /\ \E r \in {q \in Request : q.route \in Routes /\ (q.large => q.body > 0)} :
       req' = r /\ Overread(r.body)
  /\ shutting' = FALSE /\ midstream' = FALSE
  /\ IF interceptors
     THEN CoAwait("intercept") /\ (IF Throws THEN UNCHANGED <<cancelled, shielded>> ELSE Shield)
     ELSE Go("dispatch") /\ UNCHANGED <<cancelled, shielded>>
  /\ UNCHANGED <<answer, wire>>

HeaderFailed ==
  /\ \/ ReadResult = "timeout" /\ ProtocolError("408")
     \/ ReadResult = "bad"     /\ ProtocolError("protocol")
     \/ ReadResult = "aborted" /\ Go("closing") /\ UNCHANGED <<answer, wire>>
     \/ ReadResult = "error"   /\ Raise("transport") /\ UNCHANGED <<answer, wire>>
  /\ UNCHANGED <<req, buffered, shutting, midstream, cancelled, shielded>>

ResumeHeader ==
  /\ pc = "header" /\ op # "pending"
  /\ HeaderParsed \/ HeaderFailed
  /\ UNCHANGED <<failed, sock, peerGone, reqno, emits>>

-----------------------------------------------------------------------------
(* run_interceptors, from the end of the last interceptor on.              *)

ResumeIntercept ==
  /\ pc = "intercept" /\ op # "pending"
  /\ shutting' = cancelled
  /\ ObserveShutdown
  /\ \/ /\ op = "proceed"
        /\ Go("dispatch")
        /\ req' = [req EXCEPT !.ka = req.ka /\ ~cancelled]
        /\ UNCHANGED <<failed, answer, wire>>
     \/ /\ op = "reject"
        /\ req' = [req EXCEPT !.ka = req.ka /\ req.body = 0]
        /\ \E allows \in BOOLEAN :
             LET ka == req'.ka /\ allows /\ ~cancelled
             IN  Await("write") /\ StartResponse("intercept", ~ka, ka, cancelled)
        /\ UNCHANGED failed
     \/ /\ op = "throw"
        /\ req' = [req EXCEPT !.ka = req.ka /\ req.body = 0]
        /\ Await("soft")
        /\ failed' \in {"request", "user"}
        /\ answer' = [site |-> "intercept", keep |-> ~cancelled /\ req.body = 0]
        /\ UNCHANGED wire
  /\ UNCHANGED <<midstream, sock, buffered, peerGone, reqno, emits>>

-----------------------------------------------------------------------------
(* Routing, and reading the body the session buffers.                      *)

(* The handler takes a streaming_request and reads the body itself.        *)
ReadsItsBody == req.route \in {"upload", "opaqueupload"}

(* The answer given when no route matches.                                 *)
AnswerNotFound == Answer("notfound", ~req.ka, req.ka, FALSE)

Dispatch ==
  /\ pc = "dispatch"
  /\ shutting' = FALSE
  /\ \/ /\ Throws
        /\ Raise("aborted")
        /\ UNCHANGED <<answer, wire, shielded, sock>>
     \/ /\ ~Throws /\ req.route = "raw"
        /\ Await("raw")
        /\ sock' = "taken"
        /\ UNCHANGED <<answer, wire, shielded>>
     \/ /\ ~Throws /\ ReadsItsBody
        /\ Await("upload")
        /\ shielded' = TRUE
        /\ UNCHANGED <<answer, wire, sock>>
     \/ /\ ~Throws /\ req.route # "raw" /\ ~ReadsItsBody
        /\ CASE req.large -> ProtocolError("protocol")
             [] ~req.large /\ req.body > 0 -> Await("body") /\ UNCHANGED <<answer, wire>>
             [] req.body = 0 /\ req.route = "none" -> AnswerNotFound
             [] OTHER -> Go("start") /\ UNCHANGED <<answer, wire>>
        /\ UNCHANGED <<shielded, sock>>
  /\ UNCHANGED <<cancelled, req, failed, midstream, buffered, peerGone, reqno, emits>>

(* read_body: another read while the body is not complete.                 *)
BodyIncomplete == req.body > 1

ResumeBody ==
  /\ pc = "body" /\ op # "pending"
  /\ \/ /\ ReadResult = "ok"
        /\ req' = [req EXCEPT !.body = @ - 1]
        /\ Overread(req.body - 1)
        /\ IF BodyIncomplete
           THEN CoAwait("body") /\ UNCHANGED <<answer, wire>>
           ELSE IF req.route = "none" THEN AnswerNotFound
                                      ELSE Go("start") /\ UNCHANGED <<answer, wire>>
     \/ /\ \/ ReadResult = "timeout" /\ ProtocolError("408")
           \/ ReadResult = "bad"     /\ ProtocolError("protocol")
           \/ ReadResult = "aborted" /\ Raise("aborted") /\ UNCHANGED <<answer, wire>>
           \/ ReadResult = "error"   /\ Raise("transport") /\ UNCHANGED <<answer, wire>>
        /\ UNCHANGED <<req, buffered>>
  /\ UNCHANGED <<cancelled, shielded, shutting, failed, midstream, sock, peerGone,
                 reqno, emits>>

(* Defect: all handlers are shielded.                                      *)
DefectShieldsAll == TRUE

(* The handler wrapper with the body in hand: a plain handler is shielded, *)
(* a streaming one stays cancellable.                                      *)
ShieldsHandler == req.route # "stream"

Start ==
  /\ pc = "start"
  /\ TryAwait(IF req.route = "stream" THEN "produce" ELSE "handler")
  /\ shielded' = (~Throws /\ ShieldsHandler)
  /\ UNCHANGED <<cancelled, req, shutting, answer, midstream, sock, buffered, peerGone,
                 reqno, emits, wire>>

-----------------------------------------------------------------------------
(* Plain handlers.                                                         *)

(* Defect: the connection is kept because the request allows it, whatever  *)
(* the answer announced.                                                   *)
DefectFollowRequest(site, allows) ==
  StartResponse(site, ~(req.ka /\ allows /\ ~cancelled), req.ka /\ ~cancelled, cancelled)

(* finish_response aligns a typed response; a message_generator is opaque  *)
(* and goes out announcing what its handler put into it.                   *)
FinishResponse(site, allows) ==
  LET aligned == req.ka /\ allows /\ ~cancelled
      says    == IF req.route = "opaque" THEN allows ELSE aligned
  IN  StartResponse(site, ~says, says /\ ~cancelled, cancelled)

Thrown == IF op = "aborted" THEN {"aborted"} ELSE {"request", "user"}

ResumeHandler ==
  /\ pc = "handler" /\ op # "pending"
  /\ \/ /\ op = "return"
        /\ ObserveShutdown
        /\ shutting' = cancelled
        /\ Await("write")
        /\ \E allows \in BOOLEAN : FinishResponse("buffered", allows)
        /\ UNCHANGED failed
     \/ /\ op \in {"throw", "aborted"}
        /\ Go("unwind")
        /\ failed' \in Thrown
        /\ UNCHANGED <<cancelled, shielded, shutting, answer, wire>>
  /\ UNCHANGED <<req, midstream, sock, buffered, peerGone, reqno, emits>>

(* Defect: any abort is taken for the shutdown.                            *)
DefectEndedByShutdown == failed = "aborted"

(* After the catch block of the handler wrapper: shutdown is observed, an  *)
(* abort it caused ends the connection, a failure after the header of a    *)
(* stream is escalated, any other goes to the soft error handler.          *)
EndedByShutdown == (cancelled \/ shutting) /\ failed = "aborted"

Unwind ==
  /\ pc = "unwind"
  /\ shutting' = (cancelled \/ shutting)
  /\ ObserveShutdown
  /\ IF EndedByShutdown THEN Go("closing") /\ UNCHANGED answer
     ELSE IF midstream THEN Raise(failed) /\ UNCHANGED answer
     ELSE Await("soft") /\ answer' = [site |-> "buffered", keep |-> ~shutting']
  /\ UNCHANGED <<req, failed, midstream, sock, buffered, peerGone, reqno, emits, wire>>

(* Defect: a body left unread does not count.                              *)
DefectUploadKeepAlive(allows) == req.ka /\ allows /\ ~cancelled

(* Whether a typed answer of a handler that reads its body keeps the       *)
(* connection: a body left unread closes it.                               *)
UploadKeepAlive(allows) == req.ka /\ req.body = 0 /\ allows /\ ~cancelled

(* finish_response aligns a typed answer with that; on a message_generator *)
(* it does nothing, so that one keeps the connection as its handler said,  *)
(* the body read or not.                                                   *)
AnswerUpload(allows) ==
  IF req.route = "upload"
  THEN StartResponse("upload", ~UploadKeepAlive(allows), UploadKeepAlive(allows), cancelled)
  ELSE StartResponse("opaque", ~allows, allows /\ ~cancelled, cancelled)

(* The loop reads on from whatever is in the buffer, so what came of a body*)
(* nobody read is there for the next header.                               *)
Leftover ==
  buffered' \in (IF answer'.keep /\ req.body > 0 /\ reqno < MaxRequests
                THEN BOOLEAN ELSE {buffered})

ResumeUpload ==
  /\ pc = "upload" /\ op # "pending"
  /\ \/ /\ op = "read"
        /\ Await("uread")
        /\ UNCHANGED <<cancelled, shielded, shutting, req, answer, failed, wire, buffered>>
     \/ /\ op = "return"
        /\ ObserveShutdown
        /\ shutting' = cancelled
        /\ Await("write")
        /\ \E allows \in BOOLEAN : AnswerUpload(allows)
        /\ Leftover
        /\ UNCHANGED <<req, failed>>
     \/ /\ op \in {"throw", "aborted", "ioerror"}
        /\ ObserveShutdown
        /\ shutting' = cancelled
        /\ failed' \in (IF op = "ioerror" THEN {failed} ELSE Thrown)
        /\ req' = [req EXCEPT !.ka = req.ka /\ req.body = 0]
        /\ Await("soft")
        /\ answer' = [site |-> "upload", keep |-> ~cancelled /\ req.body = 0]
        /\ UNCHANGED <<wire, buffered>>
  /\ UNCHANGED <<midstream, sock, peerGone, reqno, emits>>

(* body_reader::read_some: its failures are thrown into the handler, which *)
(* is taken to let them escape.                                            *)
ResumeUploadRead ==
  /\ pc = "uread" /\ op # "pending"
  /\ pc' = "upload" /\ expired' = FALSE
  /\ IF ReadResult = "ok"
     THEN /\ op' = "pending"
          /\ req' = [req EXCEPT !.body = @ - 1]
          /\ Overread(req.body - 1)
          /\ UNCHANGED failed
     ELSE /\ op' = "ioerror"
          /\ failed' = (IF ReadResult = "timeout" THEN "timeout" ELSE "transport")
          /\ UNCHANGED <<req, buffered>>
  /\ UNCHANGED <<cancelled, shielded, shutting, answer, midstream, sock, peerGone, reqno,
                 emits, wire, hard>>

-----------------------------------------------------------------------------
(* write_chunked_response.                                                 *)

(* The first value comes before the header, so that a failure can still be *)
(* answered by the soft error handler.                                     *)
ResumeProduce ==
  /\ pc = "produce" /\ op # "pending"
  /\ \/ /\ op \in {"value", "end"}
        /\ TryAwait("wheader")
        /\ IF Throws THEN UNCHANGED <<answer, wire>>
                     ELSE StartResponse("buffered", ~req.ka, req.ka, shutting)
        /\ midstream' = FALSE
     \/ /\ op \in {"throw", "aborted"}
        /\ Go("unwind")
        /\ failed' \in Thrown
        /\ UNCHANGED <<answer, wire, midstream>>
  /\ UNCHANGED <<cancelled, shielded, req, shutting, sock, buffered, peerGone, reqno, emits>>

(* A HEAD request is answered by the header alone; a generator that ended  *)
(* without a value goes straight to the last chunk.                        *)
ResumeStreamHeader ==
  /\ pc = "wheader" /\ op # "pending"
  /\ \/ /\ op = "ok"
        /\ \/ TryAwait("wchunk") /\ UNCHANGED wire
           \/ TryAwait("wlast") /\ UNCHANGED wire
           \/ Return(answer.keep) /\ MarkWhole /\ UNCHANGED failed
     \/ /\ op # "ok"
        /\ Go("closing")
        /\ UNCHANGED <<failed, wire>>
  /\ UNCHANGED <<cancelled, shielded, req, shutting, answer, midstream, sock, buffered,
                 peerGone, reqno, emits>>

ResumeChunk ==
  /\ pc = "wchunk" /\ op # "pending"
  /\ IF op = "ok" THEN TryAwait("next") ELSE Go("closing") /\ UNCHANGED failed
  /\ UNCHANGED <<cancelled, shielded, req, shutting, answer, midstream, sock, buffered,
                 peerGone, reqno, emits, wire>>

(* Defect: the generator's failure is taken for the handler's.             *)
DefectKeepStreamError == midstream' = FALSE

(* A failure after the first chunk is kept apart: it has no answer.        *)
KeepStreamError == midstream' = TRUE

ResumeNext ==
  /\ pc = "next" /\ op # "pending"
  /\ \/ op = "value" /\ TryAwait("wchunk") /\ UNCHANGED midstream
     \/ op = "end" /\ TryAwait("wlast") /\ UNCHANGED midstream
     \/ /\ op \in {"throw", "aborted"}
        /\ Go("unwind")
        /\ failed' \in Thrown
        /\ KeepStreamError
  /\ UNCHANGED <<cancelled, shielded, req, shutting, answer, sock, buffered, peerGone,
                 reqno, emits, wire>>

(* The last chunk is best effort: its error is ignored.                    *)
ResumeLastChunk ==
  /\ pc = "wlast" /\ op # "pending"
  /\ Return(answer.keep)
  /\ IF op = "ok" THEN MarkWhole ELSE UNCHANGED wire
  /\ UNCHANGED <<cancelled, shielded, req, shutting, answer, failed, midstream, sock,
                 buffered, peerGone, reqno, emits>>

-----------------------------------------------------------------------------
(* Soft errors and whole responses.                                        *)

(* Failures http_status_for maps to 500; the default handler escalates them.*)
Escalates(f) == f \in {"user", "transport", "aborted"}

(* The handler's answer too may be a message_generator, which says what its*)
(* handler put into it.                                                    *)
ResumeSoft ==
  /\ pc = "soft" /\ op # "pending"
  /\ \/ /\ op = "answer"
        /\ \E allows, opaque \in BOOLEAN :
             LET ka == (req.ka \/ opaque) /\ allows
             IN  Answer(answer.site, ~ka, ka /\ answer.keep, shutting)
     \/ /\ op = "escalate"
        /\ Raise(failed)
        /\ UNCHANGED <<answer, wire>>
     \/ /\ op = "aborted"
        /\ Raise("aborted")
        /\ UNCHANGED <<answer, wire>>
  /\ UNCHANGED <<cancelled, shielded, req, shutting, failed, midstream, sock, buffered,
                 peerGone, reqno, emits>>

(* Write errors are ignored (they surface on the next read) except for the *)
(* 404/405 answer, which reports them.                                     *)
ResumeWrite ==
  /\ pc = "write" /\ op # "pending"
  /\ IF op = "ok" THEN MarkWhole ELSE UNCHANGED wire
  /\ CASE answer.site = "408" -> Go("closing")
       [] answer.site = "protocol" -> Raise("protocol")
       [] answer.site = "notfound" /\ op = "error" -> Raise("transport")
       [] answer.site = "notfound" /\ op = "aborted" -> Raise("aborted")
       [] answer.site = "notfound" /\ op = "timeout" -> Go("closing")
       [] OTHER -> Return(answer.keep)
  /\ UNCHANGED <<cancelled, shielded, req, shutting, answer, failed, midstream, sock,
                 buffered, peerGone, reqno, emits>>

-----------------------------------------------------------------------------
(* The end of the connection.                                              *)

ResumeRaw ==
  /\ pc = "raw" /\ op # "pending"
  /\ CASE op = "return"  -> Go("closing")
       [] op = "throw"   -> Raise("user")
       [] op = "aborted" -> Raise("aborted")
  /\ UNCHANGED <<cancelled, shielded, req, shutting, answer, failed, midstream, sock,
                 buffered, peerGone, reqno, emits, wire>>

(* Half-close, then read and discard briefly; nothing to do for a socket   *)
(* that is closed or was handed to a raw handler.                          *)
Closing ==
  /\ pc = "closing"
  /\ IF sock # "open"
     THEN Go("done") /\ UNCHANGED <<cancelled, shielded>>
     ELSE Await("linger") /\ cancelled' = FALSE /\ shielded' = FALSE
  /\ UNCHANGED <<req, shutting, answer, failed, midstream, sock, buffered, peerGone, reqno,
                 emits, wire>>

ResumeLinger ==
  /\ pc = "linger" /\ op # "pending"
  /\ Go("done")
  /\ sock' = "closed"
  /\ UNCHANGED <<cancelled, shielded, req, shutting, answer, failed, midstream, buffered,
                 peerGone, reqno, emits, wire>>

-----------------------------------------------------------------------------
(* What happens to the pending operation: the peer, the timers, user code. *)

Complete(r) ==
  /\ op = "pending"
  /\ op' = r
  /\ UNCHANGED <<pc, expired, cancelled, shielded, req, shutting, answer, failed, midstream,
                 buffered, reqno, emits, wire, hard>>

PeerSends ==
  /\ pc \in Reads /\ ~peerGone
  /\ pc = "idle" => reqno < MaxRequests
  /\ Complete("ok")
  /\ UNCHANGED <<sock, peerGone>>

(* Malformed or oversized bytes, or an end of stream inside a request.     *)
PeerSendsBad ==
  /\ pc \in Deadlined /\ ~peerGone
  /\ Complete("bad")
  /\ UNCHANGED <<sock, peerGone>>

PeerCloses ==
  /\ pc \in {"idle", "linger"}
  /\ Complete("eof")
  /\ UNCHANGED <<sock, peerGone>>

(* The peer resets the connection: this and every later operation fails.   *)
PeerResets ==
  /\ pc \in Reads \cup Writes
  /\ Complete("error")
  /\ peerGone' = TRUE
  /\ UNCHANGED sock

PeerReads ==
  /\ pc \in Writes /\ ~peerGone
  /\ Complete("ok")
  /\ UNCHANGED <<sock, peerGone>>

(* Defect: the idle wait is not given an expiry.                           *)
DefectExpiring == {"linger"} \cup Writes

(* The operations bounded by the stream's own expiry.                      *)
Expiring == {"idle", "linger"} \cup Writes

(* The stream's own expiry (idle, send, linger): the socket is closed.     *)
ExpiryFires ==
  /\ pc \in Expiring
  /\ Complete("timeout")
  /\ sock' = "closed"
  /\ UNCHANGED peerGone

(* read_deadline (header, body): the read is cancelled, the socket stays   *)
(* open; it may also fire after the read completed.                        *)
DeadlineFires ==
  /\ pc \in Deadlined /\ ~expired
  /\ expired' = TRUE
  /\ op' = (IF op = "pending" THEN "aborted" ELSE op)
  /\ UNCHANGED <<pc, cancelled, shielded, req, shutting, answer, failed, midstream, sock,
                 buffered, peerGone, reqno, emits, wire, hard>>

(* Interceptors, plain handlers and the soft error handler finish.  A      *)
(* handler may itself let an operation_aborted of its own waits escape.    *)
UserCodeCompletes ==
  /\ \/ pc = "intercept" /\ \E r \in {"proceed", "reject", "throw"} : Complete(r)
     \/ pc \in {"handler", "upload"} /\ \E r \in {"return", "throw", "aborted"} : Complete(r)
     \/ pc = "upload" /\ req.body > 0 /\ Complete("read")
     \/ pc = "soft" /\ \/ Complete("answer")
                       \/ Escalates(failed) /\ Complete("escalate")
  /\ UNCHANGED <<sock, peerGone>>

(* A raw handler may run for as long as it likes.                          *)
RawCompletes ==
  /\ pc = "raw"
  /\ \E r \in {"return", "throw"} : Complete(r)
  /\ UNCHANGED <<sock, peerGone>>

(* The generator yields, ends or throws; it may also stay suspended.       *)
GeneratorCompletes ==
  /\ pc \in Produces
  /\ \E r \in {"value", "end", "throw"} : Complete(r)
  /\ UNCHANGED <<sock, peerGone>>

(* The coroutine is spawned but has not run yet.                           *)
NotStarted == pc = "loop" /\ reqno = 0

(* A shutdown: the emission runs on the connection's strand.  It is always *)
(* recorded; a shielded coroutine does not pass it on to its operation.    *)
Emit ==
  /\ pc \in Suspended \/ NotStarted
  /\ emits < MaxEmits
  /\ emits' = emits + 1
  /\ cancelled' = TRUE
  /\ op' = (IF op = "pending" /\ ~shielded THEN "aborted" ELSE op)
  /\ UNCHANGED <<pc, expired, shielded, req, shutting, answer, failed, midstream, sock,
                 buffered, peerGone, reqno, wire, hard>>

-----------------------------------------------------------------------------
Terminated == pc = "done" /\ UNCHANGED moving

Coroutine ==
  \/ LoopTop \/ ResumeIdle \/ ResumeHeader \/ ResumeIntercept \/ Dispatch \/ ResumeBody
  \/ Start \/ ResumeHandler \/ Unwind \/ ResumeUpload \/ ResumeUploadRead
  \/ ResumeProduce \/ ResumeStreamHeader \/ ResumeChunk \/ ResumeNext \/ ResumeLastChunk
  \/ ResumeSoft \/ ResumeWrite \/ ResumeRaw \/ Closing \/ ResumeLinger

Peer == PeerSends \/ PeerSendsBad \/ PeerCloses \/ PeerResets \/ PeerReads

Step ==
  \/ Coroutine \/ Peer \/ ExpiryFires \/ DeadlineFires
  \/ UserCodeCompletes \/ RawCompletes \/ GeneratorCompletes \/ Emit
  \/ Terminated

Next == Step /\ UNCHANGED interceptors

Spec == Init /\ [][Next]_vars

(* The strand runs what is ready, armed timers fire, and interceptors,     *)
(* plain handlers and soft error handlers finish.  Nothing is assumed of   *)
(* the peer, of generators or of raw handlers.                             *)
Fairness ==
  /\ WF_moving(Coroutine)
  /\ WF_moving(ExpiryFires)
  /\ WF_moving(DeadlineFires)
  /\ WF_moving(UserCodeCompletes)

FairSpec == Spec /\ Fairness

-----------------------------------------------------------------------------
(* Correctness.                                                            *)

OpResults == {"none", "pending", "ok", "eof", "bad", "error", "timeout", "aborted",
              "proceed", "reject", "throw", "return", "read", "ioerror", "answer",
              "escalate", "value", "end"}

(* Every variable stays within its domain; in particular no read is made   *)
(* past the end of a body.                                                 *)
TypeOK ==
  /\ pc \in Suspended \cup Straight /\ op \in OpResults /\ expired \in BOOLEAN
  /\ cancelled \in BOOLEAN /\ shielded \in BOOLEAN
  /\ req \in Request /\ shutting \in BOOLEAN
  /\ answer \in [site: Sites, keep: BOOLEAN]
  /\ failed \in Failures /\ midstream \in BOOLEAN
  /\ sock \in {"open", "closed", "taken"} /\ buffered \in BOOLEAN /\ peerGone \in BOOLEAN
  /\ reqno \in Nat /\ emits \in 0 .. MaxEmits
  /\ wire \in Seq([req: Nat, close: BOOLEAN, shut: BOOLEAN, whole: BOOLEAN])
  /\ hard \in Failures \cup {"none"}

(* The bytes of one request's body are never taken for the next request:   *)
(* whichever path answered (handler, upload, rejection, soft error, 404),  *)
(* the loop reads on only when the body has been consumed.  One path is    *)
(* excepted, on which the code does not do this: the message_generator of a*)
(* handler that reads its body (UnreadBodyCloses below).                   *)
BodyConsumed == pc \in {"idle", "header"} => req.body = 0 \/ answer.site = "opaque"

(* A request gets at most one answer and answers go out in request order,  *)
(* whatever fails and wherever: no error answer follows a stream's header. *)
OneAnswerEach ==
  /\ \A i \in 1 .. Len(wire) : wire[i].req <= reqno
  /\ \A i, j \in 1 .. Len(wire) : i < j => wire[i].req < wire[j].req

(* Nothing follows an answer that announced Connection: close, and nothing *)
(* complete follows one that was cut short: the peer never sees bytes it   *)
(* would attribute to the wrong answer.                                    *)
NothingAfterTheLast ==
  \A i, j \in 1 .. Len(wire) :
    i < j => ~wire[i].close /\ (wire[j].whole => wire[i].whole)

(* Without a shutdown, a request that was begun is answered or its failure *)
(* reaches the hard error handler before the connection is gone; it is     *)
(* never dropped in silence.                                               *)
AnsweredOrReported ==
  (pc = "done" /\ emits = 0 /\ reqno > 0 /\ req.route # "raw") =>
    hard # "none" \/ \E i \in 1 .. Len(wire) : wire[i].req = reqno

(* A shutdown never interrupts an interceptor, a plain handler, or a       *)
(* handler reading its body: what they wait for is left alone.             *)
PlainHandlersSpared ==
  [][emits' > emits /\ pc \in {"intercept", "handler", "upload", "uread"} => op' = op]_vars

(* No answer is started on a socket that a timeout closed or that a raw    *)
(* handler took over.                                                      *)
NoAnswerAfterClose == [][Len(wire') > Len(wire) => sock = "open"]_vars

(* A connection without interceptors that a shutdown reached ends, also    *)
(* when a stream or a raw handler would run forever and the client has gone*)
(* silent, although the coroutine consumes and resets its cancellation     *)
(* state several times on the way.                                         *)
ShutdownEnds == (emits > 0 /\ ~interceptors) ~> pc = "done"

(* The timeouts alone bound a connection: unless a generator or a raw      *)
(* handler keeps it, a client that falls silent anywhere (before, inside or*)
(* after a request or an answer) is dropped.                               *)
SilentClientDropped ==
  <>[](pc \notin Produces \cup {"wchunk", "raw"}) => <>(pc = "done")

-----------------------------------------------------------------------------
(* What documentation and comments say, where the code disagrees.          *)

(* "A body left unread closes the connection after the response": no read  *)
(* of a further request while some of the body is left.                    *)
UnreadBodyCloses == pc \in {"idle", "header"} => req.body = 0

(* The graceful shutdown's statement, with interceptors too: a connection  *)
(* that a shutdown reached ends.                                           *)
ShutdownCloses == emits > 0 ~> pc = "done"

(* "Keep-alive only if [...] the server is not shutting down": an answer   *)
(* prepared after the shutdown was observed announces the close.           *)
ShutdownAnswerAnnouncesClose == \A i \in 1 .. Len(wire) : wire[i].shut => wire[i].close

(* "Body reads are shielded from shutdown": an emission does not interrupt *)
(* the read of a body the session buffers.                                 *)
BodyReadsSpared == [][emits' > emits /\ pc = "body" => op' = op]_vars
=============================================================================
