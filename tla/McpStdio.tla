------------------------------- MODULE McpStdio -------------------------------
(***************************************************************************)
(* mcp/endpoint.hpp, the stdio transport of a stateful endpoint:           *)
(* serve_stdio() reads one message per line and answers on the output, the *)
(* calls it spawns run concurrently with the reading, one at a time under  *)
(* their session's lock, can be cancelled by a later line, and must have   *)
(* answered before the input's end lets serve_stdio() return.  A second    *)
(* "initialize" replaces the session while calls of the first still run.   *)
(* What is answered to a message is McpDispatch's.                         *)
(***************************************************************************)
EXTENDS McpDispatch, FiniteSets

CONSTANTS
  Messages,     (* the messages a client may send: records as McpDispatch has them; a "notifications/cancelled" names a call by its member target *)
  MaxLines,     (* bound: lines read                                       *)
  MaxCalls,     (* bound: calls spawned                                    *)
  MaxSessions   (* bound: sessions initialised                             *)

ASSUME BoundsAssumption == MaxLines \in Nat /\ MaxCalls \in Nat /\ MaxSessions \in Nat
ASSUME MessagesAssumption == \A m \in Messages : WellFormed(m)

VARIABLES
  manyThreads,  \* whether several threads run the executor
  lines,        \* lines read so far
  reader,       \* serve_stdio itself: "reading", "eof" once the flag is set, "draining",
                \* "ending", "flushing", "returned"
  session,      \* the current session, 0 before the first "initialize"
  ended,        \* sessions that were ended
  calls,        \* the spawned coroutines, in the order of their lines
  holder,       \* per session, the call that holds its lock, 0 if none
  inFlight, eof, drained,     \* shared_state
  outbox, outClosed, writer,  \* the output's queue, and its single writer
  written,      \* history: the replies to calls the client was sent
  told          \* history: the calls the client asked to cancel

readVars == <<lines, session, ended>>
drainVars == <<inFlight, eof, drained>>
outVars == <<outbox, outClosed, writer, written>>
moving == <<readVars, reader, calls, holder, drainVars, outVars, told>>
vars == <<manyThreads, moving>>

Sessions == 1..MaxSessions

Init ==
  /\ manyThreads \in BOOLEAN
  /\ lines = 0 /\ reader = "reading" /\ session = 0 /\ ended = {}
  /\ calls = <<>> /\ holder = [s \in Sessions |-> 0]
  /\ inFlight = 0 /\ eof = FALSE /\ drained = FALSE
  /\ outbox = <<>> /\ outClosed = FALSE /\ writer = "on" /\ written = <<>>
  /\ told = {}

-----------------------------------------------------------------------------
(* send(): a push after the queue was closed is lost.  A reply carries the *)
(* number of the line it answers.                                          *)
Send(line, reply) ==
  outbox' = IF reply = "none" \/ outClosed THEN outbox
            ELSE Append(outbox, [line |-> line, reply |-> reply])

Running(c) == calls[c].st = "running"

(* From the lock's acquisition to the end of dispatch(): the call holds the*)
(* session's lock and, if it has a scope, is in the table of requests.     *)
InDispatch(c) == calls[c].st \in {"running", "decided"}

(* Defect: ids of different sessions collide.                              *)
DefectInFlight(s, id) ==
  {c \in DOMAIN calls : InDispatch(c) /\ HasScope(calls[c].msg) /\ calls[c].msg.id = id}

(* The requests whose scope is registered under this key and alive.        *)
InFlight(s, id) ==
  {c \in DOMAIN calls : /\ InDispatch(c) /\ HasScope(calls[c].msg)
                        /\ calls[c].session = s
                        /\ calls[c].msg.id = id}

(* cancel() copies the targets under the table's mutex and then marks them:*)
(* a mark that comes after its call left the table finds it decided, as it *)
(* would have before.                                                      *)
Cancel(targets) ==
  calls' = [c \in DOMAIN calls |-> IF c \in targets THEN [calls[c] EXCEPT !.cancelled = TRUE] ELSE calls[c]]

Named(s, id) == {c \in DOMAIN calls : calls[c].session = s /\ calls[c].msg.id = id}

-----------------------------------------------------------------------------
(* The reading loop.  One line is handled before the next is read; of the  *)
(* awaits in it, initialize()'s waits for the lock of a session nobody     *)
(* else knows yet.                                                         *)
ReadLine ==
  /\ reader = "reading" /\ lines < MaxLines
  /\ lines' = lines + 1
  /\ UNCHANGED <<reader, drained, eof, outClosed, writer, written>>

(* What is not an envelope, or cannot be served before "initialize".       *)
LineReply(m) ==
  IF m.shape # "envelope" THEN ShapeReply(m)
  ELSE IF IsNotification(m) THEN "none" ELSE InvalidRequest

AnswerLine(m) ==
  /\ m.shape # "envelope" \/ (m.method # "initialize" /\ session = 0)
  /\ ReadLine
  /\ Send(lines', LineReply(m))
  /\ UNCHANGED <<session, ended, calls, holder, inFlight, told>>

(* "initialize": the hook may fail, and then the new session is ended at   *)
(* once; else the session before it is.                                    *)
Initialize(m) ==
  /\ m.method = "initialize"
  /\ ReadLine
  /\ \/ /\ m.fails = "no" /\ session < MaxSessions
        /\ ended' = ended \cup ({session} \ {0})
        /\ session' = session + 1
        /\ Send(lines', UnlessNotification(m, "result"))
     \/ /\ m.fails # "no"
        /\ UNCHANGED <<ended, session>>
        /\ Send(lines', MapFailure(m.fails))
  /\ UNCHANGED <<calls, holder, inFlight, told>>

CancelFrom(m) ==
  /\ m.method = "notifications/cancelled" /\ session # 0
  /\ ReadLine
  /\ Cancel(InFlight(session, m.target))
  /\ told' = told \cup Named(session, m.target)
  /\ UNCHANGED <<session, ended, holder, inFlight, outbox>>

(* Everything else is spawned, with the session of this moment.            *)
Spawn(m) ==
  /\ m.shape = "envelope" /\ m.method \notin {"initialize", "notifications/cancelled"}
  /\ session # 0 /\ Len(calls) < MaxCalls
  /\ ReadLine
  /\ calls' = Append(calls, [msg |-> m, session |-> session, line |-> lines',
                             st |-> "waiting", cancelled |-> FALSE, reply |-> "none"])
  /\ inFlight' = inFlight + 1
  /\ UNCHANGED <<session, ended, holder, outbox, told>>

Read(m) == AnswerLine(m) \/ Initialize(m) \/ CancelFrom(m) \/ Spawn(m)

-----------------------------------------------------------------------------
(* The spawned coroutines.                                                 *)
To(c, st) == calls' = [calls EXCEPT ![c].st = st]

MayLock(c) == calls[c].st = "waiting" /\ holder[calls[c].session] = 0

(* run(): the session's lock; a session that was ended can still be        *)
(* locked.                                                                 *)
Lock(c) ==
  /\ MayLock(c)
  /\ To(c, "running")
  /\ holder' = [holder EXCEPT ![calls[c].session] = c]
  /\ UNCHANGED <<readVars, reader, drainVars, outVars, told>>

(* Defect: the reply of a call that was cancelled is sent.                 *)
DefectReplyOf(k) == Reply(k.msg, FALSE, Place(TRUE, k.session \notin ended))

ReplyOf(k) == Reply(k.msg, k.cancelled, Place(TRUE, k.session \notin ended))

(* Defect: the counter is read after it was counted down.                  *)
DefectIsLast == inFlight = 0

IsLast == inFlight = 1

(* dispatch() throws: the lock is released; of the call nobody hears, and  *)
(* it is not counted down.                                                 *)
Throw(c) ==
  /\ Running(c) /\ Throws(calls[c].msg)
  /\ To(c, "thrown")
  /\ holder' = [holder EXCEPT ![calls[c].session] = 0]
  /\ UNCHANGED <<readVars, reader, drainVars, outVars, told>>

(* dispatch() returns: on one thread nothing comes between its look at the *)
(* cancellation, the release of the lock, the sending of the reply and     *)
(* finished_one, which counts the call down and, of the last one, looks at *)
(* the flag.                                                               *)
Finish(c) ==
  /\ ~manyThreads /\ Running(c) /\ ~Throws(calls[c].msg)
  /\ holder' = [holder EXCEPT ![calls[c].session] = 0]
  /\ Send(calls[c].line, ReplyOf(calls[c]))
  /\ inFlight' = inFlight - 1
  /\ drained' = (drained \/ (IsLast /\ eof))
  /\ To(c, "done")
  /\ UNCHANGED <<readVars, reader, eof, outClosed, writer, written, told>>

(* Where several threads run the executor, the reader may go on after each *)
(* of them: the reply is decided while the call is still in the table of   *)
(* requests, which it leaves before the lock is released,                  *)
Decide(c) ==
  /\ manyThreads /\ Running(c) /\ ~Throws(calls[c].msg)
  /\ calls' = [calls EXCEPT ![c].st = "decided", ![c].reply = ReplyOf(calls[c])]
  /\ UNCHANGED <<readVars, reader, holder, drainVars, outVars, told>>

LeaveTable(c) ==
  /\ calls[c].st = "decided"
  /\ To(c, "left")
  /\ holder' = [holder EXCEPT ![calls[c].session] = 0]
  /\ UNCHANGED <<readVars, reader, drainVars, outVars, told>>

(* then it is sent and the call counted down,                              *)
Answer(c) ==
  /\ calls[c].st = "left"
  /\ Send(calls[c].line, calls[c].reply)
  /\ inFlight' = inFlight - 1
  /\ To(c, IF IsLast THEN "last" ELSE "done")
  /\ UNCHANGED <<readVars, reader, holder, eof, drained, outClosed, writer, written, told>>

(* and only then does the last one look at the flag.                       *)
TellDrained(c) ==
  /\ calls[c].st = "last"
  /\ drained' = (drained \/ eof)
  /\ To(c, "done")
  /\ UNCHANGED <<readVars, reader, holder, inFlight, eof, outVars, told>>

(* What the client hears of the calls; the rest of what is written, the    *)
(* session's notifications among them, concerns no property.               *)
IsReplyToCall(o) == \E c \in DOMAIN calls : calls[c].line = o.line

(* The writer: a failed write ends it, and so does the closed queue once   *)
(* it is empty.                                                            *)
WriterStep ==
  /\ writer = "on"
  /\ \/ /\ outbox # <<>>
        /\ outbox' = Tail(outbox)
        /\ \/ /\ written' = IF IsReplyToCall(Head(outbox)) THEN Append(written, Head(outbox)) ELSE written
              /\ UNCHANGED writer
           \/ writer' = "failed" /\ UNCHANGED written
     \/ /\ outbox = <<>> /\ outClosed
        /\ writer' = "done" /\ UNCHANGED <<outbox, written>>
  /\ UNCHANGED <<readVars, reader, calls, holder, drainVars, outClosed, told>>

-----------------------------------------------------------------------------
(* The end of the input.                                                   *)
EndOfInput ==
  /\ reader = "reading"
  /\ reader' = "eof" /\ eof' = TRUE
  /\ UNCHANGED <<readVars, calls, holder, inFlight, drained, outVars, told>>

MustDrain == inFlight > 0

LookInFlight ==
  /\ reader = "eof"
  /\ reader' = IF MustDrain THEN "draining" ELSE "ending"
  /\ UNCHANGED <<readVars, calls, holder, drainVars, outVars, told>>

(* Once drained: end_session(), then the output's queue is closed.         *)
EndSession ==
  /\ reader = "ending" \/ (reader = "draining" /\ drained)
  /\ reader' = "flushing" /\ outClosed' = TRUE
  /\ ended' = ended \cup ({session} \ {0})
  /\ UNCHANGED <<lines, session, calls, holder, drainVars, outbox, writer, written, told>>

Return ==
  /\ reader = "flushing" /\ writer # "on"
  /\ reader' = "returned"
  /\ UNCHANGED <<readVars, calls, holder, drainVars, outVars, told>>

Closing == LookInFlight \/ EndSession \/ Return
CallSteps(c) ==
  Lock(c) \/ Throw(c) \/ Finish(c) \/ Decide(c) \/ LeaveTable(c) \/ Answer(c) \/ TellDrained(c)

Step ==
  \/ \E m \in Messages : Read(m)
  \/ \E c \in DOMAIN calls : CallSteps(c)
  \/ WriterStep \/ EndOfInput \/ Closing

Next == Step /\ UNCHANGED manyThreads

Spec == Init /\ [][Next]_vars

(* The executor runs what is ready, callables end, writes end.             *)
Fairness ==
  /\ \A c \in 1..MaxCalls : WF_moving(c \in DOMAIN calls /\ CallSteps(c))
  /\ WF_moving(WriterStep) /\ WF_moving(Closing)
FairSpec == Spec /\ Fairness

-----------------------------------------------------------------------------
(* The state has its shape; a session's lock has one holder; the counter   *)
(* is the number of calls that did not count themselves down, those that   *)
(* threw among them.                                                       *)
TypeOK ==
  /\ lines \in 0..MaxLines /\ session \in 0..MaxSessions /\ ended \subseteq Sessions
  /\ reader \in {"reading", "eof", "draining", "ending", "flushing", "returned"}
  /\ \A c \in DOMAIN calls :
       /\ calls[c].msg \in Messages /\ calls[c].session \in Sessions /\ calls[c].cancelled \in BOOLEAN
       /\ calls[c].st \in {"waiting", "running", "decided", "left", "last", "done", "thrown"}
       /\ InDispatch(c) <=> holder[calls[c].session] = c
  /\ inFlight = Cardinality({c \in DOMAIN calls : calls[c].st \notin {"last", "done"}})
  /\ eof \in BOOLEAN /\ drained \in BOOLEAN /\ outClosed \in BOOLEAN
  /\ writer \in {"on", "failed", "done"}
  /\ told \subseteq DOMAIN calls

Replies(c) == {i \in DOMAIN written : written[i].line = calls[c].line}

(* When serve_stdio() returns and its output never failed, every request   *)
(* it spawned was answered exactly once, whichever session it belonged to, *)
(* unless the client itself asked for its cancellation; notifications got  *)
(* no answer.  One thread runs the executor: see FlushedOnManyThreads.     *)
Flushed ==
  reader = "returned" /\ writer = "done" =>
    \A c \in DOMAIN calls :
      LET n == Cardinality(Replies(c))
          m == calls[c].msg
      IN /\ n <= 1
         /\ ExpectsAnswer(m) /\ c \notin told => n = 1
         /\ IsNotification(m) /\ ~SkipsLastStatement(m, Place(TRUE, TRUE)) => n = 0
AnsweredUnlessCancelled == ~manyThreads => Flushed

(* A call that was cancelled while it was in the table of requests is not  *)
(* answered, unless it is a custom method, which says so.                  *)
CancelledIsSilent ==
  \A c \in DOMAIN calls : \A i \in DOMAIN written :
    calls[c].cancelled /\ written[i].line = calls[c].line =>
      calls[c].msg.method = "custom" /\ written[i].reply = RequestCancelled

(* So it is where one thread runs the executor.  On several, the reader may*)
(* cancel a call between its look at the cancellation and its leaving the  *)
(* table, and the reply is sent: cancel()'s "the response is ... suppressed*)
(* (MCP)" is not true of it then.                                          *)
CancelledIsNotAnswered == ~manyThreads => CancelledIsSilent

Thrown == \E c \in DOMAIN calls : calls[c].st = "thrown"

(* Once the input has ended serve_stdio() returns: the last call to end    *)
(* and the reader that looks at the counter never miss each other.  Not    *)
(* when a call threw: see StdioReturnsAlways.                              *)
StdioReturns == (eof /\ ~Thrown) ~> (reader = "returned" \/ Thrown)

(* "On end of input the coroutine waits for requests still running,        *)
(* flushes their replies, removes the session and returns": with any       *)
(* number of threads.                                                      *)
FlushedOnManyThreads == Flushed

(* The same statement: it returns.                                         *)
StdioReturnsAlways == eof ~> reader = "returned"

(* The endpoint's statement: "A JSON-RPC response or notification posted   *)
(* by the client is acknowledged with 202 and no body"; envelope.hpp: a    *)
(* notification "is never answered".                                       *)
NotificationsSilent ==
  \A c \in DOMAIN calls : IsNotification(calls[c].msg) => Replies(c) = {}
=============================================================================
