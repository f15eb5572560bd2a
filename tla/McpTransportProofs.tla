-------------------------- MODULE McpTransportProofs --------------------------
(***************************************************************************)
(* Theorems about the transports of an MCP endpoint, for every set of      *)
(* messages and any number of lines, calls and sessions.  McpStdio, where  *)
(* one thread runs the executor: what serve_stdio() spawned is answered    *)
(* once and before it returns, and what the client cancelled is not        *)
(* answered.  McpHttp, at the end: a request stays without answer only if  *)
(* its own client asked for that.                                          *)
(***************************************************************************)
EXTENDS McpStdio, McpHttp, FiniteSetTheorems, SequenceTheorems, TLAPS

-----------------------------------------------------------------------------
(* What is answered to a message.                                          *)

Answers ==
  {"result", "-32700", "-32600", "-32601", "-32602", "-32603", "-32002", "-32800"}

LEMMA AnswerCodes ==
  /\ {ParseError, InvalidRequest, MethodNotFound, InvalidParams, InternalError,
      ResourceNotFound, RequestCancelled} \subseteq Answers
  /\ "result" \in Answers /\ "none" \notin Answers
BY DEF Answers, ParseError, InvalidRequest, MethodNotFound, InvalidParams, InternalError,
       ResourceNotFound, RequestCancelled

LEMMA FailureCodes ==
  ASSUME NEW f
  PROVE  DefaultErrorMapper(f) \in Answers /\ MapFailure(f) \in Answers /\ MapToolError(f) \in Answers
<1>1. DefaultErrorMapper(f) \in Answers
  BY AnswerCodes DEF DefaultErrorMapper
<1>2. MapFailure(f) \in Answers
  BY AnswerCodes, <1>1 DEF MapFailure
<1> QED
  BY AnswerCodes, <1>1, <1>2 DEF MapToolError

(* The reply of a method is a code or a result; it is nothing only where   *)
(* the request was cancelled.                                              *)
LEMMA MethodReplies ==
  ASSUME NEW m, WellFormed(m), NEW cancelled \in BOOLEAN, NEW kept
  PROVE  LET at == Place(TRUE, kept) IN
         /\ \A r \in {CallTool(m, cancelled), GetPrompt(m, cancelled), ReadResource(m, cancelled)} :
              /\ r \in Answers \cup {"none"}
              /\ ~cancelled => r \in Answers
              /\ cancelled /\ m.params = "ok" => r = "none"
         /\ Custom(m, cancelled) \in Answers
         /\ cancelled /\ m.method = "custom" => Custom(m, cancelled) = RequestCancelled
         /\ {Complete(m), Paginate(m), Subscribe(m, at), SetLevel(m, at)} \subseteq Answers
<1> DEFINE at == Place(TRUE, kept)
<1>1. at.stateful = TRUE /\ at.known = kept
  BY DEF Place
<1>2. m.params \in {"ok", "malformed", "unknown"}
  BY DEF WellFormed
<1>3. \A f : DefaultErrorMapper(f) \in Answers /\ MapFailure(f) \in Answers /\ MapToolError(f) \in Answers
  BY FailureCodes
<1>4. /\ CallTool(m, cancelled) \in Answers \cup {"none"}
      /\ ~cancelled => CallTool(m, cancelled) \in Answers
      /\ cancelled /\ m.params = "ok" => CallTool(m, cancelled) = "none"
  BY <1>2, <1>3, AnswerCodes DEF CallTool
<1>5. /\ GetPrompt(m, cancelled) \in Answers \cup {"none"}
      /\ ~cancelled => GetPrompt(m, cancelled) \in Answers
      /\ cancelled /\ m.params = "ok" => GetPrompt(m, cancelled) = "none"
  BY <1>2, <1>3, AnswerCodes DEF GetPrompt
<1>6. /\ ReadResource(m, cancelled) \in Answers \cup {"none"}
      /\ ~cancelled => ReadResource(m, cancelled) \in Answers
      /\ cancelled /\ m.params = "ok" => ReadResource(m, cancelled) = "none"
  BY <1>2, <1>3, AnswerCodes DEF ReadResource
<1>7. /\ Custom(m, cancelled) \in Answers
      /\ cancelled /\ m.method = "custom" => Custom(m, cancelled) = RequestCancelled
  BY <1>3, AnswerCodes DEF Custom
<1>8. Complete(m) \in Answers /\ Paginate(m) \in Answers
  BY AnswerCodes DEF Complete, Paginate
<1>9. Subscribe(m, at) \in Answers /\ SetLevel(m, at) \in Answers
  BY <1>1, AnswerCodes DEF Subscribe, SetLevel
<1> QED
  BY <1>4, <1>5, <1>6, <1>7, <1>8, <1>9

(* Wherever the session of a call is, one that was cancelled under its     *)
(* scope is silent unless it is a custom method; one that was not is       *)
(* answered if it expects an answer; and a notification is answered only   *)
(* where dispatch_impl skips its last statement.                           *)
LEMMA CallReplies ==
  ASSUME NEW m, WellFormed(m), NEW cancelled \in BOOLEAN, NEW kept
  PROVE  LET r == Reply(m, cancelled, Place(TRUE, kept)) IN
         /\ r \in Answers \cup {"none"}
         /\ cancelled /\ HasScope(m) /\ r # "none" => m.method = "custom" /\ r = RequestCancelled
         /\ ~cancelled /\ ExpectsAnswer(m) => r # "none"
         /\ IsNotification(m) /\ r # "none" => SkipsLastStatement(m, Place(TRUE, TRUE))
<1> DEFINE at == Place(TRUE, kept)
           r == Reply(m, cancelled, at)
<1> SUFFICES /\ r \in Answers \cup {"none"}
             /\ cancelled /\ HasScope(m) /\ r # "none" => m.method = "custom" /\ r = RequestCancelled
             /\ ~cancelled /\ ExpectsAnswer(m) => r # "none"
             /\ IsNotification(m) /\ r # "none" => SkipsLastStatement(m, Place(TRUE, TRUE))
  OBVIOUS
<1>1. SkipsLastStatement(m, at) <=> SkipsLastStatement(m, Place(TRUE, TRUE))
  BY DEF SkipsLastStatement, SetLevel, Place
<1>2. CASE Reached(m) /\ m.fails = "jsonrpc"
  <2>1. r = UnlessNotification(m, DefaultErrorMapper(m.fails))
    BY <1>2 DEF Reply
  <2>2. m.method \notin Scoped
    BY <1>2 DEF Reached, Scoped
  <2> QED
    BY <2>1, <2>2, FailureCodes, AnswerCodes DEF UnlessNotification, HasScope, ExpectsAnswer
<1>3. CASE ~(Reached(m) /\ m.fails = "jsonrpc")
  <2>1. r = ReplyTo(m, cancelled, at)
    BY <1>3 DEF Reply
  <2> HIDE DEF r
  <2>2. CASE m.method \in {"tools/call", "prompts/get", "resources/read"}
    <3>1. ~SkipsLastStatement(m, at)
      BY <2>2 DEF SkipsLastStatement
    <3>4. \/ r = UnlessNotification(m, CallTool(m, cancelled))
          \/ r = UnlessNotification(m, GetPrompt(m, cancelled))
          \/ r = UnlessNotification(m, ReadResource(m, cancelled))
      <4>1. CASE m.method = "tools/call"
        BY <2>1, <3>1, <4>1 DEF ReplyTo, Lists, Subscriptions
      <4>2. CASE m.method = "prompts/get"
        BY <2>1, <3>1, <4>2 DEF ReplyTo, Lists, Subscriptions
      <4>3. CASE m.method = "resources/read"
        BY <2>1, <3>1, <4>3 DEF ReplyTo, Lists, Subscriptions
      <4> QED
        BY <2>2, <4>1, <4>2, <4>3
    <3>3. PICK x \in {CallTool(m, cancelled), GetPrompt(m, cancelled), ReadResource(m, cancelled)} :
            r = UnlessNotification(m, x)
      BY <3>4
    <3>2. HasScope(m) => m.params = "ok" /\ ~IsNotification(m)
      BY <2>2 DEF HasScope
    <3> QED
      BY <3>2, <3>3, MethodReplies, AnswerCodes DEF UnlessNotification, ExpectsAnswer
  <2>3. CASE m.method = "logging/setLevel"
    <3>1. SetLevel(m, at) \in Answers
      BY MethodReplies
    <3>2. m.method \notin Lists /\ m.method \notin Subscriptions /\ ~HasScope(m)
      BY <2>3 DEF Lists, Subscriptions, HasScope, Scoped
    <3>3. r = IF SkipsLastStatement(m, at) THEN SetLevel(m, at) ELSE UnlessNotification(m, SetLevel(m, at))
      BY <2>1, <2>3, <3>2 DEF ReplyTo
    <3> QED
      BY <1>1, <3>1, <3>2, <3>3, AnswerCodes DEF UnlessNotification, ExpectsAnswer
  <2>4. CASE m.method \in {"completion/complete", "ping"} \cup Lists \cup Subscriptions
    <3>1. ~HasScope(m) /\ ~SkipsLastStatement(m, at)
      BY <2>4 DEF Lists, Subscriptions, HasScope, Scoped, SkipsLastStatement
    <3>2. PICK x \in {Complete(m), Paginate(m), Subscribe(m, at), "result"} : r = UnlessNotification(m, x)
      BY <2>1, <2>4, <3>1 DEF ReplyTo, Lists, Subscriptions
    <3>3. x \in Answers
      BY <3>2, MethodReplies, AnswerCodes
    <3> QED
      BY <3>1, <3>2, <3>3, AnswerCodes DEF UnlessNotification, ExpectsAnswer
  <2>5. CASE m.method = "notifications/custom"
    <3>1. r = "none"
      BY <2>1, <2>5 DEF ReplyTo, SkipsLastStatement, UnlessNotification, Lists, Subscriptions
    <3> QED
      BY <2>5, <3>1 DEF ExpectsAnswer
  <2>6. CASE m.method \notin {"tools/call", "prompts/get", "resources/read", "logging/setLevel", "completion/complete",
                             "ping", "notifications/custom"} \cup Lists \cup Subscriptions
    <3>1. r = UnlessNotification(m, Custom(m, cancelled))
      BY <2>1, <2>6 DEF ReplyTo, SkipsLastStatement
    <3>2. HasScope(m) => m.method = "custom" /\ ~IsNotification(m)
      BY <2>6 DEF HasScope, Scoped
    <3> QED
      BY <3>1, <3>2, MethodReplies, AnswerCodes DEF UnlessNotification, ExpectsAnswer
  <2> QED
    BY <2>2, <2>3, <2>4, <2>5, <2>6
<1> QED
  BY <1>2, <1>3

-----------------------------------------------------------------------------
(* The invariant.                                                          *)

Statuses == {"waiting", "running", "decided", "left", "last", "done", "thrown"}
Call == [msg : Messages, session : Sessions, line : Nat, st : Statuses,
         cancelled : BOOLEAN, reply : Answers \cup {"none"}]
Output == [line : Nat, reply : Answers]

(* Every variable has its type.                                            *)
ShapeInv ==
  /\ manyThreads \in BOOLEAN
  /\ lines \in 0..MaxLines /\ session \in 0..MaxSessions /\ ended \subseteq Sessions
  /\ reader \in {"reading", "eof", "draining", "ending", "flushing", "returned"}
  /\ calls \in Seq(Call)
  /\ holder \in [Sessions -> Nat]
  /\ eof \in BOOLEAN /\ drained \in BOOLEAN /\ outClosed \in BOOLEAN
  /\ writer \in {"on", "failed", "done"}
  /\ outbox \in Seq(Output) /\ written \in Seq(Output)
  /\ told \subseteq 1..Len(calls)

(* A session's lock has one holder, the call of it that is in dispatch().  *)
Holding ==
  /\ \A s \in Sessions : holder[s] \in 0..Len(calls)
  /\ \A c \in 1..Len(calls) : InDispatch(c) <=> holder[calls[c].session] = c

(* The counter is the number of calls that did not count themselves down.  *)
Pending == {c \in 1..Len(calls) : calls[c].st \notin {"last", "done"}}
Counting == inFlight = Cardinality(Pending)

(* Each call answers a line of its own, and so does every reply.           *)
LinesInv ==
  /\ \A c \in 1..Len(calls) : calls[c].line \in 1..lines
  /\ \A c, d \in 1..Len(calls) : calls[c].line = calls[d].line => c = d
  /\ \A i \in 1..Len(outbox) : outbox[i].line \in 1..lines
  /\ \A i \in 1..Len(written) : written[i].line \in 1..lines

(* No line has two replies.                                                *)
OnceInv ==
  /\ \A i, j \in 1..Len(outbox) : outbox[i].line = outbox[j].line => i = j
  /\ \A i, j \in 1..Len(written) : written[i].line = written[j].line => i = j
  /\ \A i \in 1..Len(outbox), j \in 1..Len(written) : outbox[i].line # written[j].line

(* Only calls that ended have a reply; on one thread, where nothing comes  *)
(* between a call's look at its cancellation and its reply, it is one they *)
(* may have.                                                               *)
Right(k, o, many) ==
  k.line = o.line =>
    /\ k.st \in {"last", "done"}
    /\ ~many /\ k.cancelled => k.msg.method = "custom" /\ o.reply = RequestCancelled
    /\ ~many /\ IsNotification(k.msg) => SkipsLastStatement(k.msg, Place(TRUE, TRUE))
RightInv ==
  \A c \in 1..Len(calls) :
    /\ \A i \in 1..Len(outbox) : Right(calls[c], outbox[i], manyThreads)
    /\ \A i \in 1..Len(written) : Right(calls[c], written[i], manyThreads)

(* What is cancelled was named by the client, and has a scope.             *)
ToldInv ==
  \A c \in 1..Len(calls) : calls[c].cancelled => c \in told /\ HasScope(calls[c].msg)

(* On one thread no call is counted down without having looked at the      *)
(* flag, and whoever is told to go on finds every call over.               *)
Over(c) == calls[c].st = "done"
AllOver == \A c \in 1..Len(calls) : Over(c)
EndInv ==
  /\ eof <=> reader # "reading"
  /\ outClosed <=> reader \in {"flushing", "returned"}
  /\ writer = "done" => outClosed /\ outbox = <<>>
  /\ ~manyThreads =>
       /\ \A c \in 1..Len(calls) : calls[c].st \notin {"decided", "left", "last"}
       /\ drained => eof
       /\ drained \/ reader \in {"ending", "flushing", "returned"} => AllOver

(* On one thread what is over and owes an answer has sent it.              *)
HasReply(c) ==
  \/ \E i \in 1..Len(outbox) : outbox[i].line = calls[c].line
  \/ \E i \in 1..Len(written) : written[i].line = calls[c].line
Owed(c) == Over(c) /\ ExpectsAnswer(calls[c].msg) /\ c \notin told
AnsweredInv == ~manyThreads /\ writer # "failed" => \A c \in 1..Len(calls) : Owed(c) => HasReply(c)

IInv ==
  /\ ShapeInv /\ Holding /\ Counting /\ LinesInv /\ OnceInv /\ RightInv /\ ToldInv
  /\ EndInv /\ AnsweredInv

-----------------------------------------------------------------------------
(* How a step changes the calls and the output's queue, entry by entry.    *)

LEMMA Basics ==
  ASSUME ShapeInv
  PROVE  /\ Len(calls) \in Nat /\ DOMAIN calls = 1..Len(calls)
         /\ calls \in [1..Len(calls) -> Call] /\ \A c \in 1..Len(calls) : calls[c] \in Call
         /\ Len(outbox) \in Nat /\ \A i \in 1..Len(outbox) : outbox[i] \in Output
         /\ Len(written) \in Nat /\ \A i \in 1..Len(written) : written[i] \in Output
BY DEF ShapeInv

(* Calls k and l are the same but for how far they are.                    *)
SameCall(k, l) == k.msg = l.msg /\ k.session = l.session /\ k.line = l.line

Moved(c, st) ==
  /\ calls' \in Seq(Call) /\ Len(calls') = Len(calls)
  /\ \A d \in 1..Len(calls) : SameCall(calls'[d], calls[d]) /\ calls'[d].cancelled = calls[d].cancelled
  /\ calls'[c].st = st
  /\ \A d \in 1..Len(calls) : d # c => calls'[d].st = calls[d].st

LEMMA ToMoves ==
  ASSUME ShapeInv, NEW c \in 1..Len(calls), NEW st \in Statuses, To(c, st)
  PROVE  Moved(c, st)
<1> DEFINE n == Len(calls)
           t == [calls EXCEPT ![c].st = st]
<1>1. n \in Nat /\ calls \in [1..n -> Call] /\ c \in 1..n
  BY Basics
<1>2. calls' = t
  BY DEF To
<1>3. t \in [1..n -> Call]
  BY <1>1 DEF Call, Statuses
<1>4. t \in Seq(Call) /\ Len(t) = n
  BY <1>1, <1>3
<1>5. \A d \in 1..n : d # c => t[d] = calls[d]
  BY <1>1
<1>6. t[c] = [calls[c] EXCEPT !.st = st] /\ calls[c] \in Call
  BY <1>1
<1>7. SameCall(t[c], calls[c]) /\ t[c].cancelled = calls[c].cancelled /\ t[c].st = st
  BY <1>6 DEF Call, SameCall
<1> HIDE DEF t, n
<1>8. \A d \in 1..n : SameCall(t[d], calls[d]) /\ t[d].cancelled = calls[d].cancelled
  BY <1>5, <1>7, Zenon DEF SameCall
<1>9. \A d \in 1..n : d # c => t[d].st = calls[d].st
  BY <1>5
<1> QED
  BY <1>2, <1>4, <1>7, <1>8, <1>9 DEF Moved, n

CancelledOnly(targets) ==
  /\ calls' \in Seq(Call) /\ Len(calls') = Len(calls)
  /\ \A d \in 1..Len(calls) :
       /\ SameCall(calls'[d], calls[d]) /\ calls'[d].st = calls[d].st
       /\ calls'[d].cancelled => calls[d].cancelled \/ d \in targets
       /\ d \notin targets => calls'[d].cancelled = calls[d].cancelled

LEMMA CancelMarks ==
  ASSUME ShapeInv, NEW targets, Cancel(targets)
  PROVE  CancelledOnly(targets)
<1> DEFINE n == Len(calls)
           t == [c \in 1..n |-> IF c \in targets THEN [calls[c] EXCEPT !.cancelled = TRUE] ELSE calls[c]]
<1>1. n \in Nat /\ DOMAIN calls = 1..n /\ \A c \in 1..n : calls[c] \in Call
  BY Basics
<1>2. calls' = t
  BY <1>1 DEF Cancel
<1>3. \A d \in 1..n : /\ t[d] \in Call /\ SameCall(t[d], calls[d]) /\ t[d].st = calls[d].st
                      /\ t[d].cancelled => calls[d].cancelled \/ d \in targets
                      /\ d \notin targets => t[d].cancelled = calls[d].cancelled
  BY <1>1 DEF Call, SameCall
<1>4. t \in Seq(Call) /\ Len(t) = n
  <2>1. t \in [1..n -> Call]
    BY <1>3
  <2> QED
    BY <1>1, <2>1
<1> HIDE DEF t
<1> QED
  BY <1>2, <1>3, <1>4 DEF CancelledOnly

Spawned(k) ==
  /\ calls' \in Seq(Call) /\ Len(calls') = Len(calls) + 1
  /\ \A d \in 1..Len(calls) : calls'[d] = calls[d]
  /\ calls'[Len(calls) + 1] = k

LEMMA AppendSpawns ==
  ASSUME ShapeInv, NEW k \in Call, calls' = Append(calls, k)
  PROVE  Spawned(k)
<1>1. calls \in Seq(Call)
  BY DEF ShapeInv
<1> QED
  BY <1>1 DEF Spawned

Grown(line, reply) ==
  /\ outbox' \in Seq(Output)
  /\ \/ outbox' = outbox /\ (reply = "none" \/ outClosed)
     \/ /\ ~outClosed /\ reply # "none"
        /\ Len(outbox') = Len(outbox) + 1
        /\ \A i \in 1..Len(outbox) : outbox'[i] = outbox[i]
        /\ outbox'[Len(outbox) + 1].line = line /\ outbox'[Len(outbox) + 1].reply = reply

LEMMA SendGrows ==
  ASSUME ShapeInv, NEW line \in Nat, NEW reply \in Answers \cup {"none"}, Send(line, reply)
  PROVE  Grown(line, reply)
<1> DEFINE o == [line |-> line, reply |-> reply]
<1>1. outbox \in Seq(Output)
  BY DEF ShapeInv
<1>2. CASE reply = "none" \/ outClosed
  BY <1>1, <1>2 DEF Send, Grown
<1>3. CASE ~(reply = "none" \/ outClosed)
  <2>1. outbox' = Append(outbox, o) /\ o \in Output
    BY <1>3 DEF Send, Output
  <2>2. o.line = line /\ o.reply = reply
    OBVIOUS
  <2> HIDE DEF o
  <2>3. /\ outbox' \in Seq(Output) /\ Len(outbox') = Len(outbox) + 1
        /\ \A i \in 1..Len(outbox) : outbox'[i] = outbox[i]
        /\ outbox'[Len(outbox) + 1] = o
    BY <1>1, <2>1
  <2> QED
    BY <1>3, <2>2, <2>3 DEF Grown
<1> QED
  BY <1>2, <1>3

-----------------------------------------------------------------------------
(* What a reply leaves of the invariant.                                   *)

Fresh(line) ==
  /\ \A i \in 1..Len(outbox) : outbox[i].line # line
  /\ \A i \in 1..Len(written) : written[i].line # line

LEMMA GrownOnce ==
  ASSUME ShapeInv, OnceInv, NEW line, NEW reply, Grown(line, reply), Fresh(line), written' = written
  PROVE  OnceInv'
<1>1. CASE outbox' = outbox
  BY <1>1 DEF OnceInv
<1>2. CASE outbox' # outbox
  <2> DEFINE n == Len(outbox)
             t == outbox'
  <2>1. /\ n \in Nat /\ Len(t) = n + 1
        /\ \A i \in 1..n : t[i] = outbox[i]
        /\ t[n + 1].line = line
    BY <1>2, Basics DEF Grown
  <2>2. \A i \in 1..n, j \in 1..n : outbox[i].line = outbox[j].line => i = j
    BY DEF OnceInv
  <2>3. \A i \in 1..n : outbox[i].line # line
    BY DEF Fresh
  <2> HIDE DEF n, t
  <2>4. \A i \in 1..n + 1 : i \in 1..n \/ i = n + 1
    BY <2>1
  <2>5. \A i, j \in 1..n + 1 : t[i].line = t[j].line => i = j
    BY <2>1, <2>2, <2>3, <2>4, Zenon
  <2>6. \A i \in 1..n + 1, j \in 1..Len(written) : t[i].line # written[j].line
    <3>1. \A i \in 1..n, j \in 1..Len(written) : outbox[i].line # written[j].line
      BY DEF OnceInv, n
    <3>2. \A j \in 1..Len(written) : line # written[j].line
      BY DEF Fresh
    <3> QED
      BY <2>1, <2>4, <3>1, <3>2, Zenon
  <2>7. \A i, j \in 1..Len(written) : written[i].line = written[j].line => i = j
    BY DEF OnceInv
  <2> QED
    BY <2>1, <2>5, <2>6, <2>7 DEF OnceInv, t
<1> QED
  BY <1>1, <1>2

KeptCalls == Len(calls') = Len(calls) /\ \A d \in 1..Len(calls) : SameCall(calls'[d], calls[d])

LEMMA GrownLines ==
  ASSUME ShapeInv, LinesInv, KeptCalls, lines' \in {lines, lines + 1},
         NEW line \in 1..lines', NEW reply, Grown(line, reply), written' = written
  PROVE  LinesInv'
<1>1. lines \in Nat /\ lines' \in Nat /\ \A x \in 1..lines : x \in 1..lines'
  BY BoundsAssumption DEF ShapeInv
<1>2. \A c \in 1..Len(calls') : calls'[c].line \in 1..lines'
  BY <1>1 DEF LinesInv, KeptCalls, SameCall
<1>3. \A c, d \in 1..Len(calls') : calls'[c].line = calls'[d].line => c = d
  BY DEF LinesInv, KeptCalls, SameCall
<1>4. \A i \in 1..Len(written') : written'[i].line \in 1..lines'
  BY <1>1 DEF LinesInv
<1>5. \A i \in 1..Len(outbox') : outbox'[i].line \in 1..lines'
  <2>1. CASE outbox' = outbox
    BY <1>1, <2>1 DEF LinesInv
  <2>2. CASE outbox' # outbox
    <3>1. /\ Len(outbox) \in Nat /\ Len(outbox') = Len(outbox) + 1
          /\ \A i \in 1..Len(outbox) : outbox'[i] = outbox[i]
          /\ outbox'[Len(outbox) + 1].line = line
      BY <2>2, Basics DEF Grown
    <3>2. \A i \in 1..Len(outbox') : i \in 1..Len(outbox) \/ i = Len(outbox) + 1
      BY <3>1
    <3>3. \A i \in 1..Len(outbox) : outbox[i].line \in 1..lines'
      BY <1>1 DEF LinesInv
    <3> QED
      BY <3>1, <3>2, <3>3, Zenon
  <2> QED
    BY <2>1, <2>2
<1> QED
  BY <1>2, <1>3, <1>4, <1>5 DEF LinesInv

Settled(k) == k.st \in {"last", "done"}
SettledStay ==
  \A d \in 1..Len(calls) : Settled(calls[d]) => Settled(calls'[d]) /\ calls'[d].cancelled = calls[d].cancelled

LEMMA SettledRight ==
  ASSUME ShapeInv, RightInv, KeptCalls, SettledStay
  PROVE  \A c \in 1..Len(calls) :
           /\ \A i \in 1..Len(outbox) : Right(calls'[c], outbox[i], manyThreads)
           /\ \A i \in 1..Len(written) : Right(calls'[c], written[i], manyThreads)
<1> SUFFICES ASSUME NEW c \in 1..Len(calls), NEW o, Right(calls[c], o, manyThreads)
             PROVE  Right(calls'[c], o, manyThreads)
  BY DEF RightInv
<1>1. SameCall(calls'[c], calls[c])
  BY DEF KeptCalls
<1>2. CASE calls[c].line = o.line
  <2>1. Settled(calls[c])
    BY <1>2 DEF Right, Settled
  <2> QED
    BY <1>1, <1>2, <2>1 DEF Right, Settled, SameCall, SettledStay
<1>3. CASE calls[c].line # o.line
  BY <1>1, <1>3 DEF Right, SameCall
<1> QED
  BY <1>2, <1>3

LEMMA GrownRight ==
  ASSUME ShapeInv, RightInv, KeptCalls, SettledStay, written' = written, manyThreads' = manyThreads,
         NEW line, NEW reply, Grown(line, reply),
         reply # "none" /\ ~outClosed =>
           \A c \in 1..Len(calls) : \A o : o.line = line /\ o.reply = reply => Right(calls'[c], o, manyThreads)
  PROVE  RightInv'
<1>1. \A c \in 1..Len(calls) :
        /\ \A i \in 1..Len(outbox) : Right(calls'[c], outbox[i], manyThreads)
        /\ \A i \in 1..Len(written) : Right(calls'[c], written[i], manyThreads)
  BY SettledRight
<1>2. CASE outbox' = outbox
  BY <1>1, <1>2 DEF RightInv, KeptCalls
<1>3. CASE outbox' # outbox
  <2>1. /\ Len(outbox) \in Nat /\ Len(outbox') = Len(outbox) + 1
        /\ \A i \in 1..Len(outbox) : outbox'[i] = outbox[i]
        /\ outbox'[Len(outbox) + 1].line = line /\ outbox'[Len(outbox) + 1].reply = reply
        /\ reply # "none" /\ ~outClosed
    BY <1>3, Basics DEF Grown
  <2>2. \A i \in 1..Len(outbox') : i \in 1..Len(outbox) \/ i = Len(outbox) + 1
    BY <2>1
  <2>3. \A c \in 1..Len(calls) : Right(calls'[c], outbox'[Len(outbox) + 1], manyThreads)
    BY <2>1
  <2>4. \A c \in 1..Len(calls) : \A i \in 1..Len(outbox') : Right(calls'[c], outbox'[i], manyThreads)
    BY <1>1, <2>1, <2>2, <2>3, Zenon
  <2> QED
    BY <1>1, <2>4 DEF RightInv, KeptCalls
<1> QED
  BY <1>2, <1>3

(* What has a reply keeps it.                                              *)
LEMMA GrownReplies ==
  ASSUME ShapeInv, KeptCalls, NEW line, NEW reply, Grown(line, reply), written' = written
  PROVE  \A c \in 1..Len(calls) : HasReply(c) => HasReply(c)'
<1>1. CASE outbox' = outbox
  BY <1>1 DEF HasReply, KeptCalls, SameCall
<1>2. CASE outbox' # outbox
  <2>1. /\ Len(outbox) \in Nat /\ Len(outbox') = Len(outbox) + 1
        /\ \A i \in 1..Len(outbox) : outbox'[i] = outbox[i]
    BY <1>2, Basics DEF Grown
  <2>2. \A i \in 1..Len(outbox) : i \in 1..Len(outbox')
    BY <2>1
  <2> QED
    BY <2>1, <2>2 DEF HasReply, KeptCalls, SameCall
<1> QED
  BY <1>1, <1>2

(* A finite number of calls is pending.                                    *)
LEMMA PendingFinite ==
  ASSUME ShapeInv
  PROVE  IsFiniteSet(Pending) /\ Cardinality(Pending) \in Nat
<1>1. IsFiniteSet(1..Len(calls))
  BY Basics, FS_Interval
<1>2. IsFiniteSet(Pending)
  BY <1>1, FS_Subset DEF Pending
<1> QED
  BY <1>2, FS_CardinalityType

(* Counting, where nobody starts or stops being pending.                   *)
LEMMA SameCounting ==
  ASSUME Counting, Len(calls') = Len(calls), inFlight' = inFlight,
         \A d \in 1..Len(calls) : calls'[d].st \in {"last", "done"} <=> calls[d].st \in {"last", "done"}
  PROVE  Counting'
<1>1. Pending' = Pending
  BY DEF Pending
<1> QED
  BY <1>1 DEF Counting

-----------------------------------------------------------------------------
(* The steps.                                                              *)

LEMMA LineReplies ==
  ASSUME NEW m \in Messages
  PROVE  /\ LineReply(m) \in Answers \cup {"none"}
         /\ UnlessNotification(m, "result") \in Answers \cup {"none"}
         /\ MapFailure(m.fails) \in Answers \cup {"none"}
<1>1. WellFormed(m)
  BY MessagesAssumption
<1>2. m.shape # "envelope" => ShapeReply(m) \in Answers \cup {"none"}
  BY <1>1, AnswerCodes DEF ShapeReply, WellFormed
<1> QED
  BY <1>2, AnswerCodes, FailureCodes DEF LineReply, UnlessNotification

(* A line that is answered by the reader itself.                           *)
LEMMA StepLine ==
  ASSUME IInv, NEW m \in Messages, AnswerLine(m) \/ Initialize(m), UNCHANGED manyThreads
  PROVE  IInv'
<1> USE DEF IInv
<1>1. /\ lines < MaxLines /\ lines' = lines + 1 /\ lines \in Nat /\ lines' \in 0..MaxLines
      /\ UNCHANGED <<reader, drained, eof, outClosed, writer, written, calls, holder, inFlight, told>>
  BY BoundsAssumption DEF AnswerLine, Initialize, ReadLine, ShapeInv
<1>2. PICK r \in Answers \cup {"none"} : Send(lines', r)
  BY LineReplies DEF AnswerLine, Initialize
<1>3. session' \in 0..MaxSessions /\ ended' \subseteq Sessions
  <2>1. session \in 0..MaxSessions /\ ended \subseteq Sessions /\ MaxSessions \in Nat
    BY BoundsAssumption DEF ShapeInv
  <2>2. {session} \ {0} \subseteq Sessions
    BY <2>1 DEF Sessions
  <2> QED
    BY <2>1, <2>2 DEF AnswerLine, Initialize
<1>4. Grown(lines', r)
  BY <1>1, <1>2, SendGrows
<1>5. Fresh(lines')
  BY <1>1, Basics DEF Fresh, LinesInv
<1>6. KeptCalls /\ SettledStay
  BY <1>1 DEF KeptCalls, SettledStay, SameCall
<1>7. ShapeInv'
  <2>1. outbox' \in Seq(Output)
    BY <1>4 DEF Grown
  <2> QED
    BY <1>1, <1>3, <2>1 DEF ShapeInv
<1>8. Holding'
  BY <1>1 DEF Holding, InDispatch
<1>9. Counting'
  BY <1>1 DEF Counting, Pending
<1>10. LinesInv'
  <2>1. lines' \in 1..lines'
    BY <1>1
  <2> QED
    BY <1>1, <1>4, <1>6, <2>1, GrownLines
<1>11. OnceInv'
  BY <1>1, <1>4, <1>5, GrownOnce
<1>12. RightInv'
  <2>1. \A c \in 1..Len(calls) : calls'[c].line # lines'
    BY <1>1, Basics DEF LinesInv
  <2>2. \A c \in 1..Len(calls) : \A o : o.line = lines' /\ o.reply = r => Right(calls'[c], o, manyThreads)
    BY <2>1 DEF Right
  <2> QED
    BY <1>1, <1>4, <1>6, <2>2, GrownRight
<1>13. ToldInv'
  BY <1>1 DEF ToldInv
<1>14. EndInv'
  <2>1. writer = "done" => outbox' = <<>>
    BY <1>4 DEF Grown, EndInv
  <2> QED
    BY <1>1, <2>1 DEF EndInv, AllOver, Over
<1>15. AnsweredInv'
  <2>1. \A c \in 1..Len(calls) : HasReply(c) => HasReply(c)'
    BY <1>1, <1>4, <1>6, GrownReplies
  <2> QED
    BY <1>1, <2>1 DEF AnsweredInv, Owed, Over
<1> QED
  BY <1>7, <1>8, <1>9, <1>10, <1>11, <1>12, <1>13, <1>14, <1>15

(* A cancellation: the requests of the current session with this id.       *)
LEMMA StepCancel ==
  ASSUME IInv, NEW m \in Messages, CancelFrom(m), UNCHANGED manyThreads
  PROVE  IInv'
<1> USE DEF IInv
<1> DEFINE T == InFlight(session, m.target)
           N == Named(session, m.target)
<1>1. /\ lines' = lines + 1 /\ lines \in Nat /\ lines' \in 0..MaxLines
      /\ UNCHANGED <<reader, drained, eof, outClosed, writer, written, outbox, holder, inFlight, session, ended>>
      /\ told' = told \cup N /\ Cancel(T)
  BY BoundsAssumption DEF CancelFrom, ReadLine, ShapeInv
<1>2. T \subseteq N /\ N \subseteq 1..Len(calls) /\ \A c \in T : InDispatch(c) /\ HasScope(calls[c].msg)
  BY Basics DEF InFlight, Named
<1> HIDE DEF T, N
<1>3. CancelledOnly(T)
  BY <1>1, CancelMarks
<1>4. KeptCalls
  BY <1>3 DEF CancelledOnly, KeptCalls
<1>5. \A d \in 1..Len(calls) : calls'[d].st = calls[d].st
  BY <1>3 DEF CancelledOnly
<1>6. SettledStay
  <2>1. \A d \in 1..Len(calls) : Settled(calls[d]) => d \notin T
    BY <1>2 DEF Settled, InDispatch
  <2> QED
    BY <1>3, <1>5, <2>1 DEF SettledStay, CancelledOnly, Settled
<1>7. ShapeInv'
  <2>1. told' \subseteq 1..Len(calls')
    BY <1>1, <1>2, <1>4 DEF ShapeInv, KeptCalls
  <2> QED
    BY <1>1, <1>3, <2>1 DEF ShapeInv, CancelledOnly
<1>8. Holding'
  BY <1>1, <1>4, <1>5 DEF Holding, InDispatch, KeptCalls, SameCall
<1>9. Counting'
  BY <1>1, <1>4, <1>5, SameCounting DEF KeptCalls
<1>10. Grown(lines', "none") /\ lines' \in 1..lines'
  BY <1>1 DEF Grown, ShapeInv
<1>11. LinesInv'
  BY <1>1, <1>4, <1>10, GrownLines
<1>12. OnceInv'
  BY <1>1 DEF OnceInv
<1>13. RightInv'
  BY <1>1, <1>4, <1>6, <1>10, GrownRight
<1>14. ToldInv'
  <2> SUFFICES ASSUME NEW c \in 1..Len(calls), calls'[c].cancelled
               PROVE  c \in told' /\ HasScope(calls'[c].msg)
    BY <1>4 DEF ToldInv, KeptCalls
  <2>1. calls'[c].msg = calls[c].msg
    BY <1>4 DEF KeptCalls, SameCall
  <2>2. CASE c \in T
    BY <1>1, <1>2, <2>1, <2>2
  <2>3. CASE c \notin T
    BY <1>1, <1>3, <2>1, <2>3 DEF CancelledOnly, ToldInv
  <2> QED
    BY <2>2, <2>3
<1>15. EndInv'
  BY <1>1, <1>4, <1>5 DEF EndInv, AllOver, Over, KeptCalls
<1>16. AnsweredInv'
  <2>1. \A c \in 1..Len(calls) : HasReply(c) => HasReply(c)'
    BY <1>1, <1>4, <1>10, GrownReplies
  <2>2. \A c \in 1..Len(calls) : Owed(c)' => Owed(c)
    BY <1>1, <1>4, <1>5 DEF Owed, Over, KeptCalls, SameCall
  <2> QED
    BY <1>1, <1>4, <2>1, <2>2 DEF AnsweredInv, KeptCalls
<1> QED
  BY <1>7, <1>8, <1>9, <1>11, <1>12, <1>13, <1>14, <1>15, <1>16

(* A call is spawned.                                                      *)
LEMMA StepSpawn ==
  ASSUME IInv, NEW m \in Messages, Spawn(m), UNCHANGED manyThreads
  PROVE  IInv'
<1> USE DEF IInv
<1> DEFINE n == Len(calls)
           k == [msg |-> m, session |-> session, line |-> lines', st |-> "waiting", cancelled |-> FALSE,
                 reply |-> "none"]
<1>1. /\ reader = "reading" /\ lines' = lines + 1 /\ lines \in Nat /\ lines' \in 0..MaxLines
      /\ UNCHANGED <<reader, drained, eof, outClosed, writer, written, outbox, holder, session, ended, told>>
      /\ inFlight' = inFlight + 1
      /\ calls' = Append(calls, k)
  BY BoundsAssumption DEF Spawn, ReadLine, ShapeInv
<1>2. k \in Call
  BY <1>1, BoundsAssumption DEF Spawn, Call, Statuses, ShapeInv, Sessions
<1>3. Spawned(k)
  BY <1>1, <1>2, AppendSpawns
<1>4. k.msg = m /\ k.session = session /\ k.line = lines' /\ k.st = "waiting" /\ k.cancelled = FALSE
  OBVIOUS
<1> HIDE DEF k
<1>5. /\ n \in Nat /\ Len(calls') = n + 1 /\ calls'[n + 1] = k
      /\ \A d \in 1..n : calls'[d] = calls[d]
  BY <1>3, Basics DEF Spawned
<1>6. \A d \in 1..n + 1 : d \in 1..n \/ d = n + 1
  BY <1>5
<1>7. \A d \in 1..n : d \in 1..n + 1
  BY <1>5
<1>8. n + 1 \in 1..n + 1 /\ n + 1 \notin 1..n /\ n + 1 # 0
  BY <1>5
<1>9. ShapeInv'
  <2>1. told \subseteq 1..n + 1
    BY <1>7 DEF ShapeInv
  <2> QED
    BY <1>1, <1>3, <1>5, <2>1 DEF ShapeInv, Spawned
<1>10. Holding'
  <2>1. \A d \in 1..n : calls'[d].st \in {"running", "decided"} <=> holder'[calls'[d].session] = d
    BY <1>1, <1>5 DEF Holding, InDispatch
  <2>2. calls'[n + 1].st \notin {"running", "decided"} /\ calls'[n + 1].session = session
    BY <1>4, <1>5
  <2>3. \A s \in Sessions : holder'[s] \in 0..n + 1 /\ holder'[s] # n + 1
    BY <1>1, <1>5 DEF Holding
  <2>4. session \in Sessions
    BY <1>2, <1>4 DEF Call
  <2> QED
    <3>1. \A d \in 1..n + 1 : calls'[d].st \in {"running", "decided"} <=> holder'[calls'[d].session] = d
      BY <1>6, <2>1, <2>2, <2>3, <2>4, Zenon
    <3> QED
      BY <1>5, <2>3, <3>1 DEF Holding, InDispatch
<1>11. Counting'
  <2>1. Pending' = Pending \cup {n + 1}
    <3>1. \A d \in 1..n : d \in Pending' <=> d \in Pending
      BY <1>5, <1>7 DEF Pending
    <3>2. n + 1 \in Pending'
      BY <1>4, <1>5, <1>8 DEF Pending
    <3>3. Pending \subseteq 1..n /\ Pending' \subseteq 1..n + 1
      BY <1>5 DEF Pending
    <3> QED
      BY <1>6, <3>1, <3>2, <3>3, Zenon
  <2>2. n + 1 \notin Pending
    BY <1>8 DEF Pending
  <2>3. Cardinality(Pending \cup {n + 1}) = Cardinality(Pending) + 1
    BY <2>2, PendingFinite, FS_AddElement
  <2> QED
    BY <1>1, <2>1, <2>3 DEF Counting
<1>12. LinesInv'
  <2>1. \A x \in 1..lines : x \in 1..lines' /\ x # lines'
    BY <1>1
  <2>2. lines' \in 1..lines'
    BY <1>1
  <2>3. \A d \in 1..n : calls'[d].line \in 1..lines
    BY <1>5 DEF LinesInv
  <2>4. \A c, d \in 1..n : calls'[c].line = calls'[d].line => c = d
    BY <1>5 DEF LinesInv
  <2>5. calls'[n + 1].line = lines'
    BY <1>4, <1>5
  <2>6. \A c \in 1..n + 1 : calls'[c].line \in 1..lines'
    BY <1>6, <2>1, <2>2, <2>3, <2>5, Zenon
  <2>7. \A c, d \in 1..n + 1 : calls'[c].line = calls'[d].line => c = d
    BY <1>6, <2>1, <2>3, <2>4, <2>5, Zenon
  <2>8. /\ \A i \in 1..Len(outbox) : outbox[i].line \in 1..lines'
        /\ \A i \in 1..Len(written) : written[i].line \in 1..lines'
    BY <2>1 DEF LinesInv
  <2> QED
    BY <1>1, <1>5, <2>6, <2>7, <2>8 DEF LinesInv
<1>13. OnceInv'
  BY <1>1 DEF OnceInv
<1>14. RightInv'
  <2>1. \A d \in 1..n : /\ \A i \in 1..Len(outbox) : Right(calls'[d], outbox[i], manyThreads)
                        /\ \A i \in 1..Len(written) : Right(calls'[d], written[i], manyThreads)
    BY <1>5 DEF RightInv
  <2>2. \A x \in 1..lines : x # lines'
    BY <1>1
  <2>3. /\ \A i \in 1..Len(outbox) : outbox[i].line # lines'
        /\ \A i \in 1..Len(written) : written[i].line # lines'
    BY <2>2 DEF LinesInv
  <2>4. /\ \A i \in 1..Len(outbox) : Right(calls'[n + 1], outbox[i], manyThreads)
        /\ \A i \in 1..Len(written) : Right(calls'[n + 1], written[i], manyThreads)
    BY <1>4, <1>5, <2>3 DEF Right
  <2> QED
    BY <1>1, <1>5, <1>6, <2>1, <2>4, Zenon DEF RightInv
<1>15. ToldInv'
  <2>1. \A d \in 1..n : calls'[d].cancelled => d \in told' /\ HasScope(calls'[d].msg)
    BY <1>1, <1>5 DEF ToldInv
  <2>2. ~calls'[n + 1].cancelled
    BY <1>4, <1>5
  <2> QED
    BY <1>5, <1>6, <2>1, <2>2, Zenon DEF ToldInv
<1>16. EndInv'
  <2>1. ~manyThreads => ~drained /\ \A d \in 1..n : calls'[d].st \notin {"decided", "left", "last"}
    BY <1>1, <1>5 DEF EndInv
  <2>2. calls'[n + 1].st \notin {"decided", "left", "last"}
    BY <1>4, <1>5
  <2>3. ~manyThreads' => \A d \in 1..Len(calls') : calls'[d].st \notin {"decided", "left", "last"}
    BY <1>5, <1>6, <2>1, <2>2, Zenon
  <2> QED
    BY <1>1, <2>1, <2>3 DEF EndInv
<1>17. AnsweredInv'
  <2> SUFFICES ASSUME ~manyThreads, writer # "failed", NEW c \in 1..n + 1, Owed(c)'
               PROVE  HasReply(c)'
    BY <1>1, <1>5 DEF AnsweredInv
  <2>1. c # n + 1
    BY <1>4, <1>5 DEF Owed, Over
  <2>2. c \in 1..n
    BY <1>6, <2>1
  <2>3. Owed(c)
    BY <1>1, <1>5, <2>2 DEF Owed, Over
  <2>4. HasReply(c)
    BY <2>2, <2>3 DEF AnsweredInv
  <2> QED
    BY <1>1, <1>5, <2>2, <2>4 DEF HasReply
<1> QED
  BY <1>9, <1>10, <1>11, <1>12, <1>13, <1>14, <1>15, <1>16, <1>17

(* A call gets its session's lock.                                         *)
LEMMA StepLock ==
  ASSUME IInv, NEW c \in 1..Len(calls), Lock(c), UNCHANGED manyThreads
  PROVE  IInv'
<1> USE DEF IInv
<1>1. /\ calls[c].st = "waiting" /\ holder[calls[c].session] = 0
      /\ holder' = [holder EXCEPT ![calls[c].session] = c]
      /\ UNCHANGED <<lines, session, ended, reader, inFlight, eof, drained, outbox, outClosed, writer, written, told>>
  BY DEF Lock, MayLock, readVars, drainVars, outVars
<1>2. Moved(c, "running")
  BY ToMoves DEF Lock, Statuses
<1>3. c \in Nat /\ c # 0 /\ c \in 0..Len(calls) /\ calls[c].session \in Sessions /\ holder \in [Sessions -> Nat]
  <2>1. Len(calls) \in Nat /\ calls[c] \in Call
    BY Basics
  <2>2. holder \in [Sessions -> Nat] /\ calls[c].session \in Sessions
    BY <2>1 DEF ShapeInv, Call
  <2>3. \A n \in Nat : c \in 1..n => c \in Nat /\ c # 0 /\ c \in 0..n
    OBVIOUS
  <2> QED
    BY <2>1, <2>2, <2>3
<1>4. /\ holder'[calls[c].session] = c
      /\ \A s \in Sessions : s # calls[c].session => holder'[s] = holder[s]
      /\ holder' \in [Sessions -> Nat]
  BY <1>1, <1>3
<1>5. KeptCalls /\ Len(calls') = Len(calls)
  BY <1>2 DEF Moved, KeptCalls
<1>6. \A d \in 1..Len(calls) : d # c => calls'[d].st = calls[d].st
  BY <1>2 DEF Moved
<1>7. calls'[c].st = "running"
  BY <1>2 DEF Moved
<1>8. SettledStay
  BY <1>1, <1>2, <1>6 DEF SettledStay, Settled, Moved
<1>9. ShapeInv'
  BY <1>1, <1>2, <1>4 DEF ShapeInv, Moved
<1>10. Holding'
  <2>1. \A s \in Sessions : holder'[s] \in 0..Len(calls')
    BY <1>3, <1>4, <1>5 DEF Holding
  <2>2. ASSUME NEW d \in 1..Len(calls)
        PROVE  InDispatch(d)' <=> holder'[calls'[d].session] = d
    <3>1. calls'[d].session = calls[d].session /\ calls[d].session \in Sessions
      BY <1>5, Basics DEF KeptCalls, SameCall, Call
    <3>2. CASE d = c
      BY <1>4, <1>7, <3>1, <3>2 DEF InDispatch
    <3>3. CASE d # c /\ calls[d].session = calls[c].session
      <4>1. ~InDispatch(d)
        BY <1>1, <1>3, <3>3 DEF Holding
      <4> QED
        BY <1>4, <1>6, <3>1, <3>3, <4>1 DEF InDispatch
    <3>4. CASE d # c /\ calls[d].session # calls[c].session
      BY <1>4, <1>6, <3>1, <3>4 DEF Holding, InDispatch
    <3> QED
      BY <3>2, <3>3, <3>4
  <2> QED
    BY <1>5, <2>1, <2>2 DEF Holding
<1>11. Counting'
  <2>1. \A d \in 1..Len(calls) : calls'[d].st \in {"last", "done"} <=> calls[d].st \in {"last", "done"}
    BY <1>1, <1>6, <1>7
  <2> QED
    BY <1>1, <1>5, <2>1, SameCounting
<1>12. LinesInv'
  BY <1>1, <1>5 DEF LinesInv, KeptCalls, SameCall
<1>13. OnceInv'
  BY <1>1 DEF OnceInv
<1>14. RightInv'
  BY <1>1, <1>5, <1>8, SettledRight DEF RightInv
<1>15. ToldInv'
  BY <1>1, <1>2, <1>5 DEF ToldInv, Moved, SameCall
<1>16. EndInv'
  <2>1. ~AllOver
    BY <1>1 DEF AllOver, Over
  <2>2. ~manyThreads => \A d \in 1..Len(calls') : calls'[d].st \notin {"decided", "left", "last"}
    BY <1>5, <1>6, <1>7 DEF EndInv
  <2> QED
    BY <1>1, <2>1, <2>2 DEF EndInv
<1>17. AnsweredInv'
  <2>1. \A d \in 1..Len(calls) : Owed(d)' => Owed(d) /\ d # c
    BY <1>1, <1>5, <1>6, <1>7 DEF Owed, Over, KeptCalls, SameCall
  <2>2. \A d \in 1..Len(calls) : HasReply(d) => HasReply(d)'
    BY <1>1, <1>5 DEF HasReply, KeptCalls, SameCall
  <2> QED
    BY <1>1, <1>5, <2>1, <2>2 DEF AnsweredInv
<1> QED
  BY <1>9, <1>10, <1>11, <1>12, <1>13, <1>14, <1>15, <1>16, <1>17

(* A call leaves dispatch() and releases the lock.                         *)
LEMMA Releases ==
  ASSUME ShapeInv, Holding, NEW c \in 1..Len(calls), InDispatch(c), NEW st \in Statuses, st \notin {"running", "decided"}, Moved(c, st),
         holder' = [holder EXCEPT ![calls[c].session] = 0]
  PROVE  holder' \in [Sessions -> Nat] /\ Holding'
<1>1. c # 0 /\ calls[c].session \in Sessions /\ holder \in [Sessions -> Nat]
  <2>1. calls[c] \in Call /\ c # 0
    BY Basics
  <2> QED
    BY <2>1 DEF ShapeInv, Call
<1>2. /\ holder'[calls[c].session] = 0
      /\ \A s \in Sessions : s # calls[c].session => holder'[s] = holder[s]
      /\ holder' \in [Sessions -> Nat]
  BY <1>1
<1>3. \A s \in Sessions : holder'[s] \in 0..Len(calls')
  BY <1>1, <1>2, Basics DEF Holding, Moved
<1>4. ASSUME NEW d \in 1..Len(calls)
      PROVE  InDispatch(d)' <=> holder'[calls'[d].session] = d
  <2>1. calls'[d].session = calls[d].session /\ calls[d].session \in Sessions /\ d # 0
    BY Basics DEF Moved, SameCall, Call
  <2>2. CASE d = c
    BY <1>1, <1>2, <2>1, <2>2 DEF InDispatch, Moved
  <2>3. CASE d # c /\ calls[d].session = calls[c].session
    <3>1. ~InDispatch(d)
      BY <2>3 DEF Holding
    <3> QED
      BY <1>2, <2>1, <2>3, <3>1 DEF InDispatch, Moved
  <2>4. CASE d # c /\ calls[d].session # calls[c].session
    BY <1>2, <2>1, <2>4 DEF Holding, InDispatch, Moved
  <2> QED
    BY <2>2, <2>3, <2>4
<1> QED
  BY <1>2, <1>3, <1>4 DEF Holding, Moved

(* A call ends with an exception nobody catches.                           *)
LEMMA StepThrow ==
  ASSUME IInv, NEW c \in 1..Len(calls), Throw(c), UNCHANGED manyThreads
  PROVE  IInv'
<1> USE DEF IInv
<1>1. /\ calls[c].st = "running"
      /\ holder' = [holder EXCEPT ![calls[c].session] = 0]
      /\ UNCHANGED <<lines, session, ended, reader, inFlight, eof, drained, outbox, outClosed, writer, written, told>>
  BY DEF Throw, Running, readVars, drainVars, outVars
<1>2. Moved(c, "thrown")
  BY ToMoves DEF Throw, Statuses
<1>3. KeptCalls /\ Len(calls') = Len(calls)
  BY <1>2 DEF Moved, KeptCalls
<1>4. calls'[c].st = "thrown" /\ \A d \in 1..Len(calls) : d # c => calls'[d].st = calls[d].st
  BY <1>2 DEF Moved
<1>5. SettledStay
  BY <1>1, <1>2, <1>4 DEF SettledStay, Settled, Moved
<1>6. holder' \in [Sessions -> Nat] /\ Holding'
  BY <1>1, <1>2, Releases DEF InDispatch, Statuses
<1>7. ShapeInv'
  BY <1>1, <1>2, <1>6 DEF ShapeInv, Moved
<1>8. Counting'
  <2>1. \A d \in 1..Len(calls) : calls'[d].st \in {"last", "done"} <=> calls[d].st \in {"last", "done"}
    BY <1>1, <1>4
  <2> QED
    BY <1>1, <1>3, <2>1, SameCounting
<1>9. LinesInv'
  BY <1>1, <1>3 DEF LinesInv, KeptCalls, SameCall
<1>10. OnceInv'
  BY <1>1 DEF OnceInv
<1>11. RightInv'
  BY <1>1, <1>3, <1>5, SettledRight DEF RightInv
<1>12. ToldInv'
  BY <1>1, <1>2, <1>3 DEF ToldInv, Moved, SameCall
<1>13. EndInv'
  <2>1. ~AllOver
    BY <1>1 DEF AllOver, Over
  <2>2. ~manyThreads => \A d \in 1..Len(calls') : calls'[d].st \notin {"decided", "left", "last"}
    BY <1>3, <1>4 DEF EndInv
  <2> QED
    BY <1>1, <2>1, <2>2 DEF EndInv
<1>14. AnsweredInv'
  <2>1. \A d \in 1..Len(calls) : Owed(d)' => Owed(d) /\ d # c
    BY <1>1, <1>3, <1>4 DEF Owed, Over, KeptCalls, SameCall
  <2>2. \A d \in 1..Len(calls) : HasReply(d) => HasReply(d)'
    BY <1>1, <1>3 DEF HasReply, KeptCalls, SameCall
  <2> QED
    BY <1>1, <1>3, <2>1, <2>2 DEF AnsweredInv
<1> QED
  BY <1>6, <1>7, <1>8, <1>9, <1>10, <1>11, <1>12, <1>13, <1>14

(* A call that is over has its reply sent, and is counted down.            *)
LEMMA CountsDown ==
  ASSUME IInv, manyThreads' = manyThreads, NEW c \in 1..Len(calls), calls[c].st \in {"running", "left"},
         NEW st \in {"last", "done"}, To(c, st),
         NEW reply \in Answers \cup {"none"}, Send(calls[c].line, reply), inFlight' = inFlight - 1,
         UNCHANGED <<lines, outClosed, written, told>>,
         \A o : reply # "none" /\ o.line = calls[c].line /\ o.reply = reply => Right(calls'[c], o, manyThreads)
  PROVE  /\ Moved(c, st) /\ KeptCalls /\ Grown(calls[c].line, reply)
         /\ Counting' /\ LinesInv' /\ OnceInv' /\ RightInv' /\ ToldInv'
         /\ Pending' = Pending \ {c} /\ c \in Pending
<1> USE DEF IInv
<1> DEFINE n == Len(calls)
           line == calls[c].line
<1>1. calls[c] \in Call /\ line \in Nat /\ line \in 1..lines /\ n \in Nat
  BY Basics DEF Call, LinesInv
<1>2. Moved(c, st)
  BY ToMoves DEF Statuses
<1>3. Grown(line, reply)
  BY <1>1, SendGrows
<1>4. Fresh(line)
  BY DEF Fresh, RightInv, Right
<1>5. KeptCalls /\ Len(calls') = n
  BY <1>2 DEF Moved, KeptCalls
<1>6. calls'[c].st = st /\ \A d \in 1..n : d # c => calls'[d].st = calls[d].st
  BY <1>2 DEF Moved
<1>7. \A d \in 1..n : calls'[d].cancelled = calls[d].cancelled
  BY <1>2 DEF Moved
<1>8. SettledStay
  BY <1>6, <1>7 DEF SettledStay, Settled
<1>9. Pending' = Pending \ {c} /\ c \in Pending
  <2>1. \A d \in 1..n : d # c => (d \in Pending' <=> d \in Pending)
    BY <1>5, <1>6 DEF Pending
  <2>2. c \notin Pending' /\ c \in Pending
    BY <1>6 DEF Pending
  <2>3. Pending \subseteq 1..n /\ Pending' \subseteq 1..n
    BY <1>5 DEF Pending
  <2> QED
    BY <2>1, <2>2, <2>3, Zenon
<1>10. Counting'
  <2>1. Cardinality(Pending \ {c}) = Cardinality(Pending) - 1
    BY <1>9, PendingFinite, FS_RemoveElement
  <2> QED
    BY <1>9, <2>1 DEF Counting
<1>11. LinesInv'
  BY <1>1, <1>3, <1>5, GrownLines
<1>12. OnceInv'
  BY <1>3, <1>4, GrownOnce
<1>13. RightInv'
  <2>1. ASSUME NEW d \in 1..n, NEW o, o.line = line, o.reply = reply, reply # "none"
        PROVE  Right(calls'[d], o, manyThreads)
    <3>1. CASE d = c
      BY <2>1, <3>1
    <3>2. CASE d # c
      <4>1. calls'[d].line # line
        BY <1>5, <3>2 DEF KeptCalls, SameCall, LinesInv
      <4> QED
        BY <2>1, <4>1 DEF Right
    <3> QED
      BY <3>1, <3>2
  <2> QED
    BY <1>3, <1>5, <1>8, <2>1, GrownRight
<1>14. ToldInv'
  BY <1>5, <1>7 DEF ToldInv, KeptCalls, SameCall
<1> QED
  BY <1>2, <1>3, <1>5, <1>9, <1>10, <1>11, <1>12, <1>13, <1>14

(* What ReplyOf() gives a call.                                            *)
LEMMA Decided ==
  ASSUME IInv, NEW c \in 1..Len(calls)
  PROVE  LET reply == ReplyOf(calls[c])
         IN /\ reply \in Answers \cup {"none"}
            /\ calls[c].cancelled /\ reply # "none" => calls[c].msg.method = "custom" /\ reply = RequestCancelled
            /\ ~calls[c].cancelled /\ ExpectsAnswer(calls[c].msg) => reply # "none"
            /\ IsNotification(calls[c].msg) /\ reply # "none" => SkipsLastStatement(calls[c].msg, Place(TRUE, TRUE))
<1>1. WellFormed(calls[c].msg) /\ calls[c].cancelled \in BOOLEAN
  BY MessagesAssumption, Basics DEF Call, IInv
<1>2. ReplyOf(calls[c]) = Reply(calls[c].msg, calls[c].cancelled, Place(TRUE, calls[c].session \notin ended))
  BY DEF ReplyOf
<1>3. calls[c].cancelled => HasScope(calls[c].msg)
  BY DEF ToldInv, IInv
<1> QED
  BY <1>1, <1>2, <1>3, CallReplies

(* A call ends on one thread.                                              *)
LEMMA StepReply ==
  ASSUME IInv, NEW c \in 1..Len(calls), Finish(c), UNCHANGED manyThreads
  PROVE  IInv'
<1> USE DEF IInv
<1> DEFINE n == Len(calls)
           line == calls[c].line
           reply == ReplyOf(calls[c])
<1>1. /\ ~manyThreads /\ calls[c].st = "running"
      /\ holder' = [holder EXCEPT ![calls[c].session] = 0]
      /\ UNCHANGED <<lines, session, ended, reader, eof, outClosed, writer, written, told>>
      /\ Send(line, reply) /\ inFlight' = inFlight - 1 /\ To(c, "done")
      /\ drained' = (drained \/ (IsLast /\ eof))
  BY DEF Finish, Running, readVars
<1>2. /\ reply \in Answers \cup {"none"}
      /\ calls[c].cancelled /\ reply # "none" => calls[c].msg.method = "custom" /\ reply = RequestCancelled
      /\ ~calls[c].cancelled /\ ExpectsAnswer(calls[c].msg) => reply # "none"
      /\ IsNotification(calls[c].msg) /\ reply # "none" => SkipsLastStatement(calls[c].msg, Place(TRUE, TRUE))
  BY Decided
<1> HIDE DEF reply
<1>3. Moved(c, "done")
  BY <1>1, ToMoves DEF Statuses
<1>4. \A o : reply # "none" /\ o.line = line /\ o.reply = reply => Right(calls'[c], o, manyThreads)
  <2>1. calls'[c].msg = calls[c].msg /\ calls'[c].cancelled = calls[c].cancelled /\ calls'[c].st = "done"
    BY <1>3 DEF Moved, SameCall
  <2> QED
    BY <1>2, <2>1 DEF Right
<1>5. /\ KeptCalls /\ Grown(line, reply)
      /\ Counting' /\ LinesInv' /\ OnceInv' /\ RightInv' /\ ToldInv'
      /\ Pending' = Pending \ {c} /\ c \in Pending
  BY <1>1, <1>2, <1>4, CountsDown
<1>6. Len(calls') = n /\ calls'[c].st = "done" /\ \A d \in 1..n : d # c => calls'[d].st = calls[d].st
  BY <1>3 DEF Moved
<1>7. holder' \in [Sessions -> Nat] /\ Holding'
  BY <1>1, <1>3, Releases DEF InDispatch, Statuses
<1>8. ShapeInv'
  <2>1. drained' \in BOOLEAN
    BY <1>1
  <2>2. outbox' \in Seq(Output)
    BY <1>5 DEF Grown
  <2> QED
    BY <1>1, <1>3, <1>7, <2>1, <2>2 DEF ShapeInv, Moved
<1>9. ~AllOver
  BY <1>1 DEF AllOver, Over
<1>10. EndInv'
  <2>1. writer = "done" => outbox' = <<>>
    BY <1>5 DEF Grown, EndInv
  <2>2. ~drained /\ \A d \in 1..n : calls[d].st \notin {"decided", "left", "last"}
    BY <1>1, <1>9 DEF EndInv
  <2>3. \A d \in 1..Len(calls') : calls'[d].st \notin {"decided", "left", "last"}
    BY <1>6, <2>2
  <2>4. ASSUME drained'
        PROVE  eof' /\ AllOver'
    <3>1. inFlight = 1 /\ eof
      BY <1>1, <2>2, <2>4 DEF IsLast
    <3>2. Pending' = {}
      <4>1. Cardinality(Pending \ {c}) = 0
        BY <1>1, <1>5, <3>1 DEF Counting
      <4>2. IsFiniteSet(Pending \ {c})
        BY PendingFinite, FS_RemoveElement
      <4> QED
        BY <1>5, <4>1, <4>2, FS_EmptySet
    <3>3. ASSUME NEW d \in 1..n
          PROVE  calls'[d].st = "done"
      <4>1. calls'[d].st \in {"last", "done"}
        BY <1>6, <3>2 DEF Pending
      <4> QED
        BY <1>6, <2>3, <4>1
    <3> QED
      BY <1>1, <1>6, <3>1, <3>3 DEF AllOver, Over
  <2> QED
    BY <1>1, <1>9, <2>1, <2>3, <2>4 DEF EndInv
<1>11. AnsweredInv'
  <2> SUFFICES ASSUME writer # "failed", NEW d \in 1..n, Owed(d)'
               PROVE  HasReply(d)'
    BY <1>1, <1>6 DEF AnsweredInv
  <2>1. CASE d # c
    <3>1. Owed(d)
      BY <1>1, <1>5, <1>6, <2>1 DEF Owed, Over, KeptCalls, SameCall
    <3> QED
      BY <1>1, <1>5, <3>1, GrownReplies DEF AnsweredInv
  <2>2. CASE d = c
    <3>1. c \notin told /\ ExpectsAnswer(calls[c].msg)
      BY <1>1, <1>5, <2>2 DEF Owed, KeptCalls, SameCall
    <3>2. reply # "none"
      <4>1. ~calls[c].cancelled
        BY <3>1 DEF ToldInv
      <4> QED
        BY <1>2, <3>1, <4>1
    <3>3. ~outClosed
      BY <1>1, <1>9 DEF EndInv
    <3>4. Len(outbox') = Len(outbox) + 1 /\ outbox'[Len(outbox) + 1].line = line
      BY <1>5, <3>2, <3>3 DEF Grown
    <3>5. calls'[c].line = line
      BY <1>5 DEF KeptCalls, SameCall
    <3>6. Len(outbox) + 1 \in 1..Len(outbox')
      BY <3>4, Basics
    <3> QED
      BY <2>2, <3>4, <3>5, <3>6 DEF HasReply
  <2> QED
    BY <2>1, <2>2
<1> QED
  BY <1>5, <1>7, <1>8, <1>10, <1>11

(* Where several threads run, a call that goes from one of its states to   *)
(* another before it is counted down.                                      *)
LEMMA OnItsWay ==
  ASSUME IInv, manyThreads, UNCHANGED manyThreads, NEW c \in 1..Len(calls), NEW st \in Statuses, Moved(c, st),
         calls[c].st \notin {"last", "done"}, st \notin {"last", "done"},
         UNCHANGED <<lines, session, ended, reader, inFlight, eof, drained, outbox, outClosed, writer, written, told>>,
         holder' \in [Sessions -> Nat], Holding'
  PROVE  IInv'
<1> USE DEF IInv
<1>1. KeptCalls /\ Len(calls') = Len(calls)
  BY DEF Moved, KeptCalls
<1>2. calls'[c].st = st /\ \A d \in 1..Len(calls) : d # c => calls'[d].st = calls[d].st
  BY DEF Moved
<1>3. SettledStay
  BY <1>2 DEF SettledStay, Settled, Moved
<1>4. ShapeInv'
  BY DEF ShapeInv, Moved
<1>5. Counting'
  <2>1. \A d \in 1..Len(calls) : calls'[d].st \in {"last", "done"} <=> calls[d].st \in {"last", "done"}
    BY <1>2
  <2> QED
    BY <1>1, <2>1, SameCounting
<1>6. LinesInv'
  BY <1>1 DEF LinesInv, KeptCalls, SameCall
<1>7. OnceInv'
  BY DEF OnceInv
<1>8. RightInv'
  BY <1>1, <1>3, SettledRight DEF RightInv
<1>9. ToldInv'
  BY <1>1 DEF ToldInv, Moved, SameCall
<1>10. EndInv' /\ AnsweredInv'
  BY DEF EndInv, AnsweredInv
<1> QED
  BY <1>4, <1>5, <1>6, <1>7, <1>8, <1>9, <1>10

(* A call decides on its reply.                                            *)
LEMMA StepDecide ==
  ASSUME IInv, NEW c \in 1..Len(calls), Decide(c), UNCHANGED manyThreads
  PROVE  IInv'
<1> DEFINE n == Len(calls)
           reply == ReplyOf(calls[c])
           t == [calls EXCEPT ![c].st = "decided", ![c].reply = reply]
<1>1. /\ manyThreads /\ calls[c].st = "running" /\ calls' = t
      /\ UNCHANGED <<lines, session, ended, reader, holder, inFlight, eof, drained, outbox, outClosed, writer,
                     written, told>>
  BY DEF Decide, Running, readVars, drainVars, outVars
<1>2. reply \in Answers \cup {"none"}
  BY Decided
<1> HIDE DEF reply
<1>3. n \in Nat /\ calls \in [1..n -> Call] /\ c \in 1..n /\ calls[c] \in Call
  BY Basics DEF IInv
<1>4. Moved(c, "decided")
  <2>1. t \in [1..n -> Call]
    BY <1>2, <1>3 DEF Call, Statuses
  <2>2. \A d \in 1..n : d # c => t[d] = calls[d]
    BY <1>3
  <2>3. SameCall(t[c], calls[c]) /\ t[c].cancelled = calls[c].cancelled /\ t[c].st = "decided"
    <3>1. t[c] = [calls[c] EXCEPT !.st = "decided", !.reply = reply]
      BY <1>3
    <3> QED
      BY <1>3, <3>1 DEF Call, SameCall
  <2> HIDE DEF t, n
  <2>4. t \in Seq(Call) /\ Len(t) = n
    BY <1>3, <2>1
  <2>5. \A d \in 1..n : SameCall(t[d], calls[d]) /\ t[d].cancelled = calls[d].cancelled
    BY <2>2, <2>3, Zenon DEF SameCall
  <2>6. \A d \in 1..n : d # c => t[d].st = calls[d].st
    BY <2>2
  <2> QED
    BY <1>1, <2>3, <2>4, <2>5, <2>6 DEF Moved, n
<1>5. holder' \in [Sessions -> Nat] /\ Holding'
  <2>1. InDispatch(c) /\ InDispatch(c)'
    BY <1>1, <1>4 DEF InDispatch, Moved
  <2>2. \A d \in 1..n : d # c => (InDispatch(d)' <=> InDispatch(d))
    BY <1>4 DEF InDispatch, Moved
  <2>3. \A d \in 1..n : InDispatch(d)' <=> holder[calls[d].session] = d
    BY <2>1, <2>2 DEF Holding, IInv
  <2>4. holder \in [Sessions -> Nat] /\ \A s \in Sessions : holder[s] \in 0..n
    BY DEF IInv, ShapeInv, Holding
  <2> QED
    BY <1>1, <1>4, <2>3, <2>4 DEF Holding, Moved, SameCall
<1> QED
  BY <1>1, <1>4, <1>5, OnItsWay DEF Statuses

(* A call leaves the table of requests, and its session's lock.            *)
LEMMA StepLeave ==
  ASSUME IInv, NEW c \in 1..Len(calls), LeaveTable(c), UNCHANGED manyThreads
  PROVE  IInv'
<1>1. /\ calls[c].st = "decided" /\ holder' = [holder EXCEPT ![calls[c].session] = 0]
      /\ UNCHANGED <<lines, session, ended, reader, inFlight, eof, drained, outbox, outClosed, writer, written, told>>
  BY DEF LeaveTable, readVars, drainVars, outVars
<1>2. Moved(c, "left")
  BY ToMoves DEF LeaveTable, Statuses, IInv
<1>3. manyThreads
  BY <1>1 DEF IInv, EndInv, ShapeInv
<1>4. holder' \in [Sessions -> Nat] /\ Holding'
  BY <1>1, <1>2, Releases DEF InDispatch, Statuses, IInv
<1> QED
  BY <1>1, <1>2, <1>3, <1>4, OnItsWay DEF Statuses

(* Its reply is sent, and it is counted down.                              *)
LEMMA StepAnswer ==
  ASSUME IInv, NEW c \in 1..Len(calls), Answer(c), UNCHANGED manyThreads
  PROVE  IInv'
<1> USE DEF IInv
<1> DEFINE st == IF IsLast THEN "last" ELSE "done"
           reply == calls[c].reply
<1>1. /\ calls[c].st = "left" /\ Send(calls[c].line, reply) /\ inFlight' = inFlight - 1 /\ To(c, st)
      /\ UNCHANGED <<lines, session, ended, reader, holder, eof, drained, outClosed, writer, written, told>>
  BY DEF Answer, readVars
<1>2. manyThreads
  BY <1>1 DEF EndInv, ShapeInv
<1>3. st \in {"last", "done"} /\ st \in Statuses
  BY DEF Statuses
<1>4. reply \in Answers \cup {"none"}
  BY Basics DEF Call
<1> HIDE DEF st, reply
<1>5. Moved(c, st)
  BY <1>1, <1>3, ToMoves
<1>6. \A o : reply # "none" /\ o.line = calls[c].line /\ o.reply = reply => Right(calls'[c], o, manyThreads)
  BY <1>2, <1>3, <1>5 DEF Moved, Right
<1>7. /\ KeptCalls /\ Grown(calls[c].line, reply)
      /\ Counting' /\ LinesInv' /\ OnceInv' /\ RightInv' /\ ToldInv'
  BY <1>1, <1>3, <1>4, <1>6, CountsDown
<1>8. ShapeInv'
  BY <1>1, <1>5, <1>7 DEF ShapeInv, Moved, Grown
<1>9. Holding'
  <2>1. ~InDispatch(c) /\ ~InDispatch(c)'
    BY <1>1, <1>3, <1>5 DEF InDispatch, Moved
  <2> QED
    BY <1>1, <1>5, <2>1 DEF Holding, InDispatch, Moved, SameCall
<1>10. EndInv'
  <2>1. writer = "done" => outbox' = <<>>
    BY <1>7 DEF Grown, EndInv
  <2> QED
    BY <1>1, <1>2, <2>1 DEF EndInv
<1>11. AnsweredInv'
  BY <1>2 DEF AnsweredInv
<1> QED
  BY <1>7, <1>8, <1>9, <1>10, <1>11

(* The call that was last looks at the flag; several threads run.          *)
LEMMA StepTell ==
  ASSUME IInv, NEW c \in 1..Len(calls), TellDrained(c), UNCHANGED manyThreads
  PROVE  IInv'
<1> USE DEF IInv
<1>1. /\ calls[c].st = "last" /\ drained' = (drained \/ eof)
      /\ UNCHANGED <<lines, session, ended, reader, holder, inFlight, eof, outbox, outClosed, writer, written, told>>
  BY DEF TellDrained, readVars, outVars
<1>2. Moved(c, "done")
  BY ToMoves DEF TellDrained, Statuses
<1>3. KeptCalls /\ Len(calls') = Len(calls)
  BY <1>2 DEF Moved, KeptCalls
<1>4. calls'[c].st = "done" /\ \A d \in 1..Len(calls) : d # c => calls'[d].st = calls[d].st
  BY <1>2 DEF Moved
<1>5. SettledStay
  BY <1>2, <1>4 DEF SettledStay, Settled, Moved
<1>6. manyThreads /\ manyThreads'
  BY <1>1 DEF EndInv, ShapeInv
<1>7. ShapeInv'
  <2>1. drained' \in BOOLEAN
    BY <1>1
  <2> QED
    BY <1>1, <1>2, <2>1 DEF ShapeInv, Moved
<1>8. Holding'
  <2>1. ~InDispatch(c) /\ ~InDispatch(c)'
    BY <1>1, <1>4 DEF InDispatch
  <2> QED
    BY <1>1, <1>3, <1>4, <2>1 DEF Holding, InDispatch, KeptCalls, SameCall
<1>9. Counting'
  <2>1. \A d \in 1..Len(calls) : calls'[d].st \in {"last", "done"} <=> calls[d].st \in {"last", "done"}
    BY <1>1, <1>4
  <2> QED
    BY <1>1, <1>3, <2>1, SameCounting
<1>10. LinesInv'
  BY <1>1, <1>3 DEF LinesInv, KeptCalls, SameCall
<1>11. OnceInv'
  BY <1>1 DEF OnceInv
<1>12. RightInv'
  BY <1>1, <1>3, <1>5, SettledRight DEF RightInv
<1>13. ToldInv'
  BY <1>1, <1>2, <1>3 DEF ToldInv, Moved, SameCall
<1>14. EndInv'
  BY <1>1, <1>6 DEF EndInv
<1>15. AnsweredInv'
  BY <1>6 DEF AnsweredInv
<1> QED
  BY <1>7, <1>8, <1>9, <1>10, <1>11, <1>12, <1>13, <1>14, <1>15

(* The reply at the head of the queue is written, or nothing is any more.  *)
LEMMA StepWriter ==
  ASSUME IInv, WriterStep, UNCHANGED manyThreads
  PROVE  IInv'
<1> USE DEF IInv
<1>1. /\ writer = "on"
      /\ UNCHANGED <<lines, session, ended, reader, calls, holder, inFlight, eof, drained, outClosed, told>>
  BY DEF WriterStep, readVars, drainVars
<1>2. Holding' /\ Counting' /\ ToldInv'
  BY <1>1 DEF Holding, InDispatch, Counting, Pending, ToldInv
<1>3. CASE outbox = <<>>
  <2>1. writer' = "done" /\ outClosed /\ UNCHANGED <<outbox, written>>
    BY <1>3 DEF WriterStep
  <2>2. ShapeInv' /\ LinesInv' /\ OnceInv' /\ RightInv'
    BY <1>1, <2>1 DEF ShapeInv, LinesInv, OnceInv, RightInv
  <2>3. EndInv'
    BY <1>1, <1>3, <2>1 DEF EndInv, AllOver, Over
  <2>4. AnsweredInv'
    BY <1>1, <2>1 DEF AnsweredInv, Owed, Over, HasReply
  <2> QED
    BY <1>2, <2>2, <2>3, <2>4
<1>4. CASE outbox # <<>>
  <2> DEFINE n == Len(outbox)
             m == Len(written)
             o == outbox[1]
             ob == outbox'
             wr == written'
  <2>1. ob = Tail(outbox) /\ outbox \in Seq(Output) /\ Head(outbox) = o
    BY <1>4 DEF WriterStep, ShapeInv
  <2>2. /\ n \in Nat /\ n >= 1 /\ ob \in Seq(Output) /\ Len(ob) = n - 1
        /\ \A i \in 1..n - 1 : ob[i] = outbox[i + 1]
    BY <1>4, <2>1
  <2>3. /\ \A i \in 1..n - 1 : i + 1 \in 1..n /\ i + 1 # 1
        /\ \A i, j \in 1..n - 1 : i + 1 = j + 1 => i = j
        /\ 1 \in 1..n
    BY <2>2
  <2>4. o \in Output
    BY <2>1, <2>3, Basics
  <2>5. \/ wr = Append(written, o) /\ IsReplyToCall(o) /\ writer' = writer
        \/ wr = written /\ ~IsReplyToCall(o) /\ writer' = writer
        \/ wr = written /\ writer' = "failed"
    BY <1>4, <2>1 DEF WriterStep
  <2>6. written \in Seq(Output) /\ m \in Nat
    BY Basics DEF ShapeInv
  <2>7. /\ wr \in Seq(Output)
        /\ \/ wr = written
           \/ /\ Len(wr) = m + 1 /\ wr[m + 1] = o
              /\ \A j \in 1..m : wr[j] = written[j]
    BY <2>4, <2>5, <2>6
  <2>8. PICK k \in {m, m + 1} : /\ Len(wr) = k
                                /\ \A j \in 1..m : j \in 1..k /\ wr[j] = written[j]
                                /\ \A j \in 1..k : j \in 1..m \/ (j = m + 1 /\ k = m + 1 /\ wr[j] = o)
    <3>1. CASE wr = written
      BY <2>6, <3>1
    <3>2. CASE wr # written
      BY <2>6, <2>7, <3>2
    <3> QED
      BY <3>1, <3>2
  <2>9. /\ \A i, j \in 1..n : outbox[i].line = outbox[j].line => i = j
        /\ \A i, j \in 1..m : written[i].line = written[j].line => i = j
        /\ \A i \in 1..n, j \in 1..m : outbox[i].line # written[j].line
    BY DEF OnceInv
  <2>10. /\ \A i \in 1..n : outbox[i].line \in 1..lines
         /\ \A i \in 1..m : written[i].line \in 1..lines
    BY DEF LinesInv
  <2>11. \A c \in 1..Len(calls) : /\ \A i \in 1..n : Right(calls[c], outbox[i], manyThreads)
                                  /\ \A i \in 1..m : Right(calls[c], written[i], manyThreads)
    BY DEF RightInv
  <2>12. o = outbox[1]
    OBVIOUS
  <2>13. n = Len(outbox) /\ m = Len(written)
    OBVIOUS
  <2> HIDE DEF n, m, o
  <2>14. ShapeInv'
    <3>1. writer' \in {"on", "failed", "done"}
      BY <1>1, <2>5
    <3> QED
      BY <1>1, <2>2, <2>7, <3>1 DEF ShapeInv
  <2>15. LinesInv'
    <3>1. \A i \in 1..n - 1 : ob[i].line \in 1..lines
      BY <2>2, <2>3, <2>10
    <3>2. \A j \in 1..k : wr[j].line \in 1..lines
      BY <2>3, <2>8, <2>10, <2>12, Zenon
    <3> QED
      BY <1>1, <2>2, <2>8, <3>1, <3>2 DEF LinesInv
  <2>16. OnceInv'
    <3>1. \A i, j \in 1..n - 1 : ob[i].line = ob[j].line => i = j
      <4> SUFFICES ASSUME NEW i \in 1..n - 1, NEW j \in 1..n - 1, ob[i].line = ob[j].line
                   PROVE  i = j
        OBVIOUS
      <4>1. outbox[i + 1].line = outbox[j + 1].line /\ i + 1 \in 1..n /\ j + 1 \in 1..n
        BY <2>2, <2>3
      <4>2. i + 1 = j + 1
        BY <2>9, <4>1
      <4> QED
        BY <2>3, <4>2
    <3>2. \A i, j \in 1..k : wr[i].line = wr[j].line => i = j
      <4>1. \A j \in 1..m : o.line # written[j].line
        BY <2>3, <2>9, <2>12
      <4> SUFFICES ASSUME NEW i \in 1..k, NEW j \in 1..k, wr[i].line = wr[j].line
                   PROVE  i = j
        OBVIOUS
      <4>2. CASE i \in 1..m /\ j \in 1..m
        BY <2>8, <2>9, <4>2
      <4>3. CASE i \in 1..m /\ j \notin 1..m
        BY <2>8, <4>1, <4>3
      <4>4. CASE i \notin 1..m /\ j \in 1..m
        BY <2>8, <4>1, <4>4
      <4>5. CASE i \notin 1..m /\ j \notin 1..m
        BY <2>8, <4>5
      <4> QED
        BY <4>2, <4>3, <4>4, <4>5
    <3>3. \A i \in 1..n - 1, j \in 1..k : ob[i].line # wr[j].line
      <4>1. \A i \in 1..n - 1 : ob[i].line # o.line
        BY <2>2, <2>3, <2>9, <2>12
      <4>2. \A i \in 1..n - 1, j \in 1..m : ob[i].line # written[j].line
        BY <2>2, <2>3, <2>9
      <4> QED
        BY <2>8, <4>1, <4>2, Zenon
    <3> QED
      BY <2>2, <2>8, <3>1, <3>2, <3>3 DEF OnceInv
  <2>17. RightInv'
    <3>1. \A c \in 1..Len(calls), i \in 1..n - 1 : Right(calls[c], ob[i], manyThreads)
      BY <2>2, <2>3, <2>11
    <3>2. \A c \in 1..Len(calls), j \in 1..k : Right(calls[c], wr[j], manyThreads)
      BY <2>3, <2>8, <2>11, <2>12, Zenon
    <3> QED
      BY <1>1, <2>2, <2>8, <3>1, <3>2 DEF RightInv
  <2>18. EndInv'
    BY <1>1, <2>5 DEF EndInv, AllOver, Over
  <2>19. AnsweredInv'
    <3> SUFFICES ASSUME ~manyThreads, writer' # "failed", NEW c \in 1..Len(calls), Owed(c)
                 PROVE  HasReply(c)'
      BY <1>1 DEF AnsweredInv, Owed, Over
    <3>1. HasReply(c)
      BY <1>1 DEF AnsweredInv
    <3>2. CASE \E i \in 1..n : outbox[i].line = calls[c].line
      <4>1. PICK i \in 1..n : outbox[i].line = calls[c].line
        BY <3>2
      <4>2. CASE i = 1
        <5>1. IsReplyToCall(o)
          BY <2>12, <4>1, <4>2, Basics DEF IsReplyToCall
        <5>2. wr = Append(written, o)
          BY <2>5, <5>1
        <5>3. Len(wr) = m + 1 /\ wr[m + 1] = o /\ m + 1 \in 1..Len(wr)
          BY <2>4, <2>6, <2>13, <5>2
        <5> QED
          BY <1>1, <2>12, <4>1, <4>2, <5>3 DEF HasReply
      <4>3. CASE i # 1
        <5>1. i - 1 \in 1..n - 1 /\ ob[i - 1] = outbox[i]
          BY <2>2, <4>1, <4>3
        <5> QED
          BY <1>1, <2>2, <4>1, <5>1 DEF HasReply
      <4> QED
        BY <4>2, <4>3
    <3>3. CASE \E j \in 1..m : written[j].line = calls[c].line
      BY <1>1, <2>8, <3>3 DEF HasReply
    <3> QED
      BY <2>13, <3>1, <3>2, <3>3 DEF HasReply
  <2> QED
    BY <1>2, <2>14, <2>15, <2>16, <2>17, <2>18, <2>19
<1> QED
  BY <1>3, <1>4

(* The input ends, and the reader goes through the end of serve_stdio.     *)
LEMMA StepEnd ==
  ASSUME IInv, EndOfInput \/ Closing, UNCHANGED manyThreads
  PROVE  IInv'
<1> USE DEF IInv
<1>1. UNCHANGED <<lines, session, calls, holder, inFlight, drained, outbox, writer, written, told>>
  BY DEF EndOfInput, Closing, LookInFlight, EndSession, Return, readVars, drainVars, outVars
<1>2. Holding' /\ Counting' /\ LinesInv' /\ OnceInv' /\ RightInv' /\ ToldInv' /\ AnsweredInv'
  <2>1. Holding' /\ Counting' /\ LinesInv' /\ OnceInv'
    BY <1>1 DEF Holding, InDispatch, Counting, Pending, LinesInv, OnceInv
  <2>2. RightInv' /\ ToldInv' /\ AnsweredInv'
    BY <1>1 DEF RightInv, ToldInv, AnsweredInv, Owed, Over, HasReply
  <2> QED
    BY <2>1, <2>2
<1>3. AllOver' <=> AllOver
  BY <1>1 DEF AllOver, Over
<1>4. CASE EndOfInput
  <2>1. ShapeInv'
    BY <1>1, <1>4 DEF ShapeInv, EndOfInput, readVars, outVars
  <2>2. EndInv'
    BY <1>1, <1>3, <1>4 DEF EndInv, EndOfInput, readVars, outVars
  <2> QED
    BY <1>2, <2>1, <2>2
<1>5. CASE LookInFlight
  <2>1. ShapeInv'
    BY <1>1, <1>5 DEF ShapeInv, LookInFlight, readVars, drainVars, outVars
  <2>2. ~manyThreads /\ inFlight = 0 => AllOver
    <3> SUFFICES ASSUME ~manyThreads, inFlight = 0, NEW c \in 1..Len(calls)
                 PROVE  calls[c].st = "done"
      BY DEF AllOver, Over
    <3>1. Pending = {}
      BY PendingFinite, FS_EmptySet DEF Counting
    <3>2. calls[c].st \in Statuses
      BY Basics DEF Call
    <3> QED
      BY <3>1, <3>2 DEF Pending, EndInv
  <2>3. ~MustDrain => inFlight = 0
    BY PendingFinite DEF MustDrain, Counting
  <2>4. EndInv'
    BY <1>1, <1>3, <1>5, <2>2, <2>3 DEF EndInv, LookInFlight, readVars, drainVars, outVars
  <2> QED
    BY <1>2, <2>1, <2>4
<1>6. CASE EndSession
  <2>1. {session} \ {0} \subseteq Sessions
    BY BoundsAssumption DEF ShapeInv, Sessions
  <2>2. ShapeInv'
    BY <1>1, <1>6, <2>1 DEF ShapeInv, EndSession, drainVars
  <2>3. EndInv'
    BY <1>1, <1>3, <1>6 DEF EndInv, EndSession, drainVars
  <2> QED
    BY <1>2, <2>2, <2>3
<1>7. CASE Return
  <2>1. ShapeInv'
    BY <1>1, <1>7 DEF ShapeInv, Return, readVars, drainVars, outVars
  <2>2. EndInv'
    BY <1>1, <1>3, <1>7 DEF EndInv, Return, readVars, drainVars, outVars
  <2> QED
    BY <1>2, <2>1, <2>2
<1> QED
  BY <1>4, <1>5, <1>6, <1>7 DEF Closing

-----------------------------------------------------------------------------
LEMMA Initially == Init => IInv
<1> SUFFICES ASSUME Init
             PROVE  IInv
  OBVIOUS
<1>1. calls = <<>> /\ outbox = <<>> /\ written = <<>> /\ Len(calls) = 0 /\ Len(outbox) = 0 /\ Len(written) = 0
  BY DEF Init
<1>2. 1..Len(calls) = {} /\ 1..Len(outbox) = {} /\ 1..Len(written) = {}
  BY <1>1
<1>3. ShapeInv
  <2>1. calls \in Seq(Call) /\ outbox \in Seq(Output) /\ written \in Seq(Output)
    BY <1>1
  <2>2. holder \in [Sessions -> Nat]
    BY DEF Init
  <2>3. lines \in 0..MaxLines /\ session \in 0..MaxSessions
    BY BoundsAssumption DEF Init
  <2>4. told \subseteq 1..Len(calls) /\ ended \subseteq Sessions
    BY DEF Init
  <2> QED
    BY <2>1, <2>2, <2>3, <2>4 DEF ShapeInv, Init
<1>4. Holding
  BY <1>1, <1>2 DEF Holding, Init
<1>5. Counting
  <2>1. Pending = {}
    BY <1>2 DEF Pending
  <2> QED
    BY <2>1, FS_EmptySet DEF Counting, Init
<1>6. LinesInv /\ OnceInv /\ RightInv /\ ToldInv
  BY <1>2 DEF LinesInv, OnceInv, RightInv, ToldInv
<1>7. EndInv
  BY <1>2 DEF EndInv, AllOver, Init
<1>8. AnsweredInv
  BY <1>2 DEF AnsweredInv
<1> QED
  BY <1>3, <1>4, <1>5, <1>6, <1>7, <1>8 DEF IInv

LEMMA Stutter ==
  ASSUME IInv, UNCHANGED vars
  PROVE  IInv'
<1>1. UNCHANGED <<manyThreads, lines, session, ended, reader, calls, holder, inFlight, eof, drained,
                  outbox, outClosed, writer, written, told>>
  BY DEF vars, moving, readVars, drainVars, outVars
<1>2. ShapeInv' /\ LinesInv' /\ OnceInv'
  BY <1>1 DEF IInv, ShapeInv, LinesInv, OnceInv
<1>4. Holding' /\ Counting'
  BY <1>1 DEF IInv, Holding, InDispatch, Counting, Pending
<1>3. RightInv' /\ ToldInv' /\ EndInv' /\ AnsweredInv'
  BY <1>1 DEF IInv, RightInv, ToldInv, EndInv, AllOver, Over, AnsweredInv, Owed, HasReply
<1> QED
  BY <1>2, <1>3, <1>4 DEF IInv

LEMMA Inductive == IInv /\ [Next]_vars => IInv'
<1> SUFFICES ASSUME IInv, [Next]_vars
             PROVE  IInv'
  OBVIOUS
<1>1. CASE UNCHANGED vars
  BY <1>1, Stutter
<1>2. CASE Next
  <2>1. UNCHANGED manyThreads /\ Step
    BY <1>2 DEF Next
  <2>2. CASE \E m \in Messages : Read(m)
    BY <2>1, <2>2, StepLine, StepCancel, StepSpawn DEF Read
  <2>3. CASE \E c \in DOMAIN calls : CallSteps(c)
    <3>1. PICK c \in 1..Len(calls) : CallSteps(c)
      BY <2>3, Basics DEF IInv
    <3> QED
      BY <2>1, <3>1, StepLock, StepThrow, StepReply, StepDecide, StepLeave, StepAnswer, StepTell DEF CallSteps
  <2>4. CASE WriterStep \/ EndOfInput \/ Closing
    BY <2>1, <2>4, StepWriter, StepEnd
  <2> QED
    BY <2>1, <2>2, <2>3, <2>4 DEF Step
<1> QED
  BY <1>1, <1>2

LEMMA Invariance == Spec => []IInv
BY Initially, Inductive, PTL DEF Spec

(* The state has its shape; the counter is the number of the calls that    *)
(* did not count themselves down.                                          *)
THEOREM TypeCorrect == Spec => []TypeOK
<1>1. IInv => TypeOK
  <2> SUFFICES ASSUME IInv
               PROVE  TypeOK
    OBVIOUS
  <2>1. DOMAIN calls = 1..Len(calls)
    BY Basics DEF IInv
  <2>2. \A c \in 1..Len(calls) :
          /\ calls[c].msg \in Messages /\ calls[c].session \in Sessions /\ calls[c].cancelled \in BOOLEAN
          /\ calls[c].st \in {"waiting", "running", "decided", "left", "last", "done", "thrown"}
          /\ InDispatch(c) <=> holder[calls[c].session] = c
    BY Basics DEF IInv, Call, Statuses, Holding
  <2>3. inFlight = Cardinality({c \in DOMAIN calls : calls[c].st \notin {"last", "done"}})
    BY <2>1 DEF IInv, Counting, Pending
  <2> QED
    BY <2>1, <2>2, <2>3 DEF TypeOK, IInv, ShapeInv
<1> QED
  BY <1>1, Invariance, PTL

(* On one thread, what the client cancelled while it was in the table of   *)
(* requests has no answer, but for a custom method, which says so: whatever*)
(* the messages, in whichever order they are read and served.              *)
THEOREM CancelledStaysSilent == Spec => []CancelledIsNotAnswered
<1>1. IInv => CancelledIsNotAnswered
  <2> SUFFICES ASSUME IInv, ~manyThreads, NEW c \in 1..Len(calls), NEW i \in 1..Len(written),
                      calls[c].cancelled, written[i].line = calls[c].line
               PROVE  calls[c].msg.method = "custom" /\ written[i].reply = RequestCancelled
    <3>1. IInv => DOMAIN calls = 1..Len(calls) /\ DOMAIN written = 1..Len(written)
      BY Basics DEF IInv, ShapeInv
    <3> QED
      BY <3>1 DEF CancelledIsNotAnswered, CancelledIsSilent
  <2>1. Right(calls[c], written[i], manyThreads)
    BY DEF IInv, RightInv
  <2> QED
    BY <2>1 DEF Right
<1> QED
  BY <1>1, Invariance, PTL

(* On one thread, what was spawned is answered once before serve_stdio()   *)
(* returns, unless the client cancelled it or the output failed.           *)
THEOREM AnsweredBeforeReturn == Spec => []AnsweredUnlessCancelled
<1>1. IInv => AnsweredUnlessCancelled
  <2> SUFFICES ASSUME IInv, ~manyThreads, reader = "returned", writer = "done", NEW c \in 1..Len(calls)
               PROVE  LET n == Cardinality(Replies(c))
                          m == calls[c].msg
                      IN /\ n <= 1
                         /\ ExpectsAnswer(m) /\ c \notin told => n = 1
                         /\ IsNotification(m) /\ ~SkipsLastStatement(m, Place(TRUE, TRUE)) => n = 0
    BY Basics DEF AnsweredUnlessCancelled, Flushed, IInv
  <2>1. DOMAIN written = 1..Len(written)
    BY DEF IInv, ShapeInv
  <2>2. \A i, j \in Replies(c) : i = j
    BY <2>1 DEF Replies, IInv, OnceInv
  <2>3. Replies(c) = {} \/ \E i \in Replies(c) : Replies(c) = {i}
    BY <2>2
  <2>4. Cardinality({}) = 0 /\ \A i : Cardinality({i}) = 1
    BY FS_EmptySet, FS_Singleton
  <2>5. ASSUME ExpectsAnswer(calls[c].msg), c \notin told
        PROVE  Replies(c) # {}
    <3>1. Over(c)
      BY DEF IInv, EndInv, AllOver
    <3>2. HasReply(c)
      BY <2>5, <3>1 DEF IInv, AnsweredInv, Owed
    <3>3. Len(outbox) = 0
      BY DEF IInv, EndInv
    <3> QED
      BY <2>1, <3>2, <3>3 DEF HasReply, Replies
  <2>6. ASSUME IsNotification(calls[c].msg), ~SkipsLastStatement(calls[c].msg, Place(TRUE, TRUE))
        PROVE  Replies(c) = {}
    BY <2>1, <2>6 DEF Replies, IInv, RightInv, Right
  <2> DEFINE n == Cardinality(Replies(c))
  <2>7. CASE Replies(c) = {}
    <3>1. n = 0
      BY <2>4, <2>7
    <3>2. ~(ExpectsAnswer(calls[c].msg) /\ c \notin told)
      BY <2>5, <2>7
    <3> QED
      BY <3>1, <3>2
  <2>8. CASE Replies(c) # {}
    <3>1. PICK i : Replies(c) = {i}
      BY <2>3, <2>8
    <3>2. n = 1
      BY <2>4, <3>1
    <3>3. ~(IsNotification(calls[c].msg) /\ ~SkipsLastStatement(calls[c].msg, Place(TRUE, TRUE)))
      BY <2>6, <2>8
    <3>4. n <= 1
      BY <3>2
    <3>5. IsNotification(calls[c].msg) /\ ~SkipsLastStatement(calls[c].msg, Place(TRUE, TRUE)) => n = 0
      BY <3>3, Zenon
    <3> QED
      BY <3>2, <3>4, <3>5
  <2> QED
    BY <2>7, <2>8
<1> QED
  BY <1>1, Invariance, PTL

-----------------------------------------------------------------------------
(* The HTTP transport.                                                     *)

Request ==
  [client : Clients, session : Nat, msg : HttpMessages, cancelled : BOOLEAN,
   answer : [status : {"none", "200", "202", "error"}, reply : Answers \cup {"none"}],
   st : {"waiting", "running", "answered"}]

(* A session id is given to one client.                                    *)
SessionsInv ==
  /\ created \in Nat /\ known \subseteq 1..created
  /\ sid \in [Clients -> 0..created]
  /\ \A c, d \in Clients : sid[c] = sid[d] /\ sid[c] # 0 => c = d

(* A call is made in its client's session, and that session's id is or was *)
(* its client's; what cancelled it was asked by its client; and what is    *)
(* acknowledged only was cancelled, or expects no answer.                  *)
OwnSession(k) == k.session \in 1..created /\ \A c \in Clients : sid[c] = k.session => c = k.client
SilentWhenCancelled(k) == k.st = "answered" /\ k.answer.status = "202" => k.cancelled \/ ~ExpectsAnswer(k.msg)

RequestsInv ==
  /\ requests \in Seq(Request)
  /\ \A p \in 1..Len(requests) :
       /\ OwnSession(requests[p]) /\ SilentWhenCancelled(requests[p])
       /\ requests[p].cancelled => p \in asked

HttpInv == stateful \in BOOLEAN /\ (stateful => SessionsInv /\ RequestsInv)

LEMMA RequestBasics ==
  ASSUME RequestsInv
  PROVE  /\ Len(requests) \in Nat /\ DOMAIN requests = 1..Len(requests)
         /\ \A p \in 1..Len(requests) : requests[p] \in Request
BY DEF RequestsInv

(* The calls stay, may advance or be cancelled, and those that are         *)
(* cancelled were asked to be.                                             *)
LEMMA RequestsKept ==
  ASSUME RequestsInv, UNCHANGED <<created, sid>>,
         requests' \in Seq(Request), Len(requests') = Len(requests),
         \A p \in 1..Len(requests) :
           /\ requests'[p].client = requests[p].client /\ requests'[p].session = requests[p].session
           /\ SilentWhenCancelled(requests'[p])
           /\ requests'[p].cancelled => p \in asked'
  PROVE  RequestsInv'
<1>1. ASSUME NEW p \in 1..Len(requests)
      PROVE  OwnSession(requests[p])'
  <2>1. OwnSession(requests[p])
    BY DEF RequestsInv
  <2> QED
    BY <2>1 DEF OwnSession
<1> QED
  BY <1>1 DEF RequestsInv, SilentWhenCancelled

LEMMA HttpStays ==
  ASSUME SessionsInv, RequestsInv,
         UNCHANGED <<created, sid, requests>>, known' \subseteq known, asked \subseteq asked'
  PROVE  SessionsInv' /\ RequestsInv'
<1>1. SessionsInv'
  BY DEF SessionsInv
<1>2. RequestsInv'
  BY RequestsKept DEF RequestsInv
<1> QED
  BY <1>1, <1>2

LEMMA HttpInitialize ==
  ASSUME stateful, SessionsInv, RequestsInv,
         NEW c \in Clients, NEW s, NEW m, InitializeSession(c, s, m), UNCHANGED asked
  PROVE  SessionsInv' /\ RequestsInv'
<1>1. UNCHANGED requests /\ created' = created + 1 /\ created \in Nat
  BY DEF InitializeSession, SessionsInv
<1>2. CASE m.fails = "no"
  <2>1. known' = known \cup {created'} /\ sid' = [sid EXCEPT ![c] = created']
    BY <1>2 DEF InitializeSession
  <2>2. \A d \in Clients : sid[d] \in 0..created /\ sid'[d] = IF d = c THEN created + 1 ELSE sid[d]
    BY <1>1, <2>1 DEF SessionsInv
  <2>3. SessionsInv'
    <3>1. sid' \in [Clients -> 0..created'] /\ known' \subseteq 1..created'
      BY <1>1, <2>1 DEF SessionsInv
    <3>2. ASSUME NEW d \in Clients, NEW e \in Clients, sid'[d] = sid'[e], sid'[d] # 0 PROVE d = e
      BY <1>1, <2>2, <3>2 DEF SessionsInv
    <3> QED
      BY <1>1, <3>1, <3>2 DEF SessionsInv
  <2>4. ASSUME NEW p \in 1..Len(requests) PROVE OwnSession(requests[p])'
    <3>1. OwnSession(requests[p]) /\ requests'[p] = requests[p]
      BY <1>1 DEF RequestsInv
    <3> QED
      BY <1>1, <2>2, <3>1 DEF OwnSession
  <2> QED
    BY <1>1, <2>3, <2>4 DEF RequestsInv, SilentWhenCancelled
<1>3. CASE m.fails # "no"
  <2>1. UNCHANGED <<known, sid>>
    BY <1>3 DEF InitializeSession
  <2>2. SessionsInv'
    BY <1>1, <2>1 DEF SessionsInv
  <2>3. ASSUME NEW p \in 1..Len(requests) PROVE OwnSession(requests[p])'
    <3>1. OwnSession(requests[p]) /\ requests'[p] = requests[p]
      BY <1>1 DEF RequestsInv
    <3> QED
      BY <1>1, <2>1, <3>1 DEF OwnSession
  <2> QED
    BY <1>1, <2>2, <2>3 DEF RequestsInv, SilentWhenCancelled
<1> QED
  BY <1>2, <1>3

(* A cancellation reaches the calls of its client's own session only, and  *)
(* those are the ones it is meant for.                                     *)
LEMMA HttpCancel ==
  ASSUME stateful, SessionsInv, RequestsInv,
         NEW c \in Clients, NEW s \in {0, sid[c]}, NEW m, CancelInSession(c, s, m)
  PROVE  SessionsInv' /\ RequestsInv'
<1> DEFINE targets == Registered(s, m.target)
           n == Len(requests)
           marked == [p \in 1..n |-> IF p \in targets THEN [requests[p] EXCEPT !.cancelled = TRUE] ELSE requests[p]]
<1>1. n \in Nat /\ DOMAIN requests = 1..n /\ \A p \in 1..n : requests[p] \in Request
  BY RequestBasics
<1>2. requests' = marked /\ UNCHANGED <<known, created, sid>>
  BY <1>1 DEF CancelInSession, Cancelling, ScopeKey, sessionVars
<1>3. marked \in Seq(Request) /\ Len(marked) = n
  <2>1. ASSUME NEW p \in 1..n PROVE marked[p] \in Request
    <3>1. requests[p] \in Request /\ (marked[p] = requests[p] \/ marked[p] = [requests[p] EXCEPT !.cancelled = TRUE])
      BY <1>1
    <3> HIDE DEF marked
    <3> QED
      BY <3>1 DEF Request
  <2>2. marked \in [1..n -> Request]
    BY <2>1
  <2> HIDE DEF marked
  <2> QED
    BY <1>1, <2>2
<1>4. asked' = asked \/ asked' = asked \cup Meant(c, m)
  BY DEF CancelInSession, Note
<1>5. ASSUME NEW p \in targets PROVE p \in asked'
  <2>1. /\ p \in 1..n /\ Runs(p) /\ HasScope(requests[p].msg)
        /\ requests[p].session = s /\ requests[p].msg.id = m.target
    BY <1>1 DEF Registered
  <2>2. OwnSession(requests[p])
    BY <2>1 DEF RequestsInv
  <2>3. s = sid[c] /\ requests[p].client = c
    BY <2>1, <2>2 DEF OwnSession, SessionsInv
  <2>4. asked' = asked \cup Meant(c, m)
    BY <2>3 DEF CancelInSession, Note, PassesLock
  <2>5. p \in Meant(c, m)
    BY <1>1, <2>1, <2>3 DEF Meant, ScopeKey
  <2> QED
    BY <2>4, <2>5
<1>6. ASSUME NEW p \in 1..n
      PROVE  /\ marked[p].client = requests[p].client /\ marked[p].session = requests[p].session
             /\ SilentWhenCancelled(marked[p])
             /\ marked[p].cancelled => p \in asked'
  <2>1. /\ requests[p] \in Request /\ SilentWhenCancelled(requests[p])
        /\ requests[p].cancelled => p \in asked
    BY <1>1 DEF RequestsInv
  <2>2. CASE p \in targets
    <3>1. marked[p] = [requests[p] EXCEPT !.cancelled = TRUE]
      BY <2>2
    <3> HIDE DEF marked, targets
    <3> QED
      BY <1>5, <2>1, <2>2, <3>1 DEF Request, SilentWhenCancelled
  <2>3. CASE p \notin targets
    <3>1. marked[p] = requests[p]
      BY <2>3
    <3> HIDE DEF marked, targets
    <3> QED
      BY <1>4, <2>1, <3>1
  <2> QED
    BY <2>2, <2>3
<1> HIDE DEF marked
<1>7. RequestsInv'
  BY <1>2, <1>3, <1>6, RequestsKept
<1>8. SessionsInv'
  BY <1>2 DEF SessionsInv
<1> QED
  BY <1>7, <1>8

(* A call is let in with the id of a session only if it is its client's.   *)
LEMMA HttpCall ==
  ASSUME stateful, SessionsInv, RequestsInv,
         NEW c \in Clients, NEW s \in {0, sid[c]}, NEW m \in HttpMessages, Serve(c, s, m)
  PROVE  SessionsInv' /\ RequestsInv'
<1> DEFINE k == [client |-> c, session |-> s, msg |-> m, cancelled |-> FALSE, answer |-> Unanswered,
                 st |-> IF queue[s] # <<>> THEN "waiting" ELSE "running"]
           n == Len(requests)
<1>1. n \in Nat /\ DOMAIN requests = 1..n /\ \A p \in 1..n : requests[p] \in Request
  BY RequestBasics
<1>2. requests' = Append(requests, k) /\ UNCHANGED <<known, created, sid>>
  BY DEF Serve, ScopeKey, sessionVars
<1>3. s \in known
  <2>1. Refusal(s, m) = Unanswered /\ Serves(m) /\ m.verb = "post"
    BY DEF Serve
  <2>2. m.shape = "envelope"
    BY <2>1 DEF Serves
  <2>4. Plainly("403") # Unanswered /\ Plainly("400") # Unanswered
    BY DEF Plainly, Unanswered
  <2>6. m.head # "origin"
    <3> SUFFICES ASSUME m.head = "origin" PROVE Refusal(s, m) = Plainly("403")
      BY <2>1, <2>4
    <3> QED
      BY DEF Refusal
  <2>5. m.head = "ok"
    <3> SUFFICES ASSUME m.head # "ok" PROVE Refusal(s, m) = Plainly("400")
      BY <2>1, <2>4
    <3> QED
      BY <2>1, <2>6 DEF Refusal
  <2>7. ASSUME s \notin known PROVE FALSE
    BY <2>1, <2>2, <2>5, <2>7 DEF Refusal, Plainly, Unanswered
  <2> QED
    BY <2>7
<1>4. s \in 1..created /\ s = sid[c] /\ k.session \in 1..created
  BY <1>3 DEF SessionsInv
<1>5. k \in Request
  BY <1>4, AnswerCodes DEF Request, Unanswered
<1>6. OwnSession(k)
  BY <1>4 DEF OwnSession, SessionsInv
<1>7. SilentWhenCancelled(k) /\ ~k.cancelled
  BY DEF SilentWhenCancelled
<1> HIDE DEF k
<1>8. /\ requests' \in Seq(Request) /\ Len(requests') = n + 1
      /\ \A p \in 1..n : requests'[p] = requests[p]
      /\ requests'[n + 1] = k
  BY <1>2, <1>5 DEF RequestsInv
<1>9. asked \subseteq asked'
  BY DEF Serve, Note
<1>10. ASSUME NEW p \in 1..n + 1
       PROVE  /\ OwnSession(requests'[p]) /\ SilentWhenCancelled(requests'[p])
              /\ requests'[p].cancelled => p \in asked'
  <2>1. CASE p = n + 1
    BY <1>6, <1>7, <1>8, <2>1
  <2>2. CASE p # n + 1
    <3>1. p \in 1..n /\ requests'[p] = requests[p]
      BY <1>1, <1>8, <2>2
    <3> QED
      BY <1>9, <3>1 DEF RequestsInv
  <2> QED
    BY <2>1, <2>2
<1>11. RequestsInv'
  BY <1>2, <1>8, <1>10 DEF RequestsInv, OwnSession, SilentWhenCancelled
<1>12. SessionsInv'
  BY <1>2 DEF SessionsInv
<1> QED
  BY <1>11, <1>12

(* What a call is answered: nothing only where dispatch() says nothing.    *)
LEMMA HttpAnswer ==
  ASSUME stateful = TRUE, RequestsInv, NEW p \in 1..Len(requests)
  PROVE  LET a == AnswerOf(p) IN
         /\ a \in [status : {"none", "200", "202", "error"}, reply : Answers \cup {"none"}]
         /\ a.status = "202" => requests[p].cancelled \/ ~ExpectsAnswer(requests[p].msg)
<1> DEFINE k == requests[p]
           kept == k.session \in known
           r == Reply(k.msg, k.cancelled, Place(TRUE, kept))
<1>1. k \in Request
  BY RequestBasics
<1>2. k.msg \in HttpMessages /\ WellFormed(k.msg) /\ k.cancelled \in BOOLEAN
  BY <1>1, HttpMessagesAssumption DEF Request
<1>3. /\ r \in Answers \cup {"none"}
      /\ ~k.cancelled /\ ExpectsAnswer(k.msg) => r # "none"
  <2> HIDE DEF k, kept
  <2> QED
    BY <1>2, CallReplies
<1>4. ReplyToRequest(p) = r
  BY DEF ReplyToRequest
<1> HIDE DEF r
<1>5. CASE Throws(k.msg)
  BY <1>5, AnswerCodes DEF AnswerOf, Plainly
<1>6. CASE ~Throws(k.msg)
  <2>1. AnswerOf(p) = [status |-> IF r = "none" THEN "202" ELSE "200", reply |-> r]
    BY <1>4, <1>6 DEF AnswerOf, ToHttp
  <2> QED
    BY <1>3, <2>1
<1> QED
  BY <1>5, <1>6

LEMMA HttpFinish ==
  ASSUME stateful = TRUE, SessionsInv, RequestsInv,
         NEW p \in 1..Len(requests), FinishRequest(p)
  PROVE  SessionsInv' /\ RequestsInv'
<1> DEFINE n == Len(requests)
           a == AnswerOf(p)
           next(q) == \E s \in SessionIds : queue'[s] # <<>> /\ Head(queue'[s]) = q
           moved == [q \in 1..n |->
                       IF q = p THEN [requests[q] EXCEPT !.st = "answered", !.answer = a]
                       ELSE IF next(q) THEN [requests[q] EXCEPT !.st = "running"] ELSE requests[q]]
<1>1. n \in Nat /\ DOMAIN requests = 1..n /\ \A q \in 1..n : requests[q] \in Request
  BY RequestBasics
<1>2. requests' = moved
  BY <1>1 DEF FinishRequest
<1>3. UNCHANGED <<known, created, sid, asked>>
  BY DEF FinishRequest, sessionVars
<1>4. /\ a \in [status : {"none", "200", "202", "error"}, reply : Answers \cup {"none"}]
      /\ a.status = "202" => requests[p].cancelled \/ ~ExpectsAnswer(requests[p].msg)
  BY HttpAnswer
<1> HIDE DEF a, next
<1>5. ASSUME NEW q \in 1..n
      PROVE  /\ moved[q] \in Request
             /\ moved[q].client = requests[q].client /\ moved[q].session = requests[q].session
             /\ SilentWhenCancelled(moved[q])
             /\ moved[q].cancelled => q \in asked'
  <2>1. /\ requests[q] \in Request /\ SilentWhenCancelled(requests[q])
        /\ requests[q].cancelled => q \in asked'
    BY <1>1, <1>3 DEF RequestsInv
  <2>2. CASE q = p
    <3>1. moved[q] = [requests[q] EXCEPT !.st = "answered", !.answer = a]
      BY <2>2
    <3> HIDE DEF moved
    <3>2. moved[q] \in Request
      BY <1>4, <2>1, <3>1 DEF Request
    <3> QED
      BY <1>4, <2>1, <2>2, <3>1, <3>2 DEF Request, SilentWhenCancelled
  <2>3. CASE q # p /\ next(q)
    <3>1. moved[q] = [requests[q] EXCEPT !.st = "running"]
      BY <2>3
    <3> HIDE DEF moved
    <3>2. moved[q] \in Request
      BY <2>1, <3>1 DEF Request
    <3> QED
      BY <2>1, <3>1, <3>2 DEF Request, SilentWhenCancelled
  <2>4. CASE q # p /\ ~next(q)
    <3>1. moved[q] = requests[q]
      BY <2>4
    <3> HIDE DEF moved
    <3> QED
      BY <2>1, <3>1
  <2> QED
    BY <2>2, <2>3, <2>4
<1>6. moved \in Seq(Request) /\ Len(moved) = n
  <2>1. moved \in [1..n -> Request]
    <3>1. \A q \in 1..n : moved[q] \in Request
      BY <1>5
    <3> QED
      BY <3>1
  <2> HIDE DEF moved
  <2> QED
    BY <1>1, <2>1
<1> HIDE DEF moved
<1>7. RequestsInv'
  BY <1>2, <1>3, <1>5, <1>6, RequestsKept
<1>8. SessionsInv'
  BY <1>3 DEF SessionsInv
<1> QED
  BY <1>7, <1>8

LEMMA HttpInductive == HttpInv /\ [HttpNext]_httpVars => HttpInv'
<1> SUFFICES ASSUME HttpInv, [HttpNext]_httpVars PROVE HttpInv'
  OBVIOUS
<1>1. UNCHANGED stateful
  BY DEF HttpNext, httpVars
<1>2. CASE ~stateful
  BY <1>1, <1>2 DEF HttpInv
<1>3. CASE stateful
  <2>1. stateful = TRUE /\ SessionsInv /\ RequestsInv
    BY <1>3 DEF HttpInv
  <2>2. CASE UNCHANGED httpVars
    <3>1. UNCHANGED <<created, sid, requests, known, asked>>
      BY <2>2 DEF httpVars, httpMoving, sessionVars
    <3> QED
      BY <1>1, <2>1, <3>1, HttpStays DEF HttpInv
  <2>3. ASSUME NEW c \in Clients, NEW s \in {0, sid[c]}, NEW m \in HttpMessages,
               \/ Refuse(s, m) \/ InitializeSession(c, s, m) \/ Delete(s, m)
               \/ CancelInSession(c, s, m) \/ Serve(c, s, m)
        PROVE  SessionsInv' /\ RequestsInv'
    <3>1. CASE Refuse(s, m)
      <4>1. UNCHANGED <<known, created, sid, requests, asked>>
        BY <3>1 DEF Refuse, sessionVars
      <4> QED
        BY <2>1, <4>1, HttpStays
    <3>2. CASE InitializeSession(c, s, m)
      <4>1. UNCHANGED asked
        BY <3>2 DEF InitializeSession
      <4> QED
        BY <2>1, <3>2, <4>1, HttpInitialize
    <3>3. CASE Delete(s, m)
      <4>1. UNCHANGED <<created, sid, requests, asked>> /\ known' \subseteq known
        BY <3>3 DEF Delete
      <4> QED
        BY <2>1, <4>1, HttpStays
    <3> QED
      BY <2>1, <2>3, <3>1, <3>2, <3>3, HttpCancel, HttpCall
  <2>4. ASSUME NEW s, Expire(s) PROVE SessionsInv' /\ RequestsInv'
    <3>1. UNCHANGED <<created, sid, requests, asked>> /\ known' \subseteq known
      BY <2>4 DEF Expire
    <3> QED
      BY <2>1, <3>1, HttpStays
  <2>5. ASSUME HttpNext PROVE SessionsInv' /\ RequestsInv'
    <3>1. CASE \E c \in Clients, s \in SessionIds \cup {NoSession}, m \in HttpMessages : Post(c, s, m)
      BY <2>3, <3>1 DEF Post, NoSession
    <3>2. CASE \E p \in DOMAIN requests : FinishRequest(p)
      BY <2>1, <3>2, HttpFinish, RequestBasics
    <3>3. CASE \E s \in SessionIds : Expire(s)
      BY <2>4, <3>3
    <3> QED
      BY <2>5, <3>1, <3>2, <3>3 DEF HttpNext, HttpStep
  <2> QED
    BY <1>1, <2>2, <2>5 DEF HttpInv
<1> QED
  BY <1>2, <1>3

(* On a stateful HTTP endpoint, whatever clients send and whenever         *)
(* sessions end, a request is acknowledged without an answer only if its   *)
(* own client asked for its cancellation.                                  *)
THEOREM RequestsGetAnswers == HttpSpec => []RequestsAreAnswered
<1>1. HttpInit => HttpInv
  BY DEF HttpInit, NoSession, HttpInv, SessionsInv, RequestsInv
<1>2. HttpInv => RequestsAreAnswered
  <2> SUFFICES ASSUME HttpInv, stateful, NEW p \in DOMAIN requests,
                      IsRequest(p), Answered(p), requests[p].answer.status = "202"
               PROVE  p \in asked
    BY DEF RequestsAreAnswered, SilentOnlyIfAsked
  <2>1. p \in 1..Len(requests) /\ RequestsInv
    BY RequestBasics DEF HttpInv
  <2>2. ExpectsAnswer(requests[p].msg) /\ requests[p].st = "answered"
    BY DEF IsRequest, Answered
  <2> QED
    BY <2>1, <2>2 DEF RequestsInv, SilentWhenCancelled
<1> QED
  BY <1>1, <1>2, HttpInductive, PTL DEF HttpSpec
=============================================================================
