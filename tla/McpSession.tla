------------------------------ MODULE McpSession ------------------------------
(***************************************************************************)
(* mcp/endpoint.hpp, the streamable HTTP transport of one stateful         *)
(* session: the slot kept in the context store, its mailbox and history of *)
(* server-to-client events, the GET event stream that drains the mailbox   *)
(* and resumes after a dropped connection, the server's own requests to    *)
(* the client, and the two ways a session ends (DELETE, and the sweep of   *)
(* idle sessions, which runs no code of the endpoint but the destructor).  *)
(*                                                                         *)
(* Events are numbered by their id; content says what an event carries: a  *)
(* notification or the message of one of the server's requests.            *)
(***************************************************************************)
EXTENDS Naturals, Sequences, FiniteSets, SequencesExt

CONSTANTS
  Conns,        (* HTTP connections on which the client may send a GET     *)
  Requests,     (* calls of request() by the server's code                 *)
  HistoryLimit, (* server_info::stream_history                             *)
  MaxNotes      (* bound: notifications pushed                             *)

ASSUME SessionAssumption ==
  /\ HistoryLimit \in Nat \ {0}
  /\ MaxNotes \in Nat

Note == "note"
Outcomes == {"answered", "timed_out", "canceled", "unknown_session"}
NoEvent == 0

VARIABLES
  known,         \* the store has an entry for the session
  deleting,      \* a DELETE has run end() and not yet erased the entry
  content, history, mailbox, closed, lastTaken, attached,   \* the slot's events
  pending,                    \* the requests in the slot's table, each under an id of its own
  req, channel, timedOut,     \* per request: where request() is or how it ended; its reply channel
  inTool,                     \* the requests a tool makes, under the session's lock
  phase, replay, frame, alive,\* per connection: its event_stream, what it is about to write
  got, waived                 \* history: ids the client received; ids it did not ask for

storeVars == <<known, deleting>>
eventVars == <<content, history, mailbox, closed>>
streamVars == <<phase, replay, frame>>
requestVars == <<req, timedOut, inTool>>
clientVars == <<alive, got, waived>>
vars == <<storeVars, eventVars, lastTaken, attached, pending, channel,
          requestVars, streamVars, clientVars>>

Init ==
  /\ known = TRUE /\ deleting = FALSE
  /\ content = <<>> /\ history = <<>> /\ mailbox = <<>> /\ closed = FALSE
  /\ lastTaken = NoEvent /\ attached = FALSE
  /\ pending = {}
  /\ req = [r \in Requests |-> "idle"]
  /\ channel = [r \in Requests |-> "none"] /\ timedOut = [r \in Requests |-> FALSE]
  /\ inTool \in SUBSET Requests
  /\ phase = [c \in Conns |-> "idle"] /\ replay = [c \in Conns |-> <<>>]
  /\ frame = [c \in Conns |-> NoEvent] /\ alive = [c \in Conns |-> FALSE]
  /\ got = <<>> /\ waived = {}

Ids(s) == {s[i] : i \in DOMAIN s}
LastN(s, n) == IF Len(s) > n THEN SubSeq(s, Len(s) - n + 1, Len(s)) ELSE s
Waiting == {c \in Conns : phase[c] = "waiting"}

-----------------------------------------------------------------------------
(* Events: session_slot::push under the history's mutex.                   *)

Remember(e) == history' = LastN(Append(history, e), HistoryLimit)

(* The channel hands the event to the waiting stream, or queues it; then   *)
(* the queue is trimmed to the limit, dropping the oldest.                 *)
Enqueue(e) ==
  IF Waiting # {}
  THEN /\ \E c \in Waiting : phase' = [phase EXCEPT ![c] = "handed"] /\ frame' = [frame EXCEPT ![c] = e]
       /\ mailbox' = mailbox
  ELSE mailbox' = LastN(Append(mailbox, e), HistoryLimit) /\ UNCHANGED <<phase, frame>>

Push(what) ==
  LET e == Len(content) + 1
  IN /\ content' = Append(content, what)
     /\ Remember(e)
     /\ IF closed THEN UNCHANGED <<mailbox, phase, frame>> ELSE Enqueue(e)
     /\ UNCHANGED <<closed, replay>>

(* notify(), broadcast(), log() and the notification sink of a request.    *)
Notify ==
  /\ known /\ Cardinality({e \in DOMAIN content : content[e] = Note}) < MaxNotes
  /\ Push(Note)
  /\ UNCHANGED <<storeVars, lastTaken, attached, pending, channel, requestVars,
                 clientVars>>

-----------------------------------------------------------------------------
(* The end of the slot: session_slot::end() closes the mailbox and the     *)
(* channels of the requests that wait; it may run more than once.          *)

(* The stream blocked in async_receive is told that there is no more.      *)
DismissStream == phase' = [c \in Conns |-> IF phase[c] = "waiting" THEN "over" ELSE phase[c]]

(* Defect: the mailbox is left open, and the requests are not told.        *)
DefectEnd ==
  /\ closed' = closed /\ pending' = {}
  /\ UNCHANGED phase
  /\ channel' = [r \in Requests |-> IF r \in pending /\ channel[r] = "open"
                                    THEN "closed" ELSE channel[r]]

End ==
  /\ closed' = TRUE /\ pending' = {}
  /\ DismissStream
  /\ channel' = [r \in Requests |-> IF r \in pending /\ channel[r] = "open"
                                    THEN "closed" ELSE channel[r]]

(* DELETE: end_session() ends the slot and then erases the entry.          *)
DeleteEnd ==
  /\ known /\ ~deleting
  /\ deleting' = TRUE
  /\ End
  /\ UNCHANGED <<known, content, history, mailbox, lastTaken, attached, requestVars,
                 replay, frame, clientVars>>

(* A slot whose entry is gone lives on while a request() holds it; its     *)
(* destructor runs end().                                                  *)
Holders(q) == {r \in Requests : q[r] \in {"peeked", "waiting"}}

DeleteErase ==
  /\ deleting
  /\ deleting' = FALSE /\ known' = FALSE
  /\ IF Holders(req) = {} THEN End ELSE UNCHANGED <<closed, pending, phase, channel>>
  /\ UNCHANGED <<content, history, mailbox, lastTaken, attached, requestVars,
                 replay, frame, clientVars>>

(* context_store::sweep drops an entry that is idle and not locked.        *)
Sweep ==
  /\ known
  /\ Holders(req) \cap inTool = {}
  /\ known' = FALSE
  /\ IF Holders(req) = {} THEN End ELSE UNCHANGED <<closed, pending, phase, channel>>
  /\ UNCHANGED <<deleting, content, history, mailbox, lastTaken, attached, requestVars,
                 replay, frame, clientVars>>

-----------------------------------------------------------------------------
(* request(): the server asks the client.                                  *)

(* What a request leaves behind when it ends: cleanup erases its entry,    *)
(* and the slot is released.                                               *)
Finish(r, how) ==
  /\ req' = [req EXCEPT ![r] = how] /\ timedOut' = [timedOut EXCEPT ![r] = FALSE]
  /\ IF ~known /\ Holders(req') = {}
     THEN End
     ELSE pending' = pending \ {r} /\ UNCHANGED <<closed, phase, channel>>

RequestPeek(r) ==
  /\ req[r] = "idle"
  /\ req' = [req EXCEPT ![r] = IF known THEN "peeked" ELSE "unknown_session"]
  /\ UNCHANGED <<storeVars, eventVars, lastTaken, attached, pending, channel,
                 timedOut, inTool, streamVars, clientVars>>

(* begin_request under the mutex, then the message is pushed and the       *)
(* coroutine waits on the channel with its timer running.                  *)
RequestBegin(r) ==
  /\ req[r] = "peeked"
  /\ req' = [req EXCEPT ![r] = "waiting"]
  /\ pending' = pending \cup {r}
  /\ channel' = [channel EXCEPT ![r] = "open"]
  /\ Push(r)
  /\ UNCHANGED <<storeVars, lastTaken, attached, timedOut, inTool, clientVars>>

(* Defect: the timer only notes the expiry.                                *)
DefectCloseReply(r) == channel' = channel
CloseReply(r) == channel' = [channel EXCEPT ![r] = IF @ = "open" THEN "closed" ELSE @]

(* The request's timer: closing the channel does not take back an answer.  *)
Timer(r) ==
  /\ req[r] = "waiting" /\ ~timedOut[r]
  /\ timedOut' = [timedOut EXCEPT ![r] = TRUE]
  /\ CloseReply(r)
  /\ UNCHANGED <<storeVars, eventVars, lastTaken, attached, pending, req, inTool,
                 streamVars, clientVars>>

(* The client answers a request it has read; deliver_response finds the    *)
(* channel by the answer's id, once.                                       *)
Respond(r) ==
  /\ known /\ r \in pending
  /\ \E e \in Ids(got) : content[e] = r
  /\ pending' = pending \ {r}
  /\ channel' = [channel EXCEPT ![r] = IF @ = "open" THEN "answered" ELSE @]
  /\ UNCHANGED <<storeVars, eventVars, lastTaken, attached, requestVars, streamVars, clientVars>>

(* The coroutine resumes with the answer, or finds the channel closed.     *)
RequestResume(r) ==
  /\ req[r] = "waiting" /\ channel[r] # "open"
  /\ Finish(r, IF channel[r] = "answered" THEN "answered"
               ELSE IF timedOut[r] THEN "timed_out" ELSE "canceled")
  /\ UNCHANGED <<storeVars, content, history, mailbox, lastTaken, attached, inTool,
                 replay, frame, clientVars>>

(* The coroutine that asked, a tool for instance, is cancelled.            *)
RequestCancelled(r) ==
  /\ req[r] = "waiting" /\ channel[r] = "open"
  /\ Finish(r, "canceled")
  /\ UNCHANGED <<storeVars, content, history, mailbox, lastTaken, attached, inTool,
                 replay, frame, clientVars>>

-----------------------------------------------------------------------------
(* GET: the event stream.                                                  *)

(* The events of the history numbered lo..hi; their ids ascend, so that    *)
(* they are a stretch of it.                                               *)
Between(lo, hi) ==
  LET kept == {i \in DOMAIN history : history[i] \in lo..hi}
  IN IF kept = {} THEN <<>> ELSE SubSeq(history, Min(kept), Max(kept))

(* Defect: events still queued are replayed as well.                       *)
DefectReplayAfter(last) == Between(last + 1, Len(content))

(* What an earlier stream took and the client missed.                      *)
ReplayAfter(last) == Between(last + 1, lastTaken)

LastReceived == IF got = <<>> THEN NoEvent ELSE Last(got)

MayAttach == known /\ ~attached

(* stream_handler(), the client asking for what it missed or not; refused  *)
(* with 404 or 409 it has no effect.                                       *)
Get(c) ==
  /\ phase[c] = "idle"
  /\ MayAttach
  /\ attached' = TRUE
  /\ phase' = [phase EXCEPT ![c] = "produce"]
  /\ alive' = [alive EXCEPT ![c] = TRUE]
  /\ \/ replay' = [replay EXCEPT ![c] = ReplayAfter(LastReceived)] /\ UNCHANGED waived
     \/ replay' = [replay EXCEPT ![c] = <<>>] /\ waived' = waived \cup 1..lastTaken
  /\ UNCHANGED <<storeVars, eventVars, lastTaken, pending, channel, requestVars, frame,
                 got>>

(* event_stream: first the replay, then what the mailbox holds; an empty   *)
(* mailbox makes it wait, a closed one ends it.                            *)
Produce(c) ==
  /\ phase[c] = "produce"
  /\ \/ /\ replay[c] # <<>>
        /\ phase' = [phase EXCEPT ![c] = "writing"]
        /\ frame' = [frame EXCEPT ![c] = Head(replay[c])]
        /\ replay' = [replay EXCEPT ![c] = Tail(@)]
        /\ UNCHANGED mailbox
     \/ /\ replay[c] = <<>> /\ mailbox # <<>>
        /\ phase' = [phase EXCEPT ![c] = "handed"]
        /\ frame' = [frame EXCEPT ![c] = Head(mailbox)]
        /\ mailbox' = Tail(mailbox)
        /\ UNCHANGED replay
     \/ /\ replay[c] = <<>> /\ mailbox = <<>>
        /\ phase' = [phase EXCEPT ![c] = IF closed THEN "over" ELSE "waiting"]
        /\ UNCHANGED <<frame, replay, mailbox>>
  /\ UNCHANGED <<storeVars, content, history, closed, lastTaken, attached, pending,
                 channel, requestVars, clientVars>>

(* Defect: the mark is set when the event was written.                     *)
DefectMark(c) == lastTaken' = lastTaken
Mark(c) == lastTaken' = frame[c]

(* The receive resumed with an event.                                      *)
Take(c) ==
  /\ phase[c] = "handed"
  /\ Mark(c)
  /\ phase' = [phase EXCEPT ![c] = "writing"]
  /\ UNCHANGED <<storeVars, eventVars, attached, pending, channel, requestVars, replay,
                 frame, clientVars>>

(* receive_or_keepalive: the timer cancels the receive unless an event is  *)
(* already on its way; the comment it writes carries no event.  A mailbox  *)
(* closed in between ends the stream.                                      *)
Keepalive(c) ==
  /\ phase[c] = "waiting"
  /\ phase' = [phase EXCEPT ![c] = "expired"]
  /\ UNCHANGED <<storeVars, eventVars, lastTaken, attached, pending, channel,
                 requestVars, replay, frame, clientVars>>

KeepaliveResume(c) ==
  /\ phase[c] = "expired"
  /\ phase' = [phase EXCEPT ![c] = IF closed THEN "over" ELSE "writing"]
  /\ frame' = [frame EXCEPT ![c] = NoEvent]
  /\ UNCHANGED <<storeVars, eventVars, lastTaken, attached, pending, channel,
                 requestVars, replay, clientVars>>

(* The stream's own cancellation, at shutdown, ends the receive too.       *)
StreamCancelled(c) ==
  /\ phase[c] = "waiting"
  /\ phase' = [phase EXCEPT ![c] = "over"]
  /\ UNCHANGED <<storeVars, eventVars, lastTaken, attached, pending, channel,
                 requestVars, replay, frame, clientVars>>

(* The session writes the frame.  The peer may be gone, or go now: then    *)
(* writes may succeed, reaching nobody, until one fails and ends the       *)
(* stream.                                                                 *)
Write(c) ==
  /\ phase[c] = "writing"
  /\ \/ /\ alive[c]
        /\ phase' = [phase EXCEPT ![c] = "produce"]
        /\ got' = IF frame[c] = NoEvent THEN got ELSE Append(got, frame[c])
        /\ UNCHANGED alive
     \/ /\ phase' \in {[phase EXCEPT ![c] = p] : p \in {"produce", "over"}}
        /\ alive' = [alive EXCEPT ![c] = FALSE]
        /\ UNCHANGED got
  /\ frame' = [frame EXCEPT ![c] = NoEvent]
  /\ UNCHANGED <<storeVars, eventVars, lastTaken, attached, pending, channel,
                 requestVars, replay, waived>>

(* The stream's coroutine is destroyed, and its attached_guard with it.    *)
Detach(c) ==
  /\ phase[c] = "over"
  /\ phase' = [phase EXCEPT ![c] = "idle"]
  /\ attached' = FALSE
  /\ replay' = [replay EXCEPT ![c] = <<>>]
  /\ alive' = [alive EXCEPT ![c] = FALSE]
  /\ UNCHANGED <<storeVars, eventVars, lastTaken, pending, channel, requestVars,
                 frame, got, waived>>

-----------------------------------------------------------------------------
RequestSteps(r) ==
  RequestPeek(r) \/ RequestBegin(r) \/ Timer(r) \/ Respond(r) \/ RequestResume(r) \/ RequestCancelled(r)
StreamRuns(c) == Produce(c) \/ Take(c) \/ KeepaliveResume(c) \/ Write(c) \/ Detach(c)

Next ==
  \/ Notify \/ DeleteEnd \/ DeleteErase \/ Sweep
  \/ \E r \in Requests : RequestSteps(r)
  \/ \E c \in Conns : StreamRuns(c) \/ Get(c) \/ Keepalive(c) \/ StreamCancelled(c)

Spec == Init /\ [][Next]_vars

(* Timers expire, completions are run and writes end: the executor and the *)
(* send timeout of the HTTP session see to it.  Nothing is assumed of the  *)
(* client, of DELETE or of the sweep.                                      *)
Fairness ==
  /\ \A r \in Requests : WF_vars(RequestBegin(r)) /\ WF_vars(Timer(r)) /\ WF_vars(RequestResume(r))
  /\ \A c \in Conns : WF_vars(StreamRuns(c))
  /\ WF_vars(DeleteErase)
FairSpec == Spec /\ Fairness

-----------------------------------------------------------------------------
(* The state has its shape; neither queue outgrows its limit; the flag     *)
(* says exactly whether the session's one stream exists.                   *)
TypeOK ==
  /\ Len(history) <= HistoryLimit /\ Len(mailbox) <= HistoryLimit
  /\ Cardinality({c \in Conns : phase[c] # "idle"}) = IF attached THEN 1 ELSE 0
  /\ known \in BOOLEAN /\ deleting \in BOOLEAN /\ closed \in BOOLEAN /\ attached \in BOOLEAN
  /\ content \in Seq(Requests \cup {Note}) /\ history \in Seq(Nat) /\ mailbox \in Seq(Nat)
  /\ lastTaken \in Nat /\ pending \subseteq Requests /\ inTool \subseteq Requests
  /\ req \in [Requests -> {"idle", "peeked", "waiting"} \cup Outcomes]
  /\ channel \in [Requests -> {"none", "open", "answered", "closed"}]
  /\ timedOut \in [Requests -> BOOLEAN]
  /\ phase \in [Conns -> {"idle", "produce", "waiting", "handed", "expired", "writing",
                          "over"}]
  /\ replay \in [Conns -> Seq(Nat)] /\ frame \in [Conns -> Nat] /\ alive \in [Conns -> BOOLEAN]
  /\ got \in Seq(Nat) /\ waived \subseteq Nat

(* However often the client's connection drops and whatever was written    *)
(* into the void, what it receives over all its streams is in order and    *)
(* holds nothing twice.                                                    *)
InOrderOnce == \A i, j \in DOMAIN got : i < j => got[i] < got[j]

(* A client that resumes has missed only what is too old for the history:  *)
(* an event it passed over is one it did not ask for, or was trimmed.      *)
NothingSkipped ==
  \A e \in 1..LastReceived : e \in Ids(got) \/ e \in waived \/ e \notin Ids(history)

(* A request() of the server ends, whatever becomes of the client, of the  *)
(* stream and of the session: the timer is the last resort.                *)
RequestsEnd == \A r \in Requests : req[r] = "waiting" ~> req[r] \in Outcomes

(* The event stream ends when its session was deleted or swept, also when  *)
(* a request() keeps the slot alive beyond its entry.                      *)
StreamEnds == \A c \in Conns : ~known /\ phase[c] # "idle" ~> phase[c] = "idle"

(* "errc::operation_canceled if the session ends first": a request that    *)
(* times out does so while its session lives.                              *)
TimeoutsAreTimely ==
  [][\A r \in Requests : req[r] = "waiting" /\ req'[r] = "timed_out" => known]_vars
=============================================================================
