-------------------------------- MODULE McpHttp --------------------------------
(***************************************************************************)
(* mcp/endpoint.hpp, the HTTP transport: every message of a client is a    *)
(* request of its own on the endpoint's route (handle, handle_post), and   *)
(* the requests of all clients run at the same time.  A stateful endpoint  *)
(* makes a session on "initialize", finds it again by the Mcp-Session-Id   *)
(* header and serves its calls one at a time under its lock; a stateless   *)
(* one serves everything at once.  What is answered to a message is        *)
(* McpDispatch's; the lock's hand-over and the expiry of sessions are      *)
(* ContextStore's, here a queue and an idle session that may go.           *)
(***************************************************************************)
EXTENDS McpDispatch, FiniteSets

CONSTANTS
  Clients,
  HttpMessages, (* what a client may send: McpDispatch's records with three members more: verb, the request's method; head, "ok" or what the headers fail; hangs, whether the callable goes on until it is cancelled; a cancellation names a call by its member target *)
  MaxRequests,  (* bound: calls                                            *)
  MaxCreated    (* bound: sessions created                                 *)

ASSUME HttpMessagesAssumption == \A m \in HttpMessages : WellFormed(m)

VARIABLES
  stateful,     \* which kind of endpoint
  known,        \* the store's entries
  created,      \* sessions created so far
  sid,          \* per client, the session id it was given, NoSession if none
  queue,        \* per session, the calls that hold and wait for its lock
  requests,     \* the requests that became a call, in the order they were sent
  atOnce,       \* the last answer given without a call
  asked         \* history: calls whose own client has asked to cancel them

sessionVars == <<known, created, sid>>
httpMoving == <<sessionVars, queue, requests, atOnce, asked>>
httpVars == <<stateful, httpMoving>>

NoSession == 0
SessionIds == 1..MaxCreated
Unanswered == [status |-> "none", reply |-> "none"]

HttpInit ==
  /\ stateful \in BOOLEAN
  /\ known = {} /\ created = 0 /\ sid = [c \in Clients |-> NoSession]
  /\ queue = [s \in SessionIds |-> <<>>]
  /\ requests = <<>> /\ atOnce = Unanswered /\ asked = {}

-----------------------------------------------------------------------------
(* Answers.                                                                *)

(* to_http: nothing to say is an acknowledgement.                          *)
ToHttp(reply) == [status |-> IF reply = "none" THEN "202" ELSE "200", reply |-> reply]

Plainly(status) == [status |-> status, reply |-> "none"]

(* Defect: a cancellation waits for the session like any other message.    *)
DefectPassesLock(m) == FALSE

(* Handled before the session is looked up, so also while a call holds it. *)
PassesLock(m) == m.method = "notifications/cancelled"

Serves(m) == m.shape = "envelope" /\ m.method # "initialize" /\ ~PassesLock(m)

(* handle() and handle_post() up to the message they serve: the answer     *)
(* given at once, Unanswered if none.                                      *)
Refusal(s, m) ==
  CASE m.head = "origin" -> Plainly("403")
    [] m.head # "origin" /\ (m.verb = "get" \/ (m.verb = "delete" /\ ~stateful)) -> Plainly("405")
    [] m.verb = "post" /\ m.head \notin {"ok", "origin"} -> Plainly("400")
    [] m.verb = "post" /\ m.head = "ok" /\ m.shape # "envelope" -> ToHttp(ShapeReply(m))
    [] /\ stateful /\ m.head # "origin"
       /\ m.verb = "delete" \/ (m.verb = "post" /\ m.head = "ok" /\ Serves(m))
       /\ s \notin known -> Plainly(IF s = NoSession THEN "400" ELSE "404")
    [] OTHER -> Unanswered

(* The session a message belongs to; a stateless endpoint has none, and    *)
(* all its calls have the same scope.                                      *)
ScopeKey(s) == IF stateful THEN s ELSE NoSession

Runs(p) == requests[p].st = "running"

(* Defect: ids of different sessions collide.                              *)
DefectRegistered(s, id) ==
  {p \in DOMAIN requests : Runs(p) /\ HasScope(requests[p].msg) /\ requests[p].msg.id = id}

(* The requests whose scope is registered under this key and alive.        *)
Registered(s, id) ==
  {p \in DOMAIN requests : /\ Runs(p) /\ HasScope(requests[p].msg)
                           /\ requests[p].session = s
                           /\ requests[p].msg.id = id}

-----------------------------------------------------------------------------
(* A client sends a request, with or without the session id it was given.  *)

Refuse(s, m) ==
  /\ Refusal(s, m) # Unanswered
  /\ atOnce' = Refusal(s, m)
  /\ UNCHANGED <<sessionVars, queue, requests, asked>>

(* "initialize": the hook may fail, and the session just created is ended  *)
(* again.                                                                  *)
InitializeSession(c, s, m) ==
  /\ m.verb = "post" /\ m.method = "initialize" /\ Refusal(s, m) = Unanswered
  /\ atOnce' = ToHttp(IF m.fails = "no" THEN UnlessNotification(m, "result") ELSE MapFailure(m.fails))
  /\ IF stateful
     THEN /\ created < MaxCreated /\ created' = created + 1
          /\ known' = IF m.fails = "no" THEN known \cup {created'} ELSE known
          /\ sid' = IF m.fails = "no" THEN [sid EXCEPT ![c] = created'] ELSE sid
     ELSE UNCHANGED sessionVars
  /\ UNCHANGED <<queue, requests, asked>>

(* DELETE: end_session; calls that run or wait go on.                      *)
Delete(s, m) ==
  /\ m.verb = "delete" /\ Refusal(s, m) = Unanswered
  /\ known' = known \ {s}
  /\ atOnce' = Plainly("200")
  /\ UNCHANGED <<created, sid, queue, requests, asked>>

(* The calls a cancellation is meant for.                                  *)
Meant(c, m) ==
  {p \in DOMAIN requests : Runs(p) /\ requests[p].client = c /\ requests[p].session = ScopeKey(sid[c])
                           /\ HasScope(requests[p].msg)
                           /\ requests[p].msg.id = m.target}

Note(c, s, m) ==
  asked' = IF m.method = "notifications/cancelled" /\ ScopeKey(s) = ScopeKey(sid[c]) THEN asked \cup Meant(c, m) ELSE asked

Cancelling(targets) ==
  [p \in DOMAIN requests |-> IF p \in targets THEN [requests[p] EXCEPT !.cancelled = TRUE] ELSE requests[p]]

CancelInSession(c, s, m) ==
  /\ m.verb = "post" /\ m.shape = "envelope" /\ m.head = "ok" /\ PassesLock(m)
  /\ requests' = Cancelling(Registered(ScopeKey(s), m.target))
  /\ atOnce' = ToHttp("none")
  /\ UNCHANGED <<sessionVars, queue>>
  /\ Note(c, s, m)

(* run(): the session's lock, in the order it was asked for.               *)
Serve(c, s, m) ==
  /\ m.verb = "post" /\ Serves(m) /\ Refusal(s, m) = Unanswered
  /\ Len(requests) < MaxRequests
  /\ requests' = Append(requests, [client |-> c, session |-> ScopeKey(s), msg |-> m, cancelled |-> FALSE,
                             answer |-> Unanswered,
                             st |-> IF stateful /\ queue[s] # <<>> THEN "waiting" ELSE "running"])
  /\ queue' = IF stateful THEN [queue EXCEPT ![s] = Append(@, Len(requests) + 1)] ELSE queue
  /\ UNCHANGED <<sessionVars, atOnce>>
  /\ Note(c, s, m)

Post(c, s, m) ==
  /\ s \in {NoSession, sid[c]}
  /\ \/ Refuse(s, m) \/ InitializeSession(c, s, m) \/ Delete(s, m)
     \/ CancelInSession(c, s, m) \/ Serve(c, s, m)

-----------------------------------------------------------------------------
(* The calls.                                                              *)

ReplyToRequest(p) ==
  Reply(requests[p].msg, requests[p].cancelled, Place(stateful, requests[p].session \in known))

(* What escapes dispatch() is the HTTP session's to answer.                *)
AnswerOf(p) == IF Throws(requests[p].msg) THEN Plainly("error") ELSE ToHttp(ReplyToRequest(p))

Released(p) == IF stateful THEN [queue EXCEPT ![requests[p].session] = Tail(@)] ELSE queue

(* The callable ends; a call that is cancelled is interrupted.  The lock   *)
(* goes to the call that waits longest.                                    *)
FinishRequest(p) ==
  /\ Runs(p) /\ (requests[p].msg.hangs => requests[p].cancelled)
  /\ queue' = Released(p)
  /\ requests' = [q \in DOMAIN requests |->
       IF q = p THEN [requests[q] EXCEPT !.st = "answered", !.answer = AnswerOf(p)]
       ELSE IF \E s \in SessionIds : queue'[s] # <<>> /\ Head(queue'[s]) = q
            THEN [requests[q] EXCEPT !.st = "running"] ELSE requests[q]]
  /\ UNCHANGED <<sessionVars, atOnce, asked>>

(* A sweep finds a session idle: nobody holds its lock.                    *)
Expire(s) ==
  /\ s \in known /\ queue[s] = <<>>
  /\ known' = known \ {s}
  /\ UNCHANGED <<created, sid, queue, requests, atOnce, asked>>

HttpStep ==
  \/ \E c \in Clients, s \in SessionIds \cup {NoSession}, m \in HttpMessages : Post(c, s, m)
  \/ \E p \in DOMAIN requests : FinishRequest(p)
  \/ \E s \in SessionIds : Expire(s)

HttpNext == HttpStep /\ UNCHANGED stateful

(* The executors run what is ready, and callables that end by themselves   *)
(* or are interrupted do end.                                              *)
HttpSpec ==
  /\ HttpInit /\ [][HttpNext]_httpVars
  /\ \A p \in 1..MaxRequests : WF_httpMoving(p \in DOMAIN requests /\ FinishRequest(p))

-----------------------------------------------------------------------------
(* Properties.                                                             *)

Answered(p) == requests[p].st = "answered"

(* A request, as opposed to a notification.                                *)
IsRequest(p) == requests[p].msg.shape = "envelope" /\ ExpectsAnswer(requests[p].msg) /\ requests[p].msg.verb = "post"

(* A request is acknowledged without an answer only if its own client has  *)
(* asked for its cancellation: neither an equal id in another session, nor *)
(* a session that ends while its calls run or wait, leaves a client        *)
(* without the result it waits for.                                        *)
SilentOnlyIfAsked ==
  \A p \in DOMAIN requests : IsRequest(p) /\ Answered(p) /\ requests[p].answer.status = "202" => p \in asked
RequestsAreAnswered == stateful => SilentOnlyIfAsked

(* A call that goes on until it is cancelled, and was not asked to stop.   *)
Hangs(p) == Runs(p) /\ requests[p].msg.hangs /\ p \notin asked

(* Every request is answered, also when its session is deleted while it    *)
(* waits or the call before it fails, unless a call it waits for goes on   *)
(* for ever; and such a call can always be cancelled by its client, though *)
(* it holds the session.                                                   *)
PostsEnd ==
  \A p \in 1..MaxRequests :
    (p \in DOMAIN requests) ~> \E q \in DOMAIN requests : (q = p /\ Answered(q)) \/ (q <= p /\ Hangs(q))

(* jsonrpc/endpoint.hpp: the scope key is a namespace for ids "so that     *)
(* equal ids from different clients do not collide"; for any endpoint.     *)
EqualIdsDoNotCollide == SilentOnlyIfAsked
=============================================================================
