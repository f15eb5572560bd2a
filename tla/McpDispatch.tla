----------------------------- MODULE McpDispatch -----------------------------
(***************************************************************************)
(* What becomes of one JSON-RPC message: jsonrpc/envelope.hpp and          *)
(* jsonrpc/endpoint.hpp (parsing, custom methods, error mapping) and the   *)
(* method dispatch of mcp/endpoint.hpp.                                    *)
(*                                                                         *)
(* A message is a record:                                                  *)
(*   shape   "junk" (no JSON), "batch", "response", "invalid" (JSON but no *)
(*           envelope) or "envelope"                                       *)
(*   method  the envelope's method, NoMethod otherwise                     *)
(*   id      the envelope's id; NoId makes it a notification               *)
(*   params  "ok", "malformed" (a required member is missing or has the    *)
(*           wrong type) or "unknown" (names nothing that is registered)   *)
(*   fails   how the callable that serves it ends: "no" for a result, or   *)
(*           the category of the failure it throws                         *)
(* A reply is "none", "result", or the JSON-RPC error code it carries.     *)
(***************************************************************************)
EXTENDS Naturals, Sequences

NoId == "no id"
NoMethod == "no method"

ParseError == "-32700"
InvalidRequest == "-32600"
MethodNotFound == "-32601"
InvalidParams == "-32602"
InternalError == "-32603"
ResourceNotFound == "-32002"
RequestCancelled == "-32800"

(* Methods with a callable that runs under the request's scope, with a     *)
(* synchronous one, and without.                                           *)
Scoped == {"tools/call", "prompts/get", "resources/read", "custom"}
Lists == {"tools/list", "prompts/list", "resources/list", "resources/templates/list"}
Subscriptions == {"resources/subscribe", "resources/unsubscribe"}

Failures == {"taar", "unknown_exception", "jsonrpc", "mcp_wire_code", "mcp", "foreign"}

(* Where a message is served: whether the endpoint has sessions, and       *)
(* whether the store still has the one it was sent to.                     *)
Place(stateful, known) == [stateful |-> stateful, known |-> known]

WellFormed(m) ==
  /\ m.shape \in {"junk", "batch", "response", "invalid", "envelope"}
  /\ m.params \in {"ok", "malformed", "unknown"}

IsNotification(m) == m.id = NoId

(* The requests that register a scope, under which they can be cancelled:  *)
(* the methods of the protocol do so once their parameters were checked, a *)
(* custom method leaves its parameters to its callable.                    *)
HasScope(m) == ~IsNotification(m) /\ m.method \in Scoped /\ (m.params = "ok" \/ m.method = "custom")

-----------------------------------------------------------------------------
(* Error mapping.                                                          *)

(* jsonrpc::default_error_mapper: by category only.                        *)
DefaultErrorMapper(f) ==
  CASE f = "jsonrpc" -> InvalidRequest          \* its own code, whichever it is
    [] f = "taar" -> InvalidParams
    [] OTHER -> InternalError

(* mcp::endpoint::map_failure: codes with a wire code of their own keep it.*)
MapFailure(f) == IF f = "mcp_wire_code" THEN ResourceNotFound ELSE DefaultErrorMapper(f)

(* default_tool_error_handler: the tool's own failures are results that    *)
(* say isError, the rest stay protocol errors.                             *)
MapToolError(f) ==
  IF f \in {"taar", "jsonrpc", "mcp_wire_code", "mcp"} THEN MapFailure(f) ELSE "result"

-----------------------------------------------------------------------------
(* One operator per method of dispatch_impl: the checks of its parameters, *)
(* then how its callable ended.  A call whose scope was cancelled meanwhile *)
(* says nothing; a custom method says so.                                  *)

CallTool(m, cancelled) ==
  CASE m.params # "ok" -> InvalidParams
    [] m.params = "ok" /\ cancelled -> "none"
    [] m.params = "ok" /\ ~cancelled -> IF m.fails = "no" THEN "result" ELSE MapToolError(m.fails)

GetPrompt(m, cancelled) ==
  CASE m.params # "ok" -> InvalidParams
    [] m.params = "ok" /\ cancelled -> "none"
    [] m.params = "ok" /\ ~cancelled -> IF m.fails = "no" THEN "result" ELSE MapFailure(m.fails)

ReadResource(m, cancelled) ==
  CASE m.params = "malformed" -> InvalidParams
    [] m.params = "unknown" -> ResourceNotFound
    [] m.params = "ok" /\ cancelled -> "none"
    [] m.params = "ok" /\ ~cancelled -> IF m.fails = "no" THEN "result" ELSE MapFailure(m.fails)

(* jsonrpc::endpoint::dispatch: a method of the program's own.             *)
Custom(m, cancelled) ==
  CASE m.method # "custom" -> MethodNotFound
    [] m.method = "custom" /\ cancelled -> RequestCancelled
    [] m.method = "custom" /\ ~cancelled -> IF m.fails = "no" THEN "result" ELSE DefaultErrorMapper(m.fails)

Complete(m) == IF m.params # "ok" THEN InvalidParams ELSE "result"

(* A cursor that is no position in the list.                               *)
Paginate(m) == IF m.params = "malformed" THEN InvalidParams ELSE "result"

Subscribe(m, at) ==
  CASE ~at.stateful -> MethodNotFound
    [] at.stateful /\ m.params = "malformed" -> InvalidParams
    [] at.stateful /\ m.params # "malformed" -> IF at.known THEN "result" ELSE InvalidRequest

SetLevel(m, at) ==
  CASE m.params = "malformed" -> InvalidParams
    [] m.params # "malformed" -> IF at.stateful THEN "result" ELSE MethodNotFound

(* dispatch_impl returns these answers at once, not through its last       *)
(* statement, which drops the answer to a notification.                    *)
SkipsLastStatement(m, at) == m.method = "logging/setLevel" /\ SetLevel(m, at) # "result"

UnlessNotification(m, reply) == IF IsNotification(m) THEN "none" ELSE reply

(* dispatch_impl for what throws nothing.                                  *)
ReplyTo(m, cancelled, at) ==
  LET reply == CASE m.method = "tools/call" -> CallTool(m, cancelled)
                 [] m.method = "prompts/get" -> GetPrompt(m, cancelled)
                 [] m.method = "resources/read" -> ReadResource(m, cancelled)
                 [] m.method = "completion/complete" -> Complete(m)
                 [] m.method \in Lists -> Paginate(m)
                 [] m.method \in Subscriptions -> Subscribe(m, at)
                 [] m.method = "logging/setLevel" -> SetLevel(m, at)
                 [] m.method = "ping" -> "result"
                 [] m.method = "notifications/custom" -> "none"
                 [] OTHER -> Custom(m, cancelled)
  IN IF SkipsLastStatement(m, at) THEN reply ELSE UnlessNotification(m, reply)

(* A synchronous callable (a completer, a handler of client notifications) *)
(* is called outside the try block of the scoped ones; dispatch() catches  *)
(* the failures of the JSON-RPC category only.                             *)
Reached(m) == m.method = "notifications/custom" \/ (m.method = "completion/complete" /\ m.params = "ok")
Throws(m) == Reached(m) /\ m.fails \notin {"no", "jsonrpc"}

(* dispatch_impl returns nothing for the methods under "notifications/",    *)
(* even when such a message comes with an id.                              *)
ExpectsAnswer(m) == ~IsNotification(m) /\ m.method # "notifications/custom"

(* dispatch(): what it catches keeps its code.                             *)
Reply(m, cancelled, at) ==
  IF Reached(m) /\ m.fails = "jsonrpc" THEN UnlessNotification(m, DefaultErrorMapper(m.fails))
  ELSE ReplyTo(m, cancelled, at)

-----------------------------------------------------------------------------
(* Answers to what is not an envelope, or may not be sent: the id of an    *)
(* invalid envelope is returned when it has one.                           *)
ShapeReply(m) ==
  CASE m.shape = "junk" -> ParseError
    [] m.shape \in {"batch", "invalid"} -> InvalidRequest
    [] m.shape = "response" -> "none"
=============================================================================
