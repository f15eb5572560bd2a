-------------------------------- MODULE Routing --------------------------------
(***************************************************************************)
(* The routing table of an HTTP session: session/http.hpp (registration,   *)
(* interceptors, selection of a route, HEAD from GET, 405 and 404), with   *)
(* handler/path_arg_check.hpp, handler/guard.hpp and what REST handlers    *)
(* and the API document make of the routes.                                *)
(*                                                                         *)
(* A route: expr (its matcher), kind ("rest", "plain", a callable, or      *)
(* "raw"), params (its argument providers), guard ("none", "reject",       *)
(* "attach" or "throws"), result ("ok" or the code its handler throws),    *)
(* described (registered with the document's describer).                   *)
(***************************************************************************)
EXTENDS ApiDocument

CONSTANTS
  RoutePool,        \* routes the application may register
  InterceptorPool,  \* interceptors: [expr, does]; does \in {"reject", "attach", "throws"}
  RequestPool,      \* requests a client may send
  Methods,          \* methods a client may use
  Schemes,          \* the document's security schemes
  MaxRoutes,        \* bound: registrations
  MaxInterceptors   \* bound: interceptors

VARIABLES
  routes,               \* matcher_handlers_
  route_methods,        \* route_methods_: [template, methods]
  needs_parsed_target,  \* needs_parsed_target_
  interceptors,         \* interceptors_
  operations,           \* the document's operations_
  head_from_get,        \* head_from_get_
  method_not_allowed,   \* method_not_allowed_enabled_
  last                  \* the last registration or request and what became of it

vars == <<routes, route_methods, needs_parsed_target, interceptors, operations, head_from_get, method_not_allowed, last>>

Nothing == [did |-> "nothing"]

Init ==
  /\ routes = <<>> /\ route_methods = <<>> /\ interceptors = <<>> /\ operations = <<>>
  /\ needs_parsed_target = FALSE
  /\ head_from_get \in BOOLEAN /\ method_not_allowed \in BOOLEAN
  /\ last = Nothing

-----------------------------------------------------------------------------
(* Registration.                                                           *)

HasTarget(expr) == Templates(expr) # <<>>

(* target == "..." throws for a template that does not parse.              *)
MatcherThrows(expr) == \E i \in DOMAIN Templates(expr) : ~IsTemplate(Templates(expr)[i])

DefectPathArgsMissing(route) ==
  /\ route.kind = "rest" /\ HasTarget(route.expr) /\ PathArgNames(route.params) # {}
  /\ \A i \in DOMAIN Templates(route.expr) : Names(Templates(route.expr)[i]) = {}

(* validate_path_args_against_target: the placeholders of all templates of *)
(* the matcher count together.                                             *)
PathArgsMissing(route) ==
  /\ route.kind = "rest" /\ HasTarget(route.expr)
  /\ \E name \in PathArgNames(route.params) :
       \A i \in DOMAIN Templates(route.expr) : name \notin Names(Templates(route.expr)[i])

(* The observer runs before the route is installed and may throw.          *)
ObserverThrows(route) == route.described /\ AlreadyDescribed(operations, Summary(route.expr))

Refused(route) == MatcherThrows(route.expr) \/ PathArgsMissing(route) \/ ObserverThrows(route)

RecordRouteMethods(expr) ==
  route_methods' = IF Expressible(expr)
                   THEN Append(route_methods, [template |-> Summary(expr).template, methods |-> Summary(expr).methods])
                   ELSE route_methods

InstallHandler(route) ==
  /\ routes' = Append(routes, route)
  /\ needs_parsed_target' = (needs_parsed_target \/ HasTarget(route.expr))
  /\ RecordRouteMethods(route.expr)

Register(route) ==
  /\ last = Nothing /\ Len(routes) < MaxRoutes
  /\ IF Refused(route)
     THEN /\ last' = [did |-> "refused", route |-> route]
          /\ UNCHANGED <<routes, route_methods, needs_parsed_target, operations>>
     ELSE /\ InstallHandler(route)
          /\ operations' = IF route.described
                           THEN Append(operations, Recorded(Schemes, Summary(route.expr), route.params))
                           ELSE operations
          /\ UNCHANGED last
  /\ UNCHANGED <<interceptors, head_from_get, method_not_allowed>>

AddInterceptor(i) ==
  /\ last = Nothing /\ Len(interceptors) < MaxInterceptors /\ routes = <<>>
  /\ interceptors' = Append(interceptors, i)
  /\ needs_parsed_target' = (needs_parsed_target \/ HasTarget(i.expr))
  /\ UNCHANGED <<routes, route_methods, operations, last, head_from_get, method_not_allowed>>

-----------------------------------------------------------------------------
(* A request.                                                              *)

DefectArgsBefore(args) == args

(* Every candidate starts with no path arguments.                          *)
ArgsBefore(args) == NoArgs

(* find_if over the routes: 0 if none matches. from: the candidate to try. *)
RECURSIVE SelectFrom(_, _, _)
SelectFrom(from, request, args) ==
  IF from > Len(routes) THEN [route |-> 0, args |-> args]
  ELSE LET m == Eval(routes[from].expr, request, ArgsBefore(args))
       IN  IF m.ok THEN [route |-> from, args |-> m.args] ELSE SelectFrom(from + 1, request, m.args)

(* A HEAD request no route matches is tried again as a GET.                *)
Select(request) ==
  LET own == SelectFrom(1, request, NoArgs)
  IN  IF own.route = 0 /\ head_from_get /\ request.method = "HEAD"
      THEN SelectFrom(1, [request EXCEPT !.method = "GET"], own.args)
      ELSE own

(* Methods of the expressible routes whose template matches the path.      *)
KnownMethods(request) ==
  UNION {ToSet(route_methods[i].methods) :
           i \in {j \in DOMAIN route_methods : MatchTarget(route_methods[j].template, request.path, NoArgs).ok}}

DefectAllowedMethods(request) == IF request.method \in KnownMethods(request) THEN {} ELSE KnownMethods(request)

AllowedMethods(request) ==
  LET known == KnownMethods(request)
      methods == known \cup (IF head_from_get /\ "GET" \in known THEN {"HEAD"} ELSE {})
  IN  IF request.method \in methods THEN {} ELSE methods

Allow(request) == IF method_not_allowed THEN AllowedMethods(request) ELSE {}

(* The interceptor, if any, that ends the request; before it those that    *)
(* attach an attribute have done so. Each matches in a context of its own. *)
Matching(request) == SelectSeq(interceptors, LAMBDA i : Eval(i.expr, request, NoArgs).ok)
Ending(request) == SelectSeq(Matching(request), LAMBDA i : i.does # "attach")
Attached(request) == IF \E i \in DOMAIN Matching(request) : Matching(request)[i].does = "attach" THEN {"user"} ELSE {}

(* What a failure the session's soft error handler sees turns into: its    *)
(* status, or, for a 500, the end of the connection.                       *)
SoftError(code) == IF HttpStatusFor(code) = "500" THEN "torn down" ELSE HttpStatusFor(code)

(* The handler: its guard, its arguments, itself. A raw handler takes the  *)
(* connection over.                                                        *)
HandlerAnswers(route, request, args, attributes) ==
  LET all == attributes \cup (IF route.guard = "attach" THEN {"user"} ELSE {})
      codes == IF route.kind = "rest" THEN ArgCodes(route.params, request, args, all) ELSE {"ok"}
  IN  CASE route.kind = "raw" -> {"taken over"}
        [] route.kind # "raw" /\ route.guard = "reject" -> {"rejected"}
        [] route.kind # "raw" /\ route.guard = "throws" -> {SoftError("foreign")}
        [] route.kind # "raw" /\ route.guard \in {"none", "attach"} ->
             IF codes = {"ok"} THEN {IF route.result = "ok" THEN "200" ELSE SoftError(route.result)}
             ELSE {SoftError(c) : c \in codes}

Answered(request, answer, route, args) ==
  last' = [did |-> "answered", request |-> request, answer |-> answer, route |-> route, args |-> args,
           allow |-> IF answer = "405" THEN Allow(request) ELSE {}]

(* url_view throws for a target that is no URL.                            *)
IsMalformed(request) == needs_parsed_target /\ request.path = <<"malformed">>

Serve(request) ==
  LET chosen == Select(request)
  IN  /\ last = Nothing
      /\ CASE IsMalformed(request) -> Answered(request, "torn down", 0, NoArgs)
           [] ~IsMalformed(request) /\ Ending(request) # <<>> ->
                Answered(request,
                         IF Ending(request)[1].does = "reject" THEN "rejected" ELSE SoftError("foreign"),
                         0, NoArgs)
           [] ~IsMalformed(request) /\ Ending(request) = <<>> /\ chosen.route # 0 ->
                \E a \in HandlerAnswers(routes[chosen.route], request, chosen.args, Attached(request)) :
                  Answered(request, a, chosen.route, chosen.args)
           [] OTHER -> Answered(request, IF Allow(request) = {} THEN "404" ELSE "405", 0, NoArgs)
      /\ UNCHANGED <<routes, route_methods, needs_parsed_target, interceptors, operations, head_from_get, method_not_allowed>>

(* The table outlives the request: what comes next starts from it alone.   *)
NextTurn ==
  /\ last # Nothing /\ last' = Nothing
  /\ UNCHANGED <<routes, route_methods, needs_parsed_target, interceptors, operations, head_from_get, method_not_allowed>>

Next ==
  \/ NextTurn
  \/ \E route \in RoutePool : Register(route)
  \/ \E i \in InterceptorPool : AddInterceptor(i)
  \/ \E request \in RequestPool : Serve(request)

Spec == Init /\ [][Next]_vars

-----------------------------------------------------------------------------
(* Properties.                                                             *)

(* A template read as a grammar: which paths it describes, whichever way   *)
(* its greedy placeholders are filled, and which arguments spell a path.   *)
Fills(segment, part, args, any) ==
  CASE segment.type = "literal" -> part = <<segment.value>>
    [] segment.type = "param" -> Len(part) = 1 /\ (any \/ args[segment.value] = part[1])
    [] segment.type = "greedy_param" -> any \/ args[segment.value] = Join(part)

RECURSIVE Spells(_, _, _, _)
Spells(segments, path, args, any) ==
  IF segments = <<>> THEN path = <<>>
  ELSE \E k \in 0..Len(path) :
         /\ Fills(segments[1], SubSeq(path, 1, k), args, any)
         /\ Spells(Tail(segments), SubSeq(path, k + 1, Len(path)), args, any)

Describes(template, path) == Spells(ParseTemplate(template).segments, path, NoArgs, TRUE)
SpelledBy(template, path, args) == Spells(ParseTemplate(template).segments, path, args, FALSE)

GreedyOnlyLast(template) ==
  LET segments == ParseTemplate(template).segments
  IN  \A i \in DOMAIN segments : segments[i].type = "greedy_param" => i = Len(segments)

(* Only methods and a path.                                                *)
IsBare(expr) == Expressible(expr) /\ \A i \in DOMAIN Flatten(expr) : Flatten(expr)[i].leaf \in {"method_eq", "target"}

IsAnswer == last.did = "answered"
Reached == IsAnswer /\ last.route # 0
Unrouted == IsAnswer /\ last.answer \in {"404", "405"}

(* The arguments a handler sees are those of its own route's template and  *)
(* put together they spell the path of the request: nothing is left of the *)
(* candidates, interceptors and retries before it. And no earlier route    *)
(* with only methods and a template without inner greedy placeholder that  *)
(* describes the path was passed over.                                     *)
RoutedByThePath ==
  /\ Reached /\ Expressible(routes[last.route].expr) =>
       LET template == Summary(routes[last.route].expr).template
       IN  /\ DOMAIN last.args = Names(template)
           /\ SpelledBy(template, last.request.path, last.args)
  /\ Reached \/ Unrouted =>
       \A i \in 1..(IF Reached THEN last.route - 1 ELSE Len(routes)) :
         LET summary == Summary(routes[i].expr)
         IN  IsBare(routes[i].expr) /\ GreedyOnlyLast(summary.template) /\ last.request.method \in ToSet(summary.methods) =>
               ~Describes(summary.template, last.request.path)

(* A handler that was accepted at registration finds every path argument   *)
(* it asks for, on a route that is taken only if its one target matched.   *)
PathArgsArePresent ==
  Reached =>
    LET route == routes[last.route]
        shape == Shape(route.expr)
    IN  route.kind = "rest" /\ shape.valid /\ shape.targets = 1 => PathArgNames(route.params) \subseteq DOMAIN last.args

Served(method) == LET s == Select([last.request EXCEPT !.method = method]).route
                  IN  s # 0 /\ Expressible(routes[s].expr)

(* Allow tells the truth: after a 405 every method that another try would  *)
(* serve through a route a document can express is listed, and, if the     *)
(* routes ask for nothing but a method and a path, every listed method     *)
(* would be served. After a 404 no other method is served, unless a route  *)
(* of this path takes the method and something else kept it away.          *)
AllowIsTrue ==
  Unrouted /\ method_not_allowed =>
    LET served == {m \in Methods : Served(m)}
    IN  /\ last.answer = "405" =>
             /\ served \subseteq last.allow
             /\ (\A i \in DOMAIN routes : IsBare(routes[i].expr)) => last.allow \subseteq served
        /\ last.answer = "404" =>
             served = {} \/ last.request.method \in KnownMethods(last.request) \cup {"HEAD"}

(* Whether a request keeps to what the document says of an operation.      *)
DocumentedAs(operation, path) ==
  \E template \in {operation.route.template} : GreedyOnlyLast(template) /\ Describes(template, path)

ValuesFor(request, param) ==
  CASE param.in = "query" -> Values(request.query, param.name)
    [] param.in = "header" -> Values(request.headers, param.name)
    [] param.in = "cookie" -> Values(request.cookies, param.name)
    [] OTHER -> <<"in the path">>

(* Single values that fit every type the pools use and every maximum.      *)
Fitting(values) == Len(values) = 1 /\ values[1] \in {"7", "in the path"}

KeepsToParams(operation, request) ==
  \A param \in operation.params : Fitting(ValuesFor(request, param)) \/ (~param.required /\ ValuesFor(request, param) = <<>>)

KeepsToBody(operation, request) ==
  \A body \in operation.body : body.content_types \cap MediaTypes(request) # {} /\ request.body = "json"

(* The document keeps its word: a request for a documented path and method *)
(* that gives what the document requires is served, by that operation's    *)
(* route or an earlier one, and is not called a bad request by it; one     *)
(* that lacks a required parameter of the handler is. (Constraints on the  *)
(* HTTP version are not documented; the pool has no such described route.) *)
DocumentIsTrue ==
  \A i \in DOMAIN operations :
    LET op == operations[i]
        mine == {r \in DOMAIN routes : routes[r].described /\ Summary(routes[r].expr) = op.route}
    IN  IsAnswer /\ interceptors = <<>> /\ ~IsMalformed(last.request) /\ last.request.origin_form /\ last.request.method \in ToSet(op.methods)
        /\ DocumentedAs(op, last.request.path) =>
          /\ KeepsToParams(op, last.request) /\ KeepsToBody(op, last.request) =>
               /\ Reached
               /\ \E r \in mine : last.route <= r
               /\ last.route \in mine => last.answer # "400"
          /\ Reached /\ last.route \in mine /\ routes[last.route].guard = "none"
             /\ (\E param \in op.params : param.required /\ ValuesFor(last.request, param) = <<>>) =>
               last.answer = "400"

=============================================================================
