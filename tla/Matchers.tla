------------------------------- MODULE Matchers -------------------------------
(***************************************************************************)
(* What a matcher says of a request: matcher/*.hpp.                        *)
(*                                                                         *)
(* A matcher is a tree of records. Its leaves are                          *)
(*   [leaf |-> "method_eq" or "method_ne", verb]                           *)
(*   [leaf |-> "target", template]          template: a sequence of chars  *)
(*   [leaf |-> "header_eq", "header_ne" or "header_exists", key, value]    *)
(*   [leaf |-> "cookie_eq", "cookie_ne" or "cookie_exists", key, value]    *)
(*   [leaf |-> "version_eq", "_ne", "_lt", "_le", "_gt" or "_ge", number]  *)
(*   [leaf |-> "callable", accepts]         an opaque predicate            *)
(* and its nodes [op |-> "not", of] and [op |-> "and" or "or", l, r].      *)
(*                                                                         *)
(* A request is a record: method, path (the decoded segments of its        *)
(* target), version, and headers and cookies, functions from names to      *)
(* sequences of values. Path arguments are a function from names to        *)
(* strings: context.path_args.                                             *)
(***************************************************************************)
EXTENDS Integers, Sequences, SequencesExt, TLC

Letters == {"a", "b", "x", "y"}
Digits == {"1"}

ParamStart == Letters \cup {"_"}
ParamChar == Letters \cup Digits \cup {"-", ".", "_", "~"}
LiteralChar ==
  Letters \cup Digits \cup {"-", ".", "_", "~", "!", "$", "&", "'", "(", ")", "*", "+", ",", ";", "=", ":", "@"}

NoArgs == [name \in {} |-> ""]

(* std::unordered_map::emplace: the first value of a name stays.           *)
Emplace(args, name, value) == IF name \in DOMAIN args THEN args ELSE args @@ (name :> value)

Join(segments) ==
  FoldLeft(LAMBDA joined, s : joined \o s[1] \o s[2], "",
           [i \in DOMAIN segments |-> <<IF i = 1 THEN "" ELSE "/", segments[i]>>])

-----------------------------------------------------------------------------
(* parse_template: one step of the automaton for each character.           *)

Failed(s, error) == [s EXCEPT !.at = "failed", !.error = error]

StartValue(s, at, c) == [s EXCEPT !.at = at, !.value = c]

PushSegment(s, at, type) ==
  [s EXCEPT !.at = at, !.segments = Append(@, [type |-> type, value |-> s.value])]

InStart(s, c) == IF c = "/" THEN [s EXCEPT !.at = "start_segment"] ELSE Failed(s, "no_absolute_template")

InStartSegment(s, c) ==
  CASE c = "/" -> s
    [] c = "{" -> [s EXCEPT !.at = "start_param"]
    [] c \in LiteralChar -> StartValue(s, "in_literal", c)
    [] OTHER -> Failed(s, "invalid_template")

InStartParam(s, c) ==
  CASE c = "*" -> [s EXCEPT !.at = "start_greedy_param"]
    [] c \in ParamStart -> [StartValue(s, "in_param", c) EXCEPT !.type = "param"]
    [] OTHER -> Failed(s, "invalid_template")

InStartGreedyParam(s, c) ==
  IF c \in ParamStart THEN [StartValue(s, "in_param", c) EXCEPT !.type = "greedy_param"]
  ELSE Failed(s, "invalid_template")

InParam(s, c) ==
  CASE c = "}" -> PushSegment(s, "end_param", s.type)
    [] c \in ParamChar -> [s EXCEPT !.value = @ \o c]
    [] OTHER -> Failed(s, "invalid_template")

EndParam(s, c) == IF c = "/" THEN [s EXCEPT !.at = "start_segment"] ELSE Failed(s, "invalid_template")

InLiteral(s, c) ==
  CASE c = "/" -> PushSegment(s, "start_segment", "literal")
    [] c \in LiteralChar -> [s EXCEPT !.value = @ \o c]
    [] OTHER -> Failed(s, "invalid_template")

ParserStep(s, c) ==
  CASE s.at = "start" -> InStart(s, c)
    [] s.at = "start_segment" -> InStartSegment(s, c)
    [] s.at = "start_param" -> InStartParam(s, c)
    [] s.at = "start_greedy_param" -> InStartGreedyParam(s, c)
    [] s.at = "in_param" -> InParam(s, c)
    [] s.at = "end_param" -> EndParam(s, c)
    [] s.at = "in_literal" -> InLiteral(s, c)
    [] s.at = "failed" -> s

ParserEnd(s) ==
  CASE s.at = "start" -> Failed(s, "no_absolute_template")
    [] s.at = "in_literal" -> PushSegment(s, "start_segment", "literal")
    [] s.at \in {"start_segment", "end_param", "failed"} -> s
    [] OTHER -> Failed(s, "invalid_template")

ParseTemplate(text) ==
  ParserEnd(FoldLeft(ParserStep,
                     [at |-> "start", value |-> "", type |-> "literal", segments |-> <<>>, error |-> "none"],
                     text))

IsTemplate(text) == ParseTemplate(text).error = "none"

Names(text) ==
  LET segments == ParseTemplate(text).segments
  IN  {segments[i].value : i \in {j \in DOMAIN segments : segments[j].type # "literal"}}

-----------------------------------------------------------------------------
(* The target matcher. m: the positions t in the template and g in the     *)
(* path, and the greedy placeholder being filled, if any, with the         *)
(* position it began at.                                                   *)

FinishGreedy(path, m) ==
  IF m.name = "" THEN m
  ELSE [m EXCEPT !.args = Emplace(@, m.name, Join(SubSeq(path, m.from, m.g - 1))), !.name = ""]

Advance(m) == [m EXCEPT !.t = @ + 1, !.g = @ + 1]

(* A greedy placeholder that is not the last segment takes one at once.    *)
StartGreedy(template, path, m) ==
  LET begun == [FinishGreedy(path, m) EXCEPT !.from = m.g, !.name = template[m.t].value, !.t = @ + 1]
  IN  CASE begun.t > Len(template) -> [begun EXCEPT !.g = Len(path) + 1]
        [] begun.t <= Len(template) /\ m.g <= Len(path) -> [begun EXCEPT !.g = @ + 1]
        [] OTHER -> begun

RECURSIVE MatchFrom(_, _, _)
MatchFrom(template, path, m) ==
  IF m.t > Len(template) \/ (template[m.t].type # "greedy_param" /\ m.g > Len(path))
  THEN [ok |-> m.t > Len(template) /\ m.g > Len(path), args |-> FinishGreedy(path, m).args]
  ELSE LET seg == template[m.t]
           done == FinishGreedy(path, m)
       IN CASE seg.type = "greedy_param" -> MatchFrom(template, path, StartGreedy(template, path, m))
            [] seg.type = "param" ->
                 MatchFrom(template, path, Advance([done EXCEPT !.args = Emplace(@, seg.value, path[m.g])]))
            [] seg.type = "literal" /\ seg.value = path[m.g] -> MatchFrom(template, path, Advance(done))
            [] seg.type = "literal" /\ seg.value # path[m.g] ->
                 IF m.name # "" THEN MatchFrom(template, path, [m EXCEPT !.g = @ + 1])
                 ELSE [ok |-> FALSE, args |-> m.args]

MatchTarget(text, path, args) ==
  MatchFrom(ParseTemplate(text).segments, path, [t |-> 1, g |-> 1, from |-> 1, name |-> "", args |-> args])

-----------------------------------------------------------------------------
(* The other leaves and the operators.                                     *)

Values(fields, key) == IF key \in DOMAIN fields THEN fields[key] ELSE <<>>

(* request[key]: the first value, or nothing, which compares equal to "".  *)
HeaderValue(request, key) ==
  LET values == Values(request.headers, key) IN IF values = <<>> THEN "" ELSE values[1]

MethodLeaf(e, request) ==
  CASE e.leaf = "method_eq" -> request.method = e.verb
    [] e.leaf = "method_ne" -> request.method # e.verb

HeaderLeaf(e, request) ==
  CASE e.leaf = "header_eq" -> HeaderValue(request, e.key) = e.value
    [] e.leaf = "header_ne" -> HeaderValue(request, e.key) # e.value
    [] e.leaf = "header_exists" -> Values(request.headers, e.key) # <<>>

(* parse_cookies keeps the first value of a name.                          *)
CookieLeaf(e, request) ==
  LET values == Values(request.cookies, e.key)
  IN  CASE e.leaf = "cookie_eq" -> values # <<>> /\ values[1] = e.value
        [] e.leaf = "cookie_ne" -> values = <<>> \/ values[1] # e.value
        [] e.leaf = "cookie_exists" -> values # <<>>

VersionLeaf(e, request) ==
  CASE e.leaf = "version_eq" -> request.version = e.number
    [] e.leaf = "version_ne" -> request.version # e.number
    [] e.leaf = "version_lt" -> request.version < e.number
    [] e.leaf = "version_le" -> request.version <= e.number
    [] e.leaf = "version_gt" -> request.version > e.number
    [] e.leaf = "version_ge" -> request.version >= e.number

IsLeaf(e) == "leaf" \in DOMAIN e

EvalLeaf(e, request, args) ==
  IF e.leaf = "target" THEN MatchTarget(e.template, request.path, args)
  ELSE [args |-> args,
        ok |-> CASE e.leaf \in {"method_eq", "method_ne"} -> MethodLeaf(e, request)
                 [] e.leaf \in {"header_eq", "header_ne", "header_exists"} -> HeaderLeaf(e, request)
                 [] e.leaf \in {"cookie_eq", "cookie_ne", "cookie_exists"} -> CookieLeaf(e, request)
                 [] e.leaf = "callable" -> e.accepts
                 [] OTHER -> VersionLeaf(e, request)]

(* && and || stop at the first operand that decides; what an operand that  *)
(* did not match has captured stays in the context.                        *)
RECURSIVE Eval(_, _, _)
Not(e, request, args) ==
  LET of == Eval(e.of, request, args) IN [of EXCEPT !.ok = ~@]
And(e, request, args) ==
  LET l == Eval(e.l, request, args) IN IF l.ok THEN Eval(e.r, request, l.args) ELSE l
Or(e, request, args) ==
  LET l == Eval(e.l, request, args) IN IF l.ok THEN l ELSE Eval(e.r, request, l.args)
Eval(e, request, args) ==
  CASE IsLeaf(e) -> EvalLeaf(e, request, args)
    [] ~IsLeaf(e) /\ e.op = "not" -> Not(e, request, args)
    [] ~IsLeaf(e) /\ e.op = "and" -> And(e, request, args)
    [] ~IsLeaf(e) /\ e.op = "or" -> Or(e, request, args)

(* flatten: the leaves of a matcher, in order.                             *)
RECURSIVE Flatten(_)
Flatten(e) ==
  CASE IsLeaf(e) -> IF e.leaf = "callable" THEN <<>> ELSE <<e>>
    [] ~IsLeaf(e) /\ e.op = "not" -> Flatten(e.of)
    [] OTHER -> Flatten(e.l) \o Flatten(e.r)

LeavesOf(e, leaf) == SelectSeq(Flatten(e), LAMBDA l : l.leaf = leaf)

Templates(e) == LET leaves == LeavesOf(e, "target") IN [i \in DOMAIN leaves |-> leaves[i].template]

-----------------------------------------------------------------------------
(* route_shape: what a document or an Allow header can say of a matcher.   *)

LeafShape(e) ==
  CASE e.leaf = "method_eq" -> [valid |-> TRUE, methods_only |-> TRUE, targets |-> 0, methods |-> 1]
    [] e.leaf = "target" -> [valid |-> TRUE, methods_only |-> FALSE, targets |-> 1, methods |-> 0]
    [] e.leaf \in {"method_ne", "header_ne", "cookie_ne", "callable"} ->
         [valid |-> FALSE, methods_only |-> FALSE, targets |-> 0, methods |-> 0]
    [] OTHER -> [valid |-> TRUE, methods_only |-> FALSE, targets |-> 0, methods |-> 0]

AndShape(l, r) ==
  [valid |-> l.valid /\ r.valid, methods_only |-> l.methods_only /\ r.methods_only,
   targets |-> l.targets + r.targets, methods |-> l.methods + r.methods]

OrShape(l, r) ==
  [valid |-> l.valid /\ r.valid /\ l.methods_only /\ r.methods_only, methods_only |-> TRUE,
   targets |-> 0, methods |-> l.methods + r.methods]

RECURSIVE Shape(_)
Shape(e) ==
  CASE IsLeaf(e) -> LeafShape(e)
    [] ~IsLeaf(e) /\ e.op = "not" -> [valid |-> FALSE, methods_only |-> FALSE, targets |-> 0, methods |-> 0]
    [] ~IsLeaf(e) /\ e.op = "and" -> AndShape(Shape(e.l), Shape(e.r))
    [] ~IsLeaf(e) /\ e.op = "or" -> OrShape(Shape(e.l), Shape(e.r))

Expressible(e) == LET s == Shape(e) IN s.valid /\ s.targets = 1 /\ s.methods >= 1

(* summarize_route: what is read off the leaves of an expressible matcher. *)
Summary(e) ==
  [template |-> Templates(e)[1],
   methods |-> LET leaves == LeavesOf(e, "method_eq") IN [i \in DOMAIN leaves |-> leaves[i].verb],
   headers |-> LeavesOf(e, "header_eq") \o LeavesOf(e, "header_exists"),
   cookies |-> LeavesOf(e, "cookie_eq") \o LeavesOf(e, "cookie_exists")]

=============================================================================
