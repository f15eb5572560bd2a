------------------------------- MODULE RestArgs -------------------------------
(***************************************************************************)
(* How a REST handler obtains its arguments and what becomes of a request  *)
(* that does not provide them: handler/rest.hpp, rest_arg.hpp,             *)
(* rest_arg_cast.hpp, constrained.hpp, rest_param.hpp and the status table *)
(* of core/error.hpp.                                                      *)
(*                                                                         *)
(* A provider is a record:                                                 *)
(*   kind   which argument provider it is                                  *)
(*   key    the name it looks for                                          *)
(*   wrap   "plain", "default" (with_default) or "optional"                *)
(*   to     what the handler's parameter is: "string", "number", "bool",   *)
(*          "numbers" (a container of numbers) or "json"                   *)
(*   max    TRUE for constrained(..., {.maximum = 50})                     *)
(*   types  the content types of a body provider                           *)
(* A provider returns [is |-> "value", values |-> a sequence] or           *)
(* [is |-> the code of its failure].                                       *)
(*                                                                         *)
(* Of a value only its class is kept: "word", "7", "99" (both numbers, one *)
(* above the maximum) or "true". Besides what Matchers describes a request *)
(* has origin_form (whether its target parses as one), query (a function   *)
(* from names to sequences of values), content_type (a sequence of header  *)
(* values) and body: "json", "form", "text", "parts" or "broken".          *)
(***************************************************************************)
EXTENDS Matchers, FiniteSets

Numbers == {"7", "99"}
Default == "7"

Value(v) == [is |-> "value", values |-> <<v>>]
Failure(code) == [is |-> code, values |-> <<>>]
NotFound == Failure("argument_not_found")

PathArg(p, request, args) == IF p.key \in DOMAIN args THEN Value(args[p.key]) ELSE NotFound

(* More than one occurrence is ambiguous, even with equal values.          *)
QueryArg(p, request) ==
  LET values == Values(request.query, p.key)
  IN  CASE ~request.origin_form -> Failure("invalid_url_format")
        [] request.origin_form /\ Len(values) > 1 -> Failure("argument_ambiguous")
        [] request.origin_form /\ Len(values) = 1 -> Value(values[1])
        [] OTHER -> NotFound

QueryListArg(p, request) ==
  LET values == Values(request.query, p.key)
  IN  CASE ~request.origin_form -> Failure("invalid_url_format")
        [] request.origin_form /\ values # <<>> -> [is |-> "value", values |-> values]
        [] OTHER -> NotFound

(* Several headers of a name are ambiguous only if their values differ.    *)
HeaderArg(p, request) ==
  LET values == Values(request.headers, p.key)
  IN  CASE values = <<>> -> NotFound
        [] Cardinality(ToSet(values)) > 1 -> Failure("argument_ambiguous")
        [] OTHER -> Value(values[1])

CookieArg(p, request) ==
  LET values == Values(request.cookies, p.key) IN IF values = <<>> THEN NotFound ELSE Value(values[1])

(* media_type_of: parameters stripped, trimmed, in lower case. What the    *)
(* provider was given is compared as it is.                                *)
MediaTypeOf(v) == IF v = "Application/JSON; charset=utf-8" THEN "application/json" ELSE v
MediaTypes(request) == {MediaTypeOf(request.content_type[i]) : i \in DOMAIN request.content_type}

ContentTypeAccepted(p, request) == p.types = {} \/ MediaTypes(request) \cap p.types # {}

(* A body argument: the content type first, then the body itself.          *)
BodyArg(p, request) ==
  CASE ~ContentTypeAccepted(p, request) -> Failure("invalid_content_type")
    [] ContentTypeAccepted(p, request) /\ p.kind = "json_body" /\ request.body # "json" ->
         Failure("invalid_request_format")
    [] ContentTypeAccepted(p, request) /\ p.kind = "form_body" /\ request.body = "broken" ->
         Failure("invalid_request_format")
    [] OTHER -> Value(request.body)

MultipartArg(p, request) ==
  CASE "multipart/form-data" \notin MediaTypes(request) -> Failure("invalid_content_type")
    [] "multipart/form-data" \in MediaTypes(request) /\ request.body = "broken" ->
         Failure("invalid_request_format")
    [] OTHER -> Value(request.body)

AttributeArg(p, attributes) == IF p.key \in attributes THEN Value("word") ELSE NotFound

BodyKinds == {"string_body", "json_body", "form_body", "stream_body"}

Provide(p, request, args, attributes) ==
  CASE p.kind = "path" -> PathArg(p, request, args)
    [] p.kind = "query" -> QueryArg(p, request)
    [] p.kind = "query_list" -> QueryListArg(p, request)
    [] p.kind = "header" -> HeaderArg(p, request)
    [] p.kind = "cookie" -> CookieArg(p, request)
    [] p.kind \in BodyKinds -> BodyArg(p, request)
    [] p.kind = "multipart" -> MultipartArg(p, request)
    [] p.kind = "attribute" -> AttributeArg(p, attributes)

-----------------------------------------------------------------------------
(* rest_arg_cast: whether a value converts to the parameter's type.        *)
CastsToNumber(v) == v \in Numbers
CastsToBool(v) == v = "true"

Casts(p, values) ==
  CASE p.to \in {"string", "json"} -> TRUE
    [] p.to \in {"number", "numbers"} -> \A i \in DOMAIN values : CastsToNumber(values[i])
    [] p.to = "bool" -> \A i \in DOMAIN values : CastsToBool(values[i])

(* constrained::check: a missing optional value is not checked.            *)
Violates(p, values) == p.max /\ \E i \in DOMAIN values : values[i] = "99"

(* get_rest_arg: every failure of the provider or of the conversion is     *)
(* caught and becomes invalid_argument_format, with the failure as cause;  *)
(* the check of a constrained provider runs outside that try block.        *)
ArgCode(p, request, args, attributes) ==
  LET given == Provide(p, request, args, attributes)
      absent == given.is = "argument_not_found" /\ p.wrap # "plain"
      values == IF absent THEN (IF p.wrap = "default" THEN <<Default>> ELSE <<>>) ELSE given.values
  IN  CASE ~absent /\ given.is # "value" -> "invalid_argument_format"
        [] (absent \/ given.is = "value") /\ ~Casts(p, values) -> "invalid_argument_format"
        [] (absent \/ given.is = "value") /\ Casts(p, values) /\ Violates(p, values) -> "constraint_violated"
        [] OTHER -> "ok"

(* The arguments are operands of one call: the order in which they are     *)
(* evaluated, and so which of several failures is reported, is open.       *)
ArgCodes(params, request, args, attributes) ==
  LET codes == {ArgCode(params[i], request, args, attributes) : i \in DOMAIN params} \ {"ok"}
  IN  IF codes = {} THEN {"ok"} ELSE codes

BadRequest ==
  {"argument_not_found", "argument_ambiguous", "invalid_argument_format", "invalid_request_format",
   "invalid_url_format", "invalid_content_type", "invalid_cookie_format", "invalid_boolean_format",
   "invalid_number_format", "constraint_violated"}

HttpStatusFor(code) ==
  CASE code \in BadRequest -> "400"
    [] code = "body_limit" -> "413"
    [] code = "header_limit" -> "431"
    [] code = "timeout" -> "408"
    [] OTHER -> "500"

-----------------------------------------------------------------------------
(* describe_rest_param: what a document says of a provider.                *)
LocationOf(p) ==
  CASE p.kind = "path" -> "path"
    [] p.kind \in {"query", "query_list"} -> "query"
    [] p.kind = "header" -> "header"
    [] p.kind = "cookie" -> "cookie"
    [] p.kind \in BodyKinds \cup {"multipart"} -> "body"
    [] OTHER -> "none"

(* all_content_types leaves the set empty: a document then lists no type,  *)
(* except for a streamed body.                                             *)
ContentTypesOf(p) ==
  CASE p.kind = "multipart" -> {"multipart/form-data"}
    [] p.kind = "stream_body" /\ p.types = {} -> {"application/octet-stream"}
    [] OTHER -> p.types

DefectDescribe(p) ==
  [in |-> LocationOf(p), name |-> p.key, required |-> p.wrap # "optional",
   content_types |-> IF LocationOf(p) = "body" THEN ContentTypesOf(p) ELSE {},
   array |-> p.to = "numbers", explode |-> TRUE]

Describe(p) ==
  [in |-> LocationOf(p), name |-> p.key, required |-> p.wrap = "plain",
   content_types |-> IF LocationOf(p) = "body" THEN ContentTypesOf(p) ELSE {},
   array |-> p.to = "numbers", explode |-> ~(p.kind = "query" /\ p.to = "numbers")]

PathArgNames(params) == {params[i].key : i \in {j \in DOMAIN params : params[j].kind = "path"}}

=============================================================================
