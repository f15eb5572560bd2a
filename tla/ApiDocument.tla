------------------------------ MODULE ApiDocument ------------------------------
(***************************************************************************)
(* What openapi::generator records of a route and says of it in the        *)
(* document: openapi/generator.hpp.                                        *)
(*                                                                         *)
(* A recorded operation: path (the template with its placeholders, greedy  *)
(* or not, as {name}), methods, params (those of the document) and route   *)
(* (the summary the matcher gave).                                         *)
(***************************************************************************)
EXTENDS RestArgs

DocumentPath(template) ==
  LET segments == ParseTemplate(template).segments
  IN  [i \in DOMAIN segments |->
         IF segments[i].type = "literal" THEN segments[i].value ELSE "{" \o segments[i].value \o "}"]

AlreadyDescribed(operations, summary) ==
  \E i \in DOMAIN operations :
    /\ operations[i].path = DocumentPath(summary.template)
    /\ ToSet(operations[i].methods) \cap ToSet(summary.methods) # {}

(* A parameter that a security scheme of the document supplies is left out *)
(* of the parameters: an API key by its name, any http scheme by the       *)
(* Authorization header.                                                   *)
SecuredBy(schemes, in, name) ==
  \E s \in schemes :
    \/ s.type = "apiKey" /\ s.in = in /\ s.name = name
    \/ s.type = "http" /\ in = "header" /\ name = "Authorization"

(* Placeholders of the path no argument is bound to.                       *)
UnboundParams(summary, params) ==
  {[in |-> "path", name |-> name, required |-> TRUE] : name \in Names(summary.template) \ PathArgNames(params)}

(* Parameters of the handler; the body is not one of them.                 *)
HandlerParams(schemes, params) ==
  LET described == {Describe(params[i]) : i \in DOMAIN params}
  IN  {[in |-> d.in, name |-> d.name, required |-> d.required \/ d.in = "path"] :
         d \in {e \in described :
           /\ e.in \in {"path", "query", "header", "cookie"}
           /\ e.in = "path" \/ ~SecuredBy(schemes, e.in, e.name)}}

(* Headers and cookies the matcher insists on.                             *)
MatcherParams(schemes, summary) ==
  {[in |-> "header", name |-> h.key, required |-> TRUE] :
     h \in {e \in ToSet(summary.headers) : ~SecuredBy(schemes, "header", e.key)}}
  \cup
  {[in |-> "cookie", name |-> c.key, required |-> TRUE] :
     c \in {e \in ToSet(summary.cookies) : ~SecuredBy(schemes, "cookie", e.key)}}

RequestBody(params) ==
  {[required |-> d.required, content_types |-> d.content_types] :
     d \in {e \in {Describe(params[i]) : i \in DOMAIN params} : e.in = "body"}}

Recorded(schemes, summary, params) ==
  [path |-> DocumentPath(summary.template), methods |-> summary.methods, route |-> summary,
   params |-> UnboundParams(summary, params) \cup HandlerParams(schemes, params) \cup MatcherParams(schemes, summary),
   body |-> RequestBody(params)]

=============================================================================
