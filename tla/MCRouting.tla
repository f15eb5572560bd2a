------------------------------- MODULE MCRouting -------------------------------
(* Model values for Routing.                                               *)
EXTENDS Routing

S == "/"
(* Templates, character by character.                                      *)
TA == <<S, "a">>
TX == <<S, "{", "x", "}">>
TAX == <<S, "a", S, "{", "x", "}", S>>
TXB == <<S, "{", "x", "}", S, "b">>
TBX == <<S, "b", S, "{", "x", "}">>
TYB == <<S, S, "{", "y", "}", S, "b">>
TRest == <<S, "{", "*", "x", "}">>
TRestB == <<S, "{", "*", "x", "}", S, "b">>
TTwo == <<S, "{", "x", "}", S, "{", "*", "y", "}">>
TBad == <<S, "{", "*", "}">>

Method(m) == [leaf |-> "method_eq", verb |-> m]
NotMethod(m) == [leaf |-> "method_ne", verb |-> m]
Target(t) == [leaf |-> "target", template |-> t]
Header(k) == [leaf |-> "header_exists", key |-> k, value |-> ""]
HeaderIs(k, v) == [leaf |-> "header_eq", key |-> k, value |-> v]
CookieIs(k, v) == [leaf |-> "cookie_ne", key |-> k, value |-> v]
Newer == [leaf |-> "version_ge", number |-> 11]
Both(l, r) == [op |-> "and", l |-> l, r |-> r]
Either(l, r) == [op |-> "or", l |-> l, r |-> r]
Never(e) == [op |-> "not", of |-> e]

Param(kind, key, wrap, to, max) == [kind |-> kind, key |-> key, wrap |-> wrap, to |-> to, max |-> max, types |-> {}]
Path(key) == Param("path", key, "plain", "string", FALSE)
JsonBody == [Param("json_body", "json_body", "plain", "json", FALSE) EXCEPT !.types = {"application/json"}]

Plain(expr) == [expr |-> expr, kind |-> "plain", params |-> <<>>, guard |-> "none", result |-> "ok", described |-> FALSE]
Rest(expr, params) == [Plain(expr) EXCEPT !.kind = "rest", !.params = params]
Described(route) == [route EXCEPT !.described = TRUE]

MCRoutePool ==
  { Described(Rest(Both(Method("GET"), Target(TAX)),
                   <<Path("x"), Param("query", "q", "default", "number", TRUE), Param("cookie", "c", "optional", "number", FALSE)>>)),
    Described(Rest(Both(Method("POST"), Target(TAX)), <<JsonBody, Param("header", "h", "plain", "number", FALSE)>>)),
    Described(Rest(Both(Both(Method("GET"), Target(TYB)), Header("h")), <<Path("y")>>)),
    Rest(Both(Method("GET"), Target(TAX)), <<Path("y")>>),
    Rest(Both(Either(Target(TA), Target(TXB)), Method("GET")), <<Path("x")>>),
    Rest(Both(Either(Target(TBX), Header("h")), Method("GET")), <<Path("x")>>),
    Plain(Both(Target(TXB), Method("POST"))),
    Plain(Both(Method("GET"), Target(TRest))),
    Plain(Both(Method("POST"), Target(TRestB))),
    Described(Plain(Both(Either(Method("GET"), Method("POST")), Target(TTwo)))),
    Plain(Both(NotMethod("GET"), Target(TA))),
    Plain(Target(TBad)),
    [Plain(Both(Method("HEAD"), Target(TX))) EXCEPT !.kind = "raw"],
    [Rest(Both(Method("POST"), Both(Target(TX), Newer)), <<Param("attribute", "user", "plain", "string", FALSE)>>)
       EXCEPT !.guard = "attach"],
    [Plain(Both(Never(CookieIs("c", "7")), Target(TA))) EXCEPT !.guard = "reject"],
    [Plain(Both([leaf |-> "version_lt", number |-> 11], Target(TA))) EXCEPT !.guard = "throws"],
    [Rest(Both(HeaderIs("h", ""), Target(TXB)), <<Param("query_list", "q", "optional", "numbers", TRUE)>>)
       EXCEPT !.result = "foreign"] }

MCInterceptorPool ==
  { [expr |-> Both(Target(TXB), Method("GET")), does |-> "attach"],
    [expr |-> Header("h"), does |-> "reject"],
    [expr |-> [leaf |-> "callable", accepts |-> TRUE], does |-> "throws"] }

Request(m, path) ==
  [method |-> m, path |-> path, version |-> 11, headers |-> NoArgs, cookies |-> NoArgs, query |-> NoArgs,
   origin_form |-> TRUE, content_type |-> <<>>, body |-> "text"]

MCMethods == {"GET", "HEAD", "POST"}
Paths == {<<>>, <<"a">>, <<"a", "">>, <<"a", "b">>, <<"b", "a", "b">>, <<"malformed">>}

MCRequestPool ==
  {Request(m, path) : m \in MCMethods, path \in Paths}
  \cup {[Request("GET", <<"a", "b">>) EXCEPT !.query = "q" :> v, !.headers = h, !.cookies = "c" :> c] :
          v \in {<<"7">>, <<"99">>, <<"7", "7">>}, h \in {NoArgs, "h" :> <<"7">>}, c \in {<<"7">>, <<"word", "7">>}}
  \cup {[Request("POST", <<"a", "b">>) EXCEPT !.headers = "h" :> h, !.content_type = t, !.body = b] :
          h \in {<<"7">>, <<"7", "99">>}, t \in {<<>>, <<"Application/JSON; charset=utf-8">>}, b \in {"json", "broken"}}
  \cup {[Request("POST", <<"a">>) EXCEPT !.version = 10, !.cookies = "c" :> <<"7">>],
        [Request("GET", <<"a", "b">>) EXCEPT !.origin_form = FALSE, !.query = "q" :> <<"7">>]}

MCSchemes == {[type |-> "apiKey", in |-> "cookie", name |-> "k"], [type |-> "http", in |-> "header", name |-> "Authorization"]}

=============================================================================
