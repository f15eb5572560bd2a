------------------------------- MODULE MCMcpHttp -------------------------------
(* An instance of McpHttp for TLC: two clients that number their requests  *)
(* alike, a tool that runs until it is cancelled, a completer that throws. *)
EXTENDS McpHttp

Message(method, id, fails) ==
  [verb |-> "post", head |-> "ok", shape |-> "envelope", method |-> method, id |-> id,
   params |-> "ok", fails |-> fails, hangs |-> FALSE, target |-> NoId]

MCMessages ==
  { Message("initialize", "a", "no"),
    Message("initialize", "a", "foreign"),
    Message("tools/call", "a", "foreign"),
    [Message("tools/call", "a", "no") EXCEPT !.hangs = TRUE],
    Message("custom", "a", "taar"),
    Message("completion/complete", "b", "foreign"),
    [Message("notifications/cancelled", NoId, "no") EXCEPT !.target = "a"],
    [Message(NoMethod, NoId, "no") EXCEPT !.shape = "junk"],
    [Message(NoMethod, NoId, "no") EXCEPT !.verb = "delete"],
    [Message(NoMethod, NoId, "no") EXCEPT !.verb = "get"],
    [Message("ping", "a", "no") EXCEPT !.head = "origin"],
    [Message("ping", "a", "no") EXCEPT !.head = "version"] }
=============================================================================
