------------------------------ MODULE MCMcpStdio ------------------------------
(* An instance of McpStdio for TLC: requests of one id in two sessions, a  *)
(* completer that throws, a call and a notification with bad parameters, a *)
(* client notification that comes with an id.                              *)
EXTENDS McpStdio

Message(method, id, params, fails) ==
  [shape |-> "envelope", method |-> method, id |-> id, params |-> params, fails |-> fails, target |-> NoId]

MCMessages ==
  { Message("initialize", "a", "ok", "no"),
    Message("initialize", "a", "ok", "foreign"),
    Message("tools/call", "a", "ok", "no"),
    Message("tools/call", "a", "unknown", "no"),
    Message("custom", "a", "ok", "taar"),
    Message("completion/complete", "b", "ok", "foreign"),
    Message("notifications/custom", "b", "ok", "no"),
    Message("logging/setLevel", NoId, "malformed", "no"),
    [Message("notifications/cancelled", NoId, "ok", "no") EXCEPT !.target = "a"],
    [Message(NoMethod, NoId, "ok", "no") EXCEPT !.shape = "junk"] }
=============================================================================
