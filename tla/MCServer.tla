------------------------------- MODULE MCServer -------------------------------
(* An instance of Server for TLC.                                          *)
EXTENDS Server

CONSTANTS c1, c2, e1

TwoConns == {c1, c2}
OneEmitter == {e1}
===============================================================================
