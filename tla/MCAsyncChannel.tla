---------------------------- MODULE MCAsyncChannel ----------------------------
(* An instance of AsyncChannel for TLC.                                    *)
EXTENDS AsyncChannel

CONSTANTS c1, c2

TwoConsumers == {c1, c2}
=============================================================================
