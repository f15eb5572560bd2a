---------------------------- MODULE MCContextStore ----------------------------
(* Instances of ContextStore for TLC.                                      *)
EXTENDS ContextStore

CONSTANTS r1, r2, k1, k2

TwoRequests == {r1, r2}
TwoKeys == {k1, k2}

(* Time that passes at any moment; observations that come late; or neither,*)
(* with and without erasures by hand.                                      *)
FourSettings ==
  { [relaxed |-> FALSE, prompt |-> FALSE, erasing |-> FALSE],
    [relaxed |-> TRUE, prompt |-> TRUE, erasing |-> FALSE],
    [relaxed |-> FALSE, prompt |-> TRUE, erasing |-> TRUE],
    [relaxed |-> FALSE, prompt |-> TRUE, erasing |-> FALSE] }
=============================================================================
