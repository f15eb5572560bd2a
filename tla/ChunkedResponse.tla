---------------------------- MODULE ChunkedResponse ----------------------------
(***************************************************************************)
(* core/chunked_response.hpp: a generator whose body also yields a status  *)
(* and headers, which do not suspend it.  The session writes them with the *)
(* response header, once it has the first value; from the first value on,  *)
(* or the first inner generator, which may have none, the body may not     *)
(* yield them: it throws.  Metadata of an inner generator is ignored.      *)
(* The rest of the promise is that of AsyncGenerator, step by step.        *)
(***************************************************************************)
EXTENDS AsyncGenerator

CONSTANT MaxMeta    (* bound: status and headers yielded *)

NotSent == MaxMeta + 1

VARIABLES
  meta,         \* status_ and headers_: how many were yielded so far
  dataYielded,  \* data_yielded_
  header        \* how many the response header was written with, or NotSent

metaVars == <<meta, dataYielded, header>>

(* What the outermost body did in this step, if it ran.                    *)
YieldedValue == made' # made /\ frame'[1].posted = made'
YieldedInner == frame'[1].inner \notin {0, frame[1].inner}
Suspended ==
  \/ YieldedValue \/ YieldedInner
  \/ frame'[1].op = "running" /\ frame[1].op # "running"
  \/ frame'[1].body = "done" /\ frame[1].body # "done"

(* Defect: an inner generator does not count as data.                      *)
DefectIsData == YieldedValue

IsData == YieldedValue \/ YieldedInner

MayYieldMeta == ~dataYielded

(* Before it suspends or ends, the body yields metadata; the exception     *)
(* that late metadata throws is one of those that end the body.            *)
YieldMeta ==
  /\ IF Suspended /\ MayYieldMeta THEN meta' \in meta..MaxMeta ELSE meta' = meta
  /\ dataYielded' = (dataYielded \/ IsData)

(* write_chunked_response: the header goes out after the first next(),     *)
(* also when it found no value and no exception.                           *)
WriteHeader ==
  header' = IF header = NotSent /\ consumer = "waiting" /\ consumer' \in {"idle", "ended"}
            THEN meta ELSE header

Metadata == YieldMeta /\ WriteHeader

DrivenStep == CallNext /\ Metadata
CompletionStep(g) == Completions(g) /\ Metadata
OperationStep(g) == OpEnds(g) /\ Metadata
StoppedStep(g) == OpStopped(g) /\ Metadata
CancelStep == Cancel /\ Metadata
DestroyStep == Leave /\ Metadata

ChunkedInit == Init /\ meta = 0 /\ dataYielded = FALSE /\ header = NotSent
ChunkedNext ==
  \/ DrivenStep \/ CancelStep \/ DestroyStep
  \/ \E g \in Frames : CompletionStep(g) \/ OperationStep(g) \/ StoppedStep(g)

ChunkedSpec == ChunkedInit /\ [][ChunkedNext]_<<vars, metaVars>>
ChunkedFairness ==
  \A g \in Frames : /\ WF_<<vars, metaVars>>(CompletionStep(g))
                    /\ WF_<<vars, metaVars>>(StoppedStep(g))
ChunkedFairSpec == ChunkedSpec /\ ChunkedFairness

-----------------------------------------------------------------------------
(* Nothing the body says of the response comes too late to be in the       *)
(* header, whichever frame the first value came from: what the session     *)
(* wrote is what the body yielded in all.                                  *)
HeaderIsComplete == header # NotSent => header = meta
=============================================================================
