---------------------------- MODULE AsyncGenerator ----------------------------
(***************************************************************************)
(* core/async_generator.hpp driven by session/http.hpp's                   *)
(* write_chunked_response.  A generator's body runs whenever something     *)
(* resumes its frame: the consumer's next(), the completion of an          *)
(* asynchronous operation it awaited, or the end of an inner generator it  *)
(* spliced in (flattening).  All of these finish in completions that are   *)
(* queued on an executor, while the generator may be cancelled or          *)
(* destroyed at any time.                                                  *)
(*                                                                         *)
(* Frames are numbered in the order they are created; frame 1 is the       *)
(* generator the session drives, the others are inner generators, each     *)
(* driven by a coroutine its outer generator spawned.  A frame has         *)
(*   body     "unborn", "fresh" (lazily started), "yield", "await", "flat" *)
(*            (suspended on its inner generator), "done", "destroyed"      *)
(*   inner, outer      the frame it flattens, the frame that flattens it   *)
(*   thrown, handler   exception_ and completion_handler_ are set          *)
(*   posted   the completion its awaiters queued                           *)
(*   driver   the coroutine that awaits next() of an inner frame: "none",  *)
(*            "starting", "waiting", "resumed" with what it got, "aborted" *)
(*   op       the operation its body awaits: "none", "running", "ok",      *)
(*            "failed"                                                     *)
(*   driverSignalled, opSignalled   their cancellation signals were emitted*)
(*   forwarder   its cancellation slot holds a handler with its promise    *)
(* Values are numbered in the order the bodies yield them.                 *)
(***************************************************************************)
EXTENDS Naturals, Sequences

CONSTANTS
  MaxFrames,    (* bound: frames ever created                              *)
  MaxValues     (* bound: values yielded                                   *)

ASSUME GeneratorAssumption == MaxFrames \in Nat \ {0} /\ MaxValues \in Nat

Frames == 1..MaxFrames
Nothing == MaxValues + 1    (* no completion *)
End == 0                    (* std::nullopt  *)

VARIABLES
  frame,
  made,         \* values yielded so far
  consumer,     \* the session: "idle", "waiting" in next(), or how it left the generator:
                \* "ended", "failed", "left"
  taken,        \* history: the values the session received
  cancelled,    \* the session's cancellation was emitted
  escaped,      \* history: an exception left the body of a frame, or the driver of one
  restarted     \* history: an operation was started after the cancellation

vars == <<frame, made, consumer, taken, cancelled, escaped, restarted>>

Unborn == [body |-> "unborn", inner |-> 0, outer |-> 0, thrown |-> FALSE, handler |-> FALSE,
           posted |-> Nothing, driver |-> "none", got |-> Nothing, op |-> "none",
           driverSignalled |-> FALSE, opSignalled |-> FALSE, forwarder |-> FALSE]
Fresh(out) == [Unborn EXCEPT !.body = "fresh", !.outer = out, !.forwarder = TRUE]

Init ==
  /\ frame = [g \in Frames |-> IF g = 1 THEN Fresh(0) ELSE Unborn]
  /\ made = 0 /\ consumer = "idle" /\ taken = <<>>
  /\ cancelled = FALSE /\ escaped = FALSE /\ restarted = FALSE

Exists(F, g) == F[g].body \notin {"unborn", "destroyed"}

-----------------------------------------------------------------------------
(* Destruction.  The operation and the driver of a destroyed frame's inner *)
(* frame are signalled and complete later; a completion the frame held is  *)
(* destroyed with it.                                                      *)

(* Defect: the coroutine that drives the inner frame is not stopped.       *)
DefectBury(f) == [f EXCEPT !.body = "destroyed", !.opSignalled = TRUE, !.handler = FALSE, !.forwarder = FALSE]

Bury(f) == [f EXCEPT !.body = "destroyed", !.opSignalled = TRUE, !.handler = FALSE,
                     !.driverSignalled = TRUE, !.forwarder = FALSE]

(* The inner frames of g, of which at most one per level exists, go with   *)
(* it: their numbers are higher.                                           *)
DestroyFrom(F, g) == [h \in Frames |-> IF h >= g /\ Exists(F, h) THEN Bury(F[h]) ELSE F[h]]

-----------------------------------------------------------------------------
(* Running a body: F are the frames at the moment frame g is resumed.  In  *)
(* each case the completion handler, if the body suspends with a value or  *)
(* ends, moves into a queued completion.                                   *)
YieldValue(F, g) ==
  /\ made < MaxValues
  /\ made' = made + 1
  /\ frame' = [F EXCEPT ![g].body = "yield", ![g].handler = FALSE, ![g].posted = made + 1]
  /\ UNCHANGED <<escaped, restarted>>

Finish(F, g) ==
  /\ frame' = [F EXCEPT ![g].body = "done", ![g].handler = FALSE, ![g].posted = End]
  /\ UNCHANGED <<made, escaped, restarted>>

Throw(F, g) ==
  /\ frame' = [F EXCEPT ![g].body = "done", ![g].handler = FALSE, ![g].posted = End,
                        ![g].thrown = TRUE]
  /\ escaped' = TRUE
  /\ UNCHANGED <<made, restarted>>

(* await_transform: the operation gets a signal of its own.                *)
Await(F, g) ==
  /\ frame' = [F EXCEPT ![g].body = "await", ![g].op = "running", ![g].opSignalled = FALSE]
  /\ restarted' = (restarted \/ cancelled)
  /\ UNCHANGED <<made, escaped>>

(* flatten_awaiter: the handler moves into the completion of a coroutine   *)
(* that drives the inner frame.                                            *)
Drive(F, g, h) ==
  [F EXCEPT ![g].handler = FALSE, ![h].driver = "starting", ![h].driverSignalled = FALSE,
            ![h].got = Nothing]

Flatten(F, g) ==
  \E h \in Frames :
    /\ F[h].body = "unborn" /\ \A j \in 1..h - 1 : F[j].body # "unborn"
    /\ frame' = Drive([F EXCEPT ![g].body = "flat", ![g].inner = h, ![h] = Fresh(g)], g, h)
    /\ UNCHANGED <<made, escaped, restarted>>

Run(F, g) ==
  YieldValue(F, g) \/ Finish(F, g) \/ Throw(F, g) \/ Await(F, g) \/ Flatten(F, g)

(* A body whose operation failed may not start another: what it does then  *)
(* is its author's affair.                                                 *)
RunAfterFailure(F, g) == YieldValue(F, g) \/ Finish(F, g) \/ Throw(F, g)

(* next_impl on a frame that has no exception stored.                      *)
Next1(F, g) ==
  CASE F[g].body = "done" -> frame' = [F EXCEPT ![g].posted = End] /\ UNCHANGED <<made, escaped, restarted>>
    [] F[g].body = "flat" -> frame' = Drive(F, g, F[g].inner) /\ UNCHANGED <<made, escaped, restarted>>
    [] OTHER -> Run([F EXCEPT ![g].handler = TRUE], g)

-----------------------------------------------------------------------------
(* The session.                                                            *)

Install(F) == [F EXCEPT ![1].forwarder = TRUE]

CallNext ==
  /\ consumer = "idle" /\ ~cancelled
  /\ consumer' = "waiting"
  /\ Next1(Install(frame), 1)
  /\ UNCHANGED <<taken, cancelled>>

(* Defect: the exception of the outermost frame only is looked at.         *)
DefectRethrows(F, g) == g = 1 /\ F[g].thrown

Rethrows(F, g) == F[g].thrown

(* The session's awaitable resumes with v, clearing the slot's handler; a  *)
(* missing value makes it look for an exception and leave the generator.   *)
Receive(F, v) ==
  /\ IF v = End
     THEN /\ consumer' = IF Rethrows(F, 1) THEN "failed" ELSE "ended"
          /\ frame' = DestroyFrom(F, 1) /\ UNCHANGED taken
     ELSE /\ consumer' = "idle" /\ taken' = Append(taken, v)
          /\ frame' = [F EXCEPT ![1].forwarder = FALSE]
  /\ UNCHANGED <<made, escaped, restarted>>

(* The session leaves: a write failed, the request was a HEAD, or it was   *)
(* cancelled; or its own coroutine is destroyed while it waits.            *)
Leave ==
  /\ consumer \in {"idle", "waiting"}
  /\ consumer' = "left"
  /\ frame' = DestroyFrom(frame, 1)
  /\ UNCHANGED <<made, taken, cancelled, escaped, restarted>>

-----------------------------------------------------------------------------
(* Completions.                                                            *)

(* Who waits for frame g gets v: the session, or the driver of g.          *)
Give(F, g, v) ==
  IF g = 1 THEN Receive(F, v)
  ELSE /\ frame' = [F EXCEPT ![g].driver = "resumed", ![g].got = v]
       /\ UNCHANGED <<made, consumer, taken, escaped, restarted>>

(* The completion queued by yield_awaiter, final_awaiter or next_impl; if  *)
(* who waited was destroyed in between, nobody is resumed.                 *)
Deliver(g) ==
  /\ frame[g].posted # Nothing
  /\ LET F == [frame EXCEPT ![g].posted = Nothing]
     IN IF (g = 1 /\ consumer = "waiting") \/ (g # 1 /\ frame[g].driver = "waiting")
        THEN Give(F, g, frame[g].posted)
        ELSE frame' = F /\ UNCHANGED <<made, consumer, taken, escaped, restarted>>
  /\ UNCHANGED cancelled

(* A driver starts; emitted before, its signal makes it fail before it     *)
(* touches the inner frame.                                                *)
Drives(g) ==
  /\ frame[g].driver = "starting"
  /\ IF frame[g].driverSignalled
     THEN /\ frame' = [frame EXCEPT ![g].driver = "aborted"]
          /\ escaped' = (escaped \/ Exists(frame, g))
          /\ UNCHANGED <<made, restarted>>
     ELSE Next1([frame EXCEPT ![g].driver = "waiting"], g)
  /\ UNCHANGED <<consumer, taken, cancelled>>

Alive(g) == Exists(frame, g)

(* Defect: the end of the inner frame is all that is waited for.           *)
DefectHandsOn(v) == FALSE

HandsOn(v) == v # End

DropInner(F, g, t) ==
  [DestroyFrom(F, F[g].inner) EXCEPT ![g].inner = 0, ![g].thrown = t]

(* The driver of g completes, which is g's outer frame's affair: it passes *)
(* a value on, keeps an exception, or is itself resumed.                   *)
DriverEnds(g) ==
  /\ frame[g].driver \in {"resumed", "aborted"}
  /\ LET o == frame[g].outer
         v == frame[g].got
         F == [frame EXCEPT ![g].driver = "none", ![g].got = Nothing]
         threw == frame[g].driver = "aborted" \/ Rethrows(frame, g)
     IN CASE ~Alive(o) ->
               frame' = F /\ UNCHANGED <<made, consumer, taken, escaped, restarted>>
          [] Alive(o) /\ frame[g].driver = "resumed" /\ HandsOn(v) -> Give(F, o, v)
          [] Alive(o) /\ (frame[g].driver = "aborted" \/ ~HandsOn(v)) /\ threw ->
               Give(DropInner(F, o, TRUE), o, End)
          [] OTHER ->
               /\ Run([DropInner(F, o, FALSE) EXCEPT ![o].handler = TRUE], o)
               /\ UNCHANGED <<consumer, taken>>
  /\ UNCHANGED cancelled

(* An operation ends, by itself or because it was signalled, and its       *)
(* completion is queued.                                                   *)
OpEnds(g) ==
  /\ frame[g].op = "running"
  /\ \/ frame' = [frame EXCEPT ![g].op = "ok"]
     \/ frame' = [frame EXCEPT ![g].op = "failed"]
  /\ UNCHANGED <<made, consumer, taken, cancelled, escaped, restarted>>

OpStopped(g) ==
  /\ frame[g].op = "running" /\ frame[g].opSignalled
  /\ frame' = [frame EXCEPT ![g].op = "failed"]
  /\ UNCHANGED <<made, consumer, taken, cancelled, escaped, restarted>>

OpCompletes(g) ==
  /\ frame[g].op \in {"ok", "failed"}
  /\ LET F == [frame EXCEPT ![g].op = "none"]
     IN IF ~Alive(g) THEN frame' = F /\ UNCHANGED <<made, escaped, restarted>>
        ELSE IF frame[g].op = "ok" THEN Run(F, g) ELSE RunAfterFailure(F, g)
  /\ UNCHANGED <<consumer, taken, cancelled>>

-----------------------------------------------------------------------------
(* Cancellation: the forwarder of a frame signals what its own body awaits *)
(* and, when it flattens, its inner frame's driver and slot.               *)

(* Defect: the inner frame's slot is not reached.                          *)
DefectReached == {g \in {1} : frame[g].forwarder}

Reached ==
  {g \in Frames : Exists(frame, g) /\ \A h \in 1..g : Exists(frame, h) => frame[h].forwarder}

Cancel ==
  /\ consumer = "waiting" /\ ~cancelled
  /\ cancelled' = TRUE
  /\ frame' = [g \in Frames |->
       [frame[g] EXCEPT !.opSignalled = @ \/ g \in Reached,
                        !.driverSignalled = @ \/ frame[g].outer \in Reached]]
  /\ UNCHANGED <<made, consumer, taken, escaped, restarted>>

-----------------------------------------------------------------------------
Completions(g) == Deliver(g) \/ Drives(g) \/ DriverEnds(g) \/ OpCompletes(g)
Next ==
  \/ CallNext \/ Leave \/ Cancel
  \/ \E g \in Frames : Completions(g) \/ OpEnds(g) \/ OpStopped(g)

Spec == Init /\ [][Next]_vars

(* Queued completions are run, and a signalled operation ends.  Operations *)
(* that nobody cancels need not end.                                       *)
Fairness == \A g \in Frames : WF_vars(Completions(g)) /\ WF_vars(OpStopped(g))
FairSpec == Spec /\ Fairness

-----------------------------------------------------------------------------
Waits(g) ==
  IF g = 1 THEN consumer = "waiting"
  ELSE frame[g].driver = "waiting" /\ Exists(frame, g)

(* The places the completion handler of next() can be: the promise, a      *)
(* queued completion, the completion of the inner frame's driver.          *)
Holders(g) ==
  (IF frame[g].handler THEN {"promise"} ELSE {}) \cup
  (IF frame[g].posted # Nothing THEN {"queue"} ELSE {}) \cup
  (IF frame[g].inner # 0 /\ frame[frame[g].inner].driver # "none" THEN {"driver"} ELSE {})

(* Whoever waits for a frame's next value is held in exactly one place, so *)
(* that it resumes exactly once.                                           *)
HeldOnce == \A g \in Frames : Waits(g) => \E p \in {"promise", "queue", "driver"} : Holders(g) = {p}

(* Every variable stays within its domain.                                 *)
TypeOK ==
  /\ \A g \in Frames :
       /\ frame[g].body \in {"unborn", "fresh", "yield", "await", "flat", "done", "destroyed"}
       /\ frame[g].driver \in {"none", "starting", "waiting", "resumed", "aborted"}
       /\ frame[g].op \in {"none", "running", "ok", "failed"}
       /\ frame[g].posted \in 0..Nothing /\ frame[g].got \in 0..Nothing
       /\ frame[g].inner \in 0..MaxFrames /\ frame[g].outer \in 0..g - 1
  /\ made \in 0..MaxValues
  /\ consumer \in {"idle", "waiting", "ended", "failed", "left"}

(* The values reach the session in the order the bodies yielded them, an   *)
(* inner generator's in the place where it was spliced in, none lost, none *)
(* twice.                                                                  *)
Spliced == \A i \in DOMAIN taken : taken[i] = i

(* An exception that left any body, however deep, or a driver that was     *)
(* aborted, is never taken for the normal end of the stream: the session   *)
(* does not write the last chunk of a truncated body.                      *)
FailureIsNotTheEnd ==
  (consumer = "ended" => ~escaped) /\ (consumer = "ended" => taken = [i \in 1..made |-> i])

(* What is destroyed is not touched again: no completion resumes it, no    *)
(* cancellation reaches its promise, and a coroutine that was to drive it  *)
(* and did not start yet will not.                                         *)
DestroyedIsUntouched ==
  [][\A g \in Frames :
       frame[g].body = "destroyed" =>
         /\ frame'[g].body = "destroyed" /\ ~frame'[g].handler
         /\ ~frame'[g].forwarder
         /\ frame[g].driver = "starting" => frame'[g].driver # "waiting"]_vars

(* A session cancelled in the middle of a wait resumes, also if the        *)
(* operation that the innermost body awaits would never end: unless the    *)
(* cancellation met a completion already queued, and the body then started *)
(* another operation, which nobody cancels.                                *)
CancellationReaches ==
  (cancelled /\ consumer = "waiting") ~> (consumer # "waiting" \/ restarted)
=============================================================================
