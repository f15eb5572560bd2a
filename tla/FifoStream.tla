------------------------------ MODULE FifoStream ------------------------------
(***************************************************************************)
(* What core/async_channel.hpp promises its users: values pushed while the *)
(* stream is open reach whoever asks, in order and each at most once; an   *)
(* ask ends with a value, or with Null when the stream is closed and       *)
(* drained or when the ask was cancelled.                                  *)
(***************************************************************************)
EXTENDS Naturals, Sequences

CONSTANTS
  Consumers,   (* whoever asks; each has at most one ask outstanding      *)
  MaxValues    (* bound: values pushed                                    *)

Null == 0

VARIABLES queue, pushed, open, asking, answer

streamVars == <<queue, pushed, open, asking, answer>>

Init ==
  /\ queue = <<>> /\ pushed = 0 /\ open = TRUE
  /\ asking = [c \in Consumers |-> "no"]
  /\ answer = [c \in Consumers |-> Null]

(* Values are numbered in the order they are accepted.                     *)
Accept == open /\ pushed < MaxValues /\ pushed' = pushed + 1

Push ==
  /\ Accept
  /\ queue' = Append(queue, pushed')
  /\ UNCHANGED <<open, asking, answer>>

(* With nothing queued a value may go to somebody who asks right away.     *)
PushTo(c) ==
  /\ Accept /\ queue = <<>> /\ asking[c] = "yes"
  /\ asking' = [asking EXCEPT ![c] = "answered"]
  /\ answer' = [answer EXCEPT ![c] = pushed']
  /\ UNCHANGED <<queue, open>>

(* Asking: the oldest value, the end of the stream, or a wait.             *)
Ask(c) ==
  /\ asking[c] = "no"
  /\ \/ /\ queue # <<>>
        /\ queue' = Tail(queue)
        /\ asking' = [asking EXCEPT ![c] = "answered"]
        /\ answer' = [answer EXCEPT ![c] = Head(queue)]
     \/ /\ queue = <<>> /\ ~open
        /\ asking' = [asking EXCEPT ![c] = "answered"]
        /\ answer' = [answer EXCEPT ![c] = Null]
        /\ UNCHANGED queue
     \/ /\ queue = <<>> /\ open
        /\ asking' = [asking EXCEPT ![c] = "yes"]
        /\ UNCHANGED <<queue, answer>>
  /\ UNCHANGED <<pushed, open>>

(* Closing answers everybody who waits.                                    *)
Close ==
  /\ open' = FALSE
  /\ asking' = [c \in Consumers |-> IF asking[c] = "yes" THEN "answered" ELSE asking[c]]
  /\ answer' = [c \in Consumers |-> IF asking[c] = "yes" THEN Null ELSE answer[c]]
  /\ UNCHANGED <<queue, pushed>>

(* Cancelling an ask ends it; no value is consumed by it.                  *)
Cancel(c) ==
  /\ asking[c] = "yes"
  /\ asking' = [asking EXCEPT ![c] = "answered"]
  /\ answer' = [answer EXCEPT ![c] = Null]
  /\ UNCHANGED <<queue, pushed, open>>

(* The oldest values may be dropped.                                       *)
Drop ==
  /\ \E n \in 1 .. Len(queue) : queue' = SubSeq(queue, n + 1, Len(queue))
  /\ UNCHANGED <<pushed, open, asking, answer>>

(* The answer arrives.                                                     *)
Receive(c) ==
  /\ asking[c] = "answered"
  /\ asking' = [asking EXCEPT ![c] = "no"]
  /\ UNCHANGED <<queue, pushed, open, answer>>

Next ==
  \/ Push \/ Close \/ Drop
  \/ \E c \in Consumers : PushTo(c) \/ Ask(c) \/ Cancel(c) \/ Receive(c)

Spec == Init /\ [][Next]_streamVars
===============================================================================
