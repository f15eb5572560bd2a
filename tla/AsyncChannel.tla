----------------------------- MODULE AsyncChannel -----------------------------
(***************************************************************************)
(* core/async_channel.hpp: a queue of values and a queue of waiters under  *)
(* one mutex.  Producers, close() and cancellation take a waiter off its   *)
(* queue under the mutex and complete it after unlocking it, so a          *)
(* completion is in the hands of some thread for a while ("taken"), then   *)
(* posted to the consumer's executor ("posted"), then delivered; other     *)
(* threads act in between.  A cancellation handler stays in a consumer's   *)
(* slot after its receive is over and can run at any time.                 *)
(*                                                                         *)
(* Values are numbered in the order push() accepts them.                   *)
(***************************************************************************)
EXTENDS Naturals, Sequences

CONSTANTS
  Consumers,   (* coroutines that receive, one async_receive at a time     *)
  MaxValues,   (* bound: values accepted                                   *)
  MaxReceives  (* bound: receives that have to wait                        *)

ASSUME ChannelAssumption == MaxValues \in Nat /\ MaxReceives \in Nat

Null == 0
NoId == 0

VARIABLES
  values, waiters, nextId, closed,   \* the channel's state
  at, what,       \* per consumer: its receive (idle, waiting, taken, posted) and its outcome
  slot,           \* per consumer: the waiter id its cancellation slot refers to
  cancelled,      \* per consumer: the current receive was told to cancel
  pushed, got     \* history: values accepted; values each consumer received

vars == <<values, waiters, nextId, closed, at, what, slot, cancelled, pushed, got>>

Init ==
  /\ values = <<>> /\ waiters = <<>> /\ nextId = NoId + 1 /\ closed = FALSE
  /\ at = [c \in Consumers |-> "idle"] /\ what = [c \in Consumers |-> Null]
  /\ slot = [c \in Consumers |-> NoId] /\ cancelled = [c \in Consumers |-> FALSE]
  /\ pushed = 0 /\ got = [c \in Consumers |-> <<>>]

-----------------------------------------------------------------------------
(* Take a waiter's completion, to be run after the mutex is released.      *)
Take(c, outcome) ==
  /\ at' = [at EXCEPT ![c] = "taken"]
  /\ what' = [what EXCEPT ![c] = outcome]

(* Defect: the value is queued although somebody waits.                    *)
DefectEnqueue == values' = Append(values, pushed') /\ UNCHANGED <<waiters, at, what>>

(* A value goes to the first waiter, or is queued when there is none.      *)
Enqueue ==
  IF waiters = <<>>
  THEN values' = Append(values, pushed') /\ UNCHANGED <<waiters, at, what>>
  ELSE /\ Take(Head(waiters).who, pushed')
       /\ waiters' = Tail(waiters)
       /\ UNCHANGED values

(* A push on a closed channel returns false and changes nothing.           *)
Push ==
  /\ ~closed /\ pushed < MaxValues
  /\ pushed' = pushed + 1
  /\ Enqueue
  /\ UNCHANGED <<nextId, closed, slot, cancelled, got>>

(* Drop the oldest values until at most max are left.                      *)
Trim(max) ==
  /\ Len(values) > max
  /\ values' = SubSeq(values, Len(values) - max + 1, Len(values))
  /\ UNCHANGED <<waiters, nextId, closed, at, what, slot, cancelled, pushed, got>>

Waiting(c) == \E i \in 1 .. Len(waiters) : waiters[i].who = c

(* Defect: the waiters are not taken.                                      *)
DefectDismissWaiters == UNCHANGED <<waiters, at, what>>

(* close() completes all waiters with nullopt.                             *)
DismissWaiters ==
  /\ at' = [c \in Consumers |-> IF Waiting(c) THEN "taken" ELSE at[c]]
  /\ what' = [c \in Consumers |-> IF Waiting(c) THEN Null ELSE what[c]]
  /\ waiters' = <<>>

Close ==
  /\ closed' = TRUE
  /\ DismissWaiters
  /\ UNCHANGED <<values, nextId, slot, cancelled, pushed, got>>

Post(c, outcome) ==
  /\ at' = [at EXCEPT ![c] = "posted"]
  /\ what' = [what EXCEPT ![c] = outcome]

(* Defect: the channel is looked at for its end before its values.         *)
DefectDrainFirst == ~closed

(* Values queued before close() are still received.                        *)
DrainFirst == TRUE

(* The consumer's cancellation slot now refers to this receive.            *)
AssignSlot(c) == slot' = [slot EXCEPT ![c] = nextId]

(* async_receive: a queued value, the end, or a wait.  Only a wait assigns *)
(* the consumer's slot.                                                    *)
AsyncReceive(c) ==
  /\ at[c] = "idle"
  /\ \/ /\ values # <<>> /\ DrainFirst
        /\ Post(c, Head(values))
        /\ values' = Tail(values)
        /\ UNCHANGED <<waiters, nextId, slot>>
     \/ /\ values = <<>> \/ ~DrainFirst
        /\ closed
        /\ Post(c, Null)
        /\ UNCHANGED <<values, waiters, nextId, slot>>
     \/ /\ values = <<>> /\ ~closed
        /\ nextId <= MaxReceives
        /\ nextId' = nextId + 1
        /\ AssignSlot(c)
        /\ waiters' = Append(waiters, [id |-> nextId, who |-> c])
        /\ at' = [at EXCEPT ![c] = "waiting"]
        /\ UNCHANGED <<values, what>>
  /\ cancelled' = [cancelled EXCEPT ![c] = FALSE]
  /\ UNCHANGED <<closed, pushed, got>>

(* Defect: the handler cancels whoever waits first.                        *)
DefectCancelled(id) == IF waiters # <<>> THEN {1} ELSE {}

(* The places of the waiter with this id: one or none.                     *)
Cancelled(id) == {i \in 1 .. Len(waiters) : waiters[i].id = id}

Remove(i) == SubSeq(waiters, 1, i - 1) \o SubSeq(waiters, i + 1, Len(waiters))

(* The consumer's slot is emitted: the handler assigned last runs.         *)
Emit(c) ==
  /\ slot[c] # NoId
  /\ cancelled' = [cancelled EXCEPT ![c] = (at[c] # "idle")]
  /\ IF Cancelled(slot[c]) = {}
     THEN UNCHANGED <<waiters, at, what>>
     ELSE \E i \in Cancelled(slot[c]) :
            /\ Take(waiters[i].who, Null)
            /\ waiters' = Remove(i)
  /\ UNCHANGED <<values, nextId, closed, slot, pushed, got>>

(* The thread that took a waiter posts its handler.                        *)
Complete(c) ==
  /\ at[c] = "taken"
  /\ Post(c, what[c])
  /\ UNCHANGED <<values, waiters, nextId, closed, slot, cancelled, pushed, got>>

(* The posted handler resumes the consumer.                                *)
Deliver(c) ==
  /\ at[c] = "posted"
  /\ at' = [at EXCEPT ![c] = "idle"]
  /\ got' = IF what[c] = Null THEN got ELSE [got EXCEPT ![c] = Append(@, what[c])]
  /\ UNCHANGED <<values, waiters, nextId, closed, what, slot, cancelled, pushed>>

Next ==
  \/ Push \/ Close
  \/ \E max \in 0 .. MaxValues : Trim(max)
  \/ \E c \in Consumers : AsyncReceive(c) \/ Emit(c) \/ Complete(c) \/ Deliver(c)

Spec == Init /\ [][Next]_vars

(* Threads go on after unlocking, and executors run what is posted.        *)
FairSpec == Spec /\ \A c \in Consumers : WF_vars(Complete(c)) /\ WF_vars(Deliver(c))

-----------------------------------------------------------------------------
(* Correctness.                                                            *)

Values == 1 .. MaxValues

(* Every variable stays within its domain; a waiter's id, and the id a     *)
(* cancellation handler remembers, has been handed out.                    *)
TypeOK ==
  /\ values \in Seq(Values) /\ closed \in BOOLEAN
  /\ nextId \in Nat \ {NoId}
  /\ waiters \in Seq([id: 1 .. nextId - 1, who: Consumers])
  /\ at \in [Consumers -> {"idle", "waiting", "taken", "posted"}]
  /\ what \in [Consumers -> Values \cup {Null}]
  /\ slot \in [Consumers -> 0 .. nextId - 1] /\ cancelled \in [Consumers -> BOOLEAN]
  /\ pushed \in Values \cup {0} /\ got \in [Consumers -> Seq(Values)]

(* Nobody sleeps while there is something to receive, or after the end.    *)
NoMissedWakeup == waiters # <<>> => values = <<>> /\ ~closed

(* A receive is in exactly one place: a consumer that waits is in the      *)
(* queue of waiters once, and nobody else is; so none completes twice.     *)
WaitersAreWaiting ==
  /\ \A i \in 1 .. Len(waiters) : at[waiters[i].who] = "waiting"
  /\ \A i, j \in 1 .. Len(waiters) : waiters[i].who = waiters[j].who => i = j
  /\ \A c \in Consumers : at[c] = "waiting" => Waiting(c)

(* nullopt means what it says: the end, after every value queued before    *)
(* the close, or a cancellation of this receive and of no other one.       *)
NullHasReason ==
  \A c \in Consumers :
    (at[c] \in {"taken", "posted"} /\ what[c] = Null) =>
      cancelled[c] \/ (closed /\ values = <<>>)

(* After a close every receive ends.                                       *)
CloseEnds == \A c \in Consumers : (closed /\ at[c] # "idle") ~> at[c] = "idle"

(* The channel implements the stream it promises: a receive that was taken *)
(* or posted is answered there.                                            *)
Stream ==
  INSTANCE FifoStream WITH
    queue <- values,
    open <- ~closed,
    asking <- [c \in Consumers |-> CASE at[c] = "idle" -> "no"
                                     [] at[c] = "waiting" -> "yes"
                                     [] OTHER -> "answered"],
    answer <- what

ImplementsStream == Stream!Spec
===============================================================================
