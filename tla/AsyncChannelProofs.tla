-------------------------- MODULE AsyncChannelProofs --------------------------
(***************************************************************************)
(* Theorems about AsyncChannel, for any number of consumers, values and    *)
(* receives: its invariants, and that it implements FifoStream.            *)
(***************************************************************************)
EXTENDS AsyncChannel, SequenceTheorems, TLAPS

(* Consumers' receives, the two queues, and the rest.                      *)
TypeReceives ==
  /\ at \in [Consumers -> {"idle", "waiting", "taken", "posted"}]
  /\ what \in [Consumers -> Values \cup {Null}]
  /\ slot \in [Consumers -> 0 .. nextId - 1] /\ cancelled \in [Consumers -> BOOLEAN]
  /\ got \in [Consumers -> Seq(Values)]

TypeQueues ==
  /\ values \in Seq(Values)
  /\ waiters \in Seq([id: 1 .. nextId - 1, who: Consumers])

TypeCounters == closed \in BOOLEAN /\ nextId \in Nat \ {NoId} /\ pushed \in Values \cup {0}

IInv == TypeReceives /\ TypeQueues /\ TypeCounters /\ WaitersAreWaiting /\ NoMissedWakeup

-----------------------------------------------------------------------------
(* The waiters without the first, and without the one at place i.          *)

Waiters == [id: 1 .. nextId - 1, who: Consumers]

(* What is left when the first element is taken.                           *)
LEMMA TailFacts ==
  ASSUME NEW S, NEW s \in Seq(S), s # <<>>
  PROVE  /\ Head(s) \in S /\ Head(s) = s[1] /\ Tail(s) \in Seq(S)
         /\ Len(s) \in Nat /\ Len(s) > 0
         /\ Len(Tail(s)) = Len(s) - 1
         /\ \A i \in 1 .. Len(Tail(s)) : Tail(s)[i] = s[i + 1]
OBVIOUS

(* What is left when the element at place i is removed.                    *)
LEMMA RemoveFacts ==
  ASSUME NEW S, waiters \in Seq(S), NEW i \in 1 .. Len(waiters)
  PROVE  /\ Remove(i) \in Seq(S)
         /\ Len(Remove(i)) = Len(waiters) - 1
         /\ \A j \in 1 .. Len(Remove(i)) :
              Remove(i)[j] = IF j < i THEN waiters[j] ELSE waiters[j + 1]
<1> DEFINE front == SubSeq(waiters, 1, i - 1)
           back == SubSeq(waiters, i + 1, Len(waiters))
<1>1. /\ front \in Seq(S) /\ Len(front) = i - 1
      /\ \A j \in 1 .. i - 1 : front[j] = waiters[j]
  OBVIOUS
<1>2. /\ back \in Seq(S) /\ Len(back) = Len(waiters) - i
      /\ \A j \in 1 .. Len(waiters) - i : back[j] = waiters[i + j]
  OBVIOUS
<1>3. Remove(i) = front \o back
  BY DEF Remove
<1> HIDE DEF front, back
<1>4. /\ front \o back \in Seq(S) /\ Len(front \o back) = Len(front) + Len(back)
      /\ \A j \in 1 .. Len(front) + Len(back) :
           (front \o back)[j] = IF j <= Len(front) THEN front[j] ELSE back[j - Len(front)]
  BY <1>1, <1>2, ConcatProperties
<1> QED
  BY <1>1, <1>2, <1>3, <1>4

(* Waiters keep their type as more ids are handed out.                     *)
LEMMA SeqMonotone ==
  ASSUME NEW S, NEW T, S \subseteq T, NEW s \in Seq(S)
  PROVE  s \in Seq(T)
OBVIOUS

(* The first waiter is the one at place 1.                                 *)
LEMMA TailIsRemove ==
  ASSUME NEW S, waiters \in Seq(S), waiters # <<>>
  PROVE  Tail(waiters) = Remove(1) /\ 1 \in 1 .. Len(waiters) /\ Head(waiters) = waiters[1]
<1>1. Tail(waiters) = SubSeq(waiters, 2, Len(waiters))
  BY TailIsSubSeq
<1>2. SubSeq(waiters, 1, 0) = <<>>
  BY SubSeqEmpty
<1>3. SubSeq(waiters, 2, Len(waiters)) \in Seq(S)
  BY <1>1, HeadTailProperties
<1>4. <<>> \o SubSeq(waiters, 2, Len(waiters)) = SubSeq(waiters, 2, Len(waiters))
  BY <1>3, ConcatEmptySeq
<1> QED
  BY <1>1, <1>2, <1>4 DEF Remove

(* What the type of the waiters says of each.                              *)
LEMMA WaiterFacts ==
  ASSUME TypeQueues
  PROVE  /\ waiters \in Seq(Waiters) /\ Len(waiters) \in Nat
         /\ \A j \in 1 .. Len(waiters) : waiters[j].who \in Consumers
<1>1. waiters \in Seq(Waiters)
  BY DEF TypeQueues, Waiters
<1>2. Len(waiters) \in Nat /\ \A j \in 1 .. Len(waiters) : waiters[j] \in Waiters
  BY <1>1
<1> QED
  BY <1>1, <1>2 DEF Waiters

-----------------------------------------------------------------------------
(* How a step may touch the waiters.                                       *)

(* Taking a waiter leaves the others waiting.                              *)
LEMMA TakeOne ==
  ASSUME TypeReceives, TypeQueues, WaitersAreWaiting, NEW i \in 1 .. Len(waiters),
         waiters' = Remove(i), at' = [at EXCEPT ![waiters[i].who] = "taken"]
  PROVE  WaitersAreWaiting' /\ waiters' \in Seq(Waiters) /\ at[waiters[i].who] = "waiting"
<1>1. waiters \in Seq(Waiters)
  BY WaiterFacts
<1>2. /\ waiters' \in Seq(Waiters) /\ Len(waiters') = Len(waiters) - 1
      /\ \A j \in 1 .. Len(waiters') :
           waiters'[j] = IF j < i THEN waiters[j] ELSE waiters[j + 1]
  BY <1>1, RemoveFacts
<1>3. Len(waiters) \in Nat /\ \A j \in 1 .. Len(waiters) : waiters[j].who \in Consumers
  BY WaiterFacts
<1>4. \A c \in Consumers : at'[c] = IF c = waiters[i].who THEN "taken" ELSE at[c]
  BY <1>3 DEF TypeReceives
<1>5. \A j \in 1 .. Len(waiters') : at'[waiters'[j].who] = "waiting"
  BY <1>2, <1>3, <1>4 DEF WaitersAreWaiting
<1>6. \A j, k \in 1 .. Len(waiters') : waiters'[j].who = waiters'[k].who => j = k
  BY <1>2, <1>3 DEF WaitersAreWaiting
<1>7. ASSUME NEW c \in Consumers, at'[c] = "waiting"
      PROVE  Waiting(c)'
  <2>1. at[c] = "waiting" /\ c # waiters[i].who
    BY <1>4, <1>7
  <2>2. PICK j \in 1 .. Len(waiters) : waiters[j].who = c
    BY <2>1 DEF WaitersAreWaiting, Waiting
  <2>3. CASE j < i
    BY <2>2, <2>3, <1>2, <1>3 DEF Waiting
  <2>4. CASE j > i
    <3>1. j - 1 \in 1 .. Len(waiters') /\ waiters'[j - 1] = waiters[j]
      BY <2>4, <1>2, <1>3
    <3> QED
      BY <3>1, <2>2 DEF Waiting
  <2> QED
    BY <2>1, <2>2, <2>3, <2>4
<1> QED
  BY <1>2, <1>5, <1>6, <1>7 DEF WaitersAreWaiting

(* A consumer that was idle joins at the end.                              *)
LEMMA JoinLast ==
  ASSUME TypeReceives, TypeQueues, WaitersAreWaiting, NEW c \in Consumers, at[c] = "idle",
         NEW w, w.who = c, waiters' = Append(waiters, w),
         at' = [at EXCEPT ![c] = "waiting"]
  PROVE  WaitersAreWaiting'
<1>1. waiters \in Seq(Waiters)
  BY WaiterFacts
<1>2. Len(waiters) \in Nat /\ \A j \in 1 .. Len(waiters) : waiters[j].who \in Consumers
  BY WaiterFacts
<1>3. /\ Len(waiters') = Len(waiters) + 1 /\ waiters'[Len(waiters) + 1] = w
      /\ \A j \in 1 .. Len(waiters) : waiters'[j] = waiters[j]
  BY <1>1
<1>4. \A d \in Consumers : at'[d] = IF d = c THEN "waiting" ELSE at[d]
  BY DEF TypeReceives
<1>5. \A j \in 1 .. Len(waiters) : waiters[j].who # c
  BY <1>2 DEF WaitersAreWaiting
<1>6. \A j \in 1 .. Len(waiters') : at'[waiters'[j].who] = "waiting"
  BY <1>2, <1>3, <1>4, <1>5 DEF WaitersAreWaiting
<1>7. \A j, k \in 1 .. Len(waiters') : waiters'[j].who = waiters'[k].who => j = k
  BY <1>2, <1>3, <1>5 DEF WaitersAreWaiting
<1>8. ASSUME NEW d \in Consumers, at'[d] = "waiting"
      PROVE  Waiting(d)'
  <2>1. CASE d = c
    <3>1. Len(waiters) + 1 \in 1 .. Len(waiters')
      BY <1>2, <1>3
    <3> QED
      BY <3>1, <2>1, <1>3 DEF Waiting
  <2>2. CASE d # c
    <3>1. PICK j \in 1 .. Len(waiters) : waiters[j].who = d
      BY <2>2, <1>4, <1>8 DEF WaitersAreWaiting, Waiting
    <3>2. j \in 1 .. Len(waiters') /\ waiters'[j] = waiters[j]
      BY <1>2, <1>3
    <3> QED
      BY <3>1, <3>2 DEF Waiting
  <2> QED
    BY <2>1, <2>2
<1> QED
  BY <1>6, <1>7, <1>8 DEF WaitersAreWaiting

(* A step that neither starts nor ends a wait.                             *)
LEMMA NoWaitTouched ==
  ASSUME TypeReceives, TypeQueues, WaitersAreWaiting, UNCHANGED waiters,
         \A c \in Consumers : at'[c] = "waiting" <=> at[c] = "waiting"
  PROVE  WaitersAreWaiting'
BY WaiterFacts DEF WaitersAreWaiting, Waiting

-----------------------------------------------------------------------------
(* The invariant.                                                          *)

LEMMA InitIInv == Init => IInv
<1> SUFFICES ASSUME Init PROVE IInv
  OBVIOUS
<1>1. nextId = 1 /\ NoId = 0
  BY DEF Init, NoId
<1>2. TypeReceives
  BY <1>1 DEF Init, TypeReceives
<1>3. TypeQueues
  <2>1. \A S : <<>> \in Seq(S)
    OBVIOUS
  <2> QED
    BY <2>1 DEF Init, TypeQueues
<1>5. TypeCounters
  <2>1. nextId \in Nat \ {NoId}
    BY <1>1
  <2>2. closed \in BOOLEAN /\ pushed \in Values \cup {0}
    BY DEF Init
  <2> QED
    BY <2>1, <2>2 DEF TypeCounters
<1>4. WaitersAreWaiting /\ NoMissedWakeup
  BY DEF Init, WaitersAreWaiting, NoMissedWakeup
<1> QED
  BY <1>2, <1>3, <1>4, <1>5 DEF IInv

(* Next as a list of cases: what the channel does, by what it finds.       *)
Queued == Push /\ waiters = <<>> /\ values' = Append(values, pushed') /\ UNCHANGED <<waiters, at, what>>
HandedOver ==
  /\ Push /\ waiters # <<>>
  /\ Take(Head(waiters).who, pushed') /\ waiters' = Tail(waiters) /\ UNCHANGED values
Received1(c) ==
  /\ values # <<>> /\ Post(c, Head(values)) /\ values' = Tail(values)
  /\ UNCHANGED <<waiters, nextId, slot>>
Ended(c) ==
  /\ values = <<>> /\ closed /\ Post(c, Null)
  /\ UNCHANGED <<values, waiters, nextId, slot>>
Waits(c) ==
  /\ values = <<>> /\ ~closed
  /\ nextId' = nextId + 1 /\ slot' = [slot EXCEPT ![c] = nextId]
  /\ waiters' = Append(waiters, [id |-> nextId, who |-> c])
  /\ at' = [at EXCEPT ![c] = "waiting"]
  /\ UNCHANGED <<values, what>>
Receive(c) ==
  /\ at[c] = "idle"
  /\ cancelled' = [cancelled EXCEPT ![c] = FALSE] /\ UNCHANGED <<closed, pushed, got>>

LEMMA StepCases ==
  ASSUME [Next]_vars
  PROVE  \/ Queued \/ HandedOver \/ Close \/ UNCHANGED vars
         \/ \E max \in 0 .. MaxValues : Trim(max)
         \/ \E c \in Consumers :
              \/ Receive(c) /\ (Received1(c) \/ Ended(c) \/ Waits(c))
              \/ Emit(c) \/ Complete(c) \/ Deliver(c)
BY DEF Next, Push, Enqueue, Queued, HandedOver, AsyncReceive, DrainFirst, AssignSlot, Receive,
   Received1, Ended, Waits

(* Cancellation takes one waiter, or finds none.                           *)
LEMMA EmitCases ==
  ASSUME NEW c \in Consumers, Emit(c)
  PROVE  \/ UNCHANGED <<waiters, at, what>>
         \/ \E i \in 1 .. Len(waiters) : /\ Take(waiters[i].who, Null)
                                         /\ waiters' = Remove(i)
BY DEF Emit, Cancelled

LEMMA StepCounters ==
  ASSUME IInv, [Next]_vars
  PROVE  TypeCounters' /\ nextId' >= nextId
<1> USE DEF IInv, TypeCounters, Values, NoId
<1>1. CASE Queued \/ HandedOver
  BY <1>1, ChannelAssumption DEF Queued, HandedOver, Push
<1>2. CASE Close
  BY <1>2 DEF Close
<1>3. CASE UNCHANGED vars
  BY <1>3 DEF vars
<1>6. CASE \E max \in 0 .. MaxValues : Trim(max)
  BY <1>6 DEF Trim
<1>4. ASSUME NEW c \in Consumers, Receive(c), Received1(c) \/ Ended(c) \/ Waits(c)
      PROVE  TypeCounters' /\ nextId' >= nextId
  BY <1>4 DEF Receive, Received1, Ended, Waits
<1>5. ASSUME NEW c \in Consumers, Emit(c) \/ Complete(c) \/ Deliver(c)
      PROVE  TypeCounters' /\ nextId' >= nextId
  BY <1>5 DEF Emit, Complete, Deliver
<1> QED
  BY <1>1, <1>2, <1>3, <1>4, <1>5, <1>6, StepCases

(* The values a step moves are values.                                     *)
LEMMA StepReceives ==
  ASSUME IInv, [Next]_vars
  PROVE  TypeReceives'
<1>0. nextId' >= nextId /\ nextId \in Nat /\ nextId' \in Nat
  BY StepCounters DEF IInv, TypeCounters
<1> USE <1>0 DEF IInv, TypeReceives, Take, Post
<1>1. CASE Queued
  BY <1>1 DEF Queued, Push
<1>2. CASE HandedOver
  <2>1. pushed' \in Values
    BY <1>2, StepCounters DEF HandedOver, Push, TypeCounters, Values
  <2> QED
    BY <1>2, <2>1 DEF HandedOver, Push
<1>3. CASE Close
  BY <1>3 DEF Close, DismissWaiters
<1>4. CASE UNCHANGED vars
  BY <1>4 DEF vars
<1>5. CASE \E max \in 0 .. MaxValues : Trim(max)
  BY <1>5 DEF Trim
<1>6. ASSUME NEW c \in Consumers, Receive(c), Received1(c)
      PROVE  TypeReceives'
  <2>1. Head(values) \in Values
    BY <1>6 DEF Received1, TypeQueues
  <2> QED
    BY <1>6, <2>1 DEF Receive, Received1
<1>7. ASSUME NEW c \in Consumers, Receive(c), Ended(c)
      PROVE  TypeReceives'
  BY <1>7 DEF Receive, Ended
<1>8. ASSUME NEW c \in Consumers, Receive(c), Waits(c)
      PROVE  TypeReceives'
  BY <1>8 DEF Receive, Waits
<1>9. ASSUME NEW c \in Consumers, Emit(c)
      PROVE  TypeReceives'
  BY <1>9, EmitCases DEF Emit
<1>10. ASSUME NEW c \in Consumers, Complete(c)
      PROVE  TypeReceives'
  BY <1>10 DEF Complete
<1>11. ASSUME NEW c \in Consumers, Deliver(c)
      PROVE  TypeReceives'
  <2>1. what[c] # Null => Append(got[c], what[c]) \in Seq(Values)
    OBVIOUS
  <2> QED
    BY <1>11, <2>1 DEF Deliver
<1> QED
  BY <1>1, <1>2, <1>3, <1>4, <1>5, <1>6, <1>7, <1>8, <1>9, <1>10, <1>11, StepCases

(* The queue holds values, and the waiters' queue consumers.               *)
LEMMA StepQueues ==
  ASSUME IInv, [Next]_vars
  PROVE  TypeQueues'
<1>0. /\ nextId' >= nextId /\ nextId \in Nat \ {NoId} /\ nextId' \in Nat
      /\ waiters \in Seq(Waiters) /\ values \in Seq(Values)
  BY StepCounters, WaiterFacts DEF IInv, TypeCounters, TypeQueues
<1>1. Waiters \subseteq Waiters'
  BY <1>0 DEF Waiters, NoId
<1>2. ASSUME values' \in Seq(Values), waiters' \in Seq(Waiters)
      PROVE  TypeQueues'
  <2>1. waiters' \in Seq(Waiters')
    BY <1>1, <1>2, SeqMonotone
  <2>2. Waiters' = [id: 1 .. nextId' - 1, who: Consumers]
    BY DEF Waiters
  <2> HIDE DEF Waiters
  <2>3. waiters' \in Seq([id: 1 .. nextId' - 1, who: Consumers])
    BY <2>1, <2>2
  <2> QED
    BY <1>2, <2>3 DEF TypeQueues, Values
<1>3. CASE Queued
  <2>1. pushed' \in Values
    BY <1>3, StepCounters DEF Queued, Push, TypeCounters, Values, IInv
  <2> QED
    BY <1>0, <1>2, <1>3, <2>1 DEF Queued
<1>4. CASE HandedOver
  BY <1>0, <1>2, <1>4, TailFacts DEF HandedOver
<1>5. CASE Close
  BY <1>0, <1>2, <1>5 DEF Close, DismissWaiters
<1>6. CASE UNCHANGED vars
  BY <1>0, <1>2, <1>6 DEF vars
<1>7. ASSUME NEW max \in 0 .. MaxValues, Trim(max)
      PROVE  TypeQueues'
  <2>1. values' \in Seq(Values)
    BY <1>0, <1>7, ChannelAssumption DEF Trim
  <2> QED
    BY <1>0, <1>2, <1>7, <2>1 DEF Trim
<1>8. ASSUME NEW c \in Consumers, Receive(c), Received1(c)
      PROVE  TypeQueues'
  BY <1>0, <1>2, <1>8, TailFacts DEF Received1
<1>9. ASSUME NEW c \in Consumers, Receive(c), Ended(c)
      PROVE  TypeQueues'
  BY <1>0, <1>2, <1>9 DEF Ended
<1>10. ASSUME NEW c \in Consumers, Receive(c), Waits(c)
       PROVE  TypeQueues'
  <2>1. [id |-> nextId, who |-> c] \in Waiters'
    BY <1>0, <1>10 DEF Waits, Waiters, NoId
  <2>2. waiters \in Seq(Waiters')
    BY <1>0, <1>1, SeqMonotone
  <2> DEFINE S == Waiters'  w == [id |-> nextId, who |-> c]
  <2>3. w \in S /\ waiters \in Seq(S)
    BY <2>1, <2>2
  <2>4. S = [id: 1 .. nextId' - 1, who: Consumers]
    BY DEF Waiters
  <2>5. waiters' = Append(waiters, w) /\ UNCHANGED values
    BY <1>10 DEF Waits
  <2> HIDE DEF S, w
  <2>6. waiters' \in Seq(S)
    BY <2>3, <2>5
  <2>7. waiters' \in Seq([id: 1 .. nextId' - 1, who: Consumers])
    BY <2>4, <2>6
  <2> QED
    BY <1>0, <2>5, <2>7 DEF TypeQueues, Values
<1>11. ASSUME NEW c \in Consumers, Emit(c)
       PROVE  TypeQueues'
  <2>1. UNCHANGED values
    BY <1>11 DEF Emit
  <2>2. CASE UNCHANGED <<waiters, at, what>>
    BY <1>0, <1>2, <2>1, <2>2
  <2>3. CASE \E i \in 1 .. Len(waiters) : waiters' = Remove(i)
    BY <1>0, <1>2, <2>1, <2>3, RemoveFacts
  <2> QED
    BY <1>11, <2>2, <2>3, EmitCases
<1>12. ASSUME NEW c \in Consumers, Complete(c) \/ Deliver(c)
       PROVE  TypeQueues'
  BY <1>0, <1>2, <1>12 DEF Complete, Deliver
<1> QED
  BY <1>3, <1>4, <1>5, <1>6, <1>7, <1>8, <1>9, <1>10, <1>11, <1>12, StepCases

(* The consumers that wait are those in the queue of waiters, once each.   *)
LEMMA StepWaiting ==
  ASSUME IInv, [Next]_vars
  PROVE  WaitersAreWaiting'
<1> USE DEF IInv
<1>1. CASE Queued
  BY <1>1, NoWaitTouched DEF Queued
<1>2. CASE HandedOver
  <2>1. /\ waiters \in Seq(Waiters) /\ waiters # <<>>
        /\ waiters' = Tail(waiters) /\ at' = [at EXCEPT ![Head(waiters).who] = "taken"]
    BY <1>2, WaiterFacts DEF HandedOver, Take
  <2> QED
    BY <2>1, TailIsRemove, TakeOne
<1>3. CASE Close
  BY <1>3 DEF Close, DismissWaiters, WaitersAreWaiting, Waiting
<1>4. CASE UNCHANGED vars
  BY <1>4, NoWaitTouched DEF vars
<1>5. CASE \E max \in 0 .. MaxValues : Trim(max)
  BY <1>5, NoWaitTouched DEF Trim
<1>6. ASSUME NEW c \in Consumers, Receive(c), Received1(c) \/ Ended(c)
      PROVE  WaitersAreWaiting'
  BY <1>6, NoWaitTouched DEF Receive, Received1, Ended, Post, TypeReceives
<1>7. ASSUME NEW c \in Consumers, Receive(c), Waits(c)
      PROVE  WaitersAreWaiting'
  BY <1>7, JoinLast DEF Receive, Waits
<1>8. ASSUME NEW c \in Consumers, Emit(c)
      PROVE  WaitersAreWaiting'
  <2>1. CASE UNCHANGED <<waiters, at, what>>
    BY <2>1, NoWaitTouched
  <2>2. CASE \E i \in 1 .. Len(waiters) : /\ Take(waiters[i].who, Null)
                                         /\ waiters' = Remove(i)
    BY <2>2, TakeOne DEF Take
  <2> QED
    BY <1>8, <2>1, <2>2, EmitCases
<1>9. ASSUME NEW c \in Consumers, Complete(c) \/ Deliver(c)
      PROVE  WaitersAreWaiting'
  BY <1>9, NoWaitTouched DEF Complete, Deliver, Post, TypeReceives
<1> QED
  BY <1>1, <1>2, <1>3, <1>4, <1>5, <1>6, <1>7, <1>8, <1>9, StepCases

(* Whoever waits, waits on an empty and open channel.                      *)
LEMMA StepWakeup ==
  ASSUME IInv, [Next]_vars
  PROVE  NoMissedWakeup'
<1> USE DEF IInv, NoMissedWakeup
<1>1. CASE Queued \/ HandedOver \/ Close \/ UNCHANGED vars
  BY <1>1 DEF Queued, HandedOver, Push, Close, DismissWaiters, vars
<1>2. ASSUME NEW max \in 0 .. MaxValues, Trim(max)
      PROVE  NoMissedWakeup'
  <2>1. values # <<>>
    BY <1>2, ChannelAssumption DEF Trim
  <2> QED
    BY <1>2, <2>1 DEF Trim
<1>3. ASSUME NEW c \in Consumers, Receive(c), Received1(c) \/ Ended(c) \/ Waits(c)
      PROVE  NoMissedWakeup'
  BY <1>3 DEF Receive, Received1, Ended, Waits
<1>4. ASSUME NEW c \in Consumers, Emit(c)
      PROVE  NoMissedWakeup'
  <2>1. UNCHANGED <<values, closed>>
    BY <1>4 DEF Emit
  <2>2. CASE UNCHANGED waiters
    BY <2>1, <2>2
  <2>3. CASE \E i \in 1 .. Len(waiters) : TRUE
    BY <2>1, <2>3
  <2> QED
    BY <1>4, <2>2, <2>3, EmitCases
<1>5. ASSUME NEW c \in Consumers, Complete(c) \/ Deliver(c)
      PROVE  NoMissedWakeup'
  BY <1>5 DEF Complete, Deliver
<1> QED
  BY <1>1, <1>2, <1>3, <1>4, <1>5, StepCases

LEMMA StepIInv == IInv /\ [Next]_vars => IInv'
BY StepReceives, StepQueues, StepCounters, StepWaiting, StepWakeup DEF IInv

LEMMA AlwaysIInv == Spec => []IInv
BY InitIInv, StepIInv, PTL DEF Spec

(* Every variable stays within its domain.                                 *)
THEOREM TypeCorrect == Spec => []TypeOK
<1>1. IInv => TypeOK
  BY DEF IInv, TypeReceives, TypeQueues, TypeCounters, TypeOK
<1> QED
  BY <1>1, AlwaysIInv, PTL

(* Nobody sleeps beside a queued value or after the end of the channel.    *)
THEOREM NobodyOversleeps == Spec => []NoMissedWakeup
<1>1. IInv => NoMissedWakeup
  BY DEF IInv
<1> QED
  BY <1>1, AlwaysIInv, PTL

(* A receive completes once: it is in one place at a time.                 *)
THEOREM WaitersCorrect == Spec => []WaitersAreWaiting
<1>1. IInv => WaitersAreWaiting
  BY DEF IInv
<1> QED
  BY <1>1, AlwaysIInv, PTL

-----------------------------------------------------------------------------
(* Why a receive ends with nullopt.                                        *)

(* A waiter's id is in its consumer's slot, and in no other one: a         *)
(* cancellation handler finds the receive it was assigned for.             *)
SlotsInv ==
  /\ \A i \in 1 .. Len(waiters) : slot[waiters[i].who] = waiters[i].id
  /\ \A c, d \in Consumers : slot[c] = slot[d] /\ slot[c] # NoId => c = d

ReasonInv == IInv /\ SlotsInv /\ NullHasReason

LEMMA InitReason == Init => ReasonInv
BY InitIInv DEF Init, ReasonInv, SlotsInv, NullHasReason

(* Only a consumer that joins changes a slot, to an id nobody has had.     *)
LEMMA StepSlots ==
  ASSUME IInv, SlotsInv, [Next]_vars
  PROVE  SlotsInv'
<1>0. /\ waiters \in Seq(Waiters) /\ Len(waiters) \in Nat
      /\ \A j \in 1 .. Len(waiters) : waiters[j].who \in Consumers
  BY WaiterFacts DEF IInv
<1>1. ASSUME UNCHANGED <<waiters, slot>>
      PROVE  SlotsInv'
  BY <1>1 DEF SlotsInv
<1>2. ASSUME NEW i \in 1 .. Len(waiters), waiters' = Remove(i), UNCHANGED slot
      PROVE  SlotsInv'
  <2>1. /\ Len(waiters') = Len(waiters) - 1
        /\ \A j \in 1 .. Len(waiters') :
             waiters'[j] = IF j < i THEN waiters[j] ELSE waiters[j + 1]
    BY <1>0, <1>2, RemoveFacts
  <2> QED
    BY <1>0, <1>2, <2>1 DEF SlotsInv
<1>3. CASE Queued \/ UNCHANGED vars
  BY <1>1, <1>3 DEF Queued, Push, vars
<1>4. CASE HandedOver
  <2>1. waiters # <<>> /\ waiters' = Tail(waiters) /\ UNCHANGED slot
    BY <1>4 DEF HandedOver, Push
  <2> QED
    BY <1>0, <1>2, <2>1, TailIsRemove
<1>5. CASE Close
  BY <1>5 DEF Close, DismissWaiters, SlotsInv
<1>6. CASE \E max \in 0 .. MaxValues : Trim(max)
  BY <1>1, <1>6 DEF Trim
<1>7. ASSUME NEW c \in Consumers, Receive(c), Received1(c) \/ Ended(c)
      PROVE  SlotsInv'
  BY <1>1, <1>7 DEF Received1, Ended
<1>8. ASSUME NEW c \in Consumers, Receive(c), Waits(c)
      PROVE  SlotsInv'
  <2> DEFINE w == [id |-> nextId, who |-> c]
  <2>1. waiters' = Append(waiters, w) /\ slot' = [slot EXCEPT ![c] = nextId] /\ at[c] = "idle"
    BY <1>8 DEF Waits, Receive
  <2>2. /\ Len(waiters') = Len(waiters) + 1 /\ waiters'[Len(waiters) + 1] = w
        /\ \A j \in 1 .. Len(waiters) : waiters'[j] = waiters[j]
    BY <1>0, <2>1
  <2>3. \A d \in Consumers : slot[d] \in 0 .. nextId - 1 /\ nextId \in Nat
    BY DEF IInv, TypeReceives, TypeCounters
  <2>4. \A d \in Consumers : slot'[d] = IF d = c THEN nextId ELSE slot[d]
    BY <2>1 DEF IInv, TypeReceives
  <2>5. \A j \in 1 .. Len(waiters) : waiters[j].who # c
    BY <2>1 DEF IInv, WaitersAreWaiting
  <2>6. \A j \in 1 .. Len(waiters') : slot'[waiters'[j].who] = waiters'[j].id
    BY <1>0, <2>2, <2>4, <2>5 DEF SlotsInv
  <2>7. \A d, e \in Consumers : slot'[d] = slot'[e] /\ slot'[d] # NoId => d = e
    BY <2>3, <2>4 DEF SlotsInv
  <2> QED
    BY <2>6, <2>7 DEF SlotsInv
<1>9. ASSUME NEW c \in Consumers, Emit(c)
      PROVE  SlotsInv'
  BY <1>1, <1>2, <1>9, EmitCases DEF Emit
<1>10. ASSUME NEW c \in Consumers, Complete(c) \/ Deliver(c)
       PROVE  SlotsInv'
  BY <1>1, <1>10 DEF Complete, Deliver
<1> QED
  BY <1>3, <1>4, <1>5, <1>6, <1>7, <1>8, <1>9, <1>10, StepCases

(* A cancellation takes the receive of the consumer it is for, or none.    *)
LEMMA EmitTakesItsOwn ==
  ASSUME IInv, SlotsInv, NEW c \in Consumers, Emit(c)
  PROVE  \/ UNCHANGED <<at, what>>
         \/ at[c] = "waiting" /\ Take(c, Null)
<1>1. SUFFICES ASSUME NEW i \in 1 .. Len(waiters), waiters[i].id = slot[c], slot[c] # NoId,
                      Take(waiters[i].who, Null)
               PROVE  at[c] = "waiting" /\ Take(c, Null)
  BY DEF Emit, Cancelled
<1>2. waiters[i].who \in Consumers
  BY WaiterFacts DEF IInv
<1>3. waiters[i].who = c
  BY <1>1, <1>2 DEF SlotsInv
<1> QED
  BY <1>1, <1>3 DEF IInv, WaitersAreWaiting

(* Each step that hands out nullopt has a reason, and none takes it away.  *)
LEMMA StepReason ==
  ASSUME ReasonInv, [Next]_vars
  PROVE  NullHasReason'
<1>0. /\ IInv /\ SlotsInv
      /\ at \in [Consumers -> {"idle", "waiting", "taken", "posted"}]
      /\ what \in [Consumers -> Values \cup {Null}]
      /\ cancelled \in [Consumers -> BOOLEAN]
  BY DEF ReasonInv, IInv, TypeReceives
<1>1. \A c \in Consumers :
        (at[c] \in {"taken", "posted"} /\ what[c] = Null) =>
          cancelled[c] \/ (closed /\ values = <<>>)
  BY DEF ReasonInv, NullHasReason
<1>2. CASE Queued
  BY <1>1, <1>2 DEF Queued, Push, NullHasReason
<1>3. CASE HandedOver
  <2>1. pushed' # Null /\ ~closed /\ UNCHANGED <<closed, cancelled, values>>
    BY <1>0, <1>3 DEF HandedOver, Push, IInv, TypeCounters, Values, Null
  <2>2. Head(waiters).who \in Consumers
    BY <1>0, <1>3, WaiterFacts, TailIsRemove DEF HandedOver, IInv
  <2> QED
    BY <1>0, <1>1, <1>3, <2>1, <2>2 DEF HandedOver, Take, NullHasReason
<1>4. CASE Close
  <2>1. \A c \in Consumers : Waiting(c) => values = <<>>
    BY <1>0 DEF Waiting, IInv, NoMissedWakeup
  <2>2. closed' /\ UNCHANGED <<values, cancelled>>
    BY <1>4 DEF Close
  <2> QED
    BY <1>1, <1>4, <2>1, <2>2 DEF Close, DismissWaiters, NullHasReason
<1>5. CASE UNCHANGED vars
  BY <1>1, <1>5 DEF vars, NullHasReason
<1>6. ASSUME NEW max \in 0 .. MaxValues, Trim(max)
      PROVE  NullHasReason'
  <2>1. values # <<>>
    BY <1>6, ChannelAssumption DEF Trim
  <2> QED
    BY <1>1, <1>6, <2>1 DEF Trim, NullHasReason
<1>7. ASSUME NEW c \in Consumers, Receive(c), Received1(c)
      PROVE  NullHasReason'
  <2>0. values # <<>> /\ values \in Seq(Values)
    BY <1>0, <1>7 DEF Received1, IInv, TypeQueues
  <2> DEFINE S == Values
  <2> HIDE DEF S
  <2>2. values # <<>> /\ values \in Seq(S)
    BY <2>0 DEF S
  <2>3. Head(values) \in S
    BY <2>2, TailFacts
  <2>1. Head(values) # Null /\ values # <<>>
    BY <2>0, <2>3, ChannelAssumption DEF S, Values, Null
  <2> QED
    BY <1>0, <1>1, <1>7, <2>1 DEF Receive, Received1, Post, NullHasReason
<1>8. ASSUME NEW c \in Consumers, Receive(c), Ended(c)
      PROVE  NullHasReason'
  BY <1>8 DEF Receive, Ended, NullHasReason
<1>9. ASSUME NEW c \in Consumers, Receive(c), Waits(c)
      PROVE  NullHasReason'
  BY <1>0, <1>1, <1>9 DEF Receive, Waits, NullHasReason
<1>10. ASSUME NEW c \in Consumers, Emit(c)
       PROVE  NullHasReason'
  <2>1. /\ cancelled' = [cancelled EXCEPT ![c] = (at[c] # "idle")]
        /\ UNCHANGED <<values, closed>>
    BY <1>10 DEF Emit
  <2>2. CASE UNCHANGED <<at, what>>
    BY <1>0, <1>1, <2>1, <2>2 DEF NullHasReason
  <2>3. CASE at[c] = "waiting" /\ Take(c, Null)
    BY <1>0, <1>1, <2>1, <2>3 DEF NullHasReason, Take
  <2> QED
    BY <1>0, <1>10, <2>2, <2>3, EmitTakesItsOwn
<1>11. ASSUME NEW c \in Consumers, Complete(c) \/ Deliver(c)
       PROVE  NullHasReason'
  BY <1>0, <1>1, <1>11 DEF Complete, Deliver, Post, NullHasReason
<1> QED
  BY <1>2, <1>3, <1>4, <1>5, <1>6, <1>7, <1>8, <1>9, <1>10, <1>11, StepCases

LEMMA StepReasonInv == ReasonInv /\ [Next]_vars => ReasonInv'
BY StepIInv, StepSlots, StepReason DEF ReasonInv

(* A receive ends with nullopt after the channel's end and its last value, *)
(* or because it was itself cancelled.                                     *)
THEOREM NullMeansIt == Spec => []NullHasReason
<1>1. ReasonInv => NullHasReason
  BY DEF ReasonInv
<1> QED
  BY <1>1, InitReason, StepReasonInv, PTL DEF Spec

-----------------------------------------------------------------------------
(* The channel implements the stream it promises.                          *)

(* What the stream sees of a receive.                                      *)
Asking(c) == CASE at[c] = "idle" -> "no" [] at[c] = "waiting" -> "yes" [] OTHER -> "answered"

LEMMA AskingFacts ==
  ASSUME TypeReceives, NEW c \in Consumers
  PROVE  /\ at[c] = "idle" <=> Asking(c) = "no"
         /\ at[c] = "waiting" <=> Asking(c) = "yes"
         /\ at[c] \in {"taken", "posted"} <=> Asking(c) = "answered"
BY DEF TypeReceives, Asking

(* Moving one consumer's receive moves its ask.                            *)
LEMMA AskAnswered ==
  ASSUME TypeReceives, NEW c \in Consumers, NEW p \in {"taken", "posted"},
         at' = [at EXCEPT ![c] = p]
  PROVE  [d \in Consumers |-> Asking(d)]' =
           [[d \in Consumers |-> Asking(d)] EXCEPT ![c] = "answered"]
BY DEF TypeReceives, Asking

(* A consumer that starts to wait asks.                                    *)
LEMMA AskWaits ==
  ASSUME TypeReceives, NEW c \in Consumers, at' = [at EXCEPT ![c] = "waiting"]
  PROVE  [d \in Consumers |-> Asking(d)]' =
           [[d \in Consumers |-> Asking(d)] EXCEPT ![c] = "yes"]
BY DEF TypeReceives, Asking

(* A consumer that has been resumed asks no more.                          *)
LEMMA AskOver ==
  ASSUME TypeReceives, NEW c \in Consumers, at' = [at EXCEPT ![c] = "idle"]
  PROVE  [d \in Consumers |-> Asking(d)]' =
           [[d \in Consumers |-> Asking(d)] EXCEPT ![c] = "no"]
BY DEF TypeReceives, Asking

LEMMA StreamInit == Init => Stream!Init
BY DEF Init, Stream!Init, Stream!Null, Null

(* Every step of the channel is a step of the stream, or none.             *)
LEMMA StreamStep ==
  ASSUME IInv, [Next]_vars
  PROVE  [Stream!Next]_(Stream!streamVars)
<1> DEFINE asking == [d \in Consumers |-> Asking(d)]
<1>0. Stream!streamVars = <<values, pushed, ~closed, asking, what>>
  BY DEF Stream!streamVars, Asking
<1> USE DEF IInv
<1>1. CASE Queued
  <2>1. Stream!Push
    BY <1>1 DEF Queued, Push, Stream!Push, Stream!Accept
  <2> QED
    BY <2>1 DEF Stream!Next
<1>2. CASE HandedOver
  <2>1. /\ Head(waiters).who \in Consumers /\ at[Head(waiters).who] = "waiting"
        /\ values = <<>> /\ ~closed
    BY <1>2, WaiterFacts, TailIsRemove DEF HandedOver, WaitersAreWaiting, NoMissedWakeup
  <2>2. PICK c \in Consumers : c = Head(waiters).who
    BY <2>1
  <2>3. asking[c] = "yes"
    BY <2>1, <2>2, AskingFacts
  <2>4. at' = [at EXCEPT ![c] = "taken"] /\ what' = [what EXCEPT ![c] = pushed']
    BY <1>2, <2>2 DEF HandedOver, Take
  <2>5. asking' = [asking EXCEPT ![c] = "answered"]
    BY <2>4, AskAnswered
  <2>6. Stream!PushTo(c)
    BY <1>2, <2>1, <2>3, <2>4, <2>5 DEF HandedOver, Push, Stream!PushTo, Stream!Accept, Asking
  <2> QED
    BY <2>6 DEF Stream!Next
<1>3. CASE Close
  <2>1. \A c \in Consumers : Waiting(c) <=> at[c] = "waiting"
    BY <1>3 DEF WaitersAreWaiting, Waiting
  <2>2. /\ at' = [c \in Consumers |-> IF at[c] = "waiting" THEN "taken" ELSE at[c]]
        /\ what' = [c \in Consumers |-> IF at[c] = "waiting" THEN Null ELSE what[c]]
    BY <1>3, <2>1 DEF Close, DismissWaiters
  <2>3. \A c \in Consumers : asking[c] = "yes" <=> at[c] = "waiting"
    BY AskingFacts
  <2>4. asking' = [c \in Consumers |-> IF asking[c] = "yes" THEN "answered" ELSE asking[c]]
    BY <2>2 DEF Asking
  <2>5. what' = [c \in Consumers |-> IF asking[c] = "yes" THEN Null ELSE what[c]]
    BY <2>2, <2>3
  <2>6. Stream!Close
    BY <1>3, <2>4, <2>5 DEF Close, Stream!Close, Stream!Null, Null, Asking
  <2> QED
    BY <2>6 DEF Stream!Next
<1>4. CASE UNCHANGED vars
  BY <1>4 DEF vars, Stream!streamVars
<1>5. ASSUME NEW max \in 0 .. MaxValues, Trim(max)
      PROVE  Stream!Next
  <2>1. /\ Len(values) - max \in 1 .. Len(values)
        /\ values' = SubSeq(values, (Len(values) - max) + 1, Len(values))
    BY <1>5, ChannelAssumption DEF Trim, TypeQueues
  <2>2. Stream!Drop
    BY <1>5, <2>1 DEF Trim, Stream!Drop
  <2> QED
    BY <2>2 DEF Stream!Next
<1>6. ASSUME NEW c \in Consumers, Receive(c), Received1(c) \/ Ended(c) \/ Waits(c)
      PROVE  Stream!Next
  <2>1. asking[c] = "no" /\ UNCHANGED <<pushed, closed>>
    BY <1>6, AskingFacts DEF Receive
  <2>2. CASE Received1(c)
    <3>0. at' = [at EXCEPT ![c] = "posted"]
      BY <2>2 DEF Received1, Post
    <3>1. asking' = [asking EXCEPT ![c] = "answered"]
      BY <3>0, AskAnswered
    <3> QED
      BY <2>1, <2>2, <3>1 DEF Received1, Post, Stream!Next, Stream!Ask, Asking
  <2>3. CASE Ended(c)
    <3>0. at' = [at EXCEPT ![c] = "posted"]
      BY <2>3 DEF Ended, Post
    <3>1. asking' = [asking EXCEPT ![c] = "answered"]
      BY <3>0, AskAnswered
    <3> QED
      BY <2>1, <2>3, <3>1 DEF Ended, Post, Stream!Next, Stream!Ask, Asking, Stream!Null, Null
  <2>4. CASE Waits(c)
    <3>1. asking' = [asking EXCEPT ![c] = "yes"]
      BY <2>4, AskWaits DEF Waits
    <3> QED
      BY <2>1, <2>4, <3>1 DEF Waits, Stream!Next, Stream!Ask, Asking
  <2> QED
    BY <1>6, <2>2, <2>3, <2>4
<1>7. ASSUME NEW c \in Consumers, Emit(c)
      PROVE  Stream!Next \/ UNCHANGED Stream!streamVars
  <2>1. UNCHANGED <<values, pushed, closed>>
    BY <1>7 DEF Emit
  <2>2. CASE UNCHANGED <<waiters, at, what>>
    BY <2>1, <2>2 DEF Stream!streamVars
  <2>3. ASSUME NEW i \in 1 .. Len(waiters), Take(waiters[i].who, Null)
        PROVE  Stream!Next
    <3>1. waiters[i].who \in Consumers /\ at[waiters[i].who] = "waiting"
      BY WaiterFacts DEF WaitersAreWaiting
    <3>2. PICK d \in Consumers : d = waiters[i].who
      BY <3>1
    <3>3. asking[d] = "yes"
      BY <3>1, <3>2, AskingFacts
    <3>4. at' = [at EXCEPT ![d] = "taken"] /\ what' = [what EXCEPT ![d] = Null]
      BY <2>3, <3>2 DEF Take
    <3>5. asking' = [asking EXCEPT ![d] = "answered"]
      BY <3>4, AskAnswered
    <3>6. Stream!Cancel(d)
      BY <2>1, <3>3, <3>4, <3>5 DEF Stream!Cancel, Asking, Stream!Null, Null
    <3> QED
      BY <3>6 DEF Stream!Next
  <2> QED
    BY <1>7, <2>2, <2>3, EmitCases
<1>8. ASSUME NEW c \in Consumers, Complete(c)
      PROVE  UNCHANGED Stream!streamVars
  <2>1. asking' = asking
    BY <1>8 DEF Complete, Post, Asking, TypeReceives
  <2>2. what' = what
    BY <1>8 DEF Complete, Post, TypeReceives
  <2> QED
    BY <1>8, <2>1, <2>2 DEF Complete, Stream!streamVars, Asking
<1>9. ASSUME NEW c \in Consumers, Deliver(c)
      PROVE  Stream!Next
  <2>1. asking[c] = "answered"
    BY <1>9, AskingFacts DEF Deliver
  <2>2. at' = [at EXCEPT ![c] = "idle"]
    BY <1>9 DEF Deliver
  <2>3. asking' = [asking EXCEPT ![c] = "no"]
    BY <2>2, AskOver
  <2>4. Stream!Receive(c)
    BY <1>9, <2>1, <2>3 DEF Deliver, Stream!Receive, Asking
  <2> QED
    BY <2>4 DEF Stream!Next
<1> QED
  BY <1>1, <1>2, <1>3, <1>4, <1>5, <1>6, <1>7, <1>8, <1>9, StepCases

(* The channel, with its waiters, posted completions and cancellations, is *)
(* the stream its users rely on.                                           *)
THEOREM ChannelIsStream == Spec => ImplementsStream
BY StreamInit, StreamStep, AlwaysIInv, PTL DEF Spec, ImplementsStream, Stream!Spec

=============================================================================
