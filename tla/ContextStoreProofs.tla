-------------------------- MODULE ContextStoreProofs --------------------------
(***************************************************************************)
(* Theorems about ContextStore, for any number of requests, keys and       *)
(* entries and any timeout: its lock, whatever relaxed writes are seen late,*)
(* and what a sweep may not do where they are not.                         *)
(***************************************************************************)
EXTENDS ContextStore, FiniteSetTheorems, TLAPS

(* TypeOK in two parts: the locks and the requests at them, and the rest.  *)
LockTypes ==
  /\ locked \in [Entries -> BOOLEAN] /\ waiters \in [Entries -> Seq(Requests)]
  /\ flying \in [Entries -> Nat]
  /\ pc \in [Requests -> Steps] /\ ent \in [Requests -> Entries \cup {NoEntry}]

MapTypes ==
  /\ clock \in 0 .. MaxTime /\ sweptAt \in 0 .. MaxTime
  /\ entries \in [Keys -> Entries \cup {NoEntry}]
  /\ made \in 0 .. MaxEntries /\ keyOf \in [Entries -> Keys]
  /\ last \in [Entries -> 0 .. MaxTime] /\ stale \in [Entries -> 0 .. MaxTime]
  /\ used \in [Entries -> 0 .. MaxTime] /\ before \in [Entries -> Nat]
  /\ holder \in Requests \cup {Nobody} /\ aim \in Keys /\ doomed \subseteq Keys
  /\ toucher \in [Entries -> Requests \cup {Nobody}]
  /\ counter \in [Entries -> Requests \cup {Nobody}]
  /\ now \in [Requests -> 0 .. MaxTime]

(* Where a request is on its way to a lock, has it, or gives it back.      *)
AtLock == Owning \cup {"lock", "waiting"}
Refers == \A p \in Requests : pc[p] \in AtLock => ent[p] \in Entries

(* Whoever is queued for an entry's lock waits for it, and is queued once. *)
Queues ==
  \A e \in Entries :
    /\ \A i \in 1 .. Len(waiters[e]) : /\ pc[waiters[e][i]] = "waiting"
                                       /\ ent[waiters[e][i]] = e
    /\ \A i, j \in 1 .. Len(waiters[e]) : waiters[e][i] = waiters[e][j] => i = j

(* in_flight_ counts the one request that runs with the entry, if any.     *)
Counts == \A e \in Entries : flying[e] = IF InUse(e) THEN 1 ELSE 0

(* A free lock is unwanted, and no two requests own one.                   *)
LockInv ==
  LockTypes /\ Refers /\ Queues /\ MutualExclusion /\ FreeMeansUnwanted /\ Counts

(* Room is reserved for the entries about to be made.                      *)
Room == made + Cardinality(Making) <= MaxEntries

-----------------------------------------------------------------------------
(* A request away from the lock that starts, ends or reaches the lock.     *)
LEMMA AwayStep ==
  ASSUME LockInv, NEW p \in Requests, pc[p] \in Operations \cup {"idle"},
         NEW x \in Operations \cup {"idle", "lock"}, pc' = [pc EXCEPT ![p] = x],
         NEW e \in Entries \cup {NoEntry}, ent' = [ent EXCEPT ![p] = e],
         x = "lock" => e \in Entries,
         UnchangedLocks
  PROVE  LockInv'
<1> USE DEF UnchangedLocks
<1>1. pc[p] \notin AtLock /\ pc[p] # "waiting" /\ pc[p] \notin Owning /\ pc[p] \notin InFlight
  BY DEF Operations, AtLock, Owning, InFlight
<1>2. x \notin Owning /\ x # "waiting" /\ x \notin InFlight /\ (x \in AtLock => x = "lock")
  BY DEF Operations, AtLock, Owning, InFlight
<1>3. LockTypes'
  BY DEF LockInv, LockTypes, Steps
<1>4. \A q \in Requests : q # p => pc'[q] = pc[q] /\ ent'[q] = ent[q]
  BY DEF LockInv, LockTypes
<1>5. pc'[p] = x /\ ent'[p] = e
  BY DEF LockInv, LockTypes
<1>6. Refers'
  BY <1>2, <1>4, <1>5 DEF LockInv, Refers
<1>7. \A f \in Entries : \A i \in 1 .. Len(waiters[f]) : waiters[f][i] \in Requests
  BY DEF LockInv, LockTypes
<1>8. Queues'
  BY <1>1, <1>4, <1>7 DEF LockInv, Queues
<1>9. MutualExclusion'
  BY <1>2, <1>4, <1>5 DEF LockInv, MutualExclusion
<1>10. FreeMeansUnwanted'
  BY <1>2, <1>4, <1>5 DEF LockInv, FreeMeansUnwanted
<1>11. \A f \in Entries : InUse(f)' <=> InUse(f)
  BY <1>1, <1>2, <1>4, <1>5 DEF InUse
<1>12. Counts'
  BY <1>11 DEF LockInv, Counts
<1> QED
  BY <1>3, <1>6, <1>8, <1>9, <1>10, <1>12 DEF LockInv

(* A request that owns a lock and keeps it.                                *)
LEMMA OwnerStep ==
  ASSUME LockInv, NEW p \in Requests, pc[p] \in Owning,
         NEW x \in Owning, pc' = [pc EXCEPT ![p] = x],
         UNCHANGED <<ent, locked, waiters>>, flying' \in [Entries -> Nat],
         \A e \in Entries : e # ent[p] => flying'[e] = flying[e],
         flying'[ent[p]] = IF x \in InFlight THEN 1 ELSE 0
  PROVE  LockInv'
<1>1. ent[p] \in Entries /\ pc[p] # "waiting"
  BY DEF LockInv, Refers, AtLock, Owning
<1>2. LockTypes'
  BY DEF LockInv, LockTypes, Steps
<1>3. \A q \in Requests : q # p => pc'[q] = pc[q]
  BY DEF LockInv, LockTypes
<1>4. pc'[p] = x
  BY DEF LockInv, LockTypes
<1>5. Refers'
  BY <1>1, <1>3 DEF LockInv, Refers
<1>6. \A f \in Entries : \A i \in 1 .. Len(waiters[f]) : waiters[f][i] \in Requests
  BY DEF LockInv, LockTypes
<1>7. Queues'
  <2>1. \A f \in Entries : \A i \in 1 .. Len(waiters[f]) : waiters[f][i] # p
    BY <1>1 DEF LockInv, Queues
  <2>2. waiters' = waiters /\ ent' = ent
    OBVIOUS
  <2>3. ASSUME NEW f \in Entries
        PROVE  /\ \A i \in 1 .. Len(waiters[f]) : /\ pc'[waiters[f][i]] = "waiting"
                                                   /\ ent[waiters[f][i]] = f
               /\ \A i, j \in 1 .. Len(waiters[f]) : waiters[f][i] = waiters[f][j] => i = j
    <3>1. /\ \A i \in 1 .. Len(waiters[f]) : /\ pc[waiters[f][i]] = "waiting"
                                             /\ ent[waiters[f][i]] = f
          /\ \A i, j \in 1 .. Len(waiters[f]) : waiters[f][i] = waiters[f][j] => i = j
      BY DEF LockInv, Queues
    <3> QED
      BY <1>3, <1>6, <2>1, <3>1
  <2> QED
    BY <2>2, <2>3 DEF Queues
<1>8. MutualExclusion'
  BY <1>3 DEF LockInv, MutualExclusion
<1>9. FreeMeansUnwanted'
  BY <1>3 DEF LockInv, FreeMeansUnwanted
<1>10. \A f \in Entries : f # ent[p] => (InUse(f)' <=> InUse(f))
  BY <1>3 DEF InUse
<1>11. \A q \in Requests : (q # p /\ ent[q] = ent[p]) => pc[q] \notin InFlight
  BY DEF LockInv, MutualExclusion, InFlight, Owning
<1>12. InUse(ent[p])' <=> x \in InFlight
  <2>1. \A q \in Requests : (q # p /\ ent'[q] = ent[p]) => pc'[q] \notin InFlight
    BY <1>3, <1>11
  <2> QED
    BY <1>4, <2>1 DEF InUse
<1>13. Counts'
  BY <1>1, <1>10, <1>12 DEF LockInv, Counts
<1> QED
  BY <1>2, <1>5, <1>7, <1>8, <1>9, <1>13 DEF LockInv

(* async_acquire: the lock is free, and taken.                             *)
LEMMA AcquireFree ==
  ASSUME LockInv, NEW p \in Requests, Acquire(p), ~locked[ent[p]]
  PROVE  LockInv'
<1> DEFINE e == ent[p]
<1>1. /\ pc[p] = "lock" /\ e \in Entries
      /\ pc' = [pc EXCEPT ![p] = "granted"] /\ locked' = [locked EXCEPT ![e] = TRUE]
      /\ UNCHANGED <<waiters, flying, ent>>
  BY DEF Acquire, LockInv, Refers, AtLock
<1> HIDE DEF e
<1>2. \A q \in Requests : q # p => pc'[q] = pc[q]
  BY <1>1 DEF LockInv, LockTypes
<1>3. pc'[p] = "granted" /\ locked'[e]
  BY <1>1 DEF LockInv, LockTypes
<1>4. LockTypes'
  BY <1>1 DEF LockInv, LockTypes, Steps, Owning
<1>5. Refers'
  BY <1>1, <1>2 DEF LockInv, Refers, e
<1>6. Queues'
  <2>1. \A f \in Entries : \A i \in 1 .. Len(waiters[f]) : waiters[f][i] \in Requests
    BY DEF LockInv, LockTypes
  <2>2. \A f \in Entries : \A i \in 1 .. Len(waiters[f]) : waiters[f][i] # p
    BY <1>1 DEF LockInv, Queues
  <2> QED
    BY <1>1, <1>2, <2>1, <2>2 DEF LockInv, Queues
<1>7. \A q \in Requests : ent[q] = e => pc[q] \notin Owning
  BY <1>1 DEF LockInv, FreeMeansUnwanted, e
<1>8. MutualExclusion'
  BY <1>1, <1>2, <1>7 DEF LockInv, MutualExclusion, e
<1>9. FreeMeansUnwanted'
  <2>1. \A f \in Entries : f # e => locked'[f] = locked[f]
    BY <1>1 DEF LockInv, LockTypes
  <2> QED
    BY <1>1, <1>2, <1>3, <2>1 DEF LockInv, FreeMeansUnwanted, e
<1>10. \A f \in Entries : InUse(f)' <=> InUse(f)
  BY <1>1, <1>2, <1>3 DEF InUse, InFlight
<1>11. Counts'
  BY <1>1, <1>10 DEF LockInv, Counts
<1> QED
  BY <1>4, <1>5, <1>6, <1>8, <1>9, <1>11 DEF LockInv

(* async_acquire: the lock is taken, and waited for.                       *)
LEMMA AcquireTaken ==
  ASSUME LockInv, NEW p \in Requests, Acquire(p), locked[ent[p]]
  PROVE  LockInv'
<1> DEFINE e == ent[p]
           queue == waiters[e]
<1>1. /\ pc[p] = "lock" /\ e \in Entries
      /\ pc' = [pc EXCEPT ![p] = "waiting"]
      /\ waiters' = [waiters EXCEPT ![e] = Append(queue, p)]
      /\ UNCHANGED <<locked, flying, ent>>
  BY DEF Acquire, LockInv, Refers, AtLock
<1>2. \A q \in Requests : q # p => pc'[q] = pc[q]
  BY <1>1 DEF LockInv, LockTypes
<1>3. pc'[p] = "waiting"
  BY <1>1 DEF LockInv, LockTypes
<1>4. queue \in Seq(Requests)
  BY <1>1 DEF LockInv, LockTypes
<1>5. waiters'[e] = Append(queue, p) /\ \A f \in Entries : f # e => waiters'[f] = waiters[f]
  BY <1>1 DEF LockInv, LockTypes
<1>6. LockTypes'
  <2>1. Append(queue, p) \in Seq(Requests)
    BY <1>4
  <2> HIDE DEF queue
  <2> QED
    BY <1>1, <2>1 DEF LockInv, LockTypes, Steps
<1>7. \A f \in Entries : \A i \in 1 .. Len(waiters[f]) : waiters[f][i] \in Requests
  BY DEF LockInv, LockTypes
<1>8. \A f \in Entries : \A i \in 1 .. Len(waiters[f]) : waiters[f][i] # p
  BY <1>1 DEF LockInv, Queues
<1>9. /\ Len(waiters'[e]) = Len(queue) + 1 /\ waiters'[e][Len(queue) + 1] = p
      /\ \A i \in 1 .. Len(queue) : waiters'[e][i] = queue[i]
      /\ Len(queue) \in Nat
  BY <1>4, <1>5
<1> HIDE DEF queue
<1>10. Queues'
  <2>1. ASSUME NEW f \in Entries, f # e
        PROVE  /\ \A i \in 1 .. Len(waiters'[f]) : pc'[waiters'[f][i]] = "waiting" /\ ent'[waiters'[f][i]] = f
               /\ \A i, j \in 1 .. Len(waiters'[f]) : waiters'[f][i] = waiters'[f][j] => i = j
    BY <1>1, <1>2, <1>5, <1>7, <1>8, <2>1 DEF LockInv, Queues
  <2>2. \A i \in 1 .. Len(queue) : pc'[queue[i]] = "waiting" /\ ent'[queue[i]] = e /\ queue[i] # p
    BY <1>1, <1>2, <1>7, <1>8 DEF LockInv, Queues, queue
  <2>3. \A i, j \in 1 .. Len(queue) : queue[i] = queue[j] => i = j
    BY <1>1 DEF LockInv, Queues, queue
  <2>4. \A i \in 1 .. Len(waiters'[e]) : pc'[waiters'[e][i]] = "waiting" /\ ent'[waiters'[e][i]] = e
    BY <1>1, <1>3, <1>9, <2>2
  <2>5. \A i, j \in 1 .. Len(waiters'[e]) : waiters'[e][i] = waiters'[e][j] => i = j
    BY <1>9, <2>2, <2>3
  <2> QED
    BY <2>1, <2>4, <2>5 DEF Queues
<1> HIDE DEF e
<1>11. Refers'
  BY <1>1, <1>2 DEF LockInv, Refers, e
<1>12. MutualExclusion'
  BY <1>1, <1>2, <1>3 DEF LockInv, MutualExclusion, Owning
<1>13. FreeMeansUnwanted'
  BY <1>1, <1>2, <1>3, <1>5 DEF LockInv, FreeMeansUnwanted, Owning, e
<1>14. \A f \in Entries : InUse(f)' <=> InUse(f)
  BY <1>1, <1>2, <1>3 DEF InUse, InFlight
<1>15. Counts'
  BY <1>1, <1>14 DEF LockInv, Counts
<1> QED
  BY <1>6, <1>10, <1>11, <1>12, <1>13, <1>15 DEF LockInv

(* async_lock::release: nobody waits, and the lock becomes free.           *)
LEMMA UnlockFree ==
  ASSUME LockInv, NEW p \in Requests, Unlock(p), waiters[ent[p]] = <<>>
  PROVE  LockInv'
<1> DEFINE e == ent[p]
<1>1. /\ pc[p] = "unlock" /\ e \in Entries
      /\ pc' = [pc EXCEPT ![p] = "idle"] /\ locked' = [locked EXCEPT ![e] = FALSE]
      /\ ent' = [ent EXCEPT ![p] = NoEntry]
      /\ UNCHANGED <<waiters, flying>>
  BY DEF Unlock, HandOver, LockInv, Refers, AtLock, Owning
<1> HIDE DEF e
<1>2. \A q \in Requests : q # p => pc'[q] = pc[q] /\ ent'[q] = ent[q]
  BY <1>1 DEF LockInv, LockTypes
<1>3. pc'[p] = "idle" /\ ~locked'[e] /\ \A f \in Entries : f # e => locked'[f] = locked[f]
  BY <1>1 DEF LockInv, LockTypes
<1>4. LockTypes'
  BY <1>1 DEF LockInv, LockTypes, Steps
<1>5. Refers'
  BY <1>2, <1>3 DEF LockInv, Refers, AtLock, Owning
<1>6. Queues'
  <2>1. \A f \in Entries : \A i \in 1 .. Len(waiters[f]) : waiters[f][i] \in Requests
    BY DEF LockInv, LockTypes
  <2>2. \A f \in Entries : \A i \in 1 .. Len(waiters[f]) : waiters[f][i] # p
    BY <1>1 DEF LockInv, Queues
  <2> QED
    BY <1>1, <1>2, <2>1, <2>2 DEF LockInv, Queues
<1>7. MutualExclusion'
  BY <1>2, <1>3 DEF LockInv, MutualExclusion, Owning
<1>8. \A q \in Requests : (q # p /\ ent[q] = e) => pc[q] \notin Owning
  BY <1>1 DEF LockInv, MutualExclusion, Owning, e
<1>9. FreeMeansUnwanted'
  BY <1>1, <1>2, <1>3, <1>8 DEF LockInv, FreeMeansUnwanted, Owning, e
<1>10. \A f \in Entries : InUse(f)' <=> InUse(f)
  BY <1>1, <1>2, <1>3 DEF InUse, InFlight
<1>11. Counts'
  BY <1>1, <1>10 DEF LockInv, Counts
<1> QED
  BY <1>4, <1>5, <1>6, <1>7, <1>9, <1>11 DEF LockInv

(* async_lock::release: the first waiter gets the lock.                    *)
LEMMA UnlockHandsOver ==
  ASSUME LockInv, NEW p \in Requests, Unlock(p), waiters[ent[p]] # <<>>
  PROVE  LockInv'
<1> DEFINE e == ent[p]
           queue == waiters[e]
           h == Head(queue)
<1>1. /\ pc[p] = "unlock" /\ e \in Entries
      /\ pc' = [pc EXCEPT ![p] = "idle", ![h] = "granted"]
      /\ waiters' = [waiters EXCEPT ![e] = Tail(queue)]
      /\ ent' = [ent EXCEPT ![p] = NoEntry]
      /\ UNCHANGED <<locked, flying>>
  BY DEF Unlock, HandOver, LockInv, Refers, AtLock, Owning
<1>2. queue \in Seq(Requests) /\ queue # <<>>
  BY <1>1 DEF LockInv, LockTypes
<1>3. /\ h \in Requests /\ h = queue[1] /\ Tail(queue) \in Seq(Requests)
      /\ Len(queue) \in Nat /\ Len(queue) > 0 /\ Len(Tail(queue)) = Len(queue) - 1
      /\ \A i \in 1 .. Len(Tail(queue)) : Tail(queue)[i] = queue[i + 1]
  BY <1>2
<1>4. /\ \A i \in 1 .. Len(queue) : pc[queue[i]] = "waiting" /\ ent[queue[i]] = e
      /\ \A i, j \in 1 .. Len(queue) : queue[i] = queue[j] => i = j
  BY <1>1 DEF LockInv, Queues
<1>5. \A i \in 1 .. Len(queue) : queue[i] \in Requests
  BY <1>2
<1> DEFINE rest == Tail(queue)
<1>6. /\ waiters'[e] = rest /\ rest \in Seq(Requests)
      /\ \A f \in Entries : f # e => waiters'[f] = waiters[f]
  BY <1>1, <1>3 DEF LockInv, LockTypes
<1>7. /\ Len(rest) \in Nat
      /\ \A i \in 1 .. Len(rest) : rest[i] = queue[i + 1] /\ i + 1 \in 1 .. Len(queue)
  BY <1>3
<1> HIDE DEF rest, queue, h
<1>8. pc[h] = "waiting" /\ ent[h] = e /\ h # p
  BY <1>1, <1>3, <1>4
<1>9. pc'[h] = "granted" /\ pc'[p] = "idle" /\ ent'[h] = e
  BY <1>1, <1>3, <1>8 DEF LockInv, LockTypes
<1>10. \A q \in Requests : q # p => ent'[q] = ent[q] /\ (q # h => pc'[q] = pc[q])
  BY <1>1, <1>3 DEF LockInv, LockTypes
<1>11. LockTypes'
  BY <1>1, <1>3, <1>6 DEF LockInv, LockTypes, Steps, Owning, rest
<1>12. Refers'
  BY <1>1, <1>8, <1>9, <1>10 DEF LockInv, Refers, AtLock, Owning
<1>13. Queues'
  <2>1. ASSUME NEW f \in Entries, f # e
        PROVE  /\ \A i \in 1 .. Len(waiters'[f]) : pc'[waiters'[f][i]] = "waiting" /\ ent'[waiters'[f][i]] = f
               /\ \A i, j \in 1 .. Len(waiters'[f]) : waiters'[f][i] = waiters'[f][j] => i = j
    <3>1. \A i \in 1 .. Len(waiters[f]) : waiters[f][i] \in Requests
      BY DEF LockInv, LockTypes
    <3>2. /\ \A i \in 1 .. Len(waiters[f]) : pc[waiters[f][i]] = "waiting" /\ ent[waiters[f][i]] = f
          /\ \A i, j \in 1 .. Len(waiters[f]) : waiters[f][i] = waiters[f][j] => i = j
      BY DEF LockInv, Queues
    <3>3. \A i \in 1 .. Len(waiters[f]) : waiters[f][i] # p /\ waiters[f][i] # h
      BY <1>1, <1>8, <2>1, <3>2
    <3> QED
      BY <1>6, <1>10, <2>1, <3>1, <3>2, <3>3
  <2>2. \A i \in 1 .. Len(rest) : rest[i] \in Requests /\ rest[i] # h /\ rest[i] # p
    BY <1>1, <1>3, <1>4, <1>5, <1>7
  <2>3. \A i \in 1 .. Len(rest) : pc'[rest[i]] = "waiting" /\ ent'[rest[i]] = e
    BY <1>4, <1>7, <1>10, <2>2
  <2>4. \A i, j \in 1 .. Len(rest) : rest[i] = rest[j] => i = j
    BY <1>3, <1>4, <1>7
  <2> QED
    BY <1>6, <2>1, <2>3, <2>4 DEF Queues
<1>14. \A q \in Requests : (q # p /\ ent[q] = e) => pc[q] \notin Owning
  BY <1>1 DEF LockInv, MutualExclusion, Owning, e
<1>15. locked[e]
  BY <1>1 DEF LockInv, FreeMeansUnwanted, Owning, e
<1> HIDE DEF e
<1>16. MutualExclusion'
  BY <1>8, <1>9, <1>10, <1>14 DEF LockInv, MutualExclusion, Owning
<1>17. FreeMeansUnwanted'
  <2> SUFFICES ASSUME NEW f \in Entries, ~locked'[f]
               PROVE  /\ waiters'[f] = <<>>
                      /\ \A q \in Requests : ent'[q] = f => pc'[q] \notin Owning
    BY DEF FreeMeansUnwanted
  <2>1. ~locked[f] /\ f # e
    BY <1>1, <1>15
  <2>2. waiters[f] = <<>> /\ \A q \in Requests : ent[q] = f => pc[q] \notin Owning
    BY <2>1 DEF LockInv, FreeMeansUnwanted
  <2>3. pc'[p] \notin Owning /\ ent'[h] # f
    BY <1>9, <2>1 DEF Owning
  <2>4. \A q \in Requests : (q # p /\ q # h) => (ent'[q] = f => pc'[q] \notin Owning)
    BY <1>10, <2>2
  <2> QED
    BY <1>6, <2>1, <2>2, <2>3, <2>4
<1>18. \A f \in Entries : InUse(f)' <=> InUse(f)
  BY <1>1, <1>3, <1>8, <1>9, <1>10 DEF InUse, InFlight
<1>19. Counts'
  BY <1>1, <1>18 DEF LockInv, Counts
<1> QED
  BY <1>11, <1>12, <1>13, <1>16, <1>17, <1>19 DEF LockInv

-----------------------------------------------------------------------------
(* Every step keeps the locks in order.                                    *)

(* Next as a list of cases.                                                *)
LEMMA StepCases ==
  ASSUME [Next]_vars
  PROVE  \/ \E p \in Requests, o \in Operations : Begin(p, o)
         \/ \E p \in Requests : Look(p)
         \/ \E p \in Requests : Find(p)
         \/ \E p \in Requests : Emplace(p)
         \/ \E p \in Requests : Create(p)
         \/ \E p \in Requests : Sweep(p)
         \/ \E p \in Requests : Acquire(p)
         \/ \E p \in Requests : Resume(p)
         \/ \E p \in Requests : BeginRelease(p)
         \/ \E p \in Requests : Touch(p)
         \/ \E p \in Requests : Leave(p)
         \/ \E p \in Requests : Unlock(p)
         \/ \E k \in Keys : Erase(k)
         \/ \E e \in Entries : BecomeVisible(e)
         \/ Tick
         \/ UNCHANGED moving
BY DEF Next, Step, Continue, vars, moving

Maps == [Keys -> Entries \cup {NoEntry}]

(* What the map holds once the keys found expired are erased.              *)
LEMMA LeftMap ==
  ASSUME MapTypes
  PROVE  /\ Left \in Maps
         /\ \A k \in Keys : \/ k \notin doomed /\ Left[k] = entries[k]
                            \/ k \in doomed /\ Left[k] = NoEntry
         /\ Known => Left[aim] \in Entries
BY DEF MapTypes, Maps, Left, Known

(* The request that touches an entry is on its way to its lock.            *)
LEMMA TouchStep ==
  ASSUME LockInv, NEW p \in Requests, pc[p] \in Operations, NEW e \in Entries,
         TouchFound(p, e), UnchangedLocks
  PROVE  LockInv'
BY AwayStep DEF TouchFound

(* The request that comes back without one is as far from the locks.       *)
LEMMA ComeBackStep ==
  ASSUME LockInv, NEW p \in Requests, pc[p] \in Operations, ComeBack(p), UnchangedLocks
  PROVE  LockInv'
<1>1. ent' = [ent EXCEPT ![p] = ent[p]] /\ ent[p] \in Entries \cup {NoEntry}
  BY DEF ComeBack, LockInv, LockTypes
<1>2. pc' = [pc EXCEPT ![p] = "idle"] /\ pc[p] \in Operations \cup {"idle"}
  BY DEF ComeBack
<1>3. "idle" \in Operations \cup {"idle", "lock"} /\ "idle" # "lock"
  OBVIOUS
<1> QED
  BY <1>1, <1>2, <1>3, AwayStep

LEMMA MadeIsEntry ==
  ASSUME MapTypes, Room, NEW p \in Requests, pc[p] \in {"emplace", "create"},
         IsFiniteSet(Requests)
  PROVE  /\ made + 1 \in Entries
         /\ IsFiniteSet(Making) /\ Cardinality(Making) \in Nat
         /\ p \in Making
         /\ Cardinality(Making \ {p}) = Cardinality(Making) - 1
<1>1. IsFiniteSet(Making)
  BY FS_Subset DEF Making
<1>2. p \in Making
  BY DEF Making
<1>3. Cardinality(Making) \in Nat
  BY <1>1, FS_CardinalityType
<1>4. Cardinality(Making) # 0
  BY <1>1, <1>2, FS_EmptySet
<1>5. Cardinality(Making \ {p}) = Cardinality(Making) - 1
  BY <1>1, <1>2, FS_RemoveElement
<1>6. made + 1 \in Entries
  BY <1>3, <1>4, StoreAssumption DEF Room, MapTypes, Entries
<1> QED
  BY <1>1, <1>2, <1>3, <1>5, <1>6

LEMMA StepLock == LockInv /\ MapTypes /\ Room /\ [Next]_vars => LockInv'
<1> SUFFICES ASSUME LockInv, MapTypes, Room, [Next]_vars
             PROVE  LockInv'
  OBVIOUS
<1>1. CASE \E p \in Requests, o \in Operations : Begin(p, o)
  <2> PICK p \in Requests, o \in Operations : Begin(p, o)
    BY <1>1
  <2>1. ent' = [ent EXCEPT ![p] = ent[p]] /\ ent[p] \in Entries \cup {NoEntry}
    BY DEF Begin, LockInv, LockTypes
  <2>2. o # "lock"
    BY DEF Operations
  <2>3. pc' = [pc EXCEPT ![p] = o] /\ pc[p] \in Operations \cup {"idle"} /\ UnchangedLocks
    BY DEF Begin
  <2> QED
    BY <2>1, <2>2, <2>3, AwayStep
<1>2. CASE \E p \in Requests : Find(p)
  <2> PICK p \in Requests : Find(p)
    BY <1>2
  <2>1. pc[p] \in Operations /\ UnchangedLocks
    BY DEF Find, Operations
  <2>2. \/ Known /\ TouchFound(p, Left[aim])
        \/ ComeBack(p)
    BY DEF Find
  <2> QED
    BY <2>1, <2>2, LeftMap, TouchStep, ComeBackStep
<1>3. CASE \E p \in Requests : Emplace(p)
  <2> PICK p \in Requests : Emplace(p)
    BY <1>3
  <2>1. pc[p] \in Operations /\ pc[p] \in {"emplace", "create"} /\ UnchangedLocks
    BY DEF Emplace, Operations
  <2>2. \/ Known /\ TouchFound(p, Left[aim])
        \/ TouchFound(p, made + 1)
    BY DEF Emplace, MakeEntry
  <2>3. made + 1 \in Entries
    BY <2>1, MadeIsEntry, StoreAssumption
  <2> QED
    BY <2>1, <2>2, <2>3, LeftMap, TouchStep
<1>4. CASE \E p \in Requests : Create(p)
  <2> PICK p \in Requests : Create(p)
    BY <1>4
  <2>1. pc[p] \in Operations /\ pc[p] \in {"emplace", "create"} /\ UnchangedLocks
    BY DEF Create, Operations
  <2>2. TouchFound(p, made + 1)
    BY DEF Create, MakeEntry
  <2> QED
    BY <2>1, <2>2, MadeIsEntry, StoreAssumption, TouchStep
<1>5. CASE \E p \in Requests : Sweep(p)
  <2> PICK p \in Requests : Sweep(p)
    BY <1>5
  <2>1. pc[p] \in Operations /\ ComeBack(p) /\ UnchangedLocks
    BY DEF Sweep, Operations
  <2> QED
    BY <2>1, ComeBackStep
<1>6. CASE \E p \in Requests : Acquire(p)
  BY <1>6, AcquireFree, AcquireTaken
<1>7. CASE \E p \in Requests : Resume(p)
  <2> PICK p \in Requests : Resume(p)
    BY <1>7
  <2>1. /\ pc[p] = "granted" /\ pc' = [pc EXCEPT ![p] = "holding"]
        /\ flying' = [flying EXCEPT ![ent[p]] = flying[ent[p]] + 1]
        /\ UNCHANGED <<ent, locked, waiters>>
    BY DEF Resume, Count, Counted
  <2>2. ent[p] \in Entries
    BY <2>1 DEF LockInv, Refers, AtLock, Owning
  <2>3. flying[ent[p]] = 0
    BY <2>1, <2>2 DEF LockInv, Counts, InUse, MutualExclusion, InFlight, Owning
  <2>4. /\ flying' \in [Entries -> Nat] /\ flying'[ent[p]] = 1
        /\ \A e \in Entries : e # ent[p] => flying'[e] = flying[e]
    BY <2>1, <2>2, <2>3 DEF LockInv, LockTypes
  <2> QED
    BY <2>1, <2>4, OwnerStep DEF Owning, InFlight
<1>8. CASE \E p \in Requests : BeginRelease(p) \/ Touch(p)
  <2> PICK p \in Requests : BeginRelease(p) \/ Touch(p)
    BY <1>8
  <2> DEFINE x == IF pc[p] = "holding" THEN "touch" ELSE "leave"
  <2>1. /\ pc[p] \in {"holding", "touch"} /\ pc' = [pc EXCEPT ![p] = x]
        /\ UNCHANGED <<ent, locked, waiters, flying>>
    BY DEF BeginRelease, Touch
  <2>2. ent[p] \in Entries
    BY <2>1 DEF LockInv, Refers, AtLock, Owning
  <2>3. flying' \in [Entries -> Nat] /\ flying'[ent[p]] = 1
    BY <2>1, <2>2 DEF LockInv, LockTypes, Counts, InUse, InFlight
  <2>4. x \in Owning /\ x \in InFlight /\ pc[p] \in Owning
    BY <2>1 DEF Owning, InFlight
  <2> HIDE DEF x
  <2> QED
    BY <2>1, <2>3, <2>4, OwnerStep
<1>9. CASE \E p \in Requests : Leave(p)
  <2> PICK p \in Requests : Leave(p)
    BY <1>9
  <2>1. /\ pc[p] = "leave" /\ pc' = [pc EXCEPT ![p] = "unlock"]
        /\ flying' = [flying EXCEPT ![ent[p]] = flying[ent[p]] - 1]
        /\ UNCHANGED <<ent, locked, waiters>>
    BY DEF Leave, Count
  <2>2. ent[p] \in Entries
    BY <2>1 DEF LockInv, Refers, AtLock, Owning
  <2>3. flying[ent[p]] = 1
    BY <2>1, <2>2 DEF LockInv, Counts, InUse, InFlight
  <2>4. /\ flying' \in [Entries -> Nat] /\ flying'[ent[p]] = 0
        /\ \A e \in Entries : e # ent[p] => flying'[e] = flying[e]
    BY <2>1, <2>2, <2>3 DEF LockInv, LockTypes
  <2> QED
    BY <2>1, <2>4, OwnerStep DEF Owning, InFlight
<1>10. CASE \E p \in Requests : Unlock(p)
  BY <1>10, UnlockFree, UnlockHandsOver
<1>11. CASE UNCHANGED <<pc, ent, locked, waiters, flying>>
  BY <1>11 DEF LockInv, LockTypes, Refers, Queues, MutualExclusion, FreeMeansUnwanted, Counts,
     InUse
<1>12. CASE \/ \E p \in Requests : Look(p)
            \/ \E k \in Keys : Erase(k)
            \/ \E e \in Entries : BecomeVisible(e)
            \/ Tick
            \/ UNCHANGED moving
  BY <1>11, <1>12 DEF Look, Erase, BecomeVisible, Tick, moving, UnchangedLocks
<1> QED
  BY <1>1, <1>2, <1>3, <1>4, <1>5, <1>6, <1>7, <1>8, <1>9, <1>10, <1>12, StepCases

-----------------------------------------------------------------------------
(* Every step keeps the map, the clock and the stamps in order.            *)

(* Leaving the mutex.                                                      *)
LEMMA PublishTypes ==
  ASSUME MapTypes, NEW p \in Requests, NEW found, Publish(p, found)
  PROVE  /\ toucher' \in [Entries -> Requests \cup {Nobody}]
         /\ counter' \in [Entries -> Requests \cup {Nobody}]
         /\ holder' \in Requests \cup {Nobody} /\ aim' \in Keys /\ doomed' \subseteq Keys
<1>1. AnyKey \in Keys
  BY StoreAssumption DEF AnyKey
<1>2. /\ toucher' = [e \in Entries |-> IF e = found \/ toucher[e] = p THEN Nobody ELSE toucher[e]]
      /\ counter' = [e \in Entries |-> IF counter[e] = p THEN Nobody ELSE counter[e]]
      /\ holder' = Nobody /\ aim' = AnyKey /\ doomed' = {}
  BY DEF Publish
<1> QED
  BY <1>1, <1>2 DEF MapTypes

(* Touching an entry stamps it with the request's own clock reading.       *)
LEMMA TouchTypes ==
  ASSUME MapTypes, NEW p \in Requests, NEW e \in Entries, TouchFound(p, e)
  PROVE  last' \in [Entries -> 0 .. MaxTime] /\ used' \in [Entries -> 0 .. MaxTime]
<1>1. last' = [last EXCEPT ![e] = now[p]] /\ now[p] \in 0 .. MaxTime
  BY DEF TouchFound, MapTypes
<1>2. used' = [used EXCEPT ![e] = clock] /\ clock \in 0 .. MaxTime
  BY DEF TouchFound, MapTypes
<1> QED
  BY <1>1, <1>2 DEF MapTypes

LEMMA MakeTypes ==
  ASSUME MapTypes, Room, NEW p \in Requests, pc[p] \in {"emplace", "create"}, MakeEntry(p)
  PROVE  /\ last' \in [Entries -> 0 .. MaxTime] /\ used' \in [Entries -> 0 .. MaxTime]
         /\ entries' \in Maps /\ made' \in 0 .. MaxEntries /\ keyOf' \in [Entries -> Keys]
<1>1. made + 1 \in Entries
  BY MadeIsEntry, StoreAssumption
<1>2. /\ TouchFound(p, made + 1) /\ made' = made + 1
      /\ keyOf' = [keyOf EXCEPT ![made + 1] = aim] /\ entries' = [Left EXCEPT ![aim] = made + 1]
  BY DEF MakeEntry
<1>3. made + 1 \in 0 .. MaxEntries
  BY <1>1, StoreAssumption DEF Entries
<1>4. keyOf' \in [Entries -> Keys]
  BY <1>2 DEF MapTypes
<1>5. entries' \in Maps
  BY <1>1, <1>2, LeftMap DEF Maps
<1> QED
  BY <1>1, <1>2, <1>3, <1>4, <1>5, TouchTypes

LEMMA CountTypes ==
  ASSUME LockInv, MapTypes, NEW p \in Requests, NEW n, Count(p, n)
  PROVE  /\ before' \in [Entries -> Nat]
         /\ counter' \in [Entries -> Requests \cup {Nobody}]
<1>1. CASE ent[p] \in Entries
  <2>1. flying[ent[p]] \in Nat
    BY <1>1 DEF LockInv, LockTypes
  <2> QED
    BY <2>1 DEF MapTypes, Count
<1>2. CASE ent[p] \notin Entries
  BY <1>2 DEF MapTypes, Count
<1> QED
  BY <1>1, <1>2

LEMMA StepMap == LockInv /\ MapTypes /\ Room /\ [Next]_vars => MapTypes'
<1> SUFFICES ASSUME LockInv, MapTypes, Room, [Next]_vars
             PROVE  MapTypes'
  OBVIOUS
<1>1. CASE \E p \in Requests, o \in Operations : Begin(p, o)
  BY <1>1 DEF MapTypes, Begin, UnchangedLocks
<1>2. CASE \E p \in Requests : Look(p)
  <2> PICK p \in Requests : Look(p)
    BY <1>2
  <2>1. holder' = p /\ aim' \in Keys
    BY DEF Look
  <2>2. doomed' \subseteq Keys
    BY DEF Look, Condemned
  <2>3. sweptAt' \in 0 .. MaxTime
    BY DEF Look, MapTypes
  <2> QED
    BY <2>1, <2>2, <2>3 DEF MapTypes, Look, UnchangedLocks
<1>3. CASE \E p \in Requests : Find(p)
  <2> PICK p \in Requests : Find(p)
    BY <1>3
  <2>1. /\ UNCHANGED <<clock, sweptAt, made, keyOf, stale, now, before>>
        /\ entries' \in Maps
    BY LeftMap DEF Find, UnchangedLocks
  <2>2. CASE Known /\ TouchFound(p, Left[aim])
    <3>1. Left[aim] \in Entries
      BY <2>2, LeftMap
    <3>2. Publish(p, Left[aim])
      BY <2>2 DEF TouchFound
    <3>3. last' \in [Entries -> 0 .. MaxTime] /\ used' \in [Entries -> 0 .. MaxTime]
      BY <2>2, <3>1, TouchTypes
    <3> QED
      BY <2>1, <3>2, <3>3, PublishTypes DEF MapTypes, Maps
  <2>3. CASE ComeBack(p)
    <3>1. Publish(p, NoEntry) /\ UNCHANGED <<last, used>>
      BY <2>3 DEF ComeBack
    <3> QED
      BY <2>1, <3>1, PublishTypes DEF MapTypes, Maps
  <2> QED
    BY <2>2, <2>3 DEF Find
<1>4. CASE \E p \in Requests : Emplace(p)
  <2> PICK p \in Requests : Emplace(p)
    BY <1>4
  <2>1. UNCHANGED <<clock, sweptAt, stale, now, before>> /\ pc[p] \in {"emplace", "create"}
    BY DEF Emplace, UnchangedLocks
  <2>2. CASE /\ Known /\ TouchFound(p, Left[aim])
             /\ entries' = Left /\ UNCHANGED <<made, keyOf>>
    <3>1. Left[aim] \in Entries /\ entries' \in Maps
      BY <2>2, LeftMap
    <3>2. Publish(p, Left[aim])
      BY <2>2 DEF TouchFound
    <3>3. last' \in [Entries -> 0 .. MaxTime] /\ used' \in [Entries -> 0 .. MaxTime]
      BY <2>2, <3>1, TouchTypes
    <3> QED
      BY <2>1, <2>2, <3>1, <3>2, <3>3, PublishTypes DEF MapTypes, Maps
  <2>3. CASE MakeEntry(p)
    <3>1. Publish(p, made + 1)
      BY <2>3 DEF MakeEntry, TouchFound
    <3>2. /\ last' \in [Entries -> 0 .. MaxTime] /\ used' \in [Entries -> 0 .. MaxTime]
          /\ entries' \in Maps /\ made' \in 0 .. MaxEntries /\ keyOf' \in [Entries -> Keys]
      BY <2>1, <2>3, MakeTypes
    <3> QED
      BY <2>1, <3>1, <3>2, PublishTypes DEF MapTypes, Maps
  <2> QED
    BY <2>2, <2>3 DEF Emplace
<1>5. CASE \E p \in Requests : Create(p)
  <2> PICK p \in Requests : Create(p)
    BY <1>5
  <2>1. /\ UNCHANGED <<clock, sweptAt, stale, now, before>> /\ pc[p] \in {"emplace", "create"}
        /\ MakeEntry(p)
    BY DEF Create, UnchangedLocks
  <2>2. Publish(p, made + 1)
    BY <2>1 DEF MakeEntry, TouchFound
  <2>3. /\ last' \in [Entries -> 0 .. MaxTime] /\ used' \in [Entries -> 0 .. MaxTime]
        /\ entries' \in Maps /\ made' \in 0 .. MaxEntries /\ keyOf' \in [Entries -> Keys]
    BY <2>1, MakeTypes
  <2> QED
    BY <2>1, <2>2, <2>3, PublishTypes DEF MapTypes, Maps
<1>6. CASE \E p \in Requests : Sweep(p)
  <2> PICK p \in Requests : Sweep(p)
    BY <1>6
  <2>1. /\ entries' \in Maps /\ Publish(p, NoEntry)
        /\ UNCHANGED <<clock, sweptAt, made, keyOf, last, used, stale, now, before>>
    BY LeftMap DEF Sweep, ComeBack, UnchangedLocks
  <2> QED
    BY <2>1, PublishTypes DEF MapTypes, Maps
<1>7. CASE \E p \in Requests : Acquire(p) \/ Unlock(p)
  BY <1>7 DEF MapTypes, Acquire, Unlock, UnchangedMap
<1>8. CASE \E p \in Requests : Resume(p) \/ Leave(p)
  <2> PICK p \in Requests : Resume(p) \/ Leave(p)
    BY <1>8
  <2>1. /\ \E n : Count(p, n)
        /\ UNCHANGED <<clock, last, stale, now, toucher, used>> /\ UnchangedMap
    BY DEF Resume, Leave
  <2> QED
    BY <2>1, CountTypes DEF MapTypes, UnchangedMap
<1>9. CASE \E p \in Requests : BeginRelease(p)
  BY <1>9 DEF MapTypes, BeginRelease, UnchangedMap
<1>10. CASE \E p \in Requests : Touch(p)
  <2> PICK p \in Requests : Touch(p)
    BY <1>10
  <2>1. ent[p] \in Entries
    BY DEF Touch, LockInv, Refers, AtLock, Owning
  <2> QED
    BY <2>1 DEF MapTypes, Touch, UnchangedMap
<1>11. CASE \E k \in Keys : Erase(k)
  BY <1>11 DEF MapTypes, Erase, UnchangedLocks
<1>12. CASE \E e \in Entries : BecomeVisible(e)
  BY <1>12 DEF MapTypes, BecomeVisible, UnchangedMap
<1>13. CASE Tick
  BY <1>13, StoreAssumption DEF MapTypes, Tick, UnchangedMap
<1>14. CASE UNCHANGED moving
  BY <1>14 DEF MapTypes, moving
<1> QED
  BY <1>1, <1>2, <1>3, <1>4, <1>5, <1>6, <1>7, <1>8, <1>9, <1>10, <1>11, <1>12, <1>13, <1>14,
     StepCases

-----------------------------------------------------------------------------
(* No more entries are made than there is room for.                        *)

(* A request that makes an entry, or may still make one.                   *)
Makes == {"emplace", "create"}

LEMMA FewerMaking ==
  ASSUME LockInv, NEW p \in Requests, NEW x, x \notin Makes, pc' = [pc EXCEPT ![p] = x]
  PROVE  Making' = Making \ {p}
BY DEF Making, Makes, LockInv, LockTypes

LEMMA StepRoom == LockInv /\ MapTypes /\ Room /\ [Next]_vars => Room'
<1> SUFFICES ASSUME LockInv, MapTypes, Room, [Next]_vars
             PROVE  Room'
  OBVIOUS
<1>1. IsFiniteSet(Making) /\ Cardinality(Making) \in Nat /\ made \in Nat /\ MaxEntries \in Nat
  BY FS_Subset, FS_CardinalityType, StoreAssumption DEF Making, MapTypes
<1>2. ASSUME Making' \subseteq Making, made' = made
      PROVE  Room'
  <2>1. Cardinality(Making') <= Cardinality(Making) /\ Cardinality(Making') \in Nat
    BY <1>1, <1>2, FS_Subset, FS_CardinalityType
  <2> QED
    BY <1>1, <1>2, <2>1 DEF Room
<1>3. ASSUME NEW p \in Requests, pc[p] \in Makes, pc' = [pc EXCEPT ![p] = "lock"], made' = made + 1
      PROVE  Room'
  <2>1. Making' = Making \ {p}
    BY <1>3, FewerMaking DEF Makes
  <2>2. Cardinality(Making \ {p}) = Cardinality(Making) - 1
    BY <1>3, MadeIsEntry, StoreAssumption DEF Makes
  <2> QED
    BY <1>1, <1>3, <2>1, <2>2 DEF Room
<1>4. CASE \E p \in Requests, o \in Operations : Begin(p, o)
  <2> PICK p \in Requests, o \in Operations : Begin(p, o)
    BY <1>4
  <2>1. pc' = [pc EXCEPT ![p] = o] /\ made' = made
    BY DEF Begin
  <2>2. CASE o \notin Makes
    BY <1>2, <2>1, <2>2, FewerMaking
  <2>3. CASE o \in Makes
    <3>1. Making' = Making \cup {p} /\ p \notin Making
      BY <2>1, <2>3 DEF Begin, Making, Makes, LockInv, LockTypes
    <3>2. Cardinality(Making') = Cardinality(Making) + 1
      BY <1>1, <3>1, FS_AddElement
    <3>3. made + Cardinality(Making) < MaxEntries
      BY <2>3 DEF Begin, Makes
    <3> QED
      BY <1>1, <2>1, <3>2, <3>3 DEF Room
  <2> QED
    BY <2>2, <2>3
<1>5. CASE \E p \in Requests : Find(p)
  <2> PICK p \in Requests : Find(p)
    BY <1>5
  <2>1. made' = made /\ \E x \in {"idle", "lock"} : pc' = [pc EXCEPT ![p] = x]
    BY DEF Find, TouchFound, ComeBack
  <2> QED
    BY <1>2, <2>1, FewerMaking DEF Makes
<1>6. CASE \E p \in Requests : Emplace(p)
  <2> PICK p \in Requests : Emplace(p)
    BY <1>6
  <2>1. /\ pc[p] \in Makes /\ pc' = [pc EXCEPT ![p] = "lock"]
        /\ made' = made \/ made' = made + 1
    BY DEF Emplace, MakeEntry, TouchFound, Makes
  <2>2. Making' = Making \ {p}
    BY <2>1, FewerMaking DEF Makes
  <2> QED
    BY <1>2, <1>3, <2>1, <2>2
<1>7. CASE \E p \in Requests : Create(p)
  BY <1>3, <1>7 DEF Create, MakeEntry, TouchFound, Makes
<1>8. CASE \E p \in Requests : Sweep(p)
  <2> PICK p \in Requests : Sweep(p)
    BY <1>8
  <2>1. made' = made /\ pc' = [pc EXCEPT ![p] = "idle"]
    BY DEF Sweep, ComeBack
  <2> QED
    BY <1>2, <2>1, FewerMaking DEF Makes
<1>9. CASE \E p \in Requests : Acquire(p) \/ Resume(p) \/ BeginRelease(p) \/ Touch(p) \/ Leave(p)
  <2> PICK p \in Requests : Acquire(p) \/ Resume(p) \/ BeginRelease(p) \/ Touch(p) \/ Leave(p)
    BY <1>9
  <2>1. made' = made
    BY DEF Acquire, Resume, BeginRelease, Touch, Leave, UnchangedMap
  <2>2. \E x \in {"granted", "waiting", "holding", "touch", "leave", "unlock"} :
          pc' = [pc EXCEPT ![p] = x]
    BY DEF Acquire, Resume, BeginRelease, Touch, Leave
  <2> QED
    BY <1>2, <2>1, <2>2, FewerMaking DEF Makes
<1>10. CASE \E p \in Requests : Unlock(p)
  <2> PICK p \in Requests : Unlock(p)
    BY <1>10
  <2>1. made' = made
    BY DEF Unlock, UnchangedMap
  <2>2. \/ pc' = [pc EXCEPT ![p] = "idle"]
        \/ pc' = [pc EXCEPT ![p] = "idle", ![Head(waiters[ent[p]])] = "granted"]
    BY DEF Unlock, HandOver
  <2>3. \A q \in Requests : pc'[q] \in Makes => pc[q] \in Makes
    BY <2>2 DEF LockInv, LockTypes, Makes
  <2> QED
    BY <1>2, <2>1, <2>3 DEF Making, Makes
<1>11. CASE \/ \E p \in Requests : Look(p)
            \/ \E k \in Keys : Erase(k)
            \/ \E e \in Entries : BecomeVisible(e)
            \/ Tick
            \/ UNCHANGED moving
  <2>1. UNCHANGED <<pc, made>>
    BY <1>11 DEF Look, Erase, BecomeVisible, Tick, moving, UnchangedMap
  <2> QED
    BY <1>2, <2>1 DEF Making
<1> QED
  BY <1>4, <1>5, <1>6, <1>7, <1>8, <1>9, <1>10, <1>11, StepCases

-----------------------------------------------------------------------------
(* The theorems.                                                           *)

IInv == LockInv /\ MapTypes /\ Room

LEMMA InitIInv == Init => IInv
<1> SUFFICES ASSUME Init
             PROVE  IInv
  OBVIOUS
<1>1. MapTypes
  <2>1. AnyKey \in Keys
    BY StoreAssumption DEF AnyKey
  <2> QED
    BY <2>1, StoreAssumption DEF Init, MapTypes, Entries
<1>2. \A p \in Requests : pc[p] = "idle"
  BY DEF Init
<1>3. LockTypes
  BY DEF Init, LockTypes, Steps
<1>4. \A e \in Entries : waiters[e] = <<>> /\ flying[e] = 0
  BY DEF Init
<1>5. Refers /\ MutualExclusion /\ FreeMeansUnwanted
  BY <1>2, <1>4 DEF Refers, MutualExclusion, FreeMeansUnwanted, AtLock, Owning
<1>6. Queues /\ Counts
  BY <1>2, <1>4 DEF Queues, Counts, InUse, InFlight
<1>7. Making = {} /\ made = 0
  BY <1>2 DEF Making, Init
<1>8. Room
  BY <1>7, FS_EmptySet, StoreAssumption DEF Room
<1> QED
  BY <1>1, <1>3, <1>5, <1>6, <1>8 DEF IInv, LockInv

LEMMA AlwaysIInv == Spec => []IInv
<1>1. IInv /\ [Next]_vars => IInv'
  BY StepLock, StepMap, StepRoom DEF IInv
<1> QED
  BY InitIInv, <1>1, PTL DEF Spec

(* Every variable stays within its domain, whatever the sizes: in_flight   *)
(* never falls below zero, and entries are never made beyond the bound.    *)
THEOREM TypeCorrect == Spec => []TypeOK
<1>1. IInv => TypeOK
  BY DEF IInv, LockInv, LockTypes, MapTypes, TypeOK
<1> QED
  BY <1>1, AlwaysIInv, PTL

(* Handlers of one entry exclude each other, for any number of requests.   *)
THEOREM LockExcludes == Spec => []MutualExclusion
<1>1. IInv => MutualExclusion
  BY DEF IInv, LockInv
<1> QED
  BY <1>1, AlwaysIInv, PTL

(* A lock that is free has nobody waiting for it: the hand-over from the   *)
(* holder to the first waiter loses none of the others.                    *)
THEOREM NoHandOverLost == Spec => []FreeMeansUnwanted
<1>1. IInv => FreeMeansUnwanted
  BY DEF IInv, LockInv
<1> QED
  BY <1>1, AlwaysIInv, PTL

(* The waiters of a lock are served in the order in which they came.       *)
THEOREM FirstComeFirstServed == Spec => NoOvertaking
<1> DEFINE Before(e, q) ==
      \E j \in 1 .. Len(waiters[e]) :
        /\ waiters[e][j] = q
        /\ \A i \in 1 .. Len(waiters'[e]) :
             \E k \in j + 1 .. Len(waiters[e]) : waiters[e][k] = waiters'[e][i]
<1>1. ASSUME IInv, [Next]_vars, NEW e \in Entries, NEW q \in Requests,
             pc'[q] = "granted", pc[q] # "granted", ent'[q] = e, waiters'[e] # <<>>
      PROVE  Before(e, q)
  <2>1. LockInv /\ pc \in [Requests -> Steps] /\ waiters \in [Entries -> Seq(Requests)]
    BY <1>1 DEF IInv, LockInv, LockTypes
  <2>2. CASE \E p \in Requests : Unlock(p)
    <3> PICK p \in Requests : Unlock(p)
      BY <2>2
    <3> DEFINE f == ent[p]
    <3>1. /\ pc[p] = "unlock" /\ f \in Entries /\ ent' = [ent EXCEPT ![p] = NoEntry]
          /\ HandOver(p, f)
      BY <2>1 DEF Unlock, LockInv, Refers, AtLock, Owning
    <3>2. waiters[f] # <<>>
      BY <1>1, <2>1, <3>1 DEF HandOver
    <3>3. /\ waiters' = [waiters EXCEPT ![f] = Tail(waiters[f])]
          /\ pc' = [pc EXCEPT ![p] = "idle", ![Head(waiters[f])] = "granted"]
      BY <3>1, <3>2 DEF HandOver
    <3>4. /\ waiters[f] \in Seq(Requests) /\ Head(waiters[f]) = waiters[f][1]
          /\ 1 \in 1 .. Len(waiters[f]) /\ Len(Tail(waiters[f])) = Len(waiters[f]) - 1
          /\ \A i \in 1 .. Len(Tail(waiters[f])) : Tail(waiters[f])[i] = waiters[f][i + 1]
      BY <2>1, <3>1, <3>2
    <3>5. pc[waiters[f][1]] = "waiting" /\ ent[waiters[f][1]] = f
      BY <2>1, <3>1, <3>4 DEF LockInv, Queues
    <3>6. q = waiters[f][1]
      BY <1>1, <2>1, <3>1, <3>3, <3>4
    <3>7. e = f
      <4>1. q # p
        BY <3>1, <3>5, <3>6
      <4> QED
        BY <1>1, <3>1, <3>5, <3>6, <4>1 DEF LockInv, LockTypes
    <3>8. waiters'[e] = Tail(waiters[f])
      BY <2>1, <3>1, <3>3, <3>7
    <3>9. ASSUME NEW i \in 1 .. Len(waiters'[e])
          PROVE  \E k \in 1 + 1 .. Len(waiters[e]) : waiters[e][k] = waiters'[e][i]
      <4>1. i + 1 \in 1 + 1 .. Len(waiters[e])
        BY <3>4, <3>7, <3>8
      <4> QED
        BY <3>4, <3>7, <3>8, <4>1
    <3> QED
      BY <3>4, <3>6, <3>7, <3>9
  <2>3. CASE \E p \in Requests : Acquire(p)
    <3> PICK p \in Requests : Acquire(p)
      BY <2>3
    <3>1. /\ ~locked[ent[p]] /\ UNCHANGED <<waiters, ent>> /\ q = p
      BY <1>1, <2>1 DEF Acquire
    <3>2. waiters[ent[p]] = <<>>
      BY <1>1, <2>1, <3>1 DEF LockInv, FreeMeansUnwanted
    <3> QED
      BY <1>1, <3>1, <3>2
  <2>4. CASE pc'[q] # "granted" \/ pc'[q] = pc[q]
    BY <1>1, <2>4
  <2> QED
    BY <1>1, <2>1, <2>2, <2>3, <2>4, StepCases DEF Begin, Look, Find, Emplace, MakeEntry,
       TouchFound, ComeBack, Create, Sweep, Resume, BeginRelease, Touch, Leave, Erase, BecomeVisible, Tick, moving,
       Operations
<1>2. IInv /\ [Next]_vars =>
        [\A e \in Entries, q \in Requests :
           (/\ pc'[q] = "granted" /\ pc[q] # "granted" /\ ent'[q] = e
            /\ waiters'[e] # <<>>) => Before(e, q)]_vars
  BY <1>1
<1> QED
  BY <1>2, AlwaysIInv, PTL DEF Spec, NoOvertaking

-----------------------------------------------------------------------------
(* Whose lock it is, and who waits for it.                                 *)

(* A lock that is not free has an owner.                                   *)
Owned == \A e \in Entries : locked[e] => \E p \in Requests : ent[p] = e /\ pc[p] \in Owning

(* Whoever waits for a lock is in its queue.                               *)
Queued ==
  \A p \in Requests :
    pc[p] = "waiting" => \E i \in 1 .. Len(waiters[ent[p]]) : waiters[ent[p]][i] = p

(* A request moves without taking, giving back or awaiting a lock.         *)
Moves(p) ==
  /\ \A q \in Requests : q # p => pc'[q] = pc[q] /\ ent'[q] = ent[q]
  /\ pc[p] # "waiting" /\ pc'[p] # "waiting"
  /\ pc[p] \in Owning => pc'[p] \in Owning /\ ent'[p] = ent[p]
  /\ UNCHANGED <<locked, waiters>>

LEMMA MovesKeep ==
  ASSUME Owned, Queued, LockInv, NEW p \in Requests, Moves(p)
  PROVE  Owned' /\ Queued'
<1>1. Owned'
  <2> SUFFICES ASSUME NEW e \in Entries, locked[e]
               PROVE  \E q \in Requests : ent'[q] = e /\ pc'[q] \in Owning
    BY DEF Owned, Moves
  <2>1. PICK q \in Requests : ent[q] = e /\ pc[q] \in Owning
    BY DEF Owned
  <2> QED
    BY <2>1 DEF Moves
<1>2. Queued'
  BY DEF Moves, Queued
<1> QED
  BY <1>1, <1>2

(* The actions that are such moves.                                        *)
LEMMA MovingActions ==
  ASSUME LockInv, NEW p \in Requests,
         \/ \E o \in Operations : Begin(p, o)
         \/ Look(p) \/ Find(p) \/ Emplace(p) \/ Create(p) \/ Sweep(p)
         \/ Resume(p) \/ BeginRelease(p) \/ Touch(p) \/ Leave(p)
  PROVE  Moves(p)
<1>1. pc \in [Requests -> Steps] /\ ent \in [Requests -> Entries \cup {NoEntry}]
  BY DEF LockInv, LockTypes
<1>2. CASE \E o \in Operations : Begin(p, o)
  BY <1>1, <1>2 DEF Begin, Moves, UnchangedLocks, Operations, Owning
<1>3. CASE Find(p) \/ Sweep(p)
  <2>1. /\ pc[p] \in {"find", "sweep"} /\ UnchangedLocks
        /\ \/ pc' = [pc EXCEPT ![p] = "idle"] /\ ent' = ent
           \/ \E e : pc' = [pc EXCEPT ![p] = "lock"] /\ ent' = [ent EXCEPT ![p] = e]
    BY <1>3 DEF Find, Sweep, TouchFound, ComeBack
  <2> QED
    BY <1>1, <2>1 DEF Moves, UnchangedLocks, Owning
<1>4. CASE Create(p) \/ Emplace(p)
  <2>1. /\ pc[p] \in {"emplace", "create"} /\ UnchangedLocks
        /\ \E e : pc' = [pc EXCEPT ![p] = "lock"] /\ ent' = [ent EXCEPT ![p] = e]
    BY <1>4 DEF Emplace, Create, MakeEntry, TouchFound
  <2> QED
    BY <1>1, <2>1 DEF Moves, UnchangedLocks, Owning
<1>5. CASE Look(p)
  BY <1>5 DEF Look, Moves, UnchangedLocks, Operations
<1>6. CASE Resume(p) \/ BeginRelease(p) \/ Touch(p) \/ Leave(p)
  <2>1. /\ pc[p] \in {"granted", "holding", "touch", "leave"}
        /\ \E x \in {"holding", "touch", "leave", "unlock"} : pc' = [pc EXCEPT ![p] = x]
        /\ UNCHANGED <<ent, locked, waiters>>
    BY <1>6 DEF Resume, BeginRelease, Touch, Leave
  <2> QED
    BY <1>1, <2>1 DEF Moves, Owning
<1> QED
  BY <1>2, <1>3, <1>4, <1>5, <1>6

LEMMA AcquireKeeps ==
  ASSUME Owned, Queued, LockInv, NEW p \in Requests, Acquire(p)
  PROVE  Owned' /\ Queued'
<1> DEFINE e == ent[p]
<1>1. /\ pc \in [Requests -> Steps] /\ locked \in [Entries -> BOOLEAN]
      /\ waiters \in [Entries -> Seq(Requests)] /\ e \in Entries
  BY DEF LockInv, LockTypes, Refers, Acquire, AtLock
<1>2. /\ pc[p] = "lock" /\ ent' = ent /\ \A q \in Requests : q # p => pc'[q] = pc[q]
  BY <1>1 DEF Acquire
<1>3. CASE ~locked[e]
  <2>1. /\ waiters' = waiters /\ pc'[p] = "granted"
        /\ \A f \in Entries : f # e => locked'[f] = locked[f]
    BY <1>1, <1>3 DEF Acquire
  <2>2. Owned'
    BY <1>1, <1>2, <2>1 DEF Owned, Owning
  <2>3. Queued'
    BY <1>2, <2>1 DEF Queued
  <2> QED
    BY <2>2, <2>3
<1>4. CASE locked[e]
  <2> DEFINE queue == waiters[e]
             n == Len(queue)
  <2>1. /\ locked' = locked /\ pc'[p] = "waiting"
        /\ waiters' = [waiters EXCEPT ![e] = Append(queue, p)]
    BY <1>1, <1>4 DEF Acquire
  <2>2. Owned'
    BY <1>2, <2>1 DEF Owned, Owning
  <2>3. /\ n \in Nat /\ Len(waiters'[e]) = n + 1 /\ waiters'[e][n + 1] = p
        /\ \A i \in 1 .. n : waiters'[e][i] = waiters[e][i]
        /\ \A f \in Entries : f # e => waiters'[f] = waiters[f]
    BY <1>1, <2>1
  <2>4. ASSUME NEW q \in Requests, pc'[q] = "waiting"
        PROVE  \E i \in 1 .. Len(waiters'[ent[q]]) : waiters'[ent[q]][i] = q
    <3>1. CASE q = p
      <4>1. n + 1 \in 1 .. Len(waiters'[e])
        BY <2>3
      <4> QED
        BY <2>3, <3>1, <4>1
    <3>2. CASE q # p
      <4>1. pc[q] = "waiting" /\ ent[q] \in Entries
        BY <1>2, <2>4, <3>2 DEF LockInv, Refers, AtLock
      <4>2. PICK i \in 1 .. Len(waiters[ent[q]]) : waiters[ent[q]][i] = q
        BY <4>1 DEF Queued
      <4>3. CASE ent[q] = e
        <5>1. i \in 1 .. n /\ i \in 1 .. Len(waiters'[e])
          BY <2>3, <4>2, <4>3
        <5> QED
          BY <2>3, <4>2, <4>3, <5>1
      <4> QED
        BY <2>3, <4>1, <4>2, <4>3
    <3> QED
      BY <3>1, <3>2
  <2>5. Queued'
    BY <1>2, <2>4 DEF Queued
  <2> QED
    BY <2>2, <2>5
<1> QED
  BY <1>3, <1>4

LEMMA UnlockKeeps ==
  ASSUME Owned, Queued, LockInv, NEW p \in Requests, Unlock(p)
  PROVE  Owned' /\ Queued'
<1> DEFINE e == ent[p]
           queue == waiters[e]
<1>1. /\ pc \in [Requests -> Steps] /\ locked \in [Entries -> BOOLEAN]
      /\ ent \in [Requests -> Entries \cup {NoEntry}]
      /\ waiters \in [Entries -> Seq(Requests)] /\ e \in Entries
  BY DEF LockInv, LockTypes, Refers, Unlock, AtLock, Owning
<1>2. /\ pc[p] = "unlock" /\ \A q \in Requests : q # p => ent'[q] = ent[q]
  BY <1>1 DEF Unlock
<1>3. \A q \in Requests : (q # p /\ pc[q] \in Owning) => ent[q] # e
  BY <1>2 DEF LockInv, MutualExclusion, Owning
<1>4. CASE queue = <<>>
  <2>1. /\ waiters' = waiters /\ ~locked'[e] /\ pc'[p] = "idle"
        /\ \A f \in Entries : f # e => locked'[f] = locked[f]
        /\ \A q \in Requests : q # p => pc'[q] = pc[q]
    BY <1>1, <1>4 DEF Unlock, HandOver
  <2>2. Owned'
    BY <1>2, <2>1 DEF Owned
  <2>3. Queued'
    BY <1>2, <2>1 DEF Queued
  <2> QED
    BY <2>2, <2>3
<1>5. CASE queue # <<>>
  <2> DEFINE h == queue[1]
             n == Len(queue)
  <2>1. /\ queue \in Seq(Requests) /\ n \in Nat /\ n > 0 /\ h = Head(queue) /\ h \in Requests
        /\ Len(Tail(queue)) = n - 1
        /\ \A i \in 1 .. n - 1 : Tail(queue)[i] = queue[i + 1]
    BY <1>1, <1>5
  <2>2. pc[h] = "waiting" /\ ent[h] = e
    BY <1>1, <2>1 DEF LockInv, Queues
  <2>3. /\ locked' = locked /\ waiters' = [waiters EXCEPT ![e] = Tail(queue)]
        /\ pc' = [pc EXCEPT ![p] = "idle", ![h] = "granted"]
    BY <1>5, <2>1 DEF Unlock, HandOver
  <2>4. /\ pc'[h] = "granted" /\ ent'[h] = e /\ h # p /\ pc'[p] = "idle"
        /\ \A q \in Requests : (q # p /\ q # h) => pc'[q] = pc[q]
    BY <1>1, <1>2, <2>1, <2>2, <2>3
  <2>5. Owned'
    <3> SUFFICES ASSUME NEW f \in Entries, locked[f]
                 PROVE  \E q \in Requests : ent'[q] = f /\ pc'[q] \in Owning
      BY <2>3 DEF Owned
    <3>1. CASE f = e
      BY <2>1, <2>4, <3>1 DEF Owning
    <3>2. CASE f # e
      <4>1. PICK q \in Requests : ent[q] = f /\ pc[q] \in Owning
        BY DEF Owned
      <4> QED
        BY <1>2, <2>2, <2>4, <3>2, <4>1
    <3> QED
      BY <3>1, <3>2
  <2>6. ASSUME NEW q \in Requests, pc'[q] = "waiting"
        PROVE  \E i \in 1 .. Len(waiters'[ent'[q]]) : waiters'[ent'[q]][i] = q
    <3>1. q # p /\ q # h /\ pc[q] = "waiting" /\ ent'[q] = ent[q] /\ ent[q] \in Entries
      BY <1>2, <2>4, <2>6 DEF LockInv, Refers, AtLock
    <3>2. PICK i \in 1 .. Len(waiters[ent[q]]) : waiters[ent[q]][i] = q
      BY <3>1 DEF Queued
    <3>3. CASE ent[q] = e
      <4>1. waiters'[e] = Tail(queue)
        BY <1>1, <2>3
      <4>2. i # 1 /\ i \in 1 .. n
        BY <3>1, <3>2, <3>3
      <4>3. i - 1 \in 1 .. n - 1 /\ (i - 1) + 1 = i
        BY <2>1, <4>2
      <4>4. Tail(queue)[i - 1] = q
        BY <2>1, <3>2, <3>3, <4>3
      <4> HIDE DEF queue, n
      <4> QED
        BY <2>1, <3>1, <3>3, <4>1, <4>3, <4>4
    <3>4. CASE ent[q] # e
      <4>1. waiters'[ent[q]] = waiters[ent[q]]
        BY <1>1, <2>3, <3>1, <3>4
      <4> QED
        BY <3>1, <3>2, <4>1
    <3> QED
      BY <3>3, <3>4
  <2>7. Queued'
    BY <2>6 DEF Queued
  <2> QED
    BY <2>5, <2>7
<1> QED
  BY <1>4, <1>5

LEMMA StepOwned == Owned /\ Queued /\ LockInv /\ [Next]_vars => Owned' /\ Queued'
<1> SUFFICES ASSUME Owned, Queued, LockInv, [Next]_vars
             PROVE  Owned' /\ Queued'
  OBVIOUS
<1>1. CASE \E p \in Requests : Moves(p)
  BY <1>1, MovesKeep
<1>2. CASE \E p \in Requests : Acquire(p)
  BY <1>2, AcquireKeeps
<1>3. CASE \E p \in Requests : Unlock(p)
  BY <1>3, UnlockKeeps
<1>4. CASE \/ \E k \in Keys : Erase(k)
           \/ \E e \in Entries : BecomeVisible(e)
           \/ Tick
           \/ UNCHANGED moving
  <2>1. UNCHANGED <<pc, ent, locked, waiters>>
    BY <1>4 DEF Erase, BecomeVisible, Tick, moving, UnchangedLocks
  <2> QED
    BY <2>1 DEF Owned, Queued
<1> QED
  BY <1>1, <1>2, <1>3, <1>4, MovingActions, StepCases

-----------------------------------------------------------------------------
(* The store's mutex, the keys of the entries, and the settings.           *)

(* The map knows its entries under their keys.                             *)
Keyed == \A k \in Keys : entries[k] # NoEntry => keyOf[entries[k]] = k /\ entries[k] <= made

(* Whoever has the store's mutex is at an operation, and a key drawn for a *)
(* new entry is free; keys are found expired under the mutex only.         *)
Held ==
  /\ holder # Nobody => /\ pc[holder] \in Operations
                        /\ pc[holder] = "create" => ~Known
  /\ holder = Nobody => doomed = {}

(* In a timely setting: readings of the clock are current until the map is *)
(* left or the stamp written; stamps and counts are seen as they are, and  *)
(* stamps are current wherever a request is about to take or to hand over a*)
(* lock without being counted; what was found expired has expired still.   *)
Current == \A p \in Requests : pc[p] \in Operations \cup {"touch"} => now[p] = clock
Stamped ==
  \A e \in Entries : toucher[e] = Nobody /\ counter[e] = Nobody /\ used[e] = last[e]
Uncounted == {"lock", "granted", "leave", "unlock"}
Fresh == \A p \in Requests : pc[p] \in Uncounted => last[ent[p]] = clock
Idle(e) == flying[e] = 0 /\ clock > last[e] + Timeout
DoomedIdle == \A k \in doomed : entries[k] # NoEntry /\ Idle(entries[k])

TimelyInv == Timely => Current /\ Stamped /\ Fresh /\ DoomedIdle

(* In a calm setting, the map still holds whichever entry a request is at  *)
(* the lock of.                                                            *)
Mapped == \A p \in Requests : pc[p] \in AtLock => entries[keyOf[ent[p]]] = ent[p]

CalmInv == Calm => Mapped

StoreInv ==
  LockInv /\ MapTypes /\ Room /\ Owned /\ Queued /\ Keyed /\ Held /\ TimelyInv /\ CalmInv

(* What a release does to the requests: the first waiter, if any, goes on. *)
LEMMA UnlockMoves ==
  ASSUME LockInv, NEW p \in Requests, Unlock(p)
  PROVE  /\ pc[p] = "unlock" /\ pc'[p] = "idle" /\ ent[p] \in Entries
         /\ \A q \in Requests :
              q # p => /\ ent'[q] = ent[q]
                       /\ \/ pc'[q] = pc[q]
                          \/ pc[q] = "waiting" /\ ent[q] = ent[p] /\ pc'[q] = "granted"
<1> DEFINE e == ent[p]
           queue == waiters[e]
<1>1. /\ pc[p] = "unlock" /\ e \in Entries /\ HandOver(p, e)
      /\ pc \in [Requests -> Steps] /\ waiters \in [Entries -> Seq(Requests)]
      /\ \A q \in Requests : q # p => ent'[q] = ent[q]
  BY DEF Unlock, LockInv, LockTypes, Refers, AtLock, Owning
<1>2. CASE queue = <<>>
  BY <1>1, <1>2 DEF HandOver
<1>3. CASE queue # <<>>
  <2>1. queue \in Seq(Requests)
    BY <1>1
  <2>2. Head(queue) = queue[1] /\ 1 \in 1 .. Len(queue) /\ queue[1] \in Requests
    BY <1>3, <2>1
  <2>3. pc[queue[1]] = "waiting" /\ ent[queue[1]] = e
    BY <1>1, <2>2 DEF LockInv, Queues
  <2>4. pc' = [pc EXCEPT ![p] = "idle", ![queue[1]] = "granted"]
    BY <1>1, <1>3, <2>2 DEF HandOver
  <2> HIDE DEF queue
  <2> QED
    BY <1>1, <2>2, <2>3, <2>4
<1> QED
  BY <1>2, <1>3

(* No step away from the mutex moves a request that is at an operation.    *)
LEMMA HeldKept ==
  ASSUME Held, MapTypes, UNCHANGED <<entries, holder, aim, doomed>>,
         \A q \in Requests : pc[q] \in Operations => pc'[q] = pc[q]
  PROVE  Held'
<1>1. holder # Nobody => holder \in Requests
  BY DEF MapTypes
<1>2. Left' = Left /\ Known' = Known
  BY DEF Left, Known
<1> QED
  BY <1>1, <1>2 DEF Held

LEMMA StepHeld == LockInv /\ MapTypes /\ Held /\ [Next]_vars => Held'
<1> SUFFICES ASSUME LockInv, MapTypes, Held, [Next]_vars
             PROVE  Held'
  OBVIOUS
<1>0. pc \in [Requests -> Steps]
  BY DEF LockInv, LockTypes
<1>1. CASE \E p \in Requests : Find(p) \/ Emplace(p) \/ Create(p) \/ Sweep(p)
  <2>1. holder' = Nobody /\ doomed' = {}
    BY <1>1 DEF Find, Emplace, Create, Sweep, MakeEntry, TouchFound, ComeBack, Publish
  <2> QED
    BY <2>1 DEF Held
<1>2. CASE \E p \in Requests : Look(p)
  <2> PICK p \in Requests : Look(p)
    BY <1>2
  <2>1. holder' = p /\ pc' = pc /\ entries' = entries /\ pc[p] \in Operations
    BY DEF Look
  <2>2. pc[p] = "create" => entries[aim'] = NoEntry \/ aim' \in doomed'
    BY DEF Look
  <2>3. aim' \in Keys /\ p # Nobody
    BY StoreAssumption DEF Look
  <2>4. pc[p] = "create" => ~Known'
    BY <2>1, <2>2, <2>3 DEF Known, Left
  <2> QED
    BY <2>1, <2>3, <2>4 DEF Held
<1>3. CASE \E p \in Requests, o \in Operations : Begin(p, o)
  <2>1. /\ UNCHANGED <<entries, holder, aim, doomed>>
        /\ \A q \in Requests : pc[q] \in Operations => pc'[q] = pc[q]
    BY <1>0, <1>3 DEF Begin, Operations
  <2> QED
    BY <2>1, HeldKept
<1>4. CASE \E p \in Requests :
             Acquire(p) \/ Resume(p) \/ BeginRelease(p) \/ Touch(p) \/ Leave(p)
  <2>1. UNCHANGED <<entries, holder, aim, doomed>>
    BY <1>4 DEF Acquire, Resume, BeginRelease, Touch, Leave, UnchangedMap
  <2>2. \A q \in Requests : pc[q] \in Operations => pc'[q] = pc[q]
    BY <1>0, <1>4 DEF Acquire, Resume, BeginRelease, Touch, Leave, Operations
  <2> QED
    BY <2>1, <2>2, HeldKept
<1>5. CASE \E p \in Requests : Unlock(p)
  <2> PICK p \in Requests : Unlock(p)
    BY <1>5
  <2>1. UNCHANGED <<entries, holder, aim, doomed>>
    BY DEF Unlock, UnchangedMap
  <2>2. \A q \in Requests : pc[q] \in Operations => pc'[q] = pc[q]
    BY UnlockMoves DEF Operations
  <2> QED
    BY <2>1, <2>2, HeldKept
<1>6. CASE \E k \in Keys : Erase(k)
  BY <1>6 DEF Erase, Held
<1>7. CASE (\E e \in Entries : BecomeVisible(e)) \/ Tick \/ UNCHANGED moving
  <2>1. UNCHANGED <<entries, holder, aim, doomed, pc>>
    BY <1>7 DEF BecomeVisible, Tick, moving, UnchangedMap
  <2> QED
    BY <2>1, HeldKept
<1> QED
  BY <1>1, <1>2, <1>3, <1>4, <1>5, <1>6, <1>7, StepCases

(* An entry that a request is at the lock of has not expired.              *)
LEMMA AtLockIsLive ==
  ASSUME StoreInv, Timely, NEW p \in Requests, pc[p] \in AtLock
  PROVE  ent[p] \in Entries /\ ~Idle(ent[p])
<1> USE DEF StoreInv
<1>1. ent[p] \in Entries
  BY DEF LockInv, Refers
<1>2. clock \in Nat /\ Timeout \in Nat
  BY StoreAssumption DEF MapTypes
<1>3. ASSUME NEW q \in Requests, ent[q] = ent[p], pc[q] \in Owning \cup {"lock"}
      PROVE  ~Idle(ent[p])
  <2>1. CASE pc[q] \in Uncounted
    <3>1. last[ent[p]] = clock
      BY <1>3, <2>1 DEF TimelyInv, Fresh
    <3> QED
      BY <1>2, <3>1 DEF Idle
  <2>2. CASE pc[q] \in InFlight
    <3>1. flying[ent[p]] = 1
      BY <1>1, <1>3, <2>2 DEF LockInv, Counts, InUse
    <3> QED
      BY <3>1 DEF Idle
  <2> QED
    BY <1>3, <2>1, <2>2 DEF Owning, InFlight, Uncounted
<1>4. CASE pc[p] \in Owning \cup {"lock"}
  BY <1>1, <1>3, <1>4
<1>5. CASE pc[p] = "waiting"
  <2>1. PICK i \in 1 .. Len(waiters[ent[p]]) : waiters[ent[p]][i] = p
    BY <1>5 DEF Queued
  <2>2. waiters[ent[p]] # <<>>
    BY <2>1
  <2>3. locked[ent[p]]
    BY <1>1, <2>2 DEF LockInv, FreeMeansUnwanted
  <2>4. PICK q \in Requests : ent[q] = ent[p] /\ pc[q] \in Owning
    BY <1>1, <2>3 DEF Owned
  <2> QED
    BY <1>1, <1>3, <2>4
<1> QED
  BY <1>4, <1>5 DEF AtLock

(* In a timely setting the mutex shows stamps and counts as they are.      *)
LEMMA TimelyView ==
  ASSUME StoreInv, Timely, NEW p \in Requests, NEW seen \in Views(p)
  PROVE  seen.last = last /\ seen.flying = flying
<1>1. last \in [Entries -> 0 .. MaxTime] /\ flying \in [Entries -> Nat]
  BY DEF StoreInv, MapTypes, LockInv, LockTypes
<1>2. LateFor(p, toucher) = {} /\ LateFor(p, counter) = {}
  BY DEF StoreInv, TimelyInv, Stamped, LateFor
<1>3. PICK S \in SUBSET LateFor(p, toucher), T \in SUBSET LateFor(p, counter) :
        seen = [last   |-> [e \in Entries |-> IF e \in S THEN stale[e] ELSE last[e]],
                flying |-> [e \in Entries |-> IF e \in T THEN before[e] ELSE flying[e]]]
  BY DEF Views
<1>4. S = {} /\ T = {}
  BY <1>2, <1>3
<1>5. /\ seen.last = [e \in Entries |-> IF e \in S THEN stale[e] ELSE last[e]]
      /\ seen.flying = [e \in Entries |-> IF e \in T THEN before[e] ELSE flying[e]]
  BY <1>3
<1>6. /\ [e \in Entries |-> IF e \in S THEN stale[e] ELSE last[e]] = last
      /\ [e \in Entries |-> IF e \in T THEN before[e] ELSE flying[e]] = flying
  BY <1>1, <1>4
<1> QED
  BY <1>5, <1>6

(* What Look finds expired has expired.                                    *)
LEMMA LookDooms ==
  ASSUME StoreInv, Timely, NEW p \in Requests, Look(p)
  PROVE  DoomedIdle'
<1>1. PICK seen \in Views(p) : doomed' \subseteq Condemned(now[p], seen)
  BY DEF Look
<1>2. now[p] = clock /\ seen.last = last /\ seen.flying = flying
  BY TimelyView DEF StoreInv, TimelyInv, Current, Look
<1>3. UNCHANGED <<entries, clock, last, flying>>
  BY DEF Look, UnchangedLocks
<1> QED
  BY <1>1, <1>2, <1>3 DEF DoomedIdle, Idle, Condemned, Expired

(* Who is at the lock of an entry disturbs none that was found expired.    *)
LEMMA DoomedKept ==
  ASSUME StoreInv, Timely, NEW p \in Requests, pc[p] \in AtLock,
         UNCHANGED <<entries, doomed, clock>>,
         \A e \in Entries : e # ent[p] => flying'[e] = flying[e] /\ last'[e] = last[e]
  PROVE  DoomedIdle'
<1> SUFFICES ASSUME NEW k \in doomed
             PROVE  entries[k] # NoEntry /\ Idle(entries[k])'
  BY DEF DoomedIdle
<1>1. entries[k] # NoEntry /\ Idle(entries[k])
  BY DEF StoreInv, TimelyInv, DoomedIdle
<1>2. entries[k] \in Entries
  BY <1>1 DEF StoreInv, MapTypes
<1>3. entries[k] # ent[p]
  BY <1>1, AtLockIsLive
<1> QED
  BY <1>1, <1>2, <1>3 DEF Idle

(* In a calm setting what requests are at the locks of is neither found    *)
(* expired nor erased.                                                     *)
LEMMA CalmSweep ==
  ASSUME StoreInv, Calm, NEW q \in Requests, pc[q] \in AtLock
  PROVE  /\ ent[q] \in Entries /\ keyOf[ent[q]] \in Keys
         /\ Left[keyOf[ent[q]]] = ent[q]
<1>1. ent[q] \in Entries /\ ~Idle(ent[q])
  BY AtLockIsLive DEF Calm
<1>2. keyOf[ent[q]] \in Keys /\ entries[keyOf[ent[q]]] = ent[q]
  BY <1>1 DEF StoreInv, MapTypes, CalmInv, Mapped
<1>3. keyOf[ent[q]] \notin doomed
  BY <1>1, <1>2 DEF StoreInv, TimelyInv, DoomedIdle, Calm
<1> QED
  BY <1>1, <1>2, <1>3 DEF Left

(* What an operation leaves is known under its key too.                    *)
LEMMA LeftKeyed ==
  ASSUME StoreInv
  PROVE  \A k \in Keys : Left[k] # NoEntry => keyOf[Left[k]] = k /\ Left[k] <= made
BY LeftMap DEF StoreInv, Keyed

(* A found entry is stamped with the time it is found at.                  *)
LEMMA TimelyTouch ==
  ASSUME StoreInv, NEW p \in Requests, pc[p] \in Operations, NEW e \in Entries,
         TouchFound(p, e), UNCHANGED <<clock, now, setting>>
  PROVE  TimelyInv'
<1> SUFFICES ASSUME Timely
             PROVE  Current' /\ Stamped' /\ Fresh' /\ DoomedIdle'
  BY DEF TimelyInv, Timely
<1>1. /\ pc \in [Requests -> Steps] /\ ent \in [Requests -> Entries \cup {NoEntry}]
      /\ last \in [Entries -> 0 .. MaxTime] /\ used \in [Entries -> 0 .. MaxTime]
      /\ Current /\ Stamped /\ Fresh
      /\ \A q \in Requests : pc[q] \in AtLock => ent[q] \in Entries
  BY DEF StoreInv, LockInv, LockTypes, MapTypes, TimelyInv, Refers
<1>2. now[p] = clock
  BY <1>1 DEF Current
<1>3. /\ \A q \in Requests : q # p => pc'[q] = pc[q] /\ ent'[q] = ent[q]
      /\ pc'[p] = "lock" /\ ent'[p] = e
      /\ last'[e] = clock /\ used'[e] = clock
      /\ \A f \in Entries : f # e => last'[f] = last[f] /\ used'[f] = used[f]
  BY <1>1, <1>2 DEF TouchFound
<1>4. /\ \A f \in Entries : toucher'[f] = IF f = e \/ toucher[f] = p THEN Nobody ELSE toucher[f]
      /\ \A f \in Entries : counter'[f] = IF counter[f] = p THEN Nobody ELSE counter[f]
      /\ doomed' = {}
  BY DEF TouchFound, Publish
<1>5. Current'
  BY <1>1, <1>3 DEF Current, Operations
<1>6. Stamped'
  BY <1>1, <1>3, <1>4 DEF Stamped
<1>7. Fresh'
  BY <1>1, <1>3 DEF Fresh, Uncounted, AtLock, Owning
<1>8. DoomedIdle'
  BY <1>4 DEF DoomedIdle
<1> QED
  BY <1>5, <1>6, <1>7, <1>8

(* A look-up finds a live entry.                                           *)
LEMMA FoundKeeps ==
  ASSUME StoreInv, NEW p \in Requests, pc[p] \in Operations,
         Known, TouchFound(p, Left[aim]), entries' = Left,
         UNCHANGED <<made, keyOf, clock, now, setting>>
  PROVE  Keyed' /\ TimelyInv' /\ CalmInv'
<1>1. /\ Left[aim] \in Entries /\ aim \in Keys
      /\ \A l \in Keys : Left[l] # NoEntry => keyOf[Left[l]] = l /\ Left[l] <= made
  BY LeftMap, LeftKeyed DEF StoreInv, MapTypes
<1>2. Keyed'
  BY <1>1 DEF Keyed
<1>3. TimelyInv'
  BY <1>1, TimelyTouch
<1>4. ASSUME Calm, NEW q \in Requests, pc'[q] \in AtLock
      PROVE  entries'[keyOf[ent'[q]]] = ent'[q]
  <2>1. CASE q = p
    <3>1. ent'[p] = Left[aim]
      BY DEF TouchFound, StoreInv, LockInv, LockTypes
    <3> QED
      BY <1>1, <2>1, <3>1 DEF Known
  <2>2. CASE q # p
    <3>1. pc'[q] = pc[q] /\ ent'[q] = ent[q]
      BY <2>2 DEF TouchFound, StoreInv, LockInv, LockTypes
    <3> QED
      BY <1>4, <3>1, CalmSweep
  <2> QED
    BY <2>1, <2>2
<1>5. CalmInv'
  BY <1>4 DEF CalmInv, Mapped, Calm, Timely
<1> QED
  BY <1>2, <1>3, <1>5

(* A new entry is put under a key with no live entry.                      *)
LEMMA MadeKeeps ==
  ASSUME StoreInv, NEW p \in Requests, pc[p] \in {"emplace", "create"},
         ~Known, MakeEntry(p), UNCHANGED <<clock, now, setting>>
  PROVE  Keyed' /\ TimelyInv' /\ CalmInv'
<1> DEFINE e == made + 1
<1>1. /\ Left \in Maps /\ aim \in Keys /\ Left[aim] = NoEntry
      /\ \A l \in Keys : Left[l] # NoEntry => keyOf[Left[l]] = l /\ Left[l] <= made
  BY LeftMap, LeftKeyed DEF StoreInv, MapTypes, Known
<1>2. e \in Entries /\ made \in Nat /\ keyOf \in [Entries -> Keys] /\ pc[p] \in Operations
  <2>1. e \in Entries
    BY MadeIsEntry, StoreAssumption DEF StoreInv
  <2>2. made \in Nat /\ keyOf \in [Entries -> Keys] /\ pc[p] \in Operations
    BY StoreAssumption DEF StoreInv, MapTypes, Operations
  <2> QED
    BY <2>1, <2>2
<1>3. /\ made' = e /\ TouchFound(p, e)
      /\ entries'[aim] = e /\ \A l \in Keys : l # aim => entries'[l] = Left[l]
      /\ keyOf'[e] = aim /\ \A f \in Entries : f # e => keyOf'[f] = keyOf[f]
  BY <1>1, <1>2 DEF MakeEntry, Maps
<1>4. Keyed'
  <2> SUFFICES ASSUME NEW l \in Keys, entries'[l] # NoEntry
               PROVE  keyOf'[entries'[l]] = l /\ entries'[l] <= made'
    BY DEF Keyed
  <2>1. CASE l = aim
    BY <1>2, <1>3, <2>1
  <2>2. CASE l # aim
    <3>1. entries'[l] = Left[l] /\ Left[l] \in Entries /\ keyOf[Left[l]] = l /\ Left[l] <= made
      BY <1>1, <1>3, <2>2 DEF Maps
    <3>2. Left[l] # e /\ Left[l] <= e
      BY <1>2, <3>1 DEF Entries
    <3> QED
      BY <1>3, <3>1, <3>2
  <2> QED
    BY <2>1, <2>2
<1>5. TimelyInv'
  BY <1>2, <1>3, TimelyTouch
<1>6. ASSUME Calm, NEW q \in Requests, pc'[q] \in AtLock
      PROVE  entries'[keyOf'[ent'[q]]] = ent'[q]
  <2>1. CASE q = p
    <3>1. ent'[p] = e
      BY <1>3 DEF TouchFound, StoreInv, LockInv, LockTypes
    <3> QED
      BY <1>3, <2>1, <3>1
  <2>2. CASE q # p
    <3>1. pc'[q] = pc[q] /\ ent'[q] = ent[q]
      BY <1>3, <2>2 DEF TouchFound, StoreInv, LockInv, LockTypes
    <3>2. ent[q] \in Entries /\ keyOf[ent[q]] \in Keys /\ Left[keyOf[ent[q]]] = ent[q]
      BY <1>6, <3>1, CalmSweep
    <3>3. ent[q] # NoEntry
      BY <3>2 DEF Entries, NoEntry
    <3>4. keyOf[ent[q]] # aim
      BY <1>1, <3>2, <3>3
    <3>5. ent[q] <= made /\ ent[q] # e
      BY <1>1, <1>2, <3>2, <3>3 DEF Entries
    <3> QED
      BY <1>3, <3>1, <3>2, <3>4, <3>5
  <2> QED
    BY <2>1, <2>2
<1>7. CalmInv'
  BY <1>6 DEF CalmInv, Mapped, Calm, Timely
<1> QED
  BY <1>4, <1>5, <1>7

(* What an operation leaves behind when it comes back without an entry.    *)
LEMMA NoneKeeps ==
  ASSUME StoreInv, NEW p \in Requests, pc[p] \in Operations, ComeBack(p), entries' = Left,
         UNCHANGED <<made, keyOf, clock, now, setting>>
  PROVE  Keyed' /\ TimelyInv' /\ CalmInv'
<1>1. /\ pc'[p] = "idle" /\ \A q \in Requests : q # p => pc'[q] = pc[q]
      /\ UNCHANGED <<last, used, ent>> /\ doomed' = {}
  BY DEF ComeBack, Publish, StoreInv, LockInv, LockTypes
<1>2. /\ \A f \in Entries : toucher'[f] = IF f = NoEntry \/ toucher[f] = p THEN Nobody ELSE toucher[f]
      /\ \A f \in Entries : counter'[f] = IF counter[f] = p THEN Nobody ELSE counter[f]
  BY DEF ComeBack, Publish
<1>3. Keyed'
  BY LeftKeyed DEF Keyed
<1>4. ASSUME Timely
      PROVE  Current' /\ Stamped' /\ Fresh' /\ DoomedIdle'
  <2>1. Current /\ Stamped /\ Fresh
    BY <1>4 DEF StoreInv, TimelyInv
  <2>2. Current' /\ Fresh'
    BY <1>1, <2>1 DEF Current, Fresh, Operations, Uncounted
  <2>3. Stamped'
    BY <1>1, <1>2, <2>1 DEF Stamped
  <2> QED
    BY <1>1, <2>2, <2>3 DEF DoomedIdle
<1>5. Calm => Mapped'
  BY <1>1, CalmSweep DEF Mapped, AtLock, Owning
<1> QED
  BY <1>3, <1>4, <1>5 DEF TimelyInv, CalmInv, Calm, Timely

LEMMA StepStore == StoreInv /\ [Next]_vars => Keyed' /\ TimelyInv' /\ CalmInv'
<1> SUFFICES ASSUME StoreInv, [Next]_vars
             PROVE  Keyed' /\ TimelyInv' /\ CalmInv'
  OBVIOUS
<1>0. /\ pc \in [Requests -> Steps] /\ ent \in [Requests -> Entries \cup {NoEntry}]
      /\ last \in [Entries -> 0 .. MaxTime] /\ used \in [Entries -> 0 .. MaxTime]
      /\ now \in [Requests -> 0 .. MaxTime] /\ clock \in 0 .. MaxTime
      /\ toucher \in [Entries -> Requests \cup {Nobody}] /\ flying \in [Entries -> Nat]
      /\ entries \in Maps /\ Keyed
      /\ Timely => Current /\ Stamped /\ Fresh /\ DoomedIdle
      /\ Calm => Mapped /\ Timely
      /\ \A q \in Requests : pc[q] \in AtLock => ent[q] \in Entries
  BY DEF StoreInv, LockInv, LockTypes, MapTypes, Refers, TimelyInv, CalmInv, Maps, Calm
<1>s. setting' = setting /\ (Timely' <=> Timely) /\ (Calm' <=> Calm)
  BY DEF Next, vars, Timely, Calm
<1>1. CASE \E p \in Requests, o \in Operations : Begin(p, o)
  <2> PICK p \in Requests, o \in Operations : Begin(p, o)
    BY <1>1
  <2>1. /\ pc' = [pc EXCEPT ![p] = o] /\ now' = [now EXCEPT ![p] = clock]
        /\ UNCHANGED <<clock, entries, made, keyOf, doomed, last, flying, ent, toucher, counter, used>>
    BY DEF Begin, UnchangedLocks
  <2>2. \A q \in Requests : q # p => pc'[q] = pc[q] /\ now'[q] = now[q]
    BY <1>0, <2>1
  <2>3. pc'[p] = o /\ now'[p] = clock /\ o \notin AtLock /\ o \notin Uncounted
    BY <1>0, <2>1 DEF Operations, AtLock, Owning, Uncounted
  <2>4. Timely => Current' /\ Stamped' /\ Fresh' /\ DoomedIdle'
    BY <1>0, <2>1, <2>2, <2>3 DEF Current, Stamped, Fresh, DoomedIdle, Idle
  <2> QED
    BY <1>0, <1>s, <2>1, <2>2, <2>3, <2>4 DEF Keyed, TimelyInv, CalmInv, Mapped
<1>2. CASE \E p \in Requests : Look(p)
  <2> PICK p \in Requests : Look(p)
    BY <1>2
  <2>1. UNCHANGED <<clock, entries, made, keyOf, last, pc, now, ent, toucher, counter, used>>
    BY DEF Look
  <2>2. Timely => DoomedIdle'
    BY LookDooms
  <2> QED
    BY <1>0, <1>s, <2>1, <2>2 DEF Keyed, TimelyInv, CalmInv, Current, Stamped, Fresh, Mapped
<1>3. CASE \E p \in Requests : Find(p)
  <2> PICK p \in Requests : Find(p)
    BY <1>3
  <2>1. /\ pc[p] \in Operations /\ entries' = Left
        /\ UNCHANGED <<made, keyOf, clock, now, setting>>
    BY <1>s DEF Find, Operations
  <2>2. \/ Known /\ TouchFound(p, Left[aim])
        \/ ComeBack(p)
    BY DEF Find
  <2> QED
    BY <2>1, <2>2, FoundKeeps, NoneKeeps
<1>4. CASE \E p \in Requests : Emplace(p)
  <2> PICK p \in Requests : Emplace(p)
    BY <1>4
  <2>1. /\ pc[p] \in Operations /\ pc[p] \in {"emplace", "create"}
        /\ UNCHANGED <<clock, now, setting>>
    BY <1>s DEF Emplace, Operations
  <2>2. \/ /\ Known /\ TouchFound(p, Left[aim])
           /\ entries' = Left /\ UNCHANGED <<made, keyOf>>
        \/ ~Known /\ MakeEntry(p)
    BY DEF Emplace
  <2> QED
    BY <2>1, <2>2, FoundKeeps, MadeKeeps
<1>5. CASE \E p \in Requests : Create(p)
  <2> PICK p \in Requests : Create(p)
    BY <1>5
  <2>1. /\ pc[p] = "create" /\ holder = p /\ MakeEntry(p) /\ UNCHANGED <<clock, now, setting>>
    BY <1>s DEF Create
  <2>2. ~Known
    BY <2>1, StoreAssumption DEF StoreInv, Held
  <2> QED
    BY <2>1, <2>2, MadeKeeps
<1>6. CASE \E p \in Requests : Sweep(p)
  <2> PICK p \in Requests : Sweep(p)
    BY <1>6
  <2>1. /\ pc[p] \in Operations /\ entries' = Left /\ ComeBack(p)
        /\ UNCHANGED <<made, keyOf, clock, now, setting>>
    BY <1>s DEF Sweep, Operations
  <2> QED
    BY <2>1, NoneKeeps
<1>7. CASE \E p \in Requests : Acquire(p) \/ Resume(p) \/ Leave(p)
  <2> PICK p \in Requests : Acquire(p) \/ Resume(p) \/ Leave(p)
    BY <1>7
  <2>1. UNCHANGED <<clock, entries, made, keyOf, doomed, last, used, toucher, now, ent>>
    BY DEF Acquire, Resume, Leave, UnchangedMap
  <2>2. /\ \A q \in Requests : q # p => pc'[q] = pc[q]
        /\ \/ pc[p] = "lock" /\ pc'[p] \in {"granted", "waiting"}
           \/ pc[p] = "granted" /\ pc'[p] = "holding"
           \/ pc[p] = "leave" /\ pc'[p] = "unlock"
    BY <1>0 DEF Acquire, Resume, Leave
  <2>3. Current' <=> Current
    BY <2>1, <2>2 DEF Current, Operations
  <2>4. Fresh => Fresh'
    BY <2>1, <2>2 DEF Fresh, Uncounted
  <2>5. Mapped => Mapped'
    BY <2>1, <2>2 DEF Mapped, AtLock, Owning
  <2>6. Timely => counter' = counter
    BY DEF Timely, Acquire, Resume, Leave, Count
  <2>7. pc[p] \in AtLock /\ ent[p] \in Entries
    BY <1>0, <2>2 DEF AtLock, Owning
  <2>8. \A e \in Entries : e # ent[p] => flying'[e] = flying[e]
    BY <1>0, <2>7 DEF Acquire, Resume, Leave, Count
  <2>9. Timely => DoomedIdle'
    BY <2>1, <2>7, <2>8, DoomedKept
  <2> QED
    BY <1>0, <1>s, <2>1, <2>3, <2>4, <2>5, <2>6, <2>9 DEF Keyed, TimelyInv, CalmInv, Stamped
<1>8. CASE \E p \in Requests : BeginRelease(p)
  <2> PICK p \in Requests : BeginRelease(p)
    BY <1>8
  <2>1. UNCHANGED <<clock, entries, made, keyOf, doomed, last, flying, used, toucher, counter, ent>>
    BY DEF BeginRelease, UnchangedMap
  <2>2. /\ \A q \in Requests : q # p => pc'[q] = pc[q] /\ now'[q] = now[q]
        /\ pc[p] = "holding" /\ pc'[p] = "touch" /\ now'[p] = clock
    BY <1>0 DEF BeginRelease
  <2>3. Current => Current'
    BY <2>1, <2>2 DEF Current
  <2>4. Fresh => Fresh'
    BY <2>1, <2>2 DEF Fresh, Uncounted
  <2>5. Mapped => Mapped'
    BY <2>1, <2>2 DEF Mapped, AtLock, Owning
  <2> QED
    BY <1>0, <1>s, <2>1, <2>3, <2>4, <2>5 DEF Keyed, TimelyInv, CalmInv, Stamped, DoomedIdle, Idle
<1>9. CASE \E p \in Requests : Touch(p)
  <2> PICK p \in Requests : Touch(p)
    BY <1>9
  <2> DEFINE e == ent[p]
  <2>1. /\ UNCHANGED <<clock, entries, made, keyOf, doomed, flying, now, ent, counter>>
        /\ last' = [last EXCEPT ![e] = now[p]] /\ used' = [used EXCEPT ![e] = clock]
        /\ pc' = [pc EXCEPT ![p] = "leave"] /\ pc[p] = "touch"
    BY DEF Touch, UnchangedMap
  <2>2. e \in Entries
    BY <1>0, <2>1 DEF AtLock, Owning
  <2>3. pc'[p] = "leave" /\ \A q \in Requests : q # p => pc'[q] = pc[q]
    BY <1>0, <2>1
  <2>4. Keyed'
    BY <1>0, <2>1 DEF Keyed
  <2>5. ASSUME Timely
        PROVE  Current' /\ Stamped' /\ Fresh' /\ DoomedIdle'
    <3>1. now[p] = clock /\ toucher' = toucher
      BY <1>0, <2>1, <2>5 DEF Current, Touch, Timely
    <3>2. /\ last'[e] = clock /\ used'[e] = clock
          /\ \A f \in Entries : f # e => last'[f] = last[f] /\ used'[f] = used[f]
      BY <1>0, <2>1, <2>2, <3>1
    <3>3. DoomedIdle'
      BY <2>1, <2>5, <3>2, DoomedKept DEF AtLock, Owning
    <3> HIDE DEF e
    <3>4. Current'
      BY <1>0, <2>1, <2>3, <2>5 DEF Current, Operations
    <3>5. Stamped'
      BY <1>0, <2>1, <2>5, <3>1, <3>2 DEF Stamped
    <3>6. Fresh'
      <4> SUFFICES ASSUME NEW q \in Requests, pc'[q] \in Uncounted
                   PROVE  last'[ent[q]] = clock
        BY <2>1 DEF Fresh
      <4>1. CASE q = p
        BY <3>2, <4>1 DEF e
      <4>2. CASE q # p
        <5>1. last[ent[q]] = clock /\ ent[q] \in Entries
          BY <1>0, <2>3, <2>5, <4>2 DEF Fresh, Uncounted, AtLock, Owning
        <5> QED
          BY <3>2, <5>1
      <4> QED
        BY <4>1, <4>2
    <3> QED
      BY <3>3, <3>4, <3>5, <3>6
  <2>6. Mapped => Mapped'
    BY <2>1, <2>3 DEF Mapped, AtLock, Owning
  <2> QED
    BY <1>0, <1>s, <2>4, <2>5, <2>6 DEF TimelyInv, CalmInv
<1>10. CASE \E p \in Requests : Unlock(p)
  <2> PICK p \in Requests : Unlock(p)
    BY <1>10
  <2>1. UNCHANGED <<clock, entries, made, keyOf, doomed, last, flying, used, toucher, counter, now>>
    BY DEF Unlock, UnchangedMap
  <2>2. /\ pc[p] = "unlock" /\ pc'[p] = "idle"
        /\ \A q \in Requests :
             q # p => /\ ent'[q] = ent[q]
                      /\ \/ pc'[q] = pc[q]
                         \/ pc[q] = "waiting" /\ ent[q] = ent[p] /\ pc'[q] = "granted"
    BY UnlockMoves DEF StoreInv
  <2>3. Keyed'
    BY <1>0, <2>1 DEF Keyed
  <2>4. ASSUME Timely
        PROVE  Current' /\ Stamped' /\ Fresh' /\ DoomedIdle'
    <3>1. last[ent[p]] = clock
      BY <1>0, <2>2, <2>4 DEF Fresh, Uncounted
    <3>2. Current'
      BY <1>0, <2>1, <2>2, <2>4 DEF Current, Operations
    <3>3. Fresh'
      BY <1>0, <2>1, <2>2, <2>4, <3>1 DEF Fresh, Uncounted
    <3> QED
      BY <1>0, <2>1, <2>4, <3>2, <3>3 DEF Stamped, DoomedIdle, Idle
  <2>5. Mapped => Mapped'
    BY <2>1, <2>2 DEF Mapped, AtLock, Owning
  <2> QED
    BY <1>0, <1>s, <2>3, <2>4, <2>5 DEF TimelyInv, CalmInv
<1>11. CASE \E k \in Keys : Erase(k)
  <2>1. /\ ~Calm /\ holder = Nobody
        /\ UNCHANGED <<clock, made, keyOf, doomed, last, used, toucher, counter, pc, now, ent>>
    BY <1>11 DEF Erase, Calm
  <2>2. PICK k \in Keys : entries' = [entries EXCEPT ![k] = NoEntry]
    BY <1>11 DEF Erase
  <2>3. Keyed'
    BY <1>0, <2>1, <2>2 DEF Keyed, Maps
  <2>4. doomed' = {}
    BY <2>1 DEF StoreInv, Held
  <2> QED
    BY <1>0, <1>s, <2>1, <2>3, <2>4
    DEF TimelyInv, CalmInv, Current, Stamped, Fresh, DoomedIdle
<1>12. CASE \E e \in Entries : BecomeVisible(e)
  <2>1. UNCHANGED <<clock, entries, made, keyOf, doomed, last, flying, used, pc, now, ent>>
    BY <1>12 DEF BecomeVisible, UnchangedMap
  <2>2. Timely => toucher' = toucher /\ counter' = counter
    BY <1>0, <1>12 DEF BecomeVisible, Stamped
  <2> QED
    BY <1>0, <1>s, <2>1, <2>2
    DEF Keyed, TimelyInv, CalmInv, Current, Stamped, Fresh, Mapped, DoomedIdle, Idle
<1>13. CASE Tick
  <2>1. UNCHANGED <<entries, made, keyOf, doomed, last, used, toucher, counter, pc, now, ent>>
    BY <1>13 DEF Tick, UnchangedMap
  <2>2. Timely => \A q \in Requests : pc[q] \in Resting
    BY <1>13 DEF Tick, Timely
  <2>3. Timely => Current' /\ Fresh'
    BY <2>1, <2>2 DEF Current, Fresh, Resting, Operations, Uncounted
  <2>4. Timely => holder = Nobody
    BY <2>2 DEF StoreInv, Held, MapTypes, Resting, Operations
  <2>5. Timely => doomed' = {}
    BY <2>1, <2>4 DEF StoreInv, Held
  <2> QED
    BY <1>0, <1>s, <2>1, <2>3, <2>5 DEF Keyed, TimelyInv, CalmInv, Stamped, Mapped, DoomedIdle
<1>14. CASE UNCHANGED moving
  BY <1>0, <1>s, <1>14
  DEF moving, Keyed, TimelyInv, CalmInv, Current, Stamped, Fresh, Mapped, DoomedIdle, Idle
<1> QED
  BY <1>1, <1>2, <1>3, <1>4, <1>5, <1>6, <1>7, <1>8, <1>9, <1>10, <1>11, <1>12, <1>13, <1>14,
     StepCases

LEMMA InitStore == Init => Owned /\ Queued /\ Keyed /\ Held /\ TimelyInv /\ CalmInv
<1> SUFFICES ASSUME Init
             PROVE  Owned /\ Queued /\ Keyed /\ Held /\ TimelyInv /\ CalmInv
  OBVIOUS
<1>1. \A p \in Requests : pc[p] = "idle"
  BY DEF Init
<1>2. Owned /\ Queued /\ Keyed /\ Held
  BY <1>1 DEF Init, Owned, Queued, Keyed, Held
<1>3. Current /\ Stamped /\ Fresh /\ Mapped /\ DoomedIdle
  BY <1>1
  DEF Init, Current, Stamped, Fresh, Mapped, DoomedIdle, Operations, Uncounted, AtLock, Owning
<1> QED
  BY <1>2, <1>3 DEF TimelyInv, CalmInv

LEMMA AlwaysStoreInv == Spec => []StoreInv
<1>1. Init => StoreInv
  BY InitIInv, InitStore DEF IInv, StoreInv
<1>2. StoreInv /\ [Next]_vars => StoreInv'
  BY StepLock, StepMap, StepRoom, StepOwned, StepHeld, StepStore DEF StoreInv
<1> QED
  BY <1>1, <1>2, PTL DEF Spec

(* What is dropped was found expired, or is erased by hand.                *)
LEMMA DroppedWasDoomed ==
  ASSUME StoreInv, [Next]_vars, NEW k \in Keys, Dropped(k), ~ByHand
  PROVE  k \in doomed
<1>1. /\ entries[k] # NoEntry /\ entries'[k] # entries[k] /\ \A l \in Keys : ~Erase(l)
  BY DEF Dropped, ByHand
<1>2. SUFFICES ASSUME k \notin doomed
               PROVE  FALSE
  OBVIOUS
<1>3. /\ Left \in Maps /\ Left[k] = entries[k] /\ aim \in Keys
      /\ \A e : k # aim => [Left EXCEPT ![aim] = e][k] = entries[k]
  BY <1>2, LeftMap DEF StoreInv, MapTypes, Maps
<1>4. CASE \E p \in Requests : Find(p) \/ Sweep(p)
  BY <1>1, <1>3, <1>4 DEF Find, Sweep
<1>5. CASE \E p \in Requests : Emplace(p)
  <2>1. \/ entries' = Left
        \/ ~Known /\ \E e : entries' = [Left EXCEPT ![aim] = e]
    BY <1>5 DEF Emplace, MakeEntry
  <2> QED
    BY <1>1, <1>3, <2>1 DEF Known
<1>6. CASE \E p \in Requests : Create(p)
  <2>1. ~Known /\ \E e : entries' = [Left EXCEPT ![aim] = e]
    BY <1>6, StoreAssumption DEF Create, MakeEntry, StoreInv, Held
  <2> QED
    BY <1>1, <1>3, <2>1 DEF Known
<1>7. CASE UNCHANGED entries
  BY <1>1, <1>7
<1> QED
  BY <1>1, <1>4, <1>5, <1>6, <1>7, StepCases
  DEF Begin, Look, Acquire, Resume, BeginRelease, Touch, Leave, Unlock, BecomeVisible, Tick,
      UnchangedMap, moving

(* In a timely setting no sweep and no look-up drops an entry in use,      *)
(* although requests resume and release it between the look at the entries *)
(* and the removal.  (In another one may: see RunningNeverSwept.)          *)
THEOREM SweepSparesRunning == Spec => RunningKeepsEntry
<1>1. ASSUME StoreInv, [Next]_vars, Timely, NEW k \in Keys, Dropped(k), ~ByHand
      PROVE  ~InUse(entries[k])
  <2>1. k \in doomed
    BY <1>1, DroppedWasDoomed
  <2>2. Idle(entries[k])
    BY <1>1, <2>1 DEF StoreInv, TimelyInv, DoomedIdle
  <2> QED
    BY <1>1, <2>2, AtLockIsLive DEF InUse, InFlight, AtLock, Owning
<1>2. StoreInv /\ [Next]_vars =>
        [Timely => \A k \in Keys : Dropped(k) /\ ~ByHand => ~InUse(entries[k])]_vars
  BY <1>1
<1> QED
  BY <1>2, AlwaysStoreInv, PTL DEF Spec, RunningKeepsEntry

(* No two handlers of one key run at a time, for any number of requests,   *)
(* whatever expired and was made anew in between, in a calm setting.       *)
THEOREM KeysExclude == Spec => []KeyExclusive
<1>1. ASSUME StoreInv
      PROVE  KeyExclusive
  <2> SUFFICES ASSUME Calm, NEW p \in Requests, NEW q \in Requests,
                      p # q, pc[p] = "holding", pc[q] = "holding",
                      keyOf[ent[p]] = keyOf[ent[q]]
               PROVE  FALSE
    BY DEF KeyExclusive, OneHandlerPerKey
  <2>1. pc[p] \in Owning /\ pc[q] \in Owning /\ pc[p] \in AtLock /\ pc[q] \in AtLock
    BY DEF Owning, AtLock
  <2>2. ent[p] = ent[q]
    BY <1>1, <2>1 DEF StoreInv, CalmInv, Mapped
  <2> QED
    BY <1>1, <2>1, <2>2 DEF StoreInv, LockInv, MutualExclusion
<1> QED
  BY <1>1, AlwaysStoreInv, PTL

(* In a calm setting only what has been idle for longer than the timeout   *)
(* is dropped, by whichever operation.                                     *)
THEOREM OnlyIdleIsSwept == Spec => OnlyIdleSwept
<1>1. ASSUME StoreInv, [Next]_vars, Calm, NEW k \in Keys, Dropped(k)
      PROVE  clock > used[entries[k]] + Timeout
  <2>1. ~ByHand
    BY <1>1 DEF ByHand, Erase, Calm
  <2>2. k \in doomed
    BY <1>1, <2>1, DroppedWasDoomed
  <2>3. Idle(entries[k]) /\ entries[k] \in Entries
    BY <1>1, <2>2 DEF StoreInv, TimelyInv, DoomedIdle, MapTypes, Calm
  <2>4. used[entries[k]] = last[entries[k]]
    BY <1>1, <2>3 DEF StoreInv, TimelyInv, Stamped, Calm
  <2> QED
    BY <2>3, <2>4 DEF Idle
<1>2. StoreInv /\ [Next]_vars =>
        [Calm => \A k \in Keys : Dropped(k) => clock > used[entries[k]] + Timeout]_vars
  BY <1>1
<1> QED
  BY <1>2, AlwaysStoreInv, PTL DEF Spec, OnlyIdleSwept

===============================================================================
