----------------------------- MODULE ContextStore -----------------------------
(***************************************************************************)
(* core/context_store.hpp: a keyed store of contexts with idle expiry, and *)
(* the lock each entry carries, used by requests the way with_session and  *)
(* the MCP endpoint use them: look an entry up or create it, acquire its   *)
(* lock, run the handler, release.                                         *)
(*                                                                         *)
(* The lock's mutex makes the code it covers one step.  The store's mutex  *)
(* (`holder') excludes the operations on the map from each other, but not  *)
(* from the requests that run: reading the clock (before it is taken), the *)
(* resumption of a waiter (posted to its executor) and the three parts of a*)
(* release (touch, leave, hand over) are steps without it.  So an operation*)
(* is two steps: Look takes the mutex and reads the activity and the       *)
(* in-flight count of the entries, and the operation itself erases what was*)
(* found expired then, whatever happened meanwhile, and leaves the mutex.  *)
(* One Look stands for all the reads of an operation: no step without the  *)
(* mutex reads the map, and those on two entries do not depend on each     *)
(* other.                                                                  *)
(*                                                                         *)
(* Activity and count are written without the store's mutex and with       *)
(* relaxed ordering: a thread may go on seeing the value that was replaced.*)
(***************************************************************************)
EXTENDS Naturals, Sequences, FiniteSets

CONSTANTS
  Requests,     (* requests that use the store, each a strand of its own   *)
  Nobody,       (* not a request                                           *)
  Keys,
  Timeout,      (* idle_timeout                                            *)
  Settings,     (* where the program may run: whether a relaxed write may be observed late, whether no time passes while a step is due, and whether keys are also erased by hand *)
  MaxTime,      (* bound: the clock                                        *)
  MaxEntries    (* bound: entries ever made                                *)

ASSUME StoreAssumption ==
  /\ Keys # {} /\ IsFiniteSet(Requests) /\ Nobody \notin Requests
  /\ Timeout \in Nat /\ MaxTime \in Nat /\ MaxEntries \in Nat \ {0}
  /\ Settings \subseteq [relaxed: BOOLEAN, prompt: BOOLEAN, erasing: BOOLEAN]

VARIABLES
  setting,                 \* one of Settings
  clock,
  entries, sweptAt,        \* the map (0: no entry for the key) and last_sweep_
  made, keyOf,             \* entries made so far, and the key each was made for
  holder, aim, doomed,     \* the store's mutex; the key and the expired keys its holder found
  last, stale,             \* per entry: last_activity_, and the value a reader may still see
  flying, before,          \* per entry: in_flight_, and the value a reader may still see
  locked, waiters,         \* per entry: the async_lock
  pc, now, ent,            \* per request: what it does next, its clock reading, its entry_ptr
  toucher, counter,        \* per entry: who wrote what may be seen late (Nobody: nothing is)
  used                     \* history: when each entry was last found, made or released

moving == <<clock, entries, sweptAt, made, keyOf, holder, aim, doomed, last, stale, flying,
            before, locked, waiters, pc, now, ent, toucher, counter, used>>
vars == <<setting, moving>>

Entries == 1 .. MaxEntries
NoEntry == 0
AnyKey == CHOOSE k \in Keys : TRUE

Operations == {"find", "emplace", "create", "sweep"}

(* Where the request holds a reference that the lock has been granted to.  *)
Owning == {"granted", "holding", "touch", "leave", "unlock"}

-----------------------------------------------------------------------------
Init ==
  /\ setting \in Settings
  /\ clock = 0
  /\ entries = [k \in Keys |-> NoEntry] /\ sweptAt = 0
  /\ made = 0 /\ keyOf = [e \in Entries |-> AnyKey]
  /\ holder = Nobody /\ aim = AnyKey /\ doomed = {}
  /\ last = [e \in Entries |-> 0] /\ stale = [e \in Entries |-> 0]
  /\ flying = [e \in Entries |-> 0] /\ before = [e \in Entries |-> 0]
  /\ locked = [e \in Entries |-> FALSE] /\ waiters = [e \in Entries |-> <<>>]
  /\ pc = [p \in Requests |-> "idle"]
  /\ now = [p \in Requests |-> 0] /\ ent = [p \in Requests |-> NoEntry]
  /\ toucher = [e \in Entries |-> Nobody] /\ counter = [e \in Entries |-> Nobody]
  /\ used = [e \in Entries |-> 0]

UnchangedLocks == UNCHANGED <<flying, before, locked, waiters>>

-----------------------------------------------------------------------------
(* The map, under the store's mutex.                                       *)

(* What p may see of the entries: the last write of each, or, if somebody  *)
(* else made it outside the mutex, the value it replaced.                  *)
LateFor(p, writer) == {e \in Entries : writer[e] \notin {p, Nobody}}
Views(p) ==
  { [last   |-> [e \in Entries |-> IF e \in S THEN stale[e] ELSE last[e]],
     flying |-> [e \in Entries |-> IF e \in T THEN before[e] ELSE flying[e]]] :
      S \in SUBSET LateFor(p, toucher), T \in SUBSET LateFor(p, counter) }

(* Defect: in_flight is not looked at.                                     *)
DefectForgetInFlight(e, t, seen) == t > seen.last[e] + Timeout

(* now - last_activity > idle_timeout; the activity may lie in the future. *)
Expired(e, t, seen) == seen.flying[e] = 0 /\ t > seen.last[e] + Timeout

(* The keys of the expired entries.                                        *)
Condemned(t, seen) == {k \in Keys : entries[k] # NoEntry /\ Expired(entries[k], t, seen)}

(* maybe_sweep runs once every quarter timeout.                            *)
DueAt(t) == t >= sweptAt + Timeout \div 4

Sweeps(p) == pc[p] = "sweep" \/ DueAt(now[p])

Making == {p \in Requests : pc[p] \in {"emplace", "create"}}

(* Every operation first reads the clock, then takes the mutex.            *)
Begin(p, operation) ==
  /\ pc[p] = "idle"
  /\ operation \in {"emplace", "create"} => made + Cardinality(Making) < MaxEntries
  /\ now' = [now EXCEPT ![p] = clock]
  /\ pc' = [pc EXCEPT ![p] = operation]
  /\ UNCHANGED <<clock, entries, sweptAt, made, keyOf, holder, aim, doomed, last, stale, ent,
                 toucher, counter, used>>
  /\ UnchangedLocks

(* The mutex is taken and the entries are looked at: all of them if a sweep*)
(* is due, and the one the operation is for.  Keys for new entries are     *)
(* drawn until one is not owned by a live entry.                           *)
Look(p) ==
  /\ pc[p] \in Operations /\ holder = Nobody
  /\ holder' = p
  /\ \E seen \in Views(p), k \in Keys :
       /\ aim' = k
       /\ doomed' = Condemned(now[p], seen) \cap (IF Sweeps(p) THEN Keys ELSE {k})
       /\ pc[p] = "create" => entries[k] = NoEntry \/ k \in doomed'
       /\ pc[p] = "sweep" => k = AnyKey
  /\ sweptAt' = IF Sweeps(p) THEN now[p] ELSE sweptAt
  /\ UNCHANGED <<clock, entries, made, keyOf, last, stale, pc, now, ent, toucher, counter, used>>
  /\ UnchangedLocks

(* What the holder of the mutex leaves in the map, and whether what it     *)
(* looked for is there.                                                    *)
Left == [k \in Keys |-> IF k \in doomed THEN NoEntry ELSE entries[k]]
Known == Left[aim] # NoEntry

(* p leaves the mutex: its own writes, among them the touch of `found', are*)
(* seen by whoever takes it next.                                          *)
Publish(p, found) ==
  /\ holder' = Nobody /\ aim' = AnyKey /\ doomed' = {}
  /\ toucher' = [e \in Entries |-> IF e = found \/ toucher[e] = p THEN Nobody ELSE toucher[e]]
  /\ counter' = [e \in Entries |-> IF counter[e] = p THEN Nobody ELSE counter[e]]

TouchFound(p, e) ==
  /\ last' = [last EXCEPT ![e] = now[p]]
  /\ used' = [used EXCEPT ![e] = clock]
  /\ ent' = [ent EXCEPT ![p] = e]
  /\ pc' = [pc EXCEPT ![p] = "lock"]
  /\ Publish(p, e)

(* The operation comes back without an entry.                              *)
ComeBack(p) ==
  /\ pc' = [pc EXCEPT ![p] = "idle"]
  /\ Publish(p, NoEntry)
  /\ UNCHANGED <<last, used, ent>>

(* Put a new entry into the map.                                           *)
MakeEntry(p) ==
  LET e == made + 1
  IN  /\ made' = e
      /\ keyOf' = [keyOf EXCEPT ![e] = aim]
      /\ entries' = [Left EXCEPT ![aim] = e]
      /\ TouchFound(p, e)

Find(p) ==
  /\ pc[p] = "find" /\ holder = p
  /\ entries' = Left
  /\ IF Known THEN TouchFound(p, Left[aim]) ELSE ComeBack(p)
  /\ UNCHANGED <<clock, sweptAt, made, keyOf, stale, now>>
  /\ UnchangedLocks

Emplace(p) ==
  /\ pc[p] = "emplace" /\ holder = p
  /\ IF Known
     THEN /\ entries' = Left
          /\ TouchFound(p, Left[aim])
          /\ UNCHANGED <<made, keyOf>>
     ELSE MakeEntry(p)
  /\ UNCHANGED <<clock, sweptAt, stale, now>>
  /\ UnchangedLocks

Create(p) ==
  /\ pc[p] = "create" /\ holder = p
  /\ MakeEntry(p)
  /\ UNCHANGED <<clock, sweptAt, stale, now>>
  /\ UnchangedLocks

Sweep(p) ==
  /\ pc[p] = "sweep" /\ holder = p
  /\ entries' = Left
  /\ ComeBack(p)
  /\ UNCHANGED <<clock, sweptAt, made, keyOf, stale, now>>
  /\ UnchangedLocks

Erase(k) ==
  /\ setting.erasing /\ entries[k] # NoEntry /\ holder = Nobody
  /\ entries' = [entries EXCEPT ![k] = NoEntry]
  /\ UNCHANGED <<clock, sweptAt, made, keyOf, holder, aim, doomed, last, stale, pc, now, ent,
                 toucher, counter, used>>
  /\ UnchangedLocks

-----------------------------------------------------------------------------
(* The lock of an entry.                                                   *)

UnchangedMap == UNCHANGED <<entries, sweptAt, made, keyOf, holder, aim, doomed>>

(* async_acquire: granted at once (the resumption is posted) or queued.    *)
Acquire(p) ==
  /\ pc[p] = "lock"
  /\ IF ~locked[ent[p]]
     THEN /\ locked' = [locked EXCEPT ![ent[p]] = TRUE]
          /\ pc' = [pc EXCEPT ![p] = "granted"]
          /\ UNCHANGED waiters
     ELSE /\ waiters' = [waiters EXCEPT ![ent[p]] = Append(@, p)]
          /\ pc' = [pc EXCEPT ![p] = "waiting"]
          /\ UNCHANGED locked
  /\ UNCHANGED <<clock, last, stale, flying, before, now, ent, toucher, counter, used>>
  /\ UnchangedMap

(* Defect: the holder is not counted.                                      *)
DefectCounted(e) == flying[e]

(* in_flight_, with one more holder.                                       *)
Counted(e) == flying[e] + 1

(* The count is relaxed: the one before it may still be seen.              *)
Count(p, n) ==
  /\ flying' = [flying EXCEPT ![ent[p]] = n]
  /\ IF setting.relaxed
     THEN /\ before' = [before EXCEPT ![ent[p]] = flying[ent[p]]]
          /\ counter' = [counter EXCEPT ![ent[p]] = p]
     ELSE UNCHANGED <<before, counter>>

(* The rest of context_store::lock, once the posted resumption runs.       *)
Resume(p) ==
  /\ pc[p] = "granted"
  /\ Count(p, Counted(ent[p]))
  /\ pc' = [pc EXCEPT ![p] = "holding"]
  /\ UNCHANGED <<clock, last, stale, locked, waiters, now, ent, toucher, used>>
  /\ UnchangedMap

(* lock_guard::release, from the clock reading to the hand-over.           *)
BeginRelease(p) ==
  /\ pc[p] = "holding"
  /\ now' = [now EXCEPT ![p] = clock]
  /\ pc' = [pc EXCEPT ![p] = "touch"]
  /\ UNCHANGED <<clock, last, stale, flying, before, locked, waiters, ent, toucher, counter, used>>
  /\ UnchangedMap

Touch(p) ==
  /\ pc[p] = "touch"
  /\ last' = [last EXCEPT ![ent[p]] = now[p]]
  /\ IF setting.relaxed
     THEN /\ stale' = [stale EXCEPT ![ent[p]] = last[ent[p]]]
          /\ toucher' = [toucher EXCEPT ![ent[p]] = p]
     ELSE UNCHANGED <<stale, toucher>>
  /\ used' = [used EXCEPT ![ent[p]] = clock]
  /\ pc' = [pc EXCEPT ![p] = "leave"]
  /\ UNCHANGED <<clock, flying, before, locked, waiters, now, ent, counter>>
  /\ UnchangedMap

Leave(p) ==
  /\ pc[p] = "leave"
  /\ Count(p, flying[ent[p]] - 1)
  /\ pc' = [pc EXCEPT ![p] = "unlock"]
  /\ UNCHANGED <<clock, last, stale, locked, waiters, now, ent, toucher, used>>
  /\ UnchangedMap

(* Defects: the lock is freed although it passes to the first waiter; the  *)
(* waiters are forgotten.                                                  *)
DefectFreeAndGrant(p, e) ==
  /\ locked' = [locked EXCEPT ![e] = FALSE]
  /\ IF waiters[e] = <<>>
     THEN pc' = [pc EXCEPT ![p] = "idle"] /\ UNCHANGED waiters
     ELSE /\ waiters' = [waiters EXCEPT ![e] = Tail(@)]
          /\ pc' = [pc EXCEPT ![p] = "idle", ![Head(waiters[e])] = "granted"]
DefectForgetWaiters(p, e) ==
  /\ locked' = [locked EXCEPT ![e] = FALSE]
  /\ pc' = [pc EXCEPT ![p] = "idle"]
  /\ UNCHANGED waiters

(* async_lock::release: the lock passes to the first waiter without being  *)
(* free in between.                                                        *)
HandOver(p, e) ==
  IF waiters[e] = <<>>
  THEN /\ locked' = [locked EXCEPT ![e] = FALSE]
       /\ pc' = [pc EXCEPT ![p] = "idle"]
       /\ UNCHANGED waiters
  ELSE /\ waiters' = [waiters EXCEPT ![e] = Tail(@)]
       /\ pc' = [pc EXCEPT ![p] = "idle", ![Head(waiters[e])] = "granted"]
       /\ UNCHANGED locked

Unlock(p) ==
  /\ pc[p] = "unlock"
  /\ HandOver(p, ent[p])
  /\ ent' = [ent EXCEPT ![p] = NoEntry]
  /\ UNCHANGED <<clock, last, stale, flying, before, now, toucher, counter, used>>
  /\ UnchangedMap

-----------------------------------------------------------------------------
(* The environment: time, and relaxed writes becoming visible.             *)

Resting == {"idle", "waiting", "holding"}

Tick ==
  /\ clock < MaxTime
  /\ setting.prompt => \A p \in Requests : pc[p] \in Resting
  /\ clock' = clock + 1
  /\ UNCHANGED <<last, stale, flying, before, locked, waiters, pc, now, ent, toucher, counter,
                 used>>
  /\ UnchangedMap

BecomeVisible(e) ==
  /\ \/ /\ toucher[e] # Nobody
        /\ toucher' = [toucher EXCEPT ![e] = Nobody]
        /\ UNCHANGED counter
     \/ /\ counter[e] # Nobody
        /\ counter' = [counter EXCEPT ![e] = Nobody]
        /\ UNCHANGED toucher
  /\ UNCHANGED <<clock, last, stale, flying, before, locked, waiters, pc, now, ent, used>>
  /\ UnchangedMap

Continue(p) ==
  \/ Look(p) \/ Find(p) \/ Emplace(p) \/ Create(p) \/ Sweep(p)
  \/ Acquire(p) \/ Resume(p) \/ BeginRelease(p) \/ Touch(p) \/ Leave(p) \/ Unlock(p)

Step ==
  \/ \E p \in Requests : Continue(p) \/ \E o \in Operations : Begin(p, o)
  \/ \E k \in Keys : Erase(k)
  \/ \E e \in Entries : BecomeVisible(e)
  \/ Tick

Next == Step /\ UNCHANGED setting

Spec == Init /\ [][Next]_vars

(* Whatever a request has begun goes on: executors run what is posted, and *)
(* handlers finish.                                                        *)
FairSpec == Spec /\ \A p \in Requests : WF_moving(Continue(p))

-----------------------------------------------------------------------------
(* Correctness.                                                            *)

Steps == Operations \cup Owning \cup {"idle", "lock", "waiting"}

(* Every variable stays within its domain; in_flight is never negative.    *)
TypeOK ==
  /\ clock \in 0 .. MaxTime /\ sweptAt \in 0 .. MaxTime
  /\ entries \in [Keys -> Entries \cup {NoEntry}]
  /\ made \in 0 .. MaxEntries /\ keyOf \in [Entries -> Keys]
  /\ holder \in Requests \cup {Nobody} /\ aim \in Keys /\ doomed \subseteq Keys
  /\ last \in [Entries -> 0 .. MaxTime] /\ stale \in [Entries -> 0 .. MaxTime]
  /\ used \in [Entries -> 0 .. MaxTime]
  /\ toucher \in [Entries -> Requests \cup {Nobody}]
  /\ counter \in [Entries -> Requests \cup {Nobody}]
  /\ flying \in [Entries -> Nat] /\ before \in [Entries -> Nat]
  /\ locked \in [Entries -> BOOLEAN] /\ waiters \in [Entries -> Seq(Requests)]
  /\ pc \in [Requests -> Steps]
  /\ now \in [Requests -> 0 .. MaxTime]
  /\ ent \in [Requests -> Entries \cup {NoEntry}]

(* Two requests that hold the same entry never run their handlers at the   *)
(* same time, nor does one run while another's release is under way.       *)
MutualExclusion ==
  \A p, q \in Requests :
    (p # q /\ pc[p] \in Owning /\ pc[q] \in Owning) => ent[p] # ent[q]

(* A free lock has neither owners nor waiters: no hand-over is ever lost.  *)
FreeMeansUnwanted ==
  \A e \in Entries :
    ~locked[e] => /\ waiters[e] = <<>>
                  /\ \A p \in Requests : ent[p] = e => pc[p] \notin Owning

(* First come, first served: whoever is granted a lock that others go on   *)
(* waiting for was in the queue before them.                               *)
NoOvertaking ==
  [][\A e \in Entries, q \in Requests :
       (/\ pc'[q] = "granted" /\ pc[q] # "granted" /\ ent'[q] = e
        /\ waiters'[e] # <<>>) =>
         \E j \in 1 .. Len(waiters[e]) :
           /\ waiters[e][j] = q
           /\ \A i \in 1 .. Len(waiters'[e]) :
                \E k \in j + 1 .. Len(waiters[e]) : waiters[e][k] = waiters'[e][i]]_vars

(* Every request that asks for a lock gets to run its handler.             *)
Served == \A p \in Requests : pc[p] = "lock" ~> pc[p] = "holding"

(* Where a request's handler runs, or its release is not finished.         *)
InFlight == {"holding", "touch", "leave"}
InUse(e) == \E p \in Requests : ent[p] = e /\ pc[p] \in InFlight

Dropped(k) == entries[k] # NoEntry /\ entries'[k] # entries[k]
ByHand == \E k \in Keys : Erase(k)

(* Steps that are due take no time, and what one thread writes is seen by  *)
(* the others.                                                             *)
Timely == setting.prompt /\ ~setting.relaxed

(* An entry whose handler is running, or has not finished releasing it, is *)
(* not dropped from the map by a sweep or by a look-up, however long it    *)
(* runs and whoever resumes or releases it while the map is swept: only    *)
(* erase may.  The setting must be timely; in another the count may be     *)
(* looked at before a late resumption counts itself, and the entry dropped *)
(* after that (RunningNeverSwept below).                                   *)
RunningKeepsEntry ==
  [][Timely => \A k \in Keys : Dropped(k) /\ ~ByHand => ~InUse(entries[k])]_vars

(* In addition, nobody erases keys by hand.                                *)
Calm == Timely /\ ~setting.erasing

(* No two requests run their handlers for one key at a time.               *)
OneHandlerPerKey ==
  \A p, q \in Requests :
    (p # q /\ pc[p] = "holding" /\ pc[q] = "holding") => keyOf[ent[p]] # keyOf[ent[q]]

(* Two requests for the same key never run their handlers concurrently,    *)
(* also across expiry and re-creation of the key, in a calm setting.  In   *)
(* another they may: a sweep that sees an old stamp, or one that comes late*)
(* for a lock just handed over, takes the key from an entry that is about  *)
(* to be held.                                                             *)
KeyExclusive == Calm => OneHandlerPerKey

(* Under the same conditions, only an entry that has not been used for     *)
(* longer than the timeout is dropped, whoever read the clock when.        *)
OnlyIdleSwept ==
  [][Calm =>
       \A k \in Keys : Dropped(k) => clock > used[entries[k]] + Timeout]_vars

-----------------------------------------------------------------------------
(* The store's statement that two requests for one key never run their     *)
(* callables concurrently, whatever the threads see of each other's writes *)
(* and however late they run, as long as nobody erases the key.            *)
NeverConcurrently == ~setting.erasing => OneHandlerPerKey

(* "Entries that are locked are never swept": least of all one whose       *)
(* handler runs.  Not so when the request resumes late, between the look at*)
(* its entry's count and the removal.                                      *)
RunningNeverSwept == [][\A k \in Keys : Dropped(k) /\ ~ByHand => ~InUse(entries[k])]_vars

=============================================================================
