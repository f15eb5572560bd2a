-------------------------------- MODULE Server --------------------------------
(***************************************************************************)
(* The pool of cancellation slots (core/cancellation_signals.hpp) and the  *)
(* servers that fill it (server/tcp.hpp, server/tls.hpp): one acceptor and *)
(* the connections it spawns, each on a strand of its own, and threads     *)
(* that emit on the pool.                                                  *)
(*                                                                         *)
(* emit() copies the list of slots under the pool's mutex and dispatches   *)
(* one emission per slot after releasing it, so strands go on in between.  *)
(* A slot is registered before co_spawn installs the coroutine's handler   *)
(* in it, from a thread that need not be the slot's strand: an emission    *)
(* that runs in between finds no handler and has no effect.                *)
(*                                                                         *)
(* A step of the acceptor leads from one suspension point of accept_loop   *)
(* to the next, except where it takes the pool's mutex.                    *)
(***************************************************************************)
EXTENDS Naturals, FiniteSets

CONSTANTS
  Conns,      (* bound: connections accepted                               *)
  Acceptor,   (* the acceptor's slot in the pool                           *)
  Emitters,   (* threads that call emit(), once each                       *)
  Tls         (* TRUE: server::tls, FALSE: server::tcp                     *)

ASSUME ServerAssumption == Acceptor \notin Conns /\ Tls \in BOOLEAN

Actors == Conns \cup {Acceptor}

VARIABLES
  bound,           \* the pool: who is registered
  phase, todo,     \* per emitter: how far emit() is; slots still to dispatch to
  queued,          \* per actor: emissions dispatched to its strand, not run yet
  handler,         \* per actor: its slot has the coroutine's handler
  cancelled,       \* per actor: cancellation is recorded in its coroutine
  pc, op,          \* per actor: where it is and how its pending operation stands
  result,          \* how the acceptor ended
  forwarded,       \* the spawner has cancelled the acceptor
  told, reached,   \* history: actors emitted to, with and without a handler in place
  late             \* history: connections spawned by a cancelled acceptor

vars == <<bound, phase, todo, queued, handler, cancelled, pc, op, result, forwarded,
          told, reached, late>>

Init ==
  /\ bound = {}
  /\ phase = [e \in Emitters |-> "idle"] /\ todo = [e \in Emitters |-> {}]
  /\ queued = [a \in Actors |-> 0]
  /\ handler = [a \in Actors |-> FALSE] /\ cancelled = [a \in Actors |-> FALSE]
  /\ pc = [a \in Actors |-> "none"] /\ op = [a \in Actors |-> "none"]
  /\ result = "none" /\ forwarded = FALSE
  /\ told = {} /\ reached = {} /\ late = 0

-----------------------------------------------------------------------------
(* Emission.                                                               *)

(* Where a strand is in the middle of a handler.                           *)
Busy(a) == pc[a] \in {"admit", "install", "loop"}

(* Defect: a slot whose strand is running is passed over.                  *)
DefectSnapshot == {a \in bound : ~Busy(a)}

(* The slots emit() sees under the mutex.                                  *)
Snapshot == bound

BeginEmit(e) ==
  /\ phase[e] = "idle"
  /\ phase' = [phase EXCEPT ![e] = "dispatching"]
  /\ todo' = [todo EXCEPT ![e] = Snapshot]
  /\ told' = told \cup {a \in bound : handler[a]}
  /\ reached' = reached \cup bound
  /\ UNCHANGED <<bound, queued, handler, cancelled, pc, op, result, forwarded, late>>

DispatchTo(e, a) ==
  /\ a \in todo[e]
  /\ todo' = [todo EXCEPT ![e] = @ \ {a}]
  /\ queued' = [queued EXCEPT ![a] = @ + 1]
  /\ UNCHANGED <<bound, phase, handler, cancelled, pc, op, result, forwarded, told,
                 reached, late>>

(* forward_cancellation: the spawner's own slot is re-emitted on the       *)
(* acceptor's strand.                                                      *)
SpawnerCancels ==
  /\ ~forwarded /\ Acceptor \in bound
  /\ forwarded' = TRUE
  /\ queued' = [queued EXCEPT ![Acceptor] = @ + 1]
  /\ told' = told \cup {a \in {Acceptor} : handler[a]}
  /\ UNCHANGED <<bound, phase, todo, handler, cancelled, pc, op, result, reached, late>>

(* Operations that cancellation interrupts; a name resolution it does not. *)
Interruptible == {"accepting", "backoff", "handshake"}

(* An emission runs on its strand.                                         *)
RunEmission(a) ==
  /\ queued[a] > 0 /\ ~Busy(a)
  /\ queued' = [queued EXCEPT ![a] = @ - 1]
  /\ cancelled' = [cancelled EXCEPT ![a] = @ \/ handler[a]]
  /\ op' = [op EXCEPT ![a] =
              IF handler[a] /\ @ = "pending" /\ pc[a] \in Interruptible THEN "aborted" ELSE @]
  /\ UNCHANGED <<bound, phase, todo, handler, pc, result, forwarded, told, reached, late>>

UnchangedEmission == UNCHANGED <<phase, todo, queued, cancelled, forwarded, told, reached>>

-----------------------------------------------------------------------------
(* Moving an actor.                                                        *)

Go(a, p) == pc' = [pc EXCEPT ![a] = p] /\ op' = [op EXCEPT ![a] = "none"]
Await(a, p) == pc' = [pc EXCEPT ![a] = p] /\ op' = [op EXCEPT ![a] = "pending"]

End(how) == Go(Acceptor, "ended") /\ result' = how

(* co_await throws operation_aborted while cancellation is recorded.       *)
CoAwait(p) ==
  IF cancelled[Acceptor] THEN End("aborted")
                         ELSE Await(Acceptor, p) /\ UNCHANGED result

(* signals.slot(strand): the slot enters the pool, still without a handler.*)
Register(a) == bound' = bound \cup {a}

(* co_spawn puts the coroutine's handler into the slot.                    *)
Install(a) == handler' = [handler EXCEPT ![a] = TRUE]

LeavesPool(a) == bound' = bound \ {a}

(* ~bound_slot: the slot leaves the pool once its coroutine is over.       *)
Release(a) ==
  /\ pc[a] = "ended"
  /\ Go(a, "gone")
  /\ LeavesPool(a)
  /\ UNCHANGED <<handler, result, late>>
  /\ UnchangedEmission

-----------------------------------------------------------------------------
(* The acceptor: run_on_strand and accept_loop.                            *)

RegisterAcceptor ==
  /\ pc[Acceptor] = "none"
  /\ Go(Acceptor, "registered")
  /\ Register(Acceptor)
  /\ UNCHANGED <<handler, result, late>>
  /\ UnchangedEmission

SpawnAcceptor ==
  /\ pc[Acceptor] = "registered"
  /\ Go(Acceptor, "spawned")
  /\ Install(Acceptor)
  /\ UNCHANGED <<bound, result, late>>
  /\ UnchangedEmission

StartAcceptor ==
  /\ pc[Acceptor] = "spawned"
  /\ CoAwait("resolving")
  /\ UNCHANGED <<bound, handler, late>>
  /\ UnchangedEmission

(* Defect: the loop does not look at the cancellation state.               *)
DefectLoopTest == Await(Acceptor, "accepting") /\ UNCHANGED result

(* Accept again, unless cancelled.                                         *)
LoopTest ==
  IF cancelled[Acceptor] THEN End("stopped")
                         ELSE Await(Acceptor, "accepting") /\ UNCHANGED result

(* The name is resolved; open, bind and listen may fail too.               *)
ResumeResolving ==
  /\ pc[Acceptor] = "resolving" /\ op[Acceptor] # "pending"
  /\ LoopTest \/ End("failed")
  /\ UNCHANGED <<bound, handler, late>>
  /\ UnchangedEmission

ResumeAccepting ==
  /\ pc[Acceptor] = "accepting" /\ op[Acceptor] # "pending"
  /\ \/ op[Acceptor] = "ok" /\ Go(Acceptor, "admit") /\ UNCHANGED result
     \/ op[Acceptor] = "aborted" /\ LoopTest
     \/ op[Acceptor] = "error" /\ CoAwait("backoff")
  /\ UNCHANGED <<bound, handler, late>>
  /\ UnchangedEmission

ResumeBackoff ==
  /\ pc[Acceptor] = "backoff" /\ op[Acceptor] # "pending"
  /\ LoopTest
  /\ UNCHANGED <<bound, handler, late>>
  /\ UnchangedEmission

(* spawn_session: the connection's slot enters the pool ...                *)
Admit(c) ==
  /\ pc[Acceptor] = "admit" /\ pc[c] = "none"
  /\ pc' = [pc EXCEPT ![Acceptor] = "install", ![c] = "registered"]
  /\ Register(c)
  /\ late' = IF cancelled[Acceptor] THEN late + 1 ELSE late
  /\ UNCHANGED <<op, handler, result>>
  /\ UnchangedEmission

(* ... and gets its handler from co_spawn; the acceptor loops.             *)
SpawnSession(c) ==
  /\ pc[Acceptor] = "install" /\ pc[c] = "registered"
  /\ Install(c)
  /\ pc' = [pc EXCEPT ![c] = "spawned", ![Acceptor] = "loop"]
  /\ UNCHANGED <<bound, op, result, late>>
  /\ UnchangedEmission

Loop ==
  /\ pc[Acceptor] = "loop"
  /\ LoopTest
  /\ UNCHANGED <<bound, handler, late>>
  /\ UnchangedEmission

-----------------------------------------------------------------------------
(* A connection; what its session does is the subject of HttpSession.      *)

StartConnection(c) ==
  /\ pc[c] = "spawned"
  /\ \/ ~Tls /\ Go(c, "session")
     \/ Tls /\ ~cancelled[c] /\ Await(c, "handshake")
     \/ Tls /\ cancelled[c] /\ Go(c, "ended")
  /\ UNCHANGED <<bound, handler, result, late>>
  /\ UnchangedEmission

ResumeHandshake(c) ==
  /\ pc[c] = "handshake" /\ op[c] # "pending"
  /\ Go(c, IF op[c] = "ok" /\ ~cancelled[c] THEN "session" ELSE "ended")
  /\ UNCHANGED <<bound, handler, result, late>>
  /\ UnchangedEmission

SessionEnds(c) ==
  /\ pc[c] = "session"
  /\ Go(c, "ended")
  /\ UNCHANGED <<bound, handler, result, late>>
  /\ UnchangedEmission

-----------------------------------------------------------------------------
(* The environment.                                                        *)

Complete(a, p, results) ==
  /\ pc[a] = p /\ op[a] = "pending"
  /\ \E r \in results : op' = [op EXCEPT ![a] = r]
  /\ UNCHANGED <<bound, handler, pc, result, late>>
  /\ UnchangedEmission

Resolved == Complete(Acceptor, "resolving", {"ok", "error"})
BackoffExpires == Complete(Acceptor, "backoff", {"ok"})
ClientConnects ==
  /\ \E c \in Conns : pc[c] = "none"
  /\ Complete(Acceptor, "accepting", {"ok"})
AcceptFails == Complete(Acceptor, "accepting", {"error"})
HandshakeCompletes(c) == Complete(c, "handshake", {"ok", "error"})

(* handshake_timeout.                                                      *)
HandshakeExpires(c) == Complete(c, "handshake", {"error"})

-----------------------------------------------------------------------------
Emission(e) == BeginEmit(e) \/ \E a \in Actors : DispatchTo(e, a)

AcceptorStep ==
  \/ RegisterAcceptor \/ SpawnAcceptor \/ StartAcceptor
  \/ ResumeResolving \/ ResumeAccepting \/ ResumeBackoff \/ Loop
  \/ \E c \in Conns : Admit(c) \/ SpawnSession(c)
  \/ Release(Acceptor)

ConnectionStep(c) == StartConnection(c) \/ ResumeHandshake(c) \/ Release(c)

(* The acceptor and the connections it accepted are gone.                  *)
Terminated ==
  /\ pc[Acceptor] = "gone" /\ \A c \in Conns : pc[c] \in {"none", "gone"}
  /\ UNCHANGED vars

Next ==
  \/ \E e \in Emitters : Emission(e)
  \/ SpawnerCancels
  \/ \E a \in Actors : RunEmission(a)
  \/ AcceptorStep \/ Resolved \/ BackoffExpires \/ ClientConnects \/ AcceptFails
  \/ \E c \in Conns :
       \/ ConnectionStep(c) \/ SessionEnds(c)
       \/ HandshakeCompletes(c) \/ HandshakeExpires(c)
  \/ Terminated

Spec == Init /\ [][Next]_vars

(* An emission that was begun is finished, strands run what is queued or   *)
(* resumable, names are resolved, the backoff timer fires, and a session   *)
(* that was cancelled ends (see HttpSession!ShutdownEnds).  Nothing is     *)
(* assumed of clients.                                                     *)
Fairness ==
  /\ \A e \in Emitters : WF_vars(\E a \in Actors : DispatchTo(e, a))
  /\ \A a \in Actors : WF_vars(RunEmission(a))
  /\ WF_vars(AcceptorStep) /\ WF_vars(Resolved) /\ WF_vars(BackoffExpires)
  /\ \A c \in Conns :
       /\ WF_vars(ConnectionStep(c))
       /\ WF_vars(cancelled[c] /\ SessionEnds(c))

FairSpec == Spec /\ Fairness

-----------------------------------------------------------------------------
(* Correctness.                                                            *)

Places == {"none", "registered", "spawned", "resolving", "accepting", "backoff", "admit",
           "install", "loop", "handshake", "session", "ended", "gone"}

Over(a) == pc[a] \in {"ended", "gone"}

(* Every variable stays within its domain; the pool holds exactly those    *)
(* whose coroutine is not over and done with.                              *)
TypeOK ==
  /\ bound = {a \in Actors : pc[a] \notin {"none", "gone"}}
  /\ phase \in [Emitters -> {"idle", "dispatching"}]
  /\ todo \in [Emitters -> SUBSET Actors] /\ queued \in [Actors -> Nat]
  /\ handler \in [Actors -> BOOLEAN] /\ cancelled \in [Actors -> BOOLEAN]
  /\ pc \in [Actors -> Places]
  /\ op \in [Actors -> {"none", "pending", "ok", "error", "aborted"}]
  /\ result \in {"none", "stopped", "failed", "aborted"} /\ forwarded \in BOOLEAN
  /\ told \subseteq Actors /\ reached \subseteq Actors /\ late \in Nat

(* An emission to a is dispatched, or about to be.                         *)
OnItsWay(a) == queued[a] > 0 \/ \E e \in Emitters : a \in todo[e]

(* Whoever was in the pool with its handler in place when an emission      *)
(* looked, is cancelled, is over, or has the emission on its way: none is  *)
(* lost between the copy of the list and the strand it is for.             *)
EmissionsArrive == \A a \in told : cancelled[a] \/ Over(a) \/ OnItsWay(a)

(* A cancelled acceptor takes in the connection it had already accepted,   *)
(* and no other.                                                           *)
AtMostOneLate == late <= 1

(* Whoever an emission was meant for leaves the pool: the acceptor whatever*)
(* it waits for, and every connection, in its handshake or in its session. *)
ToldLeave == \A a \in Actors : a \in told ~> a \notin bound

-----------------------------------------------------------------------------
(* What documentation and comments say, where the code disagrees.          *)

(* "A single emit shuts the server down": once the acceptor has stopped and*)
(* every emission has been delivered, no connection goes on uncancelled.   *)
NobodyLeftBehind ==
  (/\ Acceptor \in told /\ ~forwarded /\ pc[Acceptor] = "gone"
   /\ \A a \in Actors : ~OnItsWay(a)) =>
     \A c \in Conns : pc[c] = "session" => cancelled[c]

(* "It may be called from any thread": an emission that found a slot in the*)
(* pool reaches the coroutine the slot was registered for.                 *)
AnyThreadMayEmit == \A a \in reached : cancelled[a] \/ Over(a) \/ OnItsWay(a)
===============================================================================
