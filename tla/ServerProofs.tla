----------------------------- MODULE ServerProofs -----------------------------
(***************************************************************************)
(* Theorems about Server, for any number of connections and of threads     *)
(* that emit.                                                              *)
(***************************************************************************)
EXTENDS Server, TLAPS

Results == {"none", "pending", "ok", "error", "aborted"}

(* TypeOK without the pool, and the pool.                                  *)
Types ==
  /\ phase \in [Emitters -> {"idle", "dispatching"}]
  /\ todo \in [Emitters -> SUBSET Actors] /\ queued \in [Actors -> Nat]
  /\ handler \in [Actors -> BOOLEAN] /\ cancelled \in [Actors -> BOOLEAN]
  /\ pc \in [Actors -> Places] /\ op \in [Actors -> Results]
  /\ result \in {"none", "stopped", "failed", "aborted"} /\ forwarded \in BOOLEAN
  /\ told \subseteq Actors /\ reached \subseteq Actors /\ late \in Nat

Pool == bound = {a \in Actors : pc[a] \notin {"none", "gone"}}

(* Whoever was told has its handler, and the emission arrived or is on its *)
(* way; a thread that has not begun to emit has nothing to dispatch, so    *)
(* beginning forgets nobody.                                               *)
Delivered ==
  /\ \A a \in told : handler[a] /\ (cancelled[a] \/ Over(a) \/ OnItsWay(a))
  /\ \A e \in Emitters : phase[e] = "idle" => todo[e] = {}

(* Having taken in a connection late, the acceptor is on its way out.      *)
Lateness ==
  /\ late <= 1
  /\ late = 1 => /\ cancelled[Acceptor]
                 /\ pc[Acceptor] \in {"install", "loop", "ended", "gone"}

-----------------------------------------------------------------------------
(* Next as a list of cases.                                                *)
LEMMA StepCases ==
  ASSUME [Next]_vars
  PROVE  \/ \E e \in Emitters : BeginEmit(e)
         \/ \E e \in Emitters, a \in Actors : DispatchTo(e, a)
         \/ SpawnerCancels
         \/ \E a \in Actors : RunEmission(a)
         \/ RegisterAcceptor
         \/ SpawnAcceptor
         \/ StartAcceptor
         \/ ResumeResolving
         \/ ResumeAccepting
         \/ ResumeBackoff
         \/ Loop
         \/ \E c \in Conns : Admit(c)
         \/ \E c \in Conns : SpawnSession(c)
         \/ \E a \in Actors : Release(a)
         \/ \E c \in Conns : StartConnection(c)
         \/ \E c \in Conns : ResumeHandshake(c)
         \/ \E c \in Conns : SessionEnds(c)
         \/ \E a \in Actors, p \in Places, results \in SUBSET Results : Complete(a, p, results)
         \/ UNCHANGED vars
BY DEF Next, Emission, AcceptorStep, ConnectionStep, Resolved, BackoffExpires, ClientConnects,
   AcceptFails, HandshakeCompletes, HandshakeExpires, Terminated, Actors, Places, Results

(* The acceptor is an actor, and no connection.                            *)
LEMMA ActorsDiffer == Acceptor \in Actors /\ Conns \subseteq Actors /\ Acceptor \notin Conns
BY ServerAssumption DEF Actors

(* Every step preserves the types.                                         *)
LEMMA StepTypes ==
  ASSUME Types, Pool, [Next]_vars
  PROVE  Types'
<1> USE ActorsDiffer DEF Types, Places, Results
<1>1. CASE \E e \in Emitters : BeginEmit(e)
  BY <1>1 DEF BeginEmit, Snapshot, Pool
<1>2. CASE \E e \in Emitters, a \in Actors : DispatchTo(e, a)
  BY <1>2 DEF DispatchTo, Pool
<1>3. CASE SpawnerCancels
  BY <1>3 DEF SpawnerCancels, Pool
<1>4. CASE \E a \in Actors : RunEmission(a)
  BY <1>4 DEF RunEmission, Busy, Interruptible, Pool
<1>5. CASE RegisterAcceptor
  BY <1>5 DEF RegisterAcceptor, Go, Register, UnchangedEmission, Pool
<1>6. CASE SpawnAcceptor
  BY <1>6 DEF SpawnAcceptor, Go, Install, UnchangedEmission, Pool
<1>7. CASE StartAcceptor
  BY <1>7 DEF StartAcceptor, CoAwait, End, Go, Await, UnchangedEmission, Pool
<1>8. CASE ResumeResolving
  BY <1>8 DEF ResumeResolving, LoopTest, End, Go, Await, UnchangedEmission,
     Pool
<1>9. CASE ResumeAccepting
  BY <1>9 DEF ResumeAccepting, LoopTest, CoAwait, End, Go, Await,
     UnchangedEmission, Pool
<1>10. CASE ResumeBackoff
  BY <1>10 DEF ResumeBackoff, LoopTest, End, Go, Await, UnchangedEmission,
     Pool
<1>11. CASE Loop
  BY <1>11 DEF Loop, LoopTest, End, Go, Await, UnchangedEmission, Pool
<1>12. CASE \E c \in Conns : Admit(c)
  BY <1>12 DEF Admit, Register, UnchangedEmission, Pool
<1>13. CASE \E c \in Conns : SpawnSession(c)
  BY <1>13 DEF SpawnSession, Install, UnchangedEmission, Pool
<1>14. CASE \E a \in Actors : Release(a)
  BY <1>14 DEF Release, Go, LeavesPool, UnchangedEmission, Pool
<1>15. CASE \E c \in Conns : StartConnection(c)
  BY <1>15 DEF StartConnection, Go, Await, UnchangedEmission, Pool
<1>16. CASE \E c \in Conns : ResumeHandshake(c)
  BY <1>16 DEF ResumeHandshake, Go, UnchangedEmission, Pool
<1>17. CASE \E c \in Conns : SessionEnds(c)
  BY <1>17 DEF SessionEnds, Go, UnchangedEmission, Pool
<1>18. CASE \E a \in Actors, p \in Places, results \in SUBSET Results : Complete(a, p, results)
  BY <1>18 DEF Complete, UnchangedEmission, Pool
<1>19. CASE UNCHANGED vars
  BY <1>19 DEF vars, Pool
<1> QED
  BY StepCases, <1>1, <1>2, <1>3, <1>4, <1>5, <1>6, <1>7, <1>8, <1>9,
     <1>10, <1>11, <1>12, <1>13, <1>14, <1>15, <1>16, <1>17, <1>18, <1>19

(* Every step preserves what the pool holds.                               *)
LEMMA StepPool ==
  ASSUME Types, Pool, [Next]_vars
  PROVE  Pool'
<1> USE ActorsDiffer DEF Types, Places, Pool
<1>1. CASE \E e \in Emitters : BeginEmit(e)
  BY <1>1 DEF BeginEmit, Snapshot
<1>2. CASE \E e \in Emitters, a \in Actors : DispatchTo(e, a)
  BY <1>2 DEF DispatchTo
<1>3. CASE SpawnerCancels
  BY <1>3 DEF SpawnerCancels
<1>4. CASE \E a \in Actors : RunEmission(a)
  BY <1>4 DEF RunEmission, Busy, Interruptible
<1>5. CASE RegisterAcceptor
  BY <1>5 DEF RegisterAcceptor, Go, Register, UnchangedEmission
<1>6. CASE SpawnAcceptor
  BY <1>6 DEF SpawnAcceptor, Go, Install, UnchangedEmission
<1>7. CASE StartAcceptor
  BY <1>7 DEF StartAcceptor, CoAwait, End, Go, Await, UnchangedEmission
<1>8. CASE ResumeResolving
  BY <1>8 DEF ResumeResolving, LoopTest, End, Go, Await, UnchangedEmission
<1>9. CASE ResumeAccepting
  BY <1>9 DEF ResumeAccepting, LoopTest, CoAwait, End, Go, Await,
     UnchangedEmission
<1>10. CASE ResumeBackoff
  BY <1>10 DEF ResumeBackoff, LoopTest, End, Go, Await, UnchangedEmission
<1>11. CASE Loop
  BY <1>11 DEF Loop, LoopTest, End, Go, Await, UnchangedEmission
<1>12. CASE \E c \in Conns : Admit(c)
  BY <1>12 DEF Admit, Register, UnchangedEmission
<1>13. CASE \E c \in Conns : SpawnSession(c)
  BY <1>13 DEF SpawnSession, Install, UnchangedEmission
<1>14. CASE \E a \in Actors : Release(a)
  BY <1>14 DEF Release, Go, LeavesPool, UnchangedEmission
<1>15. CASE \E c \in Conns : StartConnection(c)
  BY <1>15 DEF StartConnection, Go, Await, UnchangedEmission
<1>16. CASE \E c \in Conns : ResumeHandshake(c)
  BY <1>16 DEF ResumeHandshake, Go, UnchangedEmission
<1>17. CASE \E c \in Conns : SessionEnds(c)
  BY <1>17 DEF SessionEnds, Go, UnchangedEmission
<1>18. CASE \E a \in Actors, p \in Places, results \in SUBSET Results : Complete(a, p, results)
  BY <1>18 DEF Complete, UnchangedEmission
<1>19. CASE UNCHANGED vars
  BY <1>19 DEF vars
<1> QED
  BY StepCases, <1>1, <1>2, <1>3, <1>4, <1>5, <1>6, <1>7, <1>8, <1>9,
     <1>10, <1>11, <1>12, <1>13, <1>14, <1>15, <1>16, <1>17, <1>18, <1>19

(* Every step leaves an emission with somebody.                            *)
LEMMA StepDelivered ==
  ASSUME Types, Delivered, [Next]_vars
  PROVE  Delivered'
<1> USE ActorsDiffer DEF Types, Places, Delivered, Over, OnItsWay
<1>1. CASE \E e \in Emitters : BeginEmit(e)
  BY <1>1 DEF BeginEmit, Snapshot
<1>2. CASE \E e \in Emitters, a \in Actors : DispatchTo(e, a)
  BY <1>2 DEF DispatchTo
<1>3. CASE SpawnerCancels
  BY <1>3 DEF SpawnerCancels
<1>4. CASE \E a \in Actors : RunEmission(a)
  BY <1>4 DEF RunEmission, Busy, Interruptible
<1>5. CASE RegisterAcceptor
  BY <1>5 DEF RegisterAcceptor, Go, Register, UnchangedEmission
<1>6. CASE SpawnAcceptor
  BY <1>6 DEF SpawnAcceptor, Go, Install, UnchangedEmission
<1>7. CASE StartAcceptor
  BY <1>7 DEF StartAcceptor, CoAwait, End, Go, Await, UnchangedEmission
<1>8. CASE ResumeResolving
  BY <1>8 DEF ResumeResolving, LoopTest, End, Go, Await, UnchangedEmission
<1>9. CASE ResumeAccepting
  BY <1>9 DEF ResumeAccepting, LoopTest, CoAwait, End, Go, Await,
     UnchangedEmission
<1>10. CASE ResumeBackoff
  BY <1>10 DEF ResumeBackoff, LoopTest, End, Go, Await, UnchangedEmission
<1>11. CASE Loop
  BY <1>11 DEF Loop, LoopTest, End, Go, Await, UnchangedEmission
<1>12. CASE \E c \in Conns : Admit(c)
  BY <1>12 DEF Admit, Register, UnchangedEmission
<1>13. CASE \E c \in Conns : SpawnSession(c)
  BY <1>13 DEF SpawnSession, Install, UnchangedEmission
<1>14. CASE \E a \in Actors : Release(a)
  BY <1>14 DEF Release, Go, LeavesPool, UnchangedEmission
<1>15. CASE \E c \in Conns : StartConnection(c)
  BY <1>15 DEF StartConnection, Go, Await, UnchangedEmission
<1>16. CASE \E c \in Conns : ResumeHandshake(c)
  BY <1>16 DEF ResumeHandshake, Go, UnchangedEmission
<1>17. CASE \E c \in Conns : SessionEnds(c)
  BY <1>17 DEF SessionEnds, Go, UnchangedEmission
<1>18. CASE \E a \in Actors, p \in Places, results \in SUBSET Results : Complete(a, p, results)
  BY <1>18 DEF Complete, UnchangedEmission
<1>19. CASE UNCHANGED vars
  BY <1>19 DEF vars
<1> QED
  BY StepCases, <1>1, <1>2, <1>3, <1>4, <1>5, <1>6, <1>7, <1>8, <1>9,
     <1>10, <1>11, <1>12, <1>13, <1>14, <1>15, <1>16, <1>17, <1>18, <1>19

(* Every step leaves at most one late connection.                          *)
LEMMA StepLateness ==
  ASSUME Types, Lateness, [Next]_vars
  PROVE  Lateness'
<1> USE ActorsDiffer DEF Types, Places, Lateness
<1>1. CASE \E e \in Emitters : BeginEmit(e)
  BY <1>1 DEF BeginEmit, Snapshot
<1>2. CASE \E e \in Emitters, a \in Actors : DispatchTo(e, a)
  BY <1>2 DEF DispatchTo
<1>3. CASE SpawnerCancels
  BY <1>3 DEF SpawnerCancels
<1>4. CASE \E a \in Actors : RunEmission(a)
  BY <1>4 DEF RunEmission, Busy, Interruptible
<1>5. CASE RegisterAcceptor
  BY <1>5 DEF RegisterAcceptor, Go, Register, UnchangedEmission
<1>6. CASE SpawnAcceptor
  BY <1>6 DEF SpawnAcceptor, Go, Install, UnchangedEmission
<1>7. CASE StartAcceptor
  BY <1>7 DEF StartAcceptor, CoAwait, End, Go, Await, UnchangedEmission
<1>8. CASE ResumeResolving
  BY <1>8 DEF ResumeResolving, LoopTest, End, Go, Await, UnchangedEmission
<1>9. CASE ResumeAccepting
  BY <1>9 DEF ResumeAccepting, LoopTest, CoAwait, End, Go, Await,
     UnchangedEmission
<1>10. CASE ResumeBackoff
  BY <1>10 DEF ResumeBackoff, LoopTest, End, Go, Await, UnchangedEmission
<1>11. CASE Loop
  BY <1>11 DEF Loop, LoopTest, End, Go, Await, UnchangedEmission
<1>12. CASE \E c \in Conns : Admit(c)
  BY <1>12 DEF Admit, Register, UnchangedEmission
<1>13. CASE \E c \in Conns : SpawnSession(c)
  BY <1>13 DEF SpawnSession, Install, UnchangedEmission
<1>14. CASE \E a \in Actors : Release(a)
  BY <1>14 DEF Release, Go, LeavesPool, UnchangedEmission
<1>15. CASE \E c \in Conns : StartConnection(c)
  BY <1>15 DEF StartConnection, Go, Await, UnchangedEmission
<1>16. CASE \E c \in Conns : ResumeHandshake(c)
  BY <1>16 DEF ResumeHandshake, Go, UnchangedEmission
<1>17. CASE \E c \in Conns : SessionEnds(c)
  BY <1>17 DEF SessionEnds, Go, UnchangedEmission
<1>18. CASE \E a \in Actors, p \in Places, results \in SUBSET Results : Complete(a, p, results)
  BY <1>18 DEF Complete, UnchangedEmission
<1>19. CASE UNCHANGED vars
  BY <1>19 DEF vars
<1> QED
  BY StepCases, <1>1, <1>2, <1>3, <1>4, <1>5, <1>6, <1>7, <1>8, <1>9,
     <1>10, <1>11, <1>12, <1>13, <1>14, <1>15, <1>16, <1>17, <1>18, <1>19

-----------------------------------------------------------------------------
LEMMA InitTypes == Init => Types /\ Pool /\ Delivered /\ Lateness
<1> SUFFICES ASSUME Init PROVE Types /\ Pool /\ Delivered /\ Lateness
  OBVIOUS
<1>1. Types
  BY DEF Init, Types, Places, Results
<1>2. Pool
  BY DEF Init, Pool
<1>3. Delivered /\ Lateness
  BY DEF Init, Delivered, Lateness
<1> QED
  BY <1>1, <1>2, <1>3

(* Every variable stays within its domain and the pool holds exactly the   *)
(* acceptor and the connections whose coroutine is not done with.          *)
THEOREM TypeCorrect == Spec => []TypeOK
<1>1. Init => Types /\ Pool
  BY InitTypes
<1>2. (Types /\ Pool) /\ [Next]_vars => (Types /\ Pool)'
  BY StepTypes, StepPool
<1>3. Types /\ Pool => TypeOK
  BY DEF Types, Pool, TypeOK, Results
<1> QED
  BY <1>1, <1>2, <1>3, PTL DEF Spec

(* However emissions, strands and the pool interleave, an emission reaches *)
(* every coroutine whose handler was in the pool when it looked.           *)
THEOREM EveryEmissionArrives == Spec => []EmissionsArrive
<1> DEFINE Inv == Types /\ Pool /\ Delivered
<1>1. Init => Inv
  BY InitTypes
<1>2. Inv /\ [Next]_vars => Inv'
  BY StepTypes, StepPool, StepDelivered
<1>3. Inv => EmissionsArrive
  BY DEF Delivered, EmissionsArrive
<1> QED
  BY <1>1, <1>2, <1>3, PTL DEF Spec

(* A cancelled acceptor takes in at most one more connection.              *)
THEOREM OneLateConnection == Spec => []AtMostOneLate
<1> DEFINE Inv == Types /\ Pool /\ Lateness
<1>1. Init => Inv
  BY InitTypes
<1>2. Inv /\ [Next]_vars => Inv'
  BY StepTypes, StepPool, StepLateness
<1>3. Inv => AtMostOneLate
  BY DEF Lateness, AtMostOneLate
<1> QED
  BY <1>1, <1>2, <1>3, PTL DEF Spec

===============================================================================
