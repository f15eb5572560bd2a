----------------------------- MODULE BodiesProofs -----------------------------
(***************************************************************************)
(* Theorems about the bodies that are written and read piece by piece.     *)
(*                                                                         *)
(* AsyncGenerator and ChunkedResponse, for any number of frames, values    *)
(* and pieces of metadata: what reaches the session, and what becomes of a *)
(* frame that was destroyed.                                               *)
(*                                                                         *)
(* Multipart, for any bodies, any pieces they arrive in and any calls: the *)
(* program is given what the grammar says is there, and no more.           *)
(***************************************************************************)
EXTENDS ChunkedResponse, Multipart, WellFoundedInduction, TLAPS

Frame ==
  [body : {"unborn", "fresh", "yield", "await", "flat", "done", "destroyed"},
   inner : Frames \cup {0}, outer : Frames \cup {0}, thrown : BOOLEAN, handler : BOOLEAN,
   posted : 0..Nothing, driver : {"none", "starting", "waiting", "resumed", "aborted"},
   got : 0..Nothing, op : {"none", "running", "ok", "failed"},
   driverSignalled : BOOLEAN, opSignalled : BOOLEAN, forwarder : BOOLEAN]

(* The invariant speaks of frames F and of where the session c is, so that *)
(* it can be stated of the frames in the middle of a step, too.            *)

WaitsIn(F, c, g) == IF g = 1 THEN c = "waiting" ELSE F[g].driver = "waiting"

(* The frames that exist are nested in each other, each in the next lower  *)
(* one; frames are born in the order of their numbers.                     *)
Nested(F) ==
  /\ \A h \in Frames \ {1} :
       Exists(F, h) => /\ F[h].outer \in 1..h - 1
                       /\ Exists(F, F[h].outer)
                       /\ F[F[h].outer].inner = h
  /\ \A g \in Frames :
       (Exists(F, g) /\ F[g].inner # 0) => /\ F[g].body = "flat"
                                           /\ F[g].inner \in g + 1..MaxFrames
                                           /\ Exists(F, F[g].inner)
                                           /\ F[F[g].inner].outer = g
  /\ \A g, k \in Frames : (Exists(F, g) /\ Exists(F, k) /\ g < k) => F[g].inner \in g + 1..k
  /\ \A j, k \in Frames : (F[j].body = "unborn" /\ j < k) => F[k].body = "unborn"

(* The outermost frame exists as long as the session does not leave it.    *)
Rooted(F, c) ==
  /\ c \in {"idle", "waiting"} <=> Exists(F, 1)
  /\ \A g \in Frames : Exists(F, g) => Exists(F, 1)
  /\ F[1].driver = "none" /\ F[1].body # "unborn"

(* Nothing moves in a frame that is not born; a destroyed one cannot be    *)
(* reached, and its driver, if there is one, was told to stop.             *)
Gone(F) ==
  \A g \in Frames :
    /\ F[g].outer \in 0..g - 1
    /\ F[g].body = "unborn" => /\ F[g].driver = "none" /\ F[g].posted = Nothing
                               /\ F[g].op = "none" /\ F[g].inner = 0
    /\ F[g].body = "destroyed" => F[g].driverSignalled /\ ~F[g].handler /\ ~F[g].forwarder

(* A driver works for a frame that waits, or that is destroyed.            *)
Driven(F, c) ==
  \A g \in Frames :
    F[g].driver # "none" =>
      /\ F[g].outer \in 1..g - 1
      /\ Exists(F, F[g].outer) => Exists(F, g) /\ WaitsIn(F, c, F[g].outer)
      /\ F[g].driver = "resumed" => F[g].got # Nothing

(* How a body is suspended.                                                *)
Settled(F, c, g) ==
  /\ F[g].handler <=> F[g].body = "await"
  /\ F[g].op # "none" <=> F[g].body = "await"
  /\ F[g].posted # Nothing => F[g].body \in {"yield", "done"}
  /\ F[g].handler \/ F[g].posted # Nothing => WaitsIn(F, c, g)
  /\ F[g].body = "flat" /\ F[g].inner = 0 =>
       g # 1 /\ F[g].driver = "resumed" /\ F[g].got = End /\ F[g].thrown

(* Whoever waits for a frame is held by its promise, in the queue, or by   *)
(* the driver of its inner frame.                                          *)
HeldIn(F, c, g) ==
  WaitsIn(F, c, g) => \/ F[g].handler
                      \/ F[g].posted # Nothing
                      \/ F[g].inner # 0 /\ F[F[g].inner].driver # "none"

(* Control is at one frame at most, and at none when the session does not  *)
(* wait.                                                                   *)
Busy(F, g) ==
  Exists(F, g) /\ \/ F[g].handler \/ F[g].posted # Nothing
                  \/ F[g].driver \in {"starting", "resumed", "aborted"}

OneBusy(F, c) ==
  /\ \A g, h \in Frames : Busy(F, g) /\ Busy(F, h) => g = h
  /\ \A g \in Frames : Busy(F, g) => c = "waiting"

(* The value on its way is the last one made; all others were taken.       *)
Carries(F, g, v) ==
  Exists(F, g) /\ (F[g].posted = v \/ (F[g].driver = "resumed" /\ F[g].got = v))

InOrder(t) == t \in Seq(Nat) /\ \A i \in 1..Len(t) : t[i] = i

Values(F, c, n, t) ==
  /\ InOrder(t)
  /\ \A g \in Frames, v \in 1..MaxValues : Carries(F, g, v) => v = n /\ Len(t) + 1 = n
  /\ (c \in {"idle", "waiting"} /\ \A g \in Frames, v \in 1..MaxValues : ~Carries(F, g, v)) =>
       Len(t) = n

(* An exception is on its way to the session until the session has it.     *)
Fails(F, g) ==
  \/ Carries(F, g, End) /\ F[g].thrown
  \/ Exists(F, g) /\ F[g].driver = "aborted"

Failures(F, c, n, t, e) ==
  /\ (e /\ c \in {"idle", "waiting"}) => \E g \in Frames : Fails(F, g)
  /\ c = "ended" => ~e /\ Len(t) = n

Consumers == {"idle", "waiting", "ended", "failed", "left"}

(* All that does not concern values and failures. *)
Standing(F, c) ==
  /\ F \in [Frames -> Frame] /\ c \in Consumers
  /\ Nested(F) /\ Rooted(F, c) /\ Gone(F) /\ Driven(F, c)
  /\ \A g \in Frames : Exists(F, g) => Settled(F, c, g) /\ HeldIn(F, c, g)
  /\ OneBusy(F, c)

Sound(F, c, n, t, e) ==
  /\ Standing(F, c) /\ n \in 0..MaxValues /\ e \in BOOLEAN
  /\ Values(F, c, n, t) /\ Failures(F, c, n, t, e)

GenInv == Sound(frame, consumer, made, taken, escaped)

-----------------------------------------------------------------------------
(* The middle of a step: control is at frame g, which is waited for, and   *)
(* at no other.                                                            *)
Paused(F, c, g) ==
  /\ F \in [Frames -> Frame] /\ c = "waiting"
  /\ Nested(F) /\ Rooted(F, c) /\ Gone(F) /\ Driven(F, c)
  /\ Exists(F, g) /\ WaitsIn(F, c, g)
  /\ F[g].posted = Nothing /\ F[g].op = "none"
  /\ F[g].inner # 0 => F[F[g].inner].driver = "none"
  /\ \A h \in Frames \ {g} :
       Exists(F, h) => Settled(F, c, h) /\ HeldIn(F, c, h) /\ ~Busy(F, h)

(* The body of g is about to run.                                          *)
Running(F, c, n, t, e, g) ==
  /\ Paused(F, c, g) /\ n \in 0..MaxValues /\ InOrder(t) /\ Len(t) = n /\ e = FALSE
  /\ F[g].handler /\ F[g].inner = 0

(* Frame g is about to be asked for its next value.                        *)
Asked(F, c, n, t, e, g) ==
  /\ Paused(F, c, g) /\ n \in 0..MaxValues /\ InOrder(t) /\ Len(t) = n /\ e = FALSE
  /\ ~F[g].handler /\ F[g].body # "await"
  /\ F[g].body = "flat" => F[g].inner # 0

(* Whoever waits for g is about to be given v.                             *)
Giving(F, c, n, t, e, g, v) ==
  /\ Paused(F, c, g) /\ n \in 0..MaxValues /\ InOrder(t) /\ v \in 0..MaxValues
  /\ e \in BOOLEAN /\ ~F[g].handler /\ F[g].body # "await"
  /\ v # End => v = n /\ Len(t) + 1 = n /\ ~e
  /\ v = End => Len(t) = n /\ (e => F[g].thrown)
  /\ F[g].body = "flat" /\ F[g].inner = 0 => v = End /\ F[g].thrown

(* Frames that differ in nothing that the nesting depends on.              *)
SameShape(F, G) ==
  \A k \in Frames :
    /\ G[k].inner = F[k].inner /\ G[k].outer = F[k].outer
    /\ (G[k].body = "unborn") = (F[k].body = "unborn") /\ Exists(G, k) = Exists(F, k)
    /\ F[k].inner # 0 /\ F[k].body = "flat" => G[k].body = "flat"

LEMMA ShapeNested ==
  ASSUME NEW F, NEW G, Nested(F), SameShape(F, G), F \in [Frames -> Frame],
         \A k \in Frames : Exists(F, k) /\ F[k].inner # 0 => F[k].inner \in Frames
  PROVE  Nested(G)
<1>1. \A h \in Frames \ {1} :
        Exists(G, h) => /\ G[h].outer \in 1..h - 1
                        /\ Exists(G, G[h].outer)
                        /\ G[G[h].outer].inner = h
  BY GeneratorAssumption DEF Nested, SameShape, Frames
<1>2. \A g \in Frames :
        (Exists(G, g) /\ G[g].inner # 0) => /\ G[g].body = "flat"
                                            /\ G[g].inner \in g + 1..MaxFrames
                                            /\ Exists(G, G[g].inner)
                                            /\ G[G[g].inner].outer = g
  BY DEF Nested, SameShape
<1>3. \A g, k \in Frames : (Exists(G, g) /\ Exists(G, k) /\ g < k) => G[g].inner \in g + 1..k
  BY DEF Nested, SameShape
<1>4. \A j, k \in Frames : (G[j].body = "unborn" /\ j < k) => G[k].body = "unborn"
  BY DEF Nested, SameShape
<1> QED
  BY <1>1, <1>2, <1>3, <1>4 DEF Nested

(* Frame g has suspended its body, otherwise than on an inner frame, or    *)
(* has ended it.                                                           *)
Suspends(F, G, g) ==
  /\ G \in [Frames -> Frame] /\ \A k \in Frames \ {g} : G[k] = F[k]
  /\ G[g].body \in {"yield", "done", "await"}
  /\ G[g].inner = F[g].inner /\ G[g].outer = F[g].outer /\ G[g].driver = F[g].driver
  /\ G[g].got = F[g].got /\ G[g].driverSignalled = F[g].driverSignalled

LEMMA SuspendsKeeps ==
  ASSUME NEW F, NEW c, NEW g \in Frames, NEW G, Paused(F, c, g), F[g].inner = 0,
         Suspends(F, G, g), Settled(G, c, g), HeldIn(G, c, g)
  PROVE  /\ Standing(G, c)
         /\ \A h \in Frames \ {g} : ~Busy(G, h)
         /\ Exists(G, g) /\ G[g].driver \notin {"starting", "resumed", "aborted"}
<1> USE DEF Paused
<1>1. /\ G[g].body \in {"yield", "done", "await"}
      /\ G[g].inner = 0 /\ G[g].outer = F[g].outer /\ G[g].driver = F[g].driver
      /\ G[g].driverSignalled = F[g].driverSignalled
      /\ \A k \in Frames \ {g} : G[k] = F[k]
  BY DEF Suspends
<1>2. F[g].body \notin {"unborn", "destroyed"}
  BY DEF Exists
<1>3. SameShape(F, G)
  BY <1>1, <1>2 DEF SameShape, Exists
<1>4. \A k \in Frames : Exists(G, k) <=> Exists(F, k)
  BY <1>3 DEF SameShape
<1>5. Nested(G)
  <2>1. \A k \in Frames : Exists(F, k) /\ F[k].inner # 0 => F[k].inner \in Frames
    BY DEF Nested, Frames
  <2> QED
    BY <1>3, <2>1, ShapeNested
<1>6. \A k \in Frames : WaitsIn(G, c, k) <=> WaitsIn(F, c, k)
  BY <1>1 DEF WaitsIn
<1>7. Rooted(G, c)
  BY <1>1, <1>2, <1>4, GeneratorAssumption DEF Rooted, Frames
<1>8. Gone(G)
  BY <1>1, <1>2 DEF Gone
<1>9. Driven(G, c)
  <2>1. \A k \in Frames : G[k].driver = F[k].driver /\ G[k].outer = F[k].outer
    BY <1>1
  <2>2. \A k \in Frames : G[k].got = F[k].got
    BY DEF Suspends
  <2>3. \A k \in Frames : \A o \in 1..k - 1 : o \in Frames
    BY GeneratorAssumption DEF Frames
  <2> QED
    BY <1>4, <1>6, <2>1, <2>2, <2>3 DEF Driven
<1>10. ASSUME NEW h \in Frames \ {g}, Exists(G, h)
       PROVE  Settled(G, c, h) /\ HeldIn(G, c, h)
  <2>1. Settled(F, c, h) /\ HeldIn(F, c, h) /\ G[h] = F[h]
    BY <1>1, <1>4, <1>10
  <2>2. F[h].inner # 0 => F[h].inner \in Frames
    BY <1>4, <1>10 DEF Nested, Frames
  <2>3. \A k \in Frames : G[k].driver = F[k].driver
    BY <1>1
  <2> QED
    BY <1>6, <2>1, <2>2, <2>3 DEF Settled, HeldIn
<1>11. \A h \in Frames \ {g} : ~Busy(G, h)
  BY <1>1, <1>4 DEF Busy
<1>12. OneBusy(G, c)
  BY <1>11 DEF OneBusy
<1>13. G[g].driver \notin {"starting", "resumed", "aborted"}
  BY <1>1 DEF WaitsIn, Rooted
<1>14. Exists(G, g)
  BY <1>4
<1>15. G \in [Frames -> Frame] /\ c \in Consumers
  BY DEF Suspends, Consumers
<1> QED
  BY <1>5, <1>7, <1>8, <1>9, <1>10, <1>11, <1>12, <1>13, <1>14, <1>15 DEF Standing

(* The body suspends with a value, or ends: what it held is queued.        *)
LEMMA QueuesKeeps ==
  ASSUME NEW F, NEW c, NEW g \in Frames, NEW G, Paused(F, c, g), F[g].inner = 0,
         Suspends(F, G, g), G[g].body \in {"yield", "done"}, ~G[g].handler,
         G[g].posted \in 0..MaxValues, G[g].op = "none"
  PROVE  /\ Standing(G, c)
         /\ \A h \in Frames, w \in 0..MaxValues :
              Carries(G, h, w) <=> h = g /\ w = G[g].posted
         /\ \A h \in Frames : Fails(G, h) <=> h = g /\ G[g].posted = End /\ G[g].thrown
<1>1. G[g].posted # Nothing
  BY GeneratorAssumption DEF Nothing
<1>2. WaitsIn(G, c, g)
  BY DEF Paused, Suspends, WaitsIn
<1>3. Settled(G, c, g) /\ HeldIn(G, c, g)
  BY <1>1, <1>2 DEF Settled, HeldIn
<1>4. /\ Standing(G, c)
      /\ \A h \in Frames \ {g} : ~Busy(G, h)
      /\ Exists(G, g) /\ G[g].driver \notin {"starting", "resumed", "aborted"}
  BY <1>3, SuspendsKeeps
<1>5. \A h \in Frames \ {g}, w \in 0..MaxValues : ~Carries(G, h, w)
  BY <1>4, GeneratorAssumption DEF Busy, Carries, Nothing
<1>6. \A w \in 0..MaxValues : Carries(G, g, w) <=> w = G[g].posted
  BY <1>4 DEF Carries
<1>7. End \in 0..MaxValues
  BY GeneratorAssumption DEF End
<1>8. \A h \in Frames \ {g} : ~Fails(G, h)
  BY <1>4, <1>5, <1>7 DEF Fails, Busy
<1>9. Fails(G, g) <=> G[g].posted = End /\ G[g].thrown
  BY <1>4, <1>6, <1>7 DEF Fails
<1> QED
  BY <1>4, <1>5, <1>6, <1>8, <1>9

(* Nothing is on its way where nobody is busy, or one who carries nothing. *)
LEMMA Quiet ==
  ASSUME NEW F, NEW g \in Frames, \A h \in Frames \ {g} : ~Busy(F, h),
         F[g].posted = Nothing, F[g].driver \notin {"resumed", "aborted"}
  PROVE  /\ \A h \in Frames, w \in 0..MaxValues : ~Carries(F, h, w)
         /\ \A h \in Frames : ~Fails(F, h)
<1>1. \A h \in Frames, w \in 0..MaxValues : ~Carries(F, h, w)
  BY GeneratorAssumption DEF Carries, Busy, Nothing
<1>2. End \in 0..MaxValues
  BY GeneratorAssumption DEF End
<1>3. \A h \in Frames : ~Fails(F, h)
  BY <1>1, <1>2 DEF Fails, Busy
<1> QED
  BY <1>1, <1>3

(* The body awaits an operation. *)
LEMMA AwaitKeeps ==
  ASSUME NEW F, NEW c, NEW g \in Frames, NEW G, Paused(F, c, g), F[g].inner = 0,
         Suspends(F, G, g), G[g].body = "await", G[g].handler,
         G[g].posted = Nothing, G[g].op # "none"
  PROVE  /\ Standing(G, c)
         /\ \A h \in Frames, w \in 0..MaxValues : ~Carries(G, h, w)
<1>1. WaitsIn(G, c, g)
  BY DEF Paused, Suspends, WaitsIn
<1>2. Settled(G, c, g) /\ HeldIn(G, c, g)
  BY <1>1 DEF Settled, HeldIn
<1>3. /\ Standing(G, c)
      /\ \A h \in Frames \ {g} : ~Busy(G, h)
      /\ Exists(G, g) /\ G[g].driver \notin {"starting", "resumed", "aborted"}
  BY <1>2, SuspendsKeeps
<1> QED
  BY <1>3, Quiet

(* The body splices in an inner generator, and hands over what it held. *)
LEMMA FlattenKeeps ==
  ASSUME NEW F, NEW c, NEW g \in Frames, NEW h \in Frames, NEW G, Paused(F, c, g),
         F[g].inner = 0, F[h].body = "unborn", \A j \in 1..h - 1 : F[j].body # "unborn",
         G \in [Frames -> Frame], \A k \in Frames \ {g, h} : G[k] = F[k],
         G[g].body = "flat", G[g].inner = h, ~G[g].handler, G[g].outer = F[g].outer,
         G[g].posted = Nothing, G[g].driver = F[g].driver, G[g].op = "none",
         G[g].driverSignalled = F[g].driverSignalled, G[g].got = F[g].got,
         G[h].body = "fresh", G[h].inner = 0, G[h].outer = g, ~G[h].handler,
         G[h].posted = Nothing, G[h].op = "none", G[h].driver = "starting"
  PROVE  /\ Standing(G, c)
         /\ \A k \in Frames, w \in 0..MaxValues : ~Carries(G, k, w)
<1> USE DEF Paused
<1>1. F[g].body \notin {"unborn", "destroyed"}
  BY DEF Exists
<1>2. g < h /\ g # h /\ h # 1
  <2>1. g \in 1..MaxFrames /\ h \in 1..MaxFrames /\ MaxFrames \in Nat
    BY GeneratorAssumption DEF Frames
  <2>2. g # h
    BY <1>1
  <2>3. ~(h < g)
    BY <1>1 DEF Nested
  <2> QED
    BY <2>1, <2>2, <2>3
<1>3. /\ \A k \in Frames \ {h} : Exists(G, k) <=> Exists(F, k)
      /\ Exists(G, h) /\ ~Exists(F, h) /\ Exists(G, g)
  BY <1>1, <1>2 DEF Exists
<1>4. \A k \in Frames : Exists(F, k) => ~(g < k)
  BY DEF Nested, Frames
<1>5. Nested(G)
  <2>1. ASSUME NEW k \in Frames \ {1}, Exists(G, k)
        PROVE  G[k].outer \in 1..k - 1 /\ Exists(G, G[k].outer) /\ G[G[k].outer].inner = k
    <3>1. CASE k = h
      <4>1. g \in 1..h - 1
        BY <1>2, GeneratorAssumption DEF Frames
      <4> QED
        BY <1>3, <3>1, <4>1
    <3>2. CASE k # h
      <4>1. F[k].outer \in 1..k - 1 /\ Exists(F, F[k].outer) /\ F[F[k].outer].inner = k
        BY <1>3, <2>1, <3>2 DEF Nested
      <4>2. F[k].outer \in Frames
        BY <4>1, GeneratorAssumption DEF Frames
      <4>3. F[k].outer # g
        BY <4>1, GeneratorAssumption DEF Frames
      <4>4. F[k].outer # h
        BY <1>3, <4>1
      <4>5. G[k].outer = F[k].outer
        BY <3>2, <2>1
      <4> QED
        BY <1>3, <4>1, <4>2, <4>3, <4>4, <4>5
    <3> QED
      BY <3>1, <3>2
  <2>2. ASSUME NEW k \in Frames, Exists(G, k), G[k].inner # 0
        PROVE  /\ G[k].body = "flat" /\ G[k].inner \in k + 1..MaxFrames
               /\ Exists(G, G[k].inner) /\ G[G[k].inner].outer = k
    <3>1. CASE k = g
      <4>1. h \in g + 1..MaxFrames
        BY <1>2, GeneratorAssumption DEF Frames
      <4> QED
        BY <1>3, <3>1, <4>1
    <3>2. CASE k # g /\ k # h
      <4>1. /\ F[k].body = "flat" /\ F[k].inner \in k + 1..MaxFrames
            /\ Exists(F, F[k].inner) /\ F[F[k].inner].outer = k
        BY <1>3, <2>2, <3>2 DEF Nested
      <4>2. F[k].inner \in Frames
        BY <4>1, GeneratorAssumption DEF Frames
      <4>3. F[k].inner # h
        BY <1>3, <4>1
      <4>4. G[F[k].inner].outer = F[F[k].inner].outer /\ Exists(G, F[k].inner)
        BY <1>3, <4>1, <4>2, <4>3
      <4> QED
        BY <3>2, <4>1, <4>4
    <3> QED
      BY <2>2, <3>1, <3>2
  <2>3. ASSUME NEW j \in Frames, NEW k \in Frames, Exists(G, j), Exists(G, k), j < k
        PROVE  G[j].inner \in j + 1..k
    <3>1. CASE k # h
      <4>1. Exists(F, k) /\ ~(g < k)
        BY <1>3, <1>4, <2>3, <3>1
      <4>2. j # g
        BY <4>1, <2>3
      <4>3. j # h
        BY <4>1, <2>3, <1>2, GeneratorAssumption DEF Frames
      <4> QED
        BY <1>3, <2>3, <3>1, <4>1, <4>2, <4>3 DEF Nested
    <3>2. CASE k = h
      <4>0. j # h
        BY <2>3, <3>2, GeneratorAssumption DEF Frames
      <4>1. Exists(F, j) /\ ~(g < j)
        BY <1>3, <1>4, <2>3, <4>0
      <4>2. CASE j = g
        <5>1. h \in g + 1..h
          BY <1>2, GeneratorAssumption DEF Frames
        <5> QED
          BY <3>2, <4>2, <5>1
      <4>3. CASE j # g
        <5>1. j < g
          BY <4>0, <4>1, <4>3, GeneratorAssumption DEF Frames
        <5>2. G[j].inner = F[j].inner /\ F[j].inner \in j + 1..g
          BY <4>0, <4>1, <4>3, <5>1 DEF Nested
        <5> QED
          BY <1>2, <3>2, <5>2, GeneratorAssumption DEF Frames
      <4> QED
        BY <4>2, <4>3
    <3> QED
      BY <3>1, <3>2
  <2>4. ASSUME NEW j \in Frames, NEW k \in Frames, G[j].body = "unborn", j < k
        PROVE  G[k].body = "unborn"
    <3>1. F[j].body = "unborn" /\ j # g /\ j # h
      BY <2>4, <1>2
    <3>2. k # g
      BY <1>1, <2>4, <3>1 DEF Nested
    <3>3. k # h
      BY <2>4, <3>1, GeneratorAssumption DEF Frames
    <3> QED
      BY <2>4, <3>1, <3>2, <3>3 DEF Nested
  <2> QED
    BY <2>1, <2>2, <2>3, <2>4 DEF Nested
<1>6. \A k \in Frames \ {h} : WaitsIn(G, c, k) <=> WaitsIn(F, c, k)
  BY <1>2 DEF WaitsIn
<1>7. Rooted(G, c)
  <2>1. 1 \in Frames
    BY GeneratorAssumption DEF Frames
  <2>2. Exists(G, 1) <=> Exists(F, 1)
    BY <1>2, <1>3, <2>1
  <2>3. Exists(F, 1)
    BY DEF Rooted
  <2>4. G[1].driver = F[1].driver /\ G[1].body # "unborn"
    BY <1>2, <2>1 DEF Rooted
  <2> QED
    BY <2>2, <2>3, <2>4 DEF Rooted
<1>8. Gone(G)
  <2>1. g \in 0..h - 1
    BY <1>2, GeneratorAssumption DEF Frames
  <2> QED
    BY <1>1, <1>2, <2>1 DEF Gone
<1>9. Driven(G, c)
  <2>1. ASSUME NEW k \in Frames, G[k].driver # "none", k # h
        PROVE  /\ G[k].outer \in 1..k - 1
               /\ Exists(G, G[k].outer) => Exists(G, k) /\ WaitsIn(G, c, G[k].outer)
               /\ G[k].driver = "resumed" => G[k].got # Nothing
    <3>1. G[k].driver = F[k].driver /\ G[k].outer = F[k].outer /\ G[k].got = F[k].got
      BY <2>1
    <3>2. /\ F[k].outer \in 1..k - 1
          /\ Exists(F, F[k].outer) => Exists(F, k) /\ WaitsIn(F, c, F[k].outer)
          /\ F[k].driver = "resumed" => F[k].got # Nothing
      BY <2>1, <3>1 DEF Driven
    <3>3. F[k].outer \in Frames
      BY <3>2, GeneratorAssumption DEF Frames
    <3>4. F[k].outer # h
      <4>1. SUFFICES ASSUME h < k PROVE FALSE
        BY <3>2, GeneratorAssumption DEF Frames
      <4>2. F[k].body = "unborn"
        BY <4>1 DEF Nested
      <4> QED
        BY <2>1, <3>1, <4>2 DEF Gone
    <3> QED
      BY <1>3, <1>6, <2>1, <3>1, <3>2, <3>3, <3>4
  <2>2. g \in 1..h - 1
    BY <1>2, GeneratorAssumption DEF Frames
  <2>3. WaitsIn(G, c, g)
    BY <1>2, <1>6
  <2> QED
    BY <1>3, <2>1, <2>2, <2>3 DEF Driven
<1>10. ASSUME NEW k \in Frames \ {g, h}, Exists(G, k)
       PROVE  Settled(G, c, k) /\ HeldIn(G, c, k)
  <2>1. Settled(F, c, k) /\ HeldIn(F, c, k) /\ G[k] = F[k]
    BY <1>3, <1>10
  <2>2. WaitsIn(G, c, k) <=> WaitsIn(F, c, k)
    BY <1>6
  <2>3. Settled(G, c, k)
    BY <2>1, <2>2 DEF Settled
  <2>4. F[k].inner # 0 => F[k].inner \in Frames /\ F[k].inner # h
    <3>1. F[k].inner # 0 => F[k].inner \in k + 1..MaxFrames /\ Exists(F, F[k].inner)
      BY <1>3, <1>10 DEF Nested
    <3> QED
      BY <1>3, <3>1, GeneratorAssumption DEF Frames
  <2>5. \A j \in Frames \ {h} : G[j].driver = F[j].driver
    BY <1>2
  <2>6. HeldIn(G, c, k)
    BY <2>1, <2>2, <2>4, <2>5 DEF HeldIn
  <2> QED
    BY <2>3, <2>6
<1>11. Settled(G, c, g) /\ HeldIn(G, c, g)
  BY <1>2 DEF Settled, HeldIn, Frames
<1>12. Settled(G, c, h) /\ HeldIn(G, c, h)
  BY <1>2 DEF Settled, HeldIn, WaitsIn
<1>13. \A k \in Frames \ {h} : ~Busy(G, k)
  <2>1. \A k \in Frames \ {g, h} : ~Busy(G, k)
    BY <1>3 DEF Busy
  <2>2. G[g].driver \notin {"starting", "resumed", "aborted"}
    BY <1>2 DEF WaitsIn, Rooted
  <2>3. ~Busy(G, g)
    BY <2>2 DEF Busy
  <2> QED
    BY <2>1, <2>3
<1>14. OneBusy(G, c)
  BY <1>13 DEF OneBusy
<1>15. Standing(G, c)
  <2>1. \A k \in Frames : Exists(G, k) => Settled(G, c, k) /\ HeldIn(G, c, k)
    BY <1>10, <1>11, <1>12
  <2>2. c \in Consumers
    BY DEF Consumers
  <2> QED
    BY <1>5, <1>7, <1>8, <1>9, <1>14, <2>1, <2>2 DEF Standing
<1> QED
  BY <1>13, <1>15, Quiet

(* The outer frame asks its inner frame for its next value. *)
LEMMA DriveKeeps ==
  ASSUME NEW F, NEW c, NEW g \in Frames, NEW h, NEW G, Paused(F, c, g),
         h = F[g].inner, h # 0, ~F[g].handler, G \in [Frames -> Frame],
         \A k \in Frames \ {h} : G[k] = F[k],
         G[h].body = F[h].body, G[h].inner = F[h].inner, G[h].outer = F[h].outer,
         G[h].handler = F[h].handler, G[h].posted = F[h].posted, G[h].op = F[h].op,
         G[h].thrown = F[h].thrown, G[h].driver = "starting"
  PROVE  /\ Standing(G, c) /\ h \in Frames
         /\ \A k \in Frames, w \in 0..MaxValues : ~Carries(G, k, w)
<1> USE DEF Paused
<1>1. /\ F[g].body = "flat" /\ h \in g + 1..MaxFrames /\ Exists(F, h) /\ F[h].outer = g
  BY DEF Nested
<1>2. h \in Frames /\ g # h /\ h # 1 /\ g \in 1..h - 1
  BY <1>1, GeneratorAssumption DEF Frames
<1>3. F[h].driver = "none" /\ Settled(F, c, h) /\ ~Busy(F, h)
  BY <1>1, <1>2
<1>4. SameShape(F, G) /\ \A k \in Frames : Exists(G, k) <=> Exists(F, k)
  BY <1>2 DEF SameShape, Exists
<1>5. Nested(G)
  <2>1. \A k \in Frames : Exists(F, k) /\ F[k].inner # 0 => F[k].inner \in Frames
    BY DEF Nested, Frames
  <2> QED
    BY <1>4, <2>1, ShapeNested
<1>6. \A k \in Frames : WaitsIn(G, c, k) <=> WaitsIn(F, c, k)
  BY <1>2, <1>3 DEF WaitsIn
<1>7. Rooted(G, c)
  BY <1>2, <1>4, GeneratorAssumption DEF Rooted, Frames
<1>8. Gone(G)
  BY <1>1, <1>2 DEF Gone, Exists
<1>9. Driven(G, c)
  <2>1. \A k \in Frames : \A o \in 1..k - 1 : o \in Frames
    BY GeneratorAssumption DEF Frames
  <2> QED
    BY <1>1, <1>2, <1>4, <1>6, <2>1 DEF Driven
<1>10. ASSUME NEW k \in Frames \ {g, h}, Exists(G, k)
       PROVE  Settled(G, c, k) /\ HeldIn(G, c, k)
  <2>1. Settled(F, c, k) /\ HeldIn(F, c, k) /\ G[k] = F[k]
    BY <1>4, <1>10
  <2>2. F[k].inner # 0 => F[k].inner \in Frames
    BY <1>4, <1>10 DEF Nested, Frames
  <2>3. \A j \in Frames : F[j].driver # "none" => G[j].driver # "none"
    BY <1>2
  <2> QED
    BY <1>6, <2>1, <2>2, <2>3 DEF Settled, HeldIn
<1>11. Settled(G, c, g) /\ HeldIn(G, c, g)
  BY <1>1, <1>2 DEF Settled, HeldIn
<1>12. Settled(G, c, h) /\ HeldIn(G, c, h)
  <2>1. ~WaitsIn(F, c, h) /\ ~WaitsIn(G, c, h)
    BY <1>2, <1>3 DEF WaitsIn
  <2>2. HeldIn(G, c, h)
    BY <2>1 DEF HeldIn
  <2>3. F[h].driver # "resumed" /\ G[h].driver # "resumed"
    BY <1>3
  <2> QED
    BY <1>2, <1>3, <2>1, <2>2, <2>3 DEF Settled
<1>13. \A k \in Frames \ {h} : ~Busy(G, k)
  <2>1. \A k \in Frames \ {g, h} : ~Busy(G, k)
    BY <1>4 DEF Busy
  <2>2. G[g].driver \notin {"starting", "resumed", "aborted"}
    BY <1>2 DEF WaitsIn, Rooted
  <2>3. ~Busy(G, g)
    BY <1>2, <2>2 DEF Busy
  <2> QED
    BY <2>1, <2>3
<1>14. OneBusy(G, c)
  BY <1>13 DEF OneBusy
<1>15. Standing(G, c)
  <2>1. \A k \in Frames : Exists(G, k) => Settled(G, c, k) /\ HeldIn(G, c, k)
    BY <1>10, <1>11, <1>12
  <2>2. c \in Consumers
    BY DEF Consumers
  <2> QED
    BY <1>5, <1>7, <1>8, <1>9, <1>14, <2>1, <2>2 DEF Standing
<1>16. G[h].posted = Nothing
  BY <1>1, <1>2, <1>3 DEF Busy
<1> QED
  BY <1>2, <1>13, <1>15, <1>16, Quiet

(* A step starts from frames F and touches none that is destroyed. *)
Spares(F, G) == \A k \in Frames : F[k].body = "destroyed" => G[k] = F[k]

(* A resumed body leaves the frames as they should be. *)
LEMMA RunKeeps ==
  ASSUME NEW F, NEW g \in Frames, Running(F, consumer', made, taken', escaped, g), Run(F, g)
  PROVE  /\ Sound(frame', consumer', made', taken', escaped')
         /\ Spares(F, frame')
<1> DEFINE G == frame'
           c == consumer'
           t == taken'
<1> USE DEF Running
<1>1. Paused(F, c, g) /\ F[g].handler /\ F[g].inner = 0 /\ InOrder(t) /\ Len(t) = made
  OBVIOUS
<1>2. F \in [Frames -> Frame] /\ F[g].body \notin {"unborn", "destroyed"} /\ c = "waiting"
      /\ F[g].op = "none" /\ F[g].posted = Nothing
  BY DEF Paused, Exists
<1>3. made \in 0..MaxValues /\ escaped = FALSE
  OBVIOUS
<1>4. MaxValues \in Nat /\ End = 0 /\ Nothing = MaxValues + 1
  BY GeneratorAssumption DEF End, Nothing
<1>5. F[g] \in Frame
  BY <1>2
<1>6. ASSUME Standing(G, c), made' = made, escaped' = FALSE,
             \A h \in Frames, w \in 1..MaxValues : ~Carries(G, h, w)
      PROVE  Sound(G, c, made', t, escaped')
  <2>1. Values(G, c, made', t)
    BY <1>1, <1>6 DEF Values
  <2>2. Failures(G, c, made', t, escaped')
    BY <1>2, <1>6 DEF Failures
  <2> QED
    BY <1>3, <1>6, <2>1, <2>2 DEF Sound
<1>7. CASE YieldValue(F, g)
  <2>1. /\ made < MaxValues /\ made' = made + 1 /\ escaped' = escaped
        /\ G = [F EXCEPT ![g].body = "yield", ![g].handler = FALSE, ![g].posted = made + 1]
    BY <1>7 DEF YieldValue
  <2>2. made' \in 1..MaxValues /\ made' \in 0..MaxValues /\ made' \in 0..Nothing
    BY <1>3, <1>4, <2>1
  <2>3. G[g] = [F[g] EXCEPT !.body = "yield", !.handler = FALSE, !.posted = made']
    BY <1>2, <2>1
  <2>4. G[g] \in Frame
    BY <1>5, <2>2, <2>3, ZenonT(40) DEF Frame
  <2>5. G \in [Frames -> Frame] /\ \A k \in Frames \ {g} : G[k] = F[k]
    BY <1>2, <2>1, <2>4
  <2>6. /\ G[g].body = "yield" /\ ~G[g].handler /\ G[g].posted = made'
        /\ G[g].inner = F[g].inner /\ G[g].outer = F[g].outer /\ G[g].driver = F[g].driver
        /\ G[g].got = F[g].got /\ G[g].driverSignalled = F[g].driverSignalled
        /\ G[g].op = "none"
    BY <1>2, <1>5, <2>3 DEF Frame
  <2>7. Suspends(F, G, g)
    BY <2>5, <2>6 DEF Suspends
  <2>8. /\ Standing(G, c)
        /\ \A h \in Frames, w \in 0..MaxValues : Carries(G, h, w) <=> h = g /\ w = made'
    <3> HIDE DEF G, c
    <3> QED
      BY <1>1, <2>2, <2>6, <2>7, QueuesKeeps
  <2>9. Values(G, c, made', t)
    <3>1. \A h \in Frames, w \in 1..MaxValues : Carries(G, h, w) => w = made' /\ Len(t) + 1 = made'
      BY <1>1, <1>4, <2>1, <2>8
    <3>2. Carries(G, g, made')
      BY <2>2, <2>8
    <3> QED
      BY <1>1, <2>2, <3>1, <3>2 DEF Values
  <2>10. Failures(G, c, made', t, escaped')
    BY <1>2, <1>3, <2>1 DEF Failures
  <2>11. Spares(F, G)
    BY <1>2, <2>5 DEF Spares
  <2> QED
    BY <1>3, <2>1, <2>2, <2>8, <2>9, <2>10, <2>11 DEF Sound
<1>8. CASE Finish(F, g)
  <2>1. /\ made' = made /\ escaped' = FALSE
        /\ G = [F EXCEPT ![g].body = "done", ![g].handler = FALSE, ![g].posted = End]
    BY <1>3, <1>8 DEF Finish
  <2>2. End \in 0..MaxValues /\ End \in 0..Nothing
    BY <1>4
  <2>3. G[g] = [F[g] EXCEPT !.body = "done", !.handler = FALSE, !.posted = End]
    BY <1>2, <2>1
  <2>4. G[g] \in Frame
    BY <1>5, <2>2, <2>3, ZenonT(40) DEF Frame
  <2>5. G \in [Frames -> Frame] /\ \A k \in Frames \ {g} : G[k] = F[k]
    BY <1>2, <2>1, <2>4
  <2>6. /\ G[g].body = "done" /\ ~G[g].handler /\ G[g].posted = End
        /\ G[g].inner = F[g].inner /\ G[g].outer = F[g].outer /\ G[g].driver = F[g].driver
        /\ G[g].got = F[g].got /\ G[g].driverSignalled = F[g].driverSignalled
        /\ G[g].op = "none"
    BY <1>2, <1>5, <2>3 DEF Frame
  <2>7. Suspends(F, G, g)
    BY <2>5, <2>6 DEF Suspends
  <2>8. /\ Standing(G, c)
        /\ \A h \in Frames, w \in 0..MaxValues : Carries(G, h, w) <=> h = g /\ w = End
    <3> HIDE DEF G, c
    <3> QED
      BY <1>1, <2>2, <2>6, <2>7, QueuesKeeps
  <2>9. \A h \in Frames, w \in 1..MaxValues : ~Carries(G, h, w)
    BY <1>4, <2>8
  <2>10. Spares(F, G)
    BY <1>2, <2>5 DEF Spares
  <2> QED
    BY <1>6, <2>1, <2>8, <2>9, <2>10
<1>9. CASE Throw(F, g)
  <2>1. /\ made' = made /\ escaped' = TRUE
        /\ G = [F EXCEPT ![g].body = "done", ![g].handler = FALSE, ![g].posted = End,
                         ![g].thrown = TRUE]
    BY <1>9 DEF Throw
  <2>2. End \in 0..MaxValues /\ End \in 0..Nothing
    BY <1>4
  <2>3. G[g] = [F[g] EXCEPT !.body = "done", !.handler = FALSE, !.posted = End, !.thrown = TRUE]
    BY <1>2, <2>1
  <2>4. G[g] \in Frame
    BY <1>5, <2>2, <2>3, ZenonT(40) DEF Frame
  <2>5. G \in [Frames -> Frame] /\ \A k \in Frames \ {g} : G[k] = F[k]
    BY <1>2, <2>1, <2>4
  <2>6. /\ G[g].body = "done" /\ ~G[g].handler /\ G[g].posted = End /\ G[g].thrown
        /\ G[g].inner = F[g].inner /\ G[g].outer = F[g].outer /\ G[g].driver = F[g].driver
        /\ G[g].got = F[g].got /\ G[g].driverSignalled = F[g].driverSignalled
        /\ G[g].op = "none"
    BY <1>2, <1>5, <2>3 DEF Frame
  <2>7. Suspends(F, G, g)
    BY <2>5, <2>6 DEF Suspends
  <2>8. /\ Standing(G, c) /\ Fails(G, g)
        /\ \A h \in Frames, w \in 0..MaxValues : Carries(G, h, w) <=> h = g /\ w = End
    <3> HIDE DEF G, c
    <3> QED
      BY <1>1, <2>2, <2>6, <2>7, QueuesKeeps
  <2>9. Values(G, c, made', t)
    <3>1. \A h \in Frames, w \in 1..MaxValues : ~Carries(G, h, w)
      BY <1>4, <2>8
    <3> QED
      BY <1>1, <2>1, <3>1 DEF Values
  <2>10. Failures(G, c, made', t, escaped')
    BY <1>2, <2>8 DEF Failures
  <2>11. Spares(F, G)
    BY <1>2, <2>5 DEF Spares
  <2> QED
    BY <1>3, <2>1, <2>8, <2>9, <2>10, <2>11 DEF Sound
<1>10. CASE Await(F, g)
  <2>1. /\ made' = made /\ escaped' = FALSE
        /\ G = [F EXCEPT ![g].body = "await", ![g].op = "running", ![g].opSignalled = FALSE]
    BY <1>3, <1>10 DEF Await
  <2>3. G[g] = [F[g] EXCEPT !.body = "await", !.op = "running", !.opSignalled = FALSE]
    BY <1>2, <2>1
  <2>4. G[g] \in Frame
    BY <1>5, <2>3, ZenonT(40) DEF Frame
  <2>5. G \in [Frames -> Frame] /\ \A k \in Frames \ {g} : G[k] = F[k]
    BY <1>2, <2>1, <2>4
  <2>6. /\ G[g].body = "await" /\ G[g].handler /\ G[g].posted = Nothing
        /\ G[g].inner = F[g].inner /\ G[g].outer = F[g].outer /\ G[g].driver = F[g].driver
        /\ G[g].got = F[g].got /\ G[g].driverSignalled = F[g].driverSignalled
        /\ G[g].op # "none"
    BY <1>1, <1>2, <1>5, <2>3 DEF Frame
  <2>7. Suspends(F, G, g)
    BY <2>5, <2>6 DEF Suspends
  <2>8. /\ Standing(G, c)
        /\ \A h \in Frames, w \in 0..MaxValues : ~Carries(G, h, w)
    <3> HIDE DEF G, c
    <3> QED
      BY <1>1, <2>6, <2>7, AwaitKeeps
  <2>9. \A h \in Frames, w \in 1..MaxValues : ~Carries(G, h, w)
    BY <1>4, <2>8
  <2>10. Spares(F, G)
    BY <1>2, <2>5 DEF Spares
  <2> QED
    BY <1>6, <2>1, <2>8, <2>9, <2>10
<1>11. CASE Flatten(F, g)
  <2>1. PICK h \in Frames :
          /\ F[h].body = "unborn" /\ \A j \in 1..h - 1 : F[j].body # "unborn"
          /\ G = Drive([F EXCEPT ![g].body = "flat", ![g].inner = h, ![h] = Fresh(g)], g, h)
    BY <1>11 DEF Flatten
  <2>2. made' = made /\ escaped' = FALSE
    BY <1>3, <1>11 DEF Flatten
  <2>3. g # h
    BY <1>2, <2>1
  <2>4. /\ DOMAIN G = Frames
        /\ G[g] = [F[g] EXCEPT !.body = "flat", !.inner = h, !.handler = FALSE]
        /\ G[h] = [Fresh(g) EXCEPT !.driver = "starting", !.driverSignalled = FALSE,
                                   !.got = Nothing]
        /\ \A k \in Frames \ {g, h} : G[k] = F[k]
        /\ G = [k \in Frames |-> G[k]]
    BY <1>2, <2>1, <2>3 DEF Drive
  <2>5. G[g] \in Frame
    BY <1>5, <2>4, ZenonT(40) DEF Frame
  <2>6. /\ Fresh(g) \in Frame /\ Fresh(g).body = "fresh" /\ Fresh(g).inner = 0
        /\ Fresh(g).outer = g /\ ~Fresh(g).handler /\ Fresh(g).posted = Nothing
        /\ Fresh(g).op = "none"
    <3>1. Nothing \in 0..Nothing
      BY <1>4
    <3>2. /\ Unborn \in Frame /\ Unborn.inner = 0 /\ ~Unborn.handler
          /\ Unborn.posted = Nothing /\ Unborn.op = "none"
      BY <3>1 DEF Unborn, Frame
    <3> QED
      BY <3>2 DEF Fresh, Frame
  <2>7. /\ G[h] \in Frame
        /\ G[h].body = "fresh" /\ G[h].inner = 0 /\ G[h].outer = g /\ ~G[h].handler
        /\ G[h].posted = Nothing /\ G[h].op = "none" /\ G[h].driver = "starting"
    <3>1. Nothing \in 0..Nothing
      BY <1>4
    <3> QED
      BY <2>4, <2>6, <3>1, ZenonT(40) DEF Frame
  <2>8. G \in [Frames -> Frame]
    BY <1>2, <2>4, <2>5, <2>7
  <2>9. /\ G[g].body = "flat" /\ G[g].inner = h /\ ~G[g].handler /\ G[g].outer = F[g].outer
        /\ G[g].posted = Nothing /\ G[g].driver = F[g].driver /\ G[g].op = "none"
        /\ G[g].driverSignalled = F[g].driverSignalled /\ G[g].got = F[g].got
    BY <1>2, <1>5, <2>4 DEF Frame
  <2>10. /\ Standing(G, c)
         /\ \A k \in Frames, w \in 0..MaxValues : ~Carries(G, k, w)
    <3>1. \A k \in Frames \ {g, h} : G[k] = F[k]
      BY <2>4
    <3> HIDE DEF G, c
    <3> QED
      BY <1>1, <2>1, <2>7, <2>8, <2>9, <3>1, FlattenKeeps
  <2>11. \A k \in Frames, w \in 1..MaxValues : ~Carries(G, k, w)
    BY <1>4, <2>10
  <2>12. Spares(F, G)
    BY <1>2, <2>1, <2>4 DEF Spares
  <2> QED
    BY <1>6, <2>2, <2>10, <2>11, <2>12
<1> QED
  BY <1>7, <1>8, <1>9, <1>10, <1>11 DEF Run

(* A promise is set, or a flag, at the frame that control is at. *)
LEMMA StillPaused ==
  ASSUME NEW F, NEW c, NEW g \in Frames, NEW G, Paused(F, c, g), G \in [Frames -> Frame],
         \A k \in Frames \ {g} : G[k] = F[k],
         G[g].body = F[g].body, G[g].inner = F[g].inner, G[g].outer = F[g].outer,
         G[g].driver = F[g].driver, G[g].posted = F[g].posted, G[g].op = F[g].op,
         G[g].driverSignalled = F[g].driverSignalled, G[g].got = F[g].got
  PROVE  Paused(G, c, g)
<1> USE DEF Paused
<1>1. SameShape(F, G) /\ \A k \in Frames : Exists(G, k) <=> Exists(F, k)
  BY DEF SameShape, Exists
<1>2. \A k \in Frames : Exists(F, k) /\ F[k].inner # 0 => F[k].inner \in Frames
  BY DEF Nested, Frames
<1>3. Nested(G)
  BY <1>1, <1>2, ShapeNested
<1>4. \A k \in Frames : WaitsIn(G, c, k) <=> WaitsIn(F, c, k)
  BY DEF WaitsIn
<1>5. Rooted(G, c)
  BY <1>1, GeneratorAssumption DEF Rooted, Frames
<1>6. F[g].body \notin {"unborn", "destroyed"}
  BY DEF Exists
<1>7. Gone(G)
  BY <1>6 DEF Gone
<1>8. Driven(G, c)
  <2>1. \A k \in Frames : \A o \in 1..k - 1 : o \in Frames
    BY GeneratorAssumption DEF Frames
  <2> QED
    BY <1>1, <1>4, <2>1 DEF Driven
<1>9. \A k \in Frames : G[k].driver = F[k].driver
  OBVIOUS
<1>10. ASSUME NEW k \in Frames \ {g}, Exists(G, k)
       PROVE  Settled(G, c, k) /\ HeldIn(G, c, k) /\ ~Busy(G, k)
  <2>1. Settled(F, c, k) /\ HeldIn(F, c, k) /\ ~Busy(F, k) /\ G[k] = F[k]
    BY <1>1, <1>10
  <2>2. F[k].inner # 0 => F[k].inner \in Frames
    BY <1>1, <1>2, <1>10
  <2>3. HeldIn(G, c, k)
    BY <1>4, <1>9, <2>1, <2>2 DEF HeldIn
  <2>4. Settled(G, c, k)
    BY <1>4, <2>1 DEF Settled
  <2> QED
    BY <1>1, <2>1, <2>3, <2>4 DEF Busy
<1>11. G[g].inner # 0 => G[G[g].inner].driver = "none"
  BY <1>2, <1>9
<1> QED
  BY <1>1, <1>3, <1>4, <1>5, <1>7, <1>8, <1>10, <1>11

(* Asking a frame for its next value leaves the frames as they should be. *)
LEMMA NextKeeps ==
  ASSUME NEW F, NEW g \in Frames, Asked(F, consumer', made, taken', escaped, g), Next1(F, g)
  PROVE  /\ Sound(frame', consumer', made', taken', escaped')
         /\ Spares(F, frame')
<1> DEFINE G == frame'
           c == consumer'
           t == taken'
<1> USE DEF Asked
<1>1. Paused(F, c, g) /\ ~F[g].handler /\ InOrder(t) /\ Len(t) = made /\ made \in 0..MaxValues
      /\ escaped = FALSE
  OBVIOUS
<1>2. F \in [Frames -> Frame] /\ F[g].body \notin {"unborn", "destroyed"} /\ c = "waiting"
      /\ F[g].op = "none" /\ F[g].posted = Nothing /\ Nested(F)
  BY DEF Paused, Exists
<1>3. MaxValues \in Nat /\ End = 0 /\ Nothing = MaxValues + 1
  BY GeneratorAssumption DEF End, Nothing
<1>4. F[g] \in Frame
  BY <1>2
<1>5. ASSUME Standing(G, c), made' = made, escaped' = FALSE,
             \A h \in Frames, w \in 1..MaxValues : ~Carries(G, h, w)
      PROVE  Sound(G, c, made', t, escaped')
  <2>1. Values(G, c, made', t)
    BY <1>1, <1>5 DEF Values
  <2>2. Failures(G, c, made', t, escaped')
    BY <1>2, <1>5 DEF Failures
  <2> QED
    BY <1>1, <1>5, <2>1, <2>2 DEF Sound
<1>6. CASE F[g].body = "done"
  <2>1. /\ made' = made /\ escaped' = FALSE /\ G = [F EXCEPT ![g].posted = End]
    BY <1>1, <1>6 DEF Next1
  <2>2. End \in 0..MaxValues /\ End \in 0..Nothing
    BY <1>3
  <2>3. G[g] = [F[g] EXCEPT !.posted = End]
    BY <1>2, <2>1
  <2>4. G[g] \in Frame
    BY <1>4, <2>2, <2>3 DEF Frame
  <2>5. G \in [Frames -> Frame] /\ \A k \in Frames \ {g} : G[k] = F[k]
    BY <1>2, <2>1, <2>4
  <2>6. /\ G[g].body = "done" /\ ~G[g].handler /\ G[g].posted = End
        /\ G[g].inner = F[g].inner /\ G[g].outer = F[g].outer /\ G[g].driver = F[g].driver
        /\ G[g].got = F[g].got /\ G[g].driverSignalled = F[g].driverSignalled
        /\ G[g].op = "none"
    BY <1>1, <1>2, <1>4, <1>6, <2>3 DEF Frame
  <2>7. Suspends(F, G, g) /\ F[g].inner = 0
    BY <1>2, <1>6, <2>5, <2>6 DEF Suspends, Nested, Exists
  <2>8. /\ Standing(G, c)
        /\ \A h \in Frames, w \in 0..MaxValues : Carries(G, h, w) <=> h = g /\ w = End
    <3> HIDE DEF G, c
    <3> QED
      BY <1>1, <2>2, <2>6, <2>7, QueuesKeeps
  <2>9. \A h \in Frames, w \in 1..MaxValues : ~Carries(G, h, w)
    BY <1>3, <2>8
  <2>10. Spares(F, G)
    BY <1>2, <2>5 DEF Spares
  <2> QED
    BY <1>5, <2>1, <2>8, <2>9, <2>10
<1>7. CASE F[g].body = "flat"
  <2> DEFINE h == F[g].inner
  <2>1. /\ made' = made /\ escaped' = FALSE /\ G = Drive(F, g, h)
    BY <1>1, <1>7 DEF Next1
  <2>2. h # 0 /\ h \in Frames /\ h # g /\ Exists(F, h)
    <3>1. h # 0 /\ h \in g + 1..MaxFrames /\ Exists(F, h)
      BY <1>2, <1>7 DEF Nested, Exists
    <3> QED
      BY <3>1, GeneratorAssumption DEF Frames
  <2>3. /\ G[g] = [F[g] EXCEPT !.handler = FALSE] /\ DOMAIN G = Frames
        /\ G[h] = [F[h] EXCEPT !.driver = "starting", !.driverSignalled = FALSE, !.got = Nothing]
        /\ \A k \in Frames \ {g, h} : G[k] = F[k]
        /\ G = [k \in Frames |-> G[k]]
    <3> HIDE DEF h
    <3> QED
      BY <1>2, <2>1, <2>2 DEF Drive
  <2>4. G[g] = F[g]
    <3>1. F[g].handler = FALSE
      BY <1>1, <1>4 DEF Frame
    <3>2. [F[g] EXCEPT !.handler = FALSE] = F[g]
      BY <1>4, <3>1 DEF Frame
    <3> HIDE DEF h
    <3> QED
      BY <2>3, <3>2
  <2>5. F[h] \in Frame /\ Nothing \in 0..Nothing
    BY <1>2, <1>3, <2>2
  <2>6. /\ G[h] \in Frame
        /\ G[h].body = F[h].body /\ G[h].inner = F[h].inner /\ G[h].outer = F[h].outer
        /\ G[h].handler = F[h].handler /\ G[h].posted = F[h].posted /\ G[h].op = F[h].op
        /\ G[h].thrown = F[h].thrown /\ G[h].driver = "starting"
    <3> HIDE DEF h
    <3> QED
      BY <2>3, <2>5 DEF Frame
  <2>7. G \in [Frames -> Frame] /\ \A k \in Frames \ {h} : G[k] = F[k]
    BY <1>2, <2>3, <2>4, <2>6
  <2>8. /\ Standing(G, c)
        /\ \A k \in Frames, w \in 0..MaxValues : ~Carries(G, k, w)
    <3>1. h = F[g].inner
      OBVIOUS
    <3> HIDE DEF G, c, h
    <3> QED
      BY <1>1, <2>2, <2>6, <2>7, <3>1, DriveKeeps
  <2>9. \A k \in Frames, w \in 1..MaxValues : ~Carries(G, k, w)
    BY <1>3, <2>8
  <2>10. Spares(F, G)
    BY <2>2, <2>7 DEF Spares, Exists
  <2> QED
    BY <1>5, <2>1, <2>8, <2>9, <2>10
<1>8. CASE F[g].body \notin {"done", "flat"}
  <2> DEFINE H == [F EXCEPT ![g].handler = TRUE]
  <2>1. Run(H, g)
    BY <1>8 DEF Next1
  <2>2. H[g] = [F[g] EXCEPT !.handler = TRUE] /\ \A k \in Frames \ {g} : H[k] = F[k]
    BY <1>2
  <2>3. /\ H[g] \in Frame /\ H[g].handler
        /\ H[g].body = F[g].body /\ H[g].inner = F[g].inner /\ H[g].outer = F[g].outer
        /\ H[g].driver = F[g].driver /\ H[g].posted = F[g].posted /\ H[g].op = F[g].op
        /\ H[g].driverSignalled = F[g].driverSignalled /\ H[g].got = F[g].got
    <3> HIDE DEF H
    <3> QED
      BY <1>4, <2>2 DEF Frame
  <2>4. H \in [Frames -> Frame]
    BY <1>2, <2>2, <2>3
  <2>5. Paused(H, c, g)
    <3> HIDE DEF H, c
    <3> QED
      BY <1>1, <2>2, <2>3, <2>4, StillPaused
  <2>6. H[g].inner = 0
    BY <1>2, <1>8, <2>3 DEF Nested, Exists
  <2>7. Running(H, c, made, t, escaped, g)
    BY <1>1, <2>3, <2>5, <2>6 DEF Running
  <2>8. Sound(G, c, made', t, escaped') /\ Spares(H, G)
    <3> HIDE DEF H
    <3> QED
      BY <2>1, <2>7, RunKeeps
  <2>9. Spares(F, G)
    BY <1>2, <2>2, <2>8 DEF Spares
  <2> QED
    BY <2>8, <2>9
<1> QED
  BY <1>6, <1>7, <1>8

(* What is buried is out of reach. *)
LEMMA Buried ==
  ASSUME NEW F, F \in [Frames -> Frame], NEW g \in Frames
  PROVE  /\ DestroyFrom(F, g) \in [Frames -> Frame]
         /\ \A k \in Frames :
              /\ ~(k >= g /\ Exists(F, k)) => DestroyFrom(F, g)[k] = F[k]
              /\ k >= g /\ Exists(F, k) =>
                   /\ DestroyFrom(F, g)[k].body = "destroyed"
                   /\ ~DestroyFrom(F, g)[k].handler /\ ~DestroyFrom(F, g)[k].forwarder
                   /\ DestroyFrom(F, g)[k].driverSignalled
              /\ DestroyFrom(F, g)[k].outer = F[k].outer
              /\ DestroyFrom(F, g)[k].inner = F[k].inner
              /\ DestroyFrom(F, g)[k].driver = F[k].driver
              /\ DestroyFrom(F, g)[k].got = F[k].got
              /\ DestroyFrom(F, g)[k].op = F[k].op
              /\ DestroyFrom(F, g)[k].posted = F[k].posted
              /\ DestroyFrom(F, g)[k].thrown = F[k].thrown
<1>1. ASSUME NEW f \in Frame
      PROVE  /\ Bury(f) \in Frame /\ Bury(f).body = "destroyed" /\ ~Bury(f).handler
             /\ ~Bury(f).forwarder /\ Bury(f).driverSignalled
             /\ Bury(f).outer = f.outer /\ Bury(f).inner = f.inner /\ Bury(f).driver = f.driver
             /\ Bury(f).got = f.got /\ Bury(f).op = f.op /\ Bury(f).posted = f.posted
             /\ Bury(f).thrown = f.thrown
  BY DEF Bury, Frame
<1>2. ASSUME NEW k \in Frames
      PROVE  /\ ~(k >= g /\ Exists(F, k)) => DestroyFrom(F, g)[k] = F[k]
             /\ k >= g /\ Exists(F, k) => DestroyFrom(F, g)[k] = Bury(F[k])
             /\ F[k] \in Frame
  BY DEF DestroyFrom
<1>3. DestroyFrom(F, g) \in [Frames -> Frame]
  <2>1. DestroyFrom(F, g) = [k \in Frames |-> DestroyFrom(F, g)[k]]
    BY DEF DestroyFrom
  <2>2. \A k \in Frames : DestroyFrom(F, g)[k] \in Frame
    BY <1>1, <1>2
  <2> QED
    BY <2>1, <2>2
<1>4. ASSUME NEW k \in Frames
      PROVE  /\ ~(k >= g /\ Exists(F, k)) => DestroyFrom(F, g)[k] = F[k]
             /\ k >= g /\ Exists(F, k) =>
                  /\ DestroyFrom(F, g)[k].body = "destroyed"
                  /\ ~DestroyFrom(F, g)[k].handler /\ ~DestroyFrom(F, g)[k].forwarder
                  /\ DestroyFrom(F, g)[k].driverSignalled
             /\ DestroyFrom(F, g)[k].outer = F[k].outer
             /\ DestroyFrom(F, g)[k].inner = F[k].inner
             /\ DestroyFrom(F, g)[k].driver = F[k].driver
             /\ DestroyFrom(F, g)[k].got = F[k].got
             /\ DestroyFrom(F, g)[k].op = F[k].op
             /\ DestroyFrom(F, g)[k].posted = F[k].posted
             /\ DestroyFrom(F, g)[k].thrown = F[k].thrown
  <2>1. CASE k >= g /\ Exists(F, k)
    BY <1>1, <1>2, <2>1
  <2>2. CASE ~(k >= g /\ Exists(F, k))
    BY <1>2, <2>2
  <2> QED
    BY <2>1, <2>2
<1> QED
  BY <1>3, <1>4

(* The session leaves the generator, which is destroyed with all in it. *)
LEMMA LeftKeeps ==
  ASSUME NEW F, NEW c, NEW d \in {"ended", "failed", "left"}, NEW n \in 0..MaxValues, NEW t,
         NEW e \in BOOLEAN, F \in [Frames -> Frame], Nested(F), Rooted(F, c), Gone(F), Driven(F, c),
         InOrder(t), d = "ended" => ~e /\ Len(t) = n
  PROVE  /\ Sound(DestroyFrom(F, 1), d, n, t, e)
         /\ Spares(F, DestroyFrom(F, 1))
<1> DEFINE G == DestroyFrom(F, 1)
<1>1. 1 \in Frames /\ \A k \in Frames : k >= 1
  BY GeneratorAssumption DEF Frames
<1>2. /\ G \in [Frames -> Frame]
      /\ \A k \in Frames :
           /\ ~Exists(F, k) => G[k] = F[k]
           /\ Exists(F, k) => /\ G[k].body = "destroyed" /\ ~G[k].handler /\ ~G[k].forwarder
                              /\ G[k].driverSignalled
           /\ G[k].outer = F[k].outer /\ G[k].driver = F[k].driver /\ G[k].got = F[k].got
           /\ G[k].inner = F[k].inner
  BY <1>1, Buried
<1> HIDE DEF G
<1>3. \A k \in Frames : ~Exists(G, k) /\ (G[k].body = "unborn" <=> F[k].body = "unborn")
  BY <1>2 DEF Exists
<1>4. Nested(G)
  <2>1. \A j, k \in Frames : (G[j].body = "unborn" /\ j < k) => G[k].body = "unborn"
    BY <1>3 DEF Nested
  <2> QED
    BY <1>3, <2>1 DEF Nested
<1>5. Rooted(G, d)
  BY <1>1, <1>2, <1>3 DEF Rooted
<1>6. Gone(G)
  BY <1>2, <1>3 DEF Gone, Exists
<1>7. Driven(G, d)
  <2>1. \A k \in Frames : \A o \in 1..k - 1 : o \in Frames
    BY GeneratorAssumption DEF Frames
  <2> QED
    BY <1>2, <1>3, <2>1 DEF Driven
<1>8. OneBusy(G, d)
  BY <1>3 DEF OneBusy, Busy
<1>9. Values(G, d, n, t)
  BY <1>3 DEF Values, Carries
<1>10. Failures(G, d, n, t, e)
  BY DEF Failures
<1>11. Sound(G, d, n, t, e)
  BY <1>2, <1>3, <1>4, <1>5, <1>6, <1>7, <1>8, <1>9, <1>10 DEF Sound, Standing, Consumers
<1>12. Spares(F, G)
  BY <1>2 DEF Spares, Exists
<1> QED
  BY <1>11, <1>12 DEF G

(* An inner frame that has ended, with all in it, is destroyed; its outer  *)
(* frame resumes.                                                          *)
LEMMA DropKeeps ==
  ASSUME NEW F, NEW c, NEW o \in Frames, NEW r \in BOOLEAN,
         F \in [Frames -> Frame], c = "waiting", Nested(F), Rooted(F, c), Gone(F), Driven(F, c),
         Exists(F, o), WaitsIn(F, c, o), F[o].inner # 0, F[F[o].inner].driver = "none",
         F[o].posted = Nothing, F[o].op = "none",
         \A h \in Frames \ {o, F[o].inner} :
           Exists(F, h) => Settled(F, c, h) /\ HeldIn(F, c, h) /\ ~Busy(F, h)
  PROVE  /\ Paused(DropInner(F, o, r), c, o)
         /\ DropInner(F, o, r)[o].inner = 0 /\ DropInner(F, o, r)[o].thrown = r
         /\ DropInner(F, o, r)[o].body = "flat"
         /\ DropInner(F, o, r)[o].handler = F[o].handler
         /\ Spares(F, DropInner(F, o, r))
<1> DEFINE g == F[o].inner
           D == DestroyFrom(F, g)
           G == DropInner(F, o, r)
<1>1. /\ F[o].body = "flat" /\ g \in o + 1..MaxFrames /\ Exists(F, g) /\ F[g].outer = o
  BY DEF Nested
<1>2. g \in Frames /\ o < g /\ g # 1 /\ o \in 1..MaxFrames /\ 1 \in Frames
  BY <1>1, GeneratorAssumption DEF Frames
<1>3. /\ D \in [Frames -> Frame]
      /\ \A k \in Frames :
           /\ ~(k >= g /\ Exists(F, k)) => D[k] = F[k]
           /\ k >= g /\ Exists(F, k) =>
                D[k].body = "destroyed" /\ ~D[k].handler /\ ~D[k].forwarder /\ D[k].driverSignalled
           /\ D[k].outer = F[k].outer /\ D[k].inner = F[k].inner /\ D[k].driver = F[k].driver
           /\ D[k].got = F[k].got /\ D[k].op = F[k].op /\ D[k].posted = F[k].posted
  <2> HIDE DEF g
  <2> QED
    BY <1>2, Buried
<1>4. ~(o >= g) /\ D[o] = F[o]
  BY <1>2, <1>3, GeneratorAssumption DEF Frames
<1>5. G = [D EXCEPT ![o].inner = 0, ![o].thrown = r]
  BY DEF DropInner
<1> HIDE DEF D, G
<1>6. /\ G[o] = [F[o] EXCEPT !.inner = 0, !.thrown = r]
      /\ \A k \in Frames \ {o} : G[k] = D[k]
      /\ G = [k \in Frames |-> G[k]]
  BY <1>3, <1>4, <1>5
<1>7. /\ G[o] \in Frame /\ G[o].inner = 0 /\ G[o].thrown = r
      /\ G[o].body = F[o].body /\ G[o].outer = F[o].outer /\ G[o].driver = F[o].driver
      /\ G[o].handler = F[o].handler /\ G[o].posted = F[o].posted /\ G[o].op = F[o].op
      /\ G[o].driverSignalled = F[o].driverSignalled /\ G[o].got = F[o].got
      /\ G[o].forwarder = F[o].forwarder
  <2>1. F[o] \in Frame
    OBVIOUS
  <2>2. 0 \in Frames \cup {0}
    OBVIOUS
  <2> QED
    BY <1>6, <2>1, <2>2, ZenonT(40) DEF Frame
<1>8. G \in [Frames -> Frame]
  BY <1>3, <1>6, <1>7
<1>9. Exists(G, o)
  BY <1>7 DEF Exists
<1>10. ASSUME NEW k \in Frames \ {o}
       PROVE  /\ Exists(G, k) <=> Exists(F, k) /\ k < g
              /\ Exists(G, k) => G[k] = F[k] /\ k < o
              /\ G[k].body = "unborn" <=> F[k].body = "unborn"
              /\ ~Exists(F, k) => G[k] = F[k]
              /\ G[k].outer = F[k].outer /\ G[k].driver = F[k].driver /\ G[k].got = F[k].got
  <2> HIDE DEF g
  <2>1. k \in 1..MaxFrames /\ MaxFrames \in Nat /\ g \in 1..MaxFrames
    BY <1>2, GeneratorAssumption DEF Frames
  <2>2. CASE k >= g /\ Exists(F, k)
    <3>1. ~Exists(G, k) /\ ~(k < g) /\ G[k].body = "destroyed"
      BY <1>2, <1>3, <1>6, <2>1, <2>2 DEF Exists
    <3> QED
      BY <1>3, <1>6, <2>2, <3>1 DEF Exists
  <2>3. CASE ~Exists(F, k)
    BY <1>3, <1>6, <2>3 DEF Exists
  <2>4. CASE ~(k >= g) /\ Exists(F, k)
    <3>1. G[k] = F[k] /\ k < g
      BY <1>2, <1>3, <1>6, <2>1, <2>4
    <3>2. ~(o < k)
      <4>1. SUFFICES ASSUME o < k PROVE FALSE
        OBVIOUS
      <4>2. g \in o + 1..k
        BY <2>4, <4>1 DEF Nested, g
      <4> QED
        BY <1>2, <2>1, <3>1, <4>2
    <3>3. k < o
      BY <1>2, <2>1, <3>2
    <3> QED
      BY <2>4, <3>1, <3>3 DEF Exists
  <2> QED
    BY <2>2, <2>3, <2>4
<1> HIDE DEF g
<1>11. Nested(G)
  <2>1. ASSUME NEW k \in Frames \ {1}, Exists(G, k)
        PROVE  G[k].outer \in 1..k - 1 /\ Exists(G, G[k].outer) /\ G[G[k].outer].inner = k
    <3>1. Exists(F, k) /\ G[k].outer = F[k].outer /\ ~(o < k)
      BY <1>7, <1>10, <2>1, GeneratorAssumption DEF Exists, Frames
    <3>2. F[k].outer \in 1..k - 1 /\ Exists(F, F[k].outer) /\ F[F[k].outer].inner = k
      BY <3>1 DEF Nested
    <3>3. F[k].outer \in Frames /\ F[k].outer # o /\ F[k].outer < g
      BY <1>2, <3>1, <3>2, GeneratorAssumption DEF Frames
    <3>4. Exists(G, F[k].outer) /\ G[F[k].outer] = F[F[k].outer]
      BY <1>10, <3>2, <3>3
    <3> QED
      BY <3>1, <3>2, <3>4
  <2>2. ASSUME NEW k \in Frames, Exists(G, k), G[k].inner # 0
        PROVE  /\ G[k].body = "flat" /\ G[k].inner \in k + 1..MaxFrames
               /\ Exists(G, G[k].inner) /\ G[G[k].inner].outer = k
    <3>1. k # o
      BY <1>7, <2>2
    <3>2. Exists(F, k) /\ G[k] = F[k] /\ k < o
      BY <1>10, <2>2, <3>1
    <3>3. /\ F[k].body = "flat" /\ F[k].inner \in k + 1..MaxFrames
          /\ Exists(F, F[k].inner) /\ F[F[k].inner].outer = k
      BY <2>2, <3>2 DEF Nested
    <3>4. F[k].inner \in k + 1..o
      BY <3>2 DEF Nested
    <3>5. F[k].inner \in Frames /\ F[k].inner < g
      BY <1>2, <3>3, <3>4, GeneratorAssumption DEF Frames
    <3>6. Exists(G, F[k].inner) /\ G[F[k].inner].outer = F[F[k].inner].outer
      BY <1>7, <1>9, <1>10, <3>3, <3>5
    <3> QED
      BY <3>2, <3>3, <3>6
  <2>3. ASSUME NEW j \in Frames, NEW k \in Frames, Exists(G, j), Exists(G, k), j < k
        PROVE  G[j].inner \in j + 1..k
    <3>1. j # o
      <4>1. SUFFICES ASSUME j = o PROVE FALSE
        OBVIOUS
      <4>2. k # o /\ ~(k < o)
        BY <2>3, <4>1, GeneratorAssumption DEF Frames
      <4> QED
        BY <1>10, <2>3, <4>2
    <3>2. Exists(F, j) /\ G[j] = F[j] /\ Exists(F, k)
      BY <1>7, <1>10, <2>3, <3>1 DEF Exists
    <3> QED
      BY <2>3, <3>2 DEF Nested
  <2>4. ASSUME NEW j \in Frames, NEW k \in Frames, G[j].body = "unborn", j < k
        PROVE  G[k].body = "unborn"
    <3>1. \A i \in Frames : G[i].body = "unborn" <=> F[i].body = "unborn"
      BY <1>7, <1>10
    <3> QED
      BY <2>4, <3>1 DEF Nested
  <2> QED
    BY <2>1, <2>2, <2>3, <2>4 DEF Nested
<1>12. \A k \in Frames : WaitsIn(G, c, k) <=> WaitsIn(F, c, k)
  BY <1>7, <1>10 DEF WaitsIn
<1>13. Rooted(G, c)
  <2>1. Exists(F, 1)
    BY DEF Rooted
  <2>2. Exists(G, 1)
    BY <1>2, <1>9, <1>10, <2>1, GeneratorAssumption DEF Frames
  <2>3. G[1].driver = F[1].driver /\ (G[1].body = "unborn" <=> F[1].body = "unborn")
    BY <1>2, <1>7, <1>10
  <2> QED
    BY <2>2, <2>3 DEF Rooted
<1>14. Gone(G)
  <2>1. ASSUME NEW k \in Frames
        PROVE  /\ G[k].body = "unborn" => /\ G[k].driver = "none" /\ G[k].posted = Nothing
                                          /\ G[k].op = "none" /\ G[k].inner = 0
               /\ G[k].body = "destroyed" => G[k].driverSignalled /\ ~G[k].handler /\ ~G[k].forwarder
    <3>1. CASE k = o
      BY <1>1, <1>7, <3>1
    <3>2. CASE k # o /\ ~Exists(F, k)
      BY <1>10, <3>2 DEF Gone
    <3>3. CASE k # o /\ Exists(F, k) /\ k >= g
      BY <1>3, <1>6, <3>3
    <3>4. CASE k # o /\ Exists(F, k) /\ ~(k >= g)
      BY <1>3, <1>6, <3>4 DEF Exists
    <3> QED
      BY <3>1, <3>2, <3>3, <3>4
  <2>2. \A k \in Frames : G[k].outer \in 0..k - 1
    BY <1>7, <1>10 DEF Gone
  <2> QED
    BY <2>1, <2>2 DEF Gone
<1>15. Driven(G, c)
  <2>1. ASSUME NEW k \in Frames, G[k].driver # "none"
        PROVE  /\ G[k].outer \in 1..k - 1
               /\ Exists(G, G[k].outer) => Exists(G, k) /\ WaitsIn(G, c, G[k].outer)
               /\ G[k].driver = "resumed" => G[k].got # Nothing
    <3>1. G[k].driver = F[k].driver /\ G[k].outer = F[k].outer /\ G[k].got = F[k].got
      BY <1>7, <1>10
    <3>2. /\ F[k].outer \in 1..k - 1
          /\ Exists(F, F[k].outer) => Exists(F, k) /\ WaitsIn(F, c, F[k].outer)
          /\ F[k].driver = "resumed" => F[k].got # Nothing
      BY <2>1, <3>1 DEF Driven
    <3>3. F[k].outer \in Frames
      BY <3>2, GeneratorAssumption DEF Frames
    <3>4. ASSUME Exists(G, F[k].outer)
          PROVE  Exists(G, k)
      <4>1. Exists(F, F[k].outer)
        BY <1>10, <3>3, <3>4
      <4>2. Exists(F, k) /\ k # 1
        BY <3>2, <4>1, GeneratorAssumption
      <4>3. F[F[k].outer].inner = k
        BY <4>2 DEF Nested
      <4>4. k # g
        BY <2>1, <3>1 DEF g
      <4>5. F[k].outer # o
        BY <4>3, <4>4 DEF g
      <4>6. F[k].outer < o
        BY <1>10, <3>3, <3>4, <4>5
      <4>7. k \in F[k].outer + 1..o
        BY <3>3, <4>1, <4>3, <4>6 DEF Nested
      <4>8. k < g
        BY <1>2, <4>7, GeneratorAssumption DEF Frames
      <4> QED
        BY <1>9, <1>10, <4>2, <4>8
    <3>5. Exists(G, F[k].outer) => Exists(F, F[k].outer)
      BY <1>10, <3>3
    <3> QED
      BY <1>12, <3>1, <3>2, <3>3, <3>4, <3>5
  <2> QED
    BY <2>1 DEF Driven
<1>16. ASSUME NEW k \in Frames \ {o}, Exists(G, k)
       PROVE  Settled(G, c, k) /\ HeldIn(G, c, k) /\ ~Busy(G, k)
  <2>1. Exists(F, k) /\ G[k] = F[k] /\ k < o
    BY <1>10, <1>16
  <2>2. k # g
    BY <1>2, <2>1, GeneratorAssumption DEF Frames
  <2>3. Settled(F, c, k) /\ HeldIn(F, c, k) /\ ~Busy(F, k)
    BY <2>1, <2>2 DEF g
  <2>4. F[k].inner # 0 => F[k].inner \in Frames
    BY <2>1 DEF Nested, Frames
  <2>5. \A j \in Frames : G[j].driver = F[j].driver
    BY <1>7, <1>10
  <2>6. HeldIn(G, c, k)
    BY <1>12, <2>1, <2>3, <2>4, <2>5 DEF HeldIn
  <2>7. Settled(G, c, k)
    BY <1>12, <2>1, <2>3 DEF Settled
  <2>8. ~Busy(G, k)
    BY <2>1, <2>3, <1>16 DEF Busy
  <2> QED
    BY <2>6, <2>7, <2>8
<1>17. Paused(G, c, o)
  BY <1>7, <1>8, <1>9, <1>11, <1>12, <1>13, <1>14, <1>15, <1>16 DEF Paused
<1>18. Spares(F, G)
  BY <1>10 DEF Spares, Exists
<1> QED
  BY <1>1, <1>7, <1>17, <1>18 DEF G

(* No frame is driven whose outer frame is the one that control is at. *)
LEMMA NoneDriven ==
  ASSUME NEW F, NEW c, NEW g \in Frames, Paused(F, c, g), NEW k \in Frames,
         F[k].driver # "none"
  PROVE  /\ F[k].outer \in 1..k - 1 /\ F[k].outer \in Frames /\ F[k].outer # g
         /\ Exists(F, F[k].outer) => Exists(F, k) /\ WaitsIn(F, c, F[k].outer)
         /\ F[k].driver = "resumed" => F[k].got # Nothing
<1> USE DEF Paused
<1>1. /\ F[k].outer \in 1..k - 1
      /\ Exists(F, F[k].outer) => Exists(F, k) /\ WaitsIn(F, c, F[k].outer)
      /\ F[k].driver = "resumed" => F[k].got # Nothing
  BY DEF Driven
<1>2. F[k].outer \in Frames /\ k # 1
  BY <1>1, GeneratorAssumption DEF Frames
<1>3. ASSUME F[k].outer = g PROVE FALSE
  <2>1. Exists(F, k) /\ F[g].inner = k
    BY <1>1, <1>2, <1>3 DEF Nested
  <2>2. k # 0
    BY GeneratorAssumption DEF Frames
  <2> QED
    BY <2>1, <2>2
<1> QED
  BY <1>1, <1>2, <1>3

(* The session takes a value. *)
LEMMA TakesKeeps ==
  ASSUME NEW F, NEW G, Paused(F, "waiting", 1), ~F[1].handler, F[1].body # "await",
         ~(F[1].body = "flat" /\ F[1].inner = 0),
         G \in [Frames -> Frame], \A k \in Frames \ {1} : G[k] = F[k],
         G[1].body = F[1].body, G[1].inner = F[1].inner, G[1].outer = F[1].outer,
         G[1].handler = F[1].handler, G[1].posted = F[1].posted, G[1].op = F[1].op,
         G[1].driver = F[1].driver
  PROVE  /\ Standing(G, "idle")
         /\ \A k \in Frames, w \in 0..MaxValues : ~Carries(G, k, w)
<1> USE DEF Paused
<1>1. 1 \in Frames /\ F[1].driver = "none"
  BY GeneratorAssumption DEF Frames, Rooted
<1>2. SameShape(F, G) /\ \A k \in Frames : Exists(G, k) <=> Exists(F, k)
  BY DEF SameShape, Exists
<1>3. \A k \in Frames : Exists(F, k) /\ F[k].inner # 0 => F[k].inner \in Frames
  BY DEF Nested, Frames
<1>4. Nested(G)
  BY <1>2, <1>3, ShapeNested
<1>5. Rooted(G, "idle")
  BY <1>1, <1>2 DEF Rooted
<1>6. F[1].body \notin {"unborn", "destroyed"}
  BY DEF Exists
<1>7. Gone(G)
  BY <1>6 DEF Gone
<1>8. \A k \in Frames \ {1} : WaitsIn(G, "idle", k) <=> WaitsIn(F, "waiting", k)
  BY DEF WaitsIn
<1>9. Driven(G, "idle")
  <2>1. ASSUME NEW k \in Frames, G[k].driver # "none"
        PROVE  /\ G[k].outer \in 1..k - 1
               /\ Exists(G, G[k].outer) => Exists(G, k) /\ WaitsIn(G, "idle", G[k].outer)
               /\ G[k].driver = "resumed" => G[k].got # Nothing
    <3>1. k # 1
      BY <1>1, <2>1
    <3>2. /\ F[k].outer \in 1..k - 1 /\ F[k].outer \in Frames /\ F[k].outer # 1
          /\ Exists(F, F[k].outer) => Exists(F, k) /\ WaitsIn(F, "waiting", F[k].outer)
          /\ F[k].driver = "resumed" => F[k].got # Nothing
      BY <1>1, <2>1, <3>1, NoneDriven
    <3> QED
      BY <1>2, <1>8, <3>1, <3>2
  <2> QED
    BY <2>1 DEF Driven
<1>10. ASSUME NEW k \in Frames \ {1}, Exists(G, k)
       PROVE  Settled(G, "idle", k) /\ HeldIn(G, "idle", k) /\ ~Busy(G, k)
  <2>1. Settled(F, "waiting", k) /\ HeldIn(F, "waiting", k) /\ ~Busy(F, k) /\ G[k] = F[k]
    BY <1>2, <1>10
  <2>2. F[k].inner # 0 => F[k].inner \in Frames
    BY <1>2, <1>3, <1>10
  <2>3. \A j \in Frames : G[j].driver = F[j].driver
    OBVIOUS
  <2>4. HeldIn(G, "idle", k)
    BY <1>8, <2>1, <2>2, <2>3 DEF HeldIn
  <2>5. Settled(G, "idle", k)
    BY <1>8, <2>1 DEF Settled
  <2> QED
    BY <1>2, <2>1, <2>4, <2>5 DEF Busy
<1>11. Settled(G, "idle", 1) /\ HeldIn(G, "idle", 1)
  BY DEF Settled, HeldIn, WaitsIn
<1>12. \A k \in Frames : ~Busy(G, k)
  <2>1. ~Busy(G, 1)
    BY <1>1 DEF Busy
  <2>2. \A k \in Frames \ {1} : ~Busy(G, k)
    BY <1>10 DEF Busy
  <2> QED
    BY <2>1, <2>2
<1>13. Standing(G, "idle")
  <2>1. \A k \in Frames : Exists(G, k) => Settled(G, "idle", k) /\ HeldIn(G, "idle", k)
    BY <1>10, <1>11
  <2>2. OneBusy(G, "idle")
    BY <1>12 DEF OneBusy
  <2> QED
    BY <1>4, <1>5, <1>7, <1>9, <2>1, <2>2 DEF Standing, Consumers
<1> QED
  BY <1>1, <1>12, <1>13, Quiet

(* The driver of g resumes. *)
LEMMA ResumesKeeps ==
  ASSUME NEW F, NEW g \in Frames \ {1}, NEW G, NEW v \in 0..MaxValues, Paused(F, "waiting", g),
         ~F[g].handler, F[g].body # "await",
         F[g].body = "flat" /\ F[g].inner = 0 => v = End /\ F[g].thrown,
         G \in [Frames -> Frame], \A k \in Frames \ {g} : G[k] = F[k],
         G[g].body = F[g].body, G[g].inner = F[g].inner, G[g].outer = F[g].outer,
         G[g].handler = F[g].handler, G[g].posted = F[g].posted, G[g].op = F[g].op,
         G[g].thrown = F[g].thrown, G[g].driverSignalled = F[g].driverSignalled,
         G[g].driver = "resumed", G[g].got = v
  PROVE  /\ Standing(G, "waiting")
         /\ \A k \in Frames, w \in 0..MaxValues : Carries(G, k, w) <=> k = g /\ w = v
<1> USE DEF Paused
<1>1. F[g].driver = "waiting" /\ v # Nothing
  BY GeneratorAssumption DEF WaitsIn, Nothing
<1>2. SameShape(F, G) /\ \A k \in Frames : Exists(G, k) <=> Exists(F, k)
  BY DEF SameShape, Exists
<1>3. \A k \in Frames : Exists(F, k) /\ F[k].inner # 0 => F[k].inner \in Frames
  BY DEF Nested, Frames
<1>4. Nested(G)
  BY <1>2, <1>3, ShapeNested
<1>5. Rooted(G, "waiting")
  BY <1>2, GeneratorAssumption DEF Rooted, Frames
<1>6. F[g].body \notin {"unborn", "destroyed"}
  BY DEF Exists
<1>7. Gone(G)
  BY <1>6 DEF Gone
<1>8. \A k \in Frames \ {g} : WaitsIn(G, "waiting", k) <=> WaitsIn(F, "waiting", k)
  BY DEF WaitsIn
<1>9. Driven(G, "waiting")
  <2>1. ASSUME NEW k \in Frames, G[k].driver # "none"
        PROVE  /\ G[k].outer \in 1..k - 1
               /\ Exists(G, G[k].outer) => Exists(G, k) /\ WaitsIn(G, "waiting", G[k].outer)
               /\ G[k].driver = "resumed" => G[k].got # Nothing
    <3>1. /\ F[k].outer \in 1..k - 1 /\ F[k].outer \in Frames /\ F[k].outer # g
          /\ Exists(F, F[k].outer) => Exists(F, k) /\ WaitsIn(F, "waiting", F[k].outer)
          /\ F[k].driver = "resumed" => F[k].got # Nothing
      BY <1>1, <2>1, NoneDriven
    <3> QED
      BY <1>1, <1>2, <1>8, <3>1
  <2> QED
    BY <2>1 DEF Driven
<1>10. ASSUME NEW k \in Frames \ {g}, Exists(G, k)
       PROVE  Settled(G, "waiting", k) /\ HeldIn(G, "waiting", k) /\ ~Busy(G, k)
  <2>1. Settled(F, "waiting", k) /\ HeldIn(F, "waiting", k) /\ ~Busy(F, k) /\ G[k] = F[k]
    BY <1>2, <1>10
  <2>2. F[k].inner # 0 => F[k].inner \in Frames
    BY <1>2, <1>3, <1>10
  <2>3. \A j \in Frames : F[j].driver # "none" => G[j].driver # "none"
    BY <1>1
  <2>4. HeldIn(G, "waiting", k)
    BY <1>8, <2>1, <2>2, <2>3 DEF HeldIn
  <2>5. Settled(G, "waiting", k)
    BY <1>8, <2>1 DEF Settled
  <2> QED
    BY <1>2, <2>1, <2>4, <2>5 DEF Busy
<1>11. Settled(G, "waiting", g) /\ HeldIn(G, "waiting", g)
  BY DEF Settled, HeldIn, WaitsIn
<1>12. \A k \in Frames \ {g} : ~Busy(G, k)
  BY <1>10 DEF Busy
<1>13. Standing(G, "waiting")
  <2>1. \A k \in Frames : Exists(G, k) => Settled(G, "waiting", k) /\ HeldIn(G, "waiting", k)
    BY <1>10, <1>11
  <2>2. OneBusy(G, "waiting")
    BY <1>12 DEF OneBusy
  <2> QED
    BY <1>4, <1>5, <1>7, <1>9, <2>1, <2>2 DEF Standing, Consumers
<1>14. \A k \in Frames \ {g}, w \in 0..MaxValues : ~Carries(G, k, w)
  BY <1>12, GeneratorAssumption DEF Busy, Carries, Nothing
<1>15. \A w \in 0..MaxValues : Carries(G, g, w) <=> w = v
  BY <1>2, GeneratorAssumption DEF Carries, Nothing
<1> QED
  BY <1>13, <1>14, <1>15

LEMMA TakenInOrder ==
  ASSUME NEW t, InOrder(t), NEW v \in Nat, Len(t) + 1 = v
  PROVE  InOrder(Append(t, v)) /\ Len(Append(t, v)) = v
<1>1. t \in Seq(Nat) /\ Len(t) \in Nat /\ Append(t, v) \in Seq(Nat) /\ Len(Append(t, v)) = Len(t) + 1
  BY DEF InOrder
<1>2. \A i \in 1..Len(t) : t[i] = i
  BY DEF InOrder
<1>3. ASSUME NEW i \in 1..Len(Append(t, v))
      PROVE  Append(t, v)[i] = i
  <2>1. CASE i = v
    BY <1>1, <2>1
  <2>2. CASE i # v
    <3>1. i \in 1..Len(t)
      BY <1>1, <2>2
    <3> QED
      BY <1>1, <1>2, <3>1
  <2> QED
    BY <2>1, <2>2
<1> QED
  BY <1>1, <1>3 DEF InOrder

(* Giving a value, or the end, leaves the frames as they should be. *)
LEMMA GiveKeeps ==
  ASSUME NEW F, NEW g \in Frames, NEW v, Giving(F, consumer, made, taken, escaped, g, v),
         Give(F, g, v)
  PROVE  /\ Sound(frame', consumer', made', taken', escaped')
         /\ Spares(F, frame')
<1> USE DEF Giving
<1>1. /\ Paused(F, "waiting", g) /\ consumer = "waiting" /\ made \in 0..MaxValues /\ InOrder(taken)
      /\ v \in 0..MaxValues /\ escaped \in BOOLEAN /\ ~F[g].handler /\ F[g].body # "await"
  BY DEF Paused
<1>2. F \in [Frames -> Frame] /\ F[g].body \notin {"unborn", "destroyed"} /\ F[g].posted = Nothing
  BY <1>1 DEF Paused, Exists
<1>3. MaxValues \in Nat /\ End = 0 /\ Nothing = MaxValues + 1
  BY GeneratorAssumption DEF End, Nothing
<1>4. F[g] \in Frame
  BY <1>2
<1>5. made' = made /\ escaped' = escaped
  BY DEF Give, Receive
<1>6. CASE g = 1 /\ v = End
  <2> DEFINE d == IF Rethrows(F, 1) THEN "failed" ELSE "ended"
  <2>1. consumer' = d /\ frame' = DestroyFrom(F, 1) /\ taken' = taken
    BY <1>6 DEF Give, Receive
  <2>2. d \in {"ended", "failed", "left"} /\ (d = "ended" => ~escaped /\ Len(taken) = made)
    BY <1>6 DEF Rethrows
  <2>3. Nested(F) /\ Rooted(F, "waiting") /\ Gone(F) /\ Driven(F, "waiting")
    BY <1>1 DEF Paused
  <2> HIDE DEF d
  <2>4. /\ Sound(DestroyFrom(F, 1), d, made, taken, escaped)
        /\ Spares(F, DestroyFrom(F, 1))
    BY <1>1, <1>2, <2>2, <2>3, LeftKeeps
  <2> QED
    BY <1>5, <2>1, <2>4
<1>7. CASE g = 1 /\ v # End
  <2>1. /\ consumer' = "idle" /\ taken' = Append(taken, v)
        /\ frame' = [F EXCEPT ![1].forwarder = FALSE]
    BY <1>7 DEF Give, Receive
  <2>2. v = made /\ Len(taken) + 1 = made /\ ~escaped /\ v \in Nat
    BY <1>3, <1>7
  <2>3. InOrder(taken') /\ Len(taken') = made
    BY <1>1, <2>1, <2>2, TakenInOrder
  <2>4. /\ frame'[1] = [F[1] EXCEPT !.forwarder = FALSE]
        /\ \A k \in Frames \ {1} : frame'[k] = F[k]
        /\ frame' = [k \in Frames |-> frame'[k]]
    BY <1>2, <1>7, <2>1
  <2>5. /\ frame'[1] \in Frame
        /\ frame'[1].body = F[1].body /\ frame'[1].inner = F[1].inner
        /\ frame'[1].outer = F[1].outer /\ frame'[1].handler = F[1].handler
        /\ frame'[1].posted = F[1].posted /\ frame'[1].op = F[1].op
        /\ frame'[1].driver = F[1].driver
    BY <1>4, <1>7, <2>4 DEF Frame
  <2>6. frame' \in [Frames -> Frame]
    BY <1>2, <1>7, <2>4, <2>5
  <2>7. ~(F[1].body = "flat" /\ F[1].inner = 0)
    BY <1>7
  <2>8. /\ Standing(frame', "idle")
        /\ \A k \in Frames, w \in 0..MaxValues : ~Carries(frame', k, w)
    BY <1>1, <1>7, <2>4, <2>5, <2>6, <2>7, TakesKeeps
  <2>9. Values(frame', "idle", made', taken')
    BY <1>3, <1>5, <2>3, <2>8 DEF Values
  <2>10. Failures(frame', "idle", made', taken', escaped')
    BY <1>5, <2>2 DEF Failures
  <2>11. Spares(F, frame')
    BY <1>2, <1>7, <2>4 DEF Spares
  <2> QED
    BY <1>1, <1>5, <2>1, <2>8, <2>9, <2>10, <2>11 DEF Sound
<1>8. CASE g # 1
  <2>1. /\ frame' = [F EXCEPT ![g].driver = "resumed", ![g].got = v]
        /\ consumer' = "waiting" /\ taken' = taken
    BY <1>1, <1>8 DEF Give
  <2>2. /\ frame'[g] = [F[g] EXCEPT !.driver = "resumed", !.got = v]
        /\ \A k \in Frames \ {g} : frame'[k] = F[k]
        /\ frame' = [k \in Frames |-> frame'[k]]
    BY <1>2, <2>1
  <2>3. v \in 0..Nothing
    BY <1>1, <1>3
  <2>4. /\ frame'[g] \in Frame
        /\ frame'[g].body = F[g].body /\ frame'[g].inner = F[g].inner
        /\ frame'[g].outer = F[g].outer /\ frame'[g].handler = F[g].handler
        /\ frame'[g].posted = F[g].posted /\ frame'[g].op = F[g].op
        /\ frame'[g].thrown = F[g].thrown /\ frame'[g].driver = "resumed" /\ frame'[g].got = v
        /\ frame'[g].driverSignalled = F[g].driverSignalled
    BY <1>4, <2>2, <2>3 DEF Frame
  <2>5. frame' \in [Frames -> Frame]
    BY <1>2, <2>2, <2>4
  <2>6. /\ Standing(frame', "waiting")
        /\ \A k \in Frames, w \in 0..MaxValues : Carries(frame', k, w) <=> k = g /\ w = v
    <3>1. F[g].body = "flat" /\ F[g].inner = 0 => v = End /\ F[g].thrown
      OBVIOUS
    <3>2. g \in Frames \ {1}
      BY <1>8
    <3>3. \A k \in Frames \ {g} : frame'[k] = F[k]
      BY <2>2
    <3> HIDE DEF Giving
    <3> QED
      BY <1>1, <2>4, <2>5, <3>1, <3>2, <3>3, ResumesKeeps
  <2>7. Values(frame', "waiting", made', taken')
    <3>1. CASE v = End
      <4>1. \A k \in Frames, w \in 1..MaxValues : ~Carries(frame', k, w)
        BY <1>3, <2>6, <3>1
      <4> QED
        BY <1>1, <1>5, <2>1, <3>1, <4>1 DEF Values
    <3>2. CASE v # End
      <4>1. v \in 1..MaxValues /\ Carries(frame', g, v)
        BY <1>1, <1>3, <2>6, <3>2
      <4>2. \A k \in Frames, w \in 1..MaxValues : Carries(frame', k, w) => w = v
        BY <1>3, <2>6
      <4> QED
        BY <1>1, <1>5, <2>1, <3>2, <4>1, <4>2 DEF Values
    <3> QED
      BY <3>1, <3>2
  <2>8. Failures(frame', "waiting", made', taken', escaped')
    <3>1. ASSUME escaped PROVE Fails(frame', g)
      <4>1. v = End /\ F[g].thrown
        BY <3>1
      <4>2. Carries(frame', g, End)
        BY <1>1, <2>6, <4>1
      <4> QED
        BY <2>4, <4>1, <4>2 DEF Fails
    <3> QED
      BY <1>5, <3>1 DEF Failures
  <2>9. Spares(F, frame')
    BY <1>2, <2>2 DEF Spares
  <2> QED
    BY <1>1, <1>5, <2>1, <2>6, <2>7, <2>8, <2>9 DEF Sound
<1> QED
  BY <1>6, <1>7, <1>8

(* Only frames that are destroyed go on with what was still queued. *)
LEMMA DeadKeeps ==
  ASSUME NEW F, NEW G, NEW c, NEW n, NEW t, NEW e, Sound(F, c, n, t, e), G \in [Frames -> Frame],
         \A k \in Frames : F[k].body # "destroyed" => G[k] = F[k],
         \A k \in Frames :
           F[k].body = "destroyed" =>
             /\ G[k].body = "destroyed" /\ G[k].outer = F[k].outer
             /\ G[k].driverSignalled /\ ~G[k].handler /\ ~G[k].forwarder
             /\ G[k].driver # "none" => F[k].driver # "none"
             /\ G[k].driver = "resumed" => G[k].got # Nothing
  PROVE  Sound(G, c, n, t, e)
<1> USE DEF Sound, Standing
<1>1. \A k \in Frames : /\ Exists(G, k) <=> Exists(F, k)
                        /\ Exists(F, k) => G[k] = F[k]
                        /\ G[k].body = F[k].body /\ G[k].outer = F[k].outer
  BY DEF Exists
<1>2. 1 \in Frames
  BY GeneratorAssumption DEF Frames
<1>3. \A k \in Frames : Exists(F, k) /\ F[k].inner # 0 => F[k].inner \in Frames /\ Exists(F, F[k].inner)
  BY GeneratorAssumption DEF Nested, Frames
<1>4. Nested(G)
  <2>1. ASSUME NEW k \in Frames \ {1}, Exists(G, k)
        PROVE  G[k].outer \in 1..k - 1 /\ Exists(G, G[k].outer) /\ G[G[k].outer].inner = k
    <3>1. F[k].outer \in 1..k - 1 /\ Exists(F, F[k].outer) /\ F[F[k].outer].inner = k
      BY <1>1, <2>1 DEF Nested
    <3>2. F[k].outer \in Frames
      BY <3>1, GeneratorAssumption DEF Frames
    <3> QED
      BY <1>1, <2>1, <3>1, <3>2
  <2>2. ASSUME NEW k \in Frames, Exists(G, k), G[k].inner # 0
        PROVE  /\ G[k].body = "flat" /\ G[k].inner \in k + 1..MaxFrames
               /\ Exists(G, G[k].inner) /\ G[G[k].inner].outer = k
    BY <1>1, <1>3, <2>2 DEF Nested
  <2>3. \A j, k \in Frames : (Exists(G, j) /\ Exists(G, k) /\ j < k) => G[j].inner \in j + 1..k
    BY <1>1 DEF Nested
  <2>4. \A j, k \in Frames : (G[j].body = "unborn" /\ j < k) => G[k].body = "unborn"
    BY <1>1 DEF Nested
  <2> QED
    BY <2>1, <2>2, <2>3, <2>4 DEF Nested
<1>5. \A k \in Frames : Exists(F, k) => (WaitsIn(G, c, k) <=> WaitsIn(F, c, k))
  BY <1>1 DEF WaitsIn
<1>6. Gone(G)
  BY <1>1 DEF Gone
<1>7. Rooted(G, c)
  <2>1. G[1].driver = "none"
    BY <1>2 DEF Rooted
  <2> QED
    BY <1>1, <1>2, <2>1 DEF Rooted
<1>8. Driven(G, c)
  <2>1. ASSUME NEW k \in Frames, G[k].driver # "none"
        PROVE  /\ G[k].outer \in 1..k - 1
               /\ Exists(G, G[k].outer) => Exists(G, k) /\ WaitsIn(G, c, G[k].outer)
               /\ G[k].driver = "resumed" => G[k].got # Nothing
    <3>1. F[k].driver # "none"
      BY <2>1
    <3>2. /\ F[k].outer \in 1..k - 1
          /\ Exists(F, F[k].outer) => Exists(F, k) /\ WaitsIn(F, c, F[k].outer)
          /\ F[k].driver = "resumed" => F[k].got # Nothing
      BY <3>1 DEF Driven
    <3>3. F[k].outer \in Frames
      BY <3>2, GeneratorAssumption DEF Frames
    <3>4. G[k].driver = "resumed" => G[k].got # Nothing
      BY <3>2
    <3> QED
      BY <1>1, <1>5, <3>2, <3>3, <3>4
  <2> QED
    BY <2>1 DEF Driven
<1>9. ASSUME NEW k \in Frames, Exists(G, k)
      PROVE  Settled(G, c, k) /\ HeldIn(G, c, k)
  <2>1. Settled(F, c, k) /\ HeldIn(F, c, k) /\ G[k] = F[k] /\ Exists(F, k)
    BY <1>1, <1>9
  <2>2. WaitsIn(G, c, k) <=> WaitsIn(F, c, k)
    BY <1>5, <2>1
  <2>3. F[k].inner # 0 => G[F[k].inner] = F[F[k].inner]
    BY <1>1, <1>3, <2>1
  <2>4. HeldIn(G, c, k)
    BY <2>1, <2>2, <2>3 DEF HeldIn
  <2>5. Settled(G, c, k)
    BY <2>1, <2>2 DEF Settled
  <2> QED
    BY <2>4, <2>5
<1>10. \A k \in Frames : Busy(G, k) <=> Busy(F, k)
  BY <1>1 DEF Busy
<1>11. OneBusy(G, c)
  BY <1>10 DEF OneBusy
<1>12. \A k \in Frames, w \in 0..MaxValues : Carries(G, k, w) <=> Carries(F, k, w)
  BY <1>1 DEF Carries
<1>13. \A w \in 1..MaxValues : w \in 0..MaxValues
  OBVIOUS
<1>14. Values(G, c, n, t)
  BY <1>12, <1>13 DEF Values
<1>15. \A k \in Frames : Fails(F, k) => Fails(G, k)
  <2>1. End \in 0..MaxValues
    BY GeneratorAssumption DEF End
  <2>2. \A k \in Frames : Carries(F, k, End) => Exists(F, k)
    BY DEF Carries
  <2> QED
    BY <1>1, <1>12, <2>1, <2>2 DEF Fails
<1>16. Failures(G, c, n, t, e)
  BY <1>15 DEF Failures
<1> QED
  BY <1>4, <1>6, <1>7, <1>8, <1>9, <1>11, <1>14, <1>16

(* Cancellation and the end of an operation resume nobody. *)
LEMMA QuietKeeps ==
  ASSUME NEW F, NEW G, NEW c, NEW n, NEW t, NEW e, Sound(F, c, n, t, e), G \in [Frames -> Frame],
         \A k \in Frames :
           /\ G[k].body = F[k].body /\ G[k].inner = F[k].inner /\ G[k].outer = F[k].outer
           /\ G[k].thrown = F[k].thrown /\ G[k].handler = F[k].handler
           /\ G[k].posted = F[k].posted /\ G[k].driver = F[k].driver /\ G[k].got = F[k].got
           /\ G[k].forwarder = F[k].forwarder
           /\ G[k].op = "none" <=> F[k].op = "none"
           /\ F[k].driverSignalled => G[k].driverSignalled
  PROVE  Sound(G, c, n, t, e)
<1> USE DEF Sound, Standing
<1>1. SameShape(F, G) /\ \A k \in Frames : Exists(G, k) <=> Exists(F, k)
  BY DEF SameShape, Exists
<1>2. \A k \in Frames : Exists(F, k) /\ F[k].inner # 0 => F[k].inner \in Frames
  BY DEF Nested, Frames
<1>3. Nested(G)
  BY <1>1, <1>2, ShapeNested
<1>4. \A k \in Frames : WaitsIn(G, c, k) <=> WaitsIn(F, c, k)
  BY DEF WaitsIn
<1>5. Rooted(G, c)
  BY <1>1, GeneratorAssumption DEF Rooted, Frames
<1>6. Gone(G)
  BY DEF Gone
<1>7. Driven(G, c)
  <2>1. \A k \in Frames : \A o \in 1..k - 1 : o \in Frames
    BY GeneratorAssumption DEF Frames
  <2> QED
    BY <1>1, <1>4, <2>1 DEF Driven
<1>8. ASSUME NEW k \in Frames, Exists(G, k)
      PROVE  Settled(G, c, k) /\ HeldIn(G, c, k)
  <2>1. Settled(F, c, k) /\ HeldIn(F, c, k) /\ Exists(F, k)
    BY <1>1, <1>8
  <2>2. F[k].inner # 0 => G[F[k].inner].driver = F[F[k].inner].driver
    BY <1>2, <2>1
  <2>3. HeldIn(G, c, k)
    BY <1>4, <2>1, <2>2 DEF HeldIn
  <2>4. Settled(G, c, k)
    BY <1>4, <2>1 DEF Settled
  <2> QED
    BY <2>3, <2>4
<1>9. \A k \in Frames : Busy(G, k) <=> Busy(F, k)
  BY <1>1 DEF Busy
<1>10. OneBusy(G, c)
  BY <1>9 DEF OneBusy
<1>11. \A k \in Frames, w \in 0..MaxValues : Carries(G, k, w) <=> Carries(F, k, w)
  BY <1>1 DEF Carries
<1>12. \A w \in 1..MaxValues : w \in 0..MaxValues
  OBVIOUS
<1>13. Values(G, c, n, t)
  BY <1>11, <1>12 DEF Values
<1>14. \A k \in Frames : Fails(F, k) => Fails(G, k)
  <2>1. End \in 0..MaxValues
    BY GeneratorAssumption DEF End
  <2> QED
    BY <1>1, <1>11, <2>1 DEF Fails
<1>15. Failures(G, c, n, t, e)
  BY <1>14 DEF Failures
<1> QED
  BY <1>3, <1>5, <1>6, <1>7, <1>8, <1>10, <1>13, <1>15

-----------------------------------------------------------------------------
(* The steps.  A frame that is destroyed stays so, and is not driven.      *)
Untouched(F, G) ==
  \A k \in Frames :
    F[k].body = "destroyed" =>
      /\ G[k].body = "destroyed"
      /\ F[k].driver = "starting" => G[k].driver # "waiting"

(* Where one frame is busy, all that is on its way is there. *)
LEMMA Alone ==
  ASSUME NEW F, NEW c, NEW n, NEW t, NEW e, Sound(F, c, n, t, e), NEW g \in Frames, Busy(F, g)
  PROVE  /\ c = "waiting" /\ n \in 0..MaxValues /\ e \in BOOLEAN /\ InOrder(t)
         /\ \A h \in Frames \ {g} : ~Busy(F, h)
         /\ e => Fails(F, g)
         /\ \A v \in 1..MaxValues : Carries(F, g, v) => v = n /\ Len(t) + 1 = n
         /\ (\A v \in 1..MaxValues : ~Carries(F, g, v)) => Len(t) = n
<1> USE DEF Sound, Standing
<1>1. c = "waiting" /\ \A h \in Frames \ {g} : ~Busy(F, h)
  BY DEF OneBusy
<1>2. \A h \in Frames \ {g}, w \in 0..MaxValues : ~Carries(F, h, w)
  BY <1>1, GeneratorAssumption DEF Busy, Carries, Nothing
<1>3. \A h \in Frames \ {g} : ~Fails(F, h)
  <2>1. End \in 0..MaxValues
    BY GeneratorAssumption DEF End
  <2> QED
    BY <1>1, <1>2, <2>1 DEF Fails, Busy
<1>4. e => Fails(F, g)
  BY <1>1, <1>3 DEF Failures
<1>5. \A w \in 1..MaxValues : w \in 0..MaxValues
  OBVIOUS
<1>6. (\A v \in 1..MaxValues : ~Carries(F, g, v)) => Len(t) = n
  BY <1>1, <1>2, <1>5 DEF Values
<1>7. InOrder(t) /\ \A v \in 1..MaxValues : Carries(F, g, v) => v = n /\ Len(t) + 1 = n
  BY DEF Values
<1> QED
  BY <1>1, <1>4, <1>6, <1>7

(* In a sound state a frame's inner frame exists, and its driver waits for *)
(* nobody who does not wait.                                               *)
LEMMA InnerDriver ==
  ASSUME NEW F, NEW c, Standing(F, c), NEW g \in Frames, Exists(F, g), F[g].inner # 0
  PROVE  /\ F[g].body = "flat" /\ F[g].inner \in Frames /\ Exists(F, F[g].inner)
         /\ g < F[g].inner /\ F[F[g].inner].outer = g
         /\ F[F[g].inner].driver # "none" => WaitsIn(F, c, g)
<1> USE DEF Standing
<1>1. /\ F[g].body = "flat" /\ F[g].inner \in g + 1..MaxFrames /\ Exists(F, F[g].inner)
      /\ F[F[g].inner].outer = g
  BY DEF Nested
<1>2. F[g].inner \in Frames /\ g < F[g].inner
  BY <1>1, GeneratorAssumption DEF Frames
<1>3. F[F[g].inner].driver # "none" => WaitsIn(F, c, g)
  BY <1>1, <1>2 DEF Driven
<1> QED
  BY <1>1, <1>2, <1>3

LEMMA StepCallNext ==
  ASSUME GenInv, CallNext
  PROVE  GenInv' /\ Untouched(frame, frame')
<1> DEFINE H == Install(frame)
<1> USE DEF GenInv
<1>1. Sound(frame, "idle", made, taken, escaped) /\ consumer' = "waiting" /\ taken' = taken /\ Next1(H, 1)
  BY DEF CallNext
<1>2. Standing(frame, "idle") /\ made \in 0..MaxValues /\ escaped \in BOOLEAN
      /\ frame \in [Frames -> Frame]
  BY <1>1 DEF Sound, Standing
<1>3. 1 \in Frames /\ MaxValues \in Nat /\ End = 0 /\ Nothing = MaxValues + 1
  BY GeneratorAssumption DEF Frames, End, Nothing
<1>4. Exists(frame, 1) /\ frame[1].driver = "none"
  BY <1>2 DEF Standing, Rooted
<1>5. \A k \in Frames : ~Busy(frame, k)
  BY <1>2 DEF Standing, OneBusy
<1>6. ~frame[1].handler /\ frame[1].posted = Nothing
  BY <1>4, <1>5, <1>3 DEF Busy
<1>7. frame[1].body # "await" /\ frame[1].op = "none"
      /\ (frame[1].body = "flat" => frame[1].inner # 0)
  BY <1>2, <1>3, <1>4, <1>6 DEF Standing, Settled
<1>8. frame[1].inner # 0 => frame[1].inner \in Frames /\ frame[frame[1].inner].driver = "none"
  BY <1>2, <1>3, <1>4, InnerDriver DEF WaitsIn
<1>9. /\ H[1] = [frame[1] EXCEPT !.forwarder = TRUE]
      /\ \A k \in Frames \ {1} : H[k] = frame[k]
      /\ H = [k \in Frames |-> H[k]]
  BY <1>2, <1>3 DEF Install
<1> HIDE DEF H
<1>10. /\ H[1] \in Frame
       /\ H[1].body = frame[1].body /\ H[1].inner = frame[1].inner
       /\ H[1].outer = frame[1].outer /\ H[1].handler = frame[1].handler
       /\ H[1].posted = frame[1].posted /\ H[1].op = frame[1].op /\ H[1].driver = frame[1].driver
       /\ H[1].got = frame[1].got /\ H[1].driverSignalled = frame[1].driverSignalled
  <2>1. frame[1] \in Frame
    BY <1>2, <1>3
  <2> QED
    BY <1>9, <2>1 DEF Frame
<1>11. H \in [Frames -> Frame]
  BY <1>2, <1>9, <1>10
<1>12. SameShape(frame, H) /\ \A k \in Frames : Exists(H, k) <=> Exists(frame, k)
  BY <1>9, <1>10 DEF SameShape, Exists
<1>13. Nested(H)
  <2>1. \A k \in Frames : Exists(frame, k) /\ frame[k].inner # 0 => frame[k].inner \in Frames
    BY <1>2, InnerDriver
  <2> QED
    BY <1>2, <1>12, <2>1, ShapeNested DEF Standing
<1>14. Rooted(H, "waiting")
  BY <1>2, <1>3, <1>4, <1>10, <1>12 DEF Standing, Rooted
<1>15. Gone(H)
  <2>1. Gone(frame)
    BY <1>2 DEF Standing
  <2>2. H[1].body \notin {"unborn", "destroyed"}
    BY <1>4, <1>10 DEF Exists
  <2>3. \A k \in Frames : H[k] = frame[k] \/ H[k].body \notin {"unborn", "destroyed"}
    BY <1>9, <2>2
  <2>4. \A k \in Frames : H[k].outer = frame[k].outer
    BY <1>9, <1>10
  <2> QED
    BY <2>1, <2>3, <2>4 DEF Gone
<1>16. Driven(H, "waiting")
  <2>1. \A k \in Frames : \A o \in 1..k - 1 : o \in Frames
    BY GeneratorAssumption DEF Frames
  <2>2. \A k \in Frames : WaitsIn(frame, "idle", k) => WaitsIn(H, "waiting", k)
    BY <1>9 DEF WaitsIn
  <2>3. \A k \in Frames : H[k].driver = frame[k].driver /\ H[k].outer = frame[k].outer
                          /\ H[k].got = frame[k].got
    BY <1>9, <1>10
  <2>4. Driven(frame, "idle")
    BY <1>2 DEF Standing
  <2> QED
    BY <1>12, <2>1, <2>2, <2>3, <2>4 DEF Driven
<1>17. ASSUME NEW k \in Frames \ {1}, Exists(H, k)
       PROVE  Settled(H, "waiting", k) /\ HeldIn(H, "waiting", k) /\ ~Busy(H, k)
  <2>1. Settled(frame, "idle", k) /\ HeldIn(frame, "idle", k) /\ ~Busy(frame, k) /\ H[k] = frame[k]
        /\ Exists(frame, k)
    BY <1>2, <1>5, <1>9, <1>12, <1>17 DEF Standing
  <2>2. frame[k].inner # 0 => H[frame[k].inner].driver = frame[frame[k].inner].driver
    BY <1>2, <1>9, <1>10, <2>1, InnerDriver
  <2>3. WaitsIn(H, "waiting", k) <=> WaitsIn(frame, "idle", k)
    BY <2>1 DEF WaitsIn
  <2>4. HeldIn(H, "waiting", k)
    BY <2>1, <2>2, <2>3 DEF HeldIn
  <2>5. Settled(H, "waiting", k)
    BY <2>1, <2>3 DEF Settled
  <2> QED
    BY <2>1, <2>4, <2>5, <1>12 DEF Busy
<1>18. H[1].inner # 0 => H[H[1].inner].driver = "none"
  <2>1. \A k \in Frames : H[k].driver = frame[k].driver
    BY <1>9, <1>10
  <2> QED
    BY <1>8, <1>10, <2>1
<1>19. Paused(H, "waiting", 1)
  BY <1>3, <1>4, <1>6, <1>7, <1>10, <1>11, <1>12, <1>13, <1>14, <1>15, <1>16, <1>17, <1>18
     DEF Paused, WaitsIn
<1>20. InOrder(taken) /\ Len(taken) = made /\ escaped = FALSE
  <2>1. \A k \in Frames, v \in 1..MaxValues : ~Carries(frame, k, v)
    BY <1>3, <1>5 DEF Carries, Busy
  <2>2. \A k \in Frames : ~Fails(frame, k)
    BY <1>3, <1>5 DEF Fails, Carries, Busy
  <2> QED
    BY <1>1, <1>2, <2>1, <2>2 DEF Sound, Values, Failures
<1>21. Asked(H, consumer', made, taken', escaped, 1)
  BY <1>1, <1>2, <1>6, <1>7, <1>10, <1>19, <1>20 DEF Asked
<1>22. Sound(frame', consumer', made', taken', escaped') /\ Spares(H, frame')
  BY <1>1, <1>3, <1>21, NextKeeps
<1>23. Untouched(frame, frame')
  BY <1>4, <1>9, <1>22 DEF Untouched, Spares, Exists
<1> QED
  BY <1>22, <1>23

LEMMA StepLeave ==
  ASSUME GenInv, Leave
  PROVE  GenInv' /\ Untouched(frame, frame')
<1> USE DEF GenInv
<1>1. /\ consumer' = "left" /\ frame' = DestroyFrom(frame, 1)
      /\ made' = made /\ taken' = taken /\ escaped' = escaped
  BY DEF Leave
<1>2. /\ frame \in [Frames -> Frame] /\ Nested(frame) /\ Rooted(frame, consumer) /\ Gone(frame)
      /\ Driven(frame, consumer) /\ made \in 0..MaxValues /\ escaped \in BOOLEAN /\ InOrder(taken)
  BY DEF Sound, Standing, Values
<1>3. Sound(frame', "left", made, taken, escaped) /\ Spares(frame, frame')
  BY <1>1, <1>2, LeftKeeps
<1>4. Untouched(frame, frame')
  BY <1>3 DEF Spares, Untouched
<1> QED
  BY <1>1, <1>3, <1>4

LEMMA StepDeliver ==
  ASSUME GenInv, NEW g \in Frames, Deliver(g)
  PROVE  GenInv' /\ Untouched(frame, frame')
<1> DEFINE F == [frame EXCEPT ![g].posted = Nothing]
           v == frame[g].posted
<1> USE DEF GenInv
<1>1. Standing(frame, consumer) /\ frame \in [Frames -> Frame] /\ frame[g] \in Frame
  BY DEF Sound, Standing
<1>2. v # Nothing /\ v \in 0..MaxValues
  BY <1>1, GeneratorAssumption DEF Deliver, Frame, Nothing
<1>3. 1 \in Frames /\ MaxValues \in Nat /\ End = 0 /\ Nothing = MaxValues + 1 /\ Nothing \in 0..Nothing
  BY GeneratorAssumption DEF Frames, End, Nothing
<1>4. /\ F[g] = [frame[g] EXCEPT !.posted = Nothing]
      /\ \A k \in Frames \ {g} : F[k] = frame[k]
      /\ F = [k \in Frames |-> F[k]]
  BY <1>1
<1>5. \/ /\ (g = 1 /\ consumer = "waiting") \/ (g # 1 /\ frame[g].driver = "waiting")
         /\ Give(F, g, v)
      \/ /\ ~((g = 1 /\ consumer = "waiting") \/ (g # 1 /\ frame[g].driver = "waiting"))
         /\ frame' = F /\ UNCHANGED <<made, consumer, taken, escaped, restarted>>
  BY DEF Deliver
<1> HIDE DEF F
<1>6. /\ F[g] \in Frame /\ F[g].posted = Nothing
      /\ F[g].body = frame[g].body /\ F[g].inner = frame[g].inner
      /\ F[g].outer = frame[g].outer /\ F[g].handler = frame[g].handler
      /\ F[g].op = frame[g].op /\ F[g].driver = frame[g].driver /\ F[g].thrown = frame[g].thrown
      /\ F[g].got = frame[g].got /\ F[g].driverSignalled = frame[g].driverSignalled
      /\ F[g].forwarder = frame[g].forwarder
  BY <1>1, <1>3, <1>4 DEF Frame
<1>7. F \in [Frames -> Frame]
  BY <1>1, <1>4, <1>6
<1>8. CASE Exists(frame, g)
  <2>1. Busy(frame, g)
    BY <1>2, <1>8 DEF Busy
  <2>2. Settled(frame, consumer, g)
    BY <1>1, <1>8 DEF Standing
  <2>3. frame[g].body \in {"yield", "done"} /\ WaitsIn(frame, consumer, g) /\ ~frame[g].handler
        /\ frame[g].op = "none"
    BY <1>2, <2>2 DEF Settled
  <2>4. Give(F, g, v)
    BY <1>5, <2>3 DEF WaitsIn
  <2>5. /\ consumer = "waiting" /\ made \in 0..MaxValues /\ escaped \in BOOLEAN /\ InOrder(taken)
        /\ \A h \in Frames \ {g} : ~Busy(frame, h)
        /\ escaped => Fails(frame, g)
        /\ \A w \in 1..MaxValues : Carries(frame, g, w) => w = made /\ Len(taken) + 1 = made
        /\ (\A w \in 1..MaxValues : ~Carries(frame, g, w)) => Len(taken) = made
    BY <2>1, Alone
  <2>6. frame[g].inner = 0
    BY <1>1, <1>8, <2>3, InnerDriver
  <2>7. SameShape(frame, F) /\ \A k \in Frames : Exists(F, k) <=> Exists(frame, k)
    BY <1>4, <1>6 DEF SameShape, Exists
  <2>8. Nested(F)
    <3>1. \A k \in Frames : Exists(frame, k) /\ frame[k].inner # 0 => frame[k].inner \in Frames
      BY <1>1, InnerDriver
    <3> QED
      BY <1>1, <2>7, <3>1, ShapeNested DEF Standing
  <2>9. \A k \in Frames : WaitsIn(F, consumer, k) <=> WaitsIn(frame, consumer, k)
    BY <1>4, <1>6 DEF WaitsIn
  <2>10. Rooted(F, consumer)
    BY <1>1, <1>3, <1>4, <1>6, <2>7 DEF Standing, Rooted
  <2>11. Gone(F)
    <3>1. Gone(frame)
      BY <1>1 DEF Standing
    <3>2. F[g].body \notin {"unborn", "destroyed"}
      BY <1>6, <1>8 DEF Exists
    <3>3. \A k \in Frames : F[k] = frame[k] \/ F[k].body \notin {"unborn", "destroyed"}
      BY <1>4, <3>2
    <3>4. \A k \in Frames : F[k].outer = frame[k].outer
      BY <1>4, <1>6
    <3> QED
      BY <3>1, <3>3, <3>4 DEF Gone
  <2>12. Driven(F, consumer)
    <3>1. \A k \in Frames : \A o \in 1..k - 1 : o \in Frames
      BY GeneratorAssumption DEF Frames
    <3>2. \A k \in Frames : F[k].driver = frame[k].driver /\ F[k].outer = frame[k].outer
                            /\ F[k].got = frame[k].got
      BY <1>4, <1>6
    <3>3. Driven(frame, consumer)
      BY <1>1 DEF Standing
    <3> QED
      BY <2>7, <2>9, <3>1, <3>2, <3>3 DEF Driven
  <2>13. ASSUME NEW k \in Frames \ {g}, Exists(F, k)
         PROVE  Settled(F, consumer, k) /\ HeldIn(F, consumer, k) /\ ~Busy(F, k)
    <3>1. Settled(frame, consumer, k) /\ HeldIn(frame, consumer, k) /\ ~Busy(frame, k)
          /\ F[k] = frame[k] /\ Exists(frame, k)
      BY <1>1, <1>4, <2>5, <2>7, <2>13 DEF Standing
    <3>2. frame[k].inner # 0 => F[frame[k].inner].driver = frame[frame[k].inner].driver
      BY <1>1, <1>4, <1>6, <3>1, InnerDriver
    <3>3. HeldIn(F, consumer, k)
      BY <2>9, <3>1, <3>2 DEF HeldIn
    <3>4. Settled(F, consumer, k)
      BY <2>9, <3>1 DEF Settled
    <3> QED
      BY <3>1, <3>3, <3>4, <2>7 DEF Busy
  <2>14. Paused(F, consumer, g)
    BY <1>6, <1>7, <1>8, <2>3, <2>5, <2>6, <2>7, <2>8, <2>9, <2>10, <2>11, <2>12, <2>13 DEF Paused
  <2>15. frame[g].driver # "resumed" /\ frame[g].driver # "aborted"
    BY <1>1, <2>3 DEF WaitsIn, Standing, Rooted
  <2>16. \A w \in 0..MaxValues : Carries(frame, g, w) <=> w = v
    BY <1>8, <2>15 DEF Carries
  <2>17. v # End => v = made /\ Len(taken) + 1 = made /\ ~escaped
    <3>1. SUFFICES ASSUME v # End
                   PROVE  v = made /\ Len(taken) + 1 = made /\ ~escaped
      OBVIOUS
    <3>2. v \in 1..MaxValues
      BY <1>2, <1>3, <3>1
    <3>3. v = made /\ Len(taken) + 1 = made
      BY <1>2, <2>5, <2>16, <3>2
    <3>4. ~Fails(frame, g)
      BY <1>2, <1>3, <2>15, <2>16, <3>1 DEF Fails
    <3> QED
      BY <2>5, <3>3, <3>4
  <2>18. v = End => Len(taken) = made /\ (escaped => F[g].thrown)
    <3>1. SUFFICES ASSUME v = End
                   PROVE  Len(taken) = made /\ (escaped => F[g].thrown)
      OBVIOUS
    <3>2. \A w \in 1..MaxValues : ~Carries(frame, g, w)
      BY <1>3, <2>16, <3>1
    <3>3. Fails(frame, g) => frame[g].thrown
      BY <2>15 DEF Fails
    <3> QED
      BY <1>6, <2>5, <3>2, <3>3
  <2>19. Giving(F, consumer, made, taken, escaped, g, v)
    <3>1. ~F[g].handler /\ F[g].body \notin {"await", "flat"}
      BY <1>6, <2>3
    <3> HIDE DEF v
    <3> QED
      BY <1>2, <2>5, <2>14, <2>17, <2>18, <3>1 DEF Giving
  <2>20. Sound(frame', consumer', made', taken', escaped') /\ Spares(F, frame')
    <3> HIDE DEF v
    <3> QED
      BY <2>4, <2>19, GiveKeeps
  <2>21. Untouched(frame, frame')
    BY <1>4, <1>8, <2>20 DEF Untouched, Spares, Exists
  <2> QED
    BY <2>20, <2>21
<1>9. CASE ~Exists(frame, g)
  <2>1. frame[g].body = "destroyed"
    BY <1>1, <1>2, <1>9 DEF Standing, Gone, Exists
  <2>2. frame[g].driverSignalled /\ ~frame[g].handler /\ ~frame[g].forwarder
    BY <1>1, <2>1 DEF Standing, Gone
  <2>3. g = 1 => consumer # "waiting"
    BY <1>1, <1>9 DEF Standing, Rooted
  <2>4. /\ frame' \in [Frames -> Frame] /\ \A k \in Frames \ {g} : frame'[k] = frame[k]
        /\ frame'[g].body = "destroyed" /\ frame'[g].outer = frame[g].outer
        /\ frame'[g].driverSignalled /\ ~frame'[g].handler /\ ~frame'[g].forwarder
        /\ frame'[g].driver # "none" => frame[g].driver # "none"
        /\ frame'[g].driver = "resumed" => frame'[g].got # Nothing
        /\ frame[g].driver = "starting" => frame'[g].driver # "waiting"
        /\ made' = made /\ consumer' = consumer /\ taken' = taken /\ escaped' = escaped
    <3>1. CASE g # 1 /\ frame[g].driver = "waiting"
      <4>1. /\ frame' = [F EXCEPT ![g].driver = "resumed", ![g].got = v]
            /\ made' = made /\ consumer' = consumer /\ taken' = taken /\ escaped' = escaped
        BY <1>5, <3>1 DEF Give
      <4>2. /\ frame'[g] = [F[g] EXCEPT !.driver = "resumed", !.got = v]
            /\ \A k \in Frames \ {g} : frame'[k] = F[k]
            /\ frame' = [k \in Frames |-> frame'[k]]
        BY <1>7, <4>1
      <4>3. v \in 0..Nothing
        BY <1>2, <1>3
      <4>4. /\ frame'[g] \in Frame /\ frame'[g].body = F[g].body /\ frame'[g].outer = F[g].outer
            /\ frame'[g].driverSignalled = F[g].driverSignalled
            /\ frame'[g].handler = F[g].handler /\ frame'[g].forwarder = F[g].forwarder
            /\ frame'[g].driver = "resumed" /\ frame'[g].got = v
        BY <1>6, <4>2, <4>3, ZenonT(40) DEF Frame
      <4>5. frame' \in [Frames -> Frame]
        BY <1>7, <4>2, <4>4
      <4> QED
        BY <1>2, <1>4, <1>6, <2>1, <2>2, <3>1, <4>1, <4>2, <4>4, <4>5
    <3>2. CASE ~(g # 1 /\ frame[g].driver = "waiting")
      <4>1. frame' = F /\ made' = made /\ consumer' = consumer /\ taken' = taken /\ escaped' = escaped
        BY <1>5, <2>3, <3>2
      <4>2. frame[g].driver = "resumed" => frame[g].got # Nothing
        BY <1>1 DEF Standing, Driven
      <4> QED
        BY <1>4, <1>6, <1>7, <2>1, <2>2, <4>1, <4>2
    <3> QED
      BY <3>1, <3>2
  <2>5. Sound(frame', consumer, made, taken, escaped)
    <3>1. \A k \in Frames : frame[k].body # "destroyed" => frame'[k] = frame[k]
      BY <2>1, <2>4
    <3>2. \A k \in Frames :
            frame[k].body = "destroyed" =>
              /\ frame'[k].body = "destroyed" /\ frame'[k].outer = frame[k].outer
              /\ frame'[k].driverSignalled /\ ~frame'[k].handler /\ ~frame'[k].forwarder
              /\ frame'[k].driver # "none" => frame[k].driver # "none"
              /\ frame'[k].driver = "resumed" => frame'[k].got # Nothing
      BY <1>1, <2>4 DEF Standing, Gone, Driven
    <3> QED
      BY <2>4, <3>1, <3>2, DeadKeeps
  <2>6. Untouched(frame, frame')
    BY <2>1, <2>4 DEF Untouched
  <2> QED
    BY <2>4, <2>5, <2>6
<1> QED
  BY <1>8, <1>9

LEMMA StepDrives ==
  ASSUME GenInv, NEW g \in Frames, Drives(g)
  PROVE  GenInv' /\ Untouched(frame, frame')
<1> USE DEF GenInv
<1>1. /\ Standing(frame, consumer) /\ frame \in [Frames -> Frame] /\ frame[g] \in Frame
      /\ frame[g].driver = "starting" /\ consumer' = consumer /\ taken' = taken
  BY DEF Sound, Standing, Drives
<1>2. 1 \in Frames /\ MaxValues \in Nat /\ End = 0 /\ Nothing = MaxValues + 1 /\ g # 1
  BY <1>1, GeneratorAssumption DEF Frames, End, Nothing, Standing, Rooted
<1>3. CASE Exists(frame, g)
  <2>1. Busy(frame, g)
    BY <1>1, <1>3 DEF Busy
  <2>2. /\ consumer = "waiting" /\ made \in 0..MaxValues /\ escaped \in BOOLEAN /\ InOrder(taken)
        /\ \A h \in Frames \ {g} : ~Busy(frame, h)
        /\ escaped => Fails(frame, g)
        /\ \A w \in 1..MaxValues : Carries(frame, g, w) => w = made /\ Len(taken) + 1 = made
        /\ (\A w \in 1..MaxValues : ~Carries(frame, g, w)) => Len(taken) = made
    BY <2>1, Alone
  <2>3. Settled(frame, consumer, g) /\ ~WaitsIn(frame, consumer, g)
    BY <1>1, <1>2, <1>3 DEF Standing, WaitsIn
  <2>4. /\ ~frame[g].handler /\ frame[g].posted = Nothing /\ frame[g].body # "await"
        /\ frame[g].op = "none" /\ (frame[g].body = "flat" => frame[g].inner # 0)
    BY <1>1, <2>3 DEF Settled
  <2>5. frame[g].inner # 0 => frame[g].inner \in Frames /\ frame[frame[g].inner].driver = "none"
                              /\ frame[g].inner # g
    <3>1. ~(g < g)
      BY GeneratorAssumption DEF Frames
    <3> QED
      BY <1>1, <1>3, <2>3, <3>1, InnerDriver
  <2>6. \A w \in 0..MaxValues : ~Carries(frame, g, w)
    BY <1>1, <1>2, <2>4 DEF Carries
  <2>7. Len(taken) = made /\ ~escaped
    <3>1. ~Fails(frame, g)
      BY <1>1, <1>2, <2>6 DEF Fails
    <3>2. \A w \in 1..MaxValues : ~Carries(frame, g, w)
      BY <2>6
    <3> QED
      BY <2>2, <3>1, <3>2
  <2>8. ASSUME NEW H, NEW d \in {"waiting", "aborted"}, H = [frame EXCEPT ![g].driver = d]
        PROVE  /\ H \in [Frames -> Frame] /\ \A k \in Frames \ {g} : H[k] = frame[k]
               /\ H[g].driver = d
               /\ H[g].body = frame[g].body /\ H[g].inner = frame[g].inner
               /\ H[g].outer = frame[g].outer /\ H[g].handler = frame[g].handler
               /\ H[g].posted = frame[g].posted /\ H[g].op = frame[g].op
               /\ H[g].thrown = frame[g].thrown /\ H[g].got = frame[g].got
               /\ \A k \in Frames : Exists(H, k) <=> Exists(frame, k)
               /\ Nested(H) /\ Rooted(H, consumer) /\ Gone(H) /\ Driven(H, consumer)
               /\ \A k \in Frames \ {g} :
                    Exists(H, k) => Settled(H, consumer, k) /\ HeldIn(H, consumer, k) /\ ~Busy(H, k)
    <3>1. /\ H[g] = [frame[g] EXCEPT !.driver = d]
          /\ \A k \in Frames \ {g} : H[k] = frame[k]
          /\ H = [k \in Frames |-> H[k]]
      BY <1>1, <2>8
    <3>2. /\ H[g] \in Frame /\ H[g].driver = d
          /\ H[g].body = frame[g].body /\ H[g].inner = frame[g].inner
          /\ H[g].outer = frame[g].outer /\ H[g].handler = frame[g].handler
          /\ H[g].posted = frame[g].posted /\ H[g].op = frame[g].op
          /\ H[g].thrown = frame[g].thrown /\ H[g].got = frame[g].got
      BY <1>1, <3>1 DEF Frame
    <3>3. H \in [Frames -> Frame]
      BY <1>1, <3>1, <3>2
    <3>4. SameShape(frame, H) /\ \A k \in Frames : Exists(H, k) <=> Exists(frame, k)
      BY <3>1, <3>2 DEF SameShape, Exists
    <3>5. Nested(H)
      <4>1. \A k \in Frames : Exists(frame, k) /\ frame[k].inner # 0 => frame[k].inner \in Frames
        BY <1>1, InnerDriver
      <4> QED
        BY <1>1, <3>4, <4>1, ShapeNested DEF Standing
    <3>6. Rooted(H, consumer)
      BY <1>1, <1>2, <3>1, <3>4 DEF Standing, Rooted
    <3>7. Gone(H)
      <4>1. Gone(frame)
        BY <1>1 DEF Standing
      <4>2. H[g].body \notin {"unborn", "destroyed"}
        BY <3>2, <1>3 DEF Exists
      <4>3. \A k \in Frames : H[k] = frame[k] \/ H[k].body \notin {"unborn", "destroyed"}
        BY <3>1, <4>2
      <4>4. \A k \in Frames : H[k].outer = frame[k].outer
        BY <3>1, <3>2
      <4> QED
        BY <4>1, <4>3, <4>4 DEF Gone
    <3>8. \A k \in Frames \ {g} : WaitsIn(H, consumer, k) <=> WaitsIn(frame, consumer, k)
      BY <3>1 DEF WaitsIn
    <3>9. Driven(H, consumer)
      <4>1. ASSUME NEW k \in Frames, H[k].driver # "none"
            PROVE  /\ H[k].outer \in 1..k - 1
                   /\ Exists(H, H[k].outer) => Exists(H, k) /\ WaitsIn(H, consumer, H[k].outer)
                   /\ H[k].driver = "resumed" => H[k].got # Nothing
        <5>1. frame[k].driver # "none" /\ H[k].outer = frame[k].outer
              /\ (H[k].driver = "resumed" => frame[k].driver = "resumed" /\ H[k].got = frame[k].got)
          BY <1>1, <2>8, <3>1, <3>2, <4>1
        <5>2. /\ frame[k].outer \in 1..k - 1
              /\ Exists(frame, frame[k].outer) => Exists(frame, k) /\ WaitsIn(frame, consumer, frame[k].outer)
              /\ frame[k].driver = "resumed" => frame[k].got # Nothing
          BY <1>1, <5>1 DEF Standing, Driven
        <5>3. frame[k].outer \in Frames
          BY <5>2, GeneratorAssumption DEF Frames
        <5>4. WaitsIn(frame, consumer, frame[k].outer) => frame[k].outer # g
          BY <2>3
        <5> QED
          BY <3>1, <3>4, <3>8, <5>1, <5>2, <5>3, <5>4
      <4> QED
        BY <4>1 DEF Driven
    <3>10. ASSUME NEW k \in Frames \ {g}, Exists(H, k)
           PROVE  Settled(H, consumer, k) /\ HeldIn(H, consumer, k) /\ ~Busy(H, k)
      <4>1. Settled(frame, consumer, k) /\ HeldIn(frame, consumer, k) /\ ~Busy(frame, k)
            /\ H[k] = frame[k] /\ Exists(frame, k)
        BY <1>1, <2>2, <3>1, <3>4, <3>10 DEF Standing
      <4>2. \A j \in Frames : frame[j].driver # "none" => H[j].driver # "none"
        BY <3>1, <3>2
      <4>3. frame[k].inner # 0 => frame[k].inner \in Frames
        BY <1>1, <4>1, InnerDriver
      <4>4. HeldIn(H, consumer, k)
        BY <3>8, <4>1, <4>2, <4>3 DEF HeldIn
      <4>5. Settled(H, consumer, k)
        BY <3>8, <4>1 DEF Settled
      <4> QED
        BY <4>1, <4>4, <4>5, <3>4 DEF Busy
    <3> QED
      BY <3>1, <3>2, <3>3, <3>4, <3>5, <3>6, <3>7, <3>9, <3>10
  <2>9. CASE frame[g].driverSignalled
    <3>1. frame' = [frame EXCEPT ![g].driver = "aborted"] /\ escaped' = TRUE /\ made' = made
      BY <1>3, <2>9 DEF Drives
    <3>2. /\ frame' \in [Frames -> Frame] /\ \A k \in Frames \ {g} : frame'[k] = frame[k]
          /\ frame'[g].driver = "aborted"
          /\ frame'[g].body = frame[g].body /\ frame'[g].inner = frame[g].inner
          /\ frame'[g].handler = frame[g].handler
          /\ frame'[g].posted = frame[g].posted /\ frame'[g].op = frame[g].op
          /\ \A k \in Frames : Exists(frame', k) <=> Exists(frame, k)
          /\ Nested(frame') /\ Rooted(frame', consumer) /\ Gone(frame') /\ Driven(frame', consumer)
          /\ \A k \in Frames \ {g} :
               Exists(frame', k) =>
                 Settled(frame', consumer, k) /\ HeldIn(frame', consumer, k) /\ ~Busy(frame', k)
      BY <2>8, <3>1
    <3>3. ~WaitsIn(frame', consumer, g)
      BY <1>2, <3>2 DEF WaitsIn
    <3>4. Settled(frame', consumer, g) /\ HeldIn(frame', consumer, g)
      BY <2>4, <3>2, <3>3 DEF Settled, HeldIn
    <3>5. \A k \in Frames \ {g} : ~Busy(frame', k)
      BY <3>2 DEF Busy
    <3>6. Standing(frame', consumer)
      <4>1. OneBusy(frame', consumer)
        BY <2>2, <3>5 DEF OneBusy
      <4>2. \A k \in Frames : Exists(frame', k) => Settled(frame', consumer, k) /\ HeldIn(frame', consumer, k)
        BY <3>2, <3>4
      <4> QED
        BY <2>2, <3>2, <4>1, <4>2 DEF Standing, Consumers
    <3>7. \A k \in Frames, w \in 1..MaxValues : ~Carries(frame', k, w)
      <4>1. \A k \in Frames \ {g}, w \in 1..MaxValues : ~Carries(frame', k, w)
        BY <1>2, <3>5 DEF Busy, Carries
      <4>2. \A w \in 1..MaxValues : ~Carries(frame', g, w)
        BY <1>2, <2>4, <3>2 DEF Carries
      <4> QED
        BY <4>1, <4>2
    <3>8. Values(frame', consumer, made, taken)
      BY <2>2, <2>7, <3>7 DEF Values
    <3>9. Failures(frame', consumer, made, taken, TRUE)
      <4>1. Fails(frame', g)
        BY <1>3, <3>2 DEF Fails
      <4> QED
        BY <2>2, <4>1 DEF Failures
    <3>10. Untouched(frame, frame')
      BY <1>3, <3>2 DEF Untouched, Exists
    <3> QED
      BY <1>1, <2>2, <3>1, <3>6, <3>8, <3>9, <3>10 DEF Sound
  <2>10. CASE ~frame[g].driverSignalled
    <3> DEFINE H == [frame EXCEPT ![g].driver = "waiting"]
    <3>1. Next1(H, g)
      BY <2>10 DEF Drives
    <3>2. /\ H \in [Frames -> Frame] /\ \A k \in Frames \ {g} : H[k] = frame[k]
          /\ H[g].driver = "waiting"
          /\ H[g].body = frame[g].body /\ H[g].inner = frame[g].inner
          /\ H[g].handler = frame[g].handler
          /\ H[g].posted = frame[g].posted /\ H[g].op = frame[g].op
          /\ \A k \in Frames : Exists(H, k) <=> Exists(frame, k)
          /\ Nested(H) /\ Rooted(H, consumer) /\ Gone(H) /\ Driven(H, consumer)
          /\ \A k \in Frames \ {g} :
               Exists(H, k) => Settled(H, consumer, k) /\ HeldIn(H, consumer, k) /\ ~Busy(H, k)
      <4> DEFINE J == H
      <4>1. J = [frame EXCEPT ![g].driver = "waiting"]
        OBVIOUS
      <4> HIDE DEF J
      <4>2. /\ J \in [Frames -> Frame] /\ \A k \in Frames \ {g} : J[k] = frame[k]
            /\ J[g].driver = "waiting"
            /\ J[g].body = frame[g].body /\ J[g].inner = frame[g].inner
            /\ J[g].handler = frame[g].handler
            /\ J[g].posted = frame[g].posted /\ J[g].op = frame[g].op
            /\ \A k \in Frames : Exists(J, k) <=> Exists(frame, k)
            /\ Nested(J) /\ Rooted(J, consumer) /\ Gone(J) /\ Driven(J, consumer)
            /\ \A k \in Frames \ {g} :
                 Exists(J, k) => Settled(J, consumer, k) /\ HeldIn(J, consumer, k) /\ ~Busy(J, k)
        BY <2>8, <4>1
      <4> QED
        BY <4>2 DEF J
    <3> HIDE DEF H
    <3>3. WaitsIn(H, consumer, g)
      BY <1>2, <3>2 DEF WaitsIn
    <3>4. H[g].inner # 0 => H[H[g].inner].driver = "none"
      BY <2>5, <3>2
    <3>5. Paused(H, consumer, g)
      BY <1>3, <2>2, <2>4, <3>2, <3>3, <3>4 DEF Paused
    <3>6. Asked(H, consumer', made, taken', escaped, g)
      BY <1>1, <2>2, <2>4, <2>7, <3>2, <3>5 DEF Asked
    <3>7. Sound(frame', consumer', made', taken', escaped') /\ Spares(H, frame')
      BY <3>1, <3>6, NextKeeps
    <3>8. Untouched(frame, frame')
      BY <1>3, <3>2, <3>7 DEF Untouched, Spares, Exists
    <3> QED
      BY <3>7, <3>8
  <2> QED
    BY <2>9, <2>10
<1>4. CASE ~Exists(frame, g)
  <2>1. frame[g].body = "destroyed" /\ frame[g].driverSignalled /\ ~frame[g].handler
        /\ ~frame[g].forwarder
    BY <1>1, <1>4 DEF Standing, Gone, Exists
  <2>2. frame' = [frame EXCEPT ![g].driver = "aborted"] /\ made' = made /\ escaped' = escaped
    <3>1. frame' = [frame EXCEPT ![g].driver = "aborted"] /\ made' = made
          /\ escaped' = (escaped \/ Exists(frame, g))
      BY <2>1 DEF Drives
    <3>2. escaped \in BOOLEAN
      BY DEF Sound
    <3> QED
      BY <1>4, <3>1, <3>2
  <2>3. /\ frame'[g] = [frame[g] EXCEPT !.driver = "aborted"]
        /\ \A k \in Frames \ {g} : frame'[k] = frame[k]
        /\ frame' = [k \in Frames |-> frame'[k]]
    BY <1>1, <2>2
  <2>4. /\ frame'[g] \in Frame /\ frame'[g].body = "destroyed" /\ frame'[g].outer = frame[g].outer
        /\ frame'[g].driverSignalled /\ ~frame'[g].handler /\ ~frame'[g].forwarder
        /\ frame'[g].driver = "aborted"
    BY <1>1, <2>1, <2>3 DEF Frame
  <2>5. frame' \in [Frames -> Frame]
    BY <1>1, <2>3, <2>4
  <2>6. Sound(frame', consumer, made, taken, escaped)
    <3>1. \A k \in Frames : frame[k].body # "destroyed" => frame'[k] = frame[k]
      BY <2>1, <2>3
    <3>2. \A k \in Frames :
            frame[k].body = "destroyed" =>
              /\ frame'[k].body = "destroyed" /\ frame'[k].outer = frame[k].outer
              /\ frame'[k].driverSignalled /\ ~frame'[k].handler /\ ~frame'[k].forwarder
              /\ frame'[k].driver # "none" => frame[k].driver # "none"
              /\ frame'[k].driver = "resumed" => frame'[k].got # Nothing
      BY <1>1, <2>3, <2>4, ZenonT(40) DEF Standing, Gone, Driven
    <3> QED
      BY <2>5, <3>1, <3>2, DeadKeeps
  <2>7. Untouched(frame, frame')
    BY <2>3, <2>4 DEF Untouched
  <2> QED
    BY <1>1, <2>2, <2>6, <2>7
<1> QED
  BY <1>3, <1>4

LEMMA StepOp ==
  ASSUME GenInv, NEW g \in Frames, OpEnds(g) \/ OpStopped(g)
  PROVE  GenInv' /\ Untouched(frame, frame')
<1> USE DEF GenInv
<1>1. frame \in [Frames -> Frame] /\ frame[g] \in Frame
  BY DEF Sound, Standing
<1>2. PICK o \in {"ok", "failed"} : frame' = [frame EXCEPT ![g].op = o]
  BY DEF OpEnds, OpStopped
<1>3. /\ frame[g].op # "none" /\ made' = made /\ consumer' = consumer /\ taken' = taken
      /\ escaped' = escaped
  BY DEF OpEnds, OpStopped
<1>4. /\ frame'[g] = [frame[g] EXCEPT !.op = o]
      /\ \A k \in Frames \ {g} : frame'[k] = frame[k]
      /\ frame' = [k \in Frames |-> frame'[k]]
  BY <1>1, <1>2
<1>5. /\ frame'[g] \in Frame /\ frame'[g].op = o
      /\ frame'[g].body = frame[g].body /\ frame'[g].inner = frame[g].inner
      /\ frame'[g].outer = frame[g].outer /\ frame'[g].thrown = frame[g].thrown
      /\ frame'[g].handler = frame[g].handler /\ frame'[g].posted = frame[g].posted
      /\ frame'[g].driver = frame[g].driver /\ frame'[g].got = frame[g].got
      /\ frame'[g].forwarder = frame[g].forwarder
      /\ frame'[g].driverSignalled = frame[g].driverSignalled
  BY <1>1, <1>4 DEF Frame
<1>6. frame' \in [Frames -> Frame]
  BY <1>1, <1>4, <1>5
<1>7. ASSUME NEW k \in Frames
      PROVE  /\ frame'[k].body = frame[k].body /\ frame'[k].inner = frame[k].inner
             /\ frame'[k].outer = frame[k].outer /\ frame'[k].thrown = frame[k].thrown
             /\ frame'[k].handler = frame[k].handler /\ frame'[k].posted = frame[k].posted
             /\ frame'[k].driver = frame[k].driver /\ frame'[k].got = frame[k].got
             /\ frame'[k].forwarder = frame[k].forwarder
             /\ frame'[k].op = "none" <=> frame[k].op = "none"
             /\ frame[k].driverSignalled => frame'[k].driverSignalled
  BY <1>2, <1>3, <1>4, <1>5
<1>8. Sound(frame', consumer, made, taken, escaped)
  BY <1>6, <1>7, QuietKeeps
<1>9. Untouched(frame, frame')
  BY <1>7 DEF Untouched
<1> QED
  BY <1>3, <1>8, <1>9

LEMMA StepCancel ==
  ASSUME GenInv, Cancel
  PROVE  GenInv' /\ Untouched(frame, frame')
<1> USE DEF GenInv
<1>1. frame \in [Frames -> Frame]
  BY DEF Sound, Standing
<1>2. made' = made /\ consumer' = consumer /\ taken' = taken /\ escaped' = escaped
  BY DEF Cancel
<1>3. frame' = [k \in Frames |->
                  [frame[k] EXCEPT !.opSignalled = @ \/ k \in Reached,
                                   !.driverSignalled = @ \/ frame[k].outer \in Reached]]
  BY DEF Cancel
<1>4. ASSUME NEW k \in Frames
      PROVE  /\ frame'[k] \in Frame
             /\ frame'[k].body = frame[k].body /\ frame'[k].inner = frame[k].inner
             /\ frame'[k].outer = frame[k].outer /\ frame'[k].thrown = frame[k].thrown
             /\ frame'[k].handler = frame[k].handler /\ frame'[k].posted = frame[k].posted
             /\ frame'[k].driver = frame[k].driver /\ frame'[k].got = frame[k].got
             /\ frame'[k].forwarder = frame[k].forwarder
             /\ frame'[k].op = frame[k].op
             /\ frame[k].driverSignalled => frame'[k].driverSignalled
  <2> DEFINE a == k \in Reached
             b == frame[k].outer \in Reached
  <2>1. frame'[k] = [frame[k] EXCEPT !.opSignalled = @ \/ a, !.driverSignalled = @ \/ b]
    BY <1>3
  <2>2. frame[k] \in Frame /\ a \in BOOLEAN /\ b \in BOOLEAN
    BY <1>1
  <2> HIDE DEF a, b
  <2> QED
    BY <2>1, <2>2 DEF Frame
<1>5. frame' \in [Frames -> Frame]
  BY <1>3, <1>4
<1>6. Sound(frame', consumer, made, taken, escaped)
  BY <1>4, <1>5, QuietKeeps
<1>7. Untouched(frame, frame')
  BY <1>4 DEF Untouched
<1> QED
  BY <1>2, <1>6, <1>7

LEMMA StepOpCompletes ==
  ASSUME GenInv, NEW g \in Frames, OpCompletes(g)
  PROVE  GenInv' /\ Untouched(frame, frame')
<1> DEFINE F == [frame EXCEPT ![g].op = "none"]
<1> USE DEF GenInv
<1>1. /\ Standing(frame, consumer) /\ frame \in [Frames -> Frame] /\ frame[g] \in Frame
      /\ frame[g].op # "none" /\ consumer' = consumer /\ taken' = taken
  BY DEF Sound, Standing, OpCompletes
<1>2. 1 \in Frames /\ MaxValues \in Nat /\ End = 0 /\ Nothing = MaxValues + 1
  BY GeneratorAssumption DEF Frames, End, Nothing
<1>3. /\ F[g] = [frame[g] EXCEPT !.op = "none"]
      /\ \A k \in Frames \ {g} : F[k] = frame[k]
      /\ F = [k \in Frames |-> F[k]]
  BY <1>1
<1>4. \/ ~Exists(frame, g) /\ frame' = F /\ made' = made /\ escaped' = escaped
      \/ Exists(frame, g) /\ Run(F, g)
  BY DEF OpCompletes, Alive, RunAfterFailure, Run
<1> HIDE DEF F
<1>5. /\ F[g] \in Frame /\ F[g].op = "none"
      /\ F[g].body = frame[g].body /\ F[g].inner = frame[g].inner
      /\ F[g].outer = frame[g].outer /\ F[g].handler = frame[g].handler
      /\ F[g].posted = frame[g].posted /\ F[g].driver = frame[g].driver
      /\ F[g].thrown = frame[g].thrown /\ F[g].forwarder = frame[g].forwarder
      /\ F[g].got = frame[g].got /\ F[g].driverSignalled = frame[g].driverSignalled
  BY <1>1, <1>3 DEF Frame
<1>6. F \in [Frames -> Frame]
  BY <1>1, <1>3, <1>5
<1>7. CASE Exists(frame, g)
  <2>1. Settled(frame, consumer, g)
    BY <1>1, <1>7 DEF Standing
  <2>2. frame[g].body = "await" /\ frame[g].handler /\ WaitsIn(frame, consumer, g)
        /\ frame[g].posted = Nothing
    BY <1>1, <2>1 DEF Settled
  <2>3. Busy(frame, g)
    BY <1>7, <2>2 DEF Busy
  <2>4. /\ consumer = "waiting" /\ made \in 0..MaxValues /\ escaped \in BOOLEAN /\ InOrder(taken)
        /\ \A h \in Frames \ {g} : ~Busy(frame, h)
        /\ escaped => Fails(frame, g)
        /\ (\A w \in 1..MaxValues : ~Carries(frame, g, w)) => Len(taken) = made
    BY <2>3, Alone
  <2>5. frame[g].driver # "resumed" /\ frame[g].driver # "aborted"
    BY <1>1, <2>2 DEF WaitsIn, Standing, Rooted
  <2>6. \A w \in 0..MaxValues : ~Carries(frame, g, w)
    BY <1>2, <2>2, <2>5 DEF Carries
  <2>7. Len(taken) = made /\ escaped = FALSE
    <3>1. ~Fails(frame, g)
      BY <1>2, <2>5, <2>6 DEF Fails
    <3>2. \A w \in 1..MaxValues : ~Carries(frame, g, w)
      BY <2>6
    <3> QED
      BY <2>4, <3>1, <3>2
  <2>8. frame[g].inner = 0
    BY <1>1, <1>7, <2>2, InnerDriver
  <2>9. SameShape(frame, F) /\ \A k \in Frames : Exists(F, k) <=> Exists(frame, k)
    BY <1>3, <1>5 DEF SameShape, Exists
  <2>10. Nested(F)
    <3>1. \A k \in Frames : Exists(frame, k) /\ frame[k].inner # 0 => frame[k].inner \in Frames
      BY <1>1, InnerDriver
    <3> QED
      BY <1>1, <2>9, <3>1, ShapeNested DEF Standing
  <2>11. \A k \in Frames : WaitsIn(F, consumer, k) <=> WaitsIn(frame, consumer, k)
    BY <1>3, <1>5, ZenonT(40) DEF WaitsIn
  <2>12. Rooted(F, consumer)
    BY <1>1, <1>2, <1>3, <1>5, <2>9 DEF Standing, Rooted
  <2>13. Gone(F)
    <3>1. Gone(frame)
      BY <1>1 DEF Standing
    <3>2. F[g].body \notin {"unborn", "destroyed"}
      BY <1>5, <2>2
    <3>3. \A k \in Frames : F[k] = frame[k] \/ F[k].body \notin {"unborn", "destroyed"}
      BY <1>3, <3>2
    <3>4. \A k \in Frames : F[k].outer = frame[k].outer
      BY <1>3, <1>5
    <3> QED
      BY <3>1, <3>3, <3>4 DEF Gone
  <2>14. Driven(F, consumer)
    <3>1. \A k \in Frames : \A o \in 1..k - 1 : o \in Frames
      BY GeneratorAssumption DEF Frames
    <3>2. \A k \in Frames : F[k].driver = frame[k].driver /\ F[k].outer = frame[k].outer
                            /\ F[k].got = frame[k].got
      BY <1>3, <1>5
    <3>3. Driven(frame, consumer)
      BY <1>1 DEF Standing
    <3> QED
      BY <2>9, <2>11, <3>1, <3>2, <3>3 DEF Driven
  <2>15. ASSUME NEW k \in Frames \ {g}, Exists(F, k)
         PROVE  Settled(F, consumer, k) /\ HeldIn(F, consumer, k) /\ ~Busy(F, k)
    <3>1. Settled(frame, consumer, k) /\ HeldIn(frame, consumer, k) /\ ~Busy(frame, k)
          /\ F[k] = frame[k] /\ Exists(frame, k)
      BY <1>1, <1>3, <2>4, <2>9, <2>15 DEF Standing
    <3>2. frame[k].inner # 0 => F[frame[k].inner].driver = frame[frame[k].inner].driver
      BY <1>1, <1>3, <1>5, <3>1, InnerDriver
    <3>3. HeldIn(F, consumer, k)
      BY <2>11, <3>1, <3>2 DEF HeldIn
    <3>4. Settled(F, consumer, k)
      BY <2>11, <3>1 DEF Settled
    <3> QED
      BY <3>1, <3>3, <3>4, <2>9 DEF Busy
  <2>16. Paused(F, consumer, g)
    BY <1>5, <1>6, <1>7, <2>2, <2>4, <2>8, <2>9, <2>10, <2>11, <2>12, <2>13, <2>14, <2>15 DEF Paused
  <2>17. Running(F, consumer', made, taken', escaped, g)
    BY <1>1, <1>5, <2>2, <2>4, <2>7, <2>8, <2>16 DEF Running
  <2>18. Sound(frame', consumer', made', taken', escaped') /\ Spares(F, frame')
    BY <1>4, <1>7, <2>17, RunKeeps
  <2>19. Untouched(frame, frame')
    BY <1>3, <1>7, <2>18 DEF Untouched, Spares, Exists
  <2> QED
    BY <2>18, <2>19
<1>8. CASE ~Exists(frame, g)
  <2>1. frame[g].body = "destroyed" /\ frame[g].driverSignalled /\ ~frame[g].handler
        /\ ~frame[g].forwarder
    BY <1>1, <1>8 DEF Standing, Gone, Exists
  <2>2. frame' = F /\ made' = made /\ escaped' = escaped
    BY <1>4, <1>8
  <2>3. Sound(frame', consumer, made, taken, escaped)
    <3>1. \A k \in Frames : frame[k].body # "destroyed" => frame'[k] = frame[k]
      BY <1>3, <2>1, <2>2
    <3>2. \A k \in Frames :
            frame[k].body = "destroyed" =>
              /\ frame'[k].body = "destroyed" /\ frame'[k].outer = frame[k].outer
              /\ frame'[k].driverSignalled /\ ~frame'[k].handler /\ ~frame'[k].forwarder
              /\ frame'[k].driver # "none" => frame[k].driver # "none"
              /\ frame'[k].driver = "resumed" => frame'[k].got # Nothing
      <4>1. Gone(frame) /\ Driven(frame, consumer)
        BY <1>1 DEF Standing
      <4>2. \A k \in Frames \ {g} : frame'[k] = frame[k]
        BY <1>3, <2>2
      <4>3. /\ frame'[g].body = "destroyed" /\ frame'[g].outer = frame[g].outer
            /\ frame'[g].driverSignalled /\ ~frame'[g].handler /\ ~frame'[g].forwarder
            /\ frame'[g].driver # "none" => frame[g].driver # "none"
            /\ frame'[g].driver = "resumed" => frame'[g].got # Nothing
        BY <1>5, <2>1, <2>2, <4>1 DEF Driven
      <4> QED
        BY <4>1, <4>2, <4>3 DEF Gone, Driven
    <3> QED
      BY <1>6, <2>2, <3>1, <3>2, DeadKeeps
  <2>4. Untouched(frame, frame')
    BY <1>3, <1>5, <2>2 DEF Untouched
  <2> QED
    BY <1>1, <2>2, <2>3, <2>4
<1> QED
  BY <1>7, <1>8

LEMMA StepDriverEnds ==
  ASSUME GenInv, NEW g \in Frames, DriverEnds(g)
  PROVE  GenInv' /\ Untouched(frame, frame')
<1> DEFINE F == [frame EXCEPT ![g].driver = "none", ![g].got = Nothing]
           o == frame[g].outer
           v == frame[g].got
           threw == frame[g].driver = "aborted" \/ Rethrows(frame, g)
           D(r) == DropInner(F, o, r)
           H == [D(FALSE) EXCEPT ![o].handler = TRUE]
<1> USE DEF GenInv
<1>1. /\ Standing(frame, consumer) /\ frame \in [Frames -> Frame] /\ frame[g] \in Frame
      /\ frame[g].driver \in {"resumed", "aborted"}
  BY DEF Sound, Standing, DriverEnds
<1>2. 1 \in Frames /\ MaxValues \in Nat /\ End = 0 /\ Nothing = MaxValues + 1 /\ g # 1
      /\ Nothing \in 0..Nothing
  BY <1>1, GeneratorAssumption DEF Frames, End, Nothing, Standing, Rooted
<1>3. /\ o \in 1..g - 1 /\ o \in Frames /\ o # g
      /\ Exists(frame, o) => Exists(frame, g) /\ WaitsIn(frame, consumer, o)
      /\ frame[g].driver = "resumed" => v # Nothing
  <2>1. /\ o \in 1..g - 1
        /\ Exists(frame, o) => Exists(frame, g) /\ WaitsIn(frame, consumer, o)
        /\ frame[g].driver = "resumed" => v # Nothing
    BY <1>1 DEF Standing, Driven
  <2> QED
    BY <2>1, GeneratorAssumption DEF Frames
<1>4. /\ F[g] = [frame[g] EXCEPT !.driver = "none", !.got = Nothing]
      /\ \A k \in Frames \ {g} : F[k] = frame[k]
      /\ F = [k \in Frames |-> F[k]]
  BY <1>1
<1>5. \/ /\ ~Exists(frame, o) /\ frame' = F
         /\ UNCHANGED <<made, consumer, taken, escaped, restarted>>
      \/ Exists(frame, o) /\ frame[g].driver = "resumed" /\ v # End /\ Give(F, o, v)
      \/ /\ Exists(frame, o) /\ (frame[g].driver = "aborted" \/ v = End) /\ threw
         /\ Give(D(TRUE), o, End)
      \/ /\ Exists(frame, o) /\ frame[g].driver = "resumed" /\ v = End /\ ~threw
         /\ Run(H, o) /\ UNCHANGED <<consumer, taken>>
  BY <1>1 DEF DriverEnds, Alive, HandsOn
<1> HIDE DEF F, D, H
<1>6. /\ F[g] \in Frame /\ F[g].driver = "none"
      /\ F[g].op = frame[g].op
      /\ F[g].body = frame[g].body /\ F[g].inner = frame[g].inner
      /\ F[g].outer = frame[g].outer /\ F[g].handler = frame[g].handler
      /\ F[g].posted = frame[g].posted
      /\ F[g].thrown = frame[g].thrown /\ F[g].forwarder = frame[g].forwarder
      /\ F[g].driverSignalled = frame[g].driverSignalled
  BY <1>1, <1>2, <1>4, ZenonT(40) DEF Frame
<1>7. F \in [Frames -> Frame]
  BY <1>1, <1>4, <1>6
<1>8. CASE ~Exists(frame, o)
  <2>1. ~Exists(frame, g)
    BY <1>1, <1>2, <1>8 DEF Standing, Nested
  <2>2. frame[g].body = "destroyed" /\ frame[g].driverSignalled /\ ~frame[g].handler
        /\ ~frame[g].forwarder
    BY <1>1, <2>1 DEF Standing, Gone, Exists
  <2>3. /\ frame' = F /\ made' = made /\ consumer' = consumer /\ taken' = taken
        /\ escaped' = escaped
    BY <1>5, <1>8
  <2>4. Sound(frame', consumer, made, taken, escaped)
    <3>1. \A k \in Frames : frame[k].body # "destroyed" => frame'[k] = frame[k]
      BY <1>4, <2>2, <2>3
    <3>2. \A k \in Frames :
            frame[k].body = "destroyed" =>
              /\ frame'[k].body = "destroyed" /\ frame'[k].outer = frame[k].outer
              /\ frame'[k].driverSignalled /\ ~frame'[k].handler /\ ~frame'[k].forwarder
              /\ frame'[k].driver # "none" => frame[k].driver # "none"
              /\ frame'[k].driver = "resumed" => frame'[k].got # Nothing
      <4>1. Gone(frame) /\ Driven(frame, consumer)
        BY <1>1 DEF Standing
      <4>2. \A k \in Frames \ {g} : frame'[k] = frame[k]
        BY <1>4, <2>3
      <4>3. /\ frame'[g].body = "destroyed" /\ frame'[g].outer = frame[g].outer
            /\ frame'[g].driverSignalled /\ ~frame'[g].handler /\ ~frame'[g].forwarder
            /\ frame'[g].driver # "none" => frame[g].driver # "none"
            /\ frame'[g].driver = "resumed" => frame'[g].got # Nothing
        BY <1>6, <2>2, <2>3, <4>1 DEF Driven
      <4> QED
        BY <4>1, <4>2, <4>3 DEF Gone, Driven
    <3> QED
      BY <1>7, <2>3, <3>1, <3>2, DeadKeeps
  <2>5. Untouched(frame, frame')
    BY <1>4, <1>6, <2>3 DEF Untouched
  <2> QED
    BY <2>3, <2>4, <2>5
<1>9. CASE Exists(frame, o)
  <2>1. Exists(frame, g) /\ WaitsIn(frame, consumer, o) /\ Busy(frame, g)
    BY <1>1, <1>3, <1>9 DEF Busy
  <2>2. /\ consumer = "waiting" /\ made \in 0..MaxValues /\ escaped \in BOOLEAN /\ InOrder(taken)
        /\ \A h \in Frames \ {g} : ~Busy(frame, h)
        /\ escaped => Fails(frame, g)
        /\ \A w \in 1..MaxValues : Carries(frame, g, w) => w = made /\ Len(taken) + 1 = made
        /\ (\A w \in 1..MaxValues : ~Carries(frame, g, w)) => Len(taken) = made
    BY <2>1, Alone
  <2>3. frame[o].inner = g /\ frame[o].body = "flat"
    <3>1. frame[o].inner = g
      BY <1>1, <1>2, <2>1 DEF Standing, Nested
    <3>2. g # 0
      BY GeneratorAssumption DEF Frames
    <3> QED
      BY <1>1, <1>3, <1>9, <3>1, <3>2, InnerDriver
  <2>4. ~frame[o].handler /\ frame[o].posted = Nothing /\ frame[o].op = "none"
    <3>1. ~Busy(frame, o) /\ Settled(frame, consumer, o)
      BY <1>1, <1>3, <1>9, <2>2 DEF Standing
    <3> QED
      BY <1>9, <2>3, <3>1 DEF Busy, Settled
  <2>5. Settled(frame, consumer, g) /\ ~WaitsIn(frame, consumer, g)
    BY <1>1, <1>2, <2>1 DEF Standing, WaitsIn
  <2>6. ~frame[g].handler /\ frame[g].posted = Nothing
    BY <2>5 DEF Settled
  <2>7. \A w \in 0..MaxValues :
          Carries(frame, g, w) <=> frame[g].driver = "resumed" /\ v = w
    BY <1>2, <2>1, <2>6 DEF Carries
  <2>8. SameShape(frame, F) /\ \A k \in Frames : Exists(F, k) <=> Exists(frame, k)
    BY <1>4, <1>6 DEF SameShape, Exists
  <2>9. Nested(F)
    <3>1. \A k \in Frames : Exists(frame, k) /\ frame[k].inner # 0 => frame[k].inner \in Frames
      BY <1>1, InnerDriver
    <3> QED
      BY <1>1, <2>8, <3>1, ShapeNested DEF Standing
  <2>10. \A k \in Frames : WaitsIn(F, consumer, k) <=> WaitsIn(frame, consumer, k)
    BY <1>1, <1>2, <1>4, <1>6, ZenonT(40) DEF WaitsIn
  <2>11. Rooted(F, consumer)
    BY <1>1, <1>2, <1>4, <2>8 DEF Standing, Rooted
  <2>12. Gone(F)
    <3>1. Gone(frame)
      BY <1>1 DEF Standing
    <3>2. F[g].body \notin {"unborn", "destroyed"}
      BY <1>6, <2>1 DEF Exists
    <3>3. \A k \in Frames : F[k] = frame[k] \/ F[k].body \notin {"unborn", "destroyed"}
      BY <1>4, <3>2
    <3>4. \A k \in Frames : F[k].outer = frame[k].outer
      BY <1>4, <1>6
    <3> QED
      BY <3>1, <3>3, <3>4 DEF Gone
  <2>13. Driven(F, consumer)
    <3>1. \A k \in Frames : \A i \in 1..k - 1 : i \in Frames
      BY GeneratorAssumption DEF Frames
    <3>2. \A k \in Frames : F[k].outer = frame[k].outer
      BY <1>4, <1>6
    <3>3. \A k \in Frames : F[k].driver # "none" => F[k] = frame[k]
      BY <1>4, <1>6
    <3>4. Driven(frame, consumer)
      BY <1>1 DEF Standing
    <3> QED
      BY <2>8, <2>10, <3>1, <3>2, <3>3, <3>4 DEF Driven
  <2>14. ASSUME NEW k \in Frames \ {o, g}, Exists(F, k)
         PROVE  Settled(F, consumer, k) /\ HeldIn(F, consumer, k) /\ ~Busy(F, k)
    <3>1. Settled(frame, consumer, k) /\ HeldIn(frame, consumer, k) /\ ~Busy(frame, k)
          /\ F[k] = frame[k] /\ Exists(frame, k)
      BY <1>1, <1>4, <2>2, <2>8, <2>14 DEF Standing
    <3>2. frame[k].inner # 0 => frame[k].inner \in Frames \ {g}
      BY <1>1, <3>1, InnerDriver
    <3>3. HeldIn(F, consumer, k)
      BY <1>4, <2>10, <3>1, <3>2 DEF HeldIn
    <3>4. Settled(F, consumer, k)
      BY <2>10, <3>1 DEF Settled
    <3> QED
      BY <3>1, <3>3, <3>4, <2>8 DEF Busy
  <2>15. /\ F[o].body = "flat" /\ F[o].inner = g /\ ~F[o].handler /\ F[o].posted = Nothing
         /\ F[o].op = "none" /\ WaitsIn(F, consumer, o) /\ Exists(F, o) /\ g # 0
    <3>1. g # 0
      BY GeneratorAssumption DEF Frames
    <3> QED
      BY <1>3, <1>4, <1>9, <2>1, <2>3, <2>4, <2>8, <2>10, <3>1
  <2>16. CASE frame[g].driver = "resumed" /\ v # End
    <3>1. Give(F, o, v)
      BY <1>5, <1>9, <2>16
    <3>2. v \in 1..MaxValues
      <4>1. v \in 0..Nothing
        BY <1>1 DEF Frame
      <4> QED
        BY <1>2, <1>3, <2>16, <4>1
    <3>3. v = made /\ Len(taken) + 1 = made
      BY <2>2, <2>7, <2>16, <3>2
    <3>4. ~escaped
      <4>1. ~Carries(frame, g, End)
        BY <1>2, <2>7, <2>16
      <4> QED
        BY <2>2, <2>16, <4>1 DEF Fails
    <3>5. Settled(F, consumer, g) /\ HeldIn(F, consumer, g) /\ ~Busy(F, g)
      <4>1. ~WaitsIn(F, consumer, g)
        BY <2>5, <2>10
      <4>2. HeldIn(F, consumer, g)
        BY <4>1 DEF HeldIn
      <4>3. ~Busy(F, g)
        BY <1>6, <2>6 DEF Busy
      <4>4. ~(frame[g].body = "flat" /\ frame[g].inner = 0)
        BY <2>5, <2>16 DEF Settled
      <4>5. /\ frame[g].handler <=> frame[g].body = "await"
            /\ frame[g].op # "none" <=> frame[g].body = "await"
        BY <2>5 DEF Settled
      <4>6. Settled(F, consumer, g)
        BY <1>6, <2>6, <4>4, <4>5 DEF Settled
      <4> QED
        BY <4>2, <4>3, <4>6
    <3>6. Paused(F, consumer, o)
      BY <1>4, <1>6, <1>7, <2>2, <2>9, <2>11, <2>12, <2>13, <2>14, <2>15, <3>5 DEF Paused
    <3>7. Giving(F, consumer, made, taken, escaped, o, v)
      <4>1. v \in 0..MaxValues
        BY <3>2
      <4> QED
        BY <2>2, <2>15, <2>16, <3>3, <3>4, <3>6, <4>1 DEF Giving
    <3>8. Sound(frame', consumer', made', taken', escaped') /\ Spares(F, frame')
      <4> HIDE DEF o, v
      <4> QED
        BY <1>3, <3>1, <3>7, GiveKeeps
    <3>9. Untouched(frame, frame')
      BY <1>4, <2>1, <3>8 DEF Untouched, Spares, Exists
    <3> QED
      BY <3>8, <3>9
  <2>17. CASE frame[g].driver = "aborted" \/ v = End
    <3>1. Len(taken) = made
      <4>1. \A w \in 1..MaxValues : ~Carries(frame, g, w)
        BY <1>1, <1>2, <2>7, <2>17
      <4> QED
        BY <2>2, <4>1
    <3>2. escaped => threw
      BY <1>1, <2>2 DEF Fails, Rethrows
    <3>3. ASSUME NEW r \in BOOLEAN
          PROVE  /\ Paused(D(r), consumer, o)
                 /\ D(r)[o].inner = 0 /\ D(r)[o].thrown = r
                 /\ D(r)[o].body = "flat" /\ ~D(r)[o].handler
                 /\ Spares(F, D(r))
      <4>1. \A h \in Frames \ {o, F[o].inner} :
              Exists(F, h) => Settled(F, consumer, h) /\ HeldIn(F, consumer, h) /\ ~Busy(F, h)
        BY <2>14, <2>15
      <4>2. F[o].inner # 0 /\ F[F[o].inner].driver = "none"
        BY <1>6, <2>15
      <4> HIDE DEF o
      <4>3. /\ Paused(DropInner(F, o, r), consumer, o)
            /\ DropInner(F, o, r)[o].inner = 0 /\ DropInner(F, o, r)[o].thrown = r
            /\ DropInner(F, o, r)[o].body = "flat"
            /\ DropInner(F, o, r)[o].handler = F[o].handler
            /\ Spares(F, DropInner(F, o, r))
        BY <1>3, <1>7, <2>2, <2>9, <2>11, <2>12, <2>13, <2>15, <4>1, <4>2, DropKeeps
      <4> QED
        BY <2>15, <4>3 DEF D
    <3>4. CASE threw
      <4>1. Give(D(TRUE), o, End)
        BY <1>5, <1>9, <2>17, <3>4
      <4> DEFINE T == D(TRUE)
      <4>2. /\ Paused(T, consumer, o) /\ T[o].inner = 0 /\ T[o].thrown
            /\ T[o].body = "flat" /\ ~T[o].handler /\ Spares(F, T) /\ Give(T, o, End)
        BY <3>3, <4>1
      <4> HIDE DEF T
      <4>3. Giving(T, consumer, made, taken, escaped, o, End)
        BY <1>2, <2>2, <3>1, <4>2 DEF Giving
      <4>4. Sound(frame', consumer', made', taken', escaped') /\ Spares(T, frame')
        <5> HIDE DEF o
        <5> QED
          BY <1>3, <4>2, <4>3, GiveKeeps
      <4>5. Spares(F, frame')
        BY <4>2, <4>4 DEF Spares
      <4>6. Untouched(frame, frame')
        BY <1>4, <2>1, <4>5 DEF Untouched, Spares, Exists
      <4> QED
        BY <4>4, <4>6
    <3>5. CASE ~threw
      <4>1. Run(H, o) /\ consumer' = consumer /\ taken' = taken
        BY <1>5, <1>9, <2>17, <3>5
      <4> DEFINE T == D(FALSE)
      <4>2. /\ Paused(T, consumer, o) /\ T[o].inner = 0 /\ T[o].body = "flat" /\ Spares(F, T)
            /\ H = [T EXCEPT ![o].handler = TRUE]
        BY <3>3 DEF H
      <4> HIDE DEF T
      <4>3. T \in [Frames -> Frame] /\ T[o] \in Frame
        BY <1>3, <4>2 DEF Paused
      <4>4. /\ H[o] = [T[o] EXCEPT !.handler = TRUE]
            /\ \A k \in Frames \ {o} : H[k] = T[k]
            /\ H = [k \in Frames |-> H[k]]
        <5> HIDE DEF o
        <5> QED
          BY <1>3, <4>2, <4>3
      <4>5. /\ H[o] \in Frame /\ H[o].handler
            /\ H[o].body = T[o].body /\ H[o].inner = T[o].inner
            /\ H[o].outer = T[o].outer /\ H[o].driver = T[o].driver
            /\ H[o].posted = T[o].posted /\ H[o].op = T[o].op
            /\ H[o].driverSignalled = T[o].driverSignalled
            /\ H[o].got = T[o].got
        BY <4>3, <4>4 DEF Frame
      <4>6. H \in [Frames -> Frame]
        BY <4>3, <4>4, <4>5
      <4>7. Paused(H, consumer, o)
        <5>1. o \in Frames
          BY <1>3
        <5>2. Paused(T, consumer, o) /\ \A k \in Frames \ {o} : H[k] = T[k]
          BY <4>2, <4>4
        <5> HIDE DEF o
        <5> QED
          BY <4>5, <4>6, <5>1, <5>2, StillPaused
      <4>8. escaped = FALSE
        BY <2>2, <3>2, <3>5
      <4>9. Running(H, consumer', made, taken', escaped, o)
        BY <2>2, <3>1, <4>1, <4>2, <4>5, <4>7, <4>8 DEF Running
      <4>10. Sound(frame', consumer', made', taken', escaped') /\ Spares(H, frame')
        <5>1. o \in Frames
          BY <1>3
        <5> HIDE DEF o
        <5> QED
          BY <4>1, <4>9, <5>1, RunKeeps
      <4>11. T[o].body # "destroyed" /\ F[o].body # "destroyed"
        BY <2>15, <4>2
      <4>12. ASSUME NEW k \in Frames, F[k].body = "destroyed"
             PROVE  frame'[k] = F[k]
        <5>1. k # o /\ T[k] = F[k]
          BY <4>2, <4>11, <4>12 DEF Spares
        <5>2. H[k] = F[k]
          BY <4>4, <5>1
        <5> QED
          BY <4>10, <4>12, <5>2 DEF Spares
      <4>13. Untouched(frame, frame')
        BY <1>4, <2>1, <4>12 DEF Untouched, Exists
      <4> QED
        BY <4>10, <4>13
    <3> QED
      BY <3>4, <3>5
  <2> QED
    BY <1>1, <2>16, <2>17
<1> QED
  BY <1>8, <1>9

-----------------------------------------------------------------------------
LEMMA GenInit ==
  Init => GenInv
<1> SUFFICES ASSUME Init PROVE GenInv
  OBVIOUS
<1> USE DEF Init
<1>1. 1 \in Frames /\ MaxValues \in Nat /\ End = 0 /\ Nothing = MaxValues + 1 /\ Nothing \in 0..Nothing
  BY GeneratorAssumption DEF Frames, End, Nothing
<1>2. /\ Unborn \in Frame /\ Unborn.body = "unborn" /\ Unborn.inner = 0 /\ ~Unborn.handler
      /\ Unborn.outer = 0 /\ Unborn.posted = Nothing /\ Unborn.op = "none" /\ Unborn.driver = "none"
  BY <1>1 DEF Unborn, Frame
<1>3. /\ Fresh(0) \in Frame /\ Fresh(0).body = "fresh" /\ Fresh(0).inner = 0 /\ ~Fresh(0).handler
      /\ Fresh(0).outer = 0 /\ Fresh(0).posted = Nothing /\ Fresh(0).op = "none" /\ Fresh(0).driver = "none"
  BY <1>2 DEF Fresh, Frame
<1>4. frame[1] = Fresh(0) /\ \A k \in Frames \ {1} : frame[k] = Unborn
  BY <1>1
<1>5. frame \in [Frames -> Frame]
  BY <1>2, <1>3
<1>6. /\ \A k \in Frames : /\ Exists(frame, k) <=> k = 1
                           /\ frame[k].driver = "none" /\ frame[k].inner = 0 /\ ~frame[k].handler
                           /\ frame[k].posted = Nothing /\ frame[k].op = "none"
                           /\ frame[k].outer = 0 /\ 0 \in 0..k - 1
                           /\ frame[k].body = IF k = 1 THEN "fresh" ELSE "unborn"
  <2>1. \A k \in Frames : 0 \in 0..k - 1
    BY GeneratorAssumption DEF Frames
  <2> QED
    BY <1>2, <1>3, <1>4, <2>1 DEF Exists
<1>7. Nested(frame)
  <2>1. \A j, k \in Frames : (frame[j].body = "unborn" /\ j < k) => frame[k].body = "unborn"
    <3>1. \A j \in Frames : ~(j < 1)
      BY GeneratorAssumption DEF Frames
    <3> QED
      BY <1>6, <3>1
  <2>2. \A k \in Frames \ {1} : ~Exists(frame, k)
    BY <1>6
  <2>3. \A j, k \in Frames : Exists(frame, j) /\ Exists(frame, k) => ~(j < k)
    <3>1. ~(1 < 1)
      OBVIOUS
    <3> QED
      BY <1>6, <3>1
  <2> QED
    BY <1>6, <2>1, <2>2, <2>3 DEF Nested
<1>8. Rooted(frame, consumer) /\ Gone(frame) /\ Driven(frame, consumer)
  <2>1. Gone(frame)
    BY <1>6 DEF Gone
  <2>2. Rooted(frame, consumer)
    BY <1>1, <1>6 DEF Rooted
  <2>3. Driven(frame, consumer)
    BY <1>6 DEF Driven
  <2> QED
    BY <2>1, <2>2, <2>3
<1>9. \A k \in Frames : Exists(frame, k) => Settled(frame, consumer, k) /\ HeldIn(frame, consumer, k)
  BY <1>6 DEF Settled, HeldIn, WaitsIn
<1>10. \A k \in Frames : ~Busy(frame, k)
  BY <1>6 DEF Busy
<1>11. OneBusy(frame, consumer)
  BY <1>10 DEF OneBusy
<1>12. Values(frame, consumer, made, taken)
  <2>1. \A k \in Frames, w \in 1..MaxValues : ~Carries(frame, k, w)
    BY <1>1, <1>6 DEF Carries
  <2>2. InOrder(taken) /\ Len(taken) = 0
    BY DEF InOrder
  <2> QED
    BY <2>1, <2>2 DEF Values
<1>13. Failures(frame, consumer, made, taken, escaped)
  BY DEF Failures
<1>14. consumer \in Consumers /\ made \in 0..MaxValues
  BY <1>1 DEF Consumers
<1>15. escaped \in BOOLEAN
  OBVIOUS
<1> HIDE DEF Init
<1>16. Standing(frame, consumer)
  BY <1>5, <1>7, <1>8, <1>9, <1>11, <1>14 DEF Standing
<1> QED
  BY <1>12, <1>13, <1>14, <1>15, <1>16 DEF GenInv, Sound

LEMMA GenNext ==
  ASSUME GenInv, [Next]_vars
  PROVE  GenInv' /\ Untouched(frame, frame')
<1>1. CASE CallNext
  BY <1>1, StepCallNext
<1>2. CASE Leave
  BY <1>2, StepLeave
<1>3. CASE Cancel
  BY <1>3, StepCancel
<1>4. ASSUME NEW g \in Frames, Deliver(g)
      PROVE  GenInv' /\ Untouched(frame, frame')
  BY <1>4, StepDeliver
<1>5. ASSUME NEW g \in Frames, Drives(g)
      PROVE  GenInv' /\ Untouched(frame, frame')
  BY <1>5, StepDrives
<1>6. ASSUME NEW g \in Frames, DriverEnds(g)
      PROVE  GenInv' /\ Untouched(frame, frame')
  BY <1>6, StepDriverEnds
<1>7. ASSUME NEW g \in Frames, OpCompletes(g)
      PROVE  GenInv' /\ Untouched(frame, frame')
  BY <1>7, StepOpCompletes
<1>8. ASSUME NEW g \in Frames, OpEnds(g) \/ OpStopped(g)
      PROVE  GenInv' /\ Untouched(frame, frame')
  BY <1>8, StepOp
<1>9. CASE UNCHANGED vars
  <2>1. GenInv'
    BY <1>9 DEF GenInv, vars
  <2>2. Untouched(frame, frame')
    BY <1>9 DEF Untouched, vars
  <2> QED
    BY <2>1, <2>2
<1> QED
  BY <1>1, <1>2, <1>3, <1>4, <1>5, <1>6, <1>7, <1>8, <1>9 DEF Next, Completions

(* The inductive invariant of the generator. *)
THEOREM GeneratorIsSound == Spec => []GenInv
<1>1. Init => GenInv
  BY GenInit
<1>2. GenInv /\ [Next]_vars => GenInv'
  BY GenNext
<1> QED
  BY <1>1, <1>2, PTL DEF Spec

(* A step of the response's body is a step of the generator. *)
LEMMA ChunkedRefines == ChunkedSpec => Spec
<1>1. ChunkedInit => Init
  BY DEF ChunkedInit
<1>2. [ChunkedNext]_<<vars, metaVars>> => [Next]_vars
  BY DEF ChunkedNext, Next, DrivenStep, CancelStep, DestroyStep, CompletionStep, OperationStep,
         StoppedStep
<1> QED
  BY <1>1, <1>2, PTL DEF ChunkedSpec, Spec

(* The types, of every variable of the generator's state. *)
THEOREM GeneratorTypes == Spec => []TypeOK
<1>1. GenInv => TypeOK
  <2> SUFFICES ASSUME GenInv PROVE TypeOK
    OBVIOUS
  <2>1. /\ frame \in [Frames -> Frame] /\ Gone(frame) /\ consumer \in Consumers
        /\ made \in 0..MaxValues
    BY DEF GenInv, Sound, Standing
  <2>2. ASSUME NEW g \in Frames
        PROVE  /\ frame[g].body \in {"unborn", "fresh", "yield", "await", "flat", "done", "destroyed"}
               /\ frame[g].driver \in {"none", "starting", "waiting", "resumed", "aborted"}
               /\ frame[g].op \in {"none", "running", "ok", "failed"}
               /\ frame[g].posted \in 0..Nothing /\ frame[g].got \in 0..Nothing
               /\ frame[g].inner \in 0..MaxFrames /\ frame[g].outer \in 0..g - 1
    <3>1. frame[g] \in Frame
      BY <2>1
    <3>2. Frames \cup {0} = 0..MaxFrames
      BY GeneratorAssumption DEF Frames
    <3> QED
      BY <2>1, <3>1, <3>2 DEF Frame, Gone
  <2> QED
    BY <2>1, <2>2 DEF TypeOK, Consumers
<1> QED
  BY <1>1, GeneratorIsSound, PTL

(* The values the session receives are those the bodies yielded, in order, *)
(* an inner generator's in its place: the completions of yield_awaiter and *)
(* of the drivers that flatten_awaiter spawns pass each on exactly once.   *)
THEOREM ValuesInOrder == Spec => []Spliced
<1>1. GenInv => Spliced
  BY DEF GenInv, Sound, Values, InOrder, Spliced
<1> QED
  BY <1>1, GeneratorIsSound, PTL

(* An exception that left a body is never taken for the end of the stream, *)
(* however many generators it passes through on its way to the session.    *)
THEOREM FailuresArrive == Spec => []FailureIsNotTheEnd
<1>1. GenInv => FailureIsNotTheEnd
  <2> SUFFICES ASSUME GenInv, consumer = "ended"
               PROVE  ~escaped /\ taken = [i \in 1..made |-> i]
    BY DEF FailureIsNotTheEnd
  <2>1. ~escaped /\ Len(taken) = made /\ InOrder(taken)
    BY DEF GenInv, Sound, Failures, Values
  <2>2. taken \in Seq(Nat) /\ \A i \in 1..made : taken[i] = i
    BY <2>1 DEF InOrder
  <2>3. taken = [i \in 1..made |-> taken[i]]
    BY <2>1, <2>2
  <2> QED
    BY <2>1, <2>2, <2>3
<1> QED
  BY <1>1, GeneratorIsSound, PTL

(* Who waits for a frame is held in one place: the promise, the queue or   *)
(* the driver of the inner frame.  A completion handler moved twice, or    *)
(* dropped, would resume a coroutine twice, or never.                      *)
THEOREM WaiterIsHeldOnce == Spec => []HeldOnce
<1>1. GenInv => HeldOnce
  <2> SUFFICES ASSUME GenInv, NEW g \in Frames, Waits(g)
               PROVE  \E p \in {"promise", "queue", "driver"} : Holders(g) = {p}
    BY DEF HeldOnce
  <2>1. Standing(frame, consumer)
    BY DEF GenInv, Sound
  <2>2. Exists(frame, g) /\ WaitsIn(frame, consumer, g)
    BY <2>1 DEF Waits, WaitsIn, Standing, Rooted
  <2>3. Settled(frame, consumer, g) /\ HeldIn(frame, consumer, g)
    BY <2>1, <2>2 DEF Standing
  <2>4. frame[g].inner # 0 => frame[g].body = "flat"
    BY <2>1, <2>2, InnerDriver
  <2>5. CASE frame[g].handler
    <3>1. frame[g].body = "await"
      BY <2>3, <2>5 DEF Settled
    <3>2. frame[g].posted = Nothing /\ frame[g].inner = 0
      BY <2>3, <2>4, <3>1 DEF Settled
    <3> QED
      BY <2>5, <3>2 DEF Holders
  <2>6. CASE frame[g].posted # Nothing
    <3>1. frame[g].body \in {"yield", "done"}
      BY <2>3, <2>6 DEF Settled
    <3>2. ~frame[g].handler /\ frame[g].inner = 0
      BY <2>3, <2>4, <3>1 DEF Settled
    <3> QED
      BY <2>6, <3>2 DEF Holders
  <2>7. CASE ~frame[g].handler /\ frame[g].posted = Nothing
    <3>1. frame[g].inner # 0 /\ frame[frame[g].inner].driver # "none"
      BY <2>2, <2>3, <2>7 DEF HeldIn
    <3> QED
      BY <2>7, <3>1 DEF Holders
  <2> QED
    BY <2>5, <2>6, <2>7
<1> QED
  BY <1>1, GeneratorIsSound, PTL

(* A frame that was destroyed is not resumed, not reached by a             *)
(* cancellation, and not driven by a coroutine that starts too late.       *)
THEOREM DestroyedStays == Spec => DestroyedIsUntouched
<1>1. GenInv /\ GenInv' /\ Untouched(frame, frame') =>
        \A g \in Frames :
          frame[g].body = "destroyed" =>
            /\ frame'[g].body = "destroyed" /\ ~frame'[g].handler
            /\ ~frame'[g].forwarder
            /\ frame[g].driver = "starting" => frame'[g].driver # "waiting"
  BY DEF GenInv, Sound, Standing, Gone, Untouched
<1>2. GenInv /\ GenInv' /\ [Next]_vars =>
        [\A g \in Frames :
           frame[g].body = "destroyed" =>
             /\ frame'[g].body = "destroyed" /\ ~frame'[g].handler
             /\ ~frame'[g].forwarder
             /\ frame[g].driver = "starting" => frame'[g].driver # "waiting"]_vars
  BY <1>1, GenNext
<1> QED
  BY <1>2, GeneratorIsSound, PTL DEF Spec, DestroyedIsUntouched

-----------------------------------------------------------------------------
(* The response's metadata. *)

(* If a body makes a value, it is queued for whoever waits for it. *)
LEMMA RunMakes ==
  ASSUME NEW F, F \in [Frames -> Frame], NEW g \in Frames, Run(F, g), made' # made
  PROVE  made' = made + 1 /\ frame'[g].posted = made'
<1>1. YieldValue(F, g)
  BY DEF Run, Finish, Throw, Await, Flatten
<1>2. made' = made + 1
     /\ frame' = [F EXCEPT ![g].body = "yield", ![g].handler = FALSE, ![g].posted = made + 1]
  BY <1>1 DEF YieldValue
<1>3. frame'[g] = [F[g] EXCEPT !.body = "yield", !.handler = FALSE, !.posted = made']
  BY <1>2
<1>4. F[g] \in Frame
  OBVIOUS
<1>5. frame'[g].posted = made'
  BY <1>3, <1>4 DEF Frame
<1> QED
  BY <1>2, <1>5

LEMMA NextMakes ==
  ASSUME NEW F, F \in [Frames -> Frame], NEW g \in Frames, Next1(F, g), made' # made
  PROVE  made' = made + 1 /\ frame'[g].posted = made'
<1> DEFINE H == [F EXCEPT ![g].handler = TRUE]
<1>1. Run(H, g)
  BY DEF Next1
<1>2. H[g] = [F[g] EXCEPT !.handler = TRUE] /\ F[g] \in Frame
  OBVIOUS
<1>3. H[g] \in Frame
  <2> HIDE DEF H
  <2> QED
    BY <1>2 DEF Frame
<1>4. H \in [Frames -> Frame]
  BY <1>3
<1> HIDE DEF H
<1> QED
  BY <1>1, <1>4, RunMakes

(* A frame below the outermost one exists only while that one flattens. *)
LEMMA Below ==
  ASSUME GenInv, NEW g \in Frames, Exists(frame, g)
  PROVE  1 \in Frames /\ Exists(frame, 1) /\ consumer \in {"idle", "waiting"}
         /\ (g # 1 => frame[1].inner # 0)
<1> USE DEF GenInv, Sound, Standing
<1>1. 1 \in Frames
  BY GeneratorAssumption DEF Frames
<1>2. Exists(frame, 1) /\ consumer \in {"idle", "waiting"}
  BY DEF Rooted
<1>3. ASSUME g # 1 PROVE frame[1].inner # 0
  <2>1. 1 < g
    BY <1>3, GeneratorAssumption DEF Frames
  <2>2. frame[1].inner \in 1 + 1..g
    BY <1>1, <1>2, <2>1 DEF Nested
  <2> QED
    BY <2>2, GeneratorAssumption DEF Frames
<1> QED
  BY <1>1, <1>2, <1>3

(* The outermost frame as it was, but for what the outside does to it.     *)
Still ==
  /\ made' = made
  /\ frame'[1].inner \in {0, frame[1].inner}
  /\ frame'[1].op \in {frame[1].op, "none", "ok", "failed"}
  /\ frame'[1].body \in {frame[1].body, "destroyed"}

LEMMA StillIsQuiet == Still => ~Suspended
BY DEF Still, Suspended, YieldedValue, YieldedInner

LEMMA GiveIsQuiet ==
  ASSUME NEW F, F \in [Frames -> Frame], NEW g \in Frames, NEW v, Give(F, g, v), 1 \in Frames,
         F[1].inner \in {0, frame[1].inner}, F[1].op = frame[1].op, F[1].body = frame[1].body
  PROVE  /\ Still
         /\ consumer' = "idle" => consumer' = consumer \/ \E w : taken' = Append(taken, w)
<1>1. CASE g = 1 /\ v = End
  <2>1. frame' = DestroyFrom(F, 1) /\ made' = made /\ consumer' \in {"ended", "failed"}
    BY <1>1 DEF Give, Receive
  <2>2. /\ frame'[1].inner = F[1].inner /\ frame'[1].op = F[1].op
        /\ frame'[1].body \in {F[1].body, "destroyed"}
    <3>1. /\ ~(1 >= 1 /\ Exists(F, 1)) => DestroyFrom(F, 1)[1] = F[1]
          /\ 1 >= 1 /\ Exists(F, 1) => DestroyFrom(F, 1)[1].body = "destroyed"
          /\ DestroyFrom(F, 1)[1].inner = F[1].inner /\ DestroyFrom(F, 1)[1].op = F[1].op
      BY Buried
    <3> QED
      BY <2>1, <3>1
  <2> QED
    BY <2>1, <2>2 DEF Still
<1>2. CASE g = 1 /\ v # End
  <2>1. frame' = [F EXCEPT ![1].forwarder = FALSE] /\ made' = made /\ taken' = Append(taken, v)
    BY <1>2 DEF Give, Receive
  <2>2. frame'[1] = [F[1] EXCEPT !.forwarder = FALSE] /\ F[1] \in Frame
    BY <2>1
  <2>3. frame'[1].inner = F[1].inner /\ frame'[1].op = F[1].op /\ frame'[1].body = F[1].body
    BY <2>2 DEF Frame
  <2> QED
    BY <2>1, <2>3 DEF Still
<1>3. CASE g # 1
  <2>1. frame' = [F EXCEPT ![g].driver = "resumed", ![g].got = v] /\ made' = made
        /\ consumer' = consumer
    BY <1>3 DEF Give
  <2>2. frame'[1] = F[1]
    BY <1>3, <2>1
  <2> QED
    BY <2>1, <2>2 DEF Still
<1> QED
  BY <1>1, <1>2, <1>3

(* What a step does to what the metadata depends on. *)
StepFacts ==
  /\ made' # made => made' = made + 1 /\ (frame'[1].posted = made' \/ frame[1].inner # 0)
  /\ consumer = "waiting" /\ consumer' \in {"idle", "ended"} => ~Suspended
  /\ consumer \notin {"idle", "waiting"} =>
       ~Suspended /\ consumer' \notin {"idle", "waiting"}
  /\ consumer = "waiting" /\ consumer' = "idle" => \E w : taken' = Append(taken, w)

LEMMA OuterSteps ==
  ASSUME GenInv, CallNext \/ Leave \/ Cancel
  PROVE  StepFacts
<1>1. 1 \in Frames /\ frame \in [Frames -> Frame] /\ frame[1] \in Frame
  BY GeneratorAssumption DEF Frames, GenInv, Sound, Standing
<1>2. CASE CallNext
  <2>1. consumer = "idle" /\ consumer' = "waiting" /\ Next1(Install(frame), 1)
    BY <1>2 DEF CallNext
  <2>2. Install(frame) \in [Frames -> Frame]
    <3> DEFINE H == Install(frame)
    <3>1. /\ H[1] = [frame[1] EXCEPT !.forwarder = TRUE]
          /\ \A k \in Frames \ {1} : H[k] = frame[k]
          /\ H = [k \in Frames |-> H[k]]
      BY <1>1 DEF Install
    <3> HIDE DEF H
    <3>2. H[1] \in Frame
      BY <1>1, <3>1 DEF Frame
    <3>3. H \in [Frames -> Frame]
      BY <1>1, <3>1, <3>2
    <3> QED
      BY <3>3 DEF H
  <2>3. made' # made => made' = made + 1 /\ frame'[1].posted = made'
    BY <1>1, <2>1, <2>2, NextMakes
  <2> QED
    BY <2>1, <2>3 DEF StepFacts
<1>3. CASE Leave
  <2>1. consumer \in {"idle", "waiting"} /\ consumer' = "left" /\ made' = made
    BY <1>3 DEF Leave
  <2> QED
    BY <2>1 DEF StepFacts
<1>4. CASE Cancel
  <2>1. consumer = "waiting" /\ consumer' = consumer /\ made' = made
    BY <1>4 DEF Cancel
  <2> QED
    BY <2>1 DEF StepFacts
<1> QED
  BY <1>2, <1>3, <1>4

LEMMA DeliverFacts ==
  ASSUME GenInv, NEW g \in Frames, Deliver(g)
  PROVE  StepFacts
<1> DEFINE F == [frame EXCEPT ![g].posted = Nothing]
<1>1. /\ 1 \in Frames /\ frame \in [Frames -> Frame] /\ frame[g] \in Frame /\ Nothing \in 0..Nothing
  BY GeneratorAssumption DEF Frames, GenInv, Sound, Standing, Nothing
<1>2. /\ F[g] = [frame[g] EXCEPT !.posted = Nothing]
      /\ \A k \in Frames \ {g} : F[k] = frame[k]
      /\ F = [k \in Frames |-> F[k]]
  BY <1>1
<1>3. \/ /\ (g = 1 /\ consumer = "waiting") \/ (g # 1 /\ frame[g].driver = "waiting")
         /\ Give(F, g, frame[g].posted)
      \/ frame' = F /\ UNCHANGED <<made, consumer, taken, escaped, restarted>>
  BY DEF Deliver
<1> HIDE DEF F
<1>4. /\ F[g] \in Frame /\ F[g].inner = frame[g].inner /\ F[g].op = frame[g].op
      /\ F[g].body = frame[g].body
  BY <1>1, <1>2 DEF Frame
<1>5. F \in [Frames -> Frame]
  BY <1>1, <1>2, <1>4
<1>6. F[1].inner = frame[1].inner /\ F[1].op = frame[1].op /\ F[1].body = frame[1].body
  BY <1>1, <1>2, <1>4
<1>7. CASE /\ (g = 1 /\ consumer = "waiting") \/ (g # 1 /\ frame[g].driver = "waiting")
           /\ Give(F, g, frame[g].posted)
  <2>1. /\ Still
        /\ consumer' = "idle" => consumer' = consumer \/ \E w : taken' = Append(taken, w)
    BY <1>1, <1>5, <1>6, <1>7, GiveIsQuiet
  <2>2. consumer \notin {"idle", "waiting"} => consumer' = consumer
    BY <1>7 DEF Give
  <2> QED
    BY <2>1, <2>2, StillIsQuiet DEF StepFacts, Still
<1>8. CASE frame' = F /\ UNCHANGED <<made, consumer, taken, escaped, restarted>>
  <2>1. Still
    BY <1>6, <1>8 DEF Still
  <2> QED
    BY <1>8, <2>1, StillIsQuiet DEF StepFacts
<1> QED
  BY <1>3, <1>7, <1>8

LEMMA DrivesFacts ==
  ASSUME GenInv, NEW g \in Frames, Drives(g)
  PROVE  StepFacts
<1>1. /\ 1 \in Frames /\ frame \in [Frames -> Frame] /\ frame[g] \in Frame /\ consumer' = consumer
      /\ frame[g].driver = "starting" /\ Rooted(frame, consumer) /\ Gone(frame)
  BY GeneratorAssumption DEF Frames, GenInv, Sound, Standing, Drives
<1>2. g # 1
  BY <1>1 DEF Rooted
<1>3. CASE frame[g].driverSignalled
  <2>1. frame' = [frame EXCEPT ![g].driver = "aborted"] /\ made' = made
    BY <1>3 DEF Drives
  <2>2. frame'[1] = frame[1]
    BY <1>1, <1>2, <2>1
  <2>3. Still
    BY <2>1, <2>2 DEF Still
  <2> QED
    BY <1>1, <2>3, StillIsQuiet DEF StepFacts, Still
<1>4. CASE ~frame[g].driverSignalled
  <2> DEFINE H == [frame EXCEPT ![g].driver = "waiting"]
  <2>1. Next1(H, g)
    BY <1>4 DEF Drives
  <2>2. /\ H[g] = [frame[g] EXCEPT !.driver = "waiting"]
        /\ \A k \in Frames \ {g} : H[k] = frame[k]
        /\ H = [k \in Frames |-> H[k]]
    BY <1>1
  <2> HIDE DEF H
  <2>3. H[g] \in Frame
    BY <1>1, <2>2 DEF Frame
  <2>4. H \in [Frames -> Frame]
    BY <1>1, <2>2, <2>3
  <2>5. made' # made => made' = made + 1
    BY <2>1, <2>4, NextMakes
  <2>6. Exists(frame, g)
    BY <1>1, <1>4 DEF Gone, Exists
  <2>7. consumer \in {"idle", "waiting"} /\ frame[1].inner # 0
    BY <1>2, <2>6, Below
  <2> QED
    BY <1>1, <2>5, <2>7 DEF StepFacts
<1> QED
  BY <1>3, <1>4

LEMMA OpFacts ==
  ASSUME GenInv, NEW g \in Frames, OpEnds(g) \/ OpStopped(g)
  PROVE  StepFacts
<1>1. 1 \in Frames /\ frame \in [Frames -> Frame] /\ frame[g] \in Frame
  BY GeneratorAssumption DEF Frames, GenInv, Sound, Standing
<1>2. PICK o \in {"ok", "failed"} : frame' = [frame EXCEPT ![g].op = o]
  BY DEF OpEnds, OpStopped
<1>3. made' = made /\ consumer' = consumer
  BY DEF OpEnds, OpStopped
<1>4. /\ frame'[g] = [frame[g] EXCEPT !.op = o]
      /\ \A k \in Frames \ {g} : frame'[k] = frame[k]
  BY <1>1, <1>2
<1>5. /\ frame'[g].op = o /\ frame'[g].body = frame[g].body /\ frame'[g].inner = frame[g].inner
  BY <1>1, <1>4 DEF Frame
<1>6. Still
  <2>1. CASE g = 1
    BY <1>3, <1>5, <2>1 DEF Still
  <2>2. CASE g # 1
    BY <1>1, <1>3, <1>4, <2>2 DEF Still
  <2> QED
    BY <2>1, <2>2
<1> QED
  BY <1>3, <1>6, StillIsQuiet DEF StepFacts

LEMMA OpCompletesFacts ==
  ASSUME GenInv, NEW g \in Frames, OpCompletes(g)
  PROVE  StepFacts
<1> DEFINE F == [frame EXCEPT ![g].op = "none"]
<1>1. /\ 1 \in Frames /\ frame \in [Frames -> Frame] /\ frame[g] \in Frame /\ consumer' = consumer
  BY GeneratorAssumption DEF Frames, GenInv, Sound, Standing, OpCompletes
<1>2. /\ F[g] = [frame[g] EXCEPT !.op = "none"]
      /\ \A k \in Frames \ {g} : F[k] = frame[k]
      /\ F = [k \in Frames |-> F[k]]
  BY <1>1
<1>3. \/ ~Exists(frame, g) /\ frame' = F /\ made' = made
      \/ Exists(frame, g) /\ Run(F, g)
  BY DEF OpCompletes, Alive, RunAfterFailure, Run
<1> HIDE DEF F
<1>4. /\ F[g] \in Frame /\ F[g].op = "none" /\ F[g].body = frame[g].body
      /\ F[g].inner = frame[g].inner
  BY <1>1, <1>2 DEF Frame
<1>5. F \in [Frames -> Frame]
  BY <1>1, <1>2, <1>4
<1>6. CASE Exists(frame, g) /\ Run(F, g)
  <2>1. made' # made => made' = made + 1 /\ frame'[g].posted = made'
    BY <1>5, <1>6, RunMakes
  <2>2. consumer \in {"idle", "waiting"} /\ (g # 1 => frame[1].inner # 0)
    BY <1>6, Below
  <2> QED
    BY <1>1, <2>1, <2>2 DEF StepFacts
<1>7. CASE ~Exists(frame, g) /\ frame' = F /\ made' = made
  <2>1. Still
    <3>1. CASE g = 1
      BY <1>4, <1>7, <3>1 DEF Still
    <3>2. CASE g # 1
      BY <1>1, <1>2, <1>7, <3>2 DEF Still
    <3> QED
      BY <3>1, <3>2
  <2> QED
    BY <1>1, <1>7, <2>1, StillIsQuiet DEF StepFacts
<1> QED
  BY <1>3, <1>6, <1>7

LEMMA DriverEndsFacts ==
  ASSUME GenInv, NEW g \in Frames, DriverEnds(g)
  PROVE  StepFacts
<1> DEFINE F == [frame EXCEPT ![g].driver = "none", ![g].got = Nothing]
           o == frame[g].outer
           v == frame[g].got
           D(r) == DropInner(F, o, r)
           H == [D(FALSE) EXCEPT ![o].handler = TRUE]
<1>1. /\ Standing(frame, consumer) /\ frame \in [Frames -> Frame] /\ frame[g] \in Frame
      /\ frame[g].driver \in {"resumed", "aborted"}
  BY DEF GenInv, Sound, Standing, DriverEnds
<1>2. 1 \in Frames /\ g # 1 /\ Nothing \in 0..Nothing /\ Frames \subseteq Nat
  BY <1>1, GeneratorAssumption DEF Frames, Nothing, Standing, Rooted
<1>3. /\ o \in Frames /\ o < g
      /\ Exists(frame, o) => Exists(frame, g)
  <2>1. /\ o \in 1..g - 1
        /\ Exists(frame, o) => Exists(frame, g) /\ WaitsIn(frame, consumer, o)
    BY <1>1 DEF Standing, Driven
  <2> QED
    BY <2>1, GeneratorAssumption DEF Frames
<1>4. /\ F[g] = [frame[g] EXCEPT !.driver = "none", !.got = Nothing]
      /\ \A k \in Frames \ {g} : F[k] = frame[k]
      /\ F = [k \in Frames |-> F[k]]
  BY <1>1
<1>5. \/ /\ ~Exists(frame, o) /\ frame' = F
         /\ UNCHANGED <<made, consumer, taken, escaped, restarted>>
      \/ Exists(frame, o) /\ Give(F, o, v)
      \/ Exists(frame, o) /\ Give(D(TRUE), o, End)
      \/ Exists(frame, o) /\ Run(H, o) /\ UNCHANGED <<consumer, taken>>
  BY <1>1 DEF DriverEnds, Alive, HandsOn
<1> HIDE DEF F, D, H
<1>6. /\ F[g] \in Frame /\ F[g].inner = frame[g].inner
  BY <1>1, <1>2, <1>4, ZenonT(40) DEF Frame
<1>7. F \in [Frames -> Frame] /\ F[1] = frame[1]
  BY <1>1, <1>2, <1>4, <1>6
<1>8. CASE /\ ~Exists(frame, o) /\ frame' = F
           /\ UNCHANGED <<made, consumer, taken, escaped, restarted>>
  <2>1. Still
    BY <1>7, <1>8 DEF Still
  <2> QED
    BY <1>8, <2>1, StillIsQuiet DEF StepFacts
<1>9. ASSUME Exists(frame, o)
      PROVE  consumer \in {"idle", "waiting"} /\ (o # 1 => frame[1].inner # 0)
  <2> HIDE DEF o
  <2> QED
    BY <1>3, <1>9, Below
<1>10. ASSUME NEW F2, F2 \in [Frames -> Frame], F2[1].inner \in {0, frame[1].inner},
              F2[1].op = frame[1].op, F2[1].body = frame[1].body,
              NEW w, Give(F2, o, w), Exists(frame, o)
       PROVE  StepFacts
  <2>1. /\ Still
        /\ consumer' = "idle" => consumer' = consumer \/ \E x : taken' = Append(taken, x)
    <3> HIDE DEF o
    <3> QED
      BY <1>2, <1>3, <1>10, GiveIsQuiet
  <2>2. consumer \in {"idle", "waiting"}
    BY <1>9, <1>10
  <2> QED
    BY <2>1, <2>2, StillIsQuiet DEF StepFacts, Still
<1>11. CASE Exists(frame, o) /\ Give(F, o, v)
  BY <1>7, <1>10, <1>11
<1>12. ASSUME NEW r \in BOOLEAN, Exists(frame, o)
       PROVE  /\ D(r) \in [Frames -> Frame] /\ D(r)[1].inner \in {0, frame[1].inner}
              /\ D(r)[1].op = frame[1].op /\ D(r)[1].body = frame[1].body
  <2> DEFINE B == DestroyFrom(F, g)
             T == D(r)
  <2>1. F[o].inner = g
    <3>1. frame[o].inner = g
      BY <1>1, <1>2, <1>3, <1>12 DEF Standing, Nested
    <3>2. o # g
      BY <1>2, <1>3
    <3> QED
      BY <1>3, <1>4, <3>1, <3>2
  <2>2. T = [B EXCEPT ![o].inner = 0, ![o].thrown = r]
    BY <2>1 DEF D, DropInner
  <2>3. /\ B \in [Frames -> Frame] /\ B[1] = F[1]
    <3>1. ~(1 >= g)
      BY <1>2, GeneratorAssumption DEF Frames
    <3> QED
      BY <1>2, <1>7, <3>1, Buried
  <2> HIDE DEF B, T, o
  <2>4. B[o] \in Frame /\ 0 \in Frames \cup {0}
    BY <1>3, <2>3
  <2>5. /\ T[o] = [B[o] EXCEPT !.inner = 0, !.thrown = r]
        /\ \A k \in Frames \ {o} : T[k] = B[k]
        /\ T = [k \in Frames |-> T[k]]
    BY <1>3, <2>2, <2>3
  <2>6. T[o] \in Frame /\ T[o].inner = 0 /\ T[o].op = B[o].op /\ T[o].body = B[o].body
    BY <2>4, <2>5 DEF Frame
  <2>7. T \in [Frames -> Frame]
    BY <2>3, <2>5, <2>6
  <2>8. T[1].inner \in {0, frame[1].inner} /\ T[1].op = frame[1].op /\ T[1].body = frame[1].body
    <3>1. CASE o = 1
      BY <1>7, <2>3, <2>6, <3>1
    <3>2. CASE o # 1
      BY <1>2, <1>7, <2>3, <2>5, <3>2
    <3> QED
      BY <3>1, <3>2
  <2> QED
    BY <2>7, <2>8 DEF T
<1>13. CASE Exists(frame, o) /\ Give(D(TRUE), o, End)
  <2> DEFINE T == D(TRUE)
  <2>1. /\ T \in [Frames -> Frame] /\ T[1].inner \in {0, frame[1].inner}
        /\ T[1].op = frame[1].op /\ T[1].body = frame[1].body /\ Give(T, o, End)
    BY <1>12, <1>13
  <2> HIDE DEF T
  <2> QED
    BY <1>10, <1>13, <2>1
<1>14. CASE Exists(frame, o) /\ Run(H, o) /\ UNCHANGED <<consumer, taken>>
  <2> DEFINE T == D(FALSE)
  <2>1. T \in [Frames -> Frame] /\ H = [T EXCEPT ![o].handler = TRUE]
    BY <1>12, <1>14 DEF H
  <2> HIDE DEF T, o
  <2>2. /\ H[o] = [T[o] EXCEPT !.handler = TRUE] /\ T[o] \in Frame
        /\ \A k \in Frames \ {o} : H[k] = T[k]
        /\ H = [k \in Frames |-> H[k]]
    BY <1>3, <2>1
  <2>3. H[o] \in Frame
    BY <2>2 DEF Frame
  <2>4. H \in [Frames -> Frame]
    BY <2>1, <2>2, <2>3
  <2>5. made' # made => made' = made + 1 /\ frame'[o].posted = made'
    BY <1>3, <1>14, <2>4, RunMakes
  <2> QED
    BY <1>9, <1>14, <2>5 DEF StepFacts, o
<1> QED
  BY <1>5, <1>8, <1>11, <1>13, <1>14

(* While the session waits for more, the header it has written is final:   *)
(* what came after it was data.                                            *)
HeaderInv ==
  /\ made > 0 => dataYielded
  /\ frame[1].inner # 0 => dataYielded
  /\ (header # NotSent /\ consumer \in {"idle", "waiting"}) => dataYielded
  /\ dataYielded \in BOOLEAN

LEMMA MetadataKeeps ==
  ASSUME GenInv, GenInv', StepFacts, Metadata, HeaderInv, HeaderIsComplete
  PROVE  HeaderInv' /\ HeaderIsComplete'
<1> USE DEF HeaderInv, Metadata, YieldMeta, WriteHeader, HeaderIsComplete
<1>1. made \in Nat /\ made' \in Nat /\ consumer \in Consumers /\ consumer' \in Consumers
  BY GeneratorAssumption DEF GenInv, Sound, Standing
<1>2. dataYielded' \in BOOLEAN /\ (dataYielded => dataYielded') /\ (IsData => dataYielded')
  <2>1. dataYielded' = (dataYielded \/ IsData)
    OBVIOUS
  <2> QED
    BY <2>1
<1>3. made' > 0 => dataYielded'
  <2>1. CASE made' = made
    BY <1>2, <2>1
  <2>2. CASE made' # made /\ frame'[1].posted = made'
    BY <1>2, <2>2 DEF IsData, YieldedValue
  <2>3. CASE made' # made /\ frame[1].inner # 0
    BY <1>2, <2>3
  <2> QED
    BY <2>1, <2>2, <2>3 DEF StepFacts
<1>4. frame'[1].inner # 0 => dataYielded'
  <2>1. CASE frame'[1].inner = frame[1].inner
    BY <1>2, <2>1
  <2>2. CASE frame'[1].inner # frame[1].inner
    BY <1>2, <2>2 DEF IsData, YieldedInner
  <2> QED
    BY <2>1, <2>2
<1>5. ASSUME consumer = "waiting", consumer' = "idle"
      PROVE  dataYielded'
  <2>1. PICK w : taken' = Append(taken, w)
    BY <1>5 DEF StepFacts
  <2>2. taken \in Seq(Nat) /\ taken' \in Seq(Nat)
    BY DEF GenInv, Sound, Values, InOrder
  <2>3. Len(taken') = made'
    <3>1. \A k \in Frames, x \in 1..MaxValues : ~Carries(frame', k, x)
      <4>1. \A k \in Frames : ~Busy(frame', k)
        BY <1>5 DEF GenInv, Sound, Standing, OneBusy
      <4> QED
        BY <4>1, GeneratorAssumption DEF Carries, Busy, Nothing
    <3> QED
      BY <1>5, <3>1 DEF GenInv, Sound, Values
  <2>4. Len(taken') > 0
    <3>1. Len(taken') = Len(taken) + 1
      BY <2>1, <2>2
    <3> QED
      BY <2>2, <3>1
  <2> QED
    BY <1>1, <1>3, <2>3, <2>4
<1>6. (header' # NotSent /\ consumer' \in {"idle", "waiting"}) => dataYielded'
  <2>1. SUFFICES ASSUME header' # NotSent, consumer' \in {"idle", "waiting"}
                 PROVE  dataYielded'
    OBVIOUS
  <2>2. consumer \in {"idle", "waiting"}
    BY <2>1 DEF StepFacts
  <2>3. CASE header # NotSent
    BY <1>2, <2>2, <2>3
  <2>4. CASE header = NotSent
    <3>1. consumer = "waiting" /\ consumer' = "idle"
      BY <2>1, <2>4
    <3> QED
      BY <1>5, <3>1
  <2> QED
    BY <2>3, <2>4
<1>7. HeaderIsComplete'
  <2>1. SUFFICES ASSUME header' # NotSent PROVE header' = meta'
    OBVIOUS
  <2>2. CASE header # NotSent
    <3>1. header' = meta
      BY <2>2
    <3>2. ~(Suspended /\ MayYieldMeta)
      <4>1. CASE consumer \in {"idle", "waiting"}
        BY <2>2, <4>1 DEF MayYieldMeta
      <4>2. CASE consumer \notin {"idle", "waiting"}
        BY <4>2 DEF StepFacts
      <4> QED
        BY <4>1, <4>2
    <3> QED
      BY <3>1, <3>2
  <2>3. CASE header = NotSent
    <3>1. consumer = "waiting" /\ consumer' \in {"idle", "ended"} /\ header' = meta
      BY <2>1, <2>3
    <3>2. ~Suspended
      BY <3>1 DEF StepFacts
    <3> QED
      BY <3>1, <3>2
  <2> QED
    BY <2>2, <2>3
<1> QED
  BY <1>2, <1>3, <1>4, <1>6, <1>7

(* What the session wrote in the response header is all the metadata that  *)
(* the body yielded: none comes too late to be written.                    *)
THEOREM HeaderIsFinal == ChunkedSpec => []HeaderIsComplete
<1>1. ChunkedInit => HeaderInv /\ HeaderIsComplete
  <2> SUFFICES ASSUME ChunkedInit PROVE HeaderInv /\ HeaderIsComplete
    OBVIOUS
  <2>1. frame[1].inner = 0
    BY GeneratorAssumption DEF ChunkedInit, Init, Frames, Fresh, Unborn
  <2>2. made = 0 /\ header = NotSent /\ dataYielded = FALSE
    BY DEF ChunkedInit, Init
  <2>3. dataYielded \in BOOLEAN
    BY <2>2
  <2>4. ~(made > 0)
    BY <2>2
  <2> QED
    BY <2>1, <2>2, <2>3, <2>4 DEF HeaderInv, HeaderIsComplete
<1>2. GenInv /\ GenInv' /\ HeaderInv /\ HeaderIsComplete /\ [ChunkedNext]_<<vars, metaVars>> =>
        HeaderInv' /\ HeaderIsComplete'
  <2> SUFFICES ASSUME GenInv, GenInv', HeaderInv, HeaderIsComplete,
                      [ChunkedNext]_<<vars, metaVars>>
               PROVE  HeaderInv' /\ HeaderIsComplete'
    OBVIOUS
  <2>1. CASE DrivenStep \/ CancelStep \/ DestroyStep
    BY <2>1, OuterSteps, MetadataKeeps DEF DrivenStep, CancelStep, DestroyStep
  <2>2. ASSUME NEW g \in Frames, CompletionStep(g)
        PROVE  HeaderInv' /\ HeaderIsComplete'
    BY <2>2, DeliverFacts, DrivesFacts, DriverEndsFacts, OpCompletesFacts, MetadataKeeps
       DEF CompletionStep, Completions
  <2>3. ASSUME NEW g \in Frames, OperationStep(g) \/ StoppedStep(g)
        PROVE  HeaderInv' /\ HeaderIsComplete'
    BY <2>3, OpFacts, MetadataKeeps DEF OperationStep, StoppedStep
  <2>4. CASE UNCHANGED <<vars, metaVars>>
    BY <2>4 DEF vars, metaVars, HeaderInv, HeaderIsComplete
  <2> QED
    BY <2>1, <2>2, <2>3, <2>4 DEF ChunkedNext
<1> QED
  BY <1>1, <1>2, ChunkedRefines, GeneratorIsSound, PTL DEF ChunkedSpec

-----------------------------------------------------------------------------
(* A body and the scanner.                                                 *)

(* A part of a text, off characters into it.                               *)
Windows(buf, text, off) ==
    /\ buf \in Seq(Chars) /\ text \in Seq(Chars) /\ off \in Nat
    /\ off + Len(buf) <= Len(text)
    /\ \A j \in 1 .. Len(buf) : buf[j] = text[off + j]

(* How much of the body is before the buffer, and how much the scanner has *)
(* passed.                                                                 *)
Offset == read - Len(scanner.buf)

Scanned == Offset + scanner.pos

States == {"preamble", "after_delim", "headers", "data", "part_ending", "finished"}

Ops == {"idle", "next", "some", "all", "form"}

Scanner == [buf : Seq(Chars), pos : Nat, eof : BOOLEAN, state : States, wants : BOOLEAN]

PartRecord == [data : Seq(Chars), whole : BOOLEAN]

(* The buffer is the end of what was read of the body.                     *)
BufferInv ==
    /\ scanner \in Scanner /\ scanner.pos <= Len(scanner.buf)
    /\ read \in Nat /\ read <= Len(body)
    /\ Windows(scanner.buf, body, Offset)

ControlInv ==
    /\ op \in Ops /\ ended \in {"no", "malformed", "limit", "done"}
    /\ pending \in Seq(Chars) /\ partDone \in BOOLEAN /\ parts \in Seq(PartRecord)
    /\ ended # "no" => op = "idle"
    /\ op \in {"next", "form"} => pending = <<>>
    /\ op = "form" => partDone
    /\ ended = "no" /\ op # "next" /\ ~partDone => scanner.state \in {"data", "part_ending"}

-----------------------------------------------------------------------------
(* What the scanner has found is what the grammar says.                    *)

(* What the text means is k parts and what follows place i.                *)
Ahead(text, k, i) ==
    /\ i \in 1 .. Len(text) + 1
    /\ Meaning(text).ok = From(text)[i].ok
    /\ Len(Meaning(text).parts) = k + Len(From(text)[i].parts)
    /\ \A j \in 1 .. Len(From(text)[i].parts) : Meaning(text).parts[k + j] = From(text)[i].parts[j]

(* The data of part k begins after place d.                                *)
DataAfter(text, k, d) ==
    LET next == Find(text, Delim, d)
    IN IF next = 0
       THEN /\ ~Meaning(text).ok /\ Len(Meaning(text).parts) = k
            /\ Meaning(text).parts[k] = SubSeq(text, d + 1, Len(text))
       ELSE /\ Meaning(text).parts[k] = SubSeq(text, d + 1, next - 1)
            /\ Ahead(text, k, next + 5)

(* And it has not ended before place s.                                    *)
InPart(text, k, d, s) ==
    /\ d \in 0 .. s /\ k > 0
    /\ \A i \in d + 1 .. s : ~HasAt(text, Delim, i)
    /\ DataAfter(text, k, d)

(* A delimiter ends at place i.                                            *)
Delimited(text, i) == i >= 3 /\ HasAt(text, FirstDelim, i - 2)

(* The parts given out are those the scanner has passed.                   *)
ScannerInv ==
    /\ scanner.state = "preamble" => Len(parts) = 0 /\ \A i \in 1 .. Scanned : ~HasAt(body, FirstDelim, i)
    /\ scanner.state = "after_delim" => Ahead(body, Len(parts), Scanned + 1) /\ Delimited(body, Scanned)
    /\ scanner.state = "headers" =>
          /\ Ahead(body, Len(parts), Scanned - 1) /\ Delimited(body, Scanned - 2)
          /\ HasAt(body, Eol, Scanned - 1)
    /\ scanner.state = "data" => \E d \in Nat : InPart(body, Len(parts), d, Scanned)
    /\ scanner.state = "part_ending" =>
          Len(parts) > 0 /\ Ahead(body, Len(parts), Scanned + 1) /\ Delimited(body, Scanned)
    /\ scanner.state = "finished" => Meaning(body).ok /\ Len(Meaning(body).parts) = Len(parts)

-----------------------------------------------------------------------------
(* What the program has of the parts.                                      *)

(* It goes on reading the last part.                                       *)
PartOpen == ended = "no" /\ op # "next" /\ Len(parts) > 0

(* What it has of that part, and what the reader holds for it.             *)
Current == parts[Len(parts)].data \o pending

CurrentInv ==
    PartOpen =>
        /\ scanner.state = "data" =>
              \E d \in Nat : InPart(body, Len(parts), d, Scanned) /\ Current = SubSeq(body, d + 1, Scanned)
        /\ (partDone /\ op # "form") \/ scanner.state = "part_ending" =>
              Current = Meaning(body).parts[Len(parts)]
        /\ op # "form" \/ scanner.state \in {"data", "part_ending"} => ~parts[Len(parts)].whole

Begins(s, t) == Len(s) <= Len(t) /\ \A j \in 1 .. Len(s) : s[j] = t[j]

PartsInv ==
    /\ Len(parts) <= Len(Meaning(body).parts)
    /\ \A k \in 1 .. Len(parts) :
          /\ Begins(parts[k].data, Meaning(body).parts[k])
          /\ parts[k].whole => parts[k].data = Meaning(body).parts[k]

EndsInv ==
    /\ ended = "malformed" => ~Meaning(body).ok \/ HasLongHeader \/ CutShort
    /\ ended = "done" => Meaning(body).ok /\ Len(parts) = Len(Meaning(body).parts)

FormInv == BufferInv /\ ControlInv /\ ScannerInv /\ CurrentInv /\ PartsInv /\ EndsInv

-----------------------------------------------------------------------------
(* Numbers. *)

LEMMA Smallest ==
  ASSUME NEW S, S \subseteq Nat, S # {}
  PROVE  \E x \in S : \A y \in S : x <= y
<1> DEFINE R == OpToRel(<, Nat)
<1>1. IsWellFoundedOn(R, Nat)
  BY NatLessThanWellFounded
<1>2. \A a, b \in Nat : a < b => <<a, b>> \in R
  BY DEF OpToRel
<1> HIDE DEF R
<1>3. PICK x \in S : \A y \in S : ~(<<y, x>> \in R)
  BY <1>1, WFMin
<1>4. \A y \in S : ~(y < x)
  BY <1>2, <1>3
<1> QED
  BY <1>4

(* Induction, over a set of numbers instead of a predicate.                *)
LEMMA SetInduction ==
  ASSUME NEW S, 0 \in S, \A n \in Nat : n \in S => n + 1 \in S
  PROVE  \A n \in Nat : n \in S
<1> DEFINE T == {n \in Nat : n \notin S}
<1>1. CASE T = {}
  BY <1>1
<1>2. CASE T # {}
  <2>1. PICK n \in T : \A k \in T : n <= k
    <3>1. T \subseteq Nat
      OBVIOUS
    <3> HIDE DEF T
    <3> QED
      BY <1>2, <3>1, Smallest
  <2>2. n \in Nat /\ n # 0 /\ n - 1 \in Nat /\ n \notin S
    OBVIOUS
  <2>3. n - 1 \in S
    BY <2>1, <2>2
  <2>4. n \in S
    BY <2>2, <2>3
  <2> QED
    BY <2>2, <2>4
<1> QED
  BY <1>1, <1>2

-----------------------------------------------------------------------------
(* Texts. *)

LEMMA Words ==
  /\ FirstDelim \in Seq(Chars) /\ Len(FirstDelim) = 3
  /\ Eol \in Seq(Chars) /\ Len(Eol) = 2
  /\ Eol \o Eol \in Seq(Chars) /\ Len(Eol \o Eol) = 4
  /\ Delim \in Seq(Chars) /\ Len(Delim) = 5
  /\ Hold = 4
<1>1. FirstDelim \in Seq(Chars) /\ Len(FirstDelim) = 3
  BY BodiesAssumption DEF FirstDelim
<1>2. Eol \in Seq(Chars) /\ Len(Eol) = 2
  BY BodiesAssumption DEF Eol
<1>3. Eol \o Eol \in Seq(Chars) /\ Len(Eol \o Eol) = 4
  <2>1. Eol \in Seq(Chars)
    BY <1>2
  <2>2. Eol \o Eol \in Seq(Chars) /\ Len(Eol \o Eol) = Len(Eol) + Len(Eol)
    BY <2>1
  <2>3. Len(Eol) = 2
    BY <1>2
  <2> QED
    BY <2>2, <2>3
<1>4. Delim \in Seq(Chars) /\ Len(Delim) = 5
  <2>1. Eol \in Seq(Chars) /\ FirstDelim \in Seq(Chars)
    BY <1>1, <1>2
  <2>2. Delim \in Seq(Chars) /\ Len(Delim) = Len(Eol) + Len(FirstDelim)
    BY <2>1 DEF Delim
  <2>3. Len(Eol) = 2 /\ Len(FirstDelim) = 3
    BY <1>1, <1>2
  <2> QED
    BY <2>2, <2>3
<1>5. Hold = 4
  BY <1>4 DEF Hold
<1> QED
  BY <1>1, <1>2, <1>3, <1>4, <1>5

LEMMA HasAtIs ==
  ASSUME NEW text \in Seq(Chars), NEW what \in Seq(Chars), NEW i \in Nat \ {0}
  PROVE  HasAt(text, what, i) <=>
            /\ i + Len(what) - 1 <= Len(text)
            /\ \A k \in 1 .. Len(what) : text[i + k - 1] = what[k]
<1> DEFINE sub == SubSeq(text, i, i + Len(what) - 1)
<1> SUFFICES ASSUME i + Len(what) - 1 <= Len(text)
             PROVE  sub = what <=> \A k \in 1 .. Len(what) : text[i + k - 1] = what[k]
  BY DEF HasAt
<1>1. sub \in Seq(Chars) /\ Len(sub) = Len(what)
  OBVIOUS
<1>2. \A k \in 1 .. Len(what) : sub[k] = text[i + k - 1]
  OBVIOUS
<1> HIDE DEF sub
<1>3. sub = what <=> \A k \in 1 .. Len(what) : sub[k] = what[k]
  BY <1>1
<1> QED
  BY <1>2, <1>3

(* Where something occurs; where it first does is all that Find tells.     *)
LEMMA FindIs ==
  ASSUME NEW text \in Seq(Chars), NEW what, NEW pos \in Nat
  PROVE  \/ /\ Find(text, what, pos) = 0
            /\ \A i \in pos + 1 .. Len(text) : ~HasAt(text, what, i)
         \/ /\ Find(text, what, pos) \in pos + 1 .. Len(text)
            /\ HasAt(text, what, Find(text, what, pos))
            /\ \A i \in pos + 1 .. Find(text, what, pos) - 1 : ~HasAt(text, what, i)
<1> DEFINE at == {i \in pos + 1 .. Len(text) : HasAt(text, what, i)}
<1>1. Find(text, what, pos) = IF at = {} THEN 0 ELSE Min(at)
  BY DEF Find
<1>2. CASE at = {}
  BY <1>1, <1>2
<1>3. CASE at # {}
  <2>1. PICK m \in at : \A k \in at : m <= k
    <3>1. at \subseteq Nat
      OBVIOUS
    <3> HIDE DEF at
    <3>2. \E m \in at : \A k \in at : m <= k
      BY <1>3, <3>1, Smallest
    <3> QED
      BY <3>2
  <2>2. Min(at) \in at /\ \A k \in at : Min(at) <= k
    <3> HIDE DEF at
    <3> QED
      BY <2>1 DEF Min
  <2>3. Find(text, what, pos) = Min(at)
    BY <1>1, <1>3
  <2> DEFINE m0 == Min(at)
  <2>4. m0 \in pos + 1 .. Len(text) /\ HasAt(text, what, m0)
    BY <2>2
  <2>5. \A k \in at : m0 <= k
    BY <2>2
  <2> HIDE DEF m0
  <2>6. \A i \in pos + 1 .. m0 - 1 : ~HasAt(text, what, i)
    BY <2>4, <2>5
  <2> QED
    BY <2>3, <2>4, <2>6 DEF m0
<1> QED
  BY <1>2, <1>3

LEMMA FindUnique ==
  ASSUME NEW text \in Seq(Chars), NEW what, NEW pos \in Nat,
         NEW i \in pos + 1 .. Len(text), HasAt(text, what, i),
         \A k \in pos + 1 .. i - 1 : ~HasAt(text, what, k)
  PROVE  Find(text, what, pos) = i
<1> DEFINE f == Find(text, what, pos)
<1>1. \/ f = 0 /\ \A k \in pos + 1 .. Len(text) : ~HasAt(text, what, k)
      \/ /\ f \in pos + 1 .. Len(text) /\ HasAt(text, what, f)
         /\ \A k \in pos + 1 .. f - 1 : ~HasAt(text, what, k)
  BY FindIs
<1> HIDE DEF f
<1>2. f # 0 /\ f \in Nat
  BY <1>1
<1>3. ~(f < i) /\ ~(i < f)
  BY <1>1, <1>2
<1>4. f = i
  BY <1>2, <1>3
<1> QED
  BY <1>4 DEF f

LEMMA HasAtInWindow ==
  ASSUME NEW buf, NEW text, NEW off, Windows(buf, text, off),
         NEW what \in Seq(Chars), NEW i \in Nat \ {0}
  PROVE  HasAt(buf, what, i) <=> i + Len(what) - 1 <= Len(buf) /\ HasAt(text, what, off + i)
<1>1. buf \in Seq(Chars) /\ text \in Seq(Chars) /\ off \in Nat /\ off + i \in Nat \ {0}
  BY DEF Windows
<1>2. HasAt(buf, what, i) <=>
        i + Len(what) - 1 <= Len(buf) /\ \A k \in 1 .. Len(what) : buf[i + k - 1] = what[k]
  BY <1>1, HasAtIs
<1>3. HasAt(text, what, off + i) <=>
        /\ off + i + Len(what) - 1 <= Len(text)
        /\ \A k \in 1 .. Len(what) : text[off + i + k - 1] = what[k]
  BY <1>1, HasAtIs
<1> SUFFICES ASSUME i + Len(what) - 1 <= Len(buf)
             PROVE  HasAt(buf, what, i) <=> HasAt(text, what, off + i)
  BY <1>2
<1>4. off + i + Len(what) - 1 <= Len(text)
  BY <1>1 DEF Windows
<1>5. \A k \in 1 .. Len(what) : buf[i + k - 1] = text[off + i + k - 1]
  <2> SUFFICES ASSUME NEW k \in 1 .. Len(what) PROVE buf[i + k - 1] = text[off + i + k - 1]
    OBVIOUS
  <2>1. i + k - 1 \in 1 .. Len(buf) /\ off + (i + k - 1) = off + i + k - 1
    BY <1>1
  <2> QED
    BY <2>1 DEF Windows
<1> QED
  BY <1>2, <1>3, <1>4, <1>5

(* What a search of the part finds.                                        *)
LEMMA FoundInWindow ==
  ASSUME NEW buf, NEW text, NEW off, Windows(buf, text, off),
         NEW what \in Seq(Chars), Len(what) > 0, NEW pos \in Nat, Find(buf, what, pos) # 0
  PROVE  /\ Find(buf, what, pos) \in pos + 1 .. Len(buf)
         /\ Find(buf, what, pos) + Len(what) - 1 <= Len(buf)
         /\ HasAt(text, what, off + Find(buf, what, pos))
         /\ Find(text, what, off + pos) = off + Find(buf, what, pos)
<1> DEFINE f == Find(buf, what, pos)
<1>1. buf \in Seq(Chars) /\ text \in Seq(Chars) /\ off \in Nat /\ off + Len(buf) <= Len(text)
  BY DEF Windows
<1>2. f \in pos + 1 .. Len(buf) /\ HasAt(buf, what, f) /\ \A i \in pos + 1 .. f - 1 : ~HasAt(buf, what, i)
  BY <1>1, FindIs
<1> HIDE DEF f
<1>3. f \in Nat \ {0}
  BY <1>2
<1>4. f + Len(what) - 1 <= Len(buf) /\ HasAt(text, what, off + f)
  BY <1>2, <1>3, HasAtInWindow
<1>5. ASSUME NEW k \in off + pos + 1 .. off + f - 1 PROVE ~HasAt(text, what, k)
  <2>1. PICK i \in Nat \ {0} : i = k - off
    BY <1>1
  <2>2. ~HasAt(buf, what, i)
    BY <1>1, <1>2, <2>1
  <2>3. i + Len(what) - 1 <= Len(buf)
    BY <1>1, <1>3, <1>4, <2>1
  <2>4. ~HasAt(text, what, off + i)
    BY <2>2, <2>3, HasAtInWindow
  <2> QED
    BY <1>1, <2>1, <2>4
<1>6. PICK p \in Nat : p = off + pos
  BY <1>1
<1>7. PICK q \in p + 1 .. Len(text) : q = off + f
  BY <1>1, <1>2, <1>6
<1>8. HasAt(text, what, q) /\ \A k \in p + 1 .. q - 1 : ~HasAt(text, what, k)
  <2>1. \A k \in p + 1 .. q - 1 : k \in off + pos + 1 .. off + f - 1
    BY <1>1, <1>2, <1>6, <1>7
  <2> QED
    BY <1>4, <1>5, <1>7, <2>1
<1>9. Find(text, what, p) = q
  BY <1>1, <1>8, FindUnique
<1> QED
  BY <1>2, <1>4, <1>6, <1>7, <1>9 DEF f

LEMMA NotFoundInWindow ==
  ASSUME NEW buf, NEW text, NEW off, Windows(buf, text, off),
         NEW what \in Seq(Chars), Len(what) > 0, NEW pos \in Nat, Find(buf, what, pos) = 0
  PROVE  \A k \in off + pos + 1 .. off + Len(buf) - Len(what) + 1 : ~HasAt(text, what, k)
<1>1. buf \in Seq(Chars) /\ text \in Seq(Chars) /\ off \in Nat
  BY DEF Windows
<1>2. \A i \in pos + 1 .. Len(buf) : ~HasAt(buf, what, i)
  BY <1>1, FindIs
<1> SUFFICES ASSUME NEW k \in off + pos + 1 .. off + Len(buf) - Len(what) + 1
             PROVE  ~HasAt(text, what, k)
  OBVIOUS
<1>3. PICK i \in Nat \ {0} : i = k - off
  BY <1>1
<1>4. i \in pos + 1 .. Len(buf) /\ i + Len(what) - 1 <= Len(buf)
  BY <1>1, <1>3
<1>5. ~HasAt(text, what, off + i)
  BY <1>2, <1>4, HasAtInWindow
<1> QED
  BY <1>1, <1>3, <1>5

(* SubSeq, under a name the provers do not rewrite.                        *)
Cut(text, a, b) == SubSeq(text, a, b)

LEMMA SubSeqOfWindow ==
  ASSUME NEW buf, NEW text, NEW off, Windows(buf, text, off),
         NEW a \in Nat \ {0}, NEW b \in Nat, b <= Len(buf)
  PROVE  Cut(buf, a, b) = Cut(text, off + a, off + b)
<1>1. buf \in Seq(Chars) /\ text \in Seq(Chars) /\ off \in Nat /\ off + Len(buf) <= Len(text)
  BY DEF Windows
<1> DEFINE s == SubSeq(buf, a, b)
           t == SubSeq(text, off + a, off + b)
           n == IF a <= b THEN b - a + 1 ELSE 0
<1>2. s \in Seq(Chars) /\ Len(s) = n /\ \A j \in 1 .. n : s[j] = buf[a + j - 1]
  BY <1>1
<1>3. t \in Seq(Chars) /\ Len(t) = n /\ \A j \in 1 .. n : t[j] = text[off + a + j - 1]
  BY <1>1
<1>4. \A j \in 1 .. n : buf[a + j - 1] = text[off + a + j - 1]
  <2> SUFFICES ASSUME NEW j \in 1 .. n PROVE buf[a + j - 1] = text[off + a + j - 1]
    OBVIOUS
  <2>1. a + j - 1 \in 1 .. Len(buf) /\ off + (a + j - 1) = off + a + j - 1
    BY <1>1
  <2> QED
    BY <2>1 DEF Windows
<1> HIDE DEF s, t
<1>5. \A j \in 1 .. n : s[j] = t[j]
  BY <1>2, <1>3, <1>4
<1> HIDE DEF n
<1>6. s = t
  BY <1>2, <1>3, <1>5
<1> QED
  BY <1>6 DEF s, t, Cut

-----------------------------------------------------------------------------
(* The grammar. *)

(* A function of the numbers up to n, each of whose values follows from    *)
(* one further on, exists.                                                 *)
Recursions(n, V, first, next, step) ==
    { e \in [1 .. n -> V] :
        \A i \in 1 .. n : e[i] = IF next[i] = 0 THEN first[i] ELSE step[<<i, e[next[i]]>>] }

LEMMA Recurs ==
  ASSUME NEW n \in Nat, NEW V, NEW first \in [1 .. n -> V], NEW next \in [1 .. n -> 0 .. n],
         NEW step \in [(1 .. n) \X V -> V], \A i \in 1 .. n : next[i] # 0 => i < next[i]
  PROVE  Recursions(n, V, first, next, step) # {}
<1> DEFINE Value(e, i) == IF next[i] = 0 THEN first[i] ELSE step[<<i, e[next[i]]>>]
           Right(k) == { e \in [1 .. n -> V] : \A i \in 1 .. n : n - k < i => e[i] = Value(e, i) }
           S == {k \in Nat : k <= n => Right(k) # {}}
<1>1. ASSUME NEW e \in [1 .. n -> V], NEW i \in 1 .. n PROVE Value(e, i) \in V
  <2>1. CASE next[i] = 0
    BY <2>1
  <2>2. CASE next[i] # 0
    <3>1. next[i] \in 1 .. n
      BY <2>2
    <3>2. e[next[i]] \in V
      BY <3>1
    <3>3. \A v \in V : step[<<i, v>>] \in V
      OBVIOUS
    <3> QED
      BY <2>2, <3>2, <3>3
  <2> QED
    BY <2>1, <2>2
<1>2. 0 \in S
  <2>1. first \in Right(0)
    OBVIOUS
  <2> QED
    BY <2>1
<1>3. ASSUME NEW k \in Nat, k \in S PROVE k + 1 \in S
  <2> SUFFICES ASSUME k + 1 <= n PROVE Right(k + 1) # {}
    OBVIOUS
  <2>1. Right(k) # {}
    BY <1>3
  <2>2. PICK e \in [1 .. n -> V] : \A i \in 1 .. n : n - k < i => e[i] = Value(e, i)
    BY <2>1
  <2> DEFINE v == Value(e, n - k)
             h == [e EXCEPT ![n - k] = v]
  <2> HIDE DEF S, Right
  <2>3. n - k \in 1 .. n
    OBVIOUS
  <2>4. v \in V
    BY <1>1, <2>3
  <2> HIDE DEF v
  <2>5. h \in [1 .. n -> V] /\ h[n - k] = v /\ \A i \in 1 .. n : i # n - k => h[i] = e[i]
    BY <2>3, <2>4
  <2> HIDE DEF h
  <2>6. ASSUME NEW i \in 1 .. n, n - k <= i PROVE Value(h, i) = Value(e, i)
    <3>1. next[i] # 0 => next[i] \in 1 .. n /\ next[i] # n - k
      BY <2>6
    <3> QED
      BY <2>5, <3>1
  <2> HIDE DEF Value
  <2>7. ASSUME NEW i \in 1 .. n, n - (k + 1) < i PROVE h[i] = Value(h, i)
    <3>1. CASE i = n - k
      BY <2>5, <2>6, <3>1 DEF v
    <3>2. CASE i # n - k
      <4>1. n - k < i
        BY <2>7, <3>2
      <4> QED
        BY <2>2, <2>5, <2>6, <3>2, <4>1
    <3> QED
      BY <3>1, <3>2
  <2>8. h \in Right(k + 1)
    BY <2>5, <2>7 DEF Right
  <2> QED
    BY <2>8
<1> HIDE DEF S
<1>4. n \in S
  BY <1>2, <1>3, SetInduction
<1>5. Right(n) # {}
  BY <1>4 DEF S
<1>6. PICK e \in [1 .. n -> V] : \A i \in 1 .. n : n - n < i => e[i] = Value(e, i)
  BY <1>5
<1>7. \A i \in 1 .. n : e[i] = Value(e, i)
  BY <1>6
<1> QED
  BY <1>7 DEF Recursions

Meanings == [ok : BOOLEAN, parts : Seq(Seq(Chars))]

(* The data of the part at place i, and what is to be made of it and of    *)
(* what follows.                                                           *)
DataAt(text, i) ==
    SubSeq(text, HeaderEnd(text, i) + 4,
           IF NextDelim(text, i) = 0 THEN Len(text) ELSE NextDelim(text, i) - 1)

LastAt(text, i) ==
    IF IsPart(text, i) THEN [ok |-> FALSE, parts |-> <<DataAt(text, i)>>]
    ELSE [ok |-> HasAt(text, <<"-", "-">>, i), parts |-> <<>>]

WithPart(data, rest) == [ok |-> rest.ok, parts |-> <<data>> \o rest.parts]

(* Where the next part is looked for, 0 if there is nothing more.          *)
NextAt(text, i) ==
    IF IsPart(text, i) /\ NextDelim(text, i) # 0 THEN NextDelim(text, i) + 5 ELSE 0

LEMMA HeaderEndIs ==
  ASSUME NEW text \in Seq(Chars), NEW i \in Nat, HeaderEnd(text, i) # 0
  PROVE  HeaderEnd(text, i) \in i + 2 .. Len(text) - 3
<1> DEFINE w == Eol \o Eol
           h == HeaderEnd(text, i)
<1>1. h \in i + 2 .. Len(text) /\ HasAt(text, w, h)
  <2>1. i + 1 \in Nat
    OBVIOUS
  <2>2. \/ Find(text, w, i + 1) = 0
        \/ Find(text, w, i + 1) \in i + 1 + 1 .. Len(text) /\ HasAt(text, w, Find(text, w, i + 1))
    BY <2>1, FindIs
  <2> QED
    BY <2>2 DEF HeaderEnd
<1>2. h + 4 - 1 <= Len(text)
  BY <1>1, Words DEF HasAt
<1> QED
  BY <1>1, <1>2

LEMMA NextDelimIs ==
  ASSUME NEW text \in Seq(Chars), NEW i \in Nat, HeaderEnd(text, i) # 0, NextDelim(text, i) # 0
  PROVE  NextDelim(text, i) \in HeaderEnd(text, i) + 4 .. Len(text) - 4
<1> DEFINE p == HeaderEnd(text, i) + 3
           d == NextDelim(text, i)
<1>1. p \in Nat /\ HeaderEnd(text, i) \in Nat
  BY HeaderEndIs
<1>2. d \in p + 1 .. Len(text) /\ HasAt(text, Delim, d)
  <2>1. \/ Find(text, Delim, p) = 0
        \/ Find(text, Delim, p) \in p + 1 .. Len(text) /\ HasAt(text, Delim, Find(text, Delim, p))
    BY <1>1, FindIs
  <2> QED
    BY <2>1 DEF NextDelim
<1>3. d + 5 - 1 <= Len(text)
  BY <1>2, Words DEF HasAt
<1> QED
  BY <1>1, <1>2, <1>3

LEMMA NextAtIs ==
  ASSUME NEW text \in Seq(Chars), NEW i \in 1 .. Len(text) + 1
  PROVE  NextAt(text, i) = 0 \/ NextAt(text, i) \in i + 1 .. Len(text) + 1
<1> SUFFICES ASSUME IsPart(text, i), NextDelim(text, i) # 0
             PROVE  NextDelim(text, i) + 5 \in i + 1 .. Len(text) + 1
  BY DEF NextAt
<1>1. HeaderEnd(text, i) # 0
  BY DEF IsPart
<1>2. HeaderEnd(text, i) \in i + 2 .. Len(text) - 3
  BY <1>1, HeaderEndIs
<1>3. NextDelim(text, i) \in HeaderEnd(text, i) + 4 .. Len(text) - 4
  BY <1>1, NextDelimIs
<1> QED
  BY <1>2, <1>3

LEMMA MeaningsKept ==
  ASSUME NEW text \in Seq(Chars), NEW i \in 1 .. Len(text) + 1
  PROVE  /\ DataAt(text, i) \in Seq(Chars)
         /\ LastAt(text, i) \in Meanings
         /\ \A rest \in Meanings : WithPart(DataAt(text, i), rest) \in Meanings
<1>1. DataAt(text, i) \in Seq(Chars)
  <2> DEFINE a == HeaderEnd(text, i) + 4
             b == IF NextDelim(text, i) = 0 THEN Len(text) ELSE NextDelim(text, i) - 1
  <2>1. \A x, y \in Nat : x > 0 /\ y <= Len(text) => SubSeq(text, x, y) \in Seq(Chars)
    OBVIOUS
  <2>2. HeaderEnd(text, i) \in Nat
    BY HeaderEndIs
  <2>3. b \in Nat /\ b <= Len(text)
    <3>1. CASE NextDelim(text, i) = 0
      BY <3>1
    <3>2. CASE NextDelim(text, i) # 0
      <4>1. NextDelim(text, i) \in 1 .. Len(text)
        <5> DEFINE p == HeaderEnd(text, i) + 3
        <5>1. p \in Nat
          BY <2>2
        <5>2. Find(text, Delim, p) = 0 \/ Find(text, Delim, p) \in p + 1 .. Len(text)
          BY <5>1, FindIs
        <5> QED
          BY <3>2, <5>1, <5>2 DEF NextDelim
      <4> QED
        BY <3>2, <4>1
    <3> QED
      BY <3>1, <3>2
  <2> QED
    BY <2>1, <2>2, <2>3 DEF DataAt
<1>2. HasAt(text, <<"-", "-">>, i) \in BOOLEAN
  BY DEF HasAt
<1>3. \A d \in Seq(Chars) : <<d>> \in Seq(Seq(Chars))
  OBVIOUS
<1>4. LastAt(text, i) \in Meanings
  BY <1>1, <1>2, <1>3 DEF LastAt, Meanings
<1>5. ASSUME NEW rest \in Meanings PROVE WithPart(DataAt(text, i), rest) \in Meanings
  <2>1. rest.ok \in BOOLEAN /\ rest.parts \in Seq(Seq(Chars))
    BY DEF Meanings
  <2>2. <<DataAt(text, i)>> \o rest.parts \in Seq(Seq(Chars))
    BY <1>1, <1>3, <2>1
  <2> QED
    BY <2>1, <2>2 DEF WithPart, Meanings
<1> QED
  BY <1>1, <1>4, <1>5

LEMMA FromIs ==
  ASSUME NEW text \in Seq(Chars)
  PROVE  \A i \in 1 .. Len(text) + 1 :
            /\ From(text)[i] \in Meanings
            /\ From(text)[i] = IF NextAt(text, i) = 0 THEN LastAt(text, i)
                               ELSE WithPart(DataAt(text, i), From(text)[NextAt(text, i)])
<1> DEFINE n == Len(text) + 1
           Raw(f, i) ==
              IF ~IsPart(text, i) THEN [ok |-> HasAt(text, <<"-", "-">>, i), parts |-> <<>>]
              ELSE IF NextDelim(text, i) = 0
              THEN [ok |-> FALSE, parts |-> <<SubSeq(text, HeaderEnd(text, i) + 4, Len(text))>>]
              ELSE [ok |-> f[NextDelim(text, i) + Len(Delim)].ok,
                    parts |-> <<SubSeq(text, HeaderEnd(text, i) + 4, NextDelim(text, i) - 1)>>
                                \o f[NextDelim(text, i) + Len(Delim)].parts]
           Value(f, i) == IF NextAt(text, i) = 0 THEN LastAt(text, i)
                          ELSE WithPart(DataAt(text, i), f[NextAt(text, i)])
           Is(f) == f = [i \in 1 .. n |-> Raw(f, i)]
           e == CHOOSE f : Is(f)
<1>1. From(text) = e
  BY DEF From
<1>2. ASSUME NEW f, NEW i \in 1 .. n PROVE Raw(f, i) = Value(f, i)
  <2>1. CASE ~IsPart(text, i)
    BY <2>1 DEF NextAt, LastAt
  <2>2. CASE IsPart(text, i) /\ NextDelim(text, i) = 0
    BY <2>2 DEF NextAt, LastAt, DataAt
  <2>3. CASE IsPart(text, i) /\ NextDelim(text, i) # 0
    <3>1. NextAt(text, i) = NextDelim(text, i) + Len(Delim)
      BY <2>3, Words DEF NextAt
    <3>2. NextAt(text, i) # 0
      <4>1. HeaderEnd(text, i) # 0
        BY <2>3 DEF IsPart
      <4>2. NextDelim(text, i) \in HeaderEnd(text, i) + 4 .. Len(text) - 4 /\ HeaderEnd(text, i) \in Nat
        BY <2>3, <4>1, NextDelimIs, HeaderEndIs
      <4>3. NextAt(text, i) = NextDelim(text, i) + 5
        BY <2>3 DEF NextAt
      <4> QED
        BY <4>2, <4>3
    <3>3. DataAt(text, i) = SubSeq(text, HeaderEnd(text, i) + 4, NextDelim(text, i) - 1)
      BY <2>3 DEF DataAt
    <3> QED
      BY <2>3, <3>1, <3>2, <3>3 DEF WithPart
  <2> QED
    BY <2>1, <2>2, <2>3
<1>3. n \in Nat
  OBVIOUS
<1>4. \A i \in 1 .. n : NextAt(text, i) = 0 \/ NextAt(text, i) \in i + 1 .. n
  BY NextAtIs
<1>5. \A i \in 1 .. n : LastAt(text, i) \in Meanings /\
         \A rest \in Meanings : WithPart(DataAt(text, i), rest) \in Meanings
  BY MeaningsKept
<1> HIDE DEF n, Raw
<1>6. \E f : Is(f)
  <2> DEFINE first == [i \in 1 .. n |-> LastAt(text, i)]
             next == [i \in 1 .. n |-> NextAt(text, i)]
             step == [x \in (1 .. n) \X Meanings |-> WithPart(DataAt(text, x[1]), x[2])]
  <2>1. first \in [1 .. n -> Meanings] /\ \A i \in 1 .. n : first[i] = LastAt(text, i)
    BY <1>5
  <2>2. next \in [1 .. n -> 0 .. n] /\ \A i \in 1 .. n : next[i] = NextAt(text, i) /\ (next[i] # 0 => i < next[i])
    <3>1. \A i \in 1 .. n : NextAt(text, i) \in 0 .. n /\ (NextAt(text, i) # 0 => i < NextAt(text, i))
      BY <1>3, <1>4
    <3> QED
      BY <3>1
  <2>3. /\ step \in [(1 .. n) \X Meanings -> Meanings]
        /\ \A i \in 1 .. n, rest \in Meanings : step[<<i, rest>>] = WithPart(DataAt(text, i), rest)
    BY <1>5
  <2> HIDE DEF first, next, step
  <2>4. Recursions(n, Meanings, first, next, step) # {}
    BY <1>3, <2>1, <2>2, <2>3, Recurs
  <2>5. PICK f \in [1 .. n -> Meanings] :
          \A i \in 1 .. n : f[i] = IF next[i] = 0 THEN first[i] ELSE step[<<i, f[next[i]]>>]
    BY <2>4 DEF Recursions
  <2>6. ASSUME NEW i \in 1 .. n PROVE f[i] = Raw(f, i)
    <3>1. CASE NextAt(text, i) = 0
      <4>1. f[i] = first[i]
        BY <2>2, <2>5, <3>1
      <4> QED
        BY <1>2, <2>1, <3>1, <4>1
    <3>2. CASE NextAt(text, i) # 0
      <4>1. NextAt(text, i) \in 1 .. n
        BY <1>3, <1>4, <3>2
      <4>2. f[i] = step[<<i, f[NextAt(text, i)]>>]
        BY <2>2, <2>5, <3>2
      <4>3. f[NextAt(text, i)] \in Meanings
        BY <2>5, <4>1
      <4>4. f[i] = WithPart(DataAt(text, i), f[NextAt(text, i)])
        BY <2>3, <4>2, <4>3
      <4> QED
        BY <1>2, <3>2, <4>4
    <3> QED
      BY <3>1, <3>2
  <2>7. f = [i \in 1 .. n |-> f[i]]
    BY <2>5
  <2>8. Is(f)
    BY <2>6, <2>7
  <2> QED
    BY <2>8
<1>7. Is(e)
  BY <1>6
<1> HIDE DEF e
<1>8. \A i \in 1 .. n : e[i] = Value(e, i)
  <2>1. \A i \in 1 .. n : e[i] = Raw(e, i)
    BY <1>7
  <2> HIDE DEF Value, Is
  <2> QED
    BY <1>2, <2>1
<1> DEFINE S == {k \in Nat : \A i \in 1 .. n : n - k < i => e[i] \in Meanings}
<1>9. 0 \in S
  BY <1>3
<1>10. ASSUME NEW k \in Nat, k \in S PROVE k + 1 \in S
  <2> SUFFICES ASSUME NEW i \in 1 .. n, n - (k + 1) < i PROVE e[i] \in Meanings
    OBVIOUS
  <2>1. \A j \in 1 .. n : n - k < j => e[j] \in Meanings
    BY <1>10
  <2>2. CASE NextAt(text, i) = 0
    BY <1>5, <1>8, <2>2
  <2>3. CASE NextAt(text, i) # 0
    <3>1. NextAt(text, i) \in 1 .. n /\ n - k < NextAt(text, i)
      BY <1>3, <1>4, <2>3
    <3>2. e[NextAt(text, i)] \in Meanings
      BY <2>1, <3>1
    <3>3. e[i] = WithPart(DataAt(text, i), e[NextAt(text, i)])
      BY <1>8, <2>3
    <3> QED
      BY <1>5, <3>2, <3>3
  <2> QED
    BY <2>2, <2>3
<1> HIDE DEF S
<1>11. \A k \in Nat : k \in S
  BY <1>9, <1>10, SetInduction
<1>12. n \in S
  BY <1>3, <1>11
<1>13. \A i \in 1 .. n : e[i] \in Meanings
  BY <1>3, <1>12 DEF S
<1> QED
  BY <1>1, <1>8, <1>13 DEF n

LEMMA OneBefore ==
  ASSUME NEW T, NEW x \in T, NEW s \in Seq(T)
  PROVE  /\ Len(<<x>> \o s) = 1 + Len(s) /\ Len(s) \in Nat
         /\ (<<x>> \o s)[1] = x
         /\ \A j \in 1 .. Len(s) : (<<x>> \o s)[1 + j] = s[j]
<1>1. <<x>> \in Seq(T)
  OBVIOUS
<1>2. \A t \in Seq(T) :
        /\ Len(t \o s) = Len(t) + Len(s)
        /\ \A j \in 1 .. Len(t) : (t \o s)[j] = t[j]
        /\ \A j \in 1 .. Len(s) : (t \o s)[Len(t) + j] = s[j]
  OBVIOUS
<1>3. /\ Len(<<x>> \o s) = Len(<<x>>) + Len(s)
      /\ \A j \in 1 .. Len(<<x>>) : (<<x>> \o s)[j] = <<x>>[j]
      /\ \A j \in 1 .. Len(s) : (<<x>> \o s)[Len(<<x>>) + j] = s[j]
  BY <1>1, <1>2
<1>4. Len(<<x>>) = 1 /\ <<x>>[1] = x
  OBVIOUS
<1> QED
  BY <1>3, <1>4

(* Where a text's parts begin.                                             *)
LEMMA OpeningIs ==
  ASSUME NEW text \in Seq(Chars)
  PROVE  /\ Meaning(text) \in Meanings
         /\ Find(text, FirstDelim, 0) = 0 => ~Meaning(text).ok
         /\ Find(text, FirstDelim, 0) # 0 => Ahead(text, 0, Find(text, FirstDelim, 0) + 3)
<1> DEFINE o == Find(text, FirstDelim, 0)
<1>1. CASE o = 0
  <2>1. Meaning(text) = [ok |-> FALSE, parts |-> <<>>]
    BY <1>1 DEF Meaning
  <2>2. Meaning(text) \in Meanings
    BY <2>1 DEF Meanings
  <2> QED
    BY <1>1, <2>1, <2>2
<1>2. CASE o # 0
  <2>1. Meaning(text) = From(text)[o + 3]
    BY <1>2, Words DEF Meaning
  <2>2. o \in 1 .. Len(text) /\ HasAt(text, FirstDelim, o)
    BY <1>2, FindIs
  <2>3. o + 3 \in 1 .. Len(text) + 1
    <3>1. o + 3 - 1 <= Len(text)
      BY <2>2, Words DEF HasAt
    <3> QED
      BY <2>2, <3>1
  <2>4. Meaning(text) \in Meanings
    BY <2>1, <2>3, FromIs
  <2>5. Len(Meaning(text).parts) \in Nat
    BY <2>4 DEF Meanings
  <2>6. Ahead(text, 0, o + 3)
    BY <2>1, <2>3, <2>5 DEF Ahead
  <2> QED
    BY <1>2, <2>4, <2>6
<1> QED
  BY <1>1, <1>2

(* At a place where no part begins the parts are all told.                 *)
LEMMA AheadOfTheEnd ==
  ASSUME NEW text \in Seq(Chars), NEW k \in Nat, NEW i, Ahead(text, k, i), ~IsPart(text, i)
  PROVE  Meaning(text).ok = HasAt(text, <<"-", "-">>, i) /\ Len(Meaning(text).parts) = k
<1>1. i \in 1 .. Len(text) + 1
  BY DEF Ahead
<1>2. From(text)[i] = [ok |-> HasAt(text, <<"-", "-">>, i), parts |-> <<>>]
  <2>1. NextAt(text, i) = 0
    BY DEF NextAt
  <2>2. From(text)[i] = LastAt(text, i)
    BY <1>1, <2>1, FromIs
  <2> QED
    BY <2>2 DEF LastAt
<1>3. Len(From(text)[i].parts) = 0 /\ From(text)[i].ok = HasAt(text, <<"-", "-">>, i)
  BY <1>2
<1> QED
  BY <1>3 DEF Ahead

(* Where one begins, its data is that part's.                              *)
LEMMA AheadOfAPart ==
  ASSUME NEW text \in Seq(Chars), NEW k \in Nat, NEW i, Ahead(text, k, i), IsPart(text, i)
  PROVE  DataAfter(text, k + 1, HeaderEnd(text, i) + 3)
<1> DEFINE d == HeaderEnd(text, i) + 3
           next == NextDelim(text, i)
           here == From(text)[i]
           M == Meaning(text)
<1>1. i \in 1 .. Len(text) + 1
  BY DEF Ahead
<1>2. next = Find(text, Delim, d)
  BY DEF NextDelim
<1>3. HeaderEnd(text, i) # 0
  BY DEF IsPart
<1>4. HeaderEnd(text, i) \in Nat
  BY <1>1, <1>3, HeaderEndIs
<1>40. d + 1 = HeaderEnd(text, i) + 4
  BY <1>4
<1>5. M.ok = here.ok /\ Len(M.parts) = k + Len(here.parts)
      /\ \A j \in 1 .. Len(here.parts) : M.parts[k + j] = here.parts[j]
  BY DEF Ahead
<1>50. Len(M.parts) = k + Len(here.parts)
  BY DEF Ahead
<1>6. CASE next = 0
  <2>1. NextAt(text, i) = 0
    BY <1>6 DEF NextAt
  <2>2. here = LastAt(text, i)
    BY <1>1, <2>1, FromIs
  <2>3. here = [ok |-> FALSE, parts |-> <<SubSeq(text, d + 1, Len(text))>>]
    BY <1>6, <1>40, <2>2 DEF LastAt, DataAt
  <2> HIDE DEF here, M, d, next
  <2>4. here.ok = FALSE /\ Len(here.parts) = 1 /\ here.parts[1] = SubSeq(text, d + 1, Len(text))
    BY <2>3
  <2>5. ~M.ok /\ Len(M.parts) = k + 1 /\ M.parts[k + 1] = SubSeq(text, d + 1, Len(text))
    BY <1>5, <2>4
  <2> QED
    BY <1>2, <1>6, <2>5 DEF DataAfter, d, M
<1>7. CASE next # 0
  <2> DEFINE a == next + 5
             data == SubSeq(text, d + 1, next - 1)
             rest == From(text)[a]
  <2>1. NextAt(text, i) = a
    BY <1>7 DEF NextAt
  <2>2. a # 0 /\ a \in 1 .. Len(text) + 1
    BY <1>1, <1>3, <1>4, <1>7, NextDelimIs
  <2>3. here = WithPart(data, rest)
    <3>1. here = WithPart(DataAt(text, i), From(text)[NextAt(text, i)])
      BY <1>1, <2>1, <2>2, FromIs
    <3>2. DataAt(text, i) = data
      BY <1>7, <1>40 DEF DataAt
    <3> QED
      BY <2>1, <3>1, <3>2
  <2>4. rest \in Meanings /\ data \in Seq(Chars)
    <3>1. rest \in Meanings
      BY <2>2, FromIs
    <3>2. DataAt(text, i) \in Seq(Chars)
      BY <1>1, MeaningsKept
    <3>3. DataAt(text, i) = data
      BY <1>7, <1>40 DEF DataAt
    <3> QED
      BY <3>1, <3>2, <3>3
  <2> HIDE DEF here, M, d, next, rest, data, a
  <2>5. here.ok = rest.ok /\ here.parts = <<data>> \o rest.parts /\ rest.parts \in Seq(Seq(Chars))
    BY <2>3, <2>4 DEF WithPart, Meanings
  <2>6. /\ Len(here.parts) = 1 + Len(rest.parts) /\ Len(rest.parts) \in Nat
        /\ here.parts[1] = data
        /\ \A j \in 1 .. Len(rest.parts) : here.parts[1 + j] = rest.parts[j]
    <3> DEFINE r == rest.parts
               all == <<data>> \o r
    <3>1. data \in Seq(Chars) /\ r \in Seq(Seq(Chars))
      BY <2>4, <2>5
    <3> HIDE DEF r
    <3>2. Len(all) = 1 + Len(r) /\ Len(r) \in Nat /\ all[1] = data /\ \A j \in 1 .. Len(r) : all[1 + j] = r[j]
      BY <3>1, OneBefore
    <3>3. here.parts = all
      BY <2>5 DEF r
    <3> HIDE DEF all
    <3> QED
      BY <3>2, <3>3 DEF r
  <2>7. M.parts[k + 1] = data
    <3>1. 1 \in 1 .. Len(here.parts)
      BY <2>6
    <3> QED
      BY <1>5, <2>6, <3>1
  <2>8. Len(M.parts) = (k + 1) + Len(rest.parts)
    <3>1. PICK n \in Nat : n = Len(rest.parts)
      BY <2>6
    <3>2. Len(here.parts) = 1 + n
      BY <2>6, <3>1
    <3>3. Len(M.parts) = k + (1 + n)
      BY <1>50, <3>2
    <3>4. k + (1 + n) = (k + 1) + n
      OBVIOUS
    <3> QED
      BY <3>1, <3>3, <3>4
  <2>9. ASSUME NEW j \in 1 .. Len(rest.parts) PROVE M.parts[(k + 1) + j] = rest.parts[j]
    <3>1. 1 + j \in 1 .. Len(here.parts) /\ k + (1 + j) = (k + 1) + j
      BY <2>6
    <3> QED
      BY <1>5, <2>6, <3>1
  <2>10. Ahead(text, k + 1, a)
    BY <1>5, <2>2, <2>5, <2>8, <2>9 DEF Ahead, M, rest
  <2> QED
    BY <1>2, <1>7, <2>7, <2>10 DEF DataAfter, d, M, a, data
<1> QED
  BY <1>6, <1>7

-----------------------------------------------------------------------------
(* What every step of the scanner has in common. *)

LEMMA BufferFacts ==
  ASSUME BufferInv
  PROVE  /\ scanner.buf \in Seq(Chars) /\ body \in Seq(Chars)
         /\ scanner.pos \in Nat /\ Offset \in Nat /\ scanner.pos <= Len(scanner.buf)
         /\ read = Offset + Len(scanner.buf) /\ read <= Len(body)
         /\ Scanned = Offset + scanner.pos /\ Scanned \in 0 .. Len(body) /\ Scanned <= read
         /\ Rest = Len(scanner.buf) - scanner.pos /\ Rest = read - Scanned /\ Rest \in Nat
         /\ Windows(scanner.buf, body, Offset)
<1>1. scanner.buf \in Seq(Chars) /\ body \in Seq(Chars) /\ Offset \in Nat /\ Windows(scanner.buf, body, Offset)
  BY DEF BufferInv, Windows
<1>2. scanner.pos \in Nat /\ scanner.pos <= Len(scanner.buf) /\ read \in Nat /\ read <= Len(body)
  BY DEF BufferInv, Scanner
<1>3. Len(scanner.buf) \in Nat /\ Len(body) \in Nat
  BY <1>1
<1>4. read = Offset + Len(scanner.buf)
  BY <1>2, <1>3 DEF Offset
<1>5. Scanned = Offset + scanner.pos
  BY DEF Scanned
<1>6. Rest = Len(scanner.buf) - scanner.pos
  BY DEF Rest
<1>7. Scanned \in 0 .. Len(body) /\ Scanned <= read /\ Rest = read - Scanned /\ Rest \in Nat
  <2> DEFINE n == Len(scanner.buf)
             m == Len(body)
  <2>1. n \in Nat /\ m \in Nat /\ read = Offset + n /\ Rest = n - scanner.pos /\ scanner.pos <= n /\ read <= m
    BY <1>2, <1>3, <1>4, <1>6
  <2> HIDE DEF n, m
  <2>2. Offset \in Nat /\ scanner.pos \in Nat
    BY <1>1, <1>2
  <2>3. Scanned \in Nat /\ read \in Nat
    BY <1>5, <2>1, <2>2
  <2>4. Scanned <= read /\ Rest = read - Scanned
    BY <1>5, <2>1, <2>2
  <2>5. Rest \in Nat
    BY <2>3, <2>4
  <2>6. Scanned \in 0 .. m
    BY <2>1, <2>3, <2>4
  <2> QED
    BY <2>4, <2>5, <2>6 DEF m
<1> QED
  BY <1>1, <1>2, <1>3, <1>4, <1>5, <1>6, <1>7

(* It goes to another state and place.                                     *)
Moves(st, p) ==
    /\ UNCHANGED <<body, read>>
    /\ scanner' \in Scanner /\ scanner'.buf = scanner.buf /\ scanner'.eof = scanner.eof
    /\ scanner'.state = st /\ scanner'.pos = p

LEMMA Moving ==
  ASSUME scanner \in Scanner, NEW st \in States, NEW p \in Nat, UNCHANGED <<body, read>>,
         scanner' = To(st, p) \/ scanner' = Wants(To(st, p))
  PROVE  Moves(st, p)
BY DEF Moves, To, Wants, Scanner

LEMMA Staying ==
  ASSUME scanner \in Scanner, UNCHANGED <<body, read>>, scanner' = Wants(scanner)
  PROVE  Moves(scanner.state, scanner.pos)
BY DEF Moves, Wants, Scanner

LEMMA MovedBuffer ==
  ASSUME BufferInv, NEW st, NEW p \in Nat, p <= Len(scanner.buf), Moves(st, p)
  PROVE  BufferInv' /\ Scanned' = Offset + p
<1>1. Offset' = Offset
  BY DEF Moves, Offset
<1>2. Scanned' = Offset + p
  BY <1>1 DEF Scanned, Moves
<1>3. Windows(scanner.buf, body, Offset)'
  <2>1. Windows(scanner.buf, body, Offset)
    BY DEF BufferInv
  <2>2. scanner'.buf = scanner.buf /\ body' = body
    BY DEF Moves
  <2> QED
    BY <1>1, <2>1, <2>2 DEF Windows
<1>4. BufferInv'
  BY <1>3 DEF BufferInv, Moves
<1> QED
  BY <1>2, <1>4

LEMMA SameHeaders == ASSUME body' = body PROVE HasLongHeader' = HasLongHeader
BY DEF HasLongHeader

LEMMA SameParts ==
  ASSUME PartsInv, EndsInv, UNCHANGED <<body, parts, ended>>, ended = "no" \/ CutShort' = CutShort
  PROVE  PartsInv' /\ EndsInv'
<1>1. HasLongHeader' = HasLongHeader
  BY SameHeaders
<1> QED
  BY <1>1 DEF PartsInv, EndsInv

(* Which calls it works for, and that nothing is left to be handed on.     *)
LEMMA AtWork ==
  ASSUME ControlInv, NEW st, Scanning(st), ~Reading("some"), ~Reading("all")
  PROVE  /\ scanner.state = st /\ ended = "no" /\ pending = <<>> /\ op \in {"next", "form", "some", "all"}
         /\ op \in {"some", "all"} => ~partDone /\ st \in {"data", "part_ending"}
BY DEF ControlInv, Scanning, Reading, Ops

LEMMA MalformedStep ==
  ASSUME FormInv, Malformed, ~Meaning(body).ok \/ HasLongHeader \/ CutShort
  PROVE  FormInv'
<1>1. BufferInv'
  <2>1. Offset' = Offset
    BY DEF Malformed, Offset
  <2>2. scanner' = scanner /\ body' = body /\ read' = read
    BY DEF Malformed
  <2> QED
    BY <2>1, <2>2 DEF FormInv, BufferInv, Windows
<1>2. ControlInv'
  BY DEF FormInv, ControlInv, Malformed, Ops
<1>3. ScannerInv'
  <2>1. Scanned' = Scanned
    BY DEF Malformed, Scanned, Offset
  <2>2. scanner' = scanner /\ body' = body /\ parts' = parts
    BY DEF Malformed
  <2> QED
    BY <2>1, <2>2 DEF FormInv, ScannerInv
<1>4. CurrentInv'
  BY DEF CurrentInv, PartOpen, Malformed
<1>5. PartsInv'
  BY DEF FormInv, PartsInv, Malformed
<1>6. EndsInv'
  <2>1. HasLongHeader' = HasLongHeader
    BY SameHeaders DEF Malformed
  <2>2. ended' = "malformed" /\ body' = body /\ CutShort' = CutShort
    BY DEF Malformed, CutShort
  <2> QED
    BY <2>1, <2>2 DEF EndsInv
<1> QED
  BY <1>1, <1>2, <1>3, <1>4, <1>5, <1>6 DEF FormInv

(* Only the scanner moves.                                                 *)
LEMMA SilentStep ==
  ASSUME FormInv, NEW st \in States, NEW p \in Nat, p <= Len(scanner.buf), Moves(st, p),
         UNCHANGED <<pending, partDone, op, parts, ended>>,
         op # "next" /\ ~partDone => st \in {"data", "part_ending"},
         ScannerInv', CurrentInv'
  PROVE  FormInv'
<1>1. BufferInv'
  BY MovedBuffer DEF FormInv
<1>2. ControlInv'
  BY DEF FormInv, ControlInv, Moves
<1>3. PartsInv' /\ EndsInv'
  BY SameParts DEF FormInv, Moves, CutShort
<1> QED
  BY <1>1, <1>2, <1>3 DEF FormInv

(* It stays where it is and asks for more.                                 *)
LEMMA WantsStep ==
  ASSUME FormInv, ~scanner.eof, MoreOrMalformed(scanner)
  PROVE  FormInv'
<1>1. scanner \in Scanner
  BY DEF FormInv, BufferInv
<1>2. Moves(scanner.state, scanner.pos) /\ UNCHANGED <<pending, partDone, op, parts, ended>>
  BY <1>1, Staying DEF MoreOrMalformed
<1>3. scanner.state \in States /\ scanner.pos \in Nat /\ scanner.pos <= Len(scanner.buf)
  BY <1>1 DEF FormInv, BufferInv, Scanner
<1>4. Scanned' = Scanned
  <2>1. Scanned' = Offset + scanner.pos
    BY <1>2, <1>3, MovedBuffer DEF FormInv
  <2> QED
    BY <2>1 DEF Scanned
<1>5. scanner'.state = scanner.state /\ body' = body
  BY <1>2 DEF Moves
<1>6. ScannerInv'
  BY <1>2, <1>4, <1>5 DEF FormInv, ScannerInv
<1>7. CurrentInv'
  <2>1. PartOpen' = PartOpen /\ Current' = Current
    BY <1>2 DEF PartOpen, Current
  <2> QED
    BY <1>2, <1>4, <1>5, <2>1 DEF FormInv, CurrentInv
<1>8. BufferInv'
  BY <1>2, <1>3, MovedBuffer DEF FormInv
<1>9. ControlInv'
  BY <1>2, <1>5 DEF FormInv, ControlInv
<1>10. PartsInv' /\ EndsInv'
  <2>1. CutShort' = CutShort /\ UNCHANGED <<body, parts, ended>>
    BY <1>2 DEF Moves, CutShort
  <2> QED
    BY <2>1, SameParts DEF FormInv
<1> QED
  BY <1>6, <1>7, <1>8, <1>9, <1>10 DEF FormInv

-----------------------------------------------------------------------------
(* The scanner, state by state. *)

(* What is found in the buffer is what is next in the body; what is not    *)
(* found is not in what was read, nor in a body that was read to its end.  *)
LEMMA FoundAhead ==
  ASSUME BufferInv, NEW what \in Seq(Chars), Len(what) > 0, Find(scanner.buf, what, scanner.pos) # 0
  PROVE  /\ Find(scanner.buf, what, scanner.pos) \in scanner.pos + 1 .. Len(scanner.buf)
         /\ Find(scanner.buf, what, scanner.pos) + Len(what) - 1 <= Len(scanner.buf)
         /\ HasAt(body, what, Offset + Find(scanner.buf, what, scanner.pos))
         /\ Find(body, what, Scanned) = Offset + Find(scanner.buf, what, scanner.pos)
<1>1. /\ scanner.pos \in Nat /\ Windows(scanner.buf, body, Offset)
      /\ Scanned = Offset + scanner.pos
  BY BufferFacts
<1> QED
  BY <1>1, FoundInWindow

LEMMA NotFoundAhead ==
  ASSUME BufferInv, NEW what \in Seq(Chars), Len(what) > 0, Find(scanner.buf, what, scanner.pos) = 0
  PROVE  /\ \A k \in Scanned + 1 .. read - Len(what) + 1 : ~HasAt(body, what, k)
         /\ scanner.eof /\ ~CutShort => Find(body, what, Scanned) = 0
<1>1. /\ scanner.pos \in Nat /\ Windows(scanner.buf, body, Offset) /\ body \in Seq(Chars)
      /\ Scanned = Offset + scanner.pos /\ read = Offset + Len(scanner.buf) /\ Scanned \in Nat
      /\ Offset \in Nat /\ scanner.buf \in Seq(Chars)
  BY BufferFacts
<1>2. \A k \in Scanned + 1 .. read - Len(what) + 1 : ~HasAt(body, what, k)
  <2>1. \A k \in Offset + scanner.pos + 1 .. Offset + Len(scanner.buf) - Len(what) + 1 : ~HasAt(body, what, k)
    BY <1>1, NotFoundInWindow
  <2>2. Offset + scanner.pos = Scanned /\ Offset + Len(scanner.buf) - Len(what) + 1 = read - Len(what) + 1
    BY <1>1
  <2> QED
    BY <2>1, <2>2
<1>3. ASSUME scanner.eof, ~CutShort PROVE Find(body, what, Scanned) = 0
  <2>1. read = Len(body)
    BY <1>1, <1>3 DEF BufferInv, CutShort
  <2>2. ASSUME NEW k \in Scanned + 1 .. Len(body), HasAt(body, what, k) PROVE FALSE
    <3>1. k + Len(what) - 1 <= Len(body)
      BY <2>2 DEF HasAt
    <3>2. k \in Scanned + 1 .. read - Len(what) + 1
      BY <1>1, <2>1, <3>1
    <3> QED
      BY <1>2, <2>2, <3>2
  <2>3. \/ Find(body, what, Scanned) = 0
        \/ Find(body, what, Scanned) \in Scanned + 1 .. Len(body) /\ HasAt(body, what, Find(body, what, Scanned))
    BY <1>1, FindIs
  <2> QED
    BY <2>2, <2>3
<1> QED
  BY <1>2, <1>3

LEMMA PreambleStep ==
  ASSUME FormInv, ScanPreamble, ~Reading("some"), ~Reading("all")
  PROVE  FormInv'
<1> DEFINE i == Find(scanner.buf, FirstDelim, scanner.pos)
<1>1. BufferInv /\ ControlInv /\ scanner \in Scanner /\ Scanning("preamble")
  BY DEF FormInv, BufferInv, ScanPreamble
<1>2. scanner.state = "preamble" /\ op \in {"next", "form"} /\ ended = "no"
  BY <1>1, AtWork
<1>3. Len(parts) = 0 /\ \A k \in 1 .. Scanned : ~HasAt(body, FirstDelim, k)
  BY <1>2 DEF FormInv, ScannerInv
<1>4. FirstDelim \in Seq(Chars) /\ Len(FirstDelim) = 3
  BY Words
<1>5. /\ body \in Seq(Chars) /\ Scanned \in Nat /\ Offset \in Nat /\ Scanned = Offset + scanner.pos
      /\ read = Offset + Len(scanner.buf) /\ scanner.pos \in Nat /\ scanner.buf \in Seq(Chars)
  BY <1>1, BufferFacts
<1>6. CASE i # 0 /\ Silently(To("after_delim", i - 1 + Len(FirstDelim)))
  <2> DEFINE p == i + 2
  <2>1. /\ i \in scanner.pos + 1 .. Len(scanner.buf) /\ i + 3 - 1 <= Len(scanner.buf)
        /\ HasAt(body, FirstDelim, Offset + i) /\ Find(body, FirstDelim, Scanned) = Offset + i
    <3>1. Len(FirstDelim) > 0
      BY <1>4
    <3>2. /\ i \in scanner.pos + 1 .. Len(scanner.buf) /\ i + Len(FirstDelim) - 1 <= Len(scanner.buf)
          /\ HasAt(body, FirstDelim, Offset + i) /\ Find(body, FirstDelim, Scanned) = Offset + i
      BY <1>1, <1>4, <1>6, <3>1, FoundAhead
    <3> QED
      BY <1>4, <3>2
  <2> HIDE DEF i
  <2>2. p \in Nat /\ p <= Len(scanner.buf) /\ i - 1 + Len(FirstDelim) = p
    BY <1>4, <1>5, <2>1
  <2>3. Moves("after_delim", p) /\ UNCHANGED <<pending, partDone, op, parts, ended>>
    BY <1>1, <1>6, <2>2, Moving DEF Silently, States
  <2>4. Scanned' = Offset + p /\ body' = body /\ scanner'.state = "after_delim"
    BY <1>1, <2>2, <2>3, MovedBuffer DEF Moves
  <2>5. Find(body, FirstDelim, 0) = Offset + i
    <3>1. PICK q \in 1 .. Len(body) : q = Offset + i
      <4>1. Offset + Len(scanner.buf) <= Len(body)
        BY <1>1, BufferFacts
      <4> DEFINE L == Len(scanner.buf)
                 N == Len(body)
      <4>20. scanner.buf \in Seq(Chars) /\ body \in Seq(Chars) /\ Offset \in Nat
        BY <1>5
      <4>21. L \in Nat /\ N \in Nat
        BY <4>20
      <4>22. i \in scanner.pos + 1 .. L /\ scanner.pos \in Nat
        BY <1>5, <2>1
      <4>2. Offset \in Nat /\ L \in Nat /\ N \in Nat /\ i \in Nat \ {0} /\ i <= L
        BY <4>20, <4>21, <4>22
      <4> HIDE DEF L, N
      <4>3. Offset + i \in 1 .. N
        <5>1. Offset + L <= N
          BY <4>1 DEF L, N
        <5> QED
          BY <4>2, <5>1
      <4> QED
        BY <4>3 DEF N
    <3>2. \A k \in Scanned + 1 .. Find(body, FirstDelim, Scanned) - 1 : ~HasAt(body, FirstDelim, k)
      <4>1. Find(body, FirstDelim, Scanned) # 0
        BY <1>5, <2>1
      <4>2. body \in Seq(Chars) /\ Scanned \in Nat
        BY <1>5
      <4> QED
        BY <4>1, <4>2, FindIs
    <3>3. ASSUME NEW k \in 1 .. q - 1 PROVE ~HasAt(body, FirstDelim, k)
      <4>1. CASE k <= Scanned
        <5>1. k \in 1 .. Scanned
          BY <1>5, <4>1
        <5> QED
          BY <1>3, <5>1
      <4>2. CASE k > Scanned
        <5>1. Find(body, FirstDelim, Scanned) = q
          BY <2>1, <3>1
        <5>2. k \in Scanned + 1 .. Find(body, FirstDelim, Scanned) - 1
          BY <1>5, <4>2, <5>1
        <5> QED
          BY <3>2, <5>2
      <4> QED
        BY <1>5, <4>1, <4>2
    <3>4. Find(body, FirstDelim, 0) = q
      BY <1>5, <2>1, <3>1, <3>3, FindUnique
    <3> QED
      BY <3>1, <3>4
  <2>6. Ahead(body, 0, Offset + i + 3)
    <3>1. Offset + i # 0
      BY <1>5, <2>1
    <3> QED
      BY <1>5, <2>5, <3>1, OpeningIs
  <2>7. Ahead(body, Len(parts), Scanned' + 1) /\ Delimited(body, Scanned')
    <3>1. Scanned' + 1 = Offset + i + 3 /\ Scanned' - 2 = Offset + i /\ Scanned' >= 3
      BY <1>5, <2>1, <2>4
    <3> QED
      BY <1>3, <2>1, <2>6, <3>1 DEF Delimited
  <2>8. ScannerInv'
    BY <2>3, <2>4, <2>7 DEF ScannerInv
  <2>9. CurrentInv'
    BY <1>3, <2>3 DEF CurrentInv, PartOpen
  <2> QED
    BY <1>2, <2>2, <2>3, <2>8, <2>9, SilentStep DEF FormInv, ControlInv, States
<1>7. CASE i = 0 /\ MoreOrMalformed(To("preamble", KeptFrom(scanner.buf)))
  <2>1. CASE scanner.eof /\ Malformed
    <3>1. ASSUME ~CutShort PROVE ~Meaning(body).ok
      <4>0. FirstDelim \in Seq(Chars) /\ Len(FirstDelim) > 0
        BY <1>4
      <4>1. Find(body, FirstDelim, Scanned) = 0
        BY <1>1, <1>7, <2>1, <3>1, <4>0, NotFoundAhead
      <4>2. \A k \in Scanned + 1 .. Len(body) : ~HasAt(body, FirstDelim, k)
        BY <1>5, <4>1, FindIs
      <4>3. \A k \in 0 + 1 .. Len(body) : ~HasAt(body, FirstDelim, k)
        BY <1>3, <1>5, <4>2
      <4>4. Find(body, FirstDelim, 0) = 0
        BY <1>5, <4>3, FindIs
      <4> QED
        BY <1>5, <4>4, OpeningIs
    <3> QED
      BY <2>1, <3>1, MalformedStep
  <2>2. CASE /\ scanner' = Wants(To("preamble", KeptFrom(scanner.buf)))
             /\ UNCHANGED <<body, read, pending, partDone, finished, op, sofar, parts, ended>>
    <3> DEFINE p == KeptFrom(scanner.buf)
    <3>1. p \in Nat /\ p <= Len(scanner.buf) /\ (p = 0 \/ p = Len(scanner.buf) - 3)
      BY <1>4, <1>5 DEF KeptFrom
    <3>2. Moves("preamble", p) /\ UNCHANGED <<pending, partDone, op, parts, ended>>
      BY <1>1, <2>2, <3>1, Moving DEF States
    <3> HIDE DEF p
    <3>3. Scanned' = Offset + p /\ body' = body /\ scanner'.state = "preamble"
      BY <1>1, <3>1, <3>2, MovedBuffer DEF Moves
    <3>4. \A k \in Scanned + 1 .. read - 2 : ~HasAt(body, FirstDelim, k)
      <4>0. Len(FirstDelim) > 0
        BY <1>4
      <4>1. \A k \in Scanned + 1 .. read - Len(FirstDelim) + 1 : ~HasAt(body, FirstDelim, k)
        BY <1>1, <1>4, <1>7, <4>0, NotFoundAhead
      <4>2. read - Len(FirstDelim) + 1 = read - 2
        BY <1>4, <1>5
      <4> QED
        BY <4>1, <4>2
    <3>5. \A k \in 1 .. Scanned' : ~HasAt(body, FirstDelim, k)
      <4>1. Scanned' <= read - 2 \/ Scanned' <= Scanned
        BY <1>5, <3>1, <3>3
      <4>2. Scanned' \in Nat
        BY <1>5, <3>1, <3>3
      <4>3. ASSUME NEW k \in 1 .. Scanned' PROVE ~HasAt(body, FirstDelim, k)
        <5>1. CASE k <= Scanned
          <6>1. k \in 1 .. Scanned
            BY <1>5, <4>2, <5>1
          <6> QED
            BY <1>3, <6>1
        <5>2. CASE k > Scanned
          <6>0. Scanned \in Nat /\ read \in Nat /\ k <= Scanned'
            BY <1>5, <4>2
          <6>1. k \in Scanned + 1 .. read - 2
            BY <4>1, <4>2, <5>2, <6>0
          <6> QED
            BY <3>4, <6>1
        <5> QED
          BY <1>5, <4>2, <5>1, <5>2
      <4> QED
        BY <4>3
    <3>6. ScannerInv'
      BY <1>3, <3>2, <3>3, <3>5 DEF ScannerInv
    <3>7. CurrentInv'
      BY <1>3, <3>2 DEF CurrentInv, PartOpen
    <3> QED
      BY <1>2, <3>1, <3>2, <3>6, <3>7, SilentStep DEF FormInv, ControlInv, States
  <2> QED
    BY <1>7, <2>1, <2>2 DEF MoreOrMalformed
<1> QED
  BY <1>6, <1>7 DEF ScanPreamble

(* The two characters after the scanner's place.                           *)
LEMMA NextTwo ==
  ASSUME BufferInv, Rest >= 2, NEW w \in Seq(Chars), Len(w) = 2
  PROVE  HasAt(body, w, Scanned + 1) <=> SubSeq(scanner.buf, scanner.pos + 1, scanner.pos + 2) = w
<1>1. scanner.pos \in Nat /\ Windows(scanner.buf, body, Offset) /\ Offset \in Nat /\ scanner.buf \in Seq(Chars)
  BY BufferFacts
<1>2. scanner.pos + 2 <= Len(scanner.buf)
  <2>1. Rest = Len(scanner.buf) - scanner.pos
    BY BufferFacts
  <2> QED
    BY <1>1, <2>1
<1>3. Scanned = Offset + scanner.pos
  BY BufferFacts
<1> DEFINE i == scanner.pos + 1
<1>4. i \in Nat \ {0} /\ i + Len(w) - 1 = scanner.pos + 2 /\ Offset + i = Scanned + 1
  <2>1. scanner.pos \in Nat /\ Offset \in Nat
    BY <1>1
  <2>2. i \in Nat \ {0} /\ i + 2 - 1 = scanner.pos + 2
    BY <2>1
  <2>3. Offset + i = Scanned + 1
    BY <1>3, <2>1
  <2> QED
    BY <2>2, <2>3
<1> HIDE DEF i
<1>5. HasAt(scanner.buf, w, i) <=> HasAt(body, w, Offset + i)
  <2>1. HasAt(scanner.buf, w, i) <=> i + Len(w) - 1 <= Len(scanner.buf) /\ HasAt(body, w, Offset + i)
    BY <1>1, <1>4, HasAtInWindow
  <2> QED
    BY <1>2, <1>4, <2>1
<1>6. HasAt(scanner.buf, w, i) <=> SubSeq(scanner.buf, i, scanner.pos + 2) = w
  BY <1>2, <1>4 DEF HasAt
<1> QED
  BY <1>4, <1>5, <1>6 DEF i

LEMMA NoMoreTwo ==
  ASSUME BufferInv, Rest < 2, scanner.eof, ~CutShort, NEW w, Len(w) = 2
  PROVE  ~HasAt(body, w, Scanned + 1)
<1>1. Scanned \in Nat /\ Rest = read - Scanned /\ read = Len(body) /\ read \in Nat
  <2>1. body \in Seq(Chars) /\ read \in Nat /\ read <= Len(body)
    BY BufferFacts DEF BufferInv
  <2>2. read = Len(body)
    BY <2>1 DEF CutShort
  <2> QED
    BY <2>1, <2>2, BufferFacts
<1>2. ~(Scanned + 1 + Len(w) - 1 <= Len(body))
  BY <1>1
<1> QED
  BY <1>2 DEF HasAt

(* The program is given nothing of a part while the scanner is between     *)
(* parts.                                                                  *)
LEMMA BetweenParts ==
  ASSUME op \in {"next", "form"}, op' = op, scanner'.state \notin {"data", "part_ending"}
  PROVE  CurrentInv'
BY DEF CurrentInv, PartOpen

LEMMA FinishedStep ==
  ASSUME FormInv, op \in {"next", "form"}, ended = "no", pending = <<>>,
         (Finished(scanner) /\ scanner.state = "finished") \/ Finished(To("finished", scanner.pos)),
         Meaning(body).ok, Len(Meaning(body).parts) = Len(parts)
  PROVE  FormInv'
<1>1. scanner \in Scanner /\ scanner.pos \in Nat /\ scanner.pos <= Len(scanner.buf)
  BY DEF FormInv, BufferInv, Scanner
<1>2. /\ UNCHANGED <<body, read, pending, sofar, parts>> /\ op' = "idle" /\ ended' = "done" /\ partDone' = TRUE
      /\ (scanner' = scanner /\ scanner.state = "finished") \/ scanner' = To("finished", scanner.pos)
  BY DEF Finished
<1>3. Moves("finished", scanner.pos)
  BY <1>1, <1>2 DEF Moves, To, Scanner, States
<1>4. BufferInv'
  BY <1>1, <1>3, MovedBuffer DEF FormInv
<1>5. ControlInv'
  BY <1>2 DEF FormInv, ControlInv, Ops
<1>6. ScannerInv'
  BY <1>2, <1>3 DEF ScannerInv, Moves
<1>7. CurrentInv'
  BY <1>2 DEF CurrentInv, PartOpen
<1>8. PartsInv'
  BY <1>2 DEF FormInv, PartsInv
<1>9. EndsInv'
  BY <1>2 DEF EndsInv
<1> QED
  BY <1>4, <1>5, <1>6, <1>7, <1>8, <1>9 DEF FormInv

LEMMA AfterDelimStep ==
  ASSUME FormInv, ScanAfterDelim, ~Reading("some"), ~Reading("all")
  PROVE  FormInv'
<1> DEFINE two == SubSeq(scanner.buf, scanner.pos + 1, scanner.pos + 2)
           place == Scanned + 1
           dashes == <<"-", "-">>
<1>1. BufferInv /\ ControlInv /\ scanner \in Scanner /\ Scanning("after_delim")
  BY DEF FormInv, BufferInv, ScanAfterDelim
<1>2. scanner.state = "after_delim" /\ op \in {"next", "form"} /\ ended = "no" /\ pending = <<>>
  BY <1>1, AtWork
<1>3. Ahead(body, Len(parts), place) /\ Delimited(body, Scanned)
  BY <1>2 DEF FormInv, ScannerInv
<1>4. Len(Eol) = 2 /\ Len(dashes) = 2 /\ Eol # dashes
  BY Words DEF Eol
<1>40. Eol \in Seq(Chars) /\ dashes \in Seq(Chars)
  BY Words, BodiesAssumption
<1>5. /\ body \in Seq(Chars) /\ Scanned \in Nat /\ Offset \in Nat /\ Scanned = Offset + scanner.pos
      /\ scanner.pos \in Nat /\ Len(parts) \in Nat
  BY <1>1, BufferFacts DEF ControlInv
<1>6. ASSUME ~HasAt(body, Eol, place)
      PROVE  Meaning(body).ok = HasAt(body, dashes, place) /\ Len(Meaning(body).parts) = Len(parts)
  <2>1. ~IsPart(body, place)
    BY <1>6 DEF IsPart
  <2> HIDE DEF place, dashes
  <2>2. Meaning(body).ok = HasAt(body, <<"-", "-">>, place) /\ Len(Meaning(body).parts) = Len(parts)
    BY <1>3, <1>5, <2>1, AheadOfTheEnd
  <2> QED
    BY <2>2 DEF dashes
<1>7. CASE Rest < 2 /\ MoreOrMalformed(scanner)
  <2>1. CASE scanner.eof /\ Malformed
    <3>1. ASSUME ~CutShort PROVE ~Meaning(body).ok
      <4>1. ~HasAt(body, Eol, place) /\ ~HasAt(body, dashes, place)
        BY <1>1, <1>4, <1>7, <2>1, <3>1, NoMoreTwo
      <4> QED
        BY <1>6, <4>1
    <3> QED
      BY <2>1, <3>1, MalformedStep
  <2>2. CASE ~scanner.eof
    BY <1>7, <2>2, WantsStep
  <2> QED
    BY <1>7, <2>1, <2>2 DEF MoreOrMalformed
<1>8. CASE Rest >= 2 /\ two = dashes /\ Finished(To("finished", scanner.pos))
  <2>1. HasAt(body, dashes, place) /\ ~HasAt(body, Eol, place)
    BY <1>1, <1>4, <1>40, <1>8, NextTwo
  <2> QED
    BY <1>2, <1>6, <1>8, <2>1, FinishedStep
<1>9. CASE Rest >= 2 /\ two = Eol /\ Silently(To("headers", scanner.pos + 2))
  <2> DEFINE p == scanner.pos + 2
  <2>1. HasAt(body, Eol, place)
    BY <1>1, <1>4, <1>40, <1>9, NextTwo
  <2>2. p \in Nat /\ p <= Len(scanner.buf)
    <3> DEFINE L == Len(scanner.buf)
    <3>1. Rest = L - scanner.pos /\ L \in Nat
      BY <1>1, BufferFacts
    <3> HIDE DEF L
    <3>2. scanner.pos \in Nat /\ Rest >= 2
      BY <1>5, <1>9
    <3>3. p <= L
      BY <3>1, <3>2
    <3> QED
      BY <3>2, <3>3 DEF L
  <2>3. Moves("headers", p) /\ UNCHANGED <<pending, partDone, op, parts, ended>>
    BY <1>1, <1>9, <2>2, Moving DEF Silently, States
  <2>4. Scanned' = Scanned + 2 /\ body' = body /\ scanner'.state = "headers"
    <3>1. Scanned' = Offset + p
      BY <1>1, <2>2, <2>3, MovedBuffer
    <3> QED
      BY <1>5, <2>3, <3>1 DEF Moves
  <2>5. Scanned' - 1 = place /\ Scanned' - 2 = Scanned
    BY <1>5, <2>4
  <2>6. ScannerInv'
    BY <1>3, <2>1, <2>3, <2>4, <2>5 DEF ScannerInv
  <2>7. CurrentInv'
    BY <1>2, <2>3, <2>4, BetweenParts
  <2> QED
    BY <1>2, <2>2, <2>3, <2>6, <2>7, SilentStep DEF FormInv, ControlInv, States
<1>10. CASE Rest >= 2 /\ two \notin {dashes, Eol} /\ Malformed
  <2>1. ~HasAt(body, dashes, place) /\ ~HasAt(body, Eol, place)
    BY <1>1, <1>4, <1>40, <1>10, NextTwo
  <2> QED
    BY <1>6, <1>10, <2>1, MalformedStep
<1> QED
  BY <1>7, <1>8, <1>9, <1>10 DEF ScanAfterDelim

LEMMA FinishedStateStep ==
  ASSUME FormInv, ScanFinished, ~Reading("some"), ~Reading("all")
  PROVE  FormInv'
<1>1. ControlInv /\ Scanning("finished")
  BY DEF FormInv, ScanFinished
<1>2. scanner.state = "finished" /\ op \in {"next", "form"} /\ ended = "no" /\ pending = <<>>
  BY <1>1, AtWork
<1>3. Meaning(body).ok /\ Len(Meaning(body).parts) = Len(parts)
  BY <1>2 DEF FormInv, ScannerInv
<1> QED
  BY <1>2, <1>3, FinishedStep DEF ScanFinished

LEMMA NotBoth ==
  ASSUME NEW text \in Seq(Chars), NEW i, HasAt(text, Eol, i)
  PROVE  ~HasAt(text, <<"-", "-">>, i)
<1>1. Len(Eol) = 2 /\ Len(<<"-", "-">>) = 2 /\ Eol # <<"-", "-">>
  BY Words DEF Eol
<1> QED
  BY <1>1 DEF HasAt

LEMMA DataAfterIs ==
  ASSUME NEW text \in Seq(Chars), NEW k \in Nat \ {0}, NEW d, DataAfter(text, k, d)
  PROVE  k <= Len(Meaning(text).parts) /\ Meaning(text).parts[k] \in Seq(Chars)
<1> DEFINE next == Find(text, Delim, d)
           M == Meaning(text)
<1>1. M.parts \in Seq(Seq(Chars))
  BY OpeningIs DEF Meanings
<1>2. k <= Len(M.parts)
  <2>1. CASE next = 0
    <3>1. Len(M.parts) = k
      BY <2>1 DEF DataAfter
    <3> QED
      BY <3>1
  <2>2. CASE next # 0
    <3>1. next + 5 \in 1 .. Len(text) + 1 /\ Len(M.parts) = k + Len(From(text)[next + 5].parts)
      BY <2>2 DEF DataAfter, Ahead
    <3>2. From(text)[next + 5] \in Meanings
      BY <3>1, FromIs
    <3>3. PICK n \in Nat : n = Len(From(text)[next + 5].parts)
      BY <3>2 DEF Meanings
    <3>4. Len(M.parts) = k + n
      BY <3>1, <3>3
    <3> QED
      BY <3>4
  <2> QED
    BY <2>1, <2>2
<1> HIDE DEF M
<1>3. M.parts[k] \in Seq(Chars)
  BY <1>1, <1>2
<1> QED
  BY <1>2, <1>3 DEF M

LEMMA PartBeginStep ==
  ASSUME FormInv, op \in {"next", "form"}, ended = "no", pending = <<>>,
         NEW p \in Nat, p <= Len(scanner.buf), PartBegin(To("data", p)),
         DataAfter(body, Len(parts) + 1, Offset + p)
  PROVE  FormInv'
<1> DEFINE n == Len(parts)
           d == Offset + p
<1>1. scanner \in Scanner /\ parts \in Seq(PartRecord) /\ partDone \in BOOLEAN /\ body \in Seq(Chars) /\ d \in Nat
  <2>1. BufferInv /\ ControlInv
    BY DEF FormInv
  <2>2. Offset \in Nat /\ body \in Seq(Chars)
    BY <2>1, BufferFacts
  <2>3. scanner \in Scanner
    BY <2>1 DEF BufferInv
  <2>4. parts \in Seq(PartRecord) /\ partDone \in BOOLEAN
    BY <2>1 DEF ControlInv
  <2>5. d \in Nat
    BY <2>2
  <2> QED
    BY <2>2, <2>3, <2>4, <2>5
<1>2. /\ UNCHANGED <<body, read, pending, ended>> /\ scanner' = To("data", p)
      /\ parts' = Append(parts, [data |-> <<>>, whole |-> FALSE])
      /\ partDone' = (partDone /\ op # "next")
      /\ op' = IF op = "next" THEN "idle" ELSE op
  BY DEF PartBegin
<1>3. Moves("data", p)
  BY <1>1, <1>2, Moving DEF States
<1>4. BufferInv' /\ Scanned' = d /\ scanner'.state = "data"
  BY <1>3, MovedBuffer DEF FormInv, Moves
<1>5. /\ parts' \in Seq(PartRecord) /\ Len(parts') = n + 1 /\ n \in Nat
      /\ parts'[n + 1] = [data |-> <<>>, whole |-> FALSE] /\ \A k \in 1 .. n : parts'[k] = parts[k]
  <2>1. [data |-> <<>>, whole |-> FALSE] \in PartRecord
    BY DEF PartRecord
  <2> QED
    BY <1>1, <1>2, <2>1
<1>6. ControlInv'
  BY <1>2, <1>4, <1>5 DEF FormInv, ControlInv, Ops
<1>7. DataAfter(body', Len(parts'), Scanned')
  BY <1>2, <1>4, <1>5
<1>8. InPart(body', Len(parts'), Scanned', Scanned')
  BY <1>1, <1>4, <1>5, <1>7 DEF InPart
<1>9. ScannerInv'
  BY <1>1, <1>4, <1>8 DEF ScannerInv
<1>10. CurrentInv'
  <2>1. parts'[Len(parts')] = [data |-> <<>>, whole |-> FALSE]
    BY <1>5
  <2>2. Current' = <<>>
    <3>1. parts'[Len(parts')].data = <<>> /\ pending' = <<>>
      BY <1>2, <2>1
    <3>2. <<>> \o <<>> = <<>>
      OBVIOUS
    <3> QED
      BY <3>1, <3>2 DEF Current
  <2>3. SubSeq(body', Scanned' + 1, Scanned') = <<>>
    <3> HIDE DEF d
    <3> QED
      BY <1>1, <1>2, <1>4
  <2>4. Scanned' \in Nat
    BY <1>1, <1>4
  <2>5. InPart(body', Len(parts'), Scanned', Scanned') /\ Current' = SubSeq(body', Scanned' + 1, Scanned')
    BY <1>8, <2>2, <2>3
  <2>6. ~((partDone' /\ op' # "form") \/ scanner'.state = "part_ending")
    BY <1>2, <1>4
  <2>7. ~parts'[Len(parts')].whole
    BY <2>1
  <2> QED
    BY <2>4, <2>5, <2>6, <2>7 DEF CurrentInv
<1>11. PartsInv'
  <2>1. n + 1 <= Len(Meaning(body).parts) /\ Meaning(body).parts[n + 1] \in Seq(Chars)
    BY <1>1, <1>5, DataAfterIs
  <2>2. Begins(<<>>, Meaning(body).parts[n + 1])
    BY <2>1 DEF Begins
  <2>3. \A k \in 1 .. n : /\ Begins(parts[k].data, Meaning(body).parts[k])
                          /\ parts[k].whole => parts[k].data = Meaning(body).parts[k]
    BY DEF FormInv, PartsInv
  <2>4. ASSUME NEW k \in 1 .. n + 1
        PROVE  /\ Begins(parts'[k].data, Meaning(body).parts[k])
               /\ parts'[k].whole => parts'[k].data = Meaning(body).parts[k]
    <3>1. CASE k = n + 1
      BY <1>5, <2>2, <3>1
    <3>2. CASE k # n + 1
      <4>1. k \in 1 .. n
        BY <1>5, <3>2
      <4> QED
        BY <1>5, <2>3, <4>1
    <3> QED
      BY <3>1, <3>2
  <2> QED
    BY <1>2, <1>5, <2>1, <2>4 DEF PartsInv
<1>12. EndsInv'
  BY <1>2 DEF EndsInv
<1> QED
  BY <1>4, <1>6, <1>9, <1>10, <1>11, <1>12 DEF FormInv

LEMMA HeadersStep ==
  ASSUME FormInv, ScanHeaders, ~Reading("some"), ~Reading("all")
  PROVE  FormInv'
<1> DEFINE w == Eol \o Eol
           e == Find(scanner.buf, w, scanner.pos)
           i == Scanned - 1
           h == Find(body, w, Scanned)
           block == SubSeq(scanner.buf, scanner.pos + 1, e - 1)
<1>1. BufferInv /\ ControlInv /\ scanner \in Scanner /\ Scanning("headers")
  BY DEF FormInv, BufferInv, ScanHeaders
<1>2. scanner.state = "headers" /\ op \in {"next", "form"} /\ ended = "no" /\ pending = <<>>
  BY <1>1, AtWork
<1>3. Ahead(body, Len(parts), i) /\ Delimited(body, Scanned - 2) /\ HasAt(body, Eol, i)
  BY <1>2 DEF FormInv, ScannerInv
<1>4. w \in Seq(Chars) /\ Len(w) = 4
  BY Words
<1>5. /\ body \in Seq(Chars) /\ Scanned \in Nat /\ Offset \in Nat /\ Scanned = Offset + scanner.pos
      /\ scanner.pos \in Nat /\ Len(parts) \in Nat /\ scanner.buf \in Seq(Chars) /\ read \in Nat
  BY <1>1, BufferFacts DEF ControlInv, BufferInv
<1>6. i \in Nat /\ i + 1 = Scanned /\ Scanned >= 5
  <2>1. Scanned \in Nat
    BY <1>5
  <2>2. Scanned - 2 >= 3
    BY <1>3 DEF Delimited
  <2> QED
    BY <2>1, <2>2
<1>7. h = HeaderEnd(body, i)
  BY <1>6 DEF HeaderEnd
<1> HIDE DEF w, e, i, h
<1>8. ASSUME ~IsPart(body, i) PROVE ~Meaning(body).ok
  <2>1. Meaning(body).ok = HasAt(body, <<"-", "-">>, i)
    BY <1>3, <1>5, <1>8, AheadOfTheEnd
  <2>2. ~HasAt(body, <<"-", "-">>, i)
    BY <1>3, <1>5, NotBoth
  <2> QED
    BY <2>1, <2>2
<1>9. ASSUME h = 0 PROVE ~Meaning(body).ok
  BY <1>7, <1>8, <1>9 DEF IsPart
<1>10. CASE e = 0 /\ Rest > MaxHeaderSize /\ Malformed
  <2>1. ASSUME h # 0 PROVE HasLongHeader
    <3>1. h \in Scanned + 1 .. Len(body) /\ HasAt(body, w, h)
      BY <1>5, <2>1, FindIs DEF h
    <3>2. \A k \in Scanned + 1 .. read - 3 : ~HasAt(body, w, k)
      <4>1. Len(w) > 0
        BY <1>4
      <4>2. \A k \in Scanned + 1 .. read - Len(w) + 1 : ~HasAt(body, w, k)
        BY <1>1, <1>4, <1>10, <4>1, NotFoundAhead DEF e
      <4>3. read - Len(w) + 1 = read - 3
        BY <1>4, <1>5
      <4> QED
        BY <4>2, <4>3
    <3>3. h > read - 3
      BY <1>5, <3>1, <3>2
    <3>40. BufferInv
      BY <1>1
    <3>4. Rest = read - Scanned
      BY <3>40, BufferFacts
    <3> DEFINE b == Scanned - 4
    <3>50. Scanned \in Nat /\ Scanned >= 5 /\ Len(body) \in Nat /\ Scanned + 1 <= Len(body) /\ h \in Nat
      BY <1>5, <1>6, <3>1
    <3>5. b \in 1 .. Len(body) /\ b + 4 = Scanned
      <4> DEFINE m == Len(body)
      <4>1. m \in Nat /\ Scanned + 1 <= m
        BY <3>50
      <4> HIDE DEF m
      <4>2. b \in 1 .. m /\ b + 4 = Scanned
        BY <3>50, <4>1
      <4> QED
        BY <4>2 DEF m
    <3>6. HasAt(body, FirstDelim, b)
      <4>1. Scanned - 2 - 2 = b
        BY <1>5
      <4> QED
        BY <1>3, <4>1 DEF Delimited
    <3>7. h - b - 5 > MaxHeaderSize - 3
      <4>1. read - Scanned > MaxHeaderSize
        BY <1>10, <3>4
      <4>2. MaxHeaderSize \in Nat /\ read \in Nat
        BY <1>5, SizesAssumption
      <4> QED
        BY <3>3, <3>50, <4>1, <4>2
    <3> HIDE DEF b
    <3>8. Find(body, Eol \o Eol, b + 4) = h
      BY <3>5 DEF h, w
    <3>9. b \in DOMAIN body
      BY <1>5, <3>5
    <3> QED
      BY <2>1, <3>6, <3>7, <3>8, <3>9 DEF HasLongHeader
  <2>2. ~Meaning(body).ok \/ HasLongHeader
    BY <1>9, <2>1
  <2> QED
    BY <1>10, <2>2, MalformedStep
<1>11. CASE e = 0 /\ MoreOrMalformed(scanner)
  <2>1. CASE scanner.eof /\ Malformed
    <3>1. ASSUME ~CutShort PROVE ~Meaning(body).ok
      <4>1. Len(w) > 0
        BY <1>4
      <4>2. h = 0
        BY <1>1, <1>4, <1>11, <2>1, <3>1, <4>1, NotFoundAhead DEF e, h
      <4> QED
        BY <1>9, <4>2
    <3> QED
      BY <2>1, <3>1, MalformedStep
  <2>2. CASE ~scanner.eof
    BY <1>11, <2>2, WantsStep
  <2> QED
    BY <1>11, <2>1, <2>2 DEF MoreOrMalformed
<1>12. ASSUME e # 0
       PROVE  /\ e \in scanner.pos + 1 .. Len(scanner.buf) - 3 /\ h = Offset + e
              /\ block = SubSeq(body, i + 2, h - 1)
  <2>1. w \in Seq(Chars) /\ Len(w) > 0 /\ Find(scanner.buf, w, scanner.pos) # 0 /\ BufferInv
    BY <1>1, <1>4, <1>12 DEF e
  <2>2. e \in scanner.pos + 1 .. Len(scanner.buf) /\ e + Len(w) - 1 <= Len(scanner.buf) /\ h = Offset + e
    BY <2>1, FoundAhead DEF e, h
  <2>20. Len(w) = 4
    BY <1>4
  <2> DEFINE L == Len(scanner.buf)
  <2>21. L \in Nat /\ scanner.pos \in Nat /\ Offset \in Nat
    BY <1>1, BufferFacts
  <2>22. e \in scanner.pos + 1 .. L /\ e + 4 - 1 <= L
    BY <2>2, <2>20
  <2> HIDE DEF L, w, e, h
  <2>23. e \in scanner.pos + 1 .. L - 3
    BY <2>21, <2>22
  <2>3. e \in scanner.pos + 1 .. Len(scanner.buf) - 3
    BY <2>23 DEF L
  <2> DEFINE a == scanner.pos + 1
             b == e - 1
  <2>40. a \in Nat \ {0} /\ b \in Nat /\ b <= L
    BY <2>21, <2>22
  <2>4. a \in Nat \ {0} /\ b \in Nat /\ b <= Len(scanner.buf)
    BY <2>40 DEF L
  <2>5. Offset + a = i + 2 /\ Offset + b = h - 1
    <3>1. Offset + scanner.pos = i + 1 /\ i \in Nat
      BY <1>5, <1>6
    <3>2. Offset + a = i + 2
      BY <2>21, <3>1
    <3>3. e \in Nat /\ h = Offset + e
      BY <2>2, <2>21, <2>22
    <3>4. Offset + b = h - 1
      BY <2>21, <3>3
    <3> QED
      BY <3>2, <3>4
  <2> HIDE DEF a, b
  <2>6. Windows(scanner.buf, body, Offset)
    BY <1>1, BufferFacts
  <2>7. Cut(scanner.buf, a, b) = Cut(body, i + 2, h - 1)
    BY <2>4, <2>5, <2>6, SubSeqOfWindow
  <2> QED
    BY <2>2, <2>3, <2>7 DEF Cut, a, b
<1>13. CASE e # 0 /\ ~HeaderHolds(block) /\ Malformed
  <2>1. ~IsPart(body, i)
    <3>1. block = SubSeq(body, i + 2, HeaderEnd(body, i) - 1)
      BY <1>7, <1>12, <1>13
    <3> HIDE DEF block
    <3> QED
      BY <1>13, <3>1 DEF IsPart
  <2> QED
    BY <1>8, <1>13, <2>1, MalformedStep
<1>14. CASE e # 0 /\ HeaderHolds(block) /\ PartBegin(To("data", e + 3))
  <2> DEFINE p == e + 3
  <2>1. /\ e \in scanner.pos + 1 .. Len(scanner.buf) - 3 /\ h = Offset + e
        /\ block = SubSeq(body, i + 2, HeaderEnd(body, i) - 1)
    BY <1>7, <1>12, <1>14
  <2>2. p \in Nat /\ p <= Len(scanner.buf) /\ Offset + p = h + 3 /\ h # 0
    <3> DEFINE L == Len(scanner.buf)
    <3>1. L \in Nat /\ scanner.pos \in Nat /\ Offset \in Nat
      BY <1>1, BufferFacts
    <3>2. e \in scanner.pos + 1 .. L - 3 /\ h = Offset + e
      BY <2>1
    <3> HIDE DEF L, e, h
    <3>3. p \in Nat /\ p <= L /\ Offset + p = h + 3 /\ h # 0
      BY <3>1, <3>2
    <3> QED
      BY <3>3 DEF L
  <2>3. IsPart(body, i)
    <3> HIDE DEF block
    <3> QED
      BY <1>3, <1>7, <1>14, <2>1, <2>2 DEF IsPart
  <2>4. DataAfter(body, Len(parts) + 1, HeaderEnd(body, i) + 3)
    BY <1>3, <1>5, <2>3, AheadOfAPart
  <2>5. DataAfter(body, Len(parts) + 1, Offset + p)
    BY <1>7, <2>2, <2>4
  <2> QED
    BY <1>2, <1>14, <2>2, <2>5, PartBeginStep
<1> QED
  BY <1>10, <1>11, <1>13, <1>14 DEF ScanHeaders, w, e

-----------------------------------------------------------------------------
(* The data of a part. *)

LEMMA WithNothing ==
  ASSUME NEW T, NEW s \in Seq(T)
  PROVE  s \o <<>> = s
<1> DEFINE t == s \o <<>>
<1>1. Len(t) = Len(s)
  OBVIOUS
<1>2. t \in Seq(T)
  OBVIOUS
<1>3. \A k \in 1 .. Len(s) : t[k] = s[k]
  OBVIOUS
<1> QED
  BY <1>1, <1>2, <1>3

LEMMA CutIs ==
  ASSUME NEW T, NEW text \in Seq(T), NEW a \in Nat, NEW b \in Nat, a <= b, b <= Len(text)
  PROVE  /\ Cut(text, a + 1, b) \in Seq(T) /\ Len(Cut(text, a + 1, b)) = b - a
         /\ \A j \in 1 .. b - a : Cut(text, a + 1, b)[j] = text[a + j]
BY DEF Cut

LEMMA CutsJoin ==
  ASSUME NEW T, NEW text \in Seq(T), NEW a \in Nat, NEW b \in Nat, NEW c \in Nat,
         a <= b, b <= c, c <= Len(text)
  PROVE  Cut(text, a + 1, b) \o Cut(text, b + 1, c) = Cut(text, a + 1, c)
<1> DEFINE s == Cut(text, a + 1, b)
           t == Cut(text, b + 1, c)
           u == Cut(text, a + 1, c)
           k == b - a
           m == c - b
<1>1. s \in Seq(T) /\ Len(s) = k /\ \A j \in 1 .. k : s[j] = text[a + j]
  BY CutIs
<1>2. t \in Seq(T) /\ Len(t) = m /\ \A j \in 1 .. m : t[j] = text[b + j]
  BY CutIs
<1>3. u \in Seq(T) /\ Len(u) = c - a /\ \A j \in 1 .. c - a : u[j] = text[a + j]
  BY CutIs
<1>4. k \in Nat /\ m \in Nat /\ c - a = k + m /\ b = a + k
  OBVIOUS
<1> HIDE DEF s, t, u, k, m
<1> DEFINE v == s \o t
<1>5. /\ v \in Seq(T) /\ Len(v) = Len(s) + Len(t)
      /\ \A j \in 1 .. Len(s) : v[j] = s[j]
      /\ \A j \in 1 .. Len(t) : v[Len(s) + j] = t[j]
  <2>1. s \in Seq(T) /\ t \in Seq(T)
    BY <1>1, <1>2
  <2> QED
    BY <2>1
<1> HIDE DEF v
<1>6. Len(v) = k + m /\ (\A j \in 1 .. k : v[j] = s[j]) /\ \A j \in 1 .. m : v[k + j] = t[j]
  <2>1. Len(s) = k /\ Len(t) = m
    BY <1>1, <1>2
  <2> QED
    BY <1>5, <2>1
<1>7. ASSUME NEW j \in 1 .. k + m PROVE v[j] = u[j]
  <2>1. u[j] = text[a + j]
    BY <1>3, <1>4
  <2>2. CASE j <= k
    <3>1. j \in 1 .. k
      BY <2>2
    <3> QED
      BY <1>1, <1>6, <2>1, <3>1
  <2>3. CASE k < j
    <3>1. PICK x \in 1 .. m : j = k + x
      <4>1. j - k \in 1 .. m /\ j = k + (j - k)
        BY <1>4, <2>3
      <4> QED
        BY <4>1
    <3>2. v[j] = t[x] /\ t[x] = text[b + x]
      BY <1>2, <1>6, <3>1
    <3>3. b + x = a + j
      BY <1>4, <3>1
    <3> QED
      BY <2>1, <3>2, <3>3
  <2> QED
    BY <1>4, <2>2, <2>3
<1>8. v = u
  <2> DEFINE n == k + m
  <2>1. Len(v) = n /\ Len(u) = n /\ v \in Seq(T) /\ u \in Seq(T) /\ \A j \in 1 .. n : v[j] = u[j]
    BY <1>3, <1>4, <1>5, <1>6, <1>7
  <2> HIDE DEF n
  <2> QED
    BY <2>1
<1> QED
  BY <1>8 DEF v, s, t, u

(* The part goes on at least to where no delimiter has begun.              *)
LEMMA PartReaches ==
  ASSUME NEW text \in Seq(Chars), NEW k \in Nat, NEW d, NEW s \in Nat, s <= Len(text),
         InPart(text, k, d, s)
  PROVE  /\ \E z \in Nat : s <= z /\ z <= Len(text) /\ Meaning(text).parts[k] = Cut(text, d + 1, z)
         /\ Find(text, Delim, d) = Find(text, Delim, s)
<1>1. d \in Nat /\ d <= s /\ (\A i \in d + 1 .. s : ~HasAt(text, Delim, i)) /\ DataAfter(text, k, d)
  BY DEF InPart
<1> DEFINE next == Find(text, Delim, d)
<1>2. \/ next = 0 /\ \A i \in d + 1 .. Len(text) : ~HasAt(text, Delim, i)
      \/ /\ next \in d + 1 .. Len(text) /\ HasAt(text, Delim, next)
         /\ \A i \in d + 1 .. next - 1 : ~HasAt(text, Delim, i)
  BY <1>1, FindIs
<1>3. CASE next = 0
  <2>1. Meaning(text).parts[k] = Cut(text, d + 1, Len(text))
    BY <1>1, <1>3 DEF DataAfter, Cut
  <2>2. \A i \in s + 1 .. Len(text) : ~HasAt(text, Delim, i)
    <3>1. \A i \in d + 1 .. Len(text) : ~HasAt(text, Delim, i)
      BY <1>1, <1>2, <1>3
    <3> QED
      BY <1>1, <3>1
  <2>3. Find(text, Delim, s) = 0
    BY <2>2, FindIs
  <2>4. Len(text) \in Nat
    OBVIOUS
  <2> QED
    BY <1>3, <2>1, <2>3, <2>4
<1>4. CASE next # 0
  <2> HIDE DEF next
  <2>1. next \in d + 1 .. Len(text) /\ HasAt(text, Delim, next) /\ \A i \in d + 1 .. next - 1 : ~HasAt(text, Delim, i)
    BY <1>2, <1>4
  <2>2. s < next
    BY <1>1, <2>1
  <2>3. PICK q \in s + 1 .. Len(text) : q = next
    BY <2>1, <2>2
  <2>4. \A i \in s + 1 .. q - 1 : ~HasAt(text, Delim, i)
    BY <1>1, <2>1, <2>3
  <2>5. Find(text, Delim, s) = q
    BY <2>1, <2>3, <2>4, FindUnique
  <2>6. Meaning(text).parts[k] = Cut(text, d + 1, next - 1)
    BY <1>1, <1>4 DEF DataAfter, Cut, next
  <2>7. PICK z \in Nat : z = q - 1 /\ s <= z /\ z <= Len(text)
    OBVIOUS
  <2>8. Meaning(text).parts[k] = Cut(text, d + 1, z)
    BY <2>3, <2>6, <2>7
  <2> QED
    BY <2>3, <2>5, <2>7, <2>8 DEF next
<1> QED
  BY <1>3, <1>4

LEMMA CutBegins ==
  ASSUME NEW T, NEW text \in Seq(T), NEW a \in Nat, NEW b \in Nat, NEW c \in Nat,
         a <= b, b <= c, c <= Len(text)
  PROVE  Begins(Cut(text, a + 1, b), Cut(text, a + 1, c))
<1> DEFINE s == Cut(text, a + 1, b)
           u == Cut(text, a + 1, c)
<1>0. b <= Len(text) /\ a <= c
  OBVIOUS
<1>1. s \in Seq(T) /\ Len(s) = b - a /\ \A j \in 1 .. b - a : s[j] = text[a + j]
  BY <1>0, CutIs
<1>2. u \in Seq(T) /\ Len(u) = c - a /\ \A j \in 1 .. c - a : u[j] = text[a + j]
  BY <1>0, CutIs
<1> HIDE DEF s, u
<1>3. Begins(s, u)
  BY <1>1, <1>2 DEF Begins
<1> QED
  BY <1>3 DEF s, u

LEMMA BeginsItself ==
  ASSUME NEW T, NEW s \in Seq(T)
  PROVE  Begins(s, s)
BY DEF Begins

LEMMA BeginsWithPart ==
  ASSUME NEW T, NEW s \in Seq(T), NEW r \in Seq(T), NEW u, Begins(s \o r, u), Len(u) \in Nat
  PROVE  Begins(s, u)
<1> DEFINE v == s \o r
<1>1. Len(v) = Len(s) + Len(r) /\ Len(s) \in Nat /\ Len(r) \in Nat /\ \A j \in 1 .. Len(s) : v[j] = s[j]
  OBVIOUS
<1>2. Len(v) <= Len(u) /\ \A j \in 1 .. Len(v) : v[j] = u[j]
  BY DEF Begins
<1> HIDE DEF v
<1>3. Len(s) <= Len(v) /\ Len(s) <= Len(u)
  BY <1>1, <1>2
<1>4. \A j \in 1 .. Len(s) : s[j] = u[j]
  BY <1>1, <1>2, <1>3
<1> QED
  BY <1>3, <1>4 DEF Begins

(* A part's data is what lies between its header and the next delimiter,   *)
(* and the program is given it from the beginning.                         *)
LEMMA ReadingAPart ==
  ASSUME FormInv, scanner.state = "data"
  PROVE  /\ Len(parts) > 0
         /\ \E d \in Nat : /\ d <= Scanned /\ InPart(body, Len(parts), d, Scanned)
                           /\ PartOpen => Current = Cut(body, d + 1, Scanned) /\ ~parts[Len(parts)].whole
<1>1. PICK d \in Nat : /\ InPart(body, Len(parts), d, Scanned)
                       /\ PartOpen => Current = SubSeq(body, d + 1, Scanned)
  <2>1. CASE PartOpen
    BY <2>1 DEF FormInv, CurrentInv
  <2>2. CASE ~PartOpen
    BY <2>2 DEF FormInv, ScannerInv
  <2> QED
    BY <2>1, <2>2
<1>2. PartOpen => ~parts[Len(parts)].whole
  BY DEF FormInv, CurrentInv
<1>3. d <= Scanned /\ Len(parts) > 0
  <2>1. Scanned \in Nat
    BY BufferFacts DEF FormInv
  <2> QED
    BY <1>1, <2>1 DEF InPart
<1> QED
  BY <1>1, <1>2, <1>3 DEF Cut

(* Data is handed on, up to place t of the body.                           *)
LEMMA DataKeeps ==
  ASSUME FormInv, ended = "no", pending = <<>>, op \in {"next", "form", "some", "all"},
         NEW st \in {"data", "part_ending"}, NEW p \in Nat, p <= Len(scanner.buf), scanner.state = "data",
         NEW d \in Nat, d <= Scanned, NEW t \in Nat, Scanned <= t, t <= Len(body),
         InPart(body, Len(parts), d, t),
         PartOpen => Current = Cut(body, d + 1, Scanned) /\ ~parts[Len(parts)].whole,
         NEW data, data = Cut(body, Scanned + 1, t), Data(To(st, p), data)
  PROVE  /\ BufferInv' /\ ControlInv' /\ PartsInv' /\ EndsInv'
         /\ Moves(st, p) /\ Len(parts') = Len(parts) /\ UNCHANGED <<partDone, op, ended>>
         /\ PartOpen' => Current' = Cut(body, d + 1, t) /\ ~parts'[Len(parts)].whole
<1> DEFINE n == Len(parts)
           M == Meaning(body).parts
<1>1. /\ scanner \in Scanner /\ parts \in Seq(PartRecord) /\ n \in Nat /\ body \in Seq(Chars)
      /\ Scanned \in Nat
  BY BufferFacts DEF FormInv, BufferInv, ControlInv
<1>2. /\ UNCHANGED <<body, read, partDone, op, ended>> /\ scanner' = To(st, p)
      /\ pending' = IF op \in {"some", "all"} THEN data ELSE pending
      /\ parts' = IF op = "form" THEN [parts EXCEPT ![n] = AddTo(@, data)] ELSE parts
  BY DEF Data
<1>3. Moves(st, p)
  <2>1. st \in States
    BY DEF States
  <2> QED
    BY <1>1, <1>2, <2>1, Moving
<1>4. BufferInv' /\ scanner'.state = st
  BY <1>3, MovedBuffer DEF FormInv, Moves
<1>5. n > 0 /\ n \in 1 .. n
  <2>1. n > 0
    BY DEF InPart
  <2> QED
    BY <1>1, <2>1
<1>6. parts[n] \in PartRecord /\ parts[n].data \in Seq(Chars) /\ parts[n].whole \in BOOLEAN
  <2>1. parts[n] \in PartRecord
    BY <1>1, <1>5
  <2> QED
    BY <2>1 DEF PartRecord
<1>7. data \in Seq(Chars)
  BY <1>1, CutIs
<1> DEFINE longer == [parts[n] EXCEPT !.data = @ \o data]
<1>8. /\ longer \in PartRecord /\ longer.data = parts[n].data \o data /\ longer.whole = parts[n].whole
      /\ AddTo(parts[n], data) = longer
  <2>1. parts[n].data \o data \in Seq(Chars)
    BY <1>6, <1>7
  <2> QED
    BY <1>6, <2>1 DEF PartRecord, AddTo
<1> HIDE DEF longer, M
<1>9. /\ parts' \in Seq(PartRecord) /\ Len(parts') = n
      /\ \A k \in 1 .. n : k # n => parts'[k] = parts[k]
      /\ parts'[n] = IF op = "form" THEN longer ELSE parts[n]
  BY <1>1, <1>2, <1>5, <1>8
<1>10. ControlInv'
  <2>1. pending' \in Seq(Chars) /\ (op \in {"next", "form"} => pending' = <<>>)
    BY <1>2, <1>7
  <2> QED
    BY <1>2, <1>4, <1>9, <2>1 DEF FormInv, ControlInv
<1>11. PartOpen => Current = parts[n].data
  <2>1. parts[n].data \o <<>> = parts[n].data
    BY <1>6, WithNothing
  <2> QED
    BY <2>1 DEF Current
<1>12. ASSUME PartOpen PROVE parts[n].data \o data = Cut(body, d + 1, t)
  <2>1. parts[n].data = Cut(body, d + 1, Scanned)
    BY <1>11, <1>12
  <2>2. Cut(body, d + 1, Scanned) \o Cut(body, Scanned + 1, t) = Cut(body, d + 1, t)
    <3>1. body \in Seq(Chars) /\ Scanned \in Nat
      BY <1>1
    <3> QED
      BY <3>1, CutsJoin, Zenon
  <2> QED
    BY <2>1, <2>2
<1>13. PartOpen' <=> PartOpen
  BY <1>2, <1>9 DEF PartOpen
<1>14. ASSUME PartOpen' PROVE Current' = Cut(body, d + 1, t) /\ ~parts'[n].whole
  <2>1. op # "next" /\ PartOpen
    BY <1>13, <1>14 DEF PartOpen
  <2>2. Current' = parts'[n].data \o pending'
    BY <1>9 DEF Current
  <2>3. ~parts[n].whole
    BY <2>1
  <2>4. CASE op = "form"
    <3>1. pending' = <<>> /\ parts'[n] = longer
      BY <1>2, <1>9, <2>4
    <3>2. longer.data \o <<>> = longer.data
      BY <1>8 DEF PartRecord
    <3>3. Current' = parts[n].data \o data
      BY <1>8, <2>2, <3>1, <3>2
    <3> QED
      BY <1>8, <1>12, <2>1, <2>3, <3>1, <3>3
  <2>5. CASE op # "form"
    <3>1. op \in {"some", "all"}
      BY <2>1, <2>5
    <3>2. pending' = data /\ parts'[n] = parts[n]
      BY <1>2, <1>9, <3>1
    <3> QED
      BY <1>12, <2>1, <2>2, <2>3, <3>2
  <2> QED
    BY <2>4, <2>5
<1>15. PartsInv'
  <2>1. n <= Len(M) /\ \A k \in 1 .. n : /\ Begins(parts[k].data, M[k])
                                         /\ parts[k].whole => parts[k].data = M[k]
    BY DEF FormInv, PartsInv, M
  <2>2. ASSUME op = "form"
        PROVE  Begins(longer.data, M[n]) /\ ~longer.whole
    <3>1. PartOpen
      BY <1>5, <2>2 DEF PartOpen
    <3>2. longer.data = Cut(body, d + 1, t)
      BY <1>8, <1>12, <3>1
    <3>3. PICK z \in Nat : t <= z /\ z <= Len(body) /\ M[n] = Cut(body, d + 1, z)
      BY <1>1, PartReaches DEF M
    <3>4. d <= t
      BY <1>1
    <3>5. Begins(Cut(body, d + 1, t), Cut(body, d + 1, z))
      BY <1>1, <3>3, <3>4, CutBegins
    <3> QED
      BY <1>8, <3>1, <3>2, <3>3, <3>5
  <2>3. ASSUME NEW k \in 1 .. n
        PROVE  Begins(parts'[k].data, M[k]) /\ (parts'[k].whole => parts'[k].data = M[k])
    <3>1. CASE k = n /\ op = "form"
      BY <1>9, <2>2, <3>1
    <3>2. CASE k # n \/ op # "form"
      <4>1. parts'[k] = parts[k]
        BY <1>9, <3>2
      <4> QED
        BY <2>1, <4>1
    <3> QED
      BY <3>1, <3>2
  <2> QED
    BY <1>2, <1>9, <2>1, <2>3 DEF PartsInv, M
<1>16. EndsInv'
  BY <1>2 DEF EndsInv
<1> QED
  BY <1>2, <1>3, <1>4, <1>9, <1>10, <1>14, <1>15, <1>16

LEMMA DelimiterEnds ==
  ASSUME NEW text \in Seq(Chars), NEW i \in Nat \ {0}, HasAt(text, Delim, i)
  PROVE  HasAt(text, FirstDelim, i + 2) /\ i + 4 <= Len(text)
<1>1. Delim \in Seq(Chars) /\ FirstDelim \in Seq(Chars) /\ Len(Delim) = 5 /\ Len(FirstDelim) = 3
  BY Words
<1>2. \A k \in 1 .. 3 : FirstDelim[k] = Delim[2 + k]
  <2>1. Eol \in Seq(Chars) /\ FirstDelim \in Seq(Chars)
    BY Words
  <2>2. \A k \in 1 .. Len(FirstDelim) : (Eol \o FirstDelim)[Len(Eol) + k] = FirstDelim[k]
    BY <2>1
  <2>3. Len(Eol) = 2 /\ Len(FirstDelim) = 3
    BY Words
  <2> QED
    BY <2>2, <2>3 DEF Delim
<1>3. i + Len(Delim) - 1 <= Len(text) /\ \A k \in 1 .. Len(Delim) : text[i + k - 1] = Delim[k]
  BY <1>1, HasAtIs
<1>4. i + 4 <= Len(text) /\ \A k \in 1 .. 5 : text[i + k - 1] = Delim[k]
  BY <1>1, <1>3
<1>5. ASSUME NEW k \in 1 .. 3 PROVE text[i + 2 + k - 1] = FirstDelim[k]
  <2>1. 2 + k \in 1 .. 5 /\ i + (2 + k) - 1 = i + 2 + k - 1
    OBVIOUS
  <2> QED
    BY <1>2, <1>4, <2>1
<1> DEFINE j == i + 2
<1>6. j \in Nat \ {0}
  OBVIOUS
<1> HIDE DEF j
<1>7. HasAt(text, FirstDelim, j) <=>
        /\ j + Len(FirstDelim) - 1 <= Len(text)
        /\ \A k \in 1 .. Len(FirstDelim) : text[j + k - 1] = FirstDelim[k]
  BY <1>1, <1>6, HasAtIs
<1>8. j + Len(FirstDelim) - 1 <= Len(text)
  <2>1. j + Len(FirstDelim) - 1 = i + 4
    BY <1>1 DEF j
  <2> QED
    BY <1>4, <2>1
<1>9. \A k \in 1 .. Len(FirstDelim) : text[j + k - 1] = FirstDelim[k]
  BY <1>1, <1>5 DEF j
<1> QED
  BY <1>4, <1>7, <1>8, <1>9 DEF j

LEMMA DataStep ==
  ASSUME FormInv, ScanData, ~Reading("some"), ~Reading("all")
  PROVE  FormInv'
<1> DEFINE f == Find(scanner.buf, Delim, scanner.pos)
           upTo == scanner.pos + Rest - Hold
           e == Find(body, Delim, Scanned)
           n == Len(parts)
<1>1. BufferInv /\ ControlInv /\ scanner \in Scanner /\ Scanning("data")
  BY DEF FormInv, BufferInv, ScanData
<1>2. scanner.state = "data" /\ op \in {"next", "form", "some", "all"} /\ ended = "no" /\ pending = <<>>
  BY <1>1, AtWork
<1>20. op \in {"some", "all"} => ~partDone
  BY <1>1, AtWork
<1>3. PICK d \in Nat : /\ d <= Scanned /\ InPart(body, n, d, Scanned)
                       /\ PartOpen => Current = Cut(body, d + 1, Scanned) /\ ~parts[n].whole
  BY <1>2, ReadingAPart
<1>4. Delim \in Seq(Chars) /\ Len(Delim) = 5 /\ Hold = 4
  BY Words
<1>5. /\ body \in Seq(Chars) /\ Scanned \in Nat /\ Offset \in Nat /\ Scanned = Offset + scanner.pos
      /\ scanner.pos \in Nat /\ n \in Nat /\ scanner.buf \in Seq(Chars) /\ Scanned <= Len(body)
      /\ Windows(scanner.buf, body, Offset)
  BY <1>1, BufferFacts DEF ControlInv
<1>6. n > 0 /\ DataAfter(body, n, d) /\ Find(body, Delim, d) = e
  <2>1. Find(body, Delim, d) = e
    BY <1>3, <1>5, PartReaches
  <2> QED
    BY <1>3, <2>1 DEF InPart
<1> DEFINE L == Len(scanner.buf)
           N == Len(body)
<1>50. /\ Offset \in Nat /\ scanner.pos \in Nat /\ L \in Nat /\ N \in Nat /\ Scanned = Offset + scanner.pos
       /\ read = Offset + L /\ read <= N /\ Rest = L - scanner.pos
  <2>1. L \in Nat /\ N \in Nat
    BY <1>5
  <2>2. /\ Offset \in Nat /\ scanner.pos \in Nat /\ Scanned = Offset + scanner.pos
        /\ read = Offset + L /\ read <= N /\ Rest = L - scanner.pos
    BY <1>1, BufferFacts
  <2> QED
    BY <2>1, <2>2
<1> HIDE DEF f, upTo, e, L, N
<1>7. ASSUME f # 0
      PROVE  /\ f \in scanner.pos + 1 .. Len(scanner.buf) - 4 /\ e = Offset + f
             /\ HasAt(body, Delim, e)
             /\ Meaning(body).parts[n] = Cut(body, d + 1, e - 1)
             /\ Ahead(body, n, e + 5) /\ Delimited(body, e + 4)
             /\ InPart(body, n, d, e - 1)
             /\ f \in scanner.pos + 1 .. L - 4
  <2>1. Len(Delim) > 0
    BY <1>4
  <2>2. /\ f \in scanner.pos + 1 .. Len(scanner.buf) /\ f + Len(Delim) - 1 <= Len(scanner.buf)
        /\ HasAt(body, Delim, Offset + f) /\ e = Offset + f
    BY <1>1, <1>4, <1>7, <2>1, FoundAhead DEF f, e
  <2>3. f \in scanner.pos + 1 .. Len(scanner.buf) - 4
    BY <1>4, <1>5, <2>2
  <2>4. e \in Nat \ {0} /\ Scanned < e
    BY <1>5, <2>2, <2>3
  <2>5. Meaning(body).parts[n] = Cut(body, d + 1, e - 1) /\ Ahead(body, n, e + 5)
    BY <1>6, <2>4 DEF DataAfter, Cut
  <2>6. Delimited(body, e + 4)
    <3>1. HasAt(body, FirstDelim, e + 2)
      BY <1>5, <2>2, <2>4, DelimiterEnds
    <3>2. e + 4 >= 3 /\ e + 4 - 2 = e + 2
      BY <2>4
    <3> QED
      BY <2>4, <3>1, <3>2 DEF Delimited
  <2>7. InPart(body, n, d, e - 1)
    <3>1. \A k \in d + 1 .. e - 1 : ~HasAt(body, Delim, k)
      <4>1. \A k \in d + 1 .. Find(body, Delim, d) - 1 : ~HasAt(body, Delim, k)
        BY <1>5, <1>6, <2>4, FindIs
      <4> QED
        BY <1>6, <4>1
    <3>2. d \in 0 .. e - 1
      BY <1>3, <1>5, <2>4
    <3> QED
      BY <1>6, <3>1, <3>2 DEF InPart
  <2> QED
    BY <2>2, <2>3, <2>5, <2>6, <2>7 DEF L
<1> DEFINE p == f - 1 + Len(Delim)
<1>8. ASSUME f # 0 PROVE p \in Nat /\ p <= Len(scanner.buf) /\ Offset + p = e + 4
  <2>1. f \in scanner.pos + 1 .. L - 4 /\ e = Offset + f
    BY <1>7, <1>8
  <2>2. p = f - 1 + 5
    BY <1>4
  <2> HIDE DEF p
  <2>3. p \in Nat /\ p <= L /\ Offset + p = e + 4
    BY <1>50, <2>1, <2>2
  <2> QED
    BY <2>3 DEF L
<1> HIDE DEF p
(* The part ends where the scanner is.                                     *)
<1>9. CASE f # 0 /\ f = scanner.pos + 1 /\ Silently(To("part_ending", p))
  <2>1. Moves("part_ending", p) /\ UNCHANGED <<pending, partDone, op, parts, ended>>
    BY <1>1, <1>8, <1>9, Moving DEF Silently, States
  <2>2. Scanned' = e + 4 /\ body' = body /\ scanner'.state = "part_ending"
    BY <1>1, <1>8, <1>9, <2>1, MovedBuffer DEF Moves
  <2>3. Scanned' + 1 = e + 5 /\ e - 1 = Scanned
    <3>1. e = Offset + f
      BY <1>7, <1>9
    <3> QED
      BY <1>9, <1>50, <2>2, <3>1
  <2>4. ScannerInv'
    BY <1>6, <1>7, <1>9, <2>1, <2>2, <2>3 DEF ScannerInv
  <2>5. CurrentInv'
    <3>1. PartOpen' = PartOpen /\ Current' = Current
      BY <2>1 DEF PartOpen, Current
    <3>2. PartOpen => Current = Meaning(body).parts[n] /\ ~parts[n].whole
      BY <1>3, <1>7, <1>9, <2>3
    <3> QED
      BY <2>1, <2>2, <3>1, <3>2 DEF CurrentInv
  <2> QED
    BY <1>8, <1>9, <2>1, <2>4, <2>5, SilentStep DEF States
(* It ends further on.                                                     *)
<1>10. CASE /\ f # 0 /\ f # scanner.pos + 1
            /\ Data(To("part_ending", p), SubSeq(scanner.buf, scanner.pos + 1, f - 1))
  <2> DEFINE t == e - 1
             data == SubSeq(scanner.buf, scanner.pos + 1, f - 1)
  <2>1. t \in Nat /\ Scanned <= t /\ t <= Len(body)
    <3>1. f \in scanner.pos + 1 .. L - 4 /\ e = Offset + f
      BY <1>7, <1>10
    <3>2. t \in Nat /\ Scanned <= t /\ t <= N
      BY <1>50, <3>1
    <3> QED
      BY <3>2 DEF N
  <2>2. data = Cut(body, Scanned + 1, t)
    <3> DEFINE a == scanner.pos + 1
               b == f - 1
    <3>1. a \in Nat \ {0} /\ b \in Nat /\ b <= Len(scanner.buf) /\ Offset + a = Scanned + 1 /\ Offset + b = t
      <4>1. f \in scanner.pos + 1 .. L - 4 /\ e = Offset + f
        BY <1>7, <1>10
      <4>2. a \in Nat \ {0} /\ b \in Nat /\ b <= L /\ Offset + a = Scanned + 1 /\ Offset + b = t
        BY <1>50, <4>1
      <4> QED
        BY <4>2 DEF L
    <3> HIDE DEF a, b, t
    <3>2. Cut(scanner.buf, a, b) = Cut(body, Scanned + 1, t)
      <4>1. Cut(scanner.buf, a, b) = Cut(body, Offset + a, Offset + b)
        <5>1. Windows(scanner.buf, body, Offset) /\ a \in Nat \ {0} /\ b \in Nat /\ b <= Len(scanner.buf)
          BY <1>5, <3>1
        <5> QED
          BY <5>1, SubSeqOfWindow
      <4> QED
        BY <3>1, <4>1
    <3> QED
      BY <3>2 DEF Cut, a, b
  <2>3. InPart(body, n, d, t) /\ Meaning(body).parts[n] = Cut(body, d + 1, t)
    BY <1>7, <1>10
  <2> HIDE DEF t, data
  <2>4. /\ BufferInv' /\ ControlInv' /\ PartsInv' /\ EndsInv'
        /\ Moves("part_ending", p) /\ Len(parts') = n /\ UNCHANGED <<partDone, op, ended>>
        /\ PartOpen' => Current' = Cut(body, d + 1, t) /\ ~parts'[n].whole
    BY <1>2, <1>3, <1>8, <1>10, <2>1, <2>2, <2>3, DataKeeps DEF data
  <2>5. Scanned' = e + 4 /\ body' = body /\ scanner'.state = "part_ending"
    BY <1>1, <1>8, <1>10, <2>4, MovedBuffer DEF Moves
  <2>6. Scanned' + 1 = e + 5
    BY <1>5, <1>7, <1>10, <2>5
  <2>7. ScannerInv'
    BY <1>6, <1>7, <1>10, <2>4, <2>5, <2>6 DEF ScannerInv
  <2>8. CurrentInv'
    BY <2>3, <2>4, <2>5 DEF CurrentInv
  <2> QED
    BY <2>4, <2>7, <2>8 DEF FormInv
<1>11. CASE f = 0 /\ MoreOrMalformed(scanner)
  <2>1. CASE scanner.eof /\ Malformed
    <3>1. ASSUME ~CutShort PROVE ~Meaning(body).ok
      <4>1. Len(Delim) > 0
        BY <1>4
      <4>2. e = 0
        BY <1>1, <1>4, <1>11, <2>1, <3>1, <4>1, NotFoundAhead DEF f, e
      <4> QED
        BY <1>6, <4>2 DEF DataAfter
    <3> QED
      BY <2>1, <3>1, MalformedStep
  <2>2. CASE ~scanner.eof
    BY <1>11, <2>2, WantsStep
  <2> QED
    BY <1>11, <2>1, <2>2 DEF MoreOrMalformed
(* No end in sight: what may begin a delimiter is held back.               *)
<1>12. CASE /\ f = 0 /\ Rest > Hold
            /\ Data(To("data", upTo), SubSeq(scanner.buf, scanner.pos + 1, upTo))
  <2> DEFINE t == Offset + upTo
             data == SubSeq(scanner.buf, scanner.pos + 1, upTo)
  <2>2. upTo \in Nat /\ upTo = L - 4 /\ scanner.pos < upTo
    <3>1. Hold = 4
      BY <1>4
    <3>2. Rest > 4 /\ upTo = scanner.pos + Rest - 4
      BY <1>12, <3>1 DEF upTo
    <3> QED
      BY <1>50, <3>2
  <2>3. t \in Nat /\ t = read - 4 /\ Scanned <= t /\ t <= N
    BY <1>50, <2>2
  <2>30. t <= Len(body)
    BY <2>3 DEF N
  <2>4. data = Cut(body, Scanned + 1, t)
    <3> DEFINE a == scanner.pos + 1
    <3>1. a \in Nat \ {0} /\ upTo <= Len(scanner.buf) /\ Offset + a = Scanned + 1
      <4>1. a \in Nat \ {0} /\ upTo <= L /\ Offset + a = Scanned + 1
        BY <1>50, <2>2
      <4> QED
        BY <4>1 DEF L
    <3> HIDE DEF a
    <3>2. Cut(scanner.buf, a, upTo) = Cut(body, Scanned + 1, t)
      <4>1. Cut(scanner.buf, a, upTo) = Cut(body, Offset + a, Offset + upTo)
        <5>1. Windows(scanner.buf, body, Offset) /\ upTo \in Nat /\ a \in Nat \ {0} /\ upTo <= Len(scanner.buf)
          BY <1>5, <2>2, <3>1
        <5> HIDE DEF upTo
        <5> QED
          BY <5>1, SubSeqOfWindow
      <4> QED
        BY <3>1, <4>1
    <3> QED
      BY <3>2 DEF Cut, a
  <2>5. InPart(body, n, d, t)
    <3>1. \A k \in Scanned + 1 .. t : ~HasAt(body, Delim, k)
      <4>1. Len(Delim) > 0
        BY <1>4
      <4>2. \A k \in Scanned + 1 .. read - Len(Delim) + 1 : ~HasAt(body, Delim, k)
        BY <1>1, <1>4, <1>12, <4>1, NotFoundAhead DEF f
      <4>3. read - Len(Delim) + 1 = t
        <5> HIDE DEF t
        <5>1. Len(Delim) = 5
          BY <1>4
        <5>2. read - 5 + 1 = t
          BY <1>50, <2>3
        <5> QED
          BY <5>1, <5>2
      <4> QED
        BY <4>2, <4>3
    <3>2. \A k \in d + 1 .. Scanned : ~HasAt(body, Delim, k)
      BY <1>3 DEF InPart
    <3> HIDE DEF t
    <3>3. \A k \in d + 1 .. t : ~HasAt(body, Delim, k)
      <4>1. d \in Nat /\ t \in Nat /\ Scanned \in Nat
        BY <1>3, <1>5, <2>3
      <4>2. ASSUME NEW k \in d + 1 .. t PROVE ~HasAt(body, Delim, k)
        <5>1. CASE k <= Scanned
          <6>1. k \in d + 1 .. Scanned
            BY <4>1, <5>1
          <6> QED
            BY <3>2, <6>1
        <5>2. CASE k > Scanned
          <6>1. k \in Scanned + 1 .. t
            BY <4>1, <5>2
          <6> QED
            BY <3>1, <6>1
        <5> QED
          BY <4>1, <5>1, <5>2
      <4> QED
        BY <4>2
    <3>4. d \in 0 .. t
      BY <1>3, <1>5, <2>3
    <3> QED
      BY <1>6, <3>3, <3>4 DEF InPart
  <2> HIDE DEF t, data
  <2>6. upTo <= Len(scanner.buf)
    <3>1. upTo <= L
      BY <1>50, <2>2
    <3> QED
      BY <3>1 DEF L
  <2>7. /\ BufferInv' /\ ControlInv' /\ PartsInv' /\ EndsInv'
        /\ Moves("data", upTo) /\ Len(parts') = n /\ UNCHANGED <<partDone, op, ended>>
        /\ PartOpen' => Current' = Cut(body, d + 1, t) /\ ~parts'[n].whole
    <3>1. /\ upTo \in Nat /\ upTo <= Len(scanner.buf) /\ t \in Nat /\ Scanned <= t /\ t <= Len(body)
          /\ InPart(body, n, d, t) /\ data = Cut(body, Scanned + 1, t) /\ Data(To("data", upTo), data)
      BY <1>12, <2>2, <2>3, <2>30, <2>4, <2>5, <2>6 DEF data
    <3>2. /\ FormInv /\ ended = "no" /\ pending = <<>> /\ op \in {"next", "form", "some", "all"}
          /\ scanner.state = "data" /\ d \in Nat /\ d <= Scanned
          /\ PartOpen => Current = Cut(body, d + 1, Scanned) /\ ~parts[n].whole
      BY <1>2, <1>3
    <3> QED
      BY <3>1, <3>2, DataKeeps
  <2>8. Scanned' = t /\ body' = body /\ scanner'.state = "data"
    BY <1>1, <2>2, <2>6, <2>7, MovedBuffer DEF Moves, t
  <2>9. InPart(body', Len(parts'), d, Scanned')
    BY <2>5, <2>7, <2>8
  <2>10. ScannerInv'
    BY <2>8, <2>9 DEF ScannerInv
  <2>11. CurrentInv'
    <3>1. PartOpen' => Current' = SubSeq(body', d + 1, Scanned')
      BY <2>7, <2>8 DEF Cut
    <3>2. ~(partDone /\ op # "form" /\ PartOpen')
      BY <1>2, <1>20, <2>7 DEF PartOpen
    <3> QED
      BY <2>7, <2>8, <2>9, <3>1, <3>2 DEF CurrentInv
  <2> QED
    BY <2>7, <2>10, <2>11 DEF FormInv
<1> QED
  BY <1>9, <1>10, <1>11, <1>12 DEF ScanData, f, upTo, p

LEMMA PartEndingStep ==
  ASSUME FormInv, ScanPartEnding, ~Reading("some"), ~Reading("all")
  PROVE  FormInv'
<1> DEFINE n == Len(parts)
           M == Meaning(body).parts
<1>1. BufferInv /\ ControlInv /\ scanner \in Scanner /\ Scanning("part_ending")
  BY DEF FormInv, BufferInv, ScanPartEnding
<1>2. scanner.state = "part_ending" /\ op \in {"next", "form", "some", "all"} /\ ended = "no" /\ pending = <<>>
  BY <1>1, AtWork
<1>3. n > 0 /\ Ahead(body, n, Scanned + 1) /\ Delimited(body, Scanned)
  BY <1>2 DEF FormInv, ScannerInv
<1>4. PartOpen => Current = M[n] /\ ~parts[n].whole
  BY <1>2 DEF FormInv, CurrentInv
<1>5. /\ UNCHANGED <<body, read, pending, op, ended>> /\ scanner' = To("after_delim", scanner.pos)
      /\ partDone' = (partDone \/ op \in {"some", "all"})
      /\ parts' = IF op = "form" THEN [parts EXCEPT ![n].whole = TRUE] ELSE parts
  BY DEF ScanPartEnding, PartEnd
<1>6. scanner.pos \in Nat /\ scanner.pos <= Len(scanner.buf) /\ Scanned = Offset + scanner.pos
  BY <1>1, BufferFacts
<1>7. Moves("after_delim", scanner.pos)
  BY <1>1, <1>5, <1>6, Moving DEF States
<1>8. BufferInv' /\ Scanned' = Scanned /\ scanner'.state = "after_delim"
  BY <1>1, <1>6, <1>7, MovedBuffer DEF Moves
<1>9. parts \in Seq(PartRecord) /\ n \in Nat /\ n \in 1 .. n
  BY <1>1, <1>3 DEF ControlInv
<1>10. parts[n] \in PartRecord /\ parts[n].data \in Seq(Chars)
  <2>1. parts[n] \in PartRecord
    BY <1>9
  <2> QED
    BY <2>1 DEF PartRecord
<1> DEFINE done == [parts[n] EXCEPT !.whole = TRUE]
<1>11. done \in PartRecord /\ done.data = parts[n].data /\ done.whole = TRUE
  BY <1>10 DEF PartRecord
<1>110. parts' = IF op = "form" THEN [parts EXCEPT ![n] = done] ELSE parts
  BY <1>5
<1> HIDE DEF done, M
<1>12. /\ parts' \in Seq(PartRecord) /\ Len(parts') = n
       /\ \A k \in 1 .. n : k # n => parts'[k] = parts[k]
       /\ parts'[n] = IF op = "form" THEN done ELSE parts[n]
  BY <1>9, <1>11, <1>110
<1>13. PartOpen' = PartOpen /\ Current' = Current
  BY <1>5, <1>11, <1>12 DEF PartOpen, Current
<1>14. PartOpen => parts[n].data = M[n]
  <2>1. parts[n].data \o <<>> = parts[n].data
    BY <1>10
  <2> QED
    BY <1>2, <1>4, <2>1 DEF Current
<1>15. ControlInv'
  BY <1>2, <1>5, <1>8, <1>12 DEF FormInv, ControlInv
<1>16. ScannerInv'
  BY <1>3, <1>5, <1>8, <1>12 DEF ScannerInv
<1>17. CurrentInv'
  <2>1. Meaning(body').parts[Len(parts')] = M[n]
    BY <1>5, <1>12 DEF M
  <2>2. op # "form" => parts'[Len(parts')] = parts[n]
    BY <1>12
  <2> QED
    BY <1>4, <1>5, <1>8, <1>13, <2>1, <2>2 DEF CurrentInv
<1>18. PartsInv'
  <2>1. n <= Len(M) /\ \A k \in 1 .. n : /\ Begins(parts[k].data, M[k])
                                         /\ parts[k].whole => parts[k].data = M[k]
    BY DEF FormInv, PartsInv, M
  <2>2. ASSUME op = "form" PROVE Begins(done.data, M[n]) /\ done.data = M[n]
    <3>1. PartOpen
      BY <1>2, <1>3, <2>2 DEF PartOpen
    <3> QED
      BY <1>9, <1>11, <1>14, <2>1, <3>1
  <2>3. ASSUME NEW k \in 1 .. n
        PROVE  Begins(parts'[k].data, M[k]) /\ (parts'[k].whole => parts'[k].data = M[k])
    <3>1. CASE k = n /\ op = "form"
      BY <1>12, <2>2, <3>1
    <3>2. CASE k # n \/ op # "form"
      <4>1. parts'[k] = parts[k]
        BY <1>12, <3>2
      <4> QED
        BY <2>1, <4>1
    <3> QED
      BY <3>1, <3>2
  <2> QED
    BY <1>5, <1>12, <2>1, <2>3 DEF PartsInv, M
<1>19. EndsInv'
  BY <1>2, <1>5 DEF EndsInv
<1> QED
  BY <1>8, <1>15, <1>16, <1>17, <1>18, <1>19 DEF FormInv

-----------------------------------------------------------------------------
(* The reader. *)

(* What depends on the place in the body and not on the buffer.            *)
LEMMA SamePlace ==
  ASSUME FormInv, BufferInv', Scanned' = Scanned, scanner'.state = scanner.state,
         UNCHANGED <<body, pending, partDone, op, parts, ended>>, ended = "no" \/ CutShort' = CutShort
  PROVE  FormInv'
<1>1. ControlInv'
  BY DEF FormInv, ControlInv
<1>2. ScannerInv'
  BY DEF FormInv, ScannerInv
<1>3. CurrentInv'
  <2>1. PartOpen' = PartOpen /\ Current' = Current
    BY DEF PartOpen, Current
  <2> QED
    BY <2>1 DEF FormInv, CurrentInv
<1>4. PartsInv' /\ EndsInv'
  BY SameParts DEF FormInv
<1> QED
  BY <1>1, <1>2, <1>3, <1>4 DEF FormInv

LEMMA EofKept ==
  ASSUME FormInv, scanner' = AtEof, UNCHANGED <<body, read>>
  PROVE  BufferInv' /\ Scanned' = Scanned /\ scanner'.state = scanner.state
<1>1. scanner \in Scanner /\ BufferInv
  BY DEF FormInv, BufferInv
<1>2. /\ scanner' \in Scanner /\ scanner'.buf = scanner.buf /\ scanner'.pos = scanner.pos
      /\ scanner'.state = scanner.state
  BY <1>1 DEF AtEof, Scanner
<1>3. Offset' = Offset
  BY <1>2 DEF Offset
<1>4. Scanned' = Scanned
  BY <1>2, <1>3 DEF Scanned
<1>5. Windows(scanner'.buf, body', Offset')
  BY <1>1, <1>2, <1>3 DEF BufferInv
<1>6. BufferInv'
  BY <1>1, <1>2, <1>5 DEF BufferInv
<1> QED
  BY <1>2, <1>4, <1>6

(* A piece of the body is put after what is left of the buffer.            *)
FedBy(m) ==
    /\ read + m <= Len(body) /\ read' = read + m /\ body' = body
    /\ scanner' = Fed(SubSeq(body, read + 1, read + m))

LEMMA FedScanner ==
  ASSUME NEW x \in Seq(Chars), NEW y \in Scanner
  PROVE  LET z == [y EXCEPT !.buf = x, !.pos = 0, !.wants = FALSE]
         IN z \in Scanner /\ z.buf = x /\ z.pos = 0 /\ z.state = y.state /\ z.eof = y.eof
BY DEF Scanner

LEMMA FedKept ==
  ASSUME FormInv, NEW m \in Nat, FedBy(m)
  PROVE  BufferInv' /\ Scanned' = Scanned /\ scanner'.state = scanner.state
<1> DEFINE L == Len(scanner.buf)
           N == Len(body)
           left == SubSeq(scanner.buf, scanner.pos + 1, L)
           piece == SubSeq(body, read + 1, read + m)
           new == left \o piece
<1>1. scanner \in Scanner /\ BufferInv /\ scanner.buf \in Seq(Chars) /\ body \in Seq(Chars)
  BY BufferFacts DEF FormInv, BufferInv
<1>2. /\ Offset \in Nat /\ scanner.pos \in Nat /\ L \in Nat /\ N \in Nat /\ Scanned = Offset + scanner.pos
      /\ read = Offset + L /\ read + m <= N /\ scanner.pos <= L
  BY <1>1, BufferFacts DEF FedBy
<1>3. \A j \in 1 .. L : scanner.buf[j] = body[Offset + j]
  BY <1>1, BufferFacts DEF Windows
<1>4. left \in Seq(Chars) /\ Len(left) = L - scanner.pos /\ \A j \in 1 .. L - scanner.pos : left[j] = scanner.buf[scanner.pos + j]
  <2> DEFINE a == scanner.pos
  <2>1. a \in Nat /\ a <= L /\ L \in Nat /\ L <= Len(scanner.buf)
    BY <1>2
  <2> HIDE DEF a, L
  <2>2. Cut(scanner.buf, a + 1, L) \in Seq(Chars) /\ Len(Cut(scanner.buf, a + 1, L)) = L - a
        /\ \A j \in 1 .. L - a : Cut(scanner.buf, a + 1, L)[j] = scanner.buf[a + j]
    BY <1>1, <2>1, CutIs
  <2> QED
    BY <2>2 DEF Cut, a
<1>5. piece \in Seq(Chars) /\ Len(piece) = m /\ \A j \in 1 .. m : piece[j] = body[read + j]
  <2> DEFINE b == read + m
  <2>1. read \in Nat /\ b \in Nat /\ read <= b /\ b <= Len(body) /\ b - read = m
    BY <1>2
  <2> HIDE DEF b
  <2>2. Cut(body, read + 1, b) \in Seq(Chars) /\ Len(Cut(body, read + 1, b)) = b - read
        /\ \A j \in 1 .. b - read : Cut(body, read + 1, b)[j] = body[read + j]
    BY <1>1, <2>1, CutIs
  <2> QED
    BY <2>1, <2>2 DEF Cut, b
<1> HIDE DEF left, piece, L, N
<1>6. /\ new \in Seq(Chars) /\ Len(new) = L - scanner.pos + m
      /\ \A j \in 1 .. L - scanner.pos : new[j] = left[j]
      /\ \A j \in 1 .. m : new[L - scanner.pos + j] = piece[j]
  <2>1. left \in Seq(Chars) /\ piece \in Seq(Chars)
    BY <1>4, <1>5
  <2>2. /\ new \in Seq(Chars) /\ Len(new) = Len(left) + Len(piece)
        /\ \A j \in 1 .. Len(left) : new[j] = left[j]
        /\ \A j \in 1 .. Len(piece) : new[Len(left) + j] = piece[j]
    BY <2>1
  <2>3. Len(left) = L - scanner.pos /\ Len(piece) = m
    BY <1>4, <1>5
  <2> HIDE DEF new
  <2> QED
    BY <2>2, <2>3
<1>7. scanner' = [scanner EXCEPT !.buf = new, !.pos = 0, !.wants = FALSE]
  BY DEF Fed, FedBy, new, left, piece, L
<1> HIDE DEF new
<1>8. /\ scanner' \in Scanner /\ scanner'.buf = new /\ scanner'.pos = 0 /\ scanner'.state = scanner.state
      /\ scanner'.eof = scanner.eof
  <2> DEFINE z == [scanner EXCEPT !.buf = new, !.pos = 0, !.wants = FALSE]
  <2>1. scanner \in Scanner /\ new \in Seq(Chars)
    BY <1>1, <1>6
  <2>2. z \in Scanner /\ z.buf = new /\ z.pos = 0 /\ z.state = scanner.state /\ z.eof = scanner.eof
    BY <2>1, FedScanner
  <2>3. scanner' = z
    BY <1>7
  <2> HIDE DEF z
  <2> QED
    BY <2>2, <2>3
<1>9. Offset' = Scanned /\ Scanned' = Scanned /\ Scanned \in Nat
  <2>0. scanner'.buf = new /\ read' = read + m
    BY <1>8 DEF FedBy
  <2>1. Offset' = (read + m) - Len(new)
    <3>1. Offset' = read' - Len(scanner'.buf)
      BY Zenon DEF Offset
    <3> QED
      BY <2>0, <3>1, Zenon
  <2>10. Len(new) = L - scanner.pos + m
    BY <1>6
  <2>11. (read + m) - (L - scanner.pos + m) = Scanned /\ Scanned \in Nat
    BY <1>2
  <2>2. Offset' = Scanned /\ Scanned \in Nat
    BY <2>1, <2>10, <2>11, Zenon
  <2>3. Scanned' = Offset' + 0
    BY <1>8 DEF Scanned
  <2> QED
    BY <2>2, <2>3
<1>10. ASSUME NEW j \in 1 .. L - scanner.pos + m PROVE new[j] = body[Scanned + j]
  <2>1. CASE j <= L - scanner.pos
    <3>1. j \in 1 .. L - scanner.pos /\ scanner.pos + j \in 1 .. L
      BY <1>2, <2>1
    <3>2. new[j] = scanner.buf[scanner.pos + j]
      BY <1>4, <1>6, <3>1
    <3>3. scanner.buf[scanner.pos + j] = body[Offset + (scanner.pos + j)]
      BY <1>3, <3>1
    <3>4. Offset + (scanner.pos + j) = Scanned + j
      BY <1>2
    <3> QED
      BY <3>2, <3>3, <3>4
  <2>2. CASE L - scanner.pos < j
    <3>1. PICK x \in 1 .. m : j = L - scanner.pos + x
      <4>1. j - (L - scanner.pos) \in 1 .. m /\ j = L - scanner.pos + (j - (L - scanner.pos))
        BY <1>2, <2>2
      <4> QED
        BY <4>1
    <3>2. new[j] = body[read + x]
      BY <1>5, <1>6, <3>1
    <3>3. read + x = Scanned + j
      <4>1. Offset \in Nat /\ L \in Nat /\ scanner.pos \in Nat /\ x \in Nat
        BY <1>2
      <4>2. (Offset + L) + x = (Offset + scanner.pos) + (L - scanner.pos + x)
        BY <4>1
      <4>3. read = Offset + L /\ Scanned = Offset + scanner.pos
        BY <1>2
      <4>4. read + x = (Offset + L) + x
        BY <4>3
      <4>5. Scanned + j = (Offset + scanner.pos) + (L - scanner.pos + x)
        BY <3>1, <4>3
      <4> QED
        BY <4>2, <4>4, <4>5, Zenon
    <3> QED
      BY <3>2, <3>3
  <2> QED
    BY <1>2, <2>1, <2>2
<1>11. Windows(scanner'.buf, body', Offset')
  <2>1. Scanned + Len(new) <= Len(body)
    <3>1. Len(new) = L - scanner.pos + m
      BY <1>6
    <3>2. Scanned + (L - scanner.pos + m) <= N
      BY <1>2
    <3>3. Scanned + Len(new) <= N
      BY <3>1, <3>2
    <3> QED
      BY <3>3 DEF N
  <2>2. \A j \in 1 .. Len(new) : new[j] = body[Scanned + j]
    BY <1>6, <1>10
  <2> QED
    BY <1>1, <1>6, <1>8, <1>9, <2>1, <2>2 DEF Windows, FedBy
<1>12. BufferInv'
  <2>1. read' = read + m /\ body' = body /\ read' \in Nat /\ read' <= Len(body')
    BY <1>2 DEF FedBy, N
  <2>2. scanner'.pos <= Len(scanner'.buf)
    BY <1>6, <1>8
  <2> QED
    BY <1>8, <1>11, <2>1, <2>2 DEF BufferInv
<1> QED
  BY <1>8, <1>9, <1>12

LEMMA RefillStep ==
  ASSUME FormInv, Refill
  PROVE  FormInv'
<1>1. UNCHANGED <<body, pending, partDone, op, parts, ended>> /\ ended = "no"
  BY DEF Refill, FormInv, ControlInv
<1>2. CASE read = Len(body) /\ scanner' = AtEof /\ UNCHANGED read
  <2>1. BufferInv' /\ Scanned' = Scanned /\ scanner'.state = scanner.state
    BY <1>1, <1>2, EofKept
  <2> QED
    BY <1>1, <2>1, SamePlace
<1>3. ASSUME read # Len(body), NEW c \in PieceSizes, read' = Min({read + c, Len(body)}),
             scanner' = Received(SubSeq(body, read + 1, read'))
      PROVE  FormInv'
  <2> DEFINE N == Len(body)
  <2>1. read \in Nat /\ N \in Nat /\ read < N /\ c \in Nat /\ body \in Seq(Chars)
    <3>1. body \in Seq(Chars) /\ read \in Nat /\ read <= N
      BY BufferFacts DEF FormInv, BufferInv
    <3>2. c \in Nat
      BY SizesAssumption
    <3>3. N \in Nat
      BY <3>1
    <3> HIDE DEF N
    <3>4. read # N
      BY <1>3 DEF N
    <3> QED
      BY <3>1, <3>2, <3>3, <3>4
  <2>2. read' \in {read + c, N} /\ read' <= read + c /\ read' <= N
    <3> DEFINE x == read + c
    <3>1. x \in Nat
      BY <2>1
    <3> HIDE DEF x, N
    <3>2. Min({x, N}) \in {x, N} /\ Min({x, N}) <= x /\ Min({x, N}) <= N
      <4>1. \E y \in {x, N} : \A z \in {x, N} : y <= z
        BY <2>1, <3>1
      <4>2. Min({x, N}) \in {x, N} /\ \A z \in {x, N} : Min({x, N}) <= z
        BY <4>1 DEF Min
      <4> QED
        BY <4>2
    <3> QED
      BY <1>3, <3>2 DEF x, N
  <2> DEFINE m == read' - read
             piece == SubSeq(body, read + 1, read')
  <2> HIDE DEF N
  <2>3. m \in Nat /\ read' = read + m /\ read + m <= N /\ (m = 0 => c = 0)
    <3>1. CASE read' = read + c
      BY <2>1, <2>2, <3>1
    <3>2. CASE read' = N
      BY <2>1, <2>2, <3>2
    <3> QED
      BY <2>2, <3>1, <3>2
  <2>4. piece = SubSeq(body, read + 1, read + m)
    BY <2>3
  <2>5. piece = <<>> <=> m = 0
    <3>1. Len(Cut(body, read + 1, read + m)) = m /\ Cut(body, read + 1, read + m) \in Seq(Chars)
      <4> DEFINE b == read + m
      <4>1. b \in Nat /\ read <= b /\ b <= Len(body) /\ b - read = m
        BY <2>1, <2>3 DEF N
      <4> HIDE DEF b, m
      <4>2. Cut(body, read + 1, b) \in Seq(Chars) /\ Len(Cut(body, read + 1, b)) = b - read
        BY <2>1, <4>1, CutIs
      <4> QED
        BY <4>1, <4>2 DEF b
    <3>2. Len(piece) = m /\ piece \in Seq(Chars)
      BY <2>4, <3>1 DEF Cut
    <3> HIDE DEF piece
    <3> QED
      BY <3>2
  <2>6. CASE m = 0
    <3>1. scanner' = AtEof
      BY <1>3, <2>5, <2>6 DEF Received
    <3>2. read' = read
      BY <2>1, <2>3, <2>6
    <3>3. BufferInv' /\ Scanned' = Scanned /\ scanner'.state = scanner.state
      BY <1>1, <3>1, <3>2, EofKept
    <3> QED
      BY <1>1, <3>3, SamePlace
  <2>7. CASE m # 0
    <3>1. scanner' = Fed(piece)
      BY <1>3, <2>5, <2>7 DEF Received
    <3>2. scanner' = Fed(SubSeq(body, read + 1, read + m))
      BY <2>4, <3>1
    <3>4. read + m <= Len(body)
      BY <2>3 DEF N
    <3> HIDE DEF m
    <3>5. FedBy(m)
      BY <1>1, <2>3, <3>2, <3>4 DEF FedBy
    <3>6. BufferInv' /\ Scanned' = Scanned /\ scanner'.state = scanner.state
      BY <2>3, <3>5, FedKept
    <3> QED
      BY <1>1, <3>6, SamePlace
  <2> QED
    BY <2>6, <2>7
<1> QED
  BY <1>2, <1>3 DEF Refill

-----------------------------------------------------------------------------
(* The program's calls. *)

LEMMA Joined ==
  ASSUME NEW T, NEW x \in Seq(T), NEW y \in Seq(T)
  PROVE  /\ x \o y \in Seq(T) /\ Len(x \o y) = Len(x) + Len(y)
         /\ \A j \in 1 .. Len(x) : (x \o y)[j] = x[j]
         /\ \A j \in 1 .. Len(y) : (x \o y)[Len(x) + j] = y[j]
OBVIOUS

LEMMA Associates ==
  ASSUME NEW T, NEW s \in Seq(T), NEW t \in Seq(T), NEW u \in Seq(T)
  PROVE  (s \o t) \o u = s \o (t \o u)
<1> DEFINE p == s \o t
           q == t \o u
           v == p \o u
           w == s \o q
           a == Len(s)
           b == Len(t)
           c == Len(u)
<1>1. a \in Nat /\ b \in Nat /\ c \in Nat
  OBVIOUS
<1>2. /\ p \in Seq(T) /\ Len(p) = a + b
      /\ (\A j \in 1 .. a : p[j] = s[j]) /\ \A j \in 1 .. b : p[a + j] = t[j]
  BY Joined
<1>3. /\ q \in Seq(T) /\ Len(q) = b + c
      /\ (\A j \in 1 .. b : q[j] = t[j]) /\ \A j \in 1 .. c : q[b + j] = u[j]
  BY Joined
<1> HIDE DEF p, q
<1>4. /\ v \in Seq(T) /\ Len(v) = (a + b) + c
      /\ (\A j \in 1 .. a + b : v[j] = p[j]) /\ \A j \in 1 .. c : v[(a + b) + j] = u[j]
  <2>0. p \in Seq(T)
    BY <1>2
  <2>1. /\ p \o u \in Seq(T) /\ Len(p \o u) = Len(p) + Len(u)
        /\ (\A j \in 1 .. Len(p) : (p \o u)[j] = p[j]) /\ \A j \in 1 .. Len(u) : (p \o u)[Len(p) + j] = u[j]
    BY <2>0, Joined
  <2> QED
    BY <1>2, <2>1
<1>5. /\ w \in Seq(T) /\ Len(w) = a + (b + c)
      /\ (\A j \in 1 .. a : w[j] = s[j]) /\ \A j \in 1 .. b + c : w[a + j] = q[j]
  <2>0. q \in Seq(T)
    BY <1>3
  <2>1. /\ s \o q \in Seq(T) /\ Len(s \o q) = Len(s) + Len(q)
        /\ (\A j \in 1 .. Len(s) : (s \o q)[j] = s[j]) /\ \A j \in 1 .. Len(q) : (s \o q)[Len(s) + j] = q[j]
    BY <2>0, Joined
  <2>2. Len(q) = b + c
    BY <1>3
  <2> HIDE DEF q
  <2> QED
    BY <2>1, <2>2
<1> HIDE DEF v, w, a, b, c
<1>6. ASSUME NEW j \in 1 .. a + b + c PROVE v[j] = w[j]
  <2>1. CASE j \in 1 .. a
    BY <1>1, <1>2, <1>4, <1>5, <2>1
  <2>2. CASE j \in a + 1 .. a + b
    <3> HIDE DEF a, b, c
    <3>0. j \in 1 .. a + b
      BY <1>1, <2>2
    <3>1. PICK x \in 1 .. b : j = a + x
      <4>1. j - a \in 1 .. b /\ j = a + (j - a)
        BY <1>1, <2>2
      <4> QED
        BY <4>1
    <3>2. v[j] = t[x]
      <4>1. v[j] = p[a + x]
        BY <1>4, <3>0, <3>1
      <4>2. p[a + x] = t[x]
        BY <1>2
      <4> QED
        BY <4>1, <4>2
    <3>3. w[j] = t[x]
      <4>1. x \in 1 .. b + c
        BY <1>1
      <4>2. w[j] = q[x]
        BY <1>5, <3>1, <4>1
      <4>3. q[x] = t[x]
        BY <1>3
      <4> QED
        BY <4>2, <4>3
    <3> QED
      BY <3>2, <3>3
  <2>3. CASE j \in a + b + 1 .. a + b + c
    <3>1. PICK x \in 1 .. c : j = (a + b) + x
      <4>1. j - (a + b) \in 1 .. c /\ j = (a + b) + (j - (a + b))
        BY <1>1, <2>3
      <4> QED
        BY <4>1
    <3>2. v[j] = u[x]
      BY <1>4, <3>1
    <3>3. j = a + (b + x) /\ b + x \in 1 .. b + c
      BY <1>1, <3>1
    <3>4. w[j] = q[b + x] /\ q[b + x] = u[x]
      BY <1>3, <1>5, <3>3
    <3> QED
      BY <3>2, <3>4
  <2> QED
    BY <1>1, <2>1, <2>2, <2>3
<1>7. v = w
  <2> DEFINE n == a + b + c
  <2>1. Len(v) = n /\ Len(w) = n /\ v \in Seq(T) /\ w \in Seq(T) /\ \A j \in 1 .. n : v[j] = w[j]
    BY <1>1, <1>4, <1>5, <1>6
  <2> HIDE DEF n
  <2> QED
    BY <2>1
<1> QED
  BY <1>7 DEF v, w, p, q

(* What the program has of a part and the reader holds for it begins it.   *)
LEMMA CurrentBegins ==
  ASSUME FormInv, PartOpen, op # "form"
  PROVE  LET m == Meaning(body).parts[Len(parts)] IN Begins(Current, m) /\ m \in Seq(Chars)
<1> DEFINE n == Len(parts)
           m == Meaning(body).parts[n]
<1>1. /\ body \in Seq(Chars) /\ Scanned \in 0 .. Len(body) /\ parts \in Seq(PartRecord)
      /\ pending \in Seq(Chars)
  BY BufferFacts DEF FormInv, ControlInv
<1>2. ended = "no" /\ op # "next" /\ n > 0
  BY DEF PartOpen
<1>3. Current \in Seq(Chars)
  <2>1. parts[n] \in PartRecord
    BY <1>1, <1>2
  <2>2. parts[n].data \in Seq(Chars)
    BY <2>1 DEF PartRecord
  <2> QED
    BY <1>1, <2>2 DEF Current
<1>4. CASE partDone \/ scanner.state = "part_ending"
  <2>1. Current = m
    BY <1>4 DEF FormInv, CurrentInv
  <2> HIDE DEF m
  <2>2. Begins(m, m) /\ m \in Seq(Chars)
    BY <1>3, <2>1, BeginsItself
  <2> QED
    BY <2>1, <2>2 DEF m
<1>5. CASE scanner.state = "data"
  <2>1. PICK d \in Nat : d <= Scanned /\ InPart(body, n, d, Scanned) /\ Current = Cut(body, d + 1, Scanned)
    BY <1>5, ReadingAPart
  <2>2. n \in Nat /\ Scanned \in Nat /\ Scanned <= Len(body)
    BY <1>1
  <2>3. PICK z \in Nat : Scanned <= z /\ z <= Len(body) /\ m = Cut(body, d + 1, z)
    BY <1>1, <2>1, <2>2, PartReaches
  <2>4. d <= z
    BY <2>1, <2>2, <2>3
  <2>5. Begins(Cut(body, d + 1, Scanned), Cut(body, d + 1, z)) /\ Cut(body, d + 1, z) \in Seq(Chars)
    BY <1>1, <2>1, <2>2, <2>3, <2>4, CutBegins, CutIs
  <2> QED
    BY <2>1, <2>3, <2>5
<1> QED
  BY <1>2, <1>4, <1>5 DEF FormInv, ControlInv

(* The whole of a sequence.                                                *)
LEMMA CutAll ==
  ASSUME NEW T, NEW s \in Seq(T)
  PROVE  Cut(s, 1, Len(s)) = s
<1> DEFINE n == Len(s)
           u == Cut(s, 1, n)
<1>1. n \in Nat
  OBVIOUS
<1>2. u \in Seq(T) /\ Len(u) = n /\ \A j \in 1 .. n : u[j] = s[j]
  <2>1. /\ Cut(s, 0 + 1, n) \in Seq(T) /\ Len(Cut(s, 0 + 1, n)) = n - 0
        /\ \A j \in 1 .. n - 0 : Cut(s, 0 + 1, n)[j] = s[0 + j]
    <3> HIDE DEF n
    <3>1. 0 \in Nat /\ 0 <= n /\ n <= Len(s)
      BY <1>1 DEF n
    <3> QED
      BY <1>1, <3>1, CutIs
  <2>2. 0 + 1 = 1 /\ n - 0 = n /\ \A j \in 1 .. n : 0 + j = j
    BY <1>1
  <2> HIDE DEF n
  <2> QED
    BY <2>1, <2>2
<1> HIDE DEF u
<1>3. u = s
  BY <1>2
<1> QED
  BY <1>3 DEF u, n

(* A step that gives the program the beginning of what is held for it.     *)
HandsOver(head, tail) ==
    /\ head \o tail = pending /\ pending' = tail /\ parts' = Handed(head)
    /\ op' \in {"idle", op} /\ UNCHANGED <<body, read, scanner, partDone, ended>>

LEMMA SameBuffer ==
  ASSUME BufferInv, UNCHANGED <<body, read, scanner>>
  PROVE  BufferInv' /\ Scanned' = Scanned
<1>1. Offset' = Offset
  BY DEF Offset
<1>2. Scanned' = Scanned
  BY <1>1 DEF Scanned
<1>3. Windows(scanner.buf, body, Offset)'
  <2>1. Windows(scanner.buf, body, Offset)
    BY DEF BufferInv
  <2>2. scanner' = scanner /\ body' = body
    OBVIOUS
  <2> QED
    BY <1>1, <2>1, <2>2
<1> QED
  BY <1>2, <1>3 DEF BufferInv

LEMMA HandedOn ==
  ASSUME FormInv, ended = "no", op \in {"some", "all"},
         NEW head \in Seq(Chars), NEW tail \in Seq(Chars), HandsOver(head, tail)
  PROVE  FormInv'
<1> DEFINE n == Len(parts)
           M == Meaning(body).parts
           longer == [parts[n] EXCEPT !.data = @ \o head]
<1>1. parts \in Seq(PartRecord) /\ n \in Nat /\ pending \in Seq(Chars)
  BY DEF FormInv, ControlInv
<1>2. UNCHANGED <<body, read, scanner, partDone, ended>> /\ op' \in {"idle", op} /\ pending' = tail
  BY DEF HandsOver
<1>3. BufferInv' /\ Scanned' = Scanned
  BY <1>2, SameBuffer DEF FormInv
<1>4. CASE n = 0
  <2>1. parts' = parts
    BY <1>1, <1>4 DEF HandsOver, Handed
  <2>2. ControlInv'
    BY <1>2, <2>1 DEF FormInv, ControlInv, Ops
  <2>3. ScannerInv'
    BY <1>2, <1>3, <2>1 DEF FormInv, ScannerInv
  <2>4. CurrentInv'
    BY <1>4, <2>1 DEF CurrentInv, PartOpen
  <2>5. PartsInv' /\ EndsInv'
    BY <1>2, <2>1, SameParts DEF FormInv, CutShort
  <2> QED
    BY <1>3, <2>2, <2>3, <2>4, <2>5 DEF FormInv
<1>5. CASE n # 0
  <2>1. n \in 1 .. n /\ n > 0 /\ parts # <<>>
    BY <1>1, <1>5
  <2>2. parts[n] \in PartRecord
    BY <1>1, <2>1
  <2>3. parts[n].data \in Seq(Chars) /\ parts[n].whole \in BOOLEAN
    BY <2>2 DEF PartRecord
  <2>4. /\ longer \in PartRecord /\ longer.data = parts[n].data \o head /\ longer.whole = parts[n].whole
        /\ AddTo(parts[n], head) = longer
    <3>1. parts[n].data \o head \in Seq(Chars)
      BY <2>3
    <3> QED
      BY <2>2, <2>3, <3>1 DEF PartRecord, AddTo
  <2>5. parts' = [parts EXCEPT ![n] = AddTo(parts[n], head)]
    BY <2>1 DEF HandsOver, Handed
  <2> HIDE DEF longer, M
  <2>6. /\ parts' \in Seq(PartRecord) /\ Len(parts') = n
        /\ \A k \in 1 .. n : k # n => parts'[k] = parts[k]
        /\ parts'[n] = longer
    BY <1>1, <2>1, <2>4, <2>5
  <2>7. PartOpen /\ op # "form" /\ PartOpen'
    BY <1>2, <2>1, <2>6 DEF PartOpen
  <2>8. ~parts[n].whole
    BY <2>7 DEF FormInv, CurrentInv
  <2>9. Current' = Current /\ Current = longer.data \o tail
    <3>1. Current = parts[n].data \o (head \o tail)
      BY DEF Current, HandsOver
    <3>2. (parts[n].data \o head) \o tail = parts[n].data \o (head \o tail)
      <4> DEFINE d == parts[n].data
      <4>1. d \in Seq(Chars)
        BY <2>3
      <4> HIDE DEF d
      <4>2. (d \o head) \o tail = d \o (head \o tail)
        BY <4>1, Associates
      <4> QED
        BY <4>2 DEF d
    <3>3. Current' = parts'[n].data \o pending'
      BY <2>6 DEF Current
    <3>4. Current' = longer.data \o tail
      BY <1>2, <2>6, <3>3
    <3> QED
      BY <2>4, <3>1, <3>2, <3>4
  <2>10. ControlInv'
    BY <1>2, <2>6 DEF FormInv, ControlInv, Ops
  <2>11. ScannerInv'
    BY <1>2, <1>3, <2>6 DEF FormInv, ScannerInv
  <2>12. CurrentInv'
    <3>1. Meaning(body').parts[Len(parts')] = M[n] /\ Len(parts') = Len(parts) /\ body' = body
      BY <1>2, <2>6 DEF M
    <3>2. ~parts'[n].whole
      BY <2>4, <2>6, <2>8
    <3>3. /\ scanner.state = "data" =>
                \E d \in Nat : InPart(body, n, d, Scanned) /\ Current = SubSeq(body, d + 1, Scanned)
          /\ partDone \/ scanner.state = "part_ending" => Current = M[n]
      BY <2>7 DEF FormInv, CurrentInv, M
    <3> QED
      BY <1>2, <1>3, <2>6, <2>9, <3>1, <3>2, <3>3 DEF CurrentInv
  <2>13. PartsInv'
    <3>1. n <= Len(M) /\ \A k \in 1 .. n : /\ Begins(parts[k].data, M[k])
                                           /\ parts[k].whole => parts[k].data = M[k]
      BY DEF FormInv, PartsInv, M
    <3>2. Begins(longer.data \o tail, M[n]) /\ M[n] \in Seq(Chars)
      <4>1. Begins(Current, M[n]) /\ M[n] \in Seq(Chars)
        BY <2>7, CurrentBegins DEF M
      <4>2. Current = longer.data \o tail
        BY <2>9
      <4> QED
        BY <4>1, <4>2, Zenon
    <3>3. longer.data \in Seq(Chars) /\ Len(M[n]) \in Nat
      <4>1. longer.data \in Seq(Chars)
        BY <2>4 DEF PartRecord
      <4>2. ASSUME NEW x \in Seq(Chars) PROVE Len(x) \in Nat
        OBVIOUS
      <4>3. M[n] \in Seq(Chars)
        BY <3>2
      <4> QED
        BY <4>1, <4>2, <4>3
    <3>4. Begins(longer.data, M[n])
      BY <3>2, <3>3, BeginsWithPart
    <3>5. ASSUME NEW k \in 1 .. n
          PROVE  Begins(parts'[k].data, M[k]) /\ (parts'[k].whole => parts'[k].data = M[k])
      BY <2>4, <2>6, <2>8, <3>1, <3>4
    <3> QED
      BY <1>2, <2>6, <3>1, <3>5 DEF PartsInv, M
  <2>14. EndsInv'
    BY <1>2 DEF EndsInv
  <2> QED
    BY <1>3, <2>10, <2>11, <2>12, <2>13, <2>14 DEF FormInv
<1> QED
  BY <1>4, <1>5

LEMMA ReturnSomeStep ==
  ASSUME FormInv, ReturnSome
  PROVE  FormInv'
<1> DEFINE L == Len(pending)
           m == Min({SomeMax, L})
           head == SubSeq(pending, 1, m)
           tail == SubSeq(pending, m + 1, L)
<1>1. pending \in Seq(Chars) /\ L \in Nat /\ SomeMax \in Nat
  BY SizesAssumption DEF FormInv, ControlInv
<1>2. m \in Nat /\ m <= L
  <2> HIDE DEF L
  <2>1. \E y \in {SomeMax, L} : \A z \in {SomeMax, L} : y <= z
    <3>1. CASE SomeMax <= L
      BY <1>1, <3>1
    <3>2. CASE L <= SomeMax
      BY <1>1, <3>2
    <3> QED
      BY <1>1, <3>1, <3>2
  <2>2. m \in {SomeMax, L} /\ \A z \in {SomeMax, L} : m <= z
    BY <2>1 DEF Min
  <2> QED
    BY <1>1, <2>2
<1>3. /\ ended = "no" /\ op \in {"some", "all"} /\ op' = "idle" /\ parts' = Handed(head) /\ pending' = tail
      /\ UNCHANGED <<body, read, scanner, partDone, ended>>
  BY DEF ReturnSome, Reading
<1> HIDE DEF m
<1>4. head \in Seq(Chars) /\ tail \in Seq(Chars) /\ head \o tail = pending
  <2>0. 0 \in Nat /\ 0 <= m /\ L <= Len(pending) /\ 0 + 1 = 1
    BY <1>2
  <2>1. Cut(pending, 0 + 1, m) \in Seq(Chars) /\ Cut(pending, m + 1, L) \in Seq(Chars)
    <3> HIDE DEF L
    <3>1. m <= Len(pending)
      BY <1>2 DEF L
    <3>2. Cut(pending, 0 + 1, m) \in Seq(Chars)
      BY <1>1, <1>2, <2>0, <3>1, CutIs
    <3>3. Cut(pending, m + 1, L) \in Seq(Chars)
      BY <1>1, <1>2, <2>0, CutIs
    <3> QED
      BY <3>2, <3>3
  <2>2. Cut(pending, 0 + 1, m) \o Cut(pending, m + 1, L) = Cut(pending, 0 + 1, L)
    <3> HIDE DEF L
    <3>1. pending \in Seq(Chars) /\ 0 \in Nat /\ m \in Nat /\ L \in Nat /\ 0 <= m /\ m <= L /\ L <= Len(pending)
      BY <1>1, <1>2, <2>0
    <3> QED
      BY <3>1, CutsJoin, Zenon
  <2>3. Cut(pending, 1, L) = pending
    BY <1>1, CutAll
  <2>4. head = Cut(pending, 0 + 1, m) /\ tail = Cut(pending, m + 1, L) /\ Cut(pending, 0 + 1, L) = Cut(pending, 1, L)
    BY <2>0 DEF Cut
  <2> HIDE DEF head, tail, L
  <2> QED
    BY <2>1, <2>2, <2>3, <2>4
<1> HIDE DEF head, tail
<1>5. HandsOver(head, tail)
  BY <1>3, <1>4 DEF HandsOver
<1> QED
  BY <1>3, <1>4, <1>5, HandedOn

LEMMA CollectAllStep ==
  ASSUME FormInv, CollectAll
  PROVE  FormInv'
<1>1. ended = "no" /\ op = "all" /\ pending' = <<>> /\ UNCHANGED <<body, read, scanner, partDone>>
  BY DEF CollectAll, Reading
<1>2. CASE sofar' > Limit
  <2>1. ended' = "limit" /\ op' = "idle" /\ parts' = parts
    BY <1>2 DEF CollectAll
  <2>2. BufferInv' /\ Scanned' = Scanned
    BY <1>1, SameBuffer DEF FormInv
  <2>3. ControlInv'
    <3>1. pending' \in Seq(Chars)
      BY <1>1
    <3> QED
      BY <1>1, <2>1, <3>1 DEF FormInv, ControlInv, Ops
  <2>4. ScannerInv'
    BY <1>1, <2>1, <2>2 DEF FormInv, ScannerInv
  <2>5. CurrentInv'
    BY <2>1 DEF CurrentInv, PartOpen
  <2>6. PartsInv'
    BY <1>1, <2>1 DEF FormInv, PartsInv
  <2>7. EndsInv'
    BY <2>1 DEF EndsInv
  <2> QED
    BY <2>2, <2>3, <2>4, <2>5, <2>6, <2>7 DEF FormInv
<1>3. CASE ~(sofar' > Limit)
  <2>1. ended' = ended /\ parts' = Handed(pending) /\ op' \in {"idle", op}
    BY <1>3 DEF CollectAll
  <2>2. pending \in Seq(Chars) /\ <<>> \in Seq(Chars)
    BY DEF FormInv, ControlInv
  <2>3. pending \o <<>> = pending
    BY <2>2
  <2>4. HandsOver(pending, <<>>)
    BY <1>1, <2>1, <2>3 DEF HandsOver
  <2> QED
    BY <1>1, <2>2, <2>4, HandedOn
<1> QED
  BY <1>2, <1>3

(* What is left of the part is dropped: it is whole if nothing was.        *)
LEMMA CallNextPartStep ==
  ASSUME FormInv, CallNextPart
  PROVE  FormInv'
<1> DEFINE n == Len(parts)
           M == Meaning(body).parts
           left == [parts[n] EXCEPT !.whole = partDone /\ pending = <<>>]
<1>1. /\ op = "idle" /\ ended = "no" /\ op' = "next" /\ pending' = <<>>
      /\ UNCHANGED <<body, read, scanner, partDone, ended>>
  BY DEF CallNextPart
<1>2. parts \in Seq(PartRecord) /\ n \in Nat /\ partDone \in BOOLEAN
  BY DEF FormInv, ControlInv
<1>3. BufferInv' /\ Scanned' = Scanned
  BY <1>1, SameBuffer DEF FormInv
<1>4. /\ parts' \in Seq(PartRecord) /\ Len(parts') = n
      /\ \A k \in 1 .. n : k # n => parts'[k] = parts[k]
      /\ n > 0 => /\ parts'[n].data = parts[n].data
                  /\ parts'[n].whole => partDone /\ pending = <<>>
  <2>1. CASE n = 0
    <3>1. parts' = parts
      BY <1>2, <2>1 DEF CallNextPart
    <3> QED
      BY <1>2, <2>1, <3>1
  <2>2. CASE n # 0
    <3>1. n \in 1 .. n /\ parts # <<>>
      BY <1>2, <2>2
    <3>2. parts[n] \in PartRecord
      BY <1>2, <3>1
    <3>3. left \in PartRecord /\ left.data = parts[n].data /\ (left.whole => partDone /\ pending = <<>>)
      BY <1>2, <3>2 DEF PartRecord
    <3>4. parts' = [parts EXCEPT ![n] = left]
      BY <3>1 DEF CallNextPart
    <3> HIDE DEF left
    <3> QED
      BY <1>2, <3>1, <3>3, <3>4
  <2> QED
    BY <2>1, <2>2
<1>5. ControlInv'
  <2>1. <<>> \in Seq(Chars)
    OBVIOUS
  <2> QED
    BY <1>1, <1>4, <2>1 DEF FormInv, ControlInv, Ops
<1>6. ScannerInv'
  BY <1>1, <1>3, <1>4 DEF FormInv, ScannerInv
<1>7. CurrentInv'
  BY <1>1 DEF CurrentInv, PartOpen
<1>8. PartsInv'
  <2>1. n <= Len(M) /\ \A k \in 1 .. n : /\ Begins(parts[k].data, M[k])
                                         /\ parts[k].whole => parts[k].data = M[k]
    BY DEF FormInv, PartsInv
  <2>2. ASSUME n > 0, partDone, pending = <<>> PROVE parts[n].data = M[n]
    <3>1. Current = M[n]
      BY <1>1, <2>2 DEF FormInv, CurrentInv, PartOpen
    <3>2. parts[n] \in PartRecord
      BY <1>2, <2>2
    <3>3. parts[n].data \in Seq(Chars)
      BY <3>2 DEF PartRecord
    <3>4. parts[n].data \o <<>> = parts[n].data
      BY <3>3
    <3> QED
      BY <2>2, <3>1, <3>4 DEF Current
  <2> HIDE DEF M
  <2>3. ASSUME NEW k \in 1 .. n
        PROVE  Begins(parts'[k].data, M[k]) /\ (parts'[k].whole => parts'[k].data = M[k])
    <3>1. CASE k = n
      BY <1>2, <1>4, <2>1, <2>2, <3>1
    <3>2. CASE k # n
      BY <1>4, <2>1, <3>2
    <3> QED
      BY <3>1, <3>2
  <2> QED
    BY <1>1, <1>4, <2>1, <2>3 DEF PartsInv, M
<1>9. EndsInv'
  BY <1>1 DEF EndsInv
<1> QED
  BY <1>3, <1>5, <1>6, <1>7, <1>8, <1>9 DEF FormInv

LEMMA CallReadStep ==
  ASSUME FormInv, CallRead
  PROVE  FormInv'
<1>1. /\ op = "idle" /\ ended = "no" /\ op' \in {"some", "all"}
      /\ UNCHANGED <<body, read, scanner, pending, partDone, parts, ended>>
  BY DEF CallRead
<1>2. BufferInv' /\ Scanned' = Scanned
  BY <1>1, SameBuffer DEF FormInv
<1>3. ControlInv'
  BY <1>1 DEF FormInv, ControlInv, Ops
<1>4. ScannerInv'
  BY <1>1, <1>2 DEF FormInv, ScannerInv
<1>5. CurrentInv'
  <2>1. PartOpen' = PartOpen /\ Current' = Current
    BY <1>1 DEF PartOpen, Current
  <2> QED
    BY <1>1, <1>2, <2>1 DEF FormInv, CurrentInv
<1>6. PartsInv' /\ EndsInv'
  BY <1>1, SameParts DEF FormInv
<1> QED
  BY <1>2, <1>3, <1>4, <1>5, <1>6 DEF FormInv

LEMMA InitForm ==
  ASSUME MultipartInit
  PROVE  FormInv
<1>1. body \in Seq(Chars) /\ Meaning(body) \in Meanings
  <2>1. body \in Seq(Chars)
    BY BodiesAssumption DEF MultipartInit
  <2> QED
    BY <2>1, OpeningIs
<1>2. /\ scanner \in Scanner /\ scanner.pos = 0 /\ scanner.state = "preamble"
      /\ scanner.buf = (IF op = "form" THEN body ELSE <<>>) /\ (scanner.eof => op = "form")
  <2> DEFINE b == IF op = "form" THEN body ELSE <<>>
             e == op = "form"
  <2>1. b \in Seq(Chars)
    BY <1>1
  <2>2. e \in BOOLEAN
    OBVIOUS
  <2>3. scanner = [buf |-> b, pos |-> 0, eof |-> e, state |-> "preamble", wants |-> FALSE]
    BY DEF MultipartInit
  <2>4. "preamble" \in States
    BY DEF States
  <2> HIDE DEF b, e
  <2>5. scanner.buf = b /\ scanner.eof = e /\ scanner.pos = 0 /\ scanner.state = "preamble" /\ scanner \in Scanner
    BY <2>1, <2>2, <2>3, <2>4 DEF Scanner
  <2> QED
    BY <2>5 DEF b, e
<1>3. /\ pending = <<>> /\ partDone = TRUE /\ parts = <<>> /\ ended = "no" /\ op \in {"idle", "form"}
      /\ op = "idle" => read = 0
      /\ op = "form" => read = Len(body)
  BY DEF MultipartInit
<1>4. Len(scanner.buf) = read /\ read \in Nat /\ read <= Len(body)
  <2>1. CASE op = "form"
    BY <1>1, <1>2, <1>3, <2>1
  <2>2. CASE op = "idle"
    BY <1>1, <1>2, <1>3, <2>2
  <2> QED
    BY <1>3, <2>1, <2>2
<1>5. Offset = 0 /\ Scanned = 0
  <2>1. read - Len(scanner.buf) = 0
    BY <1>4
  <2>2. Offset = 0
    BY <2>1 DEF Offset
  <2> QED
    BY <1>2, <2>2 DEF Scanned
<1>6. Windows(scanner.buf, body, Offset)
  <2>1. CASE op = "form"
    BY <1>1, <1>2, <1>5, <2>1 DEF Windows
  <2>2. CASE op = "idle"
    BY <1>1, <1>2, <1>3, <1>5, <2>2 DEF Windows
  <2> QED
    BY <1>3, <2>1, <2>2
<1>7. BufferInv
  BY <1>2, <1>3, <1>4, <1>6 DEF BufferInv
<1>8. ControlInv
  BY <1>3 DEF ControlInv, Ops
<1>9. ScannerInv
  BY <1>2, <1>3, <1>5 DEF ScannerInv
<1>10. CurrentInv
  BY <1>3 DEF CurrentInv, PartOpen
<1>11. PartsInv
  <2>1. Meaning(body).parts \in Seq(Seq(Chars))
    BY <1>1 DEF Meanings
  <2>2. Len(Meaning(body).parts) \in Nat
    BY <2>1
  <2> QED
    BY <1>3, <2>2 DEF PartsInv
<1>12. EndsInv
  BY <1>3 DEF EndsInv
<1> QED
  BY <1>7, <1>8, <1>9, <1>10, <1>11, <1>12 DEF FormInv

LEMMA StepForm ==
  ASSUME FormInv, [MultipartNext]_multipartVars
  PROVE  FormInv'
<1>1. CASE Scan
  <2>1. ~Reading("some") /\ ~Reading("all")
    BY <1>1 DEF Scan
  <2>2. CASE ScanPreamble
    BY <2>1, <2>2, PreambleStep
  <2>3. CASE ScanAfterDelim
    BY <2>1, <2>3, AfterDelimStep
  <2>4. CASE ScanHeaders
    BY <2>1, <2>4, HeadersStep
  <2>5. CASE ScanData
    BY <2>1, <2>5, DataStep
  <2>6. CASE ScanPartEnding
    BY <2>1, <2>6, PartEndingStep
  <2>7. CASE ScanFinished
    BY <2>1, <2>7, FinishedStateStep
  <2> QED
    BY <1>1, <2>2, <2>3, <2>4, <2>5, <2>6, <2>7 DEF Scan
<1>2. CASE Refill
  BY <1>2, RefillStep
<1>3. CASE ReturnSome
  BY <1>3, ReturnSomeStep
<1>4. CASE CollectAll
  BY <1>4, CollectAllStep
<1>5. CASE CallNextPart
  BY <1>5, CallNextPartStep
<1>6. CASE CallRead
  BY <1>6, CallReadStep
<1>7. CASE UNCHANGED multipartVars
  <2>1. UNCHANGED <<body, read, scanner, pending, partDone, op, parts, ended>>
    BY <1>7 DEF multipartVars
  <2>2. BufferInv' /\ Scanned' = Scanned /\ scanner'.state = scanner.state
    BY <2>1, SameBuffer DEF FormInv
  <2> QED
    BY <2>1, <2>2, SamePlace DEF CutShort
<1> QED
  BY <1>1, <1>2, <1>3, <1>4, <1>5, <1>6, <1>7 DEF MultipartNext, Call

LEMMA PrefixIs ==
  ASSUME NEW s \in Seq(Chars), NEW t, Begins(s, t), t \in Seq(Chars)
  PROVE  IsPrefix(s, t)
<1> DEFINE n == Len(s)
<1>1. n \in Nat /\ n <= Len(t) /\ \A j \in 1 .. n : s[j] = t[j]
  BY DEF Begins
<1>2. /\ Cut(t, 0 + 1, n) \in Seq(Chars) /\ Len(Cut(t, 0 + 1, n)) = n - 0
      /\ \A j \in 1 .. n - 0 : Cut(t, 0 + 1, n)[j] = t[0 + j]
  <2> HIDE DEF n
  <2>1. 0 \in Nat /\ 0 <= n
    BY <1>1
  <2> QED
    BY <1>1, <2>1, CutIs
<1>3. Cut(s, 1, n) = s
  BY CutAll
<1> DEFINE u == Cut(t, 1, n)
<1>4. u \in Seq(Chars) /\ Len(u) = n /\ \A j \in 1 .. n : u[j] = t[j]
  <2>1. 0 + 1 = 1 /\ n - 0 = n /\ \A j \in 1 .. n : 0 + j = j
    BY <1>1
  <2> HIDE DEF n
  <2> QED
    BY <1>2, <2>1
<1> HIDE DEF u
<1>5. u = s
  BY <1>1, <1>4
<1> QED
  BY <1>1, <1>3, <1>5 DEF IsPrefix, Cut, u

LEMMA FormGivesData == ASSUME FormInv PROVE DataIsTheBodys
<1> DEFINE n == Len(parts)
           M == Meaning(body).parts
<1>1. body \in Seq(Chars) /\ parts \in Seq(PartRecord) /\ n \in Nat /\ DOMAIN parts = 1 .. n
  BY BufferFacts DEF FormInv, ControlInv
<1>2. n <= Len(M) /\ M \in Seq(Seq(Chars))
  BY <1>1, OpeningIs DEF FormInv, PartsInv, Meanings
<1>3. \A k \in 1 .. n : Begins(parts[k].data, M[k]) /\ (parts[k].whole => parts[k].data = M[k])
  BY DEF FormInv, PartsInv
<1> HIDE DEF M
<1>4. ASSUME NEW k \in 1 .. n PROVE IsPrefix(parts[k].data, M[k])
  <2>1. parts[k] \in PartRecord /\ M[k] \in Seq(Chars)
    BY <1>1, <1>2
  <2>2. parts[k].data \in Seq(Chars)
    BY <2>1 DEF PartRecord
  <2>3. Begins(parts[k].data, M[k])
    BY <1>3
  <2> QED
    BY <2>1, <2>2, <2>3, PrefixIs
<1>5. ASSUME NEW k \in 1 .. n, k = n, op = "idle", ended = "no", partDone, pending = <<>>
      PROVE  parts[k].data = M[k]
  <2>1. PartOpen
    BY <1>1, <1>5 DEF PartOpen
  <2>2. Current = M[n]
    BY <1>5, <2>1 DEF FormInv, CurrentInv, M
  <2>3. parts[n] \in PartRecord
    BY <1>1, <1>5
  <2>4. parts[n].data \in Seq(Chars)
    BY <2>3 DEF PartRecord
  <2>5. parts[n].data \o <<>> = parts[n].data
    BY <2>4
  <2> QED
    BY <1>5, <2>2, <2>5 DEF Current
<1> QED
  BY <1>1, <1>2, <1>3, <1>4, <1>5 DEF DataIsTheBodys, M

(* Whatever the pieces the body arrives in, the scanner stands in the body *)
(* where the grammar is after the parts it has handed on, and what the     *)
(* program and the reader have of the last one is its beginning.           *)
THEOREM FormsAreRead == MultipartSpec => []FormInv
<1>1. MultipartInit => FormInv
  BY InitForm
<1>2. FormInv /\ [MultipartNext]_multipartVars => FormInv'
  BY StepForm
<1> QED
  BY <1>1, <1>2, PTL DEF MultipartSpec

(* However a body is cut into pieces and however it is read, each part's   *)
(* data is the body's between its header and the next delimiter, from the  *)
(* beginning, and all of it when the part was read to its end.             *)
THEOREM DataIsAlwaysTheBodys == MultipartSpec => []DataIsTheBodys
<1>1. FormInv => DataIsTheBodys
  BY FormGivesData
<1> QED
  BY <1>1, FormsAreRead, PTL

(* A body is found malformed only if the grammar says so, but for a header *)
(* that is too long and for a read that brought nothing and was taken for  *)
(* the end; and it is finished, with all its parts given, only if the      *)
(* grammar says so: whatever the pieces it arrives in, empty ones too.     *)
THEOREM EndsAsTheBodyAlways == MultipartSpec => []EndsAsTheBody
<1>1. FormInv => EndsAsTheBody
  BY DEF FormInv, EndsInv, EndsAsTheBody
<1> QED
  BY <1>1, FormsAreRead, PTL

================================================================================
