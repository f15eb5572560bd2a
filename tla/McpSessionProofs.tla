--------------------------- MODULE McpSessionProofs ---------------------------
(***************************************************************************)
(* Theorems about McpSession, for every set of connections and requests,   *)
(* every history limit and every number of notifications: however the      *)
(* event streams of a session come and go, its client receives the events  *)
(* in order, none twice, and none is passed over that it could have got.   *)
(***************************************************************************)
EXTENDS McpSession, FiniteSetTheorems, SequenceTheorems, TLAPS

Ascending(s) == \A i, j \in DOMAIN s : i < j => s[i] < s[j]

-----------------------------------------------------------------------------
(* Sequences of event ids.                                                 *)

(* Queueing a newer event.                                                 *)
LEMMA AppendIds ==
  ASSUME NEW s \in Seq(Nat), NEW e \in Nat
  PROVE  /\ Append(s, e) \in Seq(Nat)
         /\ Len(Append(s, e)) = Len(s) + 1
         /\ \A i \in 1 .. Len(s) : Append(s, e)[i] = s[i]
         /\ Append(s, e)[Len(s) + 1] = e
         /\ Ids(Append(s, e)) = Ids(s) \cup {e}
         /\ Ascending(s) /\ (\A x \in Ids(s) : x < e) => Ascending(Append(s, e))
<1> DEFINE t == Append(s, e)
           n == Len(s)
<1>1. t \in Seq(Nat) /\ Len(t) = n + 1
  OBVIOUS
<1>2. n \in Nat /\ DOMAIN s = 1 .. n /\ DOMAIN t = 1 .. n + 1
  OBVIOUS
<1>3. (\A i \in 1 .. n : t[i] = s[i]) /\ t[n + 1] = e
  OBVIOUS
<1> HIDE DEF t, n
<1>4. \A i \in 1 .. n + 1 : i # n + 1 => i \in 1 .. n
  BY <1>2
<1>5. Ids(t) = Ids(s) \cup {e}
  <2>1. \A i \in 1 .. n : i \in 1 .. n + 1
    BY <1>2
  <2>2. n + 1 \in 1 .. n + 1
    BY <1>2
  <2> QED
    BY <1>2, <1>3, <1>4, <2>1, <2>2, Zenon DEF Ids
<1>6. ASSUME Ascending(s), \A x \in Ids(s) : x < e
      PROVE  Ascending(t)
  <2> SUFFICES ASSUME NEW i \in 1 .. n + 1, NEW j \in 1 .. n + 1, i < j
               PROVE  t[i] < t[j]
    BY <1>2 DEF Ascending
  <2>1. i \in 1 .. n
    BY <1>2
  <2>2. t[i] = s[i] /\ s[i] \in Ids(s)
    BY <1>2, <1>3, <2>1 DEF Ids
  <2>3. CASE j = n + 1
    BY <1>3, <1>6, <2>2, <2>3
  <2>4. CASE j # n + 1
    <3>1. j \in 1 .. n
      BY <1>4, <2>4
    <3> QED
      BY <1>2, <1>3, <1>6, <2>1, <3>1 DEF Ascending
  <2> QED
    BY <2>3, <2>4
<1> QED
  BY <1>1, <1>3, <1>5, <1>6 DEF t, n

(* Taking the oldest event off a queue.                                    *)
LEMMA TailIds ==
  ASSUME NEW s \in Seq(Nat), s # <<>>
  PROVE  /\ Head(s) \in Nat /\ Tail(s) \in Seq(Nat)
         /\ Len(Tail(s)) = Len(s) - 1
         /\ \A i \in 1 .. Len(s) - 1 : Tail(s)[i] = s[i + 1]
         /\ Ids(s) = Ids(Tail(s)) \cup {Head(s)}
         /\ Ascending(s) => Ascending(Tail(s)) /\ \A x \in Ids(Tail(s)) : Head(s) < x
<1> DEFINE t == Tail(s)
           n == Len(s)
<1>1. t \in Seq(Nat) /\ Len(t) = n - 1 /\ Head(s) = s[1] /\ s[1] \in Nat
  BY HeadTailProperties, EmptySeq
<1>2. n \in Nat \ {0} /\ DOMAIN s = 1 .. n /\ DOMAIN t = 1 .. n - 1
  BY <1>1, EmptySeq
<1>3. \A i \in 1 .. n - 1 : t[i] = s[i + 1]
  BY HeadTailProperties
<1> HIDE DEF t, n
<1>4. \A i \in 1 .. n : i # 1 => i - 1 \in 1 .. n - 1 /\ (i - 1) + 1 = i
  BY <1>2
<1>5. \A i \in 1 .. n - 1 : i + 1 \in 1 .. n /\ 1 < i + 1
  BY <1>2
<1>6. 1 \in 1 .. n
  BY <1>2
<1>7. Ids(s) = Ids(t) \cup {Head(s)}
  <2>1. ASSUME NEW i \in 1 .. n PROVE s[i] \in Ids(t) \cup {s[1]}
    <3>1. CASE i = 1
      BY <3>1
    <3>2. CASE i # 1
      <4>1. i - 1 \in DOMAIN t /\ t[i - 1] = s[i]
        BY <1>2, <1>3, <1>4, <3>2
      <4> QED
        BY <4>1 DEF Ids
    <3> QED
      BY <3>1, <3>2
  <2>2. ASSUME NEW i \in 1 .. n - 1 PROVE t[i] \in Ids(s)
    <3>1. i + 1 \in DOMAIN s /\ t[i] = s[i + 1]
      BY <1>2, <1>3, <1>5
    <3> QED
      BY <3>1 DEF Ids
  <2>3. s[1] \in Ids(s)
    BY <1>2, <1>6, Zenon DEF Ids
  <2>4. Ids(s) \subseteq Ids(t) \cup {s[1]}
    BY <1>2, <2>1 DEF Ids
  <2>5. Ids(t) \subseteq Ids(s)
    BY <1>2, <2>2 DEF Ids
  <2> QED
    BY <1>1, <2>3, <2>4, <2>5
<1>8. ASSUME Ascending(s)
      PROVE  Ascending(t) /\ \A x \in Ids(t) : Head(s) < x
  <2>1. ASSUME NEW i \in 1 .. n - 1, NEW j \in 1 .. n - 1, i < j
        PROVE  t[i] < t[j]
    <3>1. i + 1 \in DOMAIN s /\ j + 1 \in DOMAIN s /\ i + 1 < j + 1
      BY <1>2, <2>1
    <3>2. t[i] = s[i + 1] /\ t[j] = s[j + 1]
      BY <1>3
    <3> QED
      BY <1>8, <3>1, <3>2 DEF Ascending
  <2>2. ASSUME NEW i \in 1 .. n - 1
        PROVE  Head(s) < t[i]
    <3>1. 1 \in DOMAIN s /\ i + 1 \in DOMAIN s /\ 1 < i + 1
      BY <1>2, <1>5, <1>6
    <3>2. t[i] = s[i + 1]
      BY <1>3
    <3> QED
      BY <1>1, <1>8, <3>1, <3>2 DEF Ascending
  <2> QED
    BY <1>2, <2>1, <2>2 DEF Ascending, Ids
<1> QED
  BY <1>1, <1>3, <1>7, <1>8 DEF t, n

(* Trimming a queue that outgrew its limit by one.                         *)
LEMMA LastNIds ==
  ASSUME NEW s \in Seq(Nat), NEW n \in Nat, Len(s) <= n + 1
  PROVE  \/ Len(s) <= n /\ LastN(s, n) = s
         \/ Len(s) = n + 1 /\ LastN(s, n) = Tail(s)
<1>1. CASE Len(s) <= n
  <2>1. ~(Len(s) > n)
    BY <1>1
  <2> QED
    BY <1>1, <2>1 DEF LastN
<1>2. CASE Len(s) = n + 1
  <2> DEFINE m == Len(s)
  <2>1. m \in Nat /\ m = n + 1
    BY <1>2
  <2>2. Tail(s) = SubSeq(s, 2, m)
    BY <1>2, TailIsSubSeq, EmptySeq
  <2>3. LastN(s, n) = IF m > n THEN SubSeq(s, m - n + 1, m) ELSE s
    BY DEF LastN
  <2> HIDE DEF m
  <2>4. m > n /\ m - n + 1 = 2
    BY <2>1
  <2> QED
    BY <1>2, <2>2, <2>3, <2>4
<1>3. Len(s) \in Nat
  OBVIOUS
<1> DEFINE k == Len(s)
<1>4. k <= n \/ k = n + 1
  <2> HIDE DEF k
  <2>1. k \in Nat /\ k <= n + 1
    BY <1>3 DEF k
  <2> QED
    BY <2>1
<1> QED
  BY <1>1, <1>2, <1>4

(* What a resuming client is sent again: the history's events of a range,  *)
(* in order.                                                               *)
LEMMA BetweenIds ==
  ASSUME history \in Seq(Nat), NEW first \in Nat,
         \A i \in 1 .. Len(history) : history[i] = first + i,
         NEW lo \in Nat, NEW hi \in Nat
  PROVE  /\ Between(lo, hi) \in Seq(Nat)
         /\ Ascending(Between(lo, hi))
         /\ \A e \in Ids(Between(lo, hi)) : lo <= e /\ e <= hi
         /\ \A e \in lo .. hi : e \in Ids(history) => e \in Ids(Between(lo, hi))
<1> DEFINE n == Len(history)
           kept == {i \in 1 .. n : history[i] \in lo .. hi}
           t == Between(lo, hi)
<1>0. n \in Nat /\ DOMAIN history = 1 .. n
  OBVIOUS
<1>1. \A i \in 1 .. n : history[i] = first + i
  OBVIOUS
<1>2. t = IF kept = {} THEN <<>> ELSE SubSeq(history, Min(kept), Max(kept))
  BY <1>0 DEF Between
<1> HIDE DEF n, t
<1>3. CASE kept = {}
  <2>1. t = <<>>
    BY <1>2, <1>3
  <2>2. Ids(t) = {} /\ Ascending(t) /\ t \in Seq(Nat)
    BY <2>1 DEF Ids, Ascending
  <2>3. ~\E e \in lo .. hi : e \in Ids(history)
    BY <1>0, <1>3 DEF Ids
  <2> QED
    BY <2>2, <2>3 DEF t
<1>4. CASE kept # {}
  <2> DEFINE a == IF lo <= first THEN 1 ELSE lo - first
             b == IF hi >= first + n THEN n ELSE hi - first
  <2>0. ASSUME NEW i \in 1 .. n
        PROVE  i \in kept <=> (a <= i /\ i <= b)
    <3>1. i \in kept <=> (lo <= first + i /\ first + i <= hi)
      BY <1>1
    <3>2. i \in Nat /\ 1 <= i /\ i <= n
      BY <1>0
    <3> QED
      BY <1>0, <3>1, <3>2
  <2>1. PICK k \in kept : TRUE
    BY <1>4
  <2>2. a \in 1 .. n /\ b \in 1 .. n /\ a <= b
    <3>1. k \in 1 .. n /\ a <= k /\ k <= b
      BY <2>0, <2>1
    <3> QED
      BY <1>0, <3>1
  <2> HIDE DEF a, b
  <2>3. kept \subseteq 1 .. n
    OBVIOUS
  <2> HIDE DEF kept
  <2>4. a \in Nat /\ b \in Nat /\ a <= a /\ b <= b
    BY <2>2
  <2>5. a \in kept /\ b \in kept
    BY <2>0, <2>2, <2>4
  <2>6. \A i \in kept : i \in Nat /\ a <= i /\ i <= b
    BY <1>0, <2>0, <2>3
  <2>7. Min(kept) = a
    <3>1. \A x \in kept : (\A y \in kept : x <= y) => x = a
      BY <2>4, <2>5, <2>6
    <3>2. \E x \in kept : \A y \in kept : x <= y
      BY <2>5, <2>6
    <3> QED
      BY <3>1, <3>2 DEF Min
  <2>8. Max(kept) = b
    <3>1. \A x \in kept : (\A y \in kept : x >= y) => x = b
      BY <2>4, <2>5, <2>6
    <3>2. \E x \in kept : \A y \in kept : x >= y
      BY <2>4, <2>5, <2>6
    <3> QED
      BY <3>1, <3>2 DEF Max
  <2>9. t = SubSeq(history, a, b)
    BY <1>2, <1>4, <2>7, <2>8
  <2>10. /\ t \in Seq(Nat) /\ DOMAIN t = 1 .. b - a + 1
         /\ \A i \in 1 .. b - a + 1 : t[i] = history[a + i - 1]
    <3>1. \A i \in a .. b : i \in 1 .. n
      BY <1>0, <2>2
    <3>2. \A i \in a .. b : history[i] \in Nat
      BY <1>0, <1>1, <3>1
    <3>3. a \in Int /\ b \in Int
      BY <2>4
    <3>4. /\ SubSeq(history, a, b) \in Seq(Nat)
          /\ Len(SubSeq(history, a, b)) = IF a <= b THEN b - a + 1 ELSE 0
          /\ \A i \in 1 .. b - a + 1 : SubSeq(history, a, b)[i] = history[a + i - 1]
      BY <3>2, <3>3, SubSeqProperties
    <3> QED
      BY <2>2, <2>9, <3>4
  <2>11. \A i \in 1 .. b - a + 1 : a + i - 1 \in 1 .. n /\ a <= a + i - 1 /\ a + i - 1 <= b
    BY <1>0, <2>2
  <2>12. \A i \in 1 .. b - a + 1 : a + i - 1 \in kept /\ t[i] = first + (a + i - 1)
    BY <1>1, <2>0, <2>10, <2>11
  <2>13. Ascending(t)
    <3> SUFFICES ASSUME NEW i \in 1 .. b - a + 1, NEW j \in 1 .. b - a + 1, i < j
                 PROVE  t[i] < t[j]
      BY <2>10 DEF Ascending
    <3>1. t[i] = first + (a + i - 1) /\ t[j] = first + (a + j - 1)
      BY <2>12
    <3> QED
      BY <2>4, <3>1
  <2>14. \A e \in Ids(t) : lo <= e /\ e <= hi
    <3> SUFFICES ASSUME NEW i \in 1 .. b - a + 1 PROVE lo <= t[i] /\ t[i] <= hi
      BY <2>10 DEF Ids
    <3>1. a + i - 1 \in kept /\ t[i] = history[a + i - 1]
      BY <2>10, <2>12
    <3>2. t[i] \in lo .. hi
      BY <3>1 DEF kept
    <3> QED
      BY <3>2
  <2>15. ASSUME NEW e \in lo .. hi, e \in Ids(history) PROVE e \in Ids(t)
    <3>1. PICK i \in 1 .. n : history[i] = e
      BY <1>0, <2>15 DEF Ids
    <3>2. i \in kept
      BY <2>15, <3>1 DEF kept
    <3>3. a <= i /\ i <= b
      BY <2>0, <3>2
    <3>4. i - a + 1 \in 1 .. b - a + 1 /\ a + (i - a + 1) - 1 = i
      BY <1>0, <2>4, <3>3
    <3>5. t[i - a + 1] = e
      BY <2>10, <3>1, <3>4
    <3> QED
      BY <2>10, <3>4, <3>5 DEF Ids
  <2> QED
    BY <2>10, <2>13, <2>14, <2>15 DEF t
<1> QED
  BY <1>3, <1>4

(* Ids that count up to `last', as those of the history always do.         *)
Numbered(s, last) == \A i \in DOMAIN s : s[i] = last - Len(s) + i

(* Such a queue ascends, and says which ids it holds.                      *)
LEMMA NumberedIds ==
  ASSUME NEW s \in Seq(Nat), NEW last \in Nat, Numbered(s, last)
  PROVE  /\ Ascending(s)
         /\ \A x \in Ids(s) : last - Len(s) < x /\ x <= last
<1> DEFINE n == Len(s)
<1>1. n \in Nat /\ DOMAIN s = 1 .. n
  OBVIOUS
<1>2. \A i \in 1 .. n : s[i] = last - n + i
  BY <1>1 DEF Numbered
<1> HIDE DEF n
<1>3. \A i, j \in 1 .. n : i < j => s[i] < s[j]
  BY <1>1, <1>2
<1>4. \A i \in 1 .. n : last - n < s[i] /\ s[i] <= last
  BY <1>1, <1>2
<1> QED
  BY <1>1, <1>3, <1>4 DEF Ascending, Ids, n

(* Pushing the next event onto a queue and trimming it: the new event is   *)
(* in it, and at most the event `limit' before it is lost.                 *)
LEMMA PushedIds ==
  ASSUME NEW s \in Seq(Nat), NEW last \in Nat, NEW limit \in Nat \ {0},
         Numbered(s, last), Len(s) <= limit
  PROVE  LET t == LastN(Append(s, last + 1), limit)
         IN  /\ t \in Seq(Nat) /\ Len(t) <= limit
             /\ Len(s) <= last => Len(t) <= last + 1
             /\ Numbered(t, last + 1)
             /\ Ids(t) \subseteq Ids(s) \cup {last + 1}
             /\ last + 1 \in Ids(t)
             /\ \A x \in Ids(s) : x \in Ids(t) \/ x = last + 1 - limit
<1> DEFINE a == Append(s, last + 1)
           t == LastN(a, limit)
           n == Len(s)
<1>0. n \in Nat /\ DOMAIN s = 1 .. n /\ n <= limit
  OBVIOUS
<1>1. /\ a \in Seq(Nat) /\ Len(a) = n + 1
      /\ \A i \in 1 .. n : a[i] = s[i]
      /\ a[n + 1] = last + 1
      /\ Ids(a) = Ids(s) \cup {last + 1}
  BY AppendIds
<1>2. DOMAIN a = 1 .. n + 1
  BY <1>1
<1>3. \A i \in 1 .. n : s[i] = last - n + i
  BY <1>0 DEF Numbered
<1>4. \/ Len(a) <= limit /\ t = a
      \/ Len(a) = limit + 1 /\ t = Tail(a)
  <2>1. Len(a) <= limit + 1
    <3> HIDE DEF a, n
    <3> QED
      BY <1>0, <1>1
  <2> HIDE DEF a
  <2> QED
    BY <1>1, <2>1, LastNIds
<1> HIDE DEF a, t, n
<1>5. \A i \in 1 .. n + 1 : a[i] = last + 1 - (n + 1) + i
  <2> SUFFICES ASSUME NEW i \in 1 .. n + 1 PROVE a[i] = last - n + i
    BY <1>0
  <2>1. CASE i = n + 1
    BY <1>0, <1>1, <2>1
  <2>2. CASE i # n + 1
    <3>1. i \in 1 .. n
      BY <1>0, <2>2
    <3> QED
      BY <1>1, <1>3, <3>1
  <2> QED
    BY <2>1, <2>2
<1>6. CASE Len(a) <= limit /\ t = a
  <2>1. Numbered(a, last + 1)
    BY <1>1, <1>2, <1>5 DEF Numbered
  <2>2. n <= last => n + 1 <= last + 1
    BY <1>0
  <2> QED
    BY <1>1, <1>6, <2>1, <2>2 DEF a, t, n
<1>7. CASE Len(a) = limit + 1 /\ t = Tail(a)
  <2>1. n = limit /\ limit \in Nat /\ limit >= 1
    BY <1>0, <1>1, <1>7
  <2>2. a # <<>>
    BY <1>1, <1>0, EmptySeq
  <2>3. /\ t \in Seq(Nat) /\ Len(t) = n
        /\ \A i \in 1 .. n : t[i] = a[i + 1]
        /\ Ids(a) = Ids(t) \cup {Head(a)}
    <3>1. /\ Tail(a) \in Seq(Nat) /\ Len(Tail(a)) = Len(a) - 1
          /\ \A i \in 1 .. Len(a) - 1 : Tail(a)[i] = a[i + 1]
          /\ Ids(a) = Ids(Tail(a)) \cup {Head(a)}
      BY <1>1, <2>2, TailIds
    <3>2. Len(a) - 1 = n
      BY <1>0, <1>1
    <3> QED
      BY <1>7, <3>1, <3>2
  <2>4. DOMAIN t = 1 .. n
    BY <2>3
  <2>5. Head(a) = a[1] /\ a[1] = last + 1 - limit
    <3>1. 1 \in 1 .. n + 1
      BY <1>0
    <3>2. a[1] = last + 1 - (n + 1) + 1
      BY <1>5, <3>1
    <3> QED
      BY <1>1, <2>1, <2>2, <3>2
  <2>6. \A i \in 1 .. n : t[i] = last + 1 - n + i
    <3> SUFFICES ASSUME NEW i \in 1 .. n PROVE t[i] = last + 1 - n + i
      OBVIOUS
    <3>1. i + 1 \in 1 .. n + 1
      BY <1>0
    <3>2. a[i + 1] = last + 1 - (n + 1) + (i + 1)
      BY <1>5, <3>1
    <3> QED
      BY <1>0, <2>3, <3>2
  <2>7. Numbered(t, last + 1)
    BY <2>3, <2>4, <2>6 DEF Numbered
  <2>8. last + 1 \in Ids(t)
    <3>1. n \in 1 .. n /\ t[n] = last + 1
      BY <1>0, <2>1, <2>6
    <3> QED
      BY <2>4, <3>1 DEF Ids
  <2>9. Len(t) <= limit /\ (n <= last => Len(t) <= last + 1)
    BY <2>1, <2>3
  <2>10. \A x \in Ids(s) : x \in Ids(t) \/ x = last + 1 - limit
    BY <1>1, <2>3, <2>5
  <2> QED
    BY <1>1, <2>3, <2>7, <2>8, <2>9, <2>10 DEF a, t, n
<1> QED
  BY <1>4, <1>6, <1>7

-----------------------------------------------------------------------------
(* The inductive invariant.                                                *)

Contents == Requests \cup {Note}
Phases == {"idle", "produce", "waiting", "handed", "expired", "writing", "over"}

TypeEvents ==
  /\ content \in Seq(Contents) /\ history \in Seq(Nat) /\ mailbox \in Seq(Nat)
  /\ closed \in BOOLEAN /\ lastTaken \in Nat /\ attached \in BOOLEAN
  /\ got \in Seq(Nat) /\ waived \subseteq Nat
  /\ phase \in [Conns -> Phases] /\ replay \in [Conns -> Seq(Nat)]
  /\ frame \in [Conns -> Nat] /\ alive \in [Conns -> BOOLEAN]

TypeRequests ==
  /\ known \in BOOLEAN /\ deleting \in BOOLEAN
  /\ pending \subseteq Requests /\ inTool \subseteq Requests
  /\ req \in [Requests -> {"idle", "peeked", "waiting"} \cup Outcomes]
  /\ channel \in [Requests -> {"none", "open", "answered", "closed"}]
  /\ timedOut \in [Requests -> BOOLEAN]

(* The session has at most one stream, and the flag says whether.          *)
OneStream ==
  /\ \A c, d \in Conns : phase[c] # "idle" /\ phase[d] # "idle" => c = d
  /\ attached <=> \E c \in Conns : phase[c] # "idle"

(* The history is the end of the sequence of all events, and so is the     *)
(* mailbox while it is open; nothing in it was taken before.               *)
QueueInv ==
  /\ Len(history) <= HistoryLimit /\ Len(history) <= Len(content)
  /\ Numbered(history, Len(content))
  /\ Len(mailbox) <= HistoryLimit
  /\ ~closed => Numbered(mailbox, Len(content))
  /\ Ascending(mailbox)
  /\ \A e \in Ids(mailbox) : lastTaken < e /\ e <= Len(content)

(* What the client received was taken, in order.                           *)
ReceivedInv ==
  /\ Ascending(got)
  /\ LastReceived <= lastTaken /\ lastTaken <= Len(content)

(* What a stream is about to write is newer than what the client received: *)
(* first what it holds, then its replay, then the mailbox.                 *)
StreamAt(c) ==
  /\ phase[c] = "waiting" => mailbox = <<>>
  /\ phase[c] \in {"idle", "waiting", "handed", "expired"} => replay[c] = <<>>
  /\ phase[c] = "handed" => /\ lastTaken < frame[c] /\ frame[c] <= Len(content)
                            /\ \A e \in Ids(mailbox) : frame[c] < e
  /\ phase[c] = "writing" /\ frame[c] # NoEvent =>
       /\ LastReceived < frame[c] /\ frame[c] <= lastTaken
       /\ \A e \in Ids(replay[c]) : frame[c] < e
  /\ Ascending(replay[c])
  /\ \A e \in Ids(replay[c]) : LastReceived < e /\ e <= lastTaken

StreamInv == \A c \in Conns : StreamAt(c)

(* What was taken and not received is on its way on the living stream, was *)
(* not asked for, or is too old.                                           *)
Missed(e) == e \in waived \/ e \notin Ids(history)

TakenAt(c) ==
  alive[c] /\ phase[c] # "idle" =>
    \A e \in (LastReceived + 1) .. lastTaken :
      \/ Missed(e)
      \/ phase[c] = "writing" /\ frame[c] = e
      \/ e \in Ids(replay[c])

TakenInv == \A c \in Conns : TakenAt(c)

(* What was not taken is queued or handed to the stream, or is too old, or *)
(* came when the mailbox was closed.                                       *)
Handed == {frame[c] : c \in {d \in Conns : phase[d] = "handed"}}

UntakenInv ==
  \A e \in (lastTaken + 1) .. Len(content) :
    \/ e \in Ids(mailbox) \cup Handed
    \/ e \notin Ids(history)
    \/ closed /\ \A x \in Ids(mailbox) \cup Handed : x < e

EventInv ==
  /\ TypeEvents /\ OneStream /\ QueueInv /\ ReceivedInv /\ StreamInv /\ TakenInv /\ UntakenInv
  /\ NothingSkipped

IInv == EventInv /\ TypeRequests

-----------------------------------------------------------------------------
(* While a connection has the stream, the others have none.                *)
LEMMA OthersIdle ==
  ASSUME OneStream, StreamInv, NEW c \in Conns, phase[c] # "idle"
  PROVE  /\ \A d \in Conns : d # c => phase[d] = "idle" /\ replay[d] = <<>>
         /\ Handed = IF phase[c] = "handed" THEN {frame[c]} ELSE {}
         /\ attached
<1>1. \A d \in Conns : d # c => phase[d] = "idle"
  BY DEF OneStream
<1>2. \A d \in Conns : d # c => replay[d] = <<>>
  BY <1>1 DEF StreamInv, StreamAt
<1>3. attached
  BY DEF OneStream
<1>4. Handed = IF phase[c] = "handed" THEN {frame[c]} ELSE {}
  BY <1>1 DEF Handed
<1> QED
  BY <1>1, <1>2, <1>3, <1>4

(* So a step of the stream need only be looked at on its own connection.   *)
LEMMA OnlyTheStream ==
  ASSUME NEW c \in Conns,
         \A d \in Conns : d # c => phase'[d] = "idle" /\ replay'[d] = <<>>,
         attached' <=> phase'[c] # "idle",
         StreamAt(c)', TakenAt(c)'
  PROVE  /\ OneStream' /\ StreamInv' /\ TakenInv'
         /\ Handed' = IF phase'[c] = "handed" THEN {frame'[c]} ELSE {}
<1>1. OneStream'
  BY DEF OneStream
<1>2. Ids(<<>>) = {} /\ Ascending(<<>>)
  BY DEF Ids, Ascending
<1>3. StreamInv'
  <2> SUFFICES ASSUME NEW d \in Conns, d # c PROVE StreamAt(d)'
    BY DEF StreamInv
  <2>1. phase'[d] = "idle" /\ replay'[d] = <<>>
    OBVIOUS
  <2>2. Ids(replay'[d]) = {} /\ Ascending(replay'[d])
    BY <1>2, <2>1
  <2> QED
    BY <2>1, <2>2 DEF StreamAt
<1>4. TakenInv'
  BY DEF TakenInv, TakenAt
<1>5. Handed' = IF phase'[c] = "handed" THEN {frame'[c]} ELSE {}
  BY DEF Handed
<1> QED
  BY <1>1, <1>3, <1>4, <1>5

-----------------------------------------------------------------------------
(* The kinds of step, as the events see them.                              *)

PushStep == (\E what \in Contents : Push(what)) /\ UNCHANGED <<lastTaken, attached, clientVars>>

(* The mailbox may be closed, and the waiting stream be dismissed.         *)
CloseStep ==
  /\ UNCHANGED <<content, history, mailbox, lastTaken, attached, replay, frame, clientVars>>
  /\ closed' \in {closed, TRUE}
  /\ UNCHANGED phase \/ DismissStream

EventStep ==
  \/ PushStep \/ CloseStep \/ UNCHANGED <<eventVars, lastTaken, attached, streamVars, clientVars>>
  \/ \E c \in Conns : StreamRuns(c) \/ Get(c) \/ Keepalive(c) \/ StreamCancelled(c)

LEMMA StepsOfEvents ==
  ASSUME [Next]_vars
  PROVE  EventStep
<1> USE DEF EventStep, eventVars, streamVars, clientVars
<1>1. ASSUME Notify \/ \E r \in Requests : RequestBegin(r) PROVE EventStep
  BY <1>1 DEF Notify, RequestBegin, PushStep, Contents
<1>2. ASSUME End PROVE closed' \in {closed, TRUE} /\ DismissStream
  BY <1>2 DEF End
<1>3. ASSUME DeleteEnd \/ DeleteErase \/ Sweep PROVE EventStep
  BY <1>2, <1>3 DEF DeleteEnd, DeleteErase, Sweep, CloseStep
<1>4. ASSUME NEW r \in Requests, RequestResume(r) \/ RequestCancelled(r) PROVE EventStep
  BY <1>2, <1>4 DEF RequestResume, RequestCancelled, Finish, CloseStep
<1>5. ASSUME NEW r \in Requests, RequestPeek(r) \/ Timer(r) \/ Respond(r) PROVE EventStep
  BY <1>5 DEF RequestPeek, Timer, Respond
<1>6. CASE UNCHANGED vars
  BY <1>6 DEF vars
<1> QED
  BY <1>1, <1>3, <1>4, <1>5, <1>6, Zenon DEF Next, RequestSteps

-----------------------------------------------------------------------------
(* An event is pushed.                                                     *)
LEMMA PushKeeps ==
  ASSUME EventInv, PushStep
  PROVE  EventInv'
<1> DEFINE N == Len(content)
<1>1. PICK what \in Contents : Push(what)
  BY DEF PushStep
<1>2. /\ UNCHANGED <<lastTaken, attached, alive, got, waived, closed, replay>>
      /\ content' = Append(content, what)
      /\ history' = LastN(Append(history, N + 1), HistoryLimit)
  BY <1>1 DEF PushStep, Push, Remember, clientVars
<1>3. IF closed THEN UNCHANGED <<mailbox, phase, frame>> ELSE Enqueue(N + 1)
  BY <1>1 DEF Push
<1>4. N \in Nat /\ content' \in Seq(Contents) /\ Len(content') = N + 1
  BY <1>2 DEF EventInv, TypeEvents
<1>5. /\ history \in Seq(Nat) /\ Numbered(history, N) /\ Len(history) <= HistoryLimit
      /\ Len(history) <= N
      /\ mailbox \in Seq(Nat) /\ Len(mailbox) <= HistoryLimit /\ Ascending(mailbox)
      /\ lastTaken \in Nat /\ got \in Seq(Nat)
  BY DEF EventInv, TypeEvents, QueueInv
<1> HIDE DEF N
<1>6. /\ history' \in Seq(Nat) /\ Len(history') <= HistoryLimit /\ Len(history') <= N + 1
      /\ Numbered(history', N + 1)
      /\ Ids(history') \subseteq Ids(history) \cup {N + 1}
  BY <1>2, <1>4, <1>5, PushedIds, SessionAssumption
<1>7. \A x \in Ids(history') : N + 1 - HistoryLimit < x /\ x <= N + 1
  <2>1. \A x \in Ids(history') : N + 1 - Len(history') < x /\ x <= N + 1
    BY <1>4, <1>6, NumberedIds
  <2>2. Ids(history') \subseteq Int /\ Len(history') \in Nat
    BY <1>6 DEF Ids
  <2> QED
    BY <1>4, <1>6, <2>1, <2>2, SessionAssumption
<1>8. LastReceived' = LastReceived /\ LastReceived <= lastTaken /\ lastTaken <= N
  BY <1>2 DEF LastReceived, EventInv, ReceivedInv, N
<1>9. ReceivedInv'
  BY <1>2, <1>4, <1>5, <1>8 DEF EventInv, ReceivedInv, N
<1>10. LastReceived \in Nat
  BY <1>5, EmptySeq DEF LastReceived, Last, NoEvent
<1>11. \A e \in 1 .. N : Missed(e) => Missed(e)'
  BY <1>2, <1>4, <1>6 DEF Missed
<1>12. NothingSkipped'
  <2> SUFFICES ASSUME NEW e \in 1 .. LastReceived
               PROVE  e \in Ids(got) \/ e \in waived \/ e \notin Ids(history')
    BY <1>2, <1>8 DEF NothingSkipped
  <2>1. e \in 1 .. N
    BY <1>4, <1>5, <1>8, <1>10
  <2>2. e \in Ids(got) \/ Missed(e)
    BY DEF EventInv, NothingSkipped, Missed
  <2> QED
    BY <1>2, <1>11, <2>1, <2>2 DEF Missed
<1> DEFINE Streams ==
      /\ mailbox' \in Seq(Nat) /\ Len(mailbox') <= HistoryLimit
      /\ ~closed => Numbered(mailbox', N + 1)
      /\ Ascending(mailbox')
      /\ \A e \in Ids(mailbox') : lastTaken < e /\ e <= N + 1
      /\ phase' \in [Conns -> Phases] /\ frame' \in [Conns -> Nat]
      /\ \A c \in Conns : (phase'[c] = "idle" <=> phase[c] = "idle") /\ StreamAt(c)' /\ TakenAt(c)'
      /\ UntakenInv'
<1>13. ASSUME Streams PROVE EventInv'
  <2>1. TypeEvents'
    BY <1>2, <1>4, <1>6, <1>13 DEF EventInv, TypeEvents
  <2>2. OneStream'
    BY <1>2, <1>13 DEF EventInv, OneStream
  <2>3. QueueInv'
    BY <1>2, <1>4, <1>6, <1>13 DEF QueueInv
  <2>4. StreamInv' /\ TakenInv'
    BY <1>13 DEF StreamInv, TakenInv
  <2> QED
    BY <1>9, <1>12, <1>13, <2>1, <2>2, <2>3, <2>4 DEF EventInv
<1>14. CASE closed
  <2>1. UNCHANGED <<mailbox, phase, frame>>
    BY <1>3, <1>14
  <2>2. ASSUME NEW c \in Conns PROVE StreamAt(c)' /\ TakenAt(c)'
    <3>1. StreamAt(c) /\ TakenAt(c) /\ frame[c] \in Nat
      BY DEF EventInv, StreamInv, TakenInv, TypeEvents
    <3>2. StreamAt(c)'
      BY <1>2, <1>4, <1>8, <2>1, <3>1 DEF StreamAt, N
    <3>3. TakenAt(c)'
      <4> SUFFICES ASSUME alive[c], phase[c] # "idle", NEW e \in (LastReceived + 1) .. lastTaken
                   PROVE  \/ Missed(e)'
                          \/ phase[c] = "writing" /\ frame[c] = e
                          \/ e \in Ids(replay[c])
        BY <1>2, <1>8, <2>1 DEF TakenAt
      <4>1. e \in 1 .. N
        BY <1>4, <1>5, <1>8, <1>10
      <4>2. Missed(e) \/ (phase[c] = "writing" /\ frame[c] = e) \/ e \in Ids(replay[c])
        BY <3>1, Zenon DEF TakenAt
      <4> QED
        BY <1>11, <4>1, <4>2
    <3> QED
      BY <3>2, <3>3
  <2>3. UntakenInv'
    <3> SUFFICES ASSUME NEW e \in (lastTaken + 1) .. (N + 1)
                 PROVE  \/ e \in Ids(mailbox) \cup Handed
                        \/ e \notin Ids(history')
                        \/ \A x \in Ids(mailbox) \cup Handed : x < e
      BY <1>2, <1>4, <1>14, <2>1 DEF UntakenInv, Handed
    <3>1. CASE e = N + 1
      <4>1. \A x \in Ids(mailbox) : x <= N
        BY DEF EventInv, QueueInv, N
      <4>2. \A x \in Handed : x <= N
        BY DEF EventInv, StreamInv, StreamAt, Handed, N
      <4>3. Ids(mailbox) \subseteq Nat /\ Handed \subseteq Nat
        BY DEF EventInv, TypeEvents, Handed, Ids
      <4>4. \A x \in Nat : x <= N => x < N + 1
        BY <1>4
      <4> QED
        BY <3>1, <4>1, <4>2, <4>3, <4>4, Zenon
    <3>2. CASE e # N + 1
      <4>1. e \in (lastTaken + 1) .. N
        BY <1>4, <1>5, <3>2
      <4>2. e \notin Ids(history) => e \notin Ids(history')
        BY <1>6, <3>2
      <4> QED
        BY <4>1, <4>2 DEF EventInv, UntakenInv, N
    <3> QED
      BY <3>1, <3>2
  <2>4. \A e \in Ids(mailbox) : lastTaken < e /\ e <= N + 1
    <3>1. \A e \in Ids(mailbox) : e \in Nat /\ lastTaken < e /\ e <= N
      BY DEF EventInv, TypeEvents, QueueInv, Ids, N
    <3> QED
      BY <1>4, <3>1
  <2> QED
    BY <1>5, <1>13, <1>14, <2>1, <2>2, <2>3, <2>4 DEF EventInv, TypeEvents
<1>15. CASE ~closed /\ Waiting # {}
  <2>1. PICK c \in Waiting : phase' = [phase EXCEPT ![c] = "handed"] /\ frame' = [frame EXCEPT ![c] = N + 1]
    BY <1>3, <1>15 DEF Enqueue
  <2>2. c \in Conns /\ phase[c] = "waiting" /\ mailbox' = mailbox
    BY <1>3, <1>15, <2>1 DEF Enqueue, Waiting
  <2>3. mailbox = <<>> /\ replay[c] = <<>>
    BY <2>2 DEF EventInv, StreamInv, StreamAt
  <2>4. Ids(<<>>) = {} /\ Ascending(<<>>) /\ Numbered(<<>>, N + 1) /\ Len(<<>>) <= HistoryLimit
    BY SessionAssumption DEF Ids, Ascending, Numbered
  <2>5. \A d \in Conns : d # c => phase[d] = "idle" /\ replay[d] = <<>>
    BY <2>2, OthersIdle DEF EventInv
  <2>6. attached
    BY <2>2, OthersIdle DEF EventInv
  <2>7. /\ phase' \in [Conns -> Phases] /\ frame' \in [Conns -> Nat]
        /\ phase'[c] = "handed" /\ frame'[c] = N + 1
        /\ \A d \in Conns : d # c => phase'[d] = "idle" /\ replay'[d] = <<>>
    BY <1>2, <1>4, <2>1, <2>2, <2>5 DEF EventInv, TypeEvents, Phases
  <2>8. StreamAt(c)'
    BY <1>2, <1>4, <1>5, <1>8, <2>2, <2>3, <2>4, <2>7 DEF StreamAt
  <2>9. TakenAt(c)'
    <3> SUFFICES ASSUME alive[c], NEW e \in (LastReceived + 1) .. lastTaken
                 PROVE  Missed(e)'
      BY <1>2, <1>8, <2>7 DEF TakenAt
    <3>1. e \in 1 .. N
      BY <1>4, <1>5, <1>8, <1>10
    <3>2. Missed(e)
      BY <2>2, <2>3, <2>4 DEF EventInv, TakenInv, TakenAt
    <3> QED
      BY <1>11, <3>1, <3>2
  <2>10. OneStream' /\ StreamInv' /\ TakenInv' /\ Handed' = {N + 1}
    BY <1>2, <2>2, <2>6, <2>7, <2>8, <2>9, OnlyTheStream
  <2>11. UntakenInv'
    <3> SUFFICES ASSUME NEW e \in (lastTaken + 1) .. (N + 1), e # N + 1
                 PROVE  e \notin Ids(history')
      BY <1>2, <1>4, <2>10 DEF UntakenInv
    <3>1. e \in (lastTaken + 1) .. N
      BY <1>4, <1>5
    <3>2. Handed = {}
      BY <2>2, OthersIdle DEF EventInv
    <3>3. e \notin Ids(history)
      BY <1>15, <2>3, <2>4, <3>1, <3>2 DEF EventInv, UntakenInv, N
    <3> QED
      BY <1>6, <3>3
  <2> QED
    BY <1>5, <1>13, <2>2, <2>3, <2>4, <2>5, <2>7, <2>10, <2>11 DEF StreamInv, TakenInv
<1>16. CASE ~closed /\ Waiting = {}
  <2>1. mailbox' = LastN(Append(mailbox, N + 1), HistoryLimit) /\ UNCHANGED <<phase, frame>>
    BY <1>3, <1>16 DEF Enqueue
  <2>2. Numbered(mailbox, N)
    BY <1>16 DEF EventInv, QueueInv, N
  <2>3. /\ mailbox' \in Seq(Nat) /\ Len(mailbox') <= HistoryLimit
        /\ Numbered(mailbox', N + 1)
        /\ Ids(mailbox') \subseteq Ids(mailbox) \cup {N + 1}
        /\ N + 1 \in Ids(mailbox')
        /\ \A x \in Ids(mailbox) : x \in Ids(mailbox') \/ x = N + 1 - HistoryLimit
    BY <1>4, <1>5, <2>1, <2>2, PushedIds, SessionAssumption
  <2>4. Ascending(mailbox')
    BY <1>4, <2>3, NumberedIds
  <2>5. \A e \in Ids(mailbox) : e \in Nat /\ lastTaken < e /\ e <= N
    BY DEF EventInv, TypeEvents, QueueInv, Ids, N
  <2>6. \A e \in Ids(mailbox') : lastTaken < e /\ e <= N + 1
    BY <1>4, <1>5, <1>8, <2>3, <2>5
  <2>7. ASSUME NEW c \in Conns PROVE StreamAt(c)' /\ TakenAt(c)'
    <3>1. StreamAt(c) /\ TakenAt(c) /\ frame[c] \in Nat /\ phase[c] # "waiting"
      BY <1>16 DEF EventInv, StreamInv, TakenInv, TypeEvents, Waiting
    <3>2. phase[c] = "handed" => \A e \in Ids(mailbox') : frame[c] < e
      BY <1>4, <2>3, <3>1 DEF StreamAt, N
    <3>3. StreamAt(c)'
      BY <1>2, <1>4, <1>8, <2>1, <3>1, <3>2 DEF StreamAt, N
    <3>4. TakenAt(c)'
      <4> SUFFICES ASSUME alive[c], phase[c] # "idle", NEW e \in (LastReceived + 1) .. lastTaken
                   PROVE  \/ Missed(e)'
                          \/ phase[c] = "writing" /\ frame[c] = e
                          \/ e \in Ids(replay[c])
        BY <1>2, <1>8, <2>1 DEF TakenAt
      <4>1. e \in 1 .. N
        BY <1>4, <1>5, <1>8, <1>10
      <4>2. Missed(e) \/ (phase[c] = "writing" /\ frame[c] = e) \/ e \in Ids(replay[c])
        BY <3>1, Zenon DEF TakenAt
      <4> QED
        BY <1>11, <4>1, <4>2
    <3> QED
      BY <3>3, <3>4
  <2>8. UntakenInv'
    <3>1. Handed' = Handed
      BY <2>1 DEF Handed
    <3> SUFFICES ASSUME NEW e \in (lastTaken + 1) .. (N + 1), e # N + 1
                 PROVE  e \in Ids(mailbox') \cup Handed \/ e \notin Ids(history')
      BY <1>2, <1>4, <2>3, <3>1 DEF UntakenInv
    <3>2. e \in (lastTaken + 1) .. N
      BY <1>4, <1>5
    <3>3. e \in Ids(mailbox) \cup Handed \/ e \notin Ids(history)
      BY <1>16, <3>2 DEF EventInv, UntakenInv, N
    <3>4. e \notin Ids(history) => e \notin Ids(history')
      BY <1>6
    <3>5. e \in Ids(mailbox) => e \in Ids(mailbox') \/ e \notin Ids(history')
      <4> SUFFICES ASSUME e \in Ids(mailbox), e \notin Ids(mailbox'), e \in Ids(history') PROVE FALSE
        OBVIOUS
      <4>1. e = N + 1 - HistoryLimit
        BY <2>3
      <4>2. N + 1 - HistoryLimit < e
        BY <1>7
      <4> QED
        BY <1>4, <4>1, <4>2, SessionAssumption
    <3> QED
      BY <3>3, <3>4, <3>5
  <2> QED
    BY <1>13, <2>1, <2>3, <2>4, <2>6, <2>7, <2>8 DEF EventInv, TypeEvents
<1> QED
  BY <1>14, <1>15, <1>16

-----------------------------------------------------------------------------
(* The mailbox may be closed and the waiting stream be dismissed.          *)
LEMMA CloseKeeps ==
  ASSUME EventInv, CloseStep
  PROVE  EventInv'
<1>1. UNCHANGED <<content, history, mailbox, lastTaken, attached, replay, frame, alive, got, waived>>
  BY DEF CloseStep, clientVars
<1>2. /\ closed \in BOOLEAN /\ closed' \in BOOLEAN /\ (closed => closed')
  <2>1. closed \in BOOLEAN
    BY DEF EventInv, TypeEvents
  <2>2. closed' = closed \/ closed' = TRUE
    BY DEF CloseStep
  <2> QED
    BY <2>1, <2>2, Zenon
<1>3. /\ phase \in [Conns -> Phases] /\ phase' \in [Conns -> Phases]
      /\ \A c \in Conns : phase'[c] = phase[c] \/ (phase[c] = "waiting" /\ phase'[c] = "over")
  BY DEF CloseStep, DismissStream, EventInv, TypeEvents, Phases
<1>4. \A c \in Conns : /\ phase'[c] = "idle" <=> phase[c] = "idle"
                       /\ phase'[c] = "handed" <=> phase[c] = "handed"
                       /\ phase'[c] = "writing" <=> phase[c] = "writing"
  BY <1>3
<1>5. LastReceived' = LastReceived
  BY <1>1 DEF LastReceived
<1>6. TypeEvents'
  BY <1>1, <1>2, <1>3 DEF EventInv, TypeEvents
<1>7. OneStream'
  BY <1>1, <1>4 DEF EventInv, OneStream
<1>8. QueueInv' /\ ReceivedInv' /\ NothingSkipped'
  BY <1>1, <1>2, <1>5 DEF EventInv, QueueInv, ReceivedInv, NothingSkipped
<1>9. StreamInv'
  <2> SUFFICES ASSUME NEW c \in Conns PROVE StreamAt(c)'
    BY DEF StreamInv
  <2>1. StreamAt(c)
    BY DEF EventInv, StreamInv
  <2> QED
    BY <1>1, <1>3, <1>4, <1>5, <2>1 DEF StreamAt
<1>10. TakenInv'
  <2> SUFFICES ASSUME NEW c \in Conns PROVE TakenAt(c)'
    BY DEF TakenInv
  <2>1. TakenAt(c)
    BY DEF EventInv, TakenInv
  <2> QED
    BY <1>1, <1>4, <1>5, <2>1 DEF TakenAt, Missed
<1>11. UntakenInv'
  <2>1. Handed' = Handed
    BY <1>1, <1>4 DEF Handed
  <2> QED
    BY <1>1, <1>2, <2>1 DEF EventInv, UntakenInv
<1> QED
  BY <1>6, <1>7, <1>8, <1>9, <1>10, <1>11 DEF EventInv

(* A client attaches a stream, and is sent again what it missed, or does   *)
(* without it.                                                             *)
LEMMA GetKeeps ==
  ASSUME EventInv, NEW c \in Conns, Get(c)
  PROVE  EventInv'
<1>1. /\ phase[c] = "idle" /\ ~attached /\ attached' = TRUE
      /\ phase' = [phase EXCEPT ![c] = "produce"]
      /\ alive' = [alive EXCEPT ![c] = TRUE]
      /\ UNCHANGED <<content, history, mailbox, closed, lastTaken, frame, got>>
  BY DEF Get, MayAttach, eventVars
<1>2. \A d \in Conns : phase[d] = "idle" /\ replay[d] = <<>>
  <2>1. \A d \in Conns : phase[d] = "idle"
    BY <1>1 DEF EventInv, OneStream
  <2> QED
    BY <2>1 DEF EventInv, StreamInv, StreamAt
<1>3. LastReceived' = LastReceived /\ LastReceived \in Nat /\ lastTaken \in Nat
      /\ LastReceived <= lastTaken /\ lastTaken <= Len(content)
  BY <1>1, EmptySeq DEF LastReceived, Last, NoEvent, EventInv, TypeEvents, ReceivedInv
<1>4. \E again \in Seq(Nat) :
        /\ replay' = [replay EXCEPT ![c] = again]
        /\ Ascending(again)
        /\ \A e \in Ids(again) : LastReceived < e /\ e <= lastTaken
        /\ waived' = waived \/ waived' = waived \cup 1 .. lastTaken
        /\ \A e \in (LastReceived + 1) .. lastTaken : Missed(e)' \/ e \in Ids(again)
  <2>1. CASE replay' = [replay EXCEPT ![c] = ReplayAfter(LastReceived)] /\ UNCHANGED waived
    <3> DEFINE again == Between(LastReceived + 1, lastTaken)
               first == Len(content) - Len(history)
    <3>1. /\ history \in Seq(Nat) /\ first \in Nat
          /\ \A i \in 1 .. Len(history) : history[i] = first + i
      BY DEF EventInv, TypeEvents, QueueInv, Numbered
    <3>2. LastReceived + 1 \in Nat
      BY <1>3
    <3> HIDE DEF first
    <3>3. /\ again \in Seq(Nat) /\ Ascending(again)
          /\ \A e \in Ids(again) : LastReceived + 1 <= e /\ e <= lastTaken
          /\ \A e \in (LastReceived + 1) .. lastTaken : e \in Ids(history) => e \in Ids(again)
      BY <1>3, <3>1, <3>2, BetweenIds
    <3>4. \A e \in Ids(again) : e \in Nat
      BY <3>3 DEF Ids
    <3>5. replay' = [replay EXCEPT ![c] = again]
      BY <2>1 DEF ReplayAfter
    <3> HIDE DEF again
    <3>6. \A e \in Ids(again) : LastReceived < e /\ e <= lastTaken
      BY <1>3, <3>3, <3>4
    <3>7. \A e \in (LastReceived + 1) .. lastTaken : Missed(e)' \/ e \in Ids(again)
      BY <1>1, <3>3 DEF Missed
    <3> QED
      BY <2>1, <3>3, <3>5, <3>6, <3>7
  <2>2. CASE replay' = [replay EXCEPT ![c] = <<>>] /\ waived' = waived \cup 1 .. lastTaken
    <3>1. Ids(<<>>) = {} /\ Ascending(<<>>) /\ <<>> \in Seq(Nat)
      BY DEF Ids, Ascending
    <3>2. \A e \in (LastReceived + 1) .. lastTaken : Missed(e)'
      BY <1>3, <2>2 DEF Missed
    <3> QED
      BY <2>2, <3>1, <3>2
  <2> QED
    BY <2>1, <2>2 DEF Get
<1>5. PICK again \in Seq(Nat) :
        /\ replay' = [replay EXCEPT ![c] = again]
        /\ Ascending(again)
        /\ \A e \in Ids(again) : LastReceived < e /\ e <= lastTaken
        /\ waived' = waived \/ waived' = waived \cup 1 .. lastTaken
        /\ \A e \in (LastReceived + 1) .. lastTaken : Missed(e)' \/ e \in Ids(again)
  BY <1>4
<1>6. TypeEvents'
  <2>1. phase' \in [Conns -> Phases] /\ alive' \in [Conns -> BOOLEAN] /\ replay' \in [Conns -> Seq(Nat)]
    BY <1>1, <1>5 DEF EventInv, TypeEvents, Phases
  <2>2. waived' \subseteq Nat
    <3>1. 1 .. lastTaken \subseteq Nat /\ waived \subseteq Nat
      BY <1>3 DEF EventInv, TypeEvents
    <3> QED
      BY <1>5, <3>1
  <2> QED
    BY <1>1, <2>1, <2>2 DEF EventInv, TypeEvents
<1>7. /\ phase'[c] = "produce" /\ alive'[c] = TRUE /\ replay'[c] = again
      /\ \A d \in Conns : d # c => phase'[d] = "idle" /\ replay'[d] = <<>>
  BY <1>1, <1>2, <1>5 DEF EventInv, TypeEvents
<1>8. StreamAt(c)'
  BY <1>1, <1>3, <1>5, <1>7 DEF StreamAt
<1>9. TakenAt(c)'
  BY <1>1, <1>3, <1>5, <1>7 DEF TakenAt
<1>10. OneStream' /\ StreamInv' /\ TakenInv' /\ Handed' = {}
  BY <1>1, <1>7, <1>8, <1>9, OnlyTheStream
<1>11. Handed = {}
  BY <1>2 DEF Handed
<1>12. QueueInv' /\ ReceivedInv' /\ UntakenInv'
  BY <1>1, <1>3, <1>10, <1>11 DEF EventInv, QueueInv, ReceivedInv, UntakenInv
<1>13. NothingSkipped'
  BY <1>1, <1>3, <1>5 DEF EventInv, NothingSkipped
<1> QED
  BY <1>6, <1>10, <1>12, <1>13 DEF EventInv

-----------------------------------------------------------------------------
(* The steps of the stream itself.  One that takes no event and gives none *)
(* to the client need only be looked at on its own connection.             *)
LEMMA QuietKeeps ==
  ASSUME EventInv, NEW c \in Conns, phase[c] # "idle",
         UNCHANGED <<content, history, closed, lastTaken, attached, got, waived>>,
         NEW p \in Phases \ {"idle"}, NEW f \in Nat, NEW r \in Seq(Nat), NEW a \in BOOLEAN,
         phase' = [phase EXCEPT ![c] = p], frame' = [frame EXCEPT ![c] = f],
         replay' = [replay EXCEPT ![c] = r], alive' = [alive EXCEPT ![c] = a],
         StreamAt(c)', TakenAt(c)',
         \/ UNCHANGED mailbox /\ (p = "handed" <=> phase[c] = "handed") /\ (p = "handed" => f = frame[c])
         \/ /\ mailbox # <<>> /\ mailbox' = Tail(mailbox)
            /\ phase[c] # "handed" /\ p = "handed" /\ f = Head(mailbox)
  PROVE  EventInv'
<1>1. /\ phase \in [Conns -> Phases] /\ frame \in [Conns -> Nat] /\ replay \in [Conns -> Seq(Nat)]
      /\ alive \in [Conns -> BOOLEAN] /\ mailbox \in Seq(Nat)
  BY DEF EventInv, TypeEvents
<1>2. \A d \in Conns : d # c => phase[d] = "idle" /\ replay[d] = <<>>
  BY OthersIdle DEF EventInv
<1>3. attached /\ Handed = IF phase[c] = "handed" THEN {frame[c]} ELSE {}
  BY OthersIdle DEF EventInv
<1>4. phase'[c] = p /\ frame'[c] = f /\ replay'[c] = r
  BY <1>1
<1>5. \A d \in Conns : d # c => phase'[d] = "idle" /\ replay'[d] = <<>>
  BY <1>1, <1>2
<1>6. OneStream' /\ StreamInv' /\ TakenInv' /\ Handed' = IF p = "handed" THEN {f} ELSE {}
  BY <1>3, <1>4, <1>5, OnlyTheStream
<1>7. LastReceived' = LastReceived
  BY DEF LastReceived
<1>8. ReceivedInv' /\ NothingSkipped'
  BY <1>7 DEF EventInv, ReceivedInv, NothingSkipped
<1>9. /\ mailbox' \in Seq(Nat) /\ Len(mailbox') <= HistoryLimit
      /\ ~closed => Numbered(mailbox', Len(content))
      /\ Ascending(mailbox')
      /\ \A e \in Ids(mailbox') : lastTaken < e /\ e <= Len(content)
      /\ Ids(mailbox') \cup Handed' = Ids(mailbox) \cup Handed
  <2>1. CASE UNCHANGED mailbox /\ (p = "handed" <=> phase[c] = "handed") /\ (p = "handed" => f = frame[c])
    BY <1>1, <1>3, <1>6, <2>1 DEF EventInv, QueueInv
  <2>2. CASE /\ mailbox # <<>> /\ mailbox' = Tail(mailbox)
             /\ phase[c] # "handed" /\ p = "handed" /\ f = Head(mailbox)
    <3> DEFINE n == Len(mailbox)
    <3>1. /\ Tail(mailbox) \in Seq(Nat) /\ Len(Tail(mailbox)) = n - 1
          /\ \A i \in 1 .. n - 1 : Tail(mailbox)[i] = mailbox[i + 1]
          /\ Ids(mailbox) = Ids(Tail(mailbox)) \cup {Head(mailbox)}
          /\ Ascending(mailbox) => Ascending(Tail(mailbox))
      BY <1>1, <2>2, TailIds
    <3>2. n \in Nat /\ DOMAIN mailbox = 1 .. n /\ n <= HistoryLimit
      BY <1>1 DEF EventInv, QueueInv
    <3>3. mailbox' \in Seq(Nat) /\ Len(mailbox') = n - 1 /\ DOMAIN mailbox' = 1 .. n - 1
      <4>1. mailbox' \in Seq(Nat) /\ Len(mailbox') = n - 1
        BY <2>2, <3>1
      <4> HIDE DEF n
      <4> QED
        BY <4>1, LenProperties
    <3>4. Ascending(mailbox') /\ \A e \in Ids(mailbox') : lastTaken < e /\ e <= Len(content)
      BY <2>2, <3>1 DEF EventInv, QueueInv
    <3>5. Ids(mailbox') \cup Handed' = Ids(mailbox) \cup Handed
      BY <1>3, <1>6, <2>2, <3>1
    <3>6. ASSUME ~closed PROVE Numbered(mailbox', Len(content))
      <4> DEFINE N == Len(content)
      <4>1. N \in Nat
        BY DEF EventInv, TypeEvents
      <4>2. \A i \in 1 .. n : mailbox[i] = N - n + i
        BY <3>2, <3>6 DEF EventInv, QueueInv, Numbered
      <4> HIDE DEF n, N
      <4>3. \A i \in 1 .. n - 1 : mailbox'[i] = N - (n - 1) + i
        BY <2>2, <3>1, <3>2, <4>1, <4>2
      <4> QED
        BY <3>3, <4>3 DEF Numbered, N
    <3> HIDE DEF n
    <3>7. Len(mailbox') <= HistoryLimit
      BY <3>2, <3>3, SessionAssumption
    <3> QED
      BY <2>2, <3>1, <3>4, <3>5, <3>6, <3>7
  <2> QED
    BY <2>1, <2>2
<1>10. QueueInv'
  BY <1>9 DEF EventInv, QueueInv
<1>11. UntakenInv'
  BY <1>9 DEF EventInv, UntakenInv
<1>12. TypeEvents'
  BY <1>1, <1>9 DEF EventInv, TypeEvents
<1> QED
  BY <1>6, <1>8, <1>10, <1>11, <1>12 DEF EventInv

(* The stream's next frame comes from the replay or from the mailbox, or it*)
(* waits for one.                                                          *)
LEMMA ProduceKeeps ==
  ASSUME EventInv, NEW c \in Conns, Produce(c)
  PROVE  EventInv'
<1>1. /\ phase[c] = "produce"
      /\ UNCHANGED <<content, history, closed, lastTaken, attached, alive, got, waived>>
  BY DEF Produce, clientVars
<1>2. StreamAt(c) /\ TakenAt(c)
  BY DEF EventInv, StreamInv, TakenInv
<1>3. /\ phase \in [Conns -> Phases] /\ frame \in [Conns -> Nat] /\ replay \in [Conns -> Seq(Nat)]
      /\ alive \in [Conns -> BOOLEAN] /\ mailbox \in Seq(Nat)
  BY DEF EventInv, TypeEvents
<1>4. /\ frame[c] \in Nat /\ replay[c] \in Seq(Nat) /\ alive[c] \in BOOLEAN
      /\ frame = [frame EXCEPT ![c] = frame[c]] /\ replay = [replay EXCEPT ![c] = replay[c]]
      /\ alive = [alive EXCEPT ![c] = alive[c]]
  BY <1>3
<1>5. LastReceived' = LastReceived
  BY <1>1 DEF LastReceived
<1>6. CASE /\ replay[c] # <<>>
           /\ phase' = [phase EXCEPT ![c] = "writing"]
           /\ frame' = [frame EXCEPT ![c] = Head(replay[c])]
           /\ replay' = [replay EXCEPT ![c] = Tail(@)]
           /\ UNCHANGED mailbox
  <2> DEFINE h == Head(replay[c])
             t == Tail(replay[c])
  <2>1. /\ h \in Nat /\ t \in Seq(Nat) /\ Ids(replay[c]) = Ids(t) \cup {h}
        /\ Ascending(t) /\ \A x \in Ids(t) : h < x
    BY <1>2, <1>4, <1>6, TailIds DEF StreamAt
  <2>2. frame' = [frame EXCEPT ![c] = h] /\ replay' = [replay EXCEPT ![c] = t]
    BY <1>3, <1>6
  <2> HIDE DEF h, t
  <2>3. phase'[c] = "writing" /\ frame'[c] = h /\ replay'[c] = t
    BY <1>3, <1>6, <2>2
  <2>4. StreamAt(c)'
    BY <1>1, <1>2, <1>5, <2>1, <2>3 DEF StreamAt
  <2>5. TakenAt(c)'
    BY <1>1, <1>2, <1>5, <2>1, <2>3 DEF TakenAt, Missed
  <2>6. "writing" \in Phases \ {"idle"} /\ phase[c] # "idle" /\ phase[c] # "handed"
    BY <1>1 DEF Phases
  <2> QED
    BY <1>1, <1>4, <1>6, <2>1, <2>2, <2>4, <2>5, <2>6, QuietKeeps
<1>7. CASE /\ replay[c] = <<>> /\ mailbox # <<>>
           /\ phase' = [phase EXCEPT ![c] = "handed"]
           /\ frame' = [frame EXCEPT ![c] = Head(mailbox)]
           /\ mailbox' = Tail(mailbox)
           /\ UNCHANGED replay
  <2> DEFINE h == Head(mailbox)
  <2>1. /\ h \in Nat /\ Ids(mailbox) = Ids(mailbox') \cup {h}
        /\ \A x \in Ids(mailbox') : h < x
    BY <1>3, <1>7, TailIds DEF EventInv, QueueInv
  <2>2. lastTaken < h /\ h <= Len(content)
    BY <2>1 DEF EventInv, QueueInv
  <2>3. phase'[c] = "handed" /\ frame'[c] = h /\ replay'[c] = <<>>
    BY <1>3, <1>7
  <2>4. Ids(<<>>) = {} /\ Ascending(<<>>)
    BY DEF Ids, Ascending
  <2>5. frame' = [frame EXCEPT ![c] = h]
    BY <1>7
  <2> HIDE DEF h
  <2>6. StreamAt(c)'
    BY <1>1, <1>5, <2>1, <2>2, <2>3, <2>4 DEF StreamAt
  <2>7. TakenAt(c)'
    BY <1>1, <1>2, <1>5, <1>7, <2>3 DEF TakenAt, Missed
  <2>8. "handed" \in Phases \ {"idle"} /\ phase[c] # "idle" /\ phase[c] # "handed"
    BY <1>1 DEF Phases
  <2> QED
    BY <1>1, <1>4, <1>7, <2>1, <2>5, <2>6, <2>7, <2>8, QuietKeeps DEF h
<1>8. CASE /\ replay[c] = <<>> /\ mailbox = <<>>
           /\ phase' = [phase EXCEPT ![c] = IF closed THEN "over" ELSE "waiting"]
           /\ UNCHANGED <<frame, replay, mailbox>>
  <2> DEFINE p == IF closed THEN "over" ELSE "waiting"
  <2>1. p \in Phases \ {"idle", "handed"} /\ p # "writing" /\ phase' = [phase EXCEPT ![c] = p]
    BY <1>8 DEF Phases
  <2> HIDE DEF p
  <2>2. phase'[c] = p
    BY <1>3, <2>1
  <2>3. StreamAt(c)'
    BY <1>1, <1>2, <1>5, <1>8, <2>1, <2>2 DEF StreamAt
  <2>4. TakenAt(c)'
    BY <1>1, <1>2, <1>5, <1>8, <2>2 DEF TakenAt, Missed
  <2>5. p # "handed" /\ phase[c] # "handed" /\ phase[c] # "idle" /\ p \in Phases \ {"idle"}
    BY <1>1, <2>1
  <2>6. /\ frame' = [frame EXCEPT ![c] = frame[c]] /\ replay' = [replay EXCEPT ![c] = replay[c]]
        /\ alive' = [alive EXCEPT ![c] = alive[c]] /\ UNCHANGED mailbox
    BY <1>1, <1>4, <1>8
  <2> QED
    BY <1>1, <1>4, <2>1, <2>3, <2>4, <2>5, <2>6, QuietKeeps
<1> QED
  BY <1>6, <1>7, <1>8 DEF Produce

(* A wait that its timer or the shutdown ends, and the comment that then   *)
(* may be written, carry no event.                                         *)
LEMMA WaitEndsKeeps ==
  ASSUME EventInv, NEW c \in Conns, Keepalive(c) \/ KeepaliveResume(c) \/ StreamCancelled(c)
  PROVE  EventInv'
<1>1. /\ phase[c] \in {"waiting", "expired"}
      /\ UNCHANGED <<content, history, mailbox, closed, lastTaken, attached, replay, alive, got, waived>>
  BY DEF Keepalive, KeepaliveResume, StreamCancelled, eventVars, clientVars
<1>2. StreamAt(c) /\ TakenAt(c)
  BY DEF EventInv, StreamInv, TakenInv
<1>3. /\ phase \in [Conns -> Phases] /\ frame \in [Conns -> Nat] /\ replay \in [Conns -> Seq(Nat)]
      /\ alive \in [Conns -> BOOLEAN] /\ mailbox \in Seq(Nat)
  BY DEF EventInv, TypeEvents
<1>4. /\ replay[c] \in Seq(Nat) /\ alive[c] \in BOOLEAN
      /\ replay' = [replay EXCEPT ![c] = replay[c]] /\ alive' = [alive EXCEPT ![c] = alive[c]]
  BY <1>1, <1>3
<1>5. LastReceived' = LastReceived
  BY <1>1 DEF LastReceived
<1>6. \E p \in {"expired", "over", "writing"}, f \in Nat :
        /\ phase' = [phase EXCEPT ![c] = p] /\ frame' = [frame EXCEPT ![c] = f]
        /\ p = "writing" => f = NoEvent
  <2>1. frame[c] \in Nat /\ frame = [frame EXCEPT ![c] = frame[c]] /\ NoEvent \in Nat
    BY <1>3 DEF NoEvent
  <2>2. CASE Keepalive(c) \/ StreamCancelled(c)
    <3>1. UNCHANGED frame
      BY <2>2 DEF Keepalive, StreamCancelled
    <3> QED
      BY <2>1, <2>2, <3>1 DEF Keepalive, StreamCancelled
  <2>3. CASE KeepaliveResume(c)
    BY <2>1, <2>3 DEF KeepaliveResume
  <2> QED
    BY <2>2, <2>3
<1>7. PICK p \in {"expired", "over", "writing"}, f \in Nat :
        /\ phase' = [phase EXCEPT ![c] = p] /\ frame' = [frame EXCEPT ![c] = f]
        /\ p = "writing" => f = NoEvent
  BY <1>6
<1>8. phase'[c] = p /\ frame'[c] = f
  BY <1>3, <1>7
<1>9. replay[c] = <<>> /\ phase[c] # "handed" /\ phase[c] # "idle" /\ phase[c] # "writing"
  BY <1>1, <1>2 DEF StreamAt
<1>10. StreamAt(c)'
  BY <1>1, <1>2, <1>5, <1>7, <1>8, <1>9 DEF StreamAt
<1>11. TakenAt(c)'
  BY <1>1, <1>2, <1>5, <1>8, <1>9 DEF TakenAt, Missed
<1>12. p \in Phases \ {"idle"} /\ p # "handed"
  BY <1>7 DEF Phases
<1> QED
  BY <1>1, <1>4, <1>7, <1>9, <1>10, <1>11, <1>12, QuietKeeps

(* The stream takes the event it was handed.                               *)
LEMMA TakeKeeps ==
  ASSUME EventInv, NEW c \in Conns, Take(c)
  PROVE  EventInv'
<1>1. /\ phase[c] = "handed" /\ lastTaken' = frame[c]
      /\ phase' = [phase EXCEPT ![c] = "writing"]
      /\ UNCHANGED <<content, history, mailbox, closed, attached, replay, frame, alive, got, waived>>
  BY DEF Take, Mark, eventVars, clientVars
<1>2. StreamAt(c) /\ TakenAt(c)
  BY DEF EventInv, StreamInv, TakenInv
<1>3. /\ phase \in [Conns -> Phases] /\ frame \in [Conns -> Nat] /\ lastTaken \in Nat
      /\ content \in Seq(Contents)
  BY DEF EventInv, TypeEvents
<1>4. /\ frame[c] \in Nat /\ lastTaken < frame[c] /\ frame[c] <= Len(content) /\ replay[c] = <<>>
      /\ \A e \in Ids(mailbox) : frame[c] < e
  BY <1>1, <1>2, <1>3 DEF StreamAt
<1>5. LastReceived' = LastReceived /\ LastReceived \in Nat /\ LastReceived <= lastTaken
  BY <1>1, EmptySeq DEF LastReceived, Last, NoEvent, EventInv, TypeEvents, ReceivedInv
<1>6. /\ attached /\ Handed = {frame[c]}
      /\ \A d \in Conns : d # c => phase[d] = "idle" /\ replay[d] = <<>>
  BY <1>1, OthersIdle DEF EventInv
<1>7. /\ phase'[c] = "writing" /\ frame'[c] = frame[c] /\ replay'[c] = <<>>
      /\ \A d \in Conns : d # c => phase'[d] = "idle" /\ replay'[d] = <<>>
  BY <1>1, <1>3, <1>4, <1>6
<1>8. Ids(<<>>) = {} /\ Ascending(<<>>)
  BY DEF Ids, Ascending
<1>9. StreamAt(c)'
  BY <1>1, <1>3, <1>4, <1>5, <1>7, <1>8 DEF StreamAt
<1>10. Len(content) \in Nat
  BY <1>3
<1>11. \A e \in (lastTaken + 1) .. frame[c] : e = frame[c] \/ e \notin Ids(history)
  <2> SUFFICES ASSUME NEW e \in (lastTaken + 1) .. frame[c], e # frame[c]
               PROVE  e \notin Ids(history)
    OBVIOUS
  <2>1. e \in (lastTaken + 1) .. Len(content) /\ e < frame[c]
    BY <1>3, <1>4, <1>10
  <2>2. e \notin Ids(mailbox) \cup Handed
    <3>1. e \notin Ids(mailbox)
      <4> SUFFICES ASSUME e \in Ids(mailbox) PROVE FALSE
        OBVIOUS
      <4>1. frame[c] < e
        BY <1>4
      <4> QED
        BY <1>4, <2>1, <4>1
    <3> QED
      BY <1>6, <3>1
  <2>3. ~\A x \in Ids(mailbox) \cup Handed : x < e
    <3> SUFFICES ASSUME frame[c] < e PROVE FALSE
      BY <1>6
    <3> QED
      BY <1>4, <2>1
  <2> QED
    BY <2>1, <2>2, <2>3 DEF EventInv, UntakenInv
<1>12. TakenAt(c)'
  <2> SUFFICES ASSUME alive[c], NEW e \in (LastReceived + 1) .. frame[c], e # frame[c]
               PROVE  Missed(e)
    BY <1>1, <1>5, <1>7 DEF TakenAt, Missed
  <2>1. CASE e <= lastTaken
    <3>1. e \in (LastReceived + 1) .. lastTaken
      BY <1>3, <1>4, <1>5, <2>1
    <3> QED
      BY <1>1, <1>2, <1>4, <1>8, <3>1 DEF TakenAt
  <2>2. CASE ~(e <= lastTaken)
    <3>1. e \in (lastTaken + 1) .. frame[c]
      BY <1>3, <1>4, <1>5, <2>2
    <3> QED
      BY <1>11, <3>1 DEF Missed
  <2> QED
    BY <2>1, <2>2
<1>13. OneStream' /\ StreamInv' /\ TakenInv' /\ Handed' = {}
  BY <1>1, <1>6, <1>7, <1>9, <1>12, OnlyTheStream
<1>14. TypeEvents'
  BY <1>1, <1>4 DEF EventInv, TypeEvents, Phases
<1>15. QueueInv'
  BY <1>1, <1>4 DEF EventInv, QueueInv
<1>16. ReceivedInv' /\ NothingSkipped'
  BY <1>1, <1>3, <1>4, <1>5, <1>10 DEF EventInv, ReceivedInv, NothingSkipped
<1>17. UntakenInv'
  <2> SUFFICES ASSUME NEW e \in (frame[c] + 1) .. Len(content)
               PROVE  \/ e \in Ids(mailbox)
                      \/ e \notin Ids(history)
                      \/ closed /\ \A x \in Ids(mailbox) : x < e
    BY <1>1, <1>13 DEF UntakenInv
  <2>1. e \in (lastTaken + 1) .. Len(content) /\ e # frame[c]
    BY <1>3, <1>4, <1>10
  <2> QED
    BY <1>6, <2>1 DEF EventInv, UntakenInv
<1> QED
  BY <1>13, <1>14, <1>15, <1>16, <1>17 DEF EventInv

(* The frame is written, and perhaps received.                             *)
LEMMA WriteKeeps ==
  ASSUME EventInv, NEW c \in Conns, Write(c)
  PROVE  EventInv'
<1>1. /\ phase[c] = "writing" /\ frame' = [frame EXCEPT ![c] = NoEvent]
      /\ UNCHANGED <<content, history, mailbox, closed, lastTaken, attached, replay, waived>>
  BY DEF Write, eventVars
<1>2. StreamAt(c) /\ TakenAt(c)
  BY DEF EventInv, StreamInv, TakenInv
<1>3. /\ phase \in [Conns -> Phases] /\ frame \in [Conns -> Nat] /\ replay \in [Conns -> Seq(Nat)]
      /\ alive \in [Conns -> BOOLEAN] /\ mailbox \in Seq(Nat) /\ lastTaken \in Nat /\ got \in Seq(Nat)
      /\ NoEvent \in Nat /\ frame[c] \in Nat /\ replay[c] \in Seq(Nat) /\ alive[c] \in BOOLEAN
  BY DEF EventInv, TypeEvents, NoEvent
<1>4. replay' = [replay EXCEPT ![c] = replay[c]]
  BY <1>1, <1>3
<1>5. CASE UNCHANGED got /\ (alive[c] => alive'[c] = FALSE \/ frame[c] = NoEvent)
           /\ \E p \in {"produce", "over"}, a \in BOOLEAN :
                phase' = [phase EXCEPT ![c] = p] /\ alive' = [alive EXCEPT ![c] = a] /\ (a => alive[c])
  <2>1. PICK p \in {"produce", "over"}, a \in BOOLEAN :
          phase' = [phase EXCEPT ![c] = p] /\ alive' = [alive EXCEPT ![c] = a] /\ (a => alive[c])
    BY <1>5
  <2>2. phase'[c] = p /\ frame'[c] = NoEvent /\ replay'[c] = replay[c] /\ alive'[c] = a
    BY <1>1, <1>3, <2>1
  <2>3. LastReceived' = LastReceived /\ LastReceived \in Nat
    BY <1>3, <1>5, EmptySeq DEF LastReceived, Last, NoEvent
  <2>4. StreamAt(c)'
    BY <1>1, <1>2, <2>1, <2>2, <2>3 DEF StreamAt
  <2>5. TakenAt(c)'
    <3> SUFFICES ASSUME a, NEW e \in (LastReceived + 1) .. lastTaken
                 PROVE  Missed(e) \/ e \in Ids(replay[c])
      BY <1>1, <2>2, <2>3 DEF TakenAt, Missed
    <3>1. alive[c] /\ frame[c] = NoEvent
      BY <1>5, <2>1, <2>2
    <3>2. e # frame[c]
      BY <1>3, <2>3, <3>1 DEF NoEvent
    <3> QED
      BY <1>1, <1>2, <3>1, <3>2 DEF TakenAt
  <2>6. p \in Phases \ {"idle"} /\ p # "handed" /\ phase[c] # "handed" /\ phase[c] # "idle"
    BY <1>1, <2>1 DEF Phases
  <2> QED
    BY <1>1, <1>3, <1>4, <1>5, <2>1, <2>4, <2>5, <2>6, QuietKeeps
<1>6. CASE /\ alive[c] /\ frame[c] # NoEvent
           /\ phase' = [phase EXCEPT ![c] = "produce"]
           /\ got' = Append(got, frame[c])
           /\ UNCHANGED alive
  <2>1. /\ LastReceived < frame[c] /\ frame[c] <= lastTaken
        /\ \A e \in Ids(replay[c]) : frame[c] < e /\ e <= lastTaken
        /\ replay[c] \in Seq(Nat) /\ Ascending(replay[c])
    BY <1>1, <1>2, <1>3, <1>6 DEF StreamAt
  <2>2. LastReceived \in Nat
    BY <1>3, EmptySeq DEF LastReceived, Last, NoEvent
  <2>3. \A x \in Ids(got) : x \in Nat /\ x <= LastReceived
    <3> DEFINE n == Len(got)
    <3>1. n \in Nat /\ DOMAIN got = 1 .. n /\ \A i \in 1 .. n : got[i] \in Nat
      BY <1>3
    <3>2. \A i \in 1 .. n : got # <<>>
      BY <3>1
    <3>3. got # <<>> => LastReceived = got[n]
      BY DEF LastReceived, Last
    <3>4. Ascending(got)
      BY DEF EventInv, ReceivedInv
    <3> HIDE DEF n
    <3>5. \A i \in 1 .. n : n \in 1 .. n /\ (i = n \/ i < n)
      BY <3>1
    <3>6. \A i \in 1 .. n : got[i] <= LastReceived
      BY <3>1, <3>2, <3>3, <3>4, <3>5 DEF Ascending
    <3> QED
      BY <3>1, <3>6 DEF Ids
  <2>4. /\ got' \in Seq(Nat) /\ Len(got') = Len(got) + 1 /\ got'[Len(got) + 1] = frame[c]
        /\ Ids(got') = Ids(got) \cup {frame[c]}
        /\ Ascending(got) /\ (\A x \in Ids(got) : x < frame[c]) => Ascending(got')
    BY <1>3, <1>6, AppendIds
  <2>5. \A x \in Ids(got) : x < frame[c]
    BY <1>3, <2>1, <2>2, <2>3
  <2>6. got' # <<>> /\ LastReceived' = frame[c]
    <3>1. got' # <<>> /\ Len(got') = Len(got) + 1
      BY <1>3, <1>6, <2>4
    <3> QED
      BY <2>4, <3>1 DEF LastReceived, Last
  <2>7. ReceivedInv'
    BY <1>1, <2>1, <2>4, <2>5, <2>6 DEF EventInv, ReceivedInv
  <2>8. \A e \in (LastReceived + 1) .. lastTaken : Missed(e) \/ e = frame[c] \/ e \in Ids(replay[c])
    BY <1>1, <1>2, <1>6 DEF TakenAt
  <2>9. NothingSkipped'
    <3> SUFFICES ASSUME NEW e \in 1 .. frame[c], e # frame[c]
                 PROVE  e \in Ids(got) \/ Missed(e)
      BY <1>1, <2>4, <2>6 DEF NothingSkipped, Missed
    <3>1. CASE e <= LastReceived
      <4>1. e \in 1 .. LastReceived
        BY <2>2, <3>1
      <4> QED
        BY <4>1 DEF EventInv, NothingSkipped, Missed
    <3>2. CASE ~(e <= LastReceived)
      <4>1. e \in (LastReceived + 1) .. lastTaken /\ ~(frame[c] < e)
        BY <1>3, <2>1, <2>2, <3>2
      <4>2. e \notin Ids(replay[c])
        BY <2>1, <4>1
      <4> QED
        BY <2>8, <4>1, <4>2
    <3> QED
      BY <3>1, <3>2
  <2>10. /\ phase'[c] = "produce" /\ frame'[c] = NoEvent /\ replay'[c] = replay[c]
         /\ phase' \in [Conns -> Phases] /\ frame' \in [Conns -> Nat]
    BY <1>1, <1>3, <1>6 DEF Phases
  <2>11. StreamAt(c)'
    BY <1>1, <1>2, <2>1, <2>6, <2>10 DEF StreamAt
  <2>12. TakenAt(c)'
    <3> SUFFICES ASSUME NEW e \in (frame[c] + 1) .. lastTaken
                 PROVE  Missed(e) \/ e \in Ids(replay[c])
      BY <1>1, <2>6, <2>10 DEF TakenAt, Missed
    <3>1. e \in (LastReceived + 1) .. lastTaken /\ e # frame[c]
      BY <1>3, <2>1, <2>2
    <3> QED
      BY <2>8, <3>1
  <2>13. /\ attached /\ Handed = {}
         /\ \A d \in Conns : d # c => phase[d] = "idle" /\ replay[d] = <<>>
    BY <1>1, OthersIdle DEF EventInv
  <2>14. \A d \in Conns : d # c => phase'[d] = "idle" /\ replay'[d] = <<>>
    BY <1>1, <1>3, <1>6, <2>13
  <2>15. OneStream' /\ StreamInv' /\ TakenInv' /\ Handed' = {}
    BY <1>1, <2>10, <2>11, <2>12, <2>13, <2>14, OnlyTheStream
  <2>16. TypeEvents' /\ QueueInv' /\ UntakenInv'
    BY <1>1, <1>6, <2>4, <2>10, <2>13, <2>15 DEF EventInv, TypeEvents, QueueInv, UntakenInv
  <2> QED
    BY <2>7, <2>9, <2>15, <2>16 DEF EventInv
<1>7. ASSUME alive[c], phase' = [phase EXCEPT ![c] = "produce"], UNCHANGED <<got, alive>>,
             frame[c] = NoEvent
      PROVE  \E p \in {"produce", "over"}, a \in BOOLEAN :
               phase' = [phase EXCEPT ![c] = p] /\ alive' = [alive EXCEPT ![c] = a] /\ (a => alive[c])
  <2>1. alive' = [alive EXCEPT ![c] = TRUE]
    BY <1>3, <1>7
  <2> QED
    BY <1>7, <2>1
<1>8. ASSUME phase' \in {[phase EXCEPT ![c] = p] : p \in {"produce", "over"}},
             alive' = [alive EXCEPT ![c] = FALSE]
      PROVE  /\ alive'[c] = FALSE
             /\ \E p \in {"produce", "over"}, a \in BOOLEAN :
               phase' = [phase EXCEPT ![c] = p] /\ alive' = [alive EXCEPT ![c] = a] /\ (a => alive[c])
  BY <1>3, <1>8
<1> QED
  BY <1>5, <1>6, <1>7, <1>8 DEF Write

(* The stream is destroyed.                                                *)
LEMMA DetachKeeps ==
  ASSUME EventInv, NEW c \in Conns, Detach(c)
  PROVE  EventInv'
<1>1. /\ phase[c] = "over" /\ attached' = FALSE
      /\ phase' = [phase EXCEPT ![c] = "idle"]
      /\ replay' = [replay EXCEPT ![c] = <<>>]
      /\ alive' = [alive EXCEPT ![c] = FALSE]
      /\ UNCHANGED <<content, history, mailbox, closed, lastTaken, frame, got, waived>>
  BY DEF Detach, eventVars
<1>2. /\ Handed = {}
      /\ \A d \in Conns : d # c => phase[d] = "idle" /\ replay[d] = <<>>
  BY <1>1, OthersIdle DEF EventInv
<1>3. LastReceived' = LastReceived
  BY <1>1 DEF LastReceived
<1>4. /\ phase'[c] = "idle" /\ replay'[c] = <<>>
      /\ \A d \in Conns : d # c => phase'[d] = "idle" /\ replay'[d] = <<>>
  BY <1>1, <1>2 DEF EventInv, TypeEvents
<1>5. Ids(<<>>) = {} /\ Ascending(<<>>) /\ <<>> \in Seq(Nat)
  BY DEF Ids, Ascending
<1>6. StreamAt(c)' /\ TakenAt(c)'
  BY <1>4, <1>5 DEF StreamAt, TakenAt
<1>7. OneStream' /\ StreamInv' /\ TakenInv' /\ Handed' = {}
  BY <1>1, <1>4, <1>6, OnlyTheStream
<1>8. TypeEvents'
  BY <1>1, <1>5 DEF EventInv, TypeEvents, Phases
<1>9. QueueInv' /\ ReceivedInv' /\ NothingSkipped' /\ UntakenInv'
  BY <1>1, <1>2, <1>3, <1>7 DEF EventInv, QueueInv, ReceivedInv, NothingSkipped, UntakenInv
<1> QED
  BY <1>7, <1>8, <1>9 DEF EventInv

-----------------------------------------------------------------------------
LEMMA InitIInv == Init => IInv
<1> SUFFICES ASSUME Init PROVE IInv
  OBVIOUS
<1>1. Ids(<<>>) = {} /\ Ascending(<<>>) /\ \A S : <<>> \in Seq(S)
  BY DEF Ids, Ascending
<1>2. TypeEvents
  BY <1>1 DEF Init, TypeEvents, NoEvent, Phases
<1>3. TypeRequests
  BY DEF Init, TypeRequests
<1>4. OneStream /\ Handed = {}
  BY DEF Init, OneStream, Handed
<1>5. \A last : Numbered(<<>>, last)
  BY DEF Numbered
<1>6. Len(<<>>) = 0 /\ DOMAIN content = {}
  BY DEF Init
<1>7. QueueInv
  BY <1>1, <1>5, <1>6, SessionAssumption DEF Init, QueueInv, NoEvent
<1>8. ReceivedInv /\ NothingSkipped
  BY <1>1, <1>6 DEF Init, ReceivedInv, NothingSkipped, LastReceived, NoEvent
<1>9. StreamInv
  BY <1>1 DEF Init, StreamInv, StreamAt
<1>10. TakenInv /\ UntakenInv
  BY <1>1, <1>6 DEF Init, TakenInv, TakenAt, UntakenInv, NoEvent
<1> QED
  BY <1>2, <1>3, <1>4, <1>7, <1>8, <1>9, <1>10 DEF IInv, EventInv

LEMMA StepTypeRequests ==
  ASSUME TypeRequests, [Next]_vars
  PROVE  TypeRequests'
<1> USE DEF TypeRequests, Outcomes
<1>1. ASSUME End PROVE pending' \subseteq Requests /\ channel' \in [Requests -> {"none", "open", "answered", "closed"}]
  BY <1>1 DEF End
<1>2. ASSUME Notify PROVE TypeRequests'
  BY <1>2 DEF Notify, storeVars, requestVars
<1>3. ASSUME DeleteEnd \/ DeleteErase \/ Sweep PROVE TypeRequests'
  BY <1>1, <1>3 DEF DeleteEnd, DeleteErase, Sweep, requestVars
<1>4. ASSUME NEW r \in Requests, RequestPeek(r) PROVE TypeRequests'
  BY <1>4 DEF RequestPeek, storeVars
<1>5. ASSUME NEW r \in Requests, RequestBegin(r) PROVE TypeRequests'
  BY <1>5 DEF RequestBegin, storeVars
<1>6. ASSUME NEW r \in Requests, Timer(r) \/ Respond(r) PROVE TypeRequests'
  BY <1>6 DEF Timer, CloseReply, Respond, storeVars, requestVars
<1>7. ASSUME NEW r \in Requests, RequestResume(r) \/ RequestCancelled(r) PROVE TypeRequests'
  BY <1>1, <1>7 DEF RequestResume, RequestCancelled, Finish, storeVars
<1>8. ASSUME NEW c \in Conns, StreamRuns(c) \/ Get(c) \/ Keepalive(c) \/ StreamCancelled(c)
      PROVE  TypeRequests'
  BY <1>8 DEF StreamRuns, Produce, Take, KeepaliveResume, Write, Detach, Get, Keepalive,
     StreamCancelled, storeVars, requestVars
<1>9. CASE UNCHANGED vars
  BY <1>9 DEF vars, storeVars, requestVars
<1> QED
  BY <1>2, <1>3, <1>4, <1>5, <1>6, <1>7, <1>8, <1>9 DEF Next, RequestSteps

(* Every step preserves the invariant.                                     *)
LEMMA StepIInv == IInv /\ [Next]_vars => IInv'
<1> SUFFICES ASSUME IInv, [Next]_vars PROVE IInv'
  OBVIOUS
<1>1. TypeRequests' /\ EventStep
  BY StepTypeRequests, StepsOfEvents DEF IInv
<1>2. EventInv
  BY DEF IInv
<1>3. CASE UNCHANGED <<eventVars, lastTaken, attached, streamVars, clientVars>>
  <2>1. /\ UNCHANGED <<content, history, mailbox, closed, lastTaken, attached>>
        /\ UNCHANGED <<phase, replay, frame, alive, got, waived>>
    BY <1>3 DEF eventVars, streamVars, clientVars
  <2>2. TypeEvents' /\ OneStream' /\ QueueInv'
    BY <1>2, <2>1 DEF EventInv, TypeEvents, OneStream, QueueInv
  <2>3. ReceivedInv' /\ NothingSkipped'
    BY <1>2, <2>1 DEF EventInv, ReceivedInv, NothingSkipped, LastReceived
  <2>4. StreamInv'
    BY <1>2, <2>1 DEF EventInv, StreamInv, StreamAt, LastReceived
  <2>5. TakenInv'
    BY <1>2, <2>1 DEF EventInv, TakenInv, TakenAt, Missed, LastReceived
  <2>6. UntakenInv'
    BY <1>2, <2>1 DEF EventInv, UntakenInv, Handed
  <2> QED
    BY <1>1, <2>2, <2>3, <2>4, <2>5, <2>6 DEF IInv, EventInv
<1>4. ASSUME NEW c \in Conns, StreamRuns(c) \/ Get(c) \/ Keepalive(c) \/ StreamCancelled(c)
      PROVE  EventInv'
  BY <1>2, <1>4, ProduceKeeps, TakeKeeps, WaitEndsKeeps, WriteKeeps, DetachKeeps, GetKeeps
     DEF StreamRuns
<1> QED
  BY <1>1, <1>2, <1>3, <1>4, PushKeeps, CloseKeeps DEF IInv, EventStep

(* The state has its shape; neither queue outgrows its limit; the flag says*)
(* exactly whether the session's one stream exists.                        *)
THEOREM TypeCorrect == Spec => []TypeOK
<1>1. IInv => TypeOK
  <2> SUFFICES ASSUME IInv PROVE TypeOK
    OBVIOUS
  <2> DEFINE streams == {c \in Conns : phase[c] # "idle"}
  <2>1. Cardinality(streams) = IF attached THEN 1 ELSE 0
    <3>1. CASE attached
      <4>1. PICK c \in Conns : phase[c] # "idle"
        BY <3>1 DEF IInv, EventInv, OneStream
      <4>2. streams = {c}
        BY <4>1 DEF IInv, EventInv, OneStream
      <4> QED
        BY <3>1, <4>2, FS_Singleton
    <3>2. CASE ~attached
      <4>1. streams = {}
        BY <3>2 DEF IInv, EventInv, OneStream
      <4> QED
        BY <3>2, <4>1, FS_EmptySet
    <3> QED
      BY <3>1, <3>2
  <2>2. Len(history) <= HistoryLimit /\ Len(mailbox) <= HistoryLimit
    BY DEF IInv, EventInv, QueueInv
  <2>3. TypeEvents /\ TypeRequests
    BY DEF IInv, EventInv
  <2> QED
    BY <2>1, <2>2, <2>3 DEF TypeOK, TypeEvents, TypeRequests, Contents, Phases
<1> QED
  BY <1>1, InitIInv, StepIInv, PTL DEF Spec

(* However often the client's connection drops and whatever was written    *)
(* into the void, what it receives over all its streams is in order and    *)
(* holds nothing twice.                                                    *)
THEOREM ReceivedInOrderOnce == Spec => []InOrderOnce
<1>1. IInv => InOrderOnce
  BY DEF IInv, EventInv, ReceivedInv, Ascending, InOrderOnce
<1> QED
  BY <1>1, InitIInv, StepIInv, PTL DEF Spec

(* A client that resumes has missed only what it did not ask for or what is*)
(* too old for the history.                                                *)
THEOREM ResumedWithoutLoss == Spec => []NothingSkipped
<1>1. IInv => NothingSkipped
  BY DEF IInv, EventInv
<1> QED
  BY <1>1, InitIInv, StepIInv, PTL DEF Spec

=============================================================================
