--------------------------- MODULE StaticFilesProofs ---------------------------
(***************************************************************************)
(* Theorems about StaticFiles, for any directory, any options, any number  *)
(* of threads and requests, and any changes other programs make: how old   *)
(* an answer may be, and that what is sent piece by piece is what was      *)
(* asked for, of one content.                                              *)
(***************************************************************************)
EXTENDS StaticFiles, FiniteSetTheorems, WellFoundedInduction, TLAPS

-----------------------------------------------------------------------------
(* The directory. *)

Stamps == 1 .. Len(history)

(* The content of the original that stamp s stands for, and when the       *)
(* original ceased to have it.                                             *)
Src(s) == history[s].source
Sup(s) == history[Src(s)].superseded

There(p, c) == disk[<<p, c>>] # None
StampAt(p, c) == store[disk[<<p, c>>]].stamp

(* Stamp s is of a content not older than that of stamp m.                 *)
Follows(s, m) ==
    /\ s \in Stamps /\ m \in Stamps /\ m <= s
    /\ Src(m) = Src(s) \/ (Sup(m) # Never /\ Sup(m) <= Sup(s))

(* A content of path p that is not superseded is what p has.               *)
Belongs(p, m) ==
    Sup(m) = Never => There(p, "") /\ Src(m) = StampAt(p, "")

(* A content of stamp m was seen in a file: what is there is not older.    *)
Seen(p, c, m) ==
    /\ p \in Paths /\ c \in Codings /\ m \in Stamps
    /\ There(p, c) => Follows(StampAt(p, c), m)
    /\ Belongs(p, m)

(* An inode has one name, a stamp one content.                             *)
DirectoryShape ==
    /\ now \in 0 .. MaxTime
    /\ history \in Seq([written : Nat, source : Nat, superseded : Nat])
    /\ \A s \in Stamps : Src(s) \in Stamps
    /\ \A s \in Stamps : history[s].superseded \in 0 .. now \/ history[s].superseded = Never
    /\ store \in Seq([stamp : Nat, size : Sizes])
    /\ \A i \in 1 .. Len(store) : store[i].stamp \in Stamps
    /\ \A i, j \in 1 .. Len(store) : store[i].stamp = store[j].stamp => i = j
    /\ disk \in [Files -> (1 .. Len(store)) \cup {None}]
    /\ \A f, g \in Files : disk[f] # None /\ disk[f] = disk[g] => f = g

(* The original's content is its own and not superseded; a sibling made    *)
(* later was made from it.                                                 *)
OriginalsCurrent ==
    \A p \in Paths :
        /\ There(p, "") => /\ Src(StampAt(p, "")) = StampAt(p, "")
                           /\ history[StampAt(p, "")].superseded = Never
        /\ \A c \in Codings :
              There(p, c) => /\ Belongs(p, StampAt(p, c))
                             /\ There(p, "") /\ StampAt(p, c) > StampAt(p, "") =>
                                    Src(StampAt(p, c)) = StampAt(p, "")

DirectoryInv == DirectoryShape /\ OriginalsCurrent

-----------------------------------------------------------------------------
(* What is known of files.  A content of stamp s was the original's less   *)
(* than slack before a moment, or later.                                   *)
Young(s, at, slack) == at <= Sup(s) + slack

Slack == RevalidateAfter - 1

Variant == [coding : Codings, stamp : Nat, size : Sizes]

Found == [kind : {"file"}, file : Paths, modified : Nat, variants : Seq(Variant)]

NotFound == [kind : {"redirect", "not_found", "forbidden", "error"}, file : {None}]

Known(found, at, slack) ==
    /\ found \in Found /\ Len(found.variants) > 0
    /\ \A i \in 1 .. Len(found.variants) :
          /\ Seen(found.file, found.variants[i].coding, found.variants[i].stamp)
          /\ Young(found.variants[i].stamp, at, slack)

Names == {r.path : r \in Requests} \cup {Fallback}
Slashes == {r.slash : r \in Requests} \cup {FALSE}

(* What was remembered was current when the clock was read.                *)
MetadataEntry ==
    { e \in [key : Names \X Slashes, result : Found \cup NotFound, checked : Nat] :
        e.checked <= now /\ (e.result.kind = "file" => Known(e.result, e.checked, 0)) }

(* What is kept under a modification time is not older.                    *)
ContentEntry ==
    { e \in [key : Files, mtime : Nat, stamp : Nat, size : Nat] : Follows(e.stamp, e.mtime) }

CachesInv == metadata \in Seq(MetadataEntry) /\ content \in Seq(ContentEntry)

-----------------------------------------------------------------------------
(* Threads. *)

Fields == {"pc", "fresh", "fallback", "at", "path", "slash", "found", "looked", "handle", "read",
           "opened", "left", "sent", "request", "held"}

Stages == {"lookup", "status", "stamp", "siblings", "remember", "content", "open", "load", "keep",
           "sending"}

WithBytes == {"content", "open", "load", "keep", "sending"}

(* A sibling that is not older than the original was when it was examined  *)
(* is of a content that was current after the lookup began.                *)
SiblingsCurrent(w) ==
    \A c \in Codings :
        There(w.found.file, c) /\ StampAt(w.found.file, c) >= w.found.variants[1].stamp =>
            Young(StampAt(w.found.file, c), w.at, 0)

(* The open file is the one that was examined, or a later one of its name. *)
Opened(w) ==
    /\ w.handle \in 1 .. Len(store)
    /\ Follows(store[w.handle].stamp, Chosen(w).stamp)
    /\ \A g \in Files : disk[g] = w.handle => g = FileOf(w)

StageInv(w) ==
    /\ DOMAIN w = Fields /\ w.request \in Requests /\ w.path \in Names /\ w.slash \in Slashes
    /\ w.pc # "lookup" => w.at \in 0 .. now
    /\ w.pc = "stamp" => /\ w.found \in Found /\ Len(w.found.variants) = 1
                         /\ w.found.variants[1].coding = ""
    /\ w.pc = "siblings" => /\ Known(w.found, w.at, 0) /\ SiblingsCurrent(w)
                            /\ w.looked \in 0 .. Len(Precompressed) - 1
    /\ w.pc = "remember" => \/ w.found \in NotFound
                            \/ Known(w.found, w.at, 0)
    /\ w.pc \in WithBytes => Known(w.found, w.at, Slack)
    /\ w.pc \in {"load", "sending"} => Opened(w)
    /\ w.pc = "keep" => w.read \in ContentEntry /\ w.read.mtime = Chosen(w).stamp

AnswerInv(w) ==
    "tag" \in DOMAIN w =>
        /\ w.at \in 0 .. now /\ w.stamp \in Stamps /\ Young(w.stamp, w.at, Slack)
        /\ w.tag.stamp <= w.stamp

ThreadInv(w) ==
    \/ w.pc \in {"idle", "answered"} /\ AnswerInv(w)
    \/ w.pc \in Stages /\ StageInv(w)

ThreadsInv == DOMAIN thread = Threads /\ \A t \in Threads : ThreadInv(thread[t])

IInv == DirectoryInv /\ CachesInv /\ ThreadsInv

-----------------------------------------------------------------------------
(* Numbers. *)

LEMMA Smallest ==
  ASSUME NEW S, S \subseteq Nat, S # {}
  PROVE  \E x \in S : \A y \in S : x <= y
<1> DEFINE R == OpToRel(<, Nat)
<1>1. IsWellFoundedOn(R, Nat)
  BY NatLessThanWellFounded
<1>2. \A a, b \in Nat : a < b => <<a, b>> \in R
  BY DEF OpToRel
<1> HIDE DEF R
<1>3. PICK x \in S : \A y \in S : ~(<<y, x>> \in R)
  BY <1>1, WFMin
<1>4. \A y \in S : ~(y < x)
  BY <1>2, <1>3
<1> QED
  BY <1>4

LEMMA SizesIs == Sizes \subseteq Nat /\ 0 \in Sizes /\ 1 \in Sizes
BY BoundsAssumption DEF Sizes

LEMMA Largest ==
  ASSUME NEW n \in Nat, NEW S, S \subseteq 0 .. n, S # {}
  PROVE  \E x \in S : \A y \in S : y <= x
<1> DEFINE T == {n - x : x \in S}
<1>1. T \subseteq Nat /\ T # {}
  <2>1. \A x \in S : n - x \in Nat
    OBVIOUS
  <2> QED
    BY <2>1
<1>2. PICK z \in T : \A y \in T : z <= y
  BY <1>1, Smallest
<1>3. PICK x \in S : z = n - x
  BY <1>2
<1>4. ASSUME NEW y \in S PROVE y <= x
  <2>1. n - y \in T
    OBVIOUS
  <2>2. n - x <= n - y
    <3> HIDE DEF T
    <3> QED
      BY <1>2, <1>3, <2>1
  <2>3. x \in 0 .. n /\ y \in 0 .. n
    OBVIOUS
  <2> HIDE DEF T
  <2> QED
    BY <2>2, <2>3
<1> QED
  BY <1>4

-----------------------------------------------------------------------------
(* The least-recently-used lists, of entries with any property. *)

LEMMA PlaceIs ==
  ASSUME NEW cache, NEW key, Holds(cache, key)
  PROVE  PlaceOf(cache, key) \in DOMAIN cache /\ cache[PlaceOf(cache, key)].key = key
BY DEF Holds, PlaceOf

LEMMA WithoutKeeps ==
  ASSUME NEW S, NEW cache \in Seq(S), NEW key
  PROVE  Without(cache, key) \in Seq(S)
<1>1. CASE ~Holds(cache, key)
  BY <1>1 DEF Without
<1>2. CASE Holds(cache, key)
  <2> DEFINE i == PlaceOf(cache, key)
             front == SubSeq(cache, 1, i - 1)
             rest == SubSeq(cache, i + 1, Len(cache))
  <2>1. i \in 1 .. Len(cache)
    BY <1>2, PlaceIs
  <2> HIDE DEF i
  <2>2. front \in Seq(S)
    BY <2>1
  <2>3. rest \in Seq(S)
    BY <2>1
  <2>4. Without(cache, key) = front \o rest
    BY <1>2 DEF Without, RemoveAt, i
  <2> HIDE DEF front, rest
  <2> QED
    BY <2>2, <2>3, <2>4
<1> QED
  BY <1>1, <1>2

LEMMA PutKeeps ==
  ASSUME NEW S, NEW cache \in Seq(S), NEW entry \in S
  PROVE  Put(cache, entry) \in Seq(S)
<1>1. Without(cache, entry.key) \in Seq(S)
  BY WithoutKeeps
<1>2. <<entry>> \in Seq(S)
  OBVIOUS
<1> QED
  BY <1>1, <1>2 DEF Put

LEMMA TouchedKeeps ==
  ASSUME NEW S, NEW cache \in Seq(S), NEW key, Holds(cache, key)
  PROVE  EntryOf(cache, key) \in S /\ EntryOf(cache, key).key = key
         /\ Touched(cache, key) \in Seq(S)
<1>1. EntryOf(cache, key) \in S /\ EntryOf(cache, key).key = key
  BY PlaceIs DEF EntryOf
<1>2. Without(cache, key) \in Seq(S)
  BY WithoutKeeps
<1>3. <<EntryOf(cache, key)>> \in Seq(S)
  BY <1>1
<1> QED
  BY <1>1, <1>2, <1>3 DEF Touched

LEMMA CutKeeps ==
  ASSUME NEW S, NEW cache \in Seq(S), NEW n \in 0 .. Len(cache)
  PROVE  SubSeq(cache, 1, n) \in Seq(S)
OBVIOUS

LEMMA SeqGrows ==
  ASSUME NEW S, NEW T, S \subseteq T, NEW s \in Seq(S)
  PROVE  s \in Seq(T)
OBVIOUS

-----------------------------------------------------------------------------
(* The variant that is sent is one of those that were found. *)

Quantities == 0 .. 1000

LEMMA QualityIs ==
  ASSUME NEW r \in Requests, r.acceptEncoding # None, NEW coding
  PROVE  Quality(r.acceptEncoding, coding) \in Quantities \cup {None}
<1> DEFINE R == [name : STRING, q : Quantities]
           E == r.acceptEncoding
           At(name) == {i \in DOMAIN E : E[i].name = name}
           Named(name) == IF At(name) = {} THEN None
                          ELSE E[CHOOSE i \in At(name) : \A j \in At(name) : j <= i].q
<1>1. E \in Seq(R)
  BY RequestsAssumption DEF Quantities
<1> HIDE DEF E
<1>2. ASSUME NEW name PROVE Named(name) \in Quantities \cup {None}
  <2>1. CASE At(name) = {}
    BY <2>1
  <2>2. CASE At(name) # {}
    <3>1. At(name) \subseteq 0 .. Len(E) /\ Len(E) \in Nat
      BY <1>1
    <3>2. \E i \in At(name) : \A j \in At(name) : j <= i
      <4> DEFINE A == At(name)
      <4> HIDE DEF A
      <4> QED
        BY <2>2, <3>1, Largest DEF A
    <3>3. PICK i \in At(name) : Named(name) = E[i].q
      BY <2>2, <3>2
    <3>4. i \in 1 .. Len(E)
      BY <1>1, <3>3
    <3>5. E[i] \in R
      <4> HIDE DEF Named, At, R
      <4> QED
        BY <1>1, <3>4
    <3>6. E[i].q \in Quantities
      <4> HIDE DEF Named, At
      <4> QED
        BY <3>5
    <3> QED
      <4> HIDE DEF Named, At
      <4> QED
        BY <3>3, <3>6
  <2> QED
    BY <2>1, <2>2
<1>3. Quality(E, coding) = IF Named(coding) # None THEN Named(coding) ELSE Named("*")
  BY DEF Quality
<1>4. Quality(E, coding) \in Quantities \cup {None}
  <2> HIDE DEF Named
  <2> QED
    BY <1>2, <1>3
<1> QED
  BY <1>4 DEF E

LEMMA BestExists ==
  ASSUME NEW n \in Nat, NEW m \in Nat, NEW f \in [1 .. n -> 0 .. m], NEW S, S \subseteq 1 .. n, S # {}
  PROVE  \E i \in S : \A j \in S : f[i] > f[j] \/ (f[i] = f[j] /\ i <= j)
<1> DEFINE Values == {f[i] : i \in S}
<1>0. \A i \in S : f[i] \in 0 .. m
  OBVIOUS
<1>1. Values \subseteq 0 .. m /\ Values # {}
  BY <1>0
<1>2. PICK top \in Values : \A q \in Values : q <= top
  <2> HIDE DEF Values
  <2> QED
    BY <1>1, Largest
<1> DEFINE firsts == {i \in S : f[i] = top}
<1>3. firsts \subseteq Nat /\ firsts # {}
  <2>1. PICK i \in S : f[i] = top
    BY <1>2
  <2>2. i \in firsts
    BY <2>1
  <2>3. \A j \in S : j \in Nat
    <3> HIDE DEF Values, firsts
    <3>1. \A j \in 1 .. n : j \in Nat
      OBVIOUS
    <3> QED
      BY <3>1
  <2> QED
    BY <2>2, <2>3
<1>4. PICK i \in firsts : \A j \in firsts : i <= j
  <2> HIDE DEF firsts
  <2> QED
    BY <1>3, Smallest
<1>5. ASSUME NEW j \in S PROVE f[i] > f[j] \/ (f[i] = f[j] /\ i <= j)
  <2>1. f[j] \in Values /\ f[i] = top
    BY <1>4
  <2>3. f[j] \in Nat /\ f[i] \in Nat
    BY <1>0, <1>4
  <2>2. f[j] <= top /\ (f[j] = top => i <= j)
    BY <1>2, <1>4, <2>1
  <2> HIDE DEF Values, firsts
  <2>4. top \in Nat
    BY <2>1, <2>3
  <2>5. CASE f[j] = top
    BY <2>1, <2>2, <2>5
  <2>6. CASE f[j] # top
    BY <2>1, <2>2, <2>3, <2>4, <2>6
  <2> QED
    BY <2>5, <2>6
<1> QED
  BY <1>4, <1>5

LEMMA SelectVariantIs ==
  ASSUME NEW r \in Requests, NEW variants \in Seq(Variant), Len(variants) > 0
  PROVE  \E i \in 1 .. Len(variants) : SelectVariant(r, variants) = variants[i]
<1>1. CASE r.acceptEncoding = None
  <2>1. SelectVariant(r, variants) = variants[1]
    BY <1>1, Zenon DEF SelectVariant
  <2> QED
    BY <2>1
<1>2. CASE r.acceptEncoding # None
  <2> DEFINE Q(i) == LET q == Quality(r.acceptEncoding, variants[i].coding) IN IF q = None THEN 0 ELSE q
             siblings == {i \in 2 .. Len(variants) : Q(i) > 0}
             Best(i) == \A j \in siblings : Q(i) > Q(j) \/ (Q(i) = Q(j) /\ i <= j)
             best == CHOOSE i \in siblings : Best(i)
             own == Quality(r.acceptEncoding, "identity")
  <2>1. ASSUME NEW i PROVE Q(i) \in Quantities
    <3>1. Quality(r.acceptEncoding, variants[i].coding) \in Quantities \cup {None}
      BY <1>2, QualityIs
    <3>2. 0 \in Quantities
      BY DEF Quantities
    <3>3. CASE Quality(r.acceptEncoding, variants[i].coding) = None
      BY <3>2, <3>3, Zenon
    <3>4. CASE Quality(r.acceptEncoding, variants[i].coding) # None
      BY <3>1, <3>4, Zenon
    <3> QED
      BY <3>3, <3>4, Zenon
  <2>2. SelectVariant(r, variants) \in {variants[1], variants[best]}
        /\ (siblings = {} => SelectVariant(r, variants) = variants[1])
    BY <1>2, Zenon DEF SelectVariant
  <2>3. CASE siblings # {}
    <3> DEFINE f == [i \in 1 .. Len(variants) |-> Q(i)]
    <3>1. f \in [1 .. Len(variants) -> Quantities] /\ Len(variants) \in Nat
      BY <2>1
    <3>2. siblings \subseteq 1 .. Len(variants)
      OBVIOUS
    <3>3. \A i \in siblings : f[i] = Q(i)
      BY <3>2
    <3> DEFINE N == Len(variants)
               M == 1000
    <3>8. N \in Nat /\ M \in Nat /\ siblings \subseteq 1 .. N
      <4>1. M \in Nat
        OBVIOUS
      <4> HIDE DEF siblings, f, M
      <4> QED
        BY <3>1, <3>2, <4>1
    <3>9. f \in [1 .. N -> 0 .. M]
      <4>1. Quantities = 0 .. M
        BY DEF Quantities
      <4> HIDE DEF f, M
      <4> QED
        BY <3>1, <4>1
    <3>4. \E i \in siblings : \A j \in siblings : f[i] > f[j] \/ (f[i] = f[j] /\ i <= j)
      <4> HIDE DEF f, siblings, N, M
      <4> QED
        BY <2>3, <3>8, <3>9, BestExists
    <3>5. PICK i \in siblings : \A j \in siblings : f[i] > f[j] \/ (f[i] = f[j] /\ i <= j)
      BY <3>4
    <3>6. Best(i)
      <4> SUFFICES ASSUME NEW j \in siblings PROVE Q(i) > Q(j) \/ (Q(i) = Q(j) /\ i <= j)
        OBVIOUS
      <4>1. f[i] > f[j] \/ (f[i] = f[j] /\ i <= j)
        <5> HIDE DEF f
        <5> QED
          BY <3>5
      <4>2. f[i] = Q(i) /\ f[j] = Q(j)
        BY <3>3
      <4> QED
        BY <4>1, <4>2
    <3>7. best \in siblings
      <4> HIDE DEF siblings, Best
      <4> QED
        BY <3>6
    <3> HIDE DEF best
    <3> QED
      BY <2>2, <3>7
  <2> QED
    BY <2>2, <2>3
<1> QED
  BY <1>1, <1>2

-----------------------------------------------------------------------------
(* What other programs and time may do to the directory.                   *)

(* A stamp stays what it is, but for the end of its original's life; an    *)
(* inode changes only under its original's name; a file that changes gets  *)
(* the new stamp, which stands for what the original then is; and what the *)
(* original was before is superseded.                                      *)
Later ==
    /\ Len(history) <= Len(history') /\ now <= now'
    /\ \A s \in Stamps :
          /\ history'[s].source = history[s].source
          /\ \/ history'[s].superseded = history[s].superseded
             \/ history[s].superseded = Never /\ history'[s].superseded = now'
    /\ Len(store) <= Len(store')
    /\ \A i \in 1 .. Len(store) :
          \/ store'[i].stamp = store[i].stamp
          \/ \E p \in Paths : disk[<<p, "">>] = i /\ disk'[<<p, "">>] = i
    /\ \A f \in Files : disk'[f] \in {disk[f], None, Len(store) + 1}
    /\ \A p \in Paths :
          There(p, "") => \/ There(p, "")' /\ StampAt(p, "")' = StampAt(p, "")
                          \/ history'[StampAt(p, "")].superseded # Never
    /\ \A p \in Paths, c \in Codings :
          There(p, c)' => \/ There(p, c) /\ StampAt(p, c)' = StampAt(p, c)
                          \/ /\ StampAt(p, c)' = NewStamp
                             /\ There(p, "")' /\ Src(StampAt(p, c))' = StampAt(p, "")'

StampsFine ==
    /\ Len(history) \in Nat /\ Len(store) \in Nat
    /\ now \in Nat /\ now < Never /\ Never \in Nat
    /\ \A s \in Stamps : /\ s \in Nat /\ Src(s) \in Stamps /\ Sup(s) \in Nat
                         /\ Sup(s) <= now \/ Sup(s) = Never
                         /\ history[s].superseded <= now \/ history[s].superseded = Never
    /\ \A p \in Paths, c \in Codings :
          There(p, c) => disk[<<p, c>>] \in 1 .. Len(store) /\ StampAt(p, c) \in Stamps

LEMMA StampFacts == DirectoryInv => StampsFine
<1> SUFFICES ASSUME DirectoryInv PROVE StampsFine
  OBVIOUS
<1> USE BoundsAssumption DEF DirectoryInv, DirectoryShape
<1>1. Len(history) \in Nat /\ Len(store) \in Nat
  OBVIOUS
<1>2. now \in Nat /\ now < Never /\ Never \in Nat
  BY DEF Never
<1>3. \A s \in Stamps : s \in Nat /\ Src(s) \in Stamps
  BY <1>1 DEF Stamps
<1>4. \A s \in Stamps : /\ history[s].superseded \in Nat
                        /\ history[s].superseded <= now \/ history[s].superseded = Never
  BY <1>2
<1>5. \A s \in Stamps : Sup(s) \in Nat /\ (Sup(s) <= now \/ Sup(s) = Never)
  BY <1>3, <1>4 DEF Sup
<1>6. ASSUME NEW p \in Paths, NEW c \in Codings, There(p, c)
      PROVE  disk[<<p, c>>] \in 1 .. Len(store) /\ StampAt(p, c) \in Stamps
  <2>1. <<p, c>> \in Files
    BY DEF Files
  <2>2. disk[<<p, c>>] \in 1 .. Len(store)
    BY <1>6, <2>1 DEF There
  <2> QED
    BY <2>2 DEF StampAt
<1> QED
  BY <1>1, <1>2, <1>3, <1>4, <1>5, <1>6 DEF StampsFine

LEMMA StampFactsNext == DirectoryInv' => StampsFine'
BY StampFacts, PTL

(* What was known of stamps stays true.                                    *)
LEMMA LaterStamps ==
  ASSUME DirectoryInv, DirectoryInv', Later
  PROVE  /\ Stamps \subseteq Stamps'
         /\ \A s \in Stamps :
               /\ Src(s)' = Src(s)
               /\ Sup(s)' = Sup(s) \/ (Sup(s) = Never /\ Sup(s)' = now')
         /\ \A s, m \in Stamps : Follows(s, m) => Follows(s, m)'
         /\ \A s \in Stamps, at \in 0 .. now, slack \in Nat : Young(s, at, slack) => Young(s, at, slack)'
<1>1. Stamps \subseteq Stamps' /\ now \in Nat /\ now' \in Nat /\ now <= now'
  <2>1. Len(history) \in Nat /\ Len(history') \in Nat /\ now \in Nat /\ now' \in Nat
    BY StampFacts, StampFactsNext DEF StampsFine
  <2>2. Len(history) <= Len(history') /\ now <= now'
    BY DEF Later
  <2> QED
    BY <2>1, <2>2 DEF Stamps
<1>2. ASSUME NEW s \in Stamps
      PROVE  /\ Src(s)' = Src(s)
             /\ Sup(s)' = Sup(s) \/ (Sup(s) = Never /\ Sup(s)' = now')
  <2>1. Src(s)' = Src(s) /\ Src(s) \in Stamps
    BY StampFacts DEF StampsFine, Src, Later
  <2> QED
    BY <2>1 DEF Sup, Later
<1>3. \A s \in Stamps : /\ Sup(s) \in Nat /\ Sup(s)' \in Nat
                        /\ Sup(s) <= now \/ Sup(s) = Never
                        /\ Sup(s)' <= now' \/ Sup(s)' = Never
  BY <1>1, StampFacts, StampFactsNext DEF StampsFine
<1>4. ASSUME NEW s \in Stamps, NEW m \in Stamps, Follows(s, m) PROVE Follows(s, m)'
  <2>1. s \in Stamps' /\ m \in Stamps' /\ m <= s
    BY <1>1, <1>4 DEF Follows
  <2>2. CASE Src(m) = Src(s)
    BY <1>2, <2>1, <2>2 DEF Follows
  <2>3. CASE Sup(m) # Never /\ Sup(m) <= Sup(s)
    <3>1. Sup(m)' = Sup(m) /\ Sup(m) <= now
      BY <1>2, <1>3, <2>3
    <3>2. Sup(m)' <= Sup(s)'
      BY <1>1, <1>2, <1>3, <2>3, <3>1
    <3> QED
      BY <2>1, <2>3, <3>1, <3>2 DEF Follows, Never
  <2> QED
    BY <1>4, <2>2, <2>3 DEF Follows
<1>5. ASSUME NEW s \in Stamps, NEW at \in 0 .. now, NEW slack \in Nat, Young(s, at, slack)
      PROVE  Young(s, at, slack)'
  BY <1>1, <1>2, <1>3, <1>5 DEF Young
<1> QED
  BY <1>1, <1>2, <1>4, <1>5

(* A stamp that was seen in a file is not newer than what is there later.  *)
LEMMA LaterSeen ==
  ASSUME DirectoryInv, DirectoryInv', Later, NEW p, NEW c, NEW m, Seen(p, c, m)
  PROVE  Seen(p, c, m)'
<1>0. p \in Paths /\ c \in Codings /\ m \in Stamps /\ "" \in Codings
  BY DEF Seen, Codings
<1>1. m \in Stamps' /\ Src(m)' = Src(m) /\ (Sup(m)' = Sup(m) \/ (Sup(m) = Never /\ Sup(m)' = now'))
  BY <1>0, LaterStamps
<1>2. Belongs(p, m)'
  <2> SUFFICES ASSUME Sup(m)' = Never PROVE There(p, "")' /\ Src(m)' = StampAt(p, "")'
    BY DEF Belongs
  <2>1. Sup(m) = Never
    BY <1>1, StampFactsNext DEF StampsFine
  <2>2. There(p, "") /\ Src(m) = StampAt(p, "")
    BY <2>1 DEF Seen, Belongs
  <2>3. history'[StampAt(p, "")].superseded = Never
    BY <1>1, <2>2 DEF Sup
  <2>4. There(p, "")' /\ StampAt(p, "")' = StampAt(p, "")
    BY <1>0, <2>2, <2>3 DEF Later
  <2> QED
    BY <1>1, <2>2, <2>4
<1>3. ASSUME There(p, c)' PROVE Follows(StampAt(p, c), m)'
  <2>1. CASE There(p, c) /\ StampAt(p, c)' = StampAt(p, c)
    <3>1. Follows(StampAt(p, c), m) /\ StampAt(p, c) \in Stamps
      BY <1>0, <2>1, StampFacts DEF StampsFine, Seen
    <3>2. \A s, k \in Stamps : Follows(s, k) => Follows(s, k)'
      BY LaterStamps
    <3> DEFINE n == StampAt(p, c)
    <3>3. PICK s \in Stamps : s = StampAt(p, c)
      BY <3>1
    <3>4. Follows(s, m)'
      BY <1>0, <3>1, <3>2, <3>3
    <3> QED
      BY <2>1, <3>3, <3>4
  <2>2. CASE /\ StampAt(p, c)' = NewStamp
             /\ There(p, "")' /\ Src(StampAt(p, c))' = StampAt(p, "")'
    <3>1. StampAt(p, c)' \in Stamps' /\ m <= StampAt(p, c)'
      <4>1. StampAt(p, c)' \in Stamps'
        BY <1>0, <1>3, StampFactsNext DEF StampsFine
      <4>2. m \in 1 .. Len(history) /\ Len(history) \in Nat
        BY <1>0, StampFacts DEF StampsFine, Stamps
      <4>3. m <= NewStamp
        BY <4>2 DEF NewStamp
      <4> QED
        BY <2>2, <4>1, <4>3
    <3>2. Sup(StampAt(p, c))' = Never
      BY <1>0, <2>2 DEF DirectoryInv, OriginalsCurrent, Sup
    <3>3. CASE Sup(m)' = Never
      BY <1>1, <1>2, <2>2, <3>1, <3>3 DEF Belongs, Follows
    <3>4. CASE Sup(m)' # Never
      <4>1. Sup(m)' \in Nat /\ Sup(m)' <= Never
        BY <1>1, <3>4, StampFactsNext DEF StampsFine
      <4> QED
        BY <1>1, <2>2, <3>1, <3>2, <3>4, <4>1 DEF Follows
    <3> QED
      BY <3>3, <3>4
  <2> QED
    BY <1>0, <1>3, <2>1, <2>2 DEF Later
<1> QED
  BY <1>0, <1>1, <1>2, <1>3 DEF Seen

(* What every change has in common: it gives one file of path p a new      *)
(* stamp, or removes it, and ends the life of what the original was if it  *)
(* is the original.                                                        *)
Rewrites(p, c) ==
    /\ now' = now
    /\ store' \in Seq([stamp : Nat, size : Sizes]) /\ Len(store) <= Len(store')
    /\ \A i \in 1 .. Len(store) :
          \/ store'[i] = store[i]
          \/ /\ c = "" /\ disk[<<p, "">>] = i /\ disk'[<<p, "">>] = i
             /\ store'[i].stamp = NewStamp
    /\ \A i \in 1 .. Len(store') : i > Len(store) => i = Len(store) + 1 /\ store'[i].stamp = NewStamp
    /\ disk' \in [Files -> (1 .. Len(store')) \cup {None}]
    /\ \A f \in Files : f # <<p, c>> => disk'[f] = disk[f]
    /\ disk'[<<p, c>>] \in {disk[<<p, c>>], None, Len(store) + 1}
    /\ Len(store') = Len(store) \/ disk'[<<p, c>>] = Len(store) + 1
    /\ There(p, c)' => StampAt(p, c)' = NewStamp
    /\ \/ c = "" /\ history' = Written(NewStamp, StampOf(p))
       \/ c # "" /\ There(p, "") /\ history' = Written(StampOf(p), None)

LEMMA SeqAppended ==
  ASSUME NEW S, NEW s \in Seq(S), NEW x \in S
  PROVE  /\ Append(s, x) \in Seq(S) /\ Len(Append(s, x)) = Len(s) + 1
         /\ \A i \in 1 .. Len(s) : Append(s, x)[i] = s[i]
         /\ Append(s, x)[Len(s) + 1] = x
OBVIOUS

LEMMA SeqUpdated ==
  ASSUME NEW S, NEW s \in Seq(S), NEW j \in 1 .. Len(s), NEW x \in S
  PROVE  /\ [s EXCEPT ![j] = x] \in Seq(S) /\ Len([s EXCEPT ![j] = x]) = Len(s)
         /\ \A i \in 1 .. Len(s) : [s EXCEPT ![j] = x][i] = IF i = j THEN x ELSE s[i]
OBVIOUS

LEMMA FunctionUpdated ==
  ASSUME NEW D, NEW S, NEW T, NEW f \in [D -> S], S \subseteq T, NEW d \in D, NEW y \in T
  PROVE  /\ [f EXCEPT ![d] = y] \in [D -> T]
         /\ [f EXCEPT ![d] = y][d] = y
         /\ \A e \in D : e # d => [f EXCEPT ![d] = y][e] = f[e]
OBVIOUS

LEMMA WrittenIs ==
  ASSUME DirectoryInv, NEW source \in 1 .. NewStamp, NEW old, history' = Written(source, old)
  PROVE  /\ history' \in Seq([written : Nat, source : Nat, superseded : Nat])
         /\ Len(history') = NewStamp
         /\ \A s \in Stamps :
               /\ history'[s].source = history[s].source
               /\ history'[s].superseded = IF s = old THEN now ELSE history[s].superseded
         /\ history'[NewStamp].source = source /\ history'[NewStamp].superseded = Never
<1> DEFINE H == [written : Nat, source : Nat, superseded : Nat]
           before == [s \in DOMAIN history |->
                        IF s = old THEN [history[s] EXCEPT !.superseded = now] ELSE history[s]]
           last == [written |-> now, source |-> source, superseded |-> Never]
<1>1. history \in Seq(H) /\ now \in Nat /\ Never \in Nat /\ Len(history) \in Nat
  BY StampFacts DEF StampsFine, DirectoryInv, DirectoryShape
<1>2. last \in H
  <2>1. source \in Nat
    BY <1>1 DEF NewStamp
  <2> QED
    BY <1>1, <2>1
<1>3. ASSUME NEW s \in 1 .. Len(history)
      PROVE  /\ before[s] \in H /\ before[s].source = history[s].source
             /\ before[s].superseded = IF s = old THEN now ELSE history[s].superseded
  <2>1. history[s] \in H
    <3> HIDE DEF H
    <3> QED
      BY <1>1
  <2>2. before[s] = IF s = old THEN [history[s] EXCEPT !.superseded = now] ELSE history[s]
    <3> HIDE DEF H
    <3>1. s \in DOMAIN history
      BY <1>1
    <3> QED
      BY <3>1
  <2> HIDE DEF before
  <2>3. CASE s = old
    BY <1>1, <2>1, <2>2, <2>3
  <2>4. CASE s # old
    BY <2>1, <2>2, <2>4
  <2> QED
    BY <2>3, <2>4
<1>4. before \in Seq(H) /\ Len(before) = Len(history)
  <2> DEFINE n == Len(history)
  <2>1. n \in Nat /\ DOMAIN history = 1 .. n
    BY <1>1
  <2>2. DOMAIN before = 1 .. n
    BY <2>1
  <2>4. before = [s \in 1 .. n |-> before[s]]
    BY <2>1
  <2> HIDE DEF before, H, n
  <2>3. before \in [1 .. n -> H]
    <3>1. \A s \in 1 .. n : before[s] \in H
      BY <1>3 DEF n
    <3> QED
      BY <2>4, <3>1
  <2> QED
    BY <2>1, <2>2, <2>3 DEF n
<1>5. history' = Append(before, last)
  BY DEF Written
<1> HIDE DEF before, last
<1>6. /\ history' \in Seq(H) /\ Len(history') = NewStamp
      /\ \A s \in 1 .. Len(history) : history'[s] = before[s]
      /\ history'[NewStamp] = last
  <2> HIDE DEF H
  <2> QED
    BY <1>2, <1>4, <1>5, SeqAppended DEF NewStamp
<1>7. last.source = source /\ last.superseded = Never
  BY DEF last
<1>8. \A s \in Stamps : history'[s] = before[s] /\ s \in 1 .. Len(history)
  BY <1>6 DEF Stamps
<1> QED
  <2> HIDE DEF H
  <2>1. history' \in Seq([written : Nat, source : Nat, superseded : Nat])
    BY <1>6 DEF H
  <2> QED
    BY <1>3, <1>6, <1>7, <1>8, <2>1

(* Every change other programs make is of this kind.                       *)
LEMMA ChangeRewrites ==
  ASSUME DirectoryInv, Change
  PROVE  \E p \in Paths, c \in Codings : Rewrites(p, c)
<1> DEFINE Inodes == [stamp : Nat, size : Sizes]
<1>1. PICK p \in Rewritten :
        \/ \E size \in OverwrittenSizes : Overwrite(p, size)
        \/ \E size \in ReplacedSizes : Replace(p, size)
        \/ RemoveFile(p)
        \/ \E coding \in ToSet(Precompressed) : Compress(p, coding)
  BY DEF Change
<1>2. p \in Paths /\ "" \in Codings /\ <<p, "">> \in Files
  BY DirectoryAssumption DEF Codings, Files
<1>3. /\ now' = now /\ store \in Seq(Inodes) /\ Len(store) \in Nat /\ NewStamp \in Nat
      /\ disk \in [Files -> (1 .. Len(store)) \cup {None}] /\ None \notin Nat
  BY StampFacts, RequestsAssumption
  DEF StampsFine, DirectoryInv, DirectoryShape, NewStamp, Change
<1>4. IsFile(p) = There(p, "")
  BY DEF IsFile, There
<1>5. ASSUME NEW size \in OverwrittenSizes, Overwrite(p, size) PROVE Rewrites(p, "")
  <2> DEFINE j == disk[<<p, "">>]
             inode == [stamp |-> NewStamp, size |-> size]
  <2>1. j \in 1 .. Len(store)
    BY <1>2, <1>3, <1>5 DEF Overwrite, IsFile
  <2>0. inode.stamp = NewStamp
    OBVIOUS
  <2>2. inode \in Inodes
    <3>1. size \in Sizes
      BY DirectoryAssumption
    <3> QED
      BY <1>3, <3>1
  <2>3. store' = [store EXCEPT ![j] = inode] /\ disk' = disk
        /\ history' = Written(NewStamp, StampOf(p))
    BY <1>5 DEF Overwrite
  <2> HIDE DEF inode
  <2>4. /\ store' \in Seq(Inodes) /\ Len(store') = Len(store)
        /\ \A i \in 1 .. Len(store) : store'[i] = IF i = j THEN inode ELSE store[i]
    <3> HIDE DEF Inodes, j
    <3> QED
      BY <1>3, <2>1, <2>2, <2>3, SeqUpdated
  <2>5. \A i \in 1 .. Len(store) : store'[i] = IF i = j THEN inode ELSE store[i]
    BY <2>4
  <2>6. StampAt(p, "")' = NewStamp
    <3>1. store'[j] = inode
      BY <2>1, <2>5
    <3> QED
      BY <2>0, <2>3, <3>1 DEF StampAt
  <2>7. \A i \in 1 .. Len(store) : i = j => store'[i].stamp = NewStamp
    BY <2>0, <2>5
  <2>8. \A i \in 1 .. Len(store) :
          \/ store'[i] = store[i]
          \/ disk[<<p, "">>] = i /\ disk'[<<p, "">>] = i /\ store'[i].stamp = NewStamp
    <3> HIDE DEF Inodes
    <3> QED
      BY <2>3, <2>5, <2>7
  <2> DEFINE n == Len(store)
             m == Len(store')
  <2>9. n \in Nat /\ m = n
    BY <1>3, <2>4
  <2>10. n <= m /\ \A i \in 1 .. m : i > n => FALSE
    <3> HIDE DEF n, m
    <3> QED
      BY <2>9
  <2>11. disk' \in [Files -> (1 .. Len(store')) \cup {None}]
    BY <1>3, <2>3, <2>4
  <2> HIDE DEF j
  <2> QED
    BY <1>3, <2>3, <2>4, <2>6, <2>8, <2>9, <2>10, <2>11 DEF Rewrites
<1>6. ASSUME NEW c \in Codings, NEW size \in Sizes,
             store' = Append(store, [stamp |-> NewStamp, size |-> size]),
             disk' = [disk EXCEPT ![<<p, c>>] = Len(store) + 1],
             \/ c = "" /\ history' = Written(NewStamp, StampOf(p))
             \/ c # "" /\ There(p, "") /\ history' = Written(StampOf(p), None)
      PROVE  Rewrites(p, c)
  <2> DEFINE inode == [stamp |-> NewStamp, size |-> size]
  <2>1. inode \in Inodes /\ inode.stamp = NewStamp
    BY <1>3
  <2>2. store' = Append(store, inode)
    BY <1>6
  <2> HIDE DEF inode
  <2>3. /\ store' \in Seq(Inodes) /\ Len(store') = Len(store) + 1
        /\ \A i \in 1 .. Len(store) : store'[i] = store[i]
        /\ store'[Len(store) + 1] = inode
    <3> HIDE DEF Inodes
    <3> QED
      BY <1>3, <2>1, <2>2, SeqAppended
  <2>4. <<p, c>> \in Files
    BY <1>2 DEF Files
  <2> DEFINE Before == (1 .. Len(store)) \cup {None}
             After == (1 .. Len(store')) \cup {None}
             file == <<p, c>>
  <2>9. Before \subseteq After /\ Len(store) + 1 \in After
    BY <1>3, <2>3
  <2>6. /\ disk' \in [Files -> After] /\ disk'[file] = Len(store) + 1
        /\ \A f \in Files : f # file => disk'[f] = disk[f]
    <3>1. disk \in [Files -> Before] /\ file \in Files /\ disk' = [disk EXCEPT ![file] = Len(store) + 1]
      BY <1>3, <1>6, <2>4
    <3> HIDE DEF Before, After, file
    <3> QED
      BY <2>9, <3>1, FunctionUpdated
  <2>5. disk'[<<p, c>>] = Len(store) + 1
    BY <2>6
  <2>7. StampAt(p, c)' = NewStamp
    BY <2>1, <2>3, <2>5 DEF StampAt
  <2>8. \A i \in 1 .. Len(store') : i > Len(store) => i = Len(store) + 1 /\ store'[i].stamp = NewStamp
    BY <1>3, <2>1, <2>3
  <2>10. store' \in Seq(Inodes) /\ Len(store) <= Len(store') /\ now' = now
         /\ (Len(store') = Len(store) \/ disk'[<<p, c>>] = Len(store) + 1)
    BY <1>3, <2>3, <2>5
  <2> QED
    BY <1>6, <2>3, <2>5, <2>6, <2>7, <2>8, <2>10 DEF Rewrites
<1>7. ASSUME NEW size \in ReplacedSizes, Replace(p, size) PROVE Rewrites(p, "")
  <2>1. size \in Sizes
    BY DirectoryAssumption
  <2>2. /\ store' = Append(store, [stamp |-> NewStamp, size |-> size])
        /\ disk' = [disk EXCEPT ![<<p, "">>] = Len(store) + 1]
        /\ history' = Written(NewStamp, StampOf(p))
    BY <1>7 DEF Replace
  <2> QED
    BY <1>2, <1>6, <2>1, <2>2
<1>8. ASSUME NEW coding \in ToSet(Precompressed), Compress(p, coding) PROVE Rewrites(p, coding)
  <2>1. coding # "" /\ coding \in Codings
    <3>1. PICK i \in DOMAIN Precompressed : coding = Precompressed[i]
      BY DEF ToSet
    <3>2. Precompressed \in Seq(STRING \ {""})
      BY DirectoryAssumption
    <3> DEFINE S == STRING \ {""}
    <3>4. Precompressed \in Seq(S)
      BY <3>2
    <3>3. Precompressed[i] \in S
      <4> HIDE DEF S
      <4> QED
        BY <3>4
    <3> QED
      BY <3>1, <3>3 DEF Codings
  <2>2. /\ There(p, "")
        /\ store' = Append(store, [stamp |-> NewStamp, size |-> 1])
        /\ disk' = [disk EXCEPT ![<<p, coding>>] = Len(store) + 1]
        /\ history' = Written(StampOf(p), None)
    BY <1>4, <1>8 DEF Compress
  <2>3. 1 \in Sizes
    BY SizesIs
  <2> QED
    BY <1>6, <2>1, <2>2, <2>3
<1>9. ASSUME RemoveFile(p) PROVE Rewrites(p, "")
  <2>1. /\ disk' = [disk EXCEPT ![<<p, "">>] = None] /\ store' = store
        /\ history' = Written(NewStamp, StampOf(p))
    BY <1>9 DEF RemoveFile
  <2> DEFINE Inos == (1 .. Len(store)) \cup {None}
             file == <<p, "">>
  <2>2. /\ disk' \in [Files -> Inos] /\ disk'[file] = None
        /\ \A f \in Files : f # file => disk'[f] = disk[f]
    <3>1. disk \in [Files -> Inos] /\ file \in Files /\ None \in Inos /\ disk' = [disk EXCEPT ![file] = None]
      BY <1>2, <1>3, <2>1
    <3> HIDE DEF Inos, file
    <3> QED
      BY <3>1, FunctionUpdated
  <2>3. /\ \A i \in 1 .. Len(store') : i > Len(store) => FALSE
        /\ store' \in Seq(Inodes) /\ Len(store) <= Len(store') /\ Len(store') = Len(store)
    <3> DEFINE n == Len(store)
               m == Len(store')
    <3>1. n \in Nat /\ m = n /\ store' \in Seq(Inodes)
      BY <1>3, <2>1
    <3>2. n <= m /\ \A i \in 1 .. m : i > n => FALSE
      <4> HIDE DEF n, m
      <4> QED
        BY <3>1
    <3> QED
      BY <3>1, <3>2
  <2>4. ~There(p, "")'
    BY <2>2 DEF There
  <2>5. /\ disk' \in [Files -> (1 .. Len(store')) \cup {None}]
        /\ \A i \in 1 .. Len(store) : store'[i] = store[i]
    BY <2>1, <2>2
  <2> QED
    BY <1>3, <2>1, <2>2, <2>3, <2>4, <2>5 DEF Rewrites
<1>10. \A coding \in ToSet(Precompressed) : coding \in Codings
  BY DEF Codings
<1> QED
  BY <1>1, <1>2, <1>5, <1>7, <1>8, <1>9, <1>10


(* What a change does to the history, ...                                  *)
LEMMA RewrittenHistory ==
  ASSUME DirectoryInv, NEW p \in Paths, NEW c \in Codings, Rewrites(p, c)
  PROVE  /\ history' \in Seq([written : Nat, source : Nat, superseded : Nat])
         /\ Len(history') = NewStamp
         /\ \A s \in Stamps :
               /\ history'[s].source = history[s].source
               /\ history'[s].superseded = IF c = "" /\ There(p, "") /\ s = StampAt(p, "") THEN now
                                           ELSE history[s].superseded
         /\ history'[NewStamp].source = IF c = "" THEN NewStamp ELSE StampAt(p, "")
         /\ history'[NewStamp].superseded = Never
         /\ c # "" => There(p, "")
<1>1. "" \in Codings /\ Len(history) \in Nat /\ None \notin Nat /\ NewStamp \in 1 .. NewStamp
  <2>1. Len(history) \in Nat
    BY StampFacts DEF StampsFine
  <2>2. NewStamp \in 1 .. NewStamp
    BY <2>1 DEF NewStamp
  <2> QED
    BY <2>1, <2>2, RequestsAssumption DEF Codings
<1>2. StampOf(p) = IF There(p, "") THEN StampAt(p, "") ELSE None
  BY DEF StampOf, IsFile, Original, Inode, There, StampAt
<1>3. \A s \in Stamps : s # None
  BY <1>1, StampFacts DEF StampsFine
<1>4. CASE c = "" /\ history' = Written(NewStamp, StampOf(p))
  <2>1. /\ history' \in Seq([written : Nat, source : Nat, superseded : Nat])
        /\ Len(history') = NewStamp
        /\ \A s \in Stamps :
              /\ history'[s].source = history[s].source
              /\ history'[s].superseded = IF s = StampOf(p) THEN now ELSE history[s].superseded
        /\ history'[NewStamp].source = NewStamp /\ history'[NewStamp].superseded = Never
    BY <1>1, <1>4, WrittenIs
  <2> QED
    BY <1>2, <1>3, <1>4, <2>1
<1>5. CASE c # "" /\ There(p, "") /\ history' = Written(StampOf(p), None)
  <2>1. StampAt(p, "") \in Stamps /\ StampOf(p) = StampAt(p, "")
    BY <1>1, <1>2, <1>5, StampFacts DEF StampsFine
  <2>2. StampOf(p) \in 1 .. NewStamp
    <3> DEFINE s == StampOf(p)
               n == Len(history)
    <3>1. s \in 1 .. n /\ n \in Nat
      BY <1>1, <2>1 DEF Stamps
    <3> HIDE DEF s, n
    <3>2. s \in 1 .. n + 1
      BY <3>1
    <3> QED
      BY <3>2 DEF NewStamp, s, n
  <2>3. /\ history' \in Seq([written : Nat, source : Nat, superseded : Nat])
        /\ Len(history') = NewStamp
        /\ \A s \in Stamps :
              /\ history'[s].source = history[s].source
              /\ history'[s].superseded = IF s = None THEN now ELSE history[s].superseded
        /\ history'[NewStamp].source = StampOf(p) /\ history'[NewStamp].superseded = Never
    BY <1>5, <2>2, WrittenIs
  <2> QED
    BY <1>3, <1>5, <2>1, <2>3
<1> QED
  BY <1>4, <1>5 DEF Rewrites

(* ... and to the other files: nothing.                                    *)
LEMMA OthersStay ==
  ASSUME DirectoryInv, NEW p \in Paths, NEW c \in Codings, Rewrites(p, c),
         NEW q \in Paths, NEW d \in Codings, <<q, d>> # <<p, c>>
  PROVE  /\ There(q, d)' = There(q, d)
         /\ There(q, d) => StampAt(q, d)' = StampAt(q, d)
<1>1. <<q, d>> \in Files /\ <<p, "">> \in Files
  BY DEF Files, Codings
<1>2. disk'[<<q, d>>] = disk[<<q, d>>]
  BY <1>1 DEF Rewrites
<1>3. ASSUME There(q, d) PROVE StampAt(q, d)' = StampAt(q, d)
  <2> DEFINE i == disk[<<q, d>>]
  <2>1. i \in 1 .. Len(store) /\ i # None
    BY <1>3, StampFacts DEF StampsFine, There
  <2>2. CASE store'[i] = store[i]
    BY <1>2, <2>2 DEF StampAt
  <2>3. CASE c = "" /\ disk[<<p, "">>] = i
    <3>1. <<q, d>> = <<p, "">>
      BY <1>1, <2>1, <2>3 DEF DirectoryInv, DirectoryShape
    <3> QED
      BY <2>3, <3>1
  <2> HIDE DEF i
  <2> QED
    BY <2>1, <2>2, <2>3 DEF Rewrites, i
<1> QED
  BY <1>2, <1>3 DEF There

(* The changed file, if it is there, is a new content of its original.     *)
LEMMA RewrittenFile ==
  ASSUME DirectoryInv, NEW p \in Paths, NEW c \in Codings, Rewrites(p, c), There(p, c)'
  PROVE  /\ StampAt(p, c)' = NewStamp /\ Sup(StampAt(p, c))' = Never
         /\ There(p, "")' /\ Src(StampAt(p, c))' = StampAt(p, "")'
         /\ Belongs(p, StampAt(p, c))'
<1>1. StampAt(p, c)' = NewStamp
  BY DEF Rewrites
<1>2. CASE c = ""
  <2>1. Src(StampAt(p, c))' = NewStamp
    BY <1>1, <1>2, RewrittenHistory DEF Src
  <2>2. history'[NewStamp].superseded = Never /\ history'[NewStamp].source = NewStamp
    BY <1>2, RewrittenHistory
  <2>3. Sup(StampAt(p, c))' = Never
    BY <2>1, <2>2 DEF Sup
  <2> QED
    BY <1>1, <1>2, <2>1, <2>3 DEF Belongs
<1>3. CASE c # ""
  <2>1. "" \in Codings /\ There(p, "") /\ StampAt(p, "") \in Stamps
    BY <1>3, RewrittenHistory, StampFacts DEF Codings, StampsFine
  <2>2. There(p, "")' /\ StampAt(p, "")' = StampAt(p, "")
    BY <1>3, <2>1, OthersStay
  <2>3. Src(StampAt(p, c))' = StampAt(p, "")
    BY <1>1, <1>3, RewrittenHistory DEF Src
  <2>4. history'[StampAt(p, "")].superseded = Never
    BY <1>3, <2>1, RewrittenHistory DEF DirectoryInv, OriginalsCurrent
  <2> QED
    <3>1. Sup(StampAt(p, c))' = Never
      BY <2>3, <2>4 DEF Sup
    <3> QED
      BY <1>1, <2>2, <2>3, <3>1 DEF Belongs
<1> QED
  BY <1>2, <1>3

LEMMA RewritesShape ==
  ASSUME DirectoryInv, NEW p \in Paths, NEW c \in Codings, Rewrites(p, c)
  PROVE  DirectoryShape'
<1> DEFINE n == Len(history)
           size == Len(store)
<1>1. /\ n \in Nat /\ size \in Nat /\ NewStamp = n + 1 /\ Stamps = 1 .. n /\ Stamps' = 1 .. NewStamp
      /\ now \in 0 .. MaxTime /\ now \in Nat /\ now' = now
  BY StampFacts, RewrittenHistory DEF StampsFine, NewStamp, Stamps, Rewrites, DirectoryInv, DirectoryShape
<1>2. \A s \in Stamps' : s \in Stamps \/ s = NewStamp
  BY <1>1
<1>3. ASSUME NEW s \in Stamps'
      PROVE  /\ Src(s)' \in Stamps'
             /\ history'[s].superseded \in 0 .. now' \/ history'[s].superseded = Never
  <2>1. CASE s \in Stamps
    <3>1. Src(s)' = Src(s)
      BY <2>1, RewrittenHistory DEF Src
    <3>2. Src(s)' \in Stamps'
      <4>1. Src(s) \in Stamps
        BY <2>1, StampFacts DEF StampsFine
      <4>2. Stamps \subseteq Stamps'
        BY <1>1
      <4> QED
        BY <3>1, <4>1, <4>2
    <3>3. history[s].superseded \in 0 .. now \/ history[s].superseded = Never
      BY <2>1 DEF DirectoryInv, DirectoryShape
    <3>4. history'[s].superseded = now \/ history'[s].superseded = history[s].superseded
      BY <2>1, RewrittenHistory
    <3>5. now \in 0 .. now'
      BY <1>1
    <3> QED
      BY <1>1, <3>2, <3>3, <3>4, <3>5
  <2>2. CASE s = NewStamp
    <3>1. history'[s].superseded = Never
      BY <2>2, RewrittenHistory
    <3>2. NewStamp \in Stamps'
      BY <1>1
    <3>3. Src(s)' = NewStamp \/ (There(p, "") /\ Src(s)' = StampAt(p, ""))
      BY <2>2, RewrittenHistory DEF Src
    <3>4. "" \in Codings
      BY DEF Codings
    <3>5. There(p, "") => StampAt(p, "") \in Stamps
      BY <3>4, StampFacts DEF StampsFine
    <3>6. Stamps \subseteq Stamps'
      BY <1>1
    <3> QED
      BY <3>1, <3>2, <3>3, <3>5, <3>6
  <2> QED
    BY <1>2, <2>1, <2>2
<1> DEFINE New(i) == store'[i].stamp = NewStamp
           size2 == Len(store')
<1>4. /\ store' \in Seq([stamp : Nat, size : Sizes]) /\ size2 \in Nat /\ size <= size2
      /\ disk' \in [Files -> (1 .. size2) \cup {None}]
  <2>1. store' \in Seq([stamp : Nat, size : Sizes]) /\ size <= size2
        /\ disk' \in [Files -> (1 .. size2) \cup {None}]
    BY DEF Rewrites
  <2>2. size2 \in Nat
    BY <2>1
  <2> QED
    BY <2>1, <2>2
<1>5. ASSUME NEW i \in 1 .. size2
      PROVE  \/ i \in 1 .. size /\ store'[i] = store[i]
             \/ New(i) /\ c = "" /\ disk[<<p, "">>] = i /\ disk'[<<p, "">>] = i /\ i \in 1 .. size
             \/ New(i) /\ i = size + 1
  <2>1. CASE i > size
    BY <2>1 DEF Rewrites
  <2>2. CASE ~(i > size)
    <3>1. i \in 1 .. size
      <4> HIDE DEF size, size2
      <4> QED
        BY <1>1, <1>4, <2>2
    <3> QED
      BY <3>1 DEF Rewrites
  <2> QED
    BY <2>1, <2>2
<1>6. \A i \in 1 .. size : store[i].stamp \in Stamps
  BY DEF DirectoryInv, DirectoryShape
<1>7. NewStamp \notin Stamps /\ NewStamp \in Stamps' /\ Stamps \subseteq Stamps'
  <2> HIDE DEF n
  <2> QED
    BY <1>1
<1>8. \A i \in 1 .. size2 : store'[i].stamp \in Stamps'
  BY <1>5, <1>6, <1>7
<1>9. ASSUME NEW i \in 1 .. size2, NEW j \in 1 .. size2, store'[i].stamp = store'[j].stamp
      PROVE  i = j
  <2>1. CASE ~New(i)
    <3>1. i \in 1 .. size /\ store'[i] = store[i]
      BY <1>5, <2>1
    <3>2. j \in 1 .. size /\ store'[j] = store[j]
      BY <1>5, <1>9, <2>1
    <3> QED
      BY <1>9, <3>1, <3>2 DEF DirectoryInv, DirectoryShape
  <2>2. CASE New(i)
    <3>1. \A k \in 1 .. size2 : New(k) => ~(k \in 1 .. size /\ store'[k] = store[k])
      BY <1>6, <1>7
    <3>2. New(j)
      BY <1>9, <2>2
    <3>3. (c = "" /\ disk'[<<p, "">>] = i /\ i \in 1 .. size) \/ i = size + 1
      BY <1>5, <2>2, <3>1
    <3>4. (c = "" /\ disk'[<<p, "">>] = j /\ j \in 1 .. size) \/ j = size + 1
      BY <1>5, <3>1, <3>2
    <3>5. c = "" /\ (i = size + 1 \/ j = size + 1) => disk'[<<p, "">>] = size + 1
      <4>1. i = size + 1 \/ j = size + 1 => size2 # size
        <5> HIDE DEF size, size2
        <5> QED
          BY <1>1, <1>4
      <4> QED
        BY <4>1 DEF Rewrites
    <3>6. size + 1 \notin 1 .. size
      <4> HIDE DEF size
      <4> QED
        BY <1>1
    <3> QED
      <4> DEFINE seat == disk'[<<p, "">>]
                 old == 1 .. size
                 new == size + 1
      <4>1. (c = "" /\ seat = i /\ i \in old) \/ i = new
        BY <3>3
      <4>2. (c = "" /\ seat = j /\ j \in old) \/ j = new
        BY <3>4
      <4>3. c = "" /\ (i = new \/ j = new) => seat = new
        BY <3>5
      <4>4. new \notin old
        BY <3>6
      <4> HIDE DEF seat, old, new, size, size2, New
      <4>5. CASE i = new
        <5>1. j = new
          BY <4>2, <4>3, <4>4, <4>5
        <5> QED
          BY <4>5, <5>1
      <4>6. CASE i # new
        <5>1. c = "" /\ seat = i /\ i \in old
          BY <4>1, <4>6
        <5>2. j # new
          BY <4>3, <4>6, <5>1
        <5>3. seat = j
          BY <4>2, <5>2
        <5> QED
          BY <5>1, <5>3
      <4> QED
        BY <4>5, <4>6
  <2> QED
    BY <2>1, <2>2
<1>10. ASSUME NEW f \in Files, NEW g \in Files, disk'[f] # None, disk'[f] = disk'[g]
       PROVE  f = g
  <2> DEFINE file == <<p, c>>
  <2>1. /\ \A e \in Files : e # file => disk'[e] = disk[e]
        /\ disk'[file] \in {disk[file], None, size + 1}
    BY DEF Rewrites
  <2>2. \A e \in Files : disk[e] # None => disk[e] \in 1 .. size
    BY DEF DirectoryInv, DirectoryShape
  <2>3. size + 1 \notin 1 .. size /\ file \in Files
    <3>1. file \in Files
      BY DEF Files
    <3>2. size + 1 \notin 1 .. size
      <4> HIDE DEF size
      <4> QED
        BY <1>1
    <3> QED
      BY <3>1, <3>2
  <2>4. \A e, h \in Files : disk[e] # None /\ disk[e] = disk[h] => e = h
    BY DEF DirectoryInv, DirectoryShape
  <2> HIDE DEF file, size
  <2>5. CASE f # file /\ g # file
    BY <1>10, <2>1, <2>4, <2>5
  <2>6. CASE f = file /\ g # file
    BY <1>10, <2>1, <2>2, <2>3, <2>4, <2>6
  <2>7. CASE f # file /\ g = file
    BY <1>10, <2>1, <2>2, <2>3, <2>4, <2>7
  <2> QED
    BY <2>5, <2>6, <2>7
<1>11. history' \in Seq([written : Nat, source : Nat, superseded : Nat])
  BY RewrittenHistory
<1> QED
  <2>1. now' \in 0 .. MaxTime
    BY <1>1
  <2> HIDE DEF New
  <2> QED
    BY <1>3, <1>4, <1>8, <1>9, <1>10, <1>11, <2>1 DEF DirectoryShape

LEMMA RewritesOriginals ==
  ASSUME DirectoryInv, NEW p \in Paths, NEW c \in Codings, Rewrites(p, c)
  PROVE  OriginalsCurrent'
<1>1. "" \in Codings /\ now < Never /\ now \in Nat /\ Never \in Nat
  BY StampFacts DEF Codings, StampsFine
<1>4. now # Never
  BY StampFacts DEF StampsFine
<1>2. ASSUME NEW q \in Paths, There(q, "")'
      PROVE  /\ Src(StampAt(q, ""))' = StampAt(q, "")'
             /\ history'[StampAt(q, "")'].superseded = Never
  <2>1. CASE q = p /\ c = ""
    <3>1. StampAt(q, "")' = NewStamp
      BY <1>2, <2>1, RewrittenFile
    <3> QED
      BY <2>1, <3>1, RewrittenHistory DEF Src
  <2>2. CASE ~(q = p /\ c = "")
    <3>1. There(q, "") /\ StampAt(q, "")' = StampAt(q, "")
      <4>1. <<q, "">> # <<p, c>>
        BY <2>2
      <4>2. There(q, "")' = There(q, "") /\ (There(q, "") => StampAt(q, "")' = StampAt(q, ""))
        BY <1>1, <4>1, OthersStay
      <4> QED
        BY <1>2, <4>2
    <3>2. /\ StampAt(q, "") \in Stamps /\ Src(StampAt(q, "")) = StampAt(q, "")
          /\ history[StampAt(q, "")].superseded = Never
      BY <1>1, <3>1, StampFacts DEF StampsFine, DirectoryInv, OriginalsCurrent
    <3>3. ASSUME c = "", There(p, ""), StampAt(q, "") = StampAt(p, "") PROVE FALSE
      <4>1. disk[<<q, "">>] \in 1 .. Len(store) /\ disk[<<p, "">>] \in 1 .. Len(store)
        BY <1>1, <3>1, <3>3, StampFacts DEF StampsFine
      <4>2. disk[<<q, "">>] = disk[<<p, "">>]
        BY <3>3, <4>1 DEF StampAt, DirectoryInv, DirectoryShape
      <4>3. <<q, "">> \in Files /\ <<p, "">> \in Files
        BY <1>1 DEF Files
      <4>4. <<q, "">> = <<p, "">>
        BY <3>1, <4>2, <4>3 DEF There, DirectoryInv, DirectoryShape
      <4> QED
        BY <2>2, <3>3, <4>4
    <3>4. /\ history'[StampAt(q, "")].source = history[StampAt(q, "")].source
          /\ history'[StampAt(q, "")].superseded = history[StampAt(q, "")].superseded
      BY <3>2, <3>3, RewrittenHistory
    <3> QED
      BY <3>1, <3>2, <3>4 DEF Src
  <2> QED
    BY <2>1, <2>2
<1>3. ASSUME NEW q \in Paths, NEW d \in Codings, There(q, d)'
      PROVE  /\ Belongs(q, StampAt(q, d))'
             /\ There(q, "")' /\ StampAt(q, d)' > StampAt(q, "")' =>
                    Src(StampAt(q, d))' = StampAt(q, "")'
  <2>1. CASE q = p /\ d = c
    BY <1>3, <2>1, RewrittenFile
  <2>2. CASE ~(q = p /\ d = c)
    <3>0. <<q, d>> # <<p, c>>
      BY <2>2
    <3>9. There(q, d) /\ StampAt(q, d)' = StampAt(q, d)
      BY <1>3, <3>0, OthersStay
    <3>1. There(q, d) /\ StampAt(q, d)' = StampAt(q, d) /\ StampAt(q, d) \in Stamps
      BY <3>9, StampFacts DEF StampsFine
    <3>2. PICK s \in Stamps : s = StampAt(q, d)
      BY <3>1
    <3>3. /\ Belongs(q, s)
          /\ There(q, "") /\ s > StampAt(q, "") => Src(s) = StampAt(q, "")
      BY <3>1, <3>2 DEF DirectoryInv, OriginalsCurrent
    <3>4. Src(s)' = Src(s) /\ Src(s) \in Stamps
      BY StampFacts, RewrittenHistory DEF StampsFine, Src
    <3>5. Sup(s)' = IF c = "" /\ There(p, "") /\ Src(s) = StampAt(p, "") THEN now ELSE Sup(s)
      <4> DEFINE o == Src(s)
      <4>1. Sup(s) = history[o].superseded /\ Sup(s)' = history'[o].superseded
        BY <3>4 DEF Sup
      <4>2. o \in Stamps
        BY <3>4
      <4> HIDE DEF o
      <4>3. history'[o].superseded = IF c = "" /\ There(p, "") /\ o = StampAt(p, "") THEN now ELSE history[o].superseded
        BY <4>2, RewrittenHistory
      <4> QED
        BY <4>1, <4>3 DEF o
    <3>6. Sup(s)' = Never => Sup(s) = Never
      BY <1>4, <3>5
    <3>7. CASE q = p /\ c = ""
      <4>1. ~(Sup(s)' = Never)
        BY <1>4, <3>3, <3>5, <3>6, <3>7 DEF Belongs
      <4>2. There(q, "")' => StampAt(q, "")' = NewStamp
        BY <3>7, RewrittenFile
      <4>3. s \in 1 .. Len(history) /\ Len(history) \in Nat
        BY StampFacts DEF Stamps, StampsFine
      <4>4. ~(s > NewStamp)
        <5> DEFINE n == Len(history)
        <5>1. s \in 1 .. n /\ n \in Nat
          BY <4>3
        <5> HIDE DEF n
        <5>2. ~(s > n + 1)
          BY <5>1
        <5> QED
          BY <5>2 DEF NewStamp, n
      <4>5. Belongs(q, s)'
        BY <4>1 DEF Belongs
      <4>6. StampAt(q, d)' = s
        BY <3>1, <3>2
      <4>7. Belongs(q, StampAt(q, d))'
        BY <4>5, <4>6 DEF Belongs
      <4>8. There(q, "")' => ~(StampAt(q, d)' > StampAt(q, "")')
        BY <4>2, <4>4, <4>6
      <4> QED
        BY <4>7, <4>8
    <3>8. CASE ~(q = p /\ c = "")
      <4>3. <<q, "">> # <<p, c>> /\ "" \in Codings
        BY <3>8 DEF Codings
      <4>1. There(q, "")' = There(q, "") /\ (There(q, "") => StampAt(q, "")' = StampAt(q, ""))
        BY <1>1, <4>3, OthersStay
      <4>2. Belongs(q, s)'
        BY <3>3, <3>4, <3>6, <4>1 DEF Belongs
      <4> QED
        BY <3>1, <3>2, <3>3, <3>4, <4>1, <4>2
    <3> QED
      BY <3>7, <3>8
  <2> QED
    BY <2>1, <2>2
<1> QED
  BY <1>2, <1>3 DEF OriginalsCurrent

LEMMA RewritesIsLater ==
  ASSUME DirectoryInv, NEW p \in Paths, NEW c \in Codings, Rewrites(p, c)
  PROVE  Later
<1>1. "" \in Codings /\ now \in Nat /\ now' = now
  BY StampFacts DEF Codings, StampsFine, Rewrites
<1>2. now # Never
  BY StampFacts DEF StampsFine
<1>3. Len(history) <= Len(history') /\ now <= now' /\ Len(store) <= Len(store')
  <2>1. Len(history) \in Nat /\ Len(history') = Len(history) + 1
    BY StampFacts, RewrittenHistory DEF StampsFine, NewStamp
  <2> DEFINE n == Len(history)
             m == Len(history')
  <2>2. n <= m
    <3> HIDE DEF n, m
    <3> QED
      BY <2>1 DEF n, m
  <2>3. now <= now'
    <3>1. now \in Nat
      BY <1>1
    <3>2. now <= now
      BY <3>1
    <3> QED
      BY <1>1, <3>2
  <2> QED
    BY <2>2, <2>3 DEF Rewrites
<1>4. ASSUME NEW s \in Stamps
      PROVE  /\ history'[s].source = history[s].source
             /\ \/ history'[s].superseded = history[s].superseded
                \/ history[s].superseded = Never /\ history'[s].superseded = now'
  BY <1>1, RewrittenHistory DEF DirectoryInv, OriginalsCurrent
<1>5. ASSUME NEW i \in 1 .. Len(store)
      PROVE  \/ store'[i].stamp = store[i].stamp
             \/ \E q \in Paths : disk[<<q, "">>] = i /\ disk'[<<q, "">>] = i
  BY DEF Rewrites
<1>6. ASSUME NEW f \in Files PROVE disk'[f] \in {disk[f], None, Len(store) + 1}
  BY DEF Rewrites
<1>7. ASSUME NEW q \in Paths, There(q, "")
      PROVE  \/ There(q, "")' /\ StampAt(q, "")' = StampAt(q, "")
             \/ history'[StampAt(q, "")].superseded # Never
  <2>1. CASE q = p /\ c = ""
    <3>1. StampAt(p, "") \in Stamps
      BY <1>1, <1>7, <2>1, StampFacts DEF StampsFine
    <3>2. history'[StampAt(p, "")].superseded = now
      BY <1>7, <2>1, <3>1, RewrittenHistory
    <3> QED
      BY <1>2, <2>1, <3>2
  <2>2. CASE ~(q = p /\ c = "")
    <3>1. <<q, "">> # <<p, c>> /\ "" \in Codings
      BY <2>2 DEF Codings
    <3>2. There(q, "")' = There(q, "") /\ (There(q, "") => StampAt(q, "")' = StampAt(q, ""))
      BY <3>1, OthersStay
    <3> QED
      BY <1>7, <3>2
  <2> QED
    BY <2>1, <2>2
<1>8. ASSUME NEW q \in Paths, NEW d \in Codings, There(q, d)'
      PROVE  \/ There(q, d) /\ StampAt(q, d)' = StampAt(q, d)
             \/ /\ StampAt(q, d)' = NewStamp
                /\ There(q, "")' /\ Src(StampAt(q, d))' = StampAt(q, "")'
  <2>1. CASE q = p /\ d = c
    BY <1>8, <2>1, RewrittenFile
  <2>2. CASE ~(q = p /\ d = c)
    <3>1. <<q, d>> # <<p, c>>
      BY <2>2
    <3>2. There(q, d)' = There(q, d) /\ (There(q, d) => StampAt(q, d)' = StampAt(q, d))
      BY <3>1, OthersStay
    <3> QED
      BY <1>8, <3>2
  <2> QED
    BY <2>1, <2>2
<1> QED
  BY <1>3, <1>4, <1>5, <1>6, <1>7, <1>8 DEF Later

(* A step that leaves the directory alone is of this kind, too.            *)
LEMMA StayingIsLater ==
  ASSUME DirectoryInv, UNCHANGED directory, now' \in 0 .. MaxTime, now <= now'
  PROVE  DirectoryInv' /\ Later
<1>1. store' = store /\ disk' = disk /\ history' = history
  BY DEF directory
<1>2. Stamps' = Stamps /\ (\A s : Src(s)' = Src(s)) /\ (\A s : Sup(s)' = Sup(s))
  BY <1>1 DEF Stamps, Src, Sup
<1>3. \A p, c : There(p, c)' = There(p, c) /\ StampAt(p, c)' = StampAt(p, c)
  BY <1>1 DEF There, StampAt
<1>4. now \in Nat /\ now' \in Nat
  BY StampFacts DEF StampsFine
<1>5. \A s \in Stamps : history'[s].superseded \in 0 .. now' \/ history'[s].superseded = Never
  <2>1. \A s \in Stamps : history[s].superseded \in 0 .. now \/ history[s].superseded = Never
    BY DEF DirectoryInv, DirectoryShape
  <2>2. 0 .. now \subseteq 0 .. now'
    BY <1>4
  <2> QED
    BY <1>1, <2>1, <2>2
<1>6. DirectoryShape'
  BY <1>1, <1>2, <1>5 DEF DirectoryInv, DirectoryShape
<1>7. OriginalsCurrent'
  <2>1. \A p \in Paths, c \in Codings : Belongs(p, StampAt(p, c))' = Belongs(p, StampAt(p, c))
    BY <1>1 DEF Belongs, There, StampAt, Src, Sup
  <2>2. \A p \in Paths, c \in Codings : Src(StampAt(p, c))' = Src(StampAt(p, c))
    BY <1>1 DEF Src, StampAt
  <2>3. \A p \in Paths : Src(StampAt(p, ""))' = Src(StampAt(p, ""))
    BY <1>1 DEF Src, StampAt
  <2> QED
    BY <1>1, <1>3, <2>1, <2>2, <2>3 DEF DirectoryInv, OriginalsCurrent
<1>8. Later
  <2>1. \A f \in Files : disk'[f] \in {disk[f], None, Len(store) + 1}
    BY <1>1
  <2>2. Len(history) <= Len(history') /\ Len(store) <= Len(store')
    <3>1. Len(history) \in Nat /\ Len(store) \in Nat
      BY StampFacts DEF StampsFine
    <3> QED
      BY <1>1, <3>1
  <2> QED
    BY <1>1, <1>3, <2>1, <2>2 DEF Later
<1> QED
  BY <1>6, <1>7, <1>8 DEF DirectoryInv

(* So is every step.                                                       *)
LEMMA StepIsLater ==
  ASSUME DirectoryInv, [Next]_vars
  PROVE  DirectoryInv' /\ Later
<1>1. ASSUME Change PROVE DirectoryInv' /\ Later
  <2>1. PICK p \in Paths, c \in Codings : Rewrites(p, c)
    BY <1>1, ChangeRewrites
  <2> QED
    BY <2>1, RewritesShape, RewritesOriginals, RewritesIsLater DEF DirectoryInv
<1>2. ASSUME UNCHANGED directory, now' = now \/ (now < MaxTime /\ now' = now + 1)
      PROVE DirectoryInv' /\ Later
  <2>1. now \in 0 .. MaxTime /\ MaxTime \in Nat
    BY BoundsAssumption DEF DirectoryInv, DirectoryShape
  <2>2. now' \in 0 .. MaxTime /\ now <= now'
    BY <1>2, <2>1
  <2> QED
    BY <1>2, <2>2, StayingIsLater
<1>3. ASSUME Next, ~Change PROVE UNCHANGED directory /\ (now' = now \/ (now < MaxTime /\ now' = now + 1))
  <2>1. ASSUME NEW t \in Threads, Receive(t) \/ Lookup(t) \/ Status(t) PROVE UNCHANGED <<directory, now>>
    BY <2>1 DEF Receive, Lookup, Status
  <2>5. ASSUME NEW t \in Threads, Stamp(t) \/ AddSibling(t) PROVE UNCHANGED <<directory, now>>
    BY <2>5 DEF Stamp, AddSibling
  <2>6. ASSUME NEW t \in Threads, Remember(t) PROVE UNCHANGED <<directory, now>>
    BY <2>6 DEF Remember
  <2>2. ASSUME NEW t \in Threads, FindContent(t) \/ Open(t) PROVE UNCHANGED <<directory, now>>
    BY <2>2 DEF FindContent, Open
  <2>3. ASSUME NEW t \in Threads, Load(t) \/ KeepContent(t) \/ SendPiece(t) PROVE UNCHANGED <<directory, now>>
    BY <2>3 DEF Load, KeepContent, SendPiece
  <2>4. ASSUME Tick PROVE UNCHANGED directory /\ now < MaxTime /\ now' = now + 1
    BY <2>4 DEF Tick
  <2>7. CASE Tick
    BY <2>4, <2>7
  <2>8. CASE ~Tick
    <3>1. PICK t \in Threads :
             \/ Receive(t) \/ Lookup(t) \/ Status(t) \/ Stamp(t) \/ AddSibling(t) \/ Remember(t)
             \/ FindContent(t) \/ Open(t) \/ Load(t) \/ KeepContent(t) \/ SendPiece(t)
      BY <1>3, <2>8 DEF Next
    <3>2. UNCHANGED <<directory, now>>
      BY <2>1, <2>2, <2>3, <2>5, <2>6, <3>1
    <3> QED
      BY <3>2
  <2> QED
    BY <2>7, <2>8
<1>4. CASE UNCHANGED vars
  BY <1>2, <1>4 DEF vars, directory
<1> QED
  BY <1>1, <1>2, <1>3, <1>4

-----------------------------------------------------------------------------
(* What is known of a file stays true, whatever happens to it.             *)

LEMMA LaterKnown ==
  ASSUME DirectoryInv, DirectoryInv', Later,
         NEW found, NEW at \in 0 .. now, NEW slack \in Nat, Known(found, at, slack)
  PROVE  Known(found, at, slack)'
<1>1. ASSUME NEW i \in 1 .. Len(found.variants)
      PROVE  /\ Seen(found.file, found.variants[i].coding, found.variants[i].stamp)'
             /\ Young(found.variants[i].stamp, at, slack)'
  <2>1. /\ Seen(found.file, found.variants[i].coding, found.variants[i].stamp)
        /\ Young(found.variants[i].stamp, at, slack)
    BY DEF Known
  <2>2. found.variants[i].stamp \in Stamps
    BY <2>1 DEF Seen
  <2> QED
    BY <2>1, <2>2, LaterSeen, LaterStamps
<1> QED
  BY <1>1 DEF Known

LEMMA LaterEntries ==
  ASSUME DirectoryInv, DirectoryInv', Later
  PROVE  MetadataEntry \subseteq MetadataEntry' /\ ContentEntry \subseteq ContentEntry'
<1>1. ASSUME NEW e \in MetadataEntry PROVE e \in MetadataEntry'
  <2>1. /\ e \in [key : Names \X Slashes, result : Found \cup NotFound, checked : Nat]
        /\ e.checked <= now /\ (e.result.kind = "file" => Known(e.result, e.checked, 0))
    BY DEF MetadataEntry
  <2>2. e.checked \in Nat
    BY <2>1
  <2>3. now \in Nat /\ now' \in Nat /\ now <= now'
    BY StampFacts, StampFactsNext DEF StampsFine, Later
  <2>4. e.checked <= now' /\ e.checked \in 0 .. now
    BY <2>1, <2>2, <2>3
  <2>5. e.result.kind = "file" => Known(e.result, e.checked, 0)'
    BY <2>1, <2>4, LaterKnown
  <2> QED
    BY <2>1, <2>4, <2>5 DEF MetadataEntry
<1>2. ASSUME NEW e \in ContentEntry PROVE e \in ContentEntry'
  <2>1. e \in [key : Files, mtime : Nat, stamp : Nat, size : Nat] /\ Follows(e.stamp, e.mtime)
    BY DEF ContentEntry
  <2>2. e.stamp \in Stamps /\ e.mtime \in Stamps
    BY <2>1 DEF Follows
  <2>3. Follows(e.stamp, e.mtime)'
    BY <2>1, <2>2, LaterStamps
  <2> QED
    BY <2>1, <2>3 DEF ContentEntry
<1> QED
  BY <1>1, <1>2

(* What is sent is one of the variants found, of the file found.           *)
LEMMA ChosenIs ==
  ASSUME NEW w, w.request \in Requests, NEW at, NEW slack, Known(w.found, at, slack)
  PROVE  /\ Seen(w.found.file, Chosen(w).coding, Chosen(w).stamp)
         /\ Young(Chosen(w).stamp, at, slack)
         /\ Chosen(w) \in Variant /\ FileOf(w) \in Files
         /\ FileOf(w) = <<w.found.file, Chosen(w).coding>>
<1>1. w.found \in Found /\ w.found.variants \in Seq(Variant) /\ Len(w.found.variants) > 0
  BY DEF Known, Found
<1>2. PICK i \in 1 .. Len(w.found.variants) : Chosen(w) = w.found.variants[i]
  BY <1>1, SelectVariantIs DEF Chosen
<1>3. Chosen(w) \in Variant
  <2> DEFINE V == Variant
  <2>1. w.found.variants \in Seq(V)
    BY <1>1
  <2>2. w.found.variants[i] \in V
    <3> HIDE DEF V
    <3> QED
      BY <2>1
  <2> QED
    BY <1>2, <2>2
<1>4. FileOf(w) = <<w.found.file, Chosen(w).coding>>
  BY DEF FileOf
<1>5. FileOf(w) \in Files
  BY <1>1, <1>3, <1>4 DEF Found, Variant, Files
<1> QED
  BY <1>2, <1>3, <1>4, <1>5 DEF Known

LEMMA LaterSiblings ==
  ASSUME DirectoryInv, DirectoryInv', Later, NEW w, w.at \in 0 .. now,
         w.found.file \in Paths, SiblingsCurrent(w)
  PROVE  SiblingsCurrent(w)'
<1> DEFINE p == w.found.file
<1> SUFFICES ASSUME NEW c \in Codings, There(p, c)', StampAt(p, c)' >= w.found.variants[1].stamp
             PROVE  Young(StampAt(p, c), w.at, 0)'
  BY DEF SiblingsCurrent
<1>1. CASE There(p, c) /\ StampAt(p, c)' = StampAt(p, c)
  <2>1. PICK s \in Stamps : s = StampAt(p, c)
    BY <1>1, StampFacts DEF StampsFine
  <2>2. Young(s, w.at, 0)
    BY <1>1, <2>1 DEF SiblingsCurrent
  <2>3. Young(s, w.at, 0)'
    BY <2>2, LaterStamps
  <2> QED
    BY <1>1, <2>1, <2>3
<1>2. CASE There(p, "")' /\ Src(StampAt(p, c))' = StampAt(p, "")'
  <2>1. Sup(StampAt(p, c))' = Never
    BY <1>2 DEF Sup, DirectoryInv, OriginalsCurrent
  <2>2. now \in Nat /\ now < Never /\ Never \in Nat
    BY StampFacts DEF StampsFine
  <2>3. w.at <= Never + 0
    BY <2>2
  <2> QED
    BY <2>1, <2>3 DEF Young
<1> QED
  BY <1>1, <1>2 DEF Later

LEMMA LaterOpened ==
  ASSUME DirectoryInv, DirectoryInv', Later, NEW w, w.at \in 0 .. now,
         w.request \in Requests, Known(w.found, w.at, Slack), Opened(w)
  PROVE  Opened(w)'
<1> DEFINE h == w.handle
           m == Chosen(w).stamp
<1>1. h \in 1 .. Len(store) /\ Follows(store[h].stamp, m) /\ \A g \in Files : disk[g] = h => g = FileOf(w)
  BY DEF Opened
<1>2. Slack \in Nat
  BY BoundsAssumption DEF Slack
<1>3. /\ Seen(w.found.file, Chosen(w).coding, m)
      /\ FileOf(w) = <<w.found.file, Chosen(w).coding>>
  BY ChosenIs
<1>4. h \in 1 .. Len(store') /\ h # Len(store) + 1 /\ h # None
  <2> DEFINE k == Len(store)
             l == Len(store')
  <2>1. k \in Nat /\ l \in Nat /\ k <= l /\ h \in 1 .. k /\ None \notin Nat
    BY <1>1, StampFacts, StampFactsNext, RequestsAssumption DEF StampsFine, Later
  <2> HIDE DEF k, l, h
  <2>2. h \in 1 .. l /\ h # k + 1 /\ h # None
    BY <2>1
  <2> QED
    BY <2>2 DEF k, l
<1>5. \A g \in Files : disk'[g] = h => g = FileOf(w)
  BY <1>1, <1>4 DEF Later
<1>6. Follows(store[h].stamp, m)'
  <2>1. CASE store'[h].stamp = store[h].stamp
    <3>1. PICK s \in Stamps : s = store[h].stamp
      BY <1>1 DEF Follows
    <3>2. m \in Stamps
      BY <1>1 DEF Follows
    <3>3. Follows(s, m)'
      BY <1>1, <3>1, <3>2, LaterStamps
    <3> QED
      BY <2>1, <3>1, <3>3
  <2>2. CASE \E p \in Paths : disk[<<p, "">>] = h /\ disk'[<<p, "">>] = h
    <3>1. PICK p \in Paths : disk[<<p, "">>] = h /\ disk'[<<p, "">>] = h
      BY <2>2
    <3>2. <<p, "">> \in Files
      BY DEF Files, Codings
    <3>7. <<p, "">> = FileOf(w)
      BY <1>1, <3>1, <3>2
    <3>8. <<p, "">> = <<w.found.file, Chosen(w).coding>>
      BY <1>3, <3>7
    <3>3. p = w.found.file /\ Chosen(w).coding = ""
      <4> DEFINE q == w.found.file
                 d == Chosen(w).coding
                 none == ""
      <4>1. <<p, none>> = <<q, d>>
        BY <3>8
      <4> HIDE DEF q, d, none
      <4>2. p = q /\ none = d
        BY <4>1
      <4> QED
        BY <4>2 DEF q, d, none
    <3>4. Seen(p, "", m)'
      BY <1>3, <3>3, LaterSeen
    <3>5. There(p, "")' /\ StampAt(p, "")' = store'[h].stamp
      BY <1>4, <3>1 DEF There, StampAt
    <3>6. Follows(StampAt(p, ""), m)'
      BY <3>4, <3>5 DEF Seen
    <3> QED
      BY <3>5, <3>6
  <2> QED
    BY <1>1, <2>1, <2>2 DEF Later
<1> QED
  BY <1>4, <1>5, <1>6 DEF Opened

LEMMA LaterThread ==
  ASSUME DirectoryInv, DirectoryInv', Later, NEW w, ThreadInv(w)
  PROVE  ThreadInv(w)'
<1>1. now \in Nat /\ now' \in Nat /\ now <= now'
  BY StampFacts, StampFactsNext DEF StampsFine, Later
<1>2. ASSUME w.at \in 0 .. now PROVE w.at \in 0 .. now'
  BY <1>1, <1>2
<1>3. Slack \in Nat
  BY BoundsAssumption DEF Slack
<1>4. CASE w.pc \in {"idle", "answered"} /\ AnswerInv(w)
  <2>1. AnswerInv(w)'
    <3> SUFFICES ASSUME "tag" \in DOMAIN w
                 PROVE  /\ w.at \in 0 .. now' /\ w.stamp \in Stamps' /\ Young(w.stamp, w.at, Slack)'
                        /\ w.tag.stamp <= w.stamp
      BY DEF AnswerInv
    <3>1. /\ w.at \in 0 .. now /\ w.stamp \in Stamps /\ Young(w.stamp, w.at, Slack)
          /\ w.tag.stamp <= w.stamp
      BY <1>4 DEF AnswerInv
    <3>2. Young(w.stamp, w.at, Slack)' /\ w.stamp \in Stamps'
      BY <1>3, <3>1, LaterStamps
    <3> QED
      BY <1>2, <3>1, <3>2
  <2> QED
    BY <1>4, <2>1 DEF ThreadInv
<1>5. CASE w.pc \in Stages /\ StageInv(w)
  <2> USE <1>5 DEF StageInv
  <2>1. w.pc # "lookup" => w.at \in 0 .. now'
    BY <1>2
  <2>2. w.pc = "siblings" => /\ Known(w.found, w.at, 0)' /\ SiblingsCurrent(w)'
                             /\ w.looked \in 0 .. Len(Precompressed) - 1
    BY LaterKnown, LaterSiblings DEF Known, Found
  <2>3. w.pc = "remember" => w.found \in NotFound \/ Known(w.found, w.at, 0)'
    BY LaterKnown
  <2>4. w.pc \in WithBytes => Known(w.found, w.at, Slack)'
    BY <1>3, LaterKnown DEF WithBytes
  <2>5. w.pc \in {"load", "sending"} => Opened(w)'
    BY LaterOpened DEF WithBytes
  <2>6. w.pc = "keep" => w.read \in ContentEntry' /\ w.read.mtime = Chosen(w).stamp
    BY LaterEntries
  <2>7. StageInv(w)'
    BY <2>1, <2>2, <2>3, <2>4, <2>5, <2>6
  <2> QED
    BY <2>7 DEF ThreadInv
<1> QED
  BY <1>4, <1>5 DEF ThreadInv

-----------------------------------------------------------------------------
(* What a thread's step has to show.                                       *)

Acts(t) == \E x : thread' = [thread EXCEPT ![t] = x] /\ ThreadInv(x)

LEMMA ThreadStep ==
  ASSUME IInv, [Next]_vars, NEW t \in Threads, Acts(t),
         metadata' \in Seq(MetadataEntry), content' \in Seq(ContentEntry)
  PROVE  IInv'
<1>1. DirectoryInv /\ DirectoryInv' /\ Later
  BY StepIsLater DEF IInv
<1>2. CachesInv'
  <2>1. MetadataEntry \subseteq MetadataEntry' /\ ContentEntry \subseteq ContentEntry'
    BY <1>1, LaterEntries
  <2> QED
    BY <2>1, SeqGrows DEF CachesInv
<1>3. ThreadsInv'
  <2>1. PICK x : thread' = [thread EXCEPT ![t] = x] /\ ThreadInv(x)
    BY DEF Acts
  <2>2. DOMAIN thread' = Threads
    BY <2>1 DEF IInv, ThreadsInv
  <2>3. ASSUME NEW u \in Threads PROVE ThreadInv(thread[u])'
    <3>1. PICK w : w = IF u = t THEN x ELSE thread[u]
      OBVIOUS
    <3>2. ThreadInv(w)
      BY <2>1, <3>1 DEF IInv, ThreadsInv
    <3>3. ThreadInv(w)'
      BY <1>1, <3>2, LaterThread
    <3>4. thread'[u] = w
      BY <2>1, <3>1 DEF IInv, ThreadsInv
    <3> QED
      BY <3>3, <3>4
  <2> QED
    BY <2>2, <2>3 DEF ThreadsInv
<1> QED
  BY <1>1, <1>2, <1>3 DEF IInv

LEMMA YoungFollows ==
  ASSUME DirectoryInv, NEW s, NEW m, NEW at \in 0 .. now, NEW slack \in Nat,
         Follows(s, m), Young(m, at, slack)
  PROVE  Young(s, at, slack)
<1>1. s \in Stamps /\ m \in Stamps
  BY DEF Follows
<1>2. Sup(s) \in Nat /\ Sup(m) \in Nat /\ at \in Nat
  BY <1>1, StampFacts DEF StampsFine
<1>3. CASE Src(m) = Src(s)
  BY <1>3 DEF Young, Sup
<1>4. CASE Sup(m) <= Sup(s)
  BY <1>2, <1>4 DEF Young
<1> QED
  BY <1>3, <1>4 DEF Follows

LEMMA KnownWeakens ==
  ASSUME DirectoryInv, NEW found, NEW early \in Nat, NEW at \in 0 .. now, NEW slack \in Nat,
         early <= at, at <= early + slack, Known(found, early, 0)
  PROVE  Known(found, at, slack)
<1>1. ASSUME NEW i \in 1 .. Len(found.variants) PROVE Young(found.variants[i].stamp, at, slack)
  <2> DEFINE s == found.variants[i].stamp
  <2>1. Young(s, early, 0) /\ s \in Stamps
    BY DEF Known, Seen
  <2>2. Sup(s) \in Nat /\ at \in Nat
    BY <2>1, StampFacts DEF StampsFine
  <2>3. early <= Sup(s)
    <3> HIDE DEF s
    <3> QED
      BY <2>1, <2>2 DEF Young
  <2> HIDE DEF s
  <2> QED
    BY <2>2, <2>3 DEF Young, s
<1> QED
  BY <1>1 DEF Known

LEMMA SlackIs == Slack \in Nat /\ Slack + 1 = RevalidateAfter /\ RevalidateAfter \in Nat
BY BoundsAssumption DEF Slack

-----------------------------------------------------------------------------
(* Answers. *)

LEMMA Refused ==
  ASSUME NEW status
  PROVE  ThreadInv(Answered(status))
BY DEF Answered, ThreadInv, AnswerInv

LEMMA AnswerIs ==
  ASSUME DirectoryInv, NEW w, w.request \in Requests, w.at \in 0 .. now, Known(w.found, w.at, Slack),
         NEW stamp, Follows(stamp, Chosen(w).stamp)
  PROVE  /\ \A status : ThreadInv(Answer(w, status, stamp))
         /\ \A sent : ThreadInv(SentAnswer(w, stamp, sent))
<1>1. Young(Chosen(w).stamp, w.at, Slack)
  BY SlackIs, ChosenIs
<1>2. Young(stamp, w.at, Slack)
  BY <1>1, SlackIs, YoungFollows
<1>3. stamp \in Stamps /\ Tag(Chosen(w)).stamp <= stamp
  BY DEF Follows, Tag
<1>4. ASSUME NEW x, x.pc = "answered", x.at = w.at, x.stamp = stamp, x.tag = Tag(Chosen(w))
      PROVE  ThreadInv(x)
  BY <1>2, <1>3, <1>4 DEF ThreadInv, AnswerInv
<1>5. ASSUME NEW status PROVE ThreadInv(Answer(w, status, stamp))
  <2> DEFINE x == Answer(w, status, stamp)
  <2>1. x.pc = "answered" /\ x.at = w.at /\ x.stamp = stamp /\ x.tag = Tag(Chosen(w))
    BY DEF Answer
  <2> HIDE DEF x
  <2>2. ThreadInv(x)
    BY <1>4, <2>1
  <2> QED
    BY <2>2 DEF x
<1>6. ASSUME NEW sent PROVE ThreadInv(SentAnswer(w, stamp, sent))
  <2> DEFINE x == SentAnswer(w, stamp, sent)
  <2>1. x.pc = "answered" /\ x.at = w.at /\ x.stamp = stamp /\ x.tag = Tag(Chosen(w))
    BY DEF SentAnswer
  <2> HIDE DEF x
  <2>2. ThreadInv(x)
    BY <1>4, <2>1
  <2> QED
    BY <2>2 DEF x
<1> QED
  BY <1>5, <1>6

LEMMA FollowsItself ==
  ASSUME NEW s \in Stamps, DirectoryInv
  PROVE  Follows(s, s)
<1>1. s \in Nat
  BY StampFacts DEF StampsFine
<1> QED
  BY <1>1 DEF Follows

LEMMA ServedIs ==
  ASSUME NEW w
  PROVE  \/ \E status : Served(w) = Answered(status)
         \/ \E status : Served(w) = Answer(w, status, Chosen(w).stamp)
         \/ Served(w) = [w EXCEPT !.pc = "content"] /\ Chosen(w).size # 0
BY DEF Served

LEMMA DecidedIs ==
  ASSUME DirectoryInv, NEW w, DOMAIN w = Fields, w.request \in Requests, w.path \in Names,
         w.slash \in Slashes, w.at \in 0 .. now, w.found \in NotFound \/ Known(w.found, w.at, Slack)
  PROVE  ThreadInv(Decided(w))
<1>1. CASE WantsFallback(w)
  <2> DEFINE x == [w EXCEPT !.pc = "lookup", !.path = Fallback, !.slash = FALSE, !.fallback = TRUE]
  <2>1. /\ DOMAIN x = Fields /\ x.pc = "lookup" /\ x.path = Fallback /\ x.slash = FALSE
        /\ x.request = w.request
    BY DEF Fields
  <2>2. Decided(w) = x
    BY <1>1 DEF Decided
  <2> HIDE DEF x
  <2>3. StageInv(x)
    BY <2>1 DEF StageInv, WithBytes, Names, Slashes
  <2> QED
    BY <2>1, <2>2, <2>3 DEF ThreadInv, Stages
<1>2. CASE ~WantsFallback(w) /\ w.found.kind # "file"
  <2>1. PICK status : Decided(w) = Answered(status)
    BY <1>2 DEF Decided
  <2> QED
    BY <2>1, Refused
<1>3. CASE ~WantsFallback(w) /\ w.found.kind = "file"
  <2>1. Known(w.found, w.at, Slack)
    BY <1>3 DEF NotFound
  <2> DEFINE m == Chosen(w).stamp
             x == [w EXCEPT !.pc = "content"]
  <2>2. \A status : ThreadInv(Answer(w, status, m))
    <3>1. m \in Stamps
      BY <2>1, ChosenIs DEF Seen
    <3>2. Follows(m, m)
      BY <3>1, FollowsItself
    <3> QED
      BY <2>1, <3>2, AnswerIs
  <2>3. ThreadInv(x)
    <3>1. /\ DOMAIN x = Fields /\ x.pc = "content" /\ x.path = w.path /\ x.slash = w.slash
          /\ x.request = w.request /\ x.at = w.at /\ x.found = w.found
      BY DEF Fields
    <3> HIDE DEF x
    <3>2. StageInv(x)
      BY <2>1, <3>1 DEF StageInv, WithBytes
    <3> QED
      BY <3>1, <3>2 DEF ThreadInv, Stages
  <2>4. \/ \E status : Decided(w) = Answered(status)
        \/ \E status : Decided(w) = Answer(w, status, m)
        \/ Decided(w) = x
    BY <1>3, ServedIs DEF Decided
  <2> QED
    BY <2>2, <2>3, <2>4, Refused
<1> QED
  BY <1>1, <1>2, <1>3

-----------------------------------------------------------------------------
(* A thread's steps.                                                       *)

Keeps == metadata' \in Seq(MetadataEntry) /\ content' \in Seq(ContentEntry)

LEMMA StageOf ==
  ASSUME IInv, NEW t \in Threads, thread[t].pc \in Stages
  PROVE  StageInv(thread[t])
BY DEF IInv, ThreadsInv, ThreadInv, Stages

LEMMA CachesKept ==
  ASSUME IInv, UNCHANGED caches
  PROVE  Keeps
BY DEF IInv, CachesInv, caches, Keeps

(* A round of serve's loop may begin with any request.                     *)
LEMMA LookingUpIs ==
  ASSUME NEW r \in Requests, NEW held
  PROVE  /\ ThreadInv(LookingUp(r, held))
         /\ ThreadInv([LookingUp(r, held) EXCEPT !.fresh = TRUE])
<1>1. ASSUME NEW x, DOMAIN x = Fields, x.pc = "lookup", x.request = r, x.path = r.path, x.slash = r.slash
      PROVE  ThreadInv(x)
  <2>1. StageInv(x)
    BY <1>1 DEF StageInv, WithBytes, Names, Slashes
  <2> QED
    BY <1>1, <2>1 DEF ThreadInv, Stages
<1> DEFINE x == LookingUp(r, held)
           y == [x EXCEPT !.fresh = TRUE]
<1>2. DOMAIN x = Fields /\ x.pc = "lookup" /\ x.request = r /\ x.path = r.path /\ x.slash = r.slash
  BY DEF LookingUp, Fields
<1>3. DOMAIN y = Fields /\ y.pc = "lookup" /\ y.request = r /\ y.path = r.path /\ y.slash = r.slash
  <2> HIDE DEF x
  <2> QED
    BY <1>2
<1> HIDE DEF x, y
<1>4. ThreadInv(x) /\ ThreadInv(y)
  BY <1>1, <1>2, <1>3
<1> QED
  BY <1>4 DEF x, y

LEMMA ChangedIs ==
  ASSUME NEW w, w.request \in Requests
  PROVE  ThreadInv(Changed(w))
BY Refused, LookingUpIs DEF Changed

LEMMA ReceiveStep ==
  ASSUME IInv, NEW t \in Threads, Receive(t)
  PROVE  Acts(t) /\ Keeps
<1>1. PICK r \in Requests :
        thread' = [thread EXCEPT ![t] = IF Refusal(r) # None THEN Answered(Refusal(r))
                                        ELSE LookingUp(r, Conditions(r, copy[t]))]
  BY DEF Receive
<1>2. Acts(t)
  BY <1>1, Refused, LookingUpIs DEF Acts
<1> QED
  BY <1>2, CachesKept DEF Receive

LEMMA LookupStep ==
  ASSUME IInv, NEW t \in Threads, Lookup(t)
  PROVE  Acts(t) /\ Keeps
<1> DEFINE w == thread[t]
           key == KeyOf(w)
           known == MetadataEntries > 0 /\ ~w.fresh /\ Holds(metadata, key)
           entry == EntryOf(metadata, key)
           hit == known /\ now - entry.checked < RevalidateAfter
<1>1. DirectoryInv /\ metadata \in Seq(MetadataEntry) /\ content \in Seq(ContentEntry)
  BY DEF IInv, CachesInv
<1>2. now \in Nat /\ now \in 0 .. now
  BY <1>1, StampFacts DEF StampsFine
<1>3. w.pc = "lookup" /\ DOMAIN w = Fields /\ w.request \in Requests /\ w.path \in Names /\ w.slash \in Slashes
  BY StageOf DEF Lookup, Stages, StageInv
<1>4. Keeps
  <2>1. metadata' = IF known THEN Touched(metadata, key) ELSE metadata
    BY DEF Lookup
  <2>2. known => Touched(metadata, key) \in Seq(MetadataEntry)
    BY <1>1, TouchedKeeps
  <2> QED
    BY <1>1, <2>1, <2>2 DEF Keeps, Lookup
<1>5. CASE hit
  <2> DEFINE x == [w EXCEPT !.at = now, !.found = entry.result]
  <2>1. thread' = [thread EXCEPT ![t] = Decided(x)]
    BY <1>5 DEF Lookup
  <2>2. entry \in MetadataEntry
    BY <1>1, <1>5, TouchedKeeps
  <2>3. /\ DOMAIN x = Fields /\ x.request \in Requests /\ x.path \in Names /\ x.slash \in Slashes
        /\ x.at = now /\ x.found = entry.result
    BY <1>3 DEF Fields
  <2>4. entry.result \in NotFound \/ Known(entry.result, now, Slack)
    <3>1. /\ entry.result \in Found \cup NotFound /\ entry.checked \in Nat /\ entry.checked <= now
          /\ entry.result.kind = "file" => Known(entry.result, entry.checked, 0)
      BY <2>2 DEF MetadataEntry
    <3>2. CASE entry.result.kind = "file"
      <4> DEFINE early == entry.checked
      <4>1. early \in Nat /\ early <= now /\ Known(entry.result, early, 0) /\ now - early < RevalidateAfter
        BY <1>5, <3>1, <3>2
      <4> HIDE DEF early
      <4>2. now <= early + Slack
        BY <1>2, <4>1, SlackIs
      <4> QED
        BY <1>1, <1>2, <4>1, <4>2, SlackIs, KnownWeakens
    <3>3. CASE entry.result.kind # "file"
      BY <3>1, <3>3 DEF Found
    <3> QED
      BY <3>2, <3>3
  <2> HIDE DEF x
  <2>5. ThreadInv(Decided(x))
    BY <1>1, <1>2, <2>3, <2>4, DecidedIs
  <2> QED
    BY <1>4, <2>1, <2>5 DEF Acts
<1>6. CASE ~hit
  <2> DEFINE x == [w EXCEPT !.at = now, !.pc = "status"]
  <2>1. thread' = [thread EXCEPT ![t] = x]
    BY <1>6 DEF Lookup
  <2>2. /\ DOMAIN x = Fields /\ x.request \in Requests /\ x.path \in Names /\ x.slash \in Slashes
        /\ x.at = now /\ x.pc = "status"
    BY <1>3 DEF Fields
  <2> HIDE DEF x
  <2>3. StageInv(x)
    BY <1>2, <2>2 DEF StageInv, WithBytes
  <2>4. ThreadInv(x)
    BY <2>2, <2>3 DEF ThreadInv, Stages
  <2> QED
    BY <1>4, <2>1, <2>4 DEF Acts
<1> QED
  BY <1>5, <1>6

LEMMA NotAFileIs ==
  ASSUME NEW kind \in {"redirect", "not_found", "forbidden", "error"}
  PROVE  NotAFile(kind) \in NotFound
BY DEF NotAFile, NotFound

LEMMA ResolvedIs ==
  ASSUME NEW path, NEW slash
  PROVE  \/ Resolved(path, slash) \in NotFound /\ Resolved(path, slash).kind # "file"
         \/ /\ Resolved(path, slash).kind = "file"
            /\ Resolved(path, slash).file \in Paths /\ There(Resolved(path, slash).file, "")
<1> DEFINE candidates == {i \in DOMAIN Indexes : IsRegular(Append(path, Indexes[i]))
                                                  /\ Contained(Append(path, Indexes[i]))}
           index == Append(path, Indexes[Min(candidates)])
           r == Resolved(path, slash)
           Fine(x) == \/ x \in NotFound /\ x.kind # "file"
                      \/ x.kind = "file" /\ x.file \in Paths /\ There(x.file, "")
<1>1. candidates # {} => IsRegular(index)
  <2>0. DOMAIN Indexes \subseteq Nat
    <3>1. Indexes \in Seq(STRING)
      BY DirectoryAssumption
    <3> QED
      BY <3>1
  <2>1. candidates \subseteq Nat
    BY <2>0
  <2>2. candidates # {} => Min(candidates) \in candidates
    <3> HIDE DEF candidates
    <3>1. candidates # {} => \E x \in candidates : \A y \in candidates : x <= y
      BY <2>1, Smallest
    <3> QED
      BY <3>1 DEF Min
  <2> QED
    BY <2>2
<1>2. \/ candidates # {} /\ r = [kind |-> "file", file |-> index]
      \/ IsRegular(path) /\ r = [kind |-> "file", file |-> path]
      \/ r = NotAFile("redirect") \/ r = NotAFile("not_found")
  BY DEF Resolved
<1>3. ASSUME NEW file, IsRegular(file) PROVE Fine([kind |-> "file", file |-> file])
  <2>1. file \in Paths /\ There(file, "")
    BY <1>3 DEF IsRegular, IsFile, There
  <2> QED
    BY <2>1
<1>4. Fine(NotAFile("redirect")) /\ Fine(NotAFile("not_found"))
  BY DEF NotAFile, NotFound
<1>5. Fine(r)
  <2> HIDE DEF candidates, index, r, Fine
  <2> QED
    BY <1>1, <1>2, <1>3, <1>4
<1> QED
  BY <1>5

LEMMA SeqOfOne ==
  ASSUME NEW S, NEW x \in S
  PROVE  <<x>> \in Seq(S) /\ Len(<<x>>) = 1 /\ <<x>>[1] = x
OBVIOUS

LEMMA StatusStep ==
  ASSUME IInv, NEW t \in Threads, Status(t)
  PROVE  Acts(t) /\ Keeps
<1> DEFINE w == thread[t]
           r == Resolved(w.path, w.slash)
<1>0. w.pc = "status"
  BY DEF Status
<1>1. /\ DOMAIN w = Fields /\ w.request \in Requests /\ w.path \in Names /\ w.slash \in Slashes
      /\ w.at \in 0 .. now
  BY <1>0, StageOf DEF Stages, StageInv
<1>2. Keeps
  BY CachesKept DEF Status
<1>3. ASSUME NEW x, NEW found, x = [w EXCEPT !.pc = "remember", !.found = found], found \in NotFound
      PROVE  ThreadInv(x)
  <2>1. /\ DOMAIN x = Fields /\ x.request \in Requests /\ x.path \in Names /\ x.slash \in Slashes
        /\ x.at \in 0 .. now /\ x.pc = "remember" /\ x.found = found
    BY <1>1, <1>3 DEF Fields
  <2>2. StageInv(x)
    BY <1>3, <2>1 DEF StageInv, WithBytes
  <2> QED
    BY <2>1, <2>2 DEF ThreadInv, Stages
<1>4. CASE \E kind \in {"forbidden", "error"} :
             thread' = [thread EXCEPT ![t].pc = "remember", ![t].found = NotAFile(kind)]
  <2>1. PICK kind \in {"forbidden", "error"} :
          thread' = [thread EXCEPT ![t] = [w EXCEPT !.pc = "remember", !.found = NotAFile(kind)]]
    BY <1>4
  <2>2. ThreadInv([w EXCEPT !.pc = "remember", !.found = NotAFile(kind)])
    BY <1>3, NotAFileIs
  <2> QED
    BY <1>2, <2>1, <2>2 DEF Acts
<1> DEFINE found == [kind |-> "file", file |-> r.file, modified |-> 0,
                     variants |-> <<[coding |-> "", stamp |-> 0, size |-> Inode(<<r.file, "">>).size]>>]
<1>5. CASE thread' = [thread EXCEPT ![t].pc = IF r.kind = "file" THEN "stamp" ELSE "remember",
                                    ![t].found = IF r.kind # "file" THEN r ELSE found]
  <2>1. CASE r.kind # "file"
    <3>1. thread' = [thread EXCEPT ![t] = [w EXCEPT !.pc = "remember", !.found = r]]
      BY <1>5, <2>1
    <3>2. r \in NotFound
      BY <2>1, ResolvedIs
    <3>3. ThreadInv([w EXCEPT !.pc = "remember", !.found = r])
      BY <1>3, <3>2
    <3> QED
      BY <1>2, <3>1, <3>3 DEF Acts
  <2>2. CASE r.kind = "file"
    <3> DEFINE size == Inode(<<r.file, "">>).size
               variant == [coding |-> "", stamp |-> 0, size |-> size]
               x == [w EXCEPT !.pc = "stamp", !.found = found]
    <3>1. r.file \in Paths /\ There(r.file, "")
      BY <2>2, ResolvedIs
    <3>2. disk[<<r.file, "">>] \in 1 .. Len(store)
      BY <3>1, StampFacts DEF IInv, StampsFine, Codings
    <3>3. size \in Sizes
      <4> DEFINE I == [stamp : Nat, size : Sizes]
      <4>1. store \in Seq(I)
        BY DEF IInv, DirectoryInv, DirectoryShape
      <4>2. \A i \in 1 .. Len(store) : store[i] \in I
        <5> HIDE DEF I
        <5> QED
          BY <4>1
      <4>3. store[disk[<<r.file, "">>]] \in I
        BY <3>2, <4>2
      <4> QED
        BY <4>3 DEF Inode
    <3> HIDE DEF size, r
    <3>4. variant \in Variant /\ variant.coding = ""
      BY <3>3 DEF Variant, Codings
    <3>5. found = [kind |-> "file", file |-> r.file, modified |-> 0, variants |-> <<variant>>]
      BY DEF size, r
    <3>6. found \in Found /\ Len(found.variants) = 1 /\ found.variants[1].coding = ""
      <4> HIDE DEF variant, found
      <4>1. <<variant>> \in Seq(Variant) /\ Len(<<variant>>) = 1 /\ <<variant>>[1] = variant
        BY <3>4, SeqOfOne
      <4>2. found.variants = <<variant>> /\ found \in Found
        BY <3>1, <3>5, <4>1 DEF Found
      <4> QED
        BY <3>4, <4>1, <4>2
    <3>7. thread' = [thread EXCEPT ![t] = x]
      BY <1>5, <2>2 DEF r
    <3> HIDE DEF found
    <3>8. /\ DOMAIN x = Fields /\ x.request \in Requests /\ x.path \in Names /\ x.slash \in Slashes
          /\ x.at \in 0 .. now /\ x.pc = "stamp" /\ x.found = found
      BY <1>1 DEF Fields
    <3> HIDE DEF x
    <3>9. StageInv(x)
      BY <3>6, <3>8 DEF StageInv, WithBytes
    <3>10. ThreadInv(x)
      BY <3>8, <3>9 DEF ThreadInv, Stages
    <3> QED
      BY <1>2, <3>7, <3>10 DEF Acts
  <2> QED
    BY <2>1, <2>2
<1> QED
  BY <1>4, <1>5 DEF Status

LEMMA NeverIsLater ==
  ASSUME DirectoryInv, NEW at, at \in 0 .. now
  PROVE  at <= Never + 0
BY StampFacts DEF StampsFine

LEMMA SameOrMore ==
  ASSUME NEW a \in Nat, NEW b \in Nat, a >= b
  PROVE  a = b \/ a > b
OBVIOUS

(* The content an original has is current; a sibling as old or made later  *)
(* is not older.                                                           *)
LEMMA OriginalIsYoung ==
  ASSUME DirectoryInv, NEW p \in Paths, There(p, ""), NEW at, at \in 0 .. now
  PROVE  /\ Seen(p, "", StampAt(p, "")) /\ Young(StampAt(p, ""), at, 0)
         /\ \A c \in Codings : There(p, c) /\ StampAt(p, c) >= StampAt(p, "") => Young(StampAt(p, c), at, 0)
<1>0. now < Never /\ now \in Nat /\ Never \in Nat
  BY StampFacts DEF StampsFine
<1>1. "" \in Codings
  BY DEF Codings
<1>2. StampAt(p, "") \in Stamps /\ StampAt(p, "") \in Nat
  BY <1>1, StampFacts DEF StampsFine
<1>3. /\ Src(StampAt(p, "")) = StampAt(p, "") /\ history[StampAt(p, "")].superseded = Never
      /\ Belongs(p, StampAt(p, ""))
  BY <1>1 DEF DirectoryInv, OriginalsCurrent
<1>4. ASSUME NEW s, Src(s) = StampAt(p, "") PROVE Young(s, at, 0)
  <2>1. Sup(s) = Never
    BY <1>3, <1>4 DEF Sup
  <2>2. at <= Never + 0
    BY NeverIsLater
  <2> QED
    BY <2>1, <2>2 DEF Young
<1>5. Follows(StampAt(p, ""), StampAt(p, ""))
  BY <1>2, FollowsItself
<1>6. ASSUME NEW c \in Codings, There(p, c), StampAt(p, c) >= StampAt(p, "")
      PROVE  Young(StampAt(p, c), at, 0)
  <2>1. StampAt(p, c) \in Nat
    BY <1>6, StampFacts DEF StampsFine
  <2>2. CASE StampAt(p, c) = StampAt(p, "")
    BY <1>3, <1>4, <2>2
  <2>3. CASE StampAt(p, c) > StampAt(p, "")
    <3>1. Src(StampAt(p, c)) = StampAt(p, "")
      BY <1>6, <2>3 DEF DirectoryInv, OriginalsCurrent
    <3> QED
      BY <1>4, <3>1
  <2> DEFINE a == StampAt(p, c)
             b == StampAt(p, "")
  <2>4. a \in Nat /\ b \in Nat /\ a >= b
    BY <1>2, <1>6, <2>1
  <2>5. a = b \/ a > b
    <3> HIDE DEF a, b
    <3> QED
      BY <2>4, SameOrMore
  <2> QED
    BY <2>2, <2>3, <2>5
<1> QED
  BY <1>1, <1>2, <1>3, <1>4, <1>5, <1>6 DEF Seen

LEMMA StampStep ==
  ASSUME IInv, NEW t \in Threads, Stamp(t)
  PROVE  Acts(t) /\ Keeps
<1> DEFINE w == thread[t]
           p == w.found.file
           f == <<p, "">>
           s == StampAt(p, "")
<1>0. w.pc = "stamp"
  BY DEF Stamp
<1>1. /\ DOMAIN w = Fields /\ w.request \in Requests /\ w.path \in Names /\ w.slash \in Slashes
      /\ w.at \in 0 .. now
      /\ w.found \in Found /\ Len(w.found.variants) = 1 /\ w.found.variants[1].coding = ""
  BY <1>0, StageOf DEF Stages, StageInv
<1>2. Keeps
  BY CachesKept DEF Stamp
<1>3. CASE disk[f] = None
  <2> DEFINE x == [w EXCEPT !.pc = "remember", !.found = NotAFile("not_found")]
  <2>1. thread' = [thread EXCEPT ![t] = x]
    BY <1>3 DEF Stamp
  <2>2. /\ DOMAIN x = Fields /\ x.request \in Requests /\ x.path \in Names /\ x.slash \in Slashes
        /\ x.at \in 0 .. now /\ x.pc = "remember" /\ x.found = NotAFile("not_found")
    BY <1>1 DEF Fields
  <2> HIDE DEF x
  <2>3. StageInv(x)
    BY <2>2, NotAFileIs DEF StageInv, WithBytes
  <2>4. ThreadInv(x)
    BY <2>2, <2>3 DEF ThreadInv, Stages
  <2> QED
    BY <1>2, <2>1, <2>4 DEF Acts
<1>4. CASE disk[f] # None
  <2> DEFINE pc == IF Precompressed = <<>> THEN "remember" ELSE "siblings"
             written == history[s].written
             variants == [w.found.variants EXCEPT ![1].stamp = s]
             found == [w.found EXCEPT !.variants = variants, !.modified = written]
             x == [w EXCEPT !.pc = pc, !.looked = 0, !.found = found]
  <2>1. thread' = [thread EXCEPT ![t] = x]
    <3> DEFINE st == Inode(f).stamp
               y == [w EXCEPT !.pc = pc, !.looked = 0,
                              !.found = [w.found EXCEPT !.variants = [w.found.variants EXCEPT ![1].stamp = st],
                                                        !.modified = history[st].written]]
    <3>1. st = s
      BY DEF Inode, StampAt
    <3>2. y = x
      <4> HIDE DEF st, s
      <4> QED
        BY <3>1
    <3>3. thread' = IF disk[f] = None
                      THEN [thread EXCEPT ![t] = [w EXCEPT !.pc = "remember", !.found = NotAFile("not_found")]]
                      ELSE [thread EXCEPT ![t] = y]
      BY ZenonT(30) DEF Stamp
    <3> HIDE DEF x, y, f
    <3> QED
      BY <1>4, <3>2, <3>3
  <2>2. p \in Paths /\ There(p, "") /\ DirectoryInv /\ s \in Stamps /\ s \in Nat /\ written \in Nat
    <3>1. p \in Paths /\ There(p, "") /\ DirectoryInv
      BY <1>1, <1>4 DEF Found, There, IInv
    <3>2. s \in Stamps /\ s \in Nat
      BY <3>1, StampFacts DEF StampsFine, Codings
    <3>3. written \in Nat
      <4> DEFINE H == [written : Nat, source : Nat, superseded : Nat]
      <4>1. history \in Seq(H) /\ s \in 1 .. Len(history)
        BY <3>1, <3>2 DEF DirectoryInv, DirectoryShape, Stamps
      <4>2. history[s] \in H
        <5> HIDE DEF H, s
        <5> QED
          BY <4>1
      <4> QED
        BY <4>2
    <3> QED
      BY <3>1, <3>2, <3>3
  <2>3. /\ Seen(p, "", s) /\ Young(s, w.at, 0)
        /\ \A c \in Codings : There(p, c) /\ StampAt(p, c) >= s => Young(StampAt(p, c), w.at, 0)
    BY <1>1, <2>2, OriginalIsYoung
  <2> HIDE DEF s, written
  <2>4. w.found.variants \in Seq(Variant) /\ w.found.variants[1] \in Variant
    <3> DEFINE V == Variant
               list == w.found.variants
    <3>1. list \in Seq(V) /\ Len(list) = 1
      BY <1>1 DEF Found
    <3> HIDE DEF V, list
    <3>2. list \in [1 .. Len(list) -> V]
      BY <3>1
    <3>3. 1 \in 1 .. Len(list)
      BY <3>1
    <3>4. list[1] \in V
      BY <3>2, <3>3
    <3> QED
      BY <3>1, <3>4 DEF V, list
  <2>5. /\ variants \in Seq(Variant) /\ Len(variants) = 1
        /\ variants[1].stamp = s /\ variants[1].coding = ""
    <3> DEFINE v == [w.found.variants[1] EXCEPT !.stamp = s]
    <3>1. v \in Variant /\ v.stamp = s /\ v.coding = ""
      BY <1>1, <2>2, <2>4 DEF Variant
    <3>2. variants = [w.found.variants EXCEPT ![1] = v]
      OBVIOUS
    <3> DEFINE V == Variant
               list == w.found.variants
    <3>4. list \in Seq(V) /\ Len(list) = 1 /\ v \in V /\ variants = [list EXCEPT ![1] = v]
      BY <1>1, <2>4, <3>1, <3>2
    <3>5. variants \in Seq(V) /\ Len(variants) = 1 /\ variants[1] = v
      <4> HIDE DEF v, variants, V, list
      <4>1. 1 \in 1 .. Len(list)
        BY <3>4
      <4> QED
        BY <3>4, <4>1, SeqUpdated
    <3> HIDE DEF v, variants
    <3>3. variants \in Seq(Variant) /\ Len(variants) = 1 /\ variants[1] = v
      BY <3>5
    <3> QED
      BY <3>1, <3>3
  <2> HIDE DEF variants
  <2>6. found \in Found /\ found.variants = variants /\ found.file = p
    BY <1>1, <2>2, <2>5 DEF Found
  <2> HIDE DEF found
  <2>7. /\ DOMAIN x = Fields /\ x.request \in Requests /\ x.path \in Names /\ x.slash \in Slashes
        /\ x.at = w.at /\ x.pc = pc /\ x.found = found /\ x.looked = 0
    BY <1>1 DEF Fields
  <2> HIDE DEF x
  <2>8. Known(x.found, x.at, 0)
    <3>1. 1 .. Len(variants) = {1}
      <4>1. Len(variants) = 1
        BY <2>5
      <4>2. 1 .. 1 = {1}
        OBVIOUS
      <4> QED
        BY <4>1, <4>2
    <3>2. /\ Seen(x.found.file, x.found.variants[1].coding, x.found.variants[1].stamp)
          /\ Young(x.found.variants[1].stamp, x.at, 0)
      BY <2>3, <2>5, <2>6, <2>7
    <3>3. x.found \in Found /\ x.found.variants = variants /\ Len(x.found.variants) > 0
      <4>1. x.found \in Found /\ x.found.variants = variants /\ Len(variants) = 1
        BY <2>5, <2>6, <2>7
      <4>2. Len(x.found.variants) = 1
        BY <4>1
      <4> QED
        BY <4>1, <4>2
    <3> QED
      BY <3>1, <3>2, <3>3 DEF Known
  <2>9. SiblingsCurrent(x)
    BY <2>3, <2>5, <2>6, <2>7 DEF SiblingsCurrent
  <2>10. pc = "siblings" => x.looked \in 0 .. Len(Precompressed) - 1
    <3> DEFINE S == STRING \ {""}
    <3>1. Precompressed \in Seq(S)
      BY DirectoryAssumption
    <3>2. Precompressed # <<>> => 0 \in 0 .. Len(Precompressed) - 1
      <4> HIDE DEF S
      <4> QED
        BY <3>1
    <3> QED
      BY <2>7, <3>2
  <2>11. StageInv(x)
    BY <1>1, <2>7, <2>8, <2>9, <2>10 DEF StageInv, WithBytes
  <2>12. ThreadInv(x)
    BY <2>7, <2>11 DEF ThreadInv, Stages
  <2> QED
    BY <1>2, <2>1, <2>12 DEF Acts
<1> QED
  BY <1>3, <1>4

LEMMA AddSiblingStep ==
  ASSUME IInv, NEW t \in Threads, AddSibling(t)
  PROVE  Acts(t) /\ Keeps
<1> DEFINE w == thread[t]
           p == w.found.file
           n == Len(Precompressed)
           coding == Precompressed[w.looked + 1]
           file == <<p, coding>>
           sibling == [coding |-> coding, stamp |-> Inode(file).stamp, size |-> Inode(file).size]
           usable == disk[file] # None /\ ~IsStale(sibling, w.found.variants[1])
           variants == IF usable THEN Append(w.found.variants, sibling) ELSE w.found.variants
           found == [w.found EXCEPT !.variants = variants]
           pc == IF w.looked + 1 = n THEN "remember" ELSE "siblings"
           x == [w EXCEPT !.pc = pc, !.looked = w.looked + 1, !.found = found]
<1>0. w.pc = "siblings"
  BY DEF AddSibling
<1>1. /\ DOMAIN w = Fields /\ w.request \in Requests /\ w.path \in Names /\ w.slash \in Slashes
      /\ w.at \in 0 .. now /\ w.looked \in 0 .. n - 1
      /\ Known(w.found, w.at, 0) /\ SiblingsCurrent(w)
  BY <1>0, StageOf DEF Stages, StageInv
<1>2. Keeps
  <2>1. UNCHANGED caches
    BY DEF AddSibling
  <2> QED
    BY <2>1, CachesKept
<1>3. thread' = [thread EXCEPT ![t] = x]
  BY ZenonT(30) DEF AddSibling
<1>4. n \in Nat /\ w.looked + 1 \in 1 .. n /\ (w.looked + 1 # n => w.looked + 1 \in 0 .. n - 1)
  <2> DEFINE S == STRING \ {""}
             l == w.looked
  <2>1. Precompressed \in Seq(S)
    BY DirectoryAssumption
  <2>2. n \in Nat
    <3> HIDE DEF S
    <3> QED
      BY <2>1
  <2>3. l \in 0 .. n - 1
    BY <1>1
  <2> HIDE DEF n, l
  <2>4. l + 1 \in 1 .. n /\ (l + 1 # n => l + 1 \in 0 .. n - 1)
    BY <2>2, <2>3
  <2> QED
    BY <2>2, <2>4 DEF l
<1>5. coding \in Codings
  <2>1. DOMAIN Precompressed = 1 .. n
    <3> DEFINE S == STRING \ {""}
    <3>1. Precompressed \in Seq(S)
      BY DirectoryAssumption
    <3> HIDE DEF S
    <3> QED
      BY <3>1
  <2>2. coding \in ToSet(Precompressed)
    BY <1>4, <2>1 DEF ToSet
  <2> QED
    BY <2>2 DEF Codings
<1>6. DirectoryInv /\ w.found \in Found /\ w.found.variants \in Seq(Variant) /\ Len(w.found.variants) > 0
      /\ p \in Paths
  BY <1>1 DEF IInv, Known, Found
<1> HIDE DEF coding, n
<1>7. ASSUME usable
      PROVE  /\ sibling \in Variant /\ sibling.coding = coding
             /\ Seen(p, coding, sibling.stamp) /\ Young(sibling.stamp, w.at, 0)
  <2>1. There(p, coding) /\ sibling.stamp = StampAt(p, coding) /\ sibling.coding = coding
    BY <1>7 DEF There, StampAt, Inode
  <2>2. StampAt(p, coding) \in Stamps /\ disk[file] \in 1 .. Len(store)
    BY <1>5, <1>6, <2>1, StampFacts DEF StampsFine
  <2>3. StampAt(p, coding) \in Nat
    BY <1>6, <2>2, StampFacts DEF StampsFine
  <2>4. Inode(file).size \in Sizes
    <3> DEFINE I == [stamp : Nat, size : Sizes]
    <3>1. store \in Seq(I)
      BY <1>6 DEF DirectoryInv, DirectoryShape
    <3>2. \A i \in 1 .. Len(store) : store[i] \in I
      <4> HIDE DEF I
      <4> QED
        BY <3>1
    <3>3. store[disk[file]] \in I
      BY <2>2, <3>2
    <3> QED
      BY <3>3 DEF Inode
  <2>5. sibling \in Variant
    <3>1. sibling.stamp \in Nat /\ sibling.size \in Sizes
      BY <2>1, <2>3, <2>4
    <3> QED
      BY <1>5, <3>1 DEF Variant
  <2>6. Seen(p, coding, StampAt(p, coding))
    <3>1. Belongs(p, StampAt(p, coding))
      BY <1>5, <1>6, <2>1 DEF DirectoryInv, OriginalsCurrent
    <3>2. Follows(StampAt(p, coding), StampAt(p, coding))
      BY <1>6, <2>2, FollowsItself
    <3> QED
      BY <1>5, <1>6, <2>2, <3>1, <3>2 DEF Seen
  <2>7. StampAt(p, coding) >= w.found.variants[1].stamp
    <3> DEFINE own == w.found.variants[1]
               a == StampAt(p, coding)
               b == own.stamp
    <3>1. b \in Nat
      <4> DEFINE V == Variant
      <4>1. w.found.variants \in Seq(V) /\ 1 \in 1 .. Len(w.found.variants)
        BY <1>6
      <4>2. own \in V
        <5> HIDE DEF V
        <5> QED
          BY <4>1
      <4> QED
        BY <4>2 DEF Variant
    <3>2. ~(a < b) /\ a \in Nat
      BY <1>7, <2>1, <2>3 DEF IsStale
    <3> HIDE DEF a, b
    <3>3. a >= b
      BY <3>1, <3>2
    <3> QED
      BY <3>3 DEF a, b
  <2>8. Young(StampAt(p, coding), w.at, 0)
    BY <1>1, <1>5, <2>1, <2>7 DEF SiblingsCurrent
  <2> QED
    BY <2>1, <2>5, <2>6, <2>8
<1> HIDE DEF sibling, usable
<1>8. /\ variants \in Seq(Variant) /\ Len(variants) > 0 /\ variants[1] = w.found.variants[1]
      /\ \A i \in 1 .. Len(variants) :
            \/ usable /\ variants[i] = sibling
            \/ i \in 1 .. Len(w.found.variants) /\ variants[i] = w.found.variants[i]
  <2> DEFINE V == Variant
             list == w.found.variants
             k == Len(list)
  <2>1. list \in Seq(V) /\ k \in Nat /\ k > 0
    BY <1>6
  <2>2. CASE usable
    <3>1. sibling \in V /\ variants = Append(list, sibling)
      BY <1>7, <2>2
    <3> HIDE DEF variants, V, list
    <3>2. /\ variants \in Seq(V) /\ Len(variants) = k + 1
          /\ (\A i \in 1 .. k : variants[i] = list[i]) /\ variants[k + 1] = sibling
      BY <2>1, <3>1, SeqAppended
    <3> DEFINE m == Len(variants)
    <3>3. m = k + 1
      BY <3>2
    <3> HIDE DEF k, m
    <3>4. m > 0 /\ 1 \in 1 .. k /\ \A i \in 1 .. m : i \in 1 .. k \/ i = k + 1
      BY <2>1, <3>3
    <3> QED
      BY <2>2, <3>2, <3>4 DEF V, m, k, list
  <2>3. CASE ~usable
    BY <2>1, <2>3
  <2> QED
    BY <2>2, <2>3
<1> HIDE DEF variants
<1>9. found \in Found /\ found.variants = variants /\ found.file = p
  BY <1>6, <1>8 DEF Found
<1> HIDE DEF found
<1>10. /\ DOMAIN x = Fields /\ x.request \in Requests /\ x.path \in Names /\ x.slash \in Slashes
       /\ x.at = w.at /\ x.pc = pc /\ x.found = found /\ x.looked = w.looked + 1
  BY <1>1 DEF Fields
<1> HIDE DEF x
<1>11. Known(x.found, x.at, 0)
  <2>1. ASSUME NEW i \in 1 .. Len(variants)
        PROVE  Seen(p, variants[i].coding, variants[i].stamp) /\ Young(variants[i].stamp, w.at, 0)
    BY <1>1, <1>7, <1>8 DEF Known
  <2> QED
    BY <1>8, <1>9, <1>10, <2>1 DEF Known
<1>12. SiblingsCurrent(x)
  BY <1>1, <1>8, <1>9, <1>10 DEF SiblingsCurrent
<1>13. pc = "siblings" => x.looked \in 0 .. Len(Precompressed) - 1
  BY <1>4, <1>10 DEF n
<1>14. StageInv(x)
  BY <1>1, <1>10, <1>11, <1>12, <1>13 DEF StageInv, WithBytes
<1>15. ThreadInv(x)
  BY <1>10, <1>14 DEF ThreadInv, Stages
<1> QED
  BY <1>2, <1>3, <1>15 DEF Acts

LEMMA RememberStep ==
  ASSUME IInv, NEW t \in Threads, Remember(t)
  PROVE  Acts(t) /\ Keeps
<1> DEFINE w == thread[t]
           entry == [key |-> KeyOf(w), result |-> w.found, checked |-> CheckedAt(w)]
           kept == Put(metadata, entry)
<1>0. w.pc = "remember"
  BY DEF Remember
<1>1. /\ DOMAIN w = Fields /\ w.request \in Requests /\ w.path \in Names /\ w.slash \in Slashes
      /\ w.at \in 0 .. now /\ (w.found \in NotFound \/ Known(w.found, w.at, 0))
  BY <1>0, StageOf DEF Stages, StageInv
<1>2. DirectoryInv /\ metadata \in Seq(MetadataEntry) /\ content \in Seq(ContentEntry)
  BY DEF IInv, CachesInv
<1>3. now \in Nat /\ w.at \in Nat /\ w.at <= now
  BY <1>1, <1>2, StampFacts DEF StampsFine
<1>4. entry \in MetadataEntry
  <2>1. entry.key \in Names \X Slashes /\ entry.result \in Found \cup NotFound /\ entry.checked = w.at
    BY <1>1 DEF KeyOf, CheckedAt, Known
  <2>2. entry.result.kind = "file" => Known(entry.result, entry.checked, 0)
    BY <1>1 DEF NotFound, CheckedAt
  <2>3. entry \in [key : Names \X Slashes, result : Found \cup NotFound, checked : Nat]
    BY <1>3, <2>1
  <2> QED
    BY <1>3, <2>1, <2>2, <2>3 DEF MetadataEntry
<1> HIDE DEF entry
<1>5. kept \in Seq(MetadataEntry)
  BY <1>2, <1>4, PutKeeps
<1> HIDE DEF kept
<1>6. LowerOf(Len(kept), MetadataEntries) \in 0 .. Len(kept)
  <2> DEFINE k == Len(kept)
  <2>1. k \in Nat /\ MetadataEntries \in Nat
    BY <1>5, BoundsAssumption
  <2> HIDE DEF k
  <2>2. LowerOf(k, MetadataEntries) \in 0 .. k
    BY <2>1 DEF LowerOf
  <2> QED
    BY <2>2 DEF k
<1>7. SubSeq(kept, 1, LowerOf(Len(kept), MetadataEntries)) \in Seq(MetadataEntry)
  BY <1>5, <1>6, CutKeeps
<1>8. Without(metadata, KeyOf(w)) \in Seq(MetadataEntry)
  BY <1>2, WithoutKeeps
<1>9. Keeps
  BY <1>2, <1>7, <1>8 DEF Keeps, Remember, kept, entry
<1>10. w.found \in NotFound \/ Known(w.found, w.at, Slack)
  <2>1. w.at <= w.at + Slack /\ w.at <= w.at
    BY <1>3, SlackIs
  <2> QED
    BY <1>1, <1>2, <1>3, <2>1, SlackIs, KnownWeakens
<1>11. ThreadInv(Decided(w))
  BY <1>1, <1>2, <1>10, DecidedIs
<1>12. thread' = [thread EXCEPT ![t] = Decided(w)]
  BY DEF Remember
<1> QED
  BY <1>9, <1>11, <1>12 DEF Acts

-----------------------------------------------------------------------------
(* A thread's steps, of one that has a file to send.                       *)

(* What holds of such a thread's record, and with pc moved on.             *)
LEMMA WithBytesIs ==
  ASSUME IInv, NEW t \in Threads, thread[t].pc \in WithBytes
  PROVE  /\ DOMAIN thread[t] = Fields /\ thread[t].request \in Requests
         /\ thread[t].path \in Names /\ thread[t].slash \in Slashes
         /\ thread[t].at \in 0 .. now /\ Known(thread[t].found, thread[t].at, Slack)
         /\ Seen(thread[t].found.file, Chosen(thread[t]).coding, Chosen(thread[t]).stamp)
         /\ Chosen(thread[t]) \in Variant /\ FileOf(thread[t]) \in Files
         /\ FileOf(thread[t]) = <<thread[t].found.file, Chosen(thread[t]).coding>>
<1>1. StageInv(thread[t])
  BY StageOf DEF WithBytes, Stages
<1>2. /\ thread[t].request \in Requests /\ Known(thread[t].found, thread[t].at, Slack)
      /\ thread[t].at \in 0 .. now
  BY <1>1 DEF StageInv, WithBytes
<1> QED
  BY <1>1, <1>2, ChosenIs DEF StageInv

LEMMA MovesOn ==
  ASSUME DirectoryInv, NEW w, DOMAIN w = Fields, w.request \in Requests, w.path \in Names,
         w.slash \in Slashes, w.at \in 0 .. now, Known(w.found, w.at, Slack),
         NEW x, DOMAIN x = Fields, x.request = w.request, x.path = w.path, x.slash = w.slash,
         x.at = w.at, x.found = w.found, x.pc \in WithBytes,
         x.pc \in {"load", "sending"} => Opened(x),
         x.pc = "keep" => x.read \in ContentEntry /\ x.read.mtime = Chosen(w).stamp
  PROVE  ThreadInv(x)
<1>1. Chosen(x) = Chosen(w)
  BY DEF Chosen
<1>2. StageInv(x)
  BY <1>1 DEF StageInv, WithBytes
<1> QED
  BY <1>2 DEF ThreadInv, Stages, WithBytes

LEMMA FindContentStep ==
  ASSUME IInv, NEW t \in Threads, FindContent(t)
  PROVE  Acts(t) /\ Keeps
<1> DEFINE w == thread[t]
           file == FileOf(w)
           known == Cacheable(w) /\ Holds(content, file)
           entry == EntryOf(content, file)
<1>0. w.pc = "content" /\ w.pc \in WithBytes
  BY DEF FindContent, WithBytes
<1>1. /\ DOMAIN w = Fields /\ w.request \in Requests /\ w.path \in Names /\ w.slash \in Slashes
      /\ w.at \in 0 .. now /\ Known(w.found, w.at, Slack)
  BY <1>0, WithBytesIs
<1>2. DirectoryInv /\ metadata \in Seq(MetadataEntry) /\ content \in Seq(ContentEntry)
  BY DEF IInv, CachesInv
<1>3. metadata' = metadata
  BY DEF FindContent
<1>4. CASE /\ known /\ Matches(entry, Chosen(w))
           /\ content' = Touched(content, file)
           /\ thread' = [thread EXCEPT ![t] = Answer(w, StatusOfBytes(w), entry.stamp)]
  <2>1. entry \in ContentEntry /\ Touched(content, file) \in Seq(ContentEntry)
    BY <1>2, <1>4, TouchedKeeps
  <2>2. Follows(entry.stamp, Chosen(w).stamp)
    BY <1>4, <2>1 DEF ContentEntry, Matches
  <2>3. ThreadInv(Answer(w, StatusOfBytes(w), entry.stamp))
    BY <1>1, <1>2, <2>2, AnswerIs
  <2> QED
    BY <1>2, <1>3, <1>4, <2>1, <2>3 DEF Acts, Keeps
<1>5. CASE content' \in {content, Without(content, file)} /\ thread' = Go(t, "open")
  <2> DEFINE x == [w EXCEPT !.pc = "open"]
  <2>1. thread' = [thread EXCEPT ![t] = x]
    BY <1>5 DEF Go
  <2>2. /\ DOMAIN x = Fields /\ x.request = w.request /\ x.path = w.path /\ x.slash = w.slash
        /\ x.at = w.at /\ x.found = w.found /\ x.pc = "open"
    BY <1>1 DEF Fields
  <2> HIDE DEF x
  <2>3. x.pc \in WithBytes /\ x.pc \notin {"load", "sending"} /\ x.pc # "keep"
    BY <2>2 DEF WithBytes
  <2>4. ThreadInv(x)
    BY <1>1, <1>2, <2>2, <2>3, MovesOn
  <2>5. content' \in Seq(ContentEntry)
    BY <1>2, <1>5, WithoutKeeps
  <2> QED
    BY <1>2, <1>3, <2>1, <2>4, <2>5 DEF Acts, Keeps
<1> QED
  BY <1>4, <1>5 DEF FindContent

LEMMA OpenStep ==
  ASSUME IInv, NEW t \in Threads, Open(t)
  PROVE  Acts(t) /\ Keeps
<1> DEFINE w == thread[t]
           file == FileOf(w)
           inode == disk[file]
<1>0. w.pc = "open" /\ w.pc \in WithBytes
  BY DEF Open, WithBytes
<1>1. /\ DOMAIN w = Fields /\ w.request \in Requests /\ w.path \in Names /\ w.slash \in Slashes
      /\ w.at \in 0 .. now /\ Known(w.found, w.at, Slack)
      /\ Seen(w.found.file, Chosen(w).coding, Chosen(w).stamp)
      /\ file \in Files /\ file = <<w.found.file, Chosen(w).coding>>
  BY <1>0, WithBytesIs
<1>2. Keeps
  BY CachesKept DEF Open
<1>3. DirectoryInv
  BY DEF IInv
<1> DEFINE load == [w EXCEPT !.pc = "load", !.handle = inode]
           sending == [w EXCEPT !.pc = "sending", !.handle = inode,
                                !.opened = Inode(file).stamp, !.left = Offsets(w)]
<1>4. ASSUME NEW x, DOMAIN x = Fields, x.request = w.request, x.path = w.path, x.slash = w.slash,
             x.at = w.at, x.found = w.found, x.pc \in {"load", "sending"}, x.handle = inode,
             inode # None
      PROVE  ThreadInv(x)
  <2>1. inode \in 1 .. Len(store)
    BY <1>1, <1>3, <1>4 DEF DirectoryInv, DirectoryShape
  <2>2. Follows(store[inode].stamp, Chosen(w).stamp)
    BY <1>1, <1>4 DEF Seen, There, StampAt
  <2>3. \A g \in Files : disk[g] = inode => g = file
    BY <1>1, <1>3, <1>4 DEF DirectoryInv, DirectoryShape
  <2>4. Chosen(x) = Chosen(w) /\ FileOf(x) = file
    BY <1>4 DEF Chosen, FileOf
  <2>5. Opened(x)
    BY <1>4, <2>1, <2>2, <2>3, <2>4 DEF Opened
  <2>6. x.pc \in WithBytes /\ x.pc # "keep"
    BY <1>4 DEF WithBytes
  <2> HIDE DEF w
  <2> QED
    BY <1>1, <1>3, <1>4, <2>5, <2>6, MovesOn
<1>5. /\ DOMAIN load = Fields /\ load.request = w.request /\ load.path = w.path /\ load.slash = w.slash
      /\ load.at = w.at /\ load.found = w.found /\ load.pc \in {"load", "sending"} /\ load.handle = inode
  BY <1>1 DEF Fields
<1>6. /\ DOMAIN sending = Fields /\ sending.request = w.request /\ sending.path = w.path
      /\ sending.slash = w.slash /\ sending.at = w.at /\ sending.found = w.found
      /\ sending.pc \in {"load", "sending"} /\ sending.handle = inode
  BY <1>1 DEF Fields
<1>7. \/ thread' = [thread EXCEPT ![t] = Changed(w)]
      \/ inode # None /\ thread' = [thread EXCEPT ![t] = load]
      \/ inode # None /\ thread' = [thread EXCEPT ![t] = sending]
      \/ \E status \in {403, 500} : thread' = [thread EXCEPT ![t] = Answered(status)]
  BY DEF Open
<1>8. inode # None => ThreadInv(load) /\ ThreadInv(sending)
  <2> HIDE DEF load, sending, inode
  <2> QED
    BY <1>4, <1>5, <1>6
<1>9. ThreadInv(Changed(w))
  BY <1>1, ChangedIs
<1> HIDE DEF load, sending
<1> QED
  BY <1>2, <1>7, <1>8, <1>9, Refused DEF Acts

LEMMA LoadStep ==
  ASSUME IInv, NEW t \in Threads, Load(t)
  PROVE  Acts(t) /\ Keeps
<1> DEFINE w == thread[t]
           x == [w EXCEPT !.pc = "keep", !.read = EntryFor(w, store[w.handle].stamp)]
<1>0. w.pc = "load" /\ w.pc \in WithBytes
  BY DEF Load, WithBytes
<1>1. /\ DOMAIN w = Fields /\ w.request \in Requests /\ w.path \in Names /\ w.slash \in Slashes
      /\ w.at \in 0 .. now /\ Known(w.found, w.at, Slack)
      /\ Chosen(w) \in Variant /\ FileOf(w) \in Files
  BY <1>0, WithBytesIs
<1>2. Keeps
  BY CachesKept DEF Load
<1>3. DirectoryInv
  BY DEF IInv
<1>4. Opened(w)
  BY <1>0, StageOf DEF Stages, StageInv
<1>5. /\ DOMAIN x = Fields /\ x.request = w.request /\ x.path = w.path /\ x.slash = w.slash
      /\ x.at = w.at /\ x.found = w.found /\ x.pc = "keep" /\ x.read = EntryFor(w, store[w.handle].stamp)
  BY <1>1 DEF Fields
<1>6. thread' = [thread EXCEPT ![t] = Changed(w)] \/ thread' = [thread EXCEPT ![t] = x]
  BY DEF Load
<1> HIDE DEF x
<1>7. x.pc \in WithBytes /\ x.pc \notin {"load", "sending"}
  BY <1>5 DEF WithBytes
<1>10. x.read \in ContentEntry /\ x.read.mtime = Chosen(w).stamp
  <2>1. Follows(store[w.handle].stamp, Chosen(w).stamp)
    BY <1>4 DEF Opened
  <2>2. store[w.handle].stamp \in Nat
    BY <1>3, <2>1, StampFacts DEF Follows, StampsFine
  <2>3. Chosen(w).stamp \in Nat /\ Chosen(w).size \in Nat
    BY <1>1, SizesIs DEF Variant
  <2> QED
    BY <1>1, <1>5, <2>1, <2>2, <2>3 DEF EntryFor, ContentEntry
<1>8. ThreadInv(x)
  BY <1>1, <1>3, <1>5, <1>7, <1>10, MovesOn
<1>9. ThreadInv(Changed(w))
  BY <1>1, ChangedIs
<1> QED
  BY <1>2, <1>6, <1>8, <1>9 DEF Acts

LEMMA KeepContentStep ==
  ASSUME IInv, NEW t \in Threads, KeepContent(t)
  PROVE  Acts(t) /\ Keeps
<1> DEFINE w == thread[t]
           cache == Put(content, w.read)
           bytes == contentBytes - Displaced(w.read.key) + w.read.size
           enough == {n \in 0 .. Len(cache) :
                        bytes - BytesOf(cache, Len(cache) - n) <= MemoryMaxTotal \/ n = Len(cache)}
           evicted == Min(enough)
<1>0. w.pc = "keep" /\ w.pc \in WithBytes
  BY DEF KeepContent, WithBytes
<1>1. /\ DOMAIN w = Fields /\ w.request \in Requests /\ w.path \in Names /\ w.slash \in Slashes
      /\ w.at \in 0 .. now /\ Known(w.found, w.at, Slack)
  BY <1>0, WithBytesIs
<1>2. DirectoryInv /\ metadata \in Seq(MetadataEntry) /\ content \in Seq(ContentEntry)
  BY DEF IInv, CachesInv
<1>3. w.read \in ContentEntry /\ Follows(w.read.stamp, Chosen(w).stamp)
  BY <1>0, StageOf DEF Stages, StageInv, ContentEntry
<1>4. /\ metadata' = metadata /\ content' = SubSeq(cache, 1, Len(cache) - evicted)
      /\ thread' = [thread EXCEPT ![t] = Answer(w, StatusOfBytes(w), w.read.stamp)]
  BY DEF KeepContent
<1>6. cache \in Seq(ContentEntry)
  BY <1>2, <1>3, PutKeeps
<1> HIDE DEF cache, bytes
<1>7. Len(cache) - evicted \in 0 .. Len(cache)
  <2> DEFINE k == Len(cache)
  <2>1. k \in Nat
    BY <1>6
  <2>2. enough \subseteq 0 .. k /\ k \in enough
    <3> HIDE DEF k
    <3>1. k \in 0 .. k
      BY <2>1
    <3> QED
      BY <3>1 DEF k
  <2> HIDE DEF enough, k
  <2>3. \A n \in 0 .. k : n \in Nat
    BY <2>1
  <2>4. \E n \in enough : \A m \in enough : n <= m
    <3>1. enough \subseteq Nat /\ enough # {}
      BY <2>2, <2>3
    <3> QED
      BY <3>1, Smallest
  <2>5. evicted \in enough
    BY <2>4 DEF Min
  <2>6. evicted \in 0 .. k
    BY <2>2, <2>5
  <2> HIDE DEF evicted
  <2>7. k - evicted \in 0 .. k
    BY <2>1, <2>6
  <2> QED
    BY <2>7 DEF k
<1> HIDE DEF evicted
<1>8. Keeps
  BY <1>2, <1>4, <1>6, <1>7, CutKeeps DEF Keeps
<1>9. ThreadInv(Answer(w, StatusOfBytes(w), w.read.stamp))
  BY <1>1, <1>2, <1>3, AnswerIs
<1> QED
  BY <1>4, <1>8, <1>9 DEF Acts

LEMMA SendPieceStep ==
  ASSUME IInv, NEW t \in Threads, SendPiece(t)
  PROVE  Acts(t) /\ Keeps
<1> DEFINE w == thread[t]
           stamp == store[w.handle].stamp
           sent == Append(w.sent, stamp)
           x == [w EXCEPT !.left = Tail(@), !.sent = sent]
<1>0. w.pc = "sending" /\ w.pc \in WithBytes
  BY DEF SendPiece, WithBytes
<1>1. /\ DOMAIN w = Fields /\ w.request \in Requests /\ w.path \in Names /\ w.slash \in Slashes
      /\ w.at \in 0 .. now /\ Known(w.found, w.at, Slack)
  BY <1>0, WithBytesIs
<1>2. Keeps
  BY CachesKept DEF SendPiece
<1>3. DirectoryInv
  BY DEF IInv
<1>4. Opened(w)
  BY <1>0, StageOf DEF Stages, StageInv
<1>5. /\ DOMAIN x = Fields /\ x.request = w.request /\ x.path = w.path /\ x.slash = w.slash
      /\ x.at = w.at /\ x.found = w.found /\ x.pc = "sending" /\ x.handle = w.handle
  BY <1>0, <1>1 DEF Fields
<1>6. \/ thread' = [thread EXCEPT ![t] = Answered(Broken)]
      \/ thread' = [thread EXCEPT ![t] = SentAnswer(w, stamp, sent)]
      \/ thread' = [thread EXCEPT ![t] = x]
  BY DEF SendPiece
<1> HIDE DEF x
<1>7. Opened(x)
  BY <1>4, <1>5 DEF Opened, FileOf, Chosen
<1>8. ThreadInv(x)
  <2>1. x.pc \in WithBytes /\ x.pc # "keep"
    BY <1>5 DEF WithBytes
  <2> QED
    BY <1>1, <1>3, <1>5, <1>7, <2>1, MovesOn
<1>9. ThreadInv(SentAnswer(w, stamp, sent))
  <2>1. Follows(stamp, Chosen(w).stamp)
    BY <1>4 DEF Opened
  <2> HIDE DEF w, sent
  <2> QED
    BY <1>1, <1>3, <2>1, AnswerIs
<1> QED
  BY <1>2, <1>6, <1>8, <1>9, Refused DEF Acts

-----------------------------------------------------------------------------
(* Induction over data: sequences built an element at a time. *)

(* Induction, over a set of numbers instead of a predicate.                *)
LEMMA SetInduction ==
  ASSUME NEW S, 0 \in S, \A n \in Nat : n \in S => n + 1 \in S
  PROVE  \A n \in Nat : n \in S
<1> DEFINE T == {n \in Nat : n \notin S}
<1>1. CASE T = {}
  BY <1>1
<1>2. CASE T # {}
  <2>1. PICK n \in T : \A k \in T : n <= k
    <3>1. T \subseteq Nat
      OBVIOUS
    <3> HIDE DEF T
    <3> QED
      BY <1>2, <3>1, Smallest
  <2>2. n \in Nat /\ n # 0 /\ n - 1 \in Nat /\ n \notin S
    OBVIOUS
  <2>3. n - 1 \in S
    BY <2>1, <2>2
  <2>4. n \in S
    BY <2>2, <2>3
  <2> QED
    BY <2>2, <2>4
<1> QED
  BY <1>1, <1>2

(* A function of the numbers up to n defined by its first value and by how *)
(* each value follows from the one before exists.                          *)
Iterations(V, v0, n, g) ==
    { f \in [0 .. n -> V] : f[0] = v0 /\ \A i \in 1 .. n : f[i] = g[<<f[i - 1], i>>] }

LEMMA Iterates ==
  ASSUME NEW V, NEW v0 \in V, NEW n \in Nat, NEW g \in [V \X (1 .. n) -> V]
  PROVE  Iterations(V, v0, n, g) # {}
<1> DEFINE Upto(k) == \E f \in [0 .. k -> V] : f[0] = v0 /\ \A i \in 1 .. k : f[i] = g[<<f[i - 1], i>>]
           S == {k \in Nat : k <= n => Upto(k)}
<1>1. 0 \in S
  <2> DEFINE h == [i \in 0 .. 0 |-> v0]
  <2>1. h \in [0 .. 0 -> V] /\ h[0] = v0
    OBVIOUS
  <2> HIDE DEF h
  <2>2. Upto(0)
    BY <2>1
  <2> QED
    BY <2>2
<1>2. ASSUME NEW k \in Nat, k \in S PROVE k + 1 \in S
  <2> SUFFICES ASSUME k + 1 <= n PROVE Upto(k + 1)
    OBVIOUS
  <2>1. PICK f \in [0 .. k -> V] : f[0] = v0 /\ \A i \in 1 .. k : f[i] = g[<<f[i - 1], i>>]
    BY <1>2
  <2> DEFINE h == [i \in 0 .. k + 1 |-> IF i = k + 1 THEN g[<<f[k], k + 1>>] ELSE f[i]]
  <2> HIDE DEF S, Upto, h
  <2>2. g[<<f[k], k + 1>>] \in V
    <3>1. \A v \in V, i \in 1 .. n : g[<<v, i>>] \in V
      OBVIOUS
    <3>2. f[k] \in V /\ k + 1 \in 1 .. n
      BY <2>1
    <3>3. \A v \in V : g[<<v, k + 1>>] \in V
      BY <3>1, <3>2
    <3> QED
      BY <3>2, <3>3
  <2>3. h \in [0 .. k + 1 -> V]
    BY <2>1, <2>2 DEF h
  <2>4. h[0] = v0
    BY <2>1 DEF h
  <2>5. ASSUME NEW i \in 1 .. k + 1 PROVE h[i] = g[<<h[i - 1], i>>]
    <3>1. CASE i = k + 1
      <4>1. h[i] = g[<<f[k], k + 1>>] /\ h[i - 1] = f[k]
        BY <3>1 DEF h
      <4> QED
        BY <3>1, <4>1
    <3>2. CASE i \in 1 .. k
      <4>1. h[i] = f[i] /\ h[i - 1] = f[i - 1]
        BY <3>2 DEF h
      <4> QED
        BY <2>1, <3>2, <4>1
    <3> QED
      BY <3>1, <3>2
  <2> QED
    BY <2>3, <2>4, <2>5 DEF Upto
<1> HIDE DEF S
<1>3. n \in S
  BY <1>1, <1>2, SetInduction
<1> QED
  BY <1>3 DEF S, Iterations

(* Sequences put end to end.                                               *)
Concatenating(V, n, s) ==
    { f \in [1 .. n -> V] : \A i \in 1 .. n : f[i] = IF i = 1 THEN s[i] ELSE f[i - 1] \o s[i] }

LEMMA Concatenations ==
  ASSUME NEW V, NEW n \in Nat \ {0}, NEW s \in [1 .. n -> V], \A v, w \in V : v \o w \in V
  PROVE  Concatenating(V, n, s) # {}
<1> DEFINE Next1(v, i) == IF i = 1 THEN s[1] ELSE v \o s[i]
           g == [x \in V \X (1 .. n) |-> Next1(x[1], x[2])]
<1>1. \A v \in V, i \in 1 .. n : Next1(v, i) \in V
  OBVIOUS
<1>2. s[1] \in V
  OBVIOUS
<1> HIDE DEF Next1
<1>3. g \in [V \X (1 .. n) -> V]
  BY <1>1
<1>4. \A v \in V, i \in 1 .. n : g[<<v, i>>] = Next1(v, i)
  OBVIOUS
<1> HIDE DEF g
<1>5. Iterations(V, s[1], n, g) # {}
  BY <1>2, <1>3, Iterates
<1>50. PICK h \in [0 .. n -> V] : \A i \in 1 .. n : h[i] = g[<<h[i - 1], i>>]
  BY <1>5 DEF Iterations
<1> DEFINE f == [i \in 1 .. n |-> h[i]]
<1>6. f \in [1 .. n -> V]
  BY <1>50
<1>7. ASSUME NEW i \in 1 .. n PROVE f[i] = IF i = 1 THEN s[i] ELSE f[i - 1] \o s[i]
  <2>1. i - 1 \in 0 .. n /\ h[i - 1] \in V
    BY <1>50
  <2>2. h[i] = Next1(h[i - 1], i)
    BY <1>4, <1>50, <2>1
  <2>3. i # 1 => i - 1 \in 1 .. n
    OBVIOUS
  <2> QED
    BY <2>2, <2>3 DEF Next1
<1> HIDE DEF f
<1> QED
  BY <1>6, <1>7 DEF Concatenating

LEMMA FlattenIs ==
  ASSUME NEW T, NEW s \in Seq(Seq(T)), s # <<>>
  PROVE  \E f \in [1 .. Len(s) -> Seq(T)] :
            /\ f[1] = s[1] /\ \A i \in 2 .. Len(s) : f[i] = f[i - 1] \o s[i]
            /\ FlattenSeq(s) = f[Len(s)]
<1> DEFINE n == Len(s)
           V == Seq(T)
           Is(f) == f = [i \in 1 .. n |-> IF i = 1 THEN s[i] ELSE f[i - 1] \o s[i]]
           e == CHOOSE f : Is(f)
<1>1. n \in Nat \ {0} /\ s \in [1 .. n -> V]
  OBVIOUS
<1>2. \A v, w \in V : v \o w \in V
  OBVIOUS
<1>3. FlattenSeq(s) = e[n]
  BY <1>1 DEF FlattenSeq
<1>4. Concatenating(V, n, s) # {}
  <2> HIDE DEF n, V
  <2> QED
    BY <1>1, <1>2, Concatenations
<1>5. \E f : Is(f)
  <2>1. PICK f \in [1 .. n -> V] : \A i \in 1 .. n : f[i] = IF i = 1 THEN s[i] ELSE f[i - 1] \o s[i]
    BY <1>4 DEF Concatenating
  <2> HIDE DEF n, V
  <2> QED
    BY <2>1
<1>6. Is(e)
  BY <1>5
<1> HIDE DEF e
<1>7. DOMAIN e = 1 .. n /\ e = [i \in 1 .. n |-> e[i]]
  BY <1>6
<1>8. \A i \in 1 .. n : e[i] = IF i = 1 THEN s[i] ELSE e[i - 1] \o s[i]
  BY <1>6
<1> HIDE DEF n, V, Is
<1> DEFINE Good == {i \in Nat : i \in 1 .. n => e[i] \in V}
<1>9. 0 \in Good
  OBVIOUS
<1>10. ASSUME NEW i \in Nat, i \in Good PROVE i + 1 \in Good
  <2> SUFFICES ASSUME i + 1 \in 1 .. n PROVE e[i + 1] \in V
    OBVIOUS
  <2>1. s[i + 1] \in V
    BY <1>1
  <2>2. CASE i = 0
    BY <1>8, <2>1, <2>2
  <2>3. CASE i # 0
    <3>1. i \in 1 .. n
      BY <1>1, <2>3
    <3>2. e[i] \in V
      BY <1>10, <3>1
    <3>3. PICK k \in 1 .. n : k = i + 1 /\ k # 1 /\ k - 1 = i
      BY <1>1, <2>3
    <3>4. e[k] = e[k - 1] \o s[k]
      BY <1>8, <3>3
    <3>5. e[i + 1] = e[i] \o s[i + 1]
      BY <3>3, <3>4
    <3> QED
      BY <1>2, <2>1, <3>2, <3>5
  <2> QED
    BY <2>2, <2>3
<1> HIDE DEF Good
<1>11. \A i \in Nat : i \in Good
  BY <1>9, <1>10, SetInduction
<1>12. \A i \in 1 .. n : e[i] \in V
  BY <1>11 DEF Good
<1>13. e \in [1 .. n -> V]
  BY <1>7, <1>12
<1>14. e[1] = s[1] /\ \A i \in 2 .. n : e[i] = e[i - 1] \o s[i]
  <2>1. 1 \in 1 .. n /\ \A i \in 2 .. n : i \in 1 .. n /\ i # 1
    BY <1>1
  <2> QED
    BY <1>8, <2>1
<1> QED
  BY <1>3, <1>13, <1>14 DEF n, V

LEMMA FlattenKeeps ==
  ASSUME NEW T, NEW s \in Seq(Seq(T))
  PROVE  FlattenSeq(s) \in Seq(T)
<1>1. CASE s = <<>>
  BY <1>1 DEF FlattenSeq
<1>2. CASE s # <<>>
  <2>1. PICK f \in [1 .. Len(s) -> Seq(T)] : FlattenSeq(s) = f[Len(s)]
    BY <1>2, FlattenIs
  <2>2. Len(s) \in 1 .. Len(s)
    BY <1>2
  <2> QED
    BY <2>1, <2>2
<1> QED
  BY <1>1, <1>2

-----------------------------------------------------------------------------
(* Sorting. *)

Orders(n, key) ==
    { p \in Bijection(1 .. n, 1 .. n) : \A i, j \in 1 .. n : i < j => key[p[i]] <= key[p[j]] }

LEMMA BijectionIs ==
  ASSUME NEW n \in Nat, NEW p
  PROVE  p \in Bijection(1 .. n, 1 .. n) <=>
            /\ p \in [1 .. n -> 1 .. n]
            /\ \A i, j \in 1 .. n : p[i] = p[j] => i = j
            /\ \A x \in 1 .. n : \E i \in 1 .. n : p[i] = x
BY DEF Bijection, Injection, Surjection, IsInjective

(* One more element: the least goes first, the last takes its place among  *)
(* the others.                                                             *)
LEMMA OrderOneMore ==
  ASSUME NEW k \in Nat, \A key \in [1 .. k -> Nat] : Orders(k, key) # {},
         NEW key \in [1 .. k + 1 -> Nat]
  PROVE  Orders(k + 1, key) # {}
<1> DEFINE n == k + 1
<1>1. PICK m \in 1 .. n : \A i \in 1 .. n : key[m] <= key[i]
  <2> DEFINE S == {key[i] : i \in 1 .. n}
  <2>1. S \subseteq Nat /\ S # {}
    <3>1. 1 \in 1 .. n
      OBVIOUS
    <3>2. key[1] \in S
      BY <3>1
    <3> QED
      BY <3>2
  <2>2. PICK x \in S : \A y \in S : x <= y
    <3> HIDE DEF S
    <3> QED
      BY <2>1, Smallest
  <2> QED
    BY <2>2
<1> DEFINE r == [x \in 1 .. k |-> IF x = m THEN n ELSE x]
           others == [i \in 1 .. k |-> key[r[i]]]
<1>2. /\ r \in [1 .. k -> 1 .. n]
      /\ \A x, y \in 1 .. k : r[x] = r[y] => x = y
      /\ \A x \in 1 .. k : r[x] # m
      /\ \A x \in 1 .. n : x # m => \E y \in 1 .. k : r[y] = x
  <2>1. ASSUME NEW x \in 1 .. n, x # m PROVE \E y \in 1 .. k : r[y] = x
    <3>1. CASE x = n
      <4>1. m \in 1 .. k /\ r[m] = x
        BY <2>1, <3>1
      <4> QED
        BY <4>1
    <3>2. CASE x # n
      <4>1. x \in 1 .. k /\ r[x] = x
        BY <2>1, <3>2
      <4> QED
        BY <4>1
    <3> QED
      BY <3>1, <3>2
  <2> QED
    BY <2>1
<1> HIDE DEF r
<1>3. others \in [1 .. k -> Nat]
  BY <1>2
<1>4. PICK q \in Orders(k, others) : TRUE
  BY <1>3
<1>5. /\ q \in [1 .. k -> 1 .. k]
      /\ \A i, j \in 1 .. k : q[i] = q[j] => i = j
      /\ \A x \in 1 .. k : \E i \in 1 .. k : q[i] = x
      /\ \A i, j \in 1 .. k : i < j => others[q[i]] <= others[q[j]]
  <2>1. q \in Bijection(1 .. k, 1 .. k) /\ \A i, j \in 1 .. k : i < j => others[q[i]] <= others[q[j]]
    BY <1>4 DEF Orders
  <2> QED
    BY <2>1, BijectionIs
<1> DEFINE p == [i \in 1 .. n |-> IF i = 1 THEN m ELSE r[q[i - 1]]]
<1>6. p[1] = m /\ \A i \in 1 .. n, a \in 1 .. k : i = a + 1 => p[i] = r[q[a]]
  OBVIOUS
<1>60. DOMAIN p = 1 .. n /\ p = [i \in 1 .. n |-> p[i]]
  OBVIOUS
<1> HIDE DEF p
<1>61. \A i \in 1 .. n : i = 1 \/ \E a \in 1 .. k : i = a + 1
  <2> SUFFICES ASSUME NEW i \in 1 .. n, i # 1 PROVE \E a \in 1 .. k : i = a + 1
    OBVIOUS
  <2>1. i - 1 \in 1 .. k /\ i = (i - 1) + 1
    OBVIOUS
  <2> QED
    BY <2>1
<1>62. \A a \in 1 .. k : q[a] \in 1 .. k /\ r[q[a]] \in 1 .. n /\ r[q[a]] # m
  BY <1>2, <1>5
<1>63. \A i \in 1 .. n : p[i] \in 1 .. n
  BY <1>6, <1>61, <1>62
<1>7. p \in [1 .. n -> 1 .. n]
  BY <1>60, <1>63
<1>8. ASSUME NEW i \in 1 .. n, NEW j \in 1 .. n, p[i] = p[j] PROVE i = j
  <2>1. CASE i = 1 \/ j = 1
    <3>1. ASSUME NEW x \in 1 .. n, x # 1 PROVE p[x] # m
      <4>1. PICK a \in 1 .. k : x = a + 1
        BY <1>61, <3>1
      <4>2. p[x] = r[q[a]]
        BY <1>6, <4>1
      <4> QED
        BY <1>62, <4>2
    <3>2. p[1] = m
      BY <1>6
    <3> QED
      BY <1>8, <2>1, <3>1, <3>2
  <2>2. CASE i # 1 /\ j # 1
    <3>1. PICK a \in 1 .. k : i = a + 1
      BY <1>61, <2>2
    <3>2. PICK b \in 1 .. k : j = b + 1
      BY <1>61, <2>2
    <3>3. r[q[a]] = r[q[b]]
      BY <1>6, <1>8, <3>1, <3>2
    <3>4. q[a] = q[b]
      BY <1>2, <1>62, <3>3
    <3>5. a = b
      BY <1>5, <3>4
    <3> QED
      BY <3>1, <3>2, <3>5
  <2> QED
    BY <2>1, <2>2
<1>9. ASSUME NEW x \in 1 .. n PROVE \E i \in 1 .. n : p[i] = x
  <2>1. CASE x = m
    BY <1>6, <2>1
  <2>2. CASE x # m
    <3>1. PICK y \in 1 .. k : r[y] = x
      BY <1>2, <2>2
    <3>2. PICK a \in 1 .. k : q[a] = y
      BY <1>5
    <3>3. PICK i \in 1 .. n : i = a + 1
      OBVIOUS
    <3> QED
      BY <1>6, <3>1, <3>2, <3>3
  <2> QED
    BY <2>1, <2>2
<1>10. ASSUME NEW i \in 1 .. n, NEW j \in 1 .. n, i < j PROVE key[p[i]] <= key[p[j]]
  <2>1. CASE i = 1
    BY <1>1, <1>6, <1>63, <2>1
  <2>2. CASE i # 1
    <3>1. PICK a \in 1 .. k : i = a + 1
      BY <1>61, <2>2
    <3>2. PICK b \in 1 .. k : j = b + 1
      <4>1. j # 1
        BY <1>10
      <4> QED
        BY <1>61, <4>1
    <3>3. a < b
      BY <1>10, <3>1, <3>2
    <3>4. others[q[a]] <= others[q[b]]
      BY <1>5, <3>3
    <3>5. key[r[q[a]]] <= key[r[q[b]]]
      BY <1>62, <3>4
    <3> QED
      BY <1>6, <3>1, <3>2, <3>5
  <2> QED
    BY <2>1, <2>2
<1>11. n \in Nat
  OBVIOUS
<1> HIDE DEF n
<1>12. p \in Bijection(1 .. n, 1 .. n)
  BY <1>7, <1>8, <1>9, <1>11, BijectionIs
<1>13. p \in Orders(n, key)
  BY <1>10, <1>12 DEF Orders
<1> QED
  BY <1>13 DEF n

LEMMA CanBeOrdered ==
  ASSUME NEW n \in Nat, NEW key \in [1 .. n -> Nat]
  PROVE  Orders(n, key) # {}
<1> DEFINE S == {k \in Nat : \A x \in [1 .. k -> Nat] : Orders(k, x) # {}}
<1>1. 0 \in S
  <2> SUFFICES ASSUME NEW x \in [1 .. 0 -> Nat] PROVE Orders(0, x) # {}
    OBVIOUS
  <2> DEFINE p == [i \in 1 .. 0 |-> i]
  <2>1. p \in [1 .. 0 -> 1 .. 0] /\ 1 .. 0 = {}
    OBVIOUS
  <2> HIDE DEF p
  <2>2. p \in Bijection(1 .. 0, 1 .. 0)
    BY <2>1 DEF Bijection, Injection, Surjection, IsInjective
  <2>3. p \in Orders(0, x)
    BY <2>1, <2>2 DEF Orders
  <2> QED
    BY <2>3
<1>2. ASSUME NEW k \in Nat, k \in S PROVE k + 1 \in S
  <2>1. \A x \in [1 .. k -> Nat] : Orders(k, x) # {}
    BY <1>2
  <2>2. \A x \in [1 .. k + 1 -> Nat] : Orders(k + 1, x) # {}
    <3> HIDE DEF S
    <3> QED
      BY <2>1, OrderOneMore
  <2> QED
    BY <2>2
<1> HIDE DEF S
<1>3. n \in S
  BY <1>1, <1>2, SetInduction
<1> QED
  BY <1>3 DEF S

-----------------------------------------------------------------------------
(* Ranges of a file's bytes. *)

(* The ranges within a file of that many bytes, and what they cover.       *)
RangesWithin(size) ==
    { r \in [first : 0 .. size - 1, last : 0 .. size - 1] : r.first <= r.last }

Covers(ranges, o) == \E i \in 1 .. Len(ranges) : ranges[i].first <= o /\ o <= ranges[i].last

(* No range overlaps or adjoins another, and they are in order.            *)
Apart(ranges) == \A i, j \in 1 .. Len(ranges) : i < j => ranges[i].last + 1 < ranges[j].first

LEMMA SortedIs ==
  ASSUME NEW size \in Nat, NEW ranges \in Seq(RangesWithin(size))
  PROVE  /\ Sorted(ranges) \in Seq(RangesWithin(size)) /\ Len(Sorted(ranges)) = Len(ranges)
         /\ \A i, j \in 1 .. Len(ranges) : i < j => Sorted(ranges)[i].first <= Sorted(ranges)[j].first
         /\ \A o : Covers(Sorted(ranges), o) <=> Covers(ranges, o)
<1> DEFINE n == Len(ranges)
           R == RangesWithin(size)
           key == [i \in 1 .. n |-> ranges[i].first]
           IsOrder(p) == /\ p \in Bijection(1 .. n, 1 .. n)
                         /\ \A i, j \in 1 .. n : i < j => ranges[p[i]].first <= ranges[p[j]].first
           order == CHOOSE p : IsOrder(p)
           sorted == Sorted(ranges)
<1>1. n \in Nat /\ DOMAIN ranges = 1 .. n /\ \A i \in 1 .. n : ranges[i] \in R
  <2>1. ranges \in Seq(R)
    OBVIOUS
  <2> HIDE DEF R
  <2> QED
    BY <2>1
<1>2. \A r \in R : r.first \in Nat
  BY DEF RangesWithin
<1>3. key \in [1 .. n -> Nat]
  <2> HIDE DEF R, n
  <2> QED
    BY <1>1, <1>2
<1>4. PICK p \in Orders(n, key) : TRUE
  <2> HIDE DEF key, n
  <2> QED
    BY <1>1, <1>3, CanBeOrdered
<1>5. IsOrder(p)
  <2>1. p \in Bijection(1 .. n, 1 .. n) /\ \A i, j \in 1 .. n : i < j => key[p[i]] <= key[p[j]]
    BY <1>4 DEF Orders
  <2>2. p \in [1 .. n -> 1 .. n]
    BY <2>1 DEF Bijection, Injection
  <2> HIDE DEF n
  <2> QED
    BY <2>1, <2>2
<1>6. IsOrder(order)
  BY <1>5
<1>7. sorted = [i \in 1 .. n |-> ranges[order[i]]]
  BY <1>1 DEF Sorted
<1> HIDE DEF order, sorted, key
<1>8. /\ order \in [1 .. n -> 1 .. n]
      /\ \A x \in 1 .. n : \E i \in 1 .. n : order[i] = x
  <2> HIDE DEF n
  <2> QED
    BY <1>1, <1>6, BijectionIs
<1> HIDE DEF n, R
<1>9. \A i \in 1 .. n : sorted[i] = ranges[order[i]] /\ sorted[i] \in R
  BY <1>1, <1>7, <1>8
<1>10. sorted \in Seq(R) /\ Len(sorted) = n
  BY <1>1, <1>7, <1>9
<1>11. \A i, j \in 1 .. n : i < j => sorted[i].first <= sorted[j].first
  BY <1>6, <1>8, <1>9
<1>12. ASSUME NEW o PROVE Covers(sorted, o) <=> Covers(ranges, o)
  <2>1. Covers(sorted, o) <=> \E i \in 1 .. n : sorted[i].first <= o /\ o <= sorted[i].last
    BY <1>10 DEF Covers
  <2>2. Covers(ranges, o) <=> \E i \in 1 .. n : ranges[i].first <= o /\ o <= ranges[i].last
    BY DEF Covers, n
  <2>3. ASSUME NEW i \in 1 .. n, sorted[i].first <= o /\ o <= sorted[i].last
        PROVE  \E j \in 1 .. n : ranges[j].first <= o /\ o <= ranges[j].last
    BY <1>8, <1>9, <2>3
  <2>4. ASSUME NEW j \in 1 .. n, ranges[j].first <= o /\ o <= ranges[j].last
        PROVE  \E i \in 1 .. n : sorted[i].first <= o /\ o <= sorted[i].last
    <3>1. PICK i \in 1 .. n : order[i] = j
      BY <1>8
    <3> QED
      BY <1>9, <2>4, <3>1
  <2> QED
    BY <2>1, <2>2, <2>3, <2>4
<1> QED
  BY <1>10, <1>11, <1>12 DEF n, R, sorted

(* What becomes of the ranges done when one more is merged into them.      *)
LEMMA MergeIs ==
  ASSUME NEW size \in Sizes, NEW done \in Seq(RangesWithin(size)), NEW r \in RangesWithin(size)
  PROVE  /\ MergeInto(done, r) \in Seq(RangesWithin(size)) /\ Len(MergeInto(done, r)) > 0
         /\ Apart(done) /\ (done # <<>> => done[Len(done)].first <= r.first) =>
               /\ Apart(MergeInto(done, r))
               /\ MergeInto(done, r)[Len(MergeInto(done, r))].first <= r.first
               /\ \A o \in Nat : Covers(MergeInto(done, r), o) <=>
                                    Covers(done, o) \/ (r.first <= o /\ o <= r.last)
<1> DEFINE R == RangesWithin(size)
           n == Len(done)
           m == MergeInto(done, r)
           x == [done[n] EXCEPT !.last = HigherOf(done[n].last, r.last)]
<1>0. NoLimit \in Nat /\ size \in Nat /\ size <= NoLimit
  BY BoundsAssumption DEF Sizes
<1>1. n \in Nat /\ (n = 0 <=> done = <<>>) /\ \A i \in 1 .. n : done[i] \in R
  <2>1. done \in Seq(R)
    OBVIOUS
  <2> HIDE DEF R
  <2> QED
    BY <2>1
<1>2. \A q \in R : /\ q = [first |-> q.first, last |-> q.last]
                   /\ q.first \in Nat /\ q.last \in Nat /\ q.first <= q.last /\ q.last < size
  BY <1>0 DEF RangesWithin
<1>3. \A a, b \in Nat : a <= b /\ b < size => [first |-> a, last |-> b] \in R
  BY <1>0 DEF RangesWithin
<1> HIDE DEF R, n
<1>4. r \in R
  BY DEF R
<1>5. CASE done # <<>> /\ (done[n].last = NoLimit \/ r.first <= done[n].last + 1)
  <2>1. n \in 1 .. n /\ done[n] \in R
    BY <1>1, <1>5
  <2>2. /\ x = [first |-> done[n].first, last |-> HigherOf(done[n].last, r.last)]
        /\ x.first = done[n].first /\ x.last = HigherOf(done[n].last, r.last)
    BY <1>2, <2>1
  <2>3. /\ x.last \in Nat /\ done[n].last <= x.last /\ r.last <= x.last /\ x.last < size
        /\ x.last = done[n].last \/ x.last = r.last
    BY <1>0, <1>2, <1>4, <2>1, <2>2 DEF HigherOf
  <2>4. x \in R
    BY <1>2, <1>3, <2>1, <2>2, <2>3
  <2>5. m = [done EXCEPT ![n] = x]
    BY <1>5, <2>1 DEF MergeInto, n
  <2> HIDE DEF x, m
  <2>6. m \in Seq(R) /\ Len(m) = n /\ \A i \in 1 .. n : m[i] = IF i = n THEN x ELSE done[i]
    <3>1. done \in Seq(R) /\ n \in 1 .. Len(done)
      BY <2>1 DEF R, n
    <3> QED
      BY <2>4, <2>5, <3>1, SeqUpdated DEF n
  <2>7. ASSUME Apart(done), done # <<>> => done[n].first <= r.first
        PROVE  /\ Apart(m) /\ m[Len(m)].first <= r.first
               /\ \A o \in Nat : Covers(m, o) <=> Covers(done, o) \/ (r.first <= o /\ o <= r.last)
    <3>1. m[Len(m)].first <= r.first
      BY <1>5, <2>1, <2>2, <2>6, <2>7
    <3>2. Apart(m)
      <4> SUFFICES ASSUME NEW i \in 1 .. n, NEW j \in 1 .. n, i < j PROVE m[i].last + 1 < m[j].first
        BY <2>6 DEF Apart
      <4>1. m[i] = done[i] /\ m[j].first = done[j].first
        BY <1>1, <2>2, <2>6
      <4> QED
        BY <2>7, <4>1 DEF Apart, n
    <3>3. ASSUME NEW o \in Nat PROVE Covers(m, o) <=> Covers(done, o) \/ (r.first <= o /\ o <= r.last)
      <4>1. Covers(m, o) <=> \E i \in 1 .. n : m[i].first <= o /\ o <= m[i].last
        BY <2>6 DEF Covers
      <4>2. Covers(done, o) <=> \E i \in 1 .. n : done[i].first <= o /\ o <= done[i].last
        BY DEF Covers, n
      <4>3. x.first <= o /\ o <= x.last <=>
               (done[n].first <= o /\ o <= done[n].last) \/ (r.first <= o /\ o <= r.last)
        BY <1>0, <1>2, <1>4, <1>5, <2>1, <2>2, <2>3, <2>7
      <4> QED
        BY <2>1, <2>6, <4>1, <4>2, <4>3
    <3> QED
      BY <3>1, <3>2, <3>3
  <2>8. Len(m) > 0
    BY <2>1, <2>6
  <2> QED
    BY <2>6, <2>7, <2>8 DEF m, R, n
<1>6. CASE ~(done # <<>> /\ (done[n].last = NoLimit \/ r.first <= done[n].last + 1))
  <2>1. m = Append(done, r)
    BY <1>6 DEF MergeInto, n
  <2> HIDE DEF m
  <2>2. m \in Seq(R) /\ Len(m) = n + 1 /\ (\A i \in 1 .. n : m[i] = done[i]) /\ m[n + 1] = r
    <3>1. done \in Seq(R)
      BY DEF R
    <3> QED
      BY <1>4, <2>1, <3>1, SeqAppended DEF n
  <2>3. ASSUME Apart(done), done # <<>> => done[n].first <= r.first
        PROVE  /\ Apart(m) /\ m[Len(m)].first <= r.first
               /\ \A o \in Nat : Covers(m, o) <=> Covers(done, o) \/ (r.first <= o /\ o <= r.last)
    <3>1. m[Len(m)].first <= r.first
      BY <1>2, <1>4, <2>2
    <3>2. Apart(m)
      <4> SUFFICES ASSUME NEW i \in 1 .. n + 1, NEW j \in 1 .. n + 1, i < j
                   PROVE  m[i].last + 1 < m[j].first
        BY <2>2 DEF Apart
      <4>1. i \in 1 .. n /\ m[i] = done[i] /\ done[i] \in R
        BY <1>1, <2>2
      <4>2. CASE j = n + 1
        <5>1. n \in 1 .. n /\ done # <<>> /\ done[n] \in R /\ done[n].last + 1 < r.first
          BY <1>1, <1>2, <1>4, <1>6, <4>1
        <5>2. CASE i = n
          BY <2>2, <4>1, <4>2, <5>1, <5>2
        <5>3. CASE i < n
          <6>1. done[i].last + 1 < done[n].first
            BY <2>3, <4>1, <5>1, <5>3 DEF Apart, n
          <6> QED
            BY <1>2, <1>4, <2>2, <4>1, <4>2, <5>1, <6>1
        <5> QED
          BY <1>1, <4>1, <5>2, <5>3
      <4>3. CASE j # n + 1
        <5>1. j \in 1 .. n
          BY <1>1, <4>3
        <5> QED
          BY <2>2, <2>3, <4>1, <5>1 DEF Apart, n
      <4> QED
        BY <4>2, <4>3
    <3>3. ASSUME NEW o \in Nat PROVE Covers(m, o) <=> Covers(done, o) \/ (r.first <= o /\ o <= r.last)
      <4>1. Covers(m, o) <=> \E i \in 1 .. n + 1 : m[i].first <= o /\ o <= m[i].last
        BY <2>2 DEF Covers
      <4>2. Covers(done, o) <=> \E i \in 1 .. n : done[i].first <= o /\ o <= done[i].last
        BY DEF Covers, n
      <4>3. n + 1 \in 1 .. n + 1 /\ \A i \in 1 .. n + 1 : i = n + 1 \/ i \in 1 .. n
        BY <1>1
      <4>4. \A i \in 1 .. n : i \in 1 .. n + 1
        BY <1>1
      <4> QED
        BY <2>2, <4>1, <4>2, <4>3, <4>4
    <3> QED
      BY <3>1, <3>2, <3>3
  <2>4. Len(m) > 0
    BY <1>1, <2>2
  <2> QED
    BY <2>2, <2>3, <2>4 DEF m, R, n
<1> QED
  BY <1>5, <1>6

(* coalesce_ranges, for ranges within a file in any order and number: what *)
(* it returns covers the same bytes, in ascending order, and no two of its *)
(* ranges overlap or adjoin.                                               *)
THEOREM CoalescedRanges ==
  ASSUME NEW size \in Sizes, NEW ranges \in Seq(RangesWithin(size))
  PROVE  /\ CoalesceRanges(ranges) \in Seq(RangesWithin(size))
         /\ ranges # <<>> => CoalesceRanges(ranges) # <<>>
         /\ Apart(CoalesceRanges(ranges))
         /\ \A o \in Nat : Covers(CoalesceRanges(ranges), o) <=> Covers(ranges, o)
<1> DEFINE n == Len(ranges)
           R == RangesWithin(size)
           V == Seq(R)
           sorted == Sorted(ranges)
           Is(f) == f = [i \in 0 .. n |-> IF i = 0 THEN <<>> ELSE MergeInto(f[i - 1], sorted[i])]
           e == CHOOSE f : Is(f)
           g == [x \in V \X (1 .. n) |-> MergeInto(x[1], sorted[x[2]])]
<1>0. size \in Nat /\ n \in Nat /\ (n = 0 <=> ranges = <<>>)
  BY BoundsAssumption DEF Sizes
<1>1. CoalesceRanges(ranges) = e[n]
  BY DEF CoalesceRanges
<1>2. /\ sorted \in Seq(R) /\ Len(sorted) = n
      /\ \A i, j \in 1 .. n : i < j => sorted[i].first <= sorted[j].first
      /\ \A o : Covers(sorted, o) <=> Covers(ranges, o)
  BY <1>0, SortedIs
<1>3. \A v \in V, i \in 1 .. n : MergeInto(v, sorted[i]) \in V
  <2> SUFFICES ASSUME NEW v \in V, NEW i \in 1 .. n PROVE MergeInto(v, sorted[i]) \in V
    OBVIOUS
  <2> HIDE DEF sorted, n, R
  <2>1. sorted[i] \in R
    BY <1>2
  <2> QED
    BY <2>1, MergeIs DEF R
<1>4. <<>> \in V
  OBVIOUS
<1> HIDE DEF sorted
<1>5. g \in [V \X (1 .. n) -> V] /\ \A v \in V, i \in 1 .. n : g[<<v, i>>] = MergeInto(v, sorted[i])
  <2> HIDE DEF V, n
  <2> QED
    BY <1>3
<1>6. Iterations(V, <<>>, n, g) # {}
  <2> HIDE DEF V, n, g
  <2> QED
    BY <1>0, <1>4, <1>5, Iterates
<1>7. \E f : Is(f)
  <2>1. PICK h \in [0 .. n -> V] : h[0] = <<>> /\ \A i \in 1 .. n : h[i] = g[<<h[i - 1], i>>]
    BY <1>6 DEF Iterations
  <2> HIDE DEF V, n, g
  <2>2. ASSUME NEW i \in 0 .. n PROVE h[i] = IF i = 0 THEN <<>> ELSE MergeInto(h[i - 1], sorted[i])
    <3>1. CASE i # 0
      <4>1. i \in 1 .. n /\ i - 1 \in 0 .. n
        BY <1>0, <3>1
      <4>2. h[i - 1] \in V
        BY <2>1, <4>1
      <4> QED
        BY <1>5, <2>1, <3>1, <4>1, <4>2
    <3> QED
      BY <2>1, <3>1
  <2>3. Is(h)
    BY <2>1, <2>2
  <2> QED
    BY <2>3
<1>8. Is(e)
  BY <1>7
<1> HIDE DEF e
<1>9. e[0] = <<>> /\ \A i \in 1 .. n : e[i] = MergeInto(e[i - 1], sorted[i])
  <2>1. \A i \in 0 .. n : e[i] = IF i = 0 THEN <<>> ELSE MergeInto(e[i - 1], sorted[i])
    BY <1>8
  <2> HIDE DEF n, Is
  <2>2. 0 \in 0 .. n /\ \A i \in 1 .. n : i \in 0 .. n /\ i # 0
    BY <1>0
  <2> QED
    BY <2>1, <2>2
<1> DEFINE Covered(k, o) == \E i \in 1 .. k : sorted[i].first <= o /\ o <= sorted[i].last
           Good(k) == /\ e[k] \in V /\ Apart(e[k]) /\ \A o \in Nat : Covers(e[k], o) <=> Covered(k, o)
                      /\ k > 0 => Len(e[k]) > 0 /\ e[k][Len(e[k])].first <= sorted[k].first
           S == {k \in Nat : k <= n => Good(k)}
<1> HIDE DEF n, Is, g
<1>10. 0 \in S
  <2>1. Apart(<<>>) /\ \A o \in Nat : ~Covers(<<>>, o) /\ ~Covered(0, o)
    BY DEF Apart, Covers
  <2> HIDE DEF V, Covered
  <2>2. Good(0)
    BY <1>4, <1>9, <2>1
  <2> QED
    BY <2>2
<1>11. ASSUME NEW k \in Nat, k \in S PROVE k + 1 \in S
  <2> SUFFICES ASSUME k + 1 <= n PROVE Good(k + 1)
    OBVIOUS
  <2> DEFINE done == e[k]
             r == sorted[k + 1]
  <2>1. Good(k)
    BY <1>0, <1>11
  <2>2. r \in R /\ (k > 0 => sorted[k].first <= r.first)
    <3>1. k + 1 \in 1 .. n /\ (k > 0 => k \in 1 .. n /\ k < k + 1)
      BY <1>0
    <3> HIDE DEF R
    <3> QED
      BY <1>2, <3>1
  <2>3. e[k + 1] = MergeInto(done, r)
    <3>1. PICK j \in 1 .. n : j = k + 1 /\ j - 1 = k
      BY <1>0
    <3> QED
      BY <1>9, <3>1
  <2>4. \A q \in R : q.first \in Nat
    BY DEF RangesWithin
  <2>5. done # <<>> => done[Len(done)].first <= r.first
    <3> SUFFICES ASSUME done # <<>> PROVE done[Len(done)].first <= r.first
      OBVIOUS
    <3>1. k > 0
      BY <1>9
    <3>2. Len(done) > 0 /\ done[Len(done)].first <= sorted[k].first /\ done \in Seq(R)
      BY <2>1, <3>1
    <3>3. sorted[k] \in R /\ done[Len(done)] \in R
      <4>1. k \in 1 .. n
        BY <1>0, <3>1
      <4> HIDE DEF R, done
      <4> QED
        BY <1>2, <3>2, <4>1
    <3> HIDE DEF R, done, r
    <3> QED
      BY <2>2, <2>4, <3>1, <3>2, <3>3
  <2>6. done \in Seq(R) /\ Apart(done) /\ \A o \in Nat : Covers(done, o) <=> Covered(k, o)
    BY <2>1
  <2> DEFINE m == MergeInto(done, r)
  <2> HIDE DEF done, r
  <2>7. /\ m \in Seq(R) /\ Len(m) > 0 /\ Apart(m) /\ m[Len(m)].first <= r.first
        /\ \A o \in Nat : Covers(m, o) <=> Covers(done, o) \/ (r.first <= o /\ o <= r.last)
    BY <2>2, <2>5, <2>6, MergeIs
  <2>8. ASSUME NEW o \in Nat
        PROVE  Covered(k + 1, o) <=> Covered(k, o) \/ (r.first <= o /\ o <= r.last)
    <3>1. k + 1 \in 1 .. k + 1 /\ \A i \in 1 .. k + 1 : i = k + 1 \/ i \in 1 .. k
      OBVIOUS
    <3>2. \A i \in 1 .. k : i \in 1 .. k + 1
      OBVIOUS
    <3> QED
      BY <3>1, <3>2 DEF r
  <2> HIDE DEF m, R, Covered
  <2>9. e[k + 1] = m
    BY <2>3 DEF m
  <2> QED
    BY <2>6, <2>7, <2>8, <2>9 DEF r
<1> HIDE DEF S
<1>12. n \in S
  BY <1>0, <1>10, <1>11, SetInduction
<1>13. Good(n)
  BY <1>0, <1>12 DEF S
<1>14. \A o : Covered(n, o) <=> Covers(sorted, o)
  BY <1>2 DEF Covers
<1> HIDE DEF Covered
<1>15. ranges # <<>> => e[n] # <<>>
  BY <1>0, <1>13
<1> QED
  BY <1>1, <1>2, <1>13, <1>14, <1>15

LEMMA ConcatIs ==
  ASSUME NEW S, NEW s \in Seq(S), NEW t \in Seq(S)
  PROVE  /\ s \o t \in Seq(S) /\ Len(s \o t) = Len(s) + Len(t)
         /\ Len(s) > 0 => Len(s \o t) > 0
         /\ \A i \in 1 .. Len(s) : (s \o t)[i] = s[i]
         /\ \A i \in 1 .. Len(t) : (s \o t)[Len(s) + i] = t[i]
OBVIOUS

(* The offsets of a range, and of several.                                 *)
Run(r) == [k \in 1 .. r.last - r.first + 1 |-> r.first + k - 1]

Runs(ranges) == FlattenSeq([i \in DOMAIN ranges |-> Run(ranges[i])])

Rising(s) == \A a, b \in 1 .. Len(s) : a < b => s[a] < s[b]

Occurs(s, o) == \E a \in 1 .. Len(s) : s[a] = o

LEMMA RunIs ==
  ASSUME NEW size \in Nat, NEW r \in RangesWithin(size)
  PROVE  /\ Run(r) \in Seq(Nat) /\ Len(Run(r)) > 0 /\ Rising(Run(r))
         /\ \A o \in Nat : Occurs(Run(r), o) <=> r.first <= o /\ o <= r.last
<1> DEFINE n == r.last - r.first + 1
<1>1. r.first \in Nat /\ r.last \in Nat /\ r.first <= r.last /\ n \in Nat /\ n > 0
  BY DEF RangesWithin
<1>2. \A k \in 1 .. n : r.first + k - 1 \in Nat
  BY <1>1
<1> DEFINE s == Run(r)
<1>3. s = [k \in 1 .. n |-> r.first + k - 1]
  BY DEF Run
<1> HIDE DEF s, n
<1>4. s \in Seq(Nat) /\ Len(s) = n /\ \A k \in 1 .. n : s[k] = r.first + k - 1
  BY <1>1, <1>2, <1>3
<1>5. Rising(s)
  <2> SUFFICES ASSUME NEW a \in 1 .. n, NEW b \in 1 .. n, a < b PROVE s[a] < s[b]
    BY <1>4 DEF Rising
  <2>1. s[a] = r.first + a - 1 /\ s[b] = r.first + b - 1
    BY <1>4
  <2> QED
    BY <1>1, <2>1
<1>6. ASSUME NEW o \in Nat PROVE Occurs(s, o) <=> r.first <= o /\ o <= r.last
  <2>1. ASSUME r.first <= o /\ o <= r.last PROVE Occurs(s, o)
    <3>1. o - r.first + 1 \in 1 .. n /\ r.first + (o - r.first + 1) - 1 = o
      BY <1>1, <2>1 DEF n
    <3> QED
      BY <1>4, <3>1 DEF Occurs
  <2>2. ASSUME Occurs(s, o) PROVE r.first <= o /\ o <= r.last
    BY <1>1, <1>4, <2>2 DEF Occurs, n
  <2> QED
    BY <2>1, <2>2
<1> QED
  BY <1>1, <1>4, <1>5, <1>6 DEF s

LEMMA OccursIs ==
  ASSUME NEW s \in Seq(Nat), NEW a \in 1 .. Len(s)
  PROVE  s[a] \in Nat /\ Occurs(s, s[a])
BY DEF Occurs

(* Rising offsets put behind smaller ones.                                 *)
LEMMA RisingOn ==
  ASSUME NEW s \in Seq(Nat), NEW t \in Seq(Nat), Rising(s), Rising(t), NEW top \in Nat,
         \A a \in 1 .. Len(s) : s[a] <= top, \A b \in 1 .. Len(t) : top < t[b]
  PROVE  /\ Rising(s \o t)
         /\ \A o : Occurs(s \o t, o) <=> Occurs(s, o) \/ Occurs(t, o)
<1> DEFINE m == Len(s)
           n == Len(t)
           u == s \o t
<1>1. m \in Nat /\ n \in Nat /\ (\A a \in 1 .. m : s[a] \in Nat) /\ (\A b \in 1 .. n : t[b] \in Nat)
  OBVIOUS
<1>2. /\ Len(u) = m + n /\ (\A a \in 1 .. m : u[a] = s[a]) /\ (\A b \in 1 .. n : u[m + b] = t[b])
  BY ConcatIs
<1>3. /\ \A a, b \in 1 .. m : a < b => s[a] < s[b]
      /\ \A a, b \in 1 .. n : a < b => t[a] < t[b]
      /\ \A a \in 1 .. m : s[a] <= top
      /\ \A b \in 1 .. n : top < t[b]
  BY DEF Rising
<1> HIDE DEF u, m, n
<1>4. \A a \in 1 .. m + n : a \in 1 .. m \/ \E b \in 1 .. n : a = m + b
  <2> SUFFICES ASSUME NEW a \in 1 .. m + n, a \notin 1 .. m PROVE \E b \in 1 .. n : a = m + b
    OBVIOUS
  <2>1. a - m \in 1 .. n /\ a = m + (a - m)
    BY <1>1
  <2> QED
    BY <2>1
<1>5. Rising(u)
  <2> SUFFICES ASSUME NEW a \in 1 .. m + n, NEW b \in 1 .. m + n, a < b PROVE u[a] < u[b]
    BY <1>2 DEF Rising
  <2>1. CASE a \in 1 .. m /\ b \in 1 .. m
    BY <1>2, <1>3, <2>1
  <2>2. CASE a \in 1 .. m /\ b \notin 1 .. m
    <3>1. PICK c \in 1 .. n : b = m + c
      BY <1>4, <2>2
    <3>2. u[a] <= top /\ top < u[b] /\ u[a] \in Nat /\ u[b] \in Nat
      BY <1>1, <1>2, <1>3, <2>2, <3>1
    <3> QED
      BY <3>2
  <2>3. CASE a \notin 1 .. m
    <3>1. PICK c \in 1 .. n : a = m + c
      BY <1>4, <2>3
    <3>2. b \notin 1 .. m
      BY <1>1, <2>3
    <3>3. PICK d \in 1 .. n : b = m + d
      BY <1>4, <3>2
    <3>4. c < d
      BY <1>1, <3>1, <3>3
    <3> QED
      BY <1>2, <1>3, <3>1, <3>3, <3>4
  <2> QED
    BY <2>1, <2>2, <2>3
<1>6. ASSUME NEW o PROVE Occurs(u, o) <=> Occurs(s, o) \/ Occurs(t, o)
  <2>1. Occurs(u, o) <=> \E a \in 1 .. m + n : u[a] = o
    BY <1>2 DEF Occurs
  <2>2. Occurs(s, o) <=> \E a \in 1 .. m : u[a] = o
    BY <1>2 DEF Occurs, m
  <2>3. Occurs(t, o) <=> \E b \in 1 .. n : u[m + b] = o
    BY <1>2 DEF Occurs, n
  <2>4. (\A a \in 1 .. m : a \in 1 .. m + n) /\ \A b \in 1 .. n : m + b \in 1 .. m + n
    BY <1>1
  <2> QED
    BY <1>4, <2>1, <2>2, <2>3, <2>4
<1> QED
  BY <1>5, <1>6 DEF u

(* Rising numbers count the set of them.                                   *)
LEMMA RisingCounts ==
  ASSUME NEW s \in Seq(Nat), Rising(s), NEW B, \A o : o \in B <=> Occurs(s, o)
  PROVE  IsFiniteSet(B) /\ Cardinality(B) = Len(s)
<1> DEFINE n == Len(s)
<1>1. n \in Nat /\ DOMAIN s = 1 .. n /\ s = [i \in 1 .. n |-> s[i]] /\ \A i \in 1 .. n : s[i] \in Nat
  OBVIOUS
<1>2. \A i \in 1 .. n : s[i] \in B
  BY DEF Occurs
<1>3. s \in [1 .. n -> B]
  <2> HIDE DEF n
  <2> QED
    BY <1>1, <1>2
<1>4. ASSUME NEW i \in 1 .. n, NEW j \in 1 .. n, s[i] = s[j] PROVE i = j
  BY <1>1, <1>4 DEF Rising
<1>5. \A o \in B : \E i \in 1 .. n : s[i] = o
  BY DEF Occurs
<1> HIDE DEF n
<1>6. s \in Bijection(1 .. n, B)
  BY <1>1, <1>3, <1>4, <1>5 DEF Bijection, Injection, Surjection, IsInjective
<1>7. ExistsBijection(1 .. n, B)
  BY <1>6 DEF ExistsBijection
<1>8. IsFiniteSet(1 .. n) /\ Cardinality(1 .. n) = n
  <2>1. 1 \in Int /\ n \in Int /\ n - 1 + 1 = n
    BY <1>1
  <2>2. IsFiniteSet(1 .. n) /\ Cardinality(1 .. n) = IF 1 > n THEN 0 ELSE n - 1 + 1
    BY <2>1, FS_Interval
  <2> QED
    BY <1>1, <2>1, <2>2
<1> QED
  BY <1>7, <1>8, FS_Bijection DEF n

(* The offsets of ranges apart from each other are as many as the bytes    *)
(* they cover: no byte is sent twice, and none is left out.                *)
LEMMA RunsCount ==
  ASSUME NEW size \in Nat, NEW ranges \in Seq(RangesWithin(size)), ranges # <<>>, Apart(ranges),
         NEW B, \A o : o \in B <=> o \in Nat /\ Covers(ranges, o)
  PROVE  /\ Runs(ranges) \in Seq(Nat) /\ Len(Runs(ranges)) = Cardinality(B)
         /\ Len(Runs(ranges)) > 0
<1> DEFINE n == Len(ranges)
           R == RangesWithin(size)
           s == [i \in 1 .. n |-> Run(ranges[i])]
<1>1. n \in Nat \ {0} /\ DOMAIN ranges = 1 .. n /\ \A i \in 1 .. n : ranges[i] \in R
  <2>1. ranges \in Seq(R)
    OBVIOUS
  <2> HIDE DEF R
  <2> QED
    BY <2>1
<1>2. Runs(ranges) = FlattenSeq(s)
  BY <1>1 DEF Runs
<1> HIDE DEF n
<1>3. ASSUME NEW i \in 1 .. n
      PROVE  /\ s[i] = Run(ranges[i]) /\ s[i] \in Seq(Nat) /\ Len(s[i]) > 0 /\ Rising(s[i])
             /\ \A o \in Nat : Occurs(s[i], o) <=> ranges[i].first <= o /\ o <= ranges[i].last
  <2>1. ranges[i] \in R
    BY <1>1
  <2>2. s[i] = Run(ranges[i])
    OBVIOUS
  <2> HIDE DEF s
  <2> QED
    BY <2>1, <2>2, RunIs
<1>4. s \in Seq(Seq(Nat)) /\ Len(s) = n /\ s # <<>>
  <2> DEFINE T == Seq(Nat)
  <2>1. \A i \in 1 .. n : Run(ranges[i]) \in T
    BY <1>3
  <2> HIDE DEF T
  <2>2. s \in Seq(T) /\ Len(s) = n
    BY <1>1, <2>1
  <2> QED
    BY <1>1, <2>2 DEF T
<1> HIDE DEF s
<1>5. PICK f \in [1 .. n -> Seq(Nat)] :
         f[1] = s[1] /\ (\A i \in 2 .. n : f[i] = f[i - 1] \o s[i]) /\ FlattenSeq(s) = f[n]
  BY <1>4, FlattenIs
<1>6. \A i \in 1 .. n : /\ ranges[i].first \in Nat /\ ranges[i].last \in Nat
                        /\ ranges[i].first <= ranges[i].last
  <2>1. \A r \in R : r.first \in Nat /\ r.last \in Nat /\ r.first <= r.last
    BY DEF RangesWithin
  <2> HIDE DEF R
  <2> QED
    BY <1>1, <2>1
<1> DEFINE Covered(k, o) == \E i \in 1 .. k : ranges[i].first <= o /\ o <= ranges[i].last
           Good(k) == /\ f[k] \in Seq(Nat) /\ Len(f[k]) > 0 /\ Rising(f[k])
                      /\ \A o \in Nat : Occurs(f[k], o) <=> Covered(k, o)
                      /\ \A a \in 1 .. Len(f[k]) : f[k][a] <= ranges[k].last
           S == {k \in Nat : k \in 1 .. n => Good(k)}
<1> HIDE DEF Good
<1>7. 0 \in S
  OBVIOUS
<1>8. Good(1)
  <2>1. 1 \in 1 .. n
    BY <1>1
  <2>2. /\ f[1] \in Seq(Nat) /\ Len(f[1]) > 0 /\ Rising(f[1])
        /\ \A o \in Nat : Occurs(f[1], o) <=> ranges[1].first <= o /\ o <= ranges[1].last
    BY <1>3, <1>5, <2>1
  <2>3. \A o : Covered(1, o) <=> ranges[1].first <= o /\ o <= ranges[1].last
    OBVIOUS
  <2>4. ASSUME NEW a \in 1 .. Len(f[1]) PROVE f[1][a] <= ranges[1].last
    <3>1. f[1][a] \in Nat /\ Occurs(f[1], f[1][a])
      BY <2>2 DEF Occurs
    <3> QED
      BY <2>2, <3>1
  <2> HIDE DEF Covered
  <2> QED
    BY <2>2, <2>3, <2>4 DEF Good
<1>9. ASSUME NEW k \in Nat, k \in S PROVE k + 1 \in S
  <2> SUFFICES ASSUME k + 1 \in 1 .. n PROVE Good(k + 1)
    OBVIOUS
  <2>1. CASE k = 0
    BY <1>8, <2>1
  <2>2. CASE k # 0
    <3>1. PICK j \in 2 .. n : j = k + 1 /\ j - 1 = k
      BY <1>1, <2>2
    <3>2. j \in 1 .. n /\ k \in 1 .. n /\ k < j
      BY <1>1, <2>2, <3>1
    <3>3. Good(k)
      BY <1>9, <3>2
    <3>4. f[j] = f[k] \o s[j]
      BY <1>5, <3>1
    <3> DEFINE top == ranges[k].last
    <3>5. top \in Nat /\ top < ranges[j].first
      <4>1. top + 1 < ranges[j].first
        BY <3>2 DEF Apart, n
      <4> QED
        BY <1>6, <3>2, <4>1
    <3>6. /\ s[j] \in Seq(Nat) /\ Len(s[j]) > 0 /\ Rising(s[j])
          /\ \A o \in Nat : Occurs(s[j], o) <=> ranges[j].first <= o /\ o <= ranges[j].last
      BY <1>3, <3>2
    <3>7. ASSUME NEW b \in 1 .. Len(s[j]) PROVE top < s[j][b] /\ s[j][b] <= ranges[j].last
      <4>1. s[j][b] \in Nat /\ Occurs(s[j], s[j][b])
        BY <3>6, OccursIs
      <4>2. ranges[j].first <= s[j][b] /\ s[j][b] <= ranges[j].last
        BY <3>6, <4>1
      <4> QED
        BY <1>6, <3>2, <3>5, <4>1, <4>2
    <3>8. f[k] \in Seq(Nat) /\ Len(f[k]) > 0 /\ Rising(f[k]) /\ \A a \in 1 .. Len(f[k]) : f[k][a] <= top
      BY <3>3 DEF Good, top
    <3>9. \A o \in Nat : Occurs(f[k], o) <=> Covered(k, o)
      BY <3>3 DEF Good
    <3> DEFINE u == f[k] \o s[j]
    <3> HIDE DEF top, Covered
    <3>10. u \in Seq(Nat) /\ Len(u) > 0
      <4>1. u \in Seq(Nat) /\ (Len(f[k]) > 0 => Len(u) > 0)
        BY <3>6, <3>8, ConcatIs
      <4> HIDE DEF u
      <4> QED
        BY <3>8, <4>1
    <3>11. Rising(u) /\ \A o : Occurs(u, o) <=> Occurs(f[k], o) \/ Occurs(s[j], o)
      BY <3>5, <3>6, <3>7, <3>8, RisingOn
    <3>12. ASSUME NEW o \in Nat PROVE Occurs(u, o) <=> Covered(j, o)
      <4>1. j \in 1 .. j /\ (\A i \in 1 .. j : i = j \/ i \in 1 .. k) /\ \A i \in 1 .. k : i \in 1 .. j
        BY <3>1
      <4>2. Covered(j, o) <=> Covered(k, o) \/ (ranges[j].first <= o /\ o <= ranges[j].last)
        BY <4>1 DEF Covered
      <4> QED
        BY <3>6, <3>9, <3>11, <4>2
    <3>13. ASSUME NEW a \in 1 .. Len(u) PROVE u[a] <= ranges[j].last
      <4>1. u[a] \in Nat /\ Occurs(u, u[a])
        BY <3>10, OccursIs
      <4>2. CASE Occurs(s[j], u[a])
        BY <3>6, <4>1, <4>2
      <4>3. CASE Occurs(f[k], u[a])
        <5>1. u[a] <= top
          BY <3>8, <4>3 DEF Occurs
        <5>2. ranges[j].first \in Nat /\ ranges[j].last \in Nat /\ ranges[j].first <= ranges[j].last
          BY <1>6, <3>2
        <5> HIDE DEF u
        <5> QED
          BY <3>5, <4>1, <5>1, <5>2
      <4> QED
        BY <3>11, <4>1, <4>2, <4>3
    <3> HIDE DEF u
    <3>14. f[j] = u
      BY <3>4 DEF u
    <3>15. Good(j)
      BY <3>10, <3>11, <3>12, <3>13, <3>14 DEF Good
    <3> QED
      BY <3>1, <3>15
  <2> QED
    BY <2>1, <2>2
<1> HIDE DEF S
<1>10. \A k \in Nat : k \in S
  BY <1>7, <1>9, SetInduction
<1>11. n \in 1 .. n
  BY <1>1
<1>12. Good(n)
  BY <1>10, <1>11 DEF S
<1>13. \A o \in Nat : Covered(n, o) <=> Covers(ranges, o)
  BY DEF Covers, n
<1> DEFINE u == f[n]
<1> HIDE DEF Covered
<1>14. u \in Seq(Nat) /\ Len(u) > 0 /\ Rising(u) /\ \A o \in Nat : Occurs(u, o) <=> Covers(ranges, o)
  BY <1>12, <1>13 DEF Good
<1> HIDE DEF u
<1>15. \A o : Occurs(u, o) => o \in Nat
  BY <1>14 DEF Occurs
<1>16. Cardinality(B) = Len(u)
  BY <1>14, <1>15, RisingCounts
<1> QED
  BY <1>2, <1>5, <1>14, <1>16 DEF u

-----------------------------------------------------------------------------
(* The bytes a request asks for. *)

(* What a spec of a Range asks for lies within the file.                   *)
LEMMA ClippedIs ==
  ASSUME NEW size \in Sizes, NEW spec \in [first : Sizes \cup {None}, last : Sizes \cup {None}],
         ~IsMalformed(spec)
  PROVE  Clipped(spec, size) \in Seq(RangesWithin(size))
<1>1. NoLimit \in Nat /\ size \in Nat /\ size <= NoLimit /\ None \notin Nat
  BY BoundsAssumption, RequestsAssumption DEF Sizes
<1>2. spec.first \in Nat \cup {None} /\ spec.last \in Nat \cup {None}
  BY SizesIs
<1> DEFINE R == RangesWithin(size)
<1>3. \A a, b \in Nat : a <= b /\ b < size => [first |-> a, last |-> b] \in R
  BY <1>1 DEF RangesWithin
<1> HIDE DEF R
<1>4. CASE spec.first = None
  <2>1. spec.last \in Nat
    BY <1>2, <1>4 DEF IsMalformed
  <2> DEFINE a == size - LowerOf(spec.last, size)
  <2>2. CASE spec.last > 0 /\ size > 0
    <3>1. a \in Nat /\ size - 1 \in Nat /\ a <= size - 1
      BY <1>1, <2>1, <2>2 DEF LowerOf
    <3> HIDE DEF a
    <3>2. [first |-> a, last |-> size - 1] \in R
      BY <1>1, <1>3, <3>1
    <3>3. Clipped(spec, size) = <<[first |-> a, last |-> size - 1]>>
      BY <1>4, <2>2 DEF Clipped, a
    <3> QED
      BY <3>2, <3>3 DEF R
  <2>3. CASE ~(spec.last > 0 /\ size > 0)
    BY <1>4, <2>3 DEF Clipped
  <2> QED
    BY <2>2, <2>3
<1>5. CASE spec.first # None
  <2>1. spec.first \in Nat
    BY <1>2, <1>5
  <2> DEFINE b == LowerOf(IF spec.last = None THEN NoLimit ELSE spec.last, size - 1)
  <2>2. CASE spec.first < size
    <3>1. b \in Nat /\ spec.first <= b /\ b < size
      <4>1. spec.last = None \/ (spec.last \in Nat /\ spec.first <= spec.last)
        BY <1>2, <1>5, <2>1 DEF IsMalformed
      <4> QED
        BY <1>1, <2>1, <2>2, <4>1 DEF LowerOf
    <3> HIDE DEF b
    <3>2. [first |-> spec.first, last |-> b] \in R
      BY <1>3, <2>1, <3>1
    <3>3. Clipped(spec, size) = <<[first |-> spec.first, last |-> b]>>
      BY <1>5, <2>2 DEF Clipped, b
    <3> QED
      BY <3>2, <3>3 DEF R
  <2>3. CASE ~(spec.first < size)
    BY <1>5, <2>3 DEF Clipped
  <2> QED
    BY <2>2, <2>3
<1> QED
  BY <1>4, <1>5

LEMMA RangesOfIs ==
  ASSUME NEW size \in Sizes, NEW specs \in Seq([first : Sizes \cup {None}, last : Sizes \cup {None}]),
         NEW most
  PROVE  RangesOf(specs, size, most).ranges \in Seq(RangesWithin(size))
<1> DEFINE T == [first : Sizes \cup {None}, last : Sizes \cup {None}]
           R == RangesWithin(size)
           V == Seq(R)
           n == Len(specs)
           s == [i \in 1 .. n |-> Clipped(specs[i], size)]
<1>1. CASE specs = <<>> \/ Len(specs) > most \/ \E i \in DOMAIN specs : IsMalformed(specs[i])
  BY <1>1 DEF RangesOf
<1>2. CASE ~(specs = <<>> \/ Len(specs) > most \/ \E i \in DOMAIN specs : IsMalformed(specs[i]))
  <2>1. n \in Nat /\ DOMAIN specs = 1 .. n /\ \A i \in 1 .. n : specs[i] \in T
    <3>1. specs \in Seq(T)
      OBVIOUS
    <3> HIDE DEF T
    <3> QED
      BY <3>1
  <2>2. \A i \in 1 .. n : Clipped(specs[i], size) \in V
    <3> HIDE DEF n
    <3> QED
      BY <1>2, <2>1, ClippedIs
  <2> HIDE DEF V, n
  <2>3. s \in Seq(V)
    BY <2>1, <2>2
  <2> HIDE DEF s
  <2>4. FlattenSeq(s) \in V
    BY <2>3, FlattenKeeps DEF V
  <2>5. RangesOf(specs, size, most).ranges = FlattenSeq(s)
    BY <1>2, <2>1 DEF RangesOf, s, n
  <2> QED
    BY <2>4, <2>5 DEF V
<1> QED
  BY <1>1, <1>2

(* The offsets that are sent are as many as were asked for.                *)
LEMMA OffsetsAreWanted ==
  ASSUME NEW w, w.request \in Requests, Chosen(w) \in Variant, Chosen(w).size # 0
  PROVE  /\ Offsets(w) \in Seq(Nat) /\ Len(Offsets(w)) = Wanted(w) /\ Len(Offsets(w)) > 0
<1> DEFINE size == Chosen(w).size
           ranges == RangeSet(w).ranges
           R == RangesWithin(size)
<1>1. size \in Sizes /\ size \in Nat /\ size > 0
  <2>1. Chosen(w).size \in Sizes
    BY DEF Variant
  <2>2. size \in Nat /\ size # 0
    BY <2>1, SizesIs
  <2> HIDE DEF size
  <2> QED
    BY <2>1, <2>2 DEF size
<1> HIDE DEF size
<1>2. ranges \in Seq(R)
  <2>1. CASE RangeSet(w) = [status |-> "ignored", ranges |-> <<>>]
    BY <2>1
  <2>2. CASE w.request.range # None /\ RangeSet(w) = RangesOf(w.request.range, size, MaxRanges)
    <3>1. \A r \in Requests : r.range # None =>
             r.range \in Seq([first : Sizes \cup {None}, last : Sizes \cup {None}])
      BY RequestsAssumption
    <3>2. w.request.range \in Seq([first : Sizes \cup {None}, last : Sizes \cup {None}])
      BY <2>2, <3>1
    <3> QED
      BY <1>1, <2>2, <3>2, RangesOfIs
  <2> QED
    BY <2>1, <2>2 DEF RangeSet, size
<1> HIDE DEF ranges
<1>3. CASE ranges = <<>>
  <2> DEFINE all == [first |-> 0, last |-> size - 1]
             sent == <<all>>
             B == 0 .. size - 1
  <2>1. all \in R /\ all.first = 0 /\ all.last = size - 1
    BY <1>1 DEF RangesWithin
  <2> HIDE DEF all, R
  <2>2. sent \in Seq(R) /\ sent # <<>> /\ Len(sent) = 1 /\ sent[1] = all
    BY <2>1
  <2> HIDE DEF sent
  <2>3. Apart(sent)
    BY <2>2 DEF Apart
  <2>4. \A o : o \in B <=> o \in Nat /\ Covers(sent, o)
    <3> SUFFICES ASSUME NEW o PROVE o \in B <=> o \in Nat /\ Covers(sent, o)
      OBVIOUS
    <3>1. Covers(sent, o) <=> all.first <= o /\ o <= all.last
      BY <2>2 DEF Covers
    <3> QED
      BY <1>1, <2>1, <3>1
  <2>5. Cardinality(B) = size
    <3>1. 0 \in Int /\ size - 1 \in Int /\ size - 1 - 0 + 1 = size /\ ~(0 > size - 1)
      BY <1>1
    <3>2. Cardinality(0 .. size - 1) = IF 0 > size - 1 THEN 0 ELSE size - 1 - 0 + 1
      BY <3>1, FS_Interval
    <3> QED
      BY <3>1, <3>2
  <2> HIDE DEF B
  <2>6. Runs(sent) \in Seq(Nat) /\ Len(Runs(sent)) = size /\ Len(Runs(sent)) > 0
    BY <1>1, <2>2, <2>3, <2>4, <2>5, RunsCount DEF R
  <2>7. Offsets(w) = Runs(sent)
    BY <1>3 DEF Offsets, Runs, Run, sent, all, ranges, size
  <2>8. Wanted(w) = size
    BY <1>3 DEF Wanted, ranges, size
  <2> QED
    BY <2>6, <2>7, <2>8
<1>4. CASE ranges # <<>>
  <2> DEFINE sent == CoalesceRanges(ranges)
             B == {o \in 0 .. size - 1 : \E r \in ToSet(ranges) : r.first <= o /\ o <= r.last}
  <2>1. /\ sent \in Seq(R) /\ sent # <<>> /\ Apart(sent)
        /\ \A o \in Nat : Covers(sent, o) <=> Covers(ranges, o)
    BY <1>1, <1>2, <1>4, CoalescedRanges
  <2> HIDE DEF sent
  <2>2. \A o : o \in B <=> o \in Nat /\ Covers(sent, o)
    <3>1. \A o : (\E r \in ToSet(ranges) : r.first <= o /\ o <= r.last) <=> Covers(ranges, o)
      <4>1. DOMAIN ranges = 1 .. Len(ranges)
        BY <1>2
      <4> QED
        BY <4>1 DEF ToSet, Covers
    <3>2. ASSUME NEW o \in Nat, Covers(ranges, o) PROVE o \in 0 .. size - 1
      <4>1. PICK i \in 1 .. Len(ranges) : ranges[i].first <= o /\ o <= ranges[i].last
        BY <3>2 DEF Covers
      <4>2. ranges[i] \in R
        <5> HIDE DEF R
        <5> QED
          BY <1>2
      <4>3. ranges[i].last \in 0 .. size - 1
        BY <4>2 DEF RangesWithin
      <4> QED
        BY <1>1, <4>1, <4>3
    <3>3. \A o \in 0 .. size - 1 : o \in Nat
      BY <1>1
    <3> HIDE DEF R
    <3> QED
      BY <2>1, <3>1, <3>2, <3>3
  <2> HIDE DEF B
  <2>3. Runs(sent) \in Seq(Nat) /\ Len(Runs(sent)) = Cardinality(B) /\ Len(Runs(sent)) > 0
    BY <1>1, <2>1, <2>2, RunsCount
  <2>4. Offsets(w) = Runs(sent)
    BY <1>4 DEF Offsets, Runs, Run, sent, ranges
  <2>5. Wanted(w) = Cardinality(B)
    BY <1>4 DEF Wanted, B, ranges, size
  <2> QED
    BY <2>3, <2>4, <2>5
<1> QED
  BY <1>3, <1>4

-----------------------------------------------------------------------------
(* The initial state, and the theorems.                                    *)

LEMMA ListIs ==
  ASSUME NEW D, IsFiniteSet(D)
  PROVE  /\ Cardinality(D) \in Nat /\ SetToSeq(D) \in [1 .. Cardinality(D) -> D]
         /\ \A i, j \in 1 .. Cardinality(D) : SetToSeq(D)[i] = SetToSeq(D)[j] => i = j
         /\ \A d \in D : \E i \in 1 .. Cardinality(D) : SetToSeq(D)[i] = d
<1> DEFINE n == Cardinality(D)
           list == SetToSeq(D)
<1>1. n \in Nat /\ ExistsBijection(1 .. n, D)
  BY FS_CardinalityType
<1>2. list \in [1 .. n -> D] /\ IsInjective(list)
  <2>1. \E f \in [1 .. n -> D] : IsInjective(f)
    BY <1>1 DEF ExistsBijection, Bijection, Injection
  <2> QED
    BY <2>1 DEF SetToSeq
<1>3. list \in Injection(1 .. n, D)
  BY <1>2 DEF Injection
<1>4. Cardinality(1 .. n) = n
  <2>1. n - 1 + 1 = n /\ 1 \in Int /\ n \in Int
    BY <1>1
  <2>2. Cardinality(1 .. n) = IF 1 > n THEN 0 ELSE n - 1 + 1
    BY <2>1, FS_Interval
  <2> HIDE DEF n
  <2> QED
    BY <1>1, <2>1, <2>2
<1>5. list \in Surjection(1 .. n, D)
  <2> HIDE DEF n, list
  <2>1. Cardinality(1 .. n) = Cardinality(D) <=> list \in Surjection(1 .. n, D)
    BY <1>3, FS_Injection
  <2> QED
    BY <1>4, <2>1 DEF n
<1> QED
  BY <1>1, <1>2, <1>5 DEF Surjection, IsInjective

LEMMA InitIs == Init => IInv
<1> SUFFICES ASSUME Init PROVE IInv
  OBVIOUS
<1> DEFINE D == DOMAIN InitialSizes
           list == SetToSeq(D)
           n == Cardinality(D)
           At(path) == CHOOSE i \in DOMAIN list : list[i] = path
           IsOriginal(f) == f[1] \in D /\ f[2] = ""
<1>1. /\ n \in Nat /\ list \in [1 .. n -> D]
      /\ \A d \in D : \E i \in 1 .. n : list[i] = d
  BY DirectoryAssumption, ListIs
<1>2. DOMAIN list = 1 .. n
  BY <1>1
<1>3. /\ disk = [f \in Files |-> IF IsOriginal(f) THEN At(f[1]) ELSE None]
      /\ store = [i \in 1 .. n |-> [stamp |-> i, size |-> InitialSizes[list[i]]]]
      /\ history = [i \in 1 .. n |-> [written |-> 0, source |-> i, superseded |-> Never]]
      /\ now = 0 /\ metadata = <<>> /\ content = <<>>
      /\ thread = [t \in Threads |-> Idle]
  BY <1>2 DEF Init
<1>4. D \subseteq Paths /\ InitialSizes \in [D -> Sizes] /\ None \notin Nat /\ MaxTime \in Nat /\ Never \in Nat
  <2>1. D \subseteq Paths /\ InitialSizes \in [D -> Sizes]
    BY DirectoryAssumption
  <2>2. MaxTime \in Nat /\ Never \in Nat
    BY BoundsAssumption DEF Never
  <2> QED
    BY <2>1, <2>2, RequestsAssumption
<1>5. ASSUME NEW d \in D PROVE At(d) \in 1 .. n /\ list[At(d)] = d
  BY <1>1, <1>2
<1> HIDE DEF At, list, D, n
<1>6. ASSUME NEW i \in 1 .. n PROVE InitialSizes[list[i]] \in Sizes /\ i \in Nat
  BY <1>1, <1>4
<1>7. /\ store \in Seq([stamp : Nat, size : Sizes]) /\ Len(store) = n
      /\ \A i \in 1 .. n : store[i].stamp = i
  <2> DEFINE I == [stamp : Nat, size : Sizes]
  <2>1. store \in [1 .. n -> I]
    BY <1>3, <1>6
  <2>2. store \in Seq(I) /\ Len(store) = n
    <3> HIDE DEF I
    <3> QED
      BY <1>1, <2>1
  <2> QED
    BY <1>3, <2>2
<1>8. /\ history \in Seq([written : Nat, source : Nat, superseded : Nat]) /\ Len(history) = n
      /\ \A i \in 1 .. n : history[i].source = i /\ history[i].superseded = Never
  <2> DEFINE H == [written : Nat, source : Nat, superseded : Nat]
  <2>1. history \in [1 .. n -> H]
    BY <1>3, <1>4, <1>6
  <2>2. history \in Seq(H) /\ Len(history) = n
    <3> HIDE DEF H
    <3> QED
      BY <1>1, <2>1
  <2> QED
    BY <1>3, <2>2
<1>9. Stamps = 1 .. n
  BY <1>8 DEF Stamps
<1>10. ASSUME NEW f \in Files
       PROVE  disk[f] = IF IsOriginal(f) THEN At(f[1]) ELSE None
  BY <1>3
<1>11. \A m \in 1 .. n : m # None
  BY <1>4, <1>6
<1>12. ASSUME NEW f \in Files, disk[f] # None
       PROVE  f[1] \in D /\ f[2] = "" /\ disk[f] = At(f[1]) /\ disk[f] \in 1 .. n /\ list[disk[f]] = f[1]
  BY <1>5, <1>10, <1>12
<1>13. DirectoryShape
  <2>1. now \in 0 .. MaxTime
    <3>1. now = 0
      BY <1>3
    <3>2. MaxTime \in Nat
      BY BoundsAssumption
    <3> QED
      BY <3>1, <3>2
  <2>2. \A s \in Stamps : Src(s) \in Stamps
    BY <1>8, <1>9 DEF Src
  <2>3. \A s \in Stamps : history[s].superseded \in 0 .. now \/ history[s].superseded = Never
    BY <1>8, <1>9
  <2>4. disk \in [Files -> (1 .. Len(store)) \cup {None}]
    <3>1. \A f \in Files : disk[f] \in (1 .. n) \cup {None}
      BY <1>12
    <3>2. disk = [f \in Files |-> disk[f]]
      BY <1>3
    <3> QED
      BY <1>7, <3>1, <3>2
  <2>5. ASSUME NEW f \in Files, NEW g \in Files, disk[f] # None, disk[f] = disk[g] PROVE f = g
    <3>1. f[1] = g[1] /\ f[2] = "" /\ g[2] = ""
      BY <1>12, <2>5
    <3>2. f = <<f[1], f[2]>> /\ g = <<g[1], g[2]>>
      BY DEF Files
    <3> QED
      BY <3>1, <3>2
  <2>6. \A i \in 1 .. Len(store) : store[i].stamp \in Stamps
    BY <1>7, <1>9
  <2>7. \A i, j \in 1 .. Len(store) : store[i].stamp = store[j].stamp => i = j
    BY <1>7
  <2> QED
    BY <1>7, <1>8, <2>1, <2>2, <2>3, <2>4, <2>5, <2>6, <2>7 DEF DirectoryShape
<1>14. OriginalsCurrent
  <2> SUFFICES ASSUME NEW p \in Paths
               PROVE  /\ There(p, "") => /\ Src(StampAt(p, "")) = StampAt(p, "")
                                         /\ history[StampAt(p, "")].superseded = Never
                      /\ \A c \in Codings :
                            There(p, c) => /\ Belongs(p, StampAt(p, c))
                                           /\ There(p, "") /\ StampAt(p, c) > StampAt(p, "") =>
                                                  Src(StampAt(p, c)) = StampAt(p, "")
    BY DEF OriginalsCurrent
  <2>1. ASSUME NEW c \in Codings, There(p, c)
        PROVE  /\ c = "" /\ StampAt(p, c) \in 1 .. n
               /\ Src(StampAt(p, c)) = StampAt(p, c) /\ history[StampAt(p, c)].superseded = Never
    <3> DEFINE f == <<p, c>>
    <3>1. f \in Files /\ f[2] = c
      BY DEF Files
    <3>2. c = "" /\ disk[f] \in 1 .. n
      BY <1>12, <2>1, <3>1 DEF There
    <3>3. StampAt(p, c) = disk[f]
      BY <1>7, <3>2 DEF StampAt
    <3> QED
      BY <1>8, <3>2, <3>3 DEF Src
  <2>2. "" \in Codings
    BY DEF Codings
  <2>3. ASSUME NEW c \in Codings, There(p, c)
        PROVE  /\ Belongs(p, StampAt(p, c))
               /\ There(p, "") /\ StampAt(p, c) > StampAt(p, "") => Src(StampAt(p, c)) = StampAt(p, "")
    <3>1. c = "" /\ Src(StampAt(p, c)) = StampAt(p, c)
      BY <2>1, <2>3
    <3> QED
      BY <2>3, <3>1 DEF Belongs
  <2> QED
    BY <2>1, <2>2, <2>3
<1>15. CachesInv
  <2>1. metadata = <<>> /\ content = <<>>
    BY <1>3
  <2>2. \A S : <<>> \in Seq(S)
    OBVIOUS
  <2> QED
    BY <2>1, <2>2 DEF CachesInv
<1>16. ThreadsInv
  <2>1. ThreadInv(Idle)
    BY DEF Idle, ThreadInv, AnswerInv
  <2> QED
    BY <1>3, <2>1 DEF ThreadsInv
<1> QED
  BY <1>13, <1>14, <1>15, <1>16 DEF IInv, DirectoryInv

LEMMA OthersStep ==
  ASSUME IInv, [Next]_vars, UNCHANGED <<metadata, content, thread>>
  PROVE  IInv'
<1>1. DirectoryInv /\ DirectoryInv' /\ Later
  BY StepIsLater DEF IInv
<1>2. CachesInv'
  <2>1. MetadataEntry \subseteq MetadataEntry' /\ ContentEntry \subseteq ContentEntry'
    BY <1>1, LaterEntries
  <2>2. metadata \in Seq(MetadataEntry) /\ content \in Seq(ContentEntry)
    BY DEF IInv, CachesInv
  <2> QED
    BY <2>1, <2>2, SeqGrows DEF CachesInv
<1>3. ThreadsInv'
  <2>1. ASSUME NEW u \in Threads PROVE ThreadInv(thread[u])'
    <3>1. PICK w : w = thread[u]
      OBVIOUS
    <3>2. ThreadInv(w)'
      BY <1>1, <3>1, LaterThread DEF IInv, ThreadsInv
    <3> QED
      BY <3>1, <3>2
  <2> QED
    BY <2>1 DEF IInv, ThreadsInv
<1> QED
  BY <1>1, <1>2, <1>3 DEF IInv

LEMMA StepKeeps == IInv /\ [Next]_vars => IInv'
<1> SUFFICES ASSUME IInv, [Next]_vars PROVE IInv'
  OBVIOUS
<1>1. ASSUME NEW t \in Threads, Acts(t), Keeps PROVE IInv'
  BY <1>1, ThreadStep DEF Keeps
<1>2. ASSUME NEW t \in Threads, Receive(t) PROVE IInv'
  BY <1>1, <1>2, ReceiveStep
<1>3. ASSUME NEW t \in Threads, Lookup(t) PROVE IInv'
  BY <1>1, <1>3, LookupStep
<1>4. ASSUME NEW t \in Threads, Status(t) PROVE IInv'
  BY <1>1, <1>4, StatusStep
<1>5. ASSUME NEW t \in Threads, Stamp(t) PROVE IInv'
  BY <1>1, <1>5, StampStep
<1>6. ASSUME NEW t \in Threads, AddSibling(t) PROVE IInv'
  BY <1>1, <1>6, AddSiblingStep
<1>7. ASSUME NEW t \in Threads, Remember(t) PROVE IInv'
  BY <1>1, <1>7, RememberStep
<1>8. ASSUME NEW t \in Threads, FindContent(t) PROVE IInv'
  BY <1>1, <1>8, FindContentStep
<1>9. ASSUME NEW t \in Threads, Open(t) PROVE IInv'
  BY <1>1, <1>9, OpenStep
<1>10. ASSUME NEW t \in Threads, Load(t) PROVE IInv'
  BY <1>1, <1>10, LoadStep
<1>11. ASSUME NEW t \in Threads, KeepContent(t) PROVE IInv'
  BY <1>1, <1>11, KeepContentStep
<1>12. ASSUME NEW t \in Threads, SendPiece(t) PROVE IInv'
  BY <1>1, <1>12, SendPieceStep
<1>13. CASE Change
  BY <1>13, OthersStep DEF Change, caches
<1>14. CASE Tick
  BY <1>14, OthersStep DEF Tick, caches
<1>15. CASE UNCHANGED vars
  BY <1>15, OthersStep DEF vars
<1> QED
  BY <1>2, <1>3, <1>4, <1>5, <1>6, <1>7, <1>8, <1>9, <1>10, <1>11, <1>12, <1>13, <1>14, <1>15 DEF Next

(* What the caches, the threads and the directory have to do with each     *)
(* other, in every state: htdocs.hpp's two caches may be out of date, but  *)
(* only by as much as IInv allows.                                         *)
THEOREM FilesInv == Spec => []IInv
<1>1. Init => IInv
  BY InitIs
<1>2. IInv /\ [Next]_vars => IInv'
  BY StepKeeps
<1> QED
  BY <1>1, <1>2, PTL DEF Spec

(* An answer's content was current less than revalidate_after before its   *)
(* lookup, whatever other programs do to the directory meanwhile.          *)
THEOREM AnswersAreFresh == Spec => []StalenessIsBounded
<1>1. IInv => StalenessIsBounded
  <2> SUFFICES ASSUME IInv, NEW t \in Threads, Describes(t)
               PROVE  Sup(thread[t].stamp) + RevalidateAfter > thread[t].at
    BY DEF StalenessIsBounded, Sup, Src
  <2>1. AnswerInv(thread[t]) /\ "tag" \in DOMAIN thread[t]
    BY DEF IInv, ThreadsInv, ThreadInv, Describes, Stages
  <2>2. /\ thread[t].at \in 0 .. now /\ thread[t].stamp \in Stamps
        /\ Young(thread[t].stamp, thread[t].at, Slack)
    BY <2>1 DEF AnswerInv
  <2> DEFINE at == thread[t].at
             end == Sup(thread[t].stamp)
  <2>3. end \in Nat /\ now \in Nat /\ at \in 0 .. now /\ at <= end + Slack
    BY <2>2, StampFacts DEF IInv, StampsFine, Young
  <2> HIDE DEF at, end
  <2>4. end + RevalidateAfter > at
    BY <2>3, SlackIs
  <2> QED
    BY <2>4 DEF at, end
<1> QED
  BY <1>1, FilesInv, PTL

(* The bytes of an answer are of the tag's content or a later one, however *)
(* the lookup, the content cache and the open interleave with changes.     *)
THEOREM TagsAreNotAhead == Spec => []NeverOlderThanTheTag
<1>1. IInv => NeverOlderThanTheTag
  <2> SUFFICES ASSUME IInv, NEW t \in Threads, Describes(t)
               PROVE  thread[t].stamp >= thread[t].tag.stamp
    BY DEF NeverOlderThanTheTag
  <2>1. AnswerInv(thread[t]) /\ "tag" \in DOMAIN thread[t]
    BY DEF IInv, ThreadsInv, ThreadInv, Describes, Stages
  <2> QED
    BY <2>1 DEF AnswerInv
<1> QED
  BY <1>1, FilesInv, PTL

-----------------------------------------------------------------------------
(* What is sent, piece by piece.                                           *)

(* The pieces are all of the content of stamp opened, the one inode handle *)
(* had when it was opened, unless that inode has another content by now.   *)
Unmixed(handle, opened, pieces) ==
    /\ handle \in 1 .. Len(store) /\ opened \in Stamps
    /\ store[handle].stamp = opened => \A i \in 1 .. Len(pieces) : pieces[i] = opened

Sending(w) ==
    /\ w.left \in Seq(Nat) /\ Len(w.left) > 0 /\ w.sent \in Seq(Nat)
    /\ Len(w.left) + Len(w.sent) = Wanted(w)
    /\ Unmixed(w.handle, w.opened, w.sent)

Sent(w) ==
    /\ w.pieces \in Seq(Nat) /\ Len(w.pieces) > 0 /\ Len(w.pieces) = w.expected
    /\ Unmixed(w.handle, w.opened, w.pieces)

(* Nothing is sent before the file is open, and no empty file is opened.   *)
SendInv(w) ==
    /\ w.pc \in Stages \ {"sending"} => w.sent = <<>>
    /\ w.pc \in WithBytes => Chosen(w).size # 0
    /\ w.pc = "sending" => Sending(w)
    /\ w.pc \notin Stages /\ "pieces" \in DOMAIN w => Sent(w)

SendsInv == IInv /\ \A t \in Threads : SendInv(thread[t])

(* An inode that changes gets a stamp that no file was opened with.        *)
LEMMA LaterUnmixed ==
  ASSUME DirectoryInv, DirectoryInv', Later, NEW h, NEW o, NEW pieces, Unmixed(h, o, pieces)
  PROVE  Unmixed(h, o, pieces)'
<1>1. h \in 1 .. Len(store) /\ o \in Stamps
  BY DEF Unmixed
<1>2. h \in 1 .. Len(store')
  <2> DEFINE n == Len(store)
             m == Len(store')
  <2>1. n \in Nat /\ m \in Nat /\ n <= m /\ h \in 1 .. n
    BY <1>1, StampFacts, StampFactsNext DEF StampsFine, Later
  <2> HIDE DEF n, m
  <2>2. h \in 1 .. m
    BY <2>1
  <2> QED
    BY <2>2 DEF m
<1>3. o \in Stamps' /\ o # NewStamp
  <2> DEFINE n == Len(history)
             m == Len(history')
  <2>1. n \in Nat /\ m \in Nat /\ n <= m /\ o \in 1 .. n
    BY <1>1, StampFacts, StampFactsNext DEF StampsFine, Later, Stamps
  <2> HIDE DEF n, m
  <2>2. o \in 1 .. m /\ o # n + 1
    BY <2>1
  <2> QED
    BY <2>2 DEF n, m, Stamps, NewStamp
<1>4. store'[h].stamp \in {store[h].stamp, NewStamp}
  <2>1. ASSUME NEW p \in Paths, disk[<<p, "">>] = h, disk'[<<p, "">>] = h
        PROVE  store'[h].stamp \in {store[h].stamp, NewStamp}
    <3>1. None \notin Nat /\ h \in Nat
      BY <1>1, StampFacts, RequestsAssumption DEF StampsFine
    <3>2. There(p, "")' /\ StampAt(p, "")' = store'[h].stamp /\ StampAt(p, "") = store[h].stamp
      BY <2>1, <3>1 DEF There, StampAt
    <3>3. "" \in Codings
      BY DEF Codings
    <3> QED
      BY <3>2, <3>3 DEF Later
  <2> QED
    BY <1>1, <2>1 DEF Later
<1>5. store'[h].stamp = o => \A i \in 1 .. Len(pieces) : pieces[i] = o
  BY <1>3, <1>4 DEF Unmixed
<1> QED
  BY <1>2, <1>3, <1>5 DEF Unmixed

LEMMA LaterSends ==
  ASSUME DirectoryInv, DirectoryInv', Later, NEW w, SendInv(w)
  PROVE  SendInv(w)'
<1>1. Sending(w) => Sending(w)'
  BY LaterUnmixed DEF Sending
<1>2. Sent(w) => Sent(w)'
  BY LaterUnmixed DEF Sent
<1> QED
  BY <1>1, <1>2 DEF SendInv

-----------------------------------------------------------------------------
(* What a thread's step has to show.                                       *)

Sends(t) == \E x : thread' = [thread EXCEPT ![t] = x] /\ SendInv(x)

LEMMA SendsStep ==
  ASSUME SendsInv, [Next]_vars, NEW t \in Threads, Sends(t)
  PROVE  SendsInv'
<1>1. DirectoryInv /\ DirectoryInv' /\ Later
  BY StepIsLater DEF SendsInv, IInv
<1>2. IInv'
  BY StepKeeps DEF SendsInv
<1>3. PICK x : thread' = [thread EXCEPT ![t] = x] /\ SendInv(x)
  BY DEF Sends
<1>4. ASSUME NEW u \in Threads PROVE SendInv(thread[u])'
  <2>1. PICK w : w = IF u = t THEN x ELSE thread[u]
    OBVIOUS
  <2>2. SendInv(w)
    BY <1>3, <2>1 DEF SendsInv
  <2>3. SendInv(w)'
    BY <1>1, <2>2, LaterSends
  <2>4. thread'[u] = w
    BY <1>3, <2>1 DEF SendsInv, IInv, ThreadsInv
  <2> QED
    BY <2>3, <2>4
<1> QED
  BY <1>2, <1>4 DEF SendsInv

LEMMA SendsStay ==
  ASSUME SendsInv, [Next]_vars, UNCHANGED thread
  PROVE  SendsInv'
<1>1. DirectoryInv /\ DirectoryInv' /\ Later
  BY StepIsLater DEF SendsInv, IInv
<1>2. IInv'
  BY StepKeeps DEF SendsInv
<1>3. ASSUME NEW u \in Threads PROVE SendInv(thread[u])'
  <2>1. PICK w : w = thread[u]
    OBVIOUS
  <2>2. SendInv(w)'
    BY <1>1, <2>1, LaterSends DEF SendsInv
  <2> QED
    BY <2>1, <2>2
<1> QED
  BY <1>2, <1>3 DEF SendsInv

(* An answer other than by pieces, a lookup, a file that is not open yet.  *)
LEMMA NotByPieces ==
  /\ \A status : SendInv(Answered(status))
  /\ \A w, status, stamp : SendInv(Answer(w, status, stamp))
<1>1. ASSUME NEW x, x.pc = "answered", "pieces" \notin DOMAIN x PROVE SendInv(x)
  BY <1>1 DEF SendInv, Stages, WithBytes
<1>2. ASSUME NEW status PROVE SendInv(Answered(status))
  <2> DEFINE x == Answered(status)
  <2>1. x.pc = "answered" /\ "pieces" \notin DOMAIN x
    BY DEF Answered
  <2> HIDE DEF x
  <2>2. SendInv(x)
    BY <1>1, <2>1
  <2> QED
    BY <2>2 DEF x
<1>3. ASSUME NEW w, NEW status, NEW stamp PROVE SendInv(Answer(w, status, stamp))
  <2> DEFINE x == Answer(w, status, stamp)
  <2>1. x.pc = "answered" /\ "pieces" \notin DOMAIN x
    BY DEF Answer
  <2> HIDE DEF x
  <2>2. SendInv(x)
    BY <1>1, <2>1
  <2> QED
    BY <2>2 DEF x
<1> QED
  BY <1>2, <1>3

LEMMA NothingSentYet ==
  ASSUME NEW x, x.pc \in Stages \ {"sending"}, x.sent = <<>>, x.pc \in WithBytes => Chosen(x).size # 0
  PROVE  SendInv(x)
BY DEF SendInv

LEMMA LookingUpSends ==
  ASSUME NEW r, NEW held
  PROVE  /\ SendInv(LookingUp(r, held))
         /\ SendInv([LookingUp(r, held) EXCEPT !.fresh = TRUE])
<1> DEFINE x == LookingUp(r, held)
           y == [x EXCEPT !.fresh = TRUE]
<1>1. x.pc = "lookup" /\ x.sent = <<>> /\ DOMAIN x = Fields
  BY DEF LookingUp, Fields
<1>2. y.pc = "lookup" /\ y.sent = <<>>
  <2> HIDE DEF x
  <2> QED
    BY <1>1 DEF Fields
<1> HIDE DEF x, y
<1>3. SendInv(x) /\ SendInv(y)
  BY <1>1, <1>2, NothingSentYet DEF Stages, WithBytes
<1> QED
  BY <1>3 DEF x, y

LEMMA ChangedSends ==
  ASSUME NEW w
  PROVE  SendInv(Changed(w))
BY NotByPieces, LookingUpSends DEF Changed

LEMMA DecidedSends ==
  ASSUME NEW w, DOMAIN w = Fields, w.sent = <<>>
  PROVE  SendInv(Decided(w))
<1> DEFINE x == [w EXCEPT !.pc = "lookup", !.path = Fallback, !.slash = FALSE, !.fallback = TRUE]
           y == [w EXCEPT !.pc = "content"]
<1>1. SendInv(x)
  <2>1. x.pc = "lookup" /\ x.sent = <<>>
    BY DEF Fields
  <2> HIDE DEF x
  <2> QED
    BY <2>1, NothingSentYet DEF Stages, WithBytes
<1>2. Chosen(w).size # 0 => SendInv(y)
  <2>1. y.pc = "content" /\ y.sent = <<>> /\ Chosen(y) = Chosen(w)
    BY DEF Fields, Chosen
  <2> HIDE DEF y
  <2> QED
    BY <2>1, NothingSentYet DEF Stages, WithBytes
<1>3. \/ Decided(w) = x
      \/ \E status : Decided(w) = Answered(status)
      \/ \E status : Decided(w) = Answer(w, status, Chosen(w).stamp)
      \/ Decided(w) = y /\ Chosen(w).size # 0
  BY ServedIs DEF Decided
<1> HIDE DEF x, y
<1> QED
  BY <1>1, <1>2, <1>3, NotByPieces

-----------------------------------------------------------------------------
(* A thread's steps.                                                       *)

(* Before the file is open nothing was sent.                               *)
LEMMA BeforeSending ==
  ASSUME SendsInv, NEW t \in Threads, thread[t].pc \in Stages \ {"sending"}
  PROVE  /\ DOMAIN thread[t] = Fields /\ thread[t].sent = <<>>
         /\ thread[t].pc \in WithBytes => Chosen(thread[t]).size # 0
<1>1. StageInv(thread[t]) /\ SendInv(thread[t])
  BY StageOf DEF SendsInv
<1> QED
  BY <1>1 DEF StageInv, SendInv

LEMMA ReceiveSends ==
  ASSUME SendsInv, NEW t \in Threads, Receive(t)
  PROVE  Sends(t)
<1>1. PICK r \in Requests :
        thread' = [thread EXCEPT ![t] = IF Refusal(r) # None THEN Answered(Refusal(r))
                                        ELSE LookingUp(r, Conditions(r, copy[t]))]
  BY DEF Receive
<1> QED
  BY <1>1, NotByPieces, LookingUpSends DEF Sends

LEMMA LookupSends ==
  ASSUME SendsInv, NEW t \in Threads, Lookup(t)
  PROVE  Sends(t)
<1> DEFINE w == thread[t]
           x == [w EXCEPT !.at = now, !.found = EntryOf(metadata, KeyOf(w)).result]
           y == [w EXCEPT !.at = now, !.pc = "status"]
<1>1. DOMAIN w = Fields /\ w.sent = <<>>
  BY BeforeSending DEF Lookup, Stages
<1>2. SendInv(Decided(x))
  <2>1. DOMAIN x = Fields /\ x.sent = <<>>
    BY <1>1 DEF Fields
  <2> HIDE DEF x
  <2> QED
    BY <2>1, DecidedSends
<1>3. SendInv(y)
  <2>1. y.pc = "status" /\ y.sent = <<>>
    BY <1>1 DEF Fields
  <2> HIDE DEF y
  <2> QED
    BY <2>1, NothingSentYet DEF Stages, WithBytes
<1>4. thread' = [thread EXCEPT ![t] = Decided(x)] \/ thread' = [thread EXCEPT ![t] = y]
  BY DEF Lookup
<1> HIDE DEF x, y
<1> QED
  BY <1>2, <1>3, <1>4 DEF Sends

(* What status, stamp and siblings leave behind.                           *)
LEMMA SearchSends ==
  ASSUME NEW w, DOMAIN w = Fields, w.sent = <<>>, NEW pc \in {"stamp", "remember", "siblings"}, NEW found
  PROVE  /\ SendInv([w EXCEPT !.pc = pc, !.found = found])
         /\ \A looked : SendInv([w EXCEPT !.pc = pc, !.looked = looked, !.found = found])
<1>1. ASSUME NEW x, x.pc = pc, x.sent = <<>> PROVE SendInv(x)
  BY <1>1, NothingSentYet DEF Stages, WithBytes
<1>2. SendInv([w EXCEPT !.pc = pc, !.found = found])
  <2> DEFINE x == [w EXCEPT !.pc = pc, !.found = found]
  <2>1. x.pc = pc /\ x.sent = <<>>
    BY DEF Fields
  <2> HIDE DEF x
  <2>2. SendInv(x)
    BY <1>1, <2>1
  <2> QED
    BY <2>2 DEF x
<1>3. ASSUME NEW looked PROVE SendInv([w EXCEPT !.pc = pc, !.looked = looked, !.found = found])
  <2> DEFINE x == [w EXCEPT !.pc = pc, !.looked = looked, !.found = found]
  <2>1. x.pc = pc /\ x.sent = <<>>
    BY DEF Fields
  <2> HIDE DEF x
  <2>2. SendInv(x)
    BY <1>1, <2>1
  <2> QED
    BY <2>2 DEF x
<1> QED
  BY <1>2, <1>3

LEMMA StatusSends ==
  ASSUME SendsInv, NEW t \in Threads, Status(t)
  PROVE  Sends(t)
<1> DEFINE w == thread[t]
<1>1. DOMAIN w = Fields /\ w.sent = <<>>
  BY BeforeSending DEF Status, Stages
<1>2. \E pc \in {"stamp", "remember", "siblings"} : \E found :
         thread' = [thread EXCEPT ![t] = [w EXCEPT !.pc = pc, !.found = found]]
  <2>1. CASE \E kind \in {"forbidden", "error"} :
               thread' = [thread EXCEPT ![t].pc = "remember", ![t].found = NotAFile(kind)]
    BY <2>1
  <2> DEFINE r == Resolved(w.path, w.slash)
             pc == IF r.kind = "file" THEN "stamp" ELSE "remember"
             found == IF r.kind # "file" THEN r
                      ELSE [kind |-> "file", file |-> r.file, modified |-> 0,
                            variants |-> <<[coding |-> "", stamp |-> 0, size |-> Inode(<<r.file, "">>).size]>>]
  <2>2. CASE thread' = [thread EXCEPT ![t].pc = pc, ![t].found = found]
    <3>1. pc \in {"stamp", "remember", "siblings"}
      OBVIOUS
    <3> HIDE DEF pc, found
    <3> QED
      BY <2>2, <3>1
  <2> QED
    BY <2>1, <2>2 DEF Status
<1> HIDE DEF w
<1> QED
  BY <1>1, <1>2, SearchSends DEF Sends

LEMMA StampSends ==
  ASSUME SendsInv, NEW t \in Threads, Stamp(t)
  PROVE  Sends(t)
<1> DEFINE w == thread[t]
           f == <<w.found.file, "">>
           s == Inode(f).stamp
           pc == IF Precompressed = <<>> THEN "remember" ELSE "siblings"
           found == [w.found EXCEPT !.variants = [w.found.variants EXCEPT ![1].stamp = s],
                                    !.modified = history[s].written]
<1>1. DOMAIN w = Fields /\ w.sent = <<>>
  BY BeforeSending DEF Stamp, Stages
<1>2. \/ thread' = [thread EXCEPT ![t] = [w EXCEPT !.pc = "remember", !.found = NotAFile("not_found")]]
      \/ thread' = [thread EXCEPT ![t] = [w EXCEPT !.pc = pc, !.looked = 0, !.found = found]]
  BY ZenonT(30) DEF Stamp
<1>3. pc \in {"stamp", "remember", "siblings"} /\ "remember" \in {"stamp", "remember", "siblings"}
  OBVIOUS
<1> HIDE DEF w, pc, found
<1>4. /\ SendInv([w EXCEPT !.pc = "remember", !.found = NotAFile("not_found")])
      /\ \A l : SendInv([w EXCEPT !.pc = pc, !.looked = l, !.found = found])
  BY <1>1, <1>3, SearchSends
<1> QED
  BY <1>2, <1>4 DEF Sends

LEMMA AddSiblingSends ==
  ASSUME SendsInv, NEW t \in Threads, AddSibling(t)
  PROVE  Sends(t)
<1> DEFINE w == thread[t]
           coding == Precompressed[w.looked + 1]
           file == <<w.found.file, coding>>
           sibling == [coding |-> coding, stamp |-> Inode(file).stamp, size |-> Inode(file).size]
           usable == disk[file] # None /\ ~IsStale(sibling, w.found.variants[1])
           variants == IF usable THEN Append(w.found.variants, sibling) ELSE w.found.variants
           found == [w.found EXCEPT !.variants = variants]
           pc == IF w.looked + 1 = Len(Precompressed) THEN "remember" ELSE "siblings"
           looked == w.looked + 1
<1>1. DOMAIN w = Fields /\ w.sent = <<>>
  BY BeforeSending DEF AddSibling, Stages
<1>2. thread' = [thread EXCEPT ![t] = [w EXCEPT !.pc = pc, !.looked = looked, !.found = found]]
  BY ZenonT(30) DEF AddSibling
<1>3. pc \in {"stamp", "remember", "siblings"}
  OBVIOUS
<1> HIDE DEF w, pc, found, looked
<1>4. \A l : SendInv([w EXCEPT !.pc = pc, !.looked = l, !.found = found])
  BY <1>1, <1>3, SearchSends
<1> QED
  BY <1>2, <1>4 DEF Sends

LEMMA RememberSends ==
  ASSUME SendsInv, NEW t \in Threads, Remember(t)
  PROVE  Sends(t)
<1>1. DOMAIN thread[t] = Fields /\ thread[t].sent = <<>>
  BY BeforeSending DEF Remember, Stages
<1>2. thread' = [thread EXCEPT ![t] = Decided(thread[t])]
  BY DEF Remember
<1> QED
  BY <1>1, <1>2, DecidedSends DEF Sends

LEMMA FindContentSends ==
  ASSUME SendsInv, NEW t \in Threads, FindContent(t)
  PROVE  Sends(t)
<1> DEFINE w == thread[t]
           x == [w EXCEPT !.pc = "open"]
<1>1. DOMAIN w = Fields /\ w.sent = <<>> /\ Chosen(w).size # 0
  BY BeforeSending DEF FindContent, Stages, WithBytes
<1>2. SendInv(x)
  <2>1. x.pc = "open" /\ x.sent = <<>> /\ Chosen(x) = Chosen(w)
    BY <1>1 DEF Fields, Chosen
  <2> HIDE DEF x
  <2> QED
    BY <1>1, <2>1, NothingSentYet DEF Stages
<1>3. \/ \E status, stamp : thread' = [thread EXCEPT ![t] = Answer(w, status, stamp)]
      \/ thread' = [thread EXCEPT ![t] = x]
  BY DEF FindContent, Go
<1> HIDE DEF w, x
<1> QED
  BY <1>2, <1>3, NotByPieces DEF Sends

LEMMA LoadSends ==
  ASSUME SendsInv, NEW t \in Threads, Load(t)
  PROVE  Sends(t)
<1> DEFINE w == thread[t]
           read == EntryFor(w, store[w.handle].stamp)
           x == [w EXCEPT !.pc = "keep", !.read = read]
<1>1. DOMAIN w = Fields /\ w.sent = <<>> /\ Chosen(w).size # 0
  BY BeforeSending DEF Load, Stages, WithBytes
<1>2. thread' = [thread EXCEPT ![t] = Changed(w)] \/ thread' = [thread EXCEPT ![t] = x]
  BY DEF Load
<1> HIDE DEF read
<1>3. SendInv(x)
  <2>1. x.pc = "keep" /\ x.sent = <<>> /\ Chosen(x) = Chosen(w)
    BY <1>1 DEF Fields, Chosen
  <2> HIDE DEF x
  <2> QED
    BY <1>1, <2>1, NothingSentYet DEF Stages
<1> HIDE DEF w, x
<1> QED
  BY <1>2, <1>3, ChangedSends DEF Sends

LEMMA KeepContentSends ==
  ASSUME NEW t \in Threads, KeepContent(t)
  PROVE  Sends(t)
<1>1. \E w, status, stamp : thread' = [thread EXCEPT ![t] = Answer(w, status, stamp)]
  BY DEF KeepContent
<1> QED
  BY <1>1, NotByPieces DEF Sends

(* The offsets that are to be sent are put down when the file is opened.   *)
LEMMA OpenSends ==
  ASSUME SendsInv, NEW t \in Threads, Open(t)
  PROVE  Sends(t)
<1> DEFINE w == thread[t]
           inode == disk[FileOf(w)]
           opened == Inode(FileOf(w)).stamp
           load == [w EXCEPT !.pc = "load", !.handle = inode]
           x == [w EXCEPT !.pc = "sending", !.handle = inode, !.opened = opened, !.left = Offsets(w)]
<1>1. DOMAIN w = Fields /\ w.sent = <<>> /\ Chosen(w).size # 0
  BY BeforeSending DEF Open, Stages, WithBytes
<1>2. w.request \in Requests /\ Chosen(w) \in Variant /\ FileOf(w) \in Files
  BY WithBytesIs DEF SendsInv, Open, WithBytes
<1>3. SendInv(load)
  <2>1. load.pc = "load" /\ load.sent = <<>> /\ Chosen(load) = Chosen(w)
    BY <1>1 DEF Fields, Chosen
  <2> HIDE DEF load
  <2> QED
    BY <1>1, <2>1, NothingSentYet DEF Stages
<1>4. CASE inode # None /\ thread' = [thread EXCEPT ![t] = x]
  <2>1. inode \in 1 .. Len(store) /\ store[inode].stamp \in Stamps /\ opened = store[inode].stamp
    BY <1>2, <1>4 DEF SendsInv, IInv, DirectoryInv, DirectoryShape, Inode
  <2>2. /\ x.pc = "sending" /\ x.sent = <<>> /\ x.handle = inode /\ x.opened = opened
        /\ x.left = Offsets(w)
    BY <1>1 DEF Fields
  <2>3. Chosen(x) = Chosen(w) /\ Wanted(x) = Wanted(w)
    <3>1. /\ x.request = w.request /\ x.found = w.found /\ x.held = w.held
      BY <1>1 DEF Fields
    <3> HIDE DEF w, x
    <3>2. Chosen(x) = Chosen(w)
      BY <3>1 DEF Chosen
    <3>3. RangeSet(x) = RangeSet(w)
      BY <3>1, <3>2 DEF RangeSet
    <3> QED
      BY <3>2, <3>3 DEF Wanted
  <2> HIDE DEF x, inode, opened
  <2>4. Unmixed(x.handle, x.opened, x.sent)
    BY <2>1, <2>2 DEF Unmixed
  <2>5. x.left \in Seq(Nat) /\ Len(x.left) = Wanted(x) /\ Len(x.left) > 0
    <3> HIDE DEF w
    <3> QED
      BY <1>1, <1>2, <2>2, <2>3, OffsetsAreWanted
  <2>6. Sending(x)
    <3> DEFINE n == Len(x.left)
    <3>1. Len(x.sent) = 0 /\ x.sent \in Seq(Nat)
      BY <2>2
    <3>2. n \in Nat
      BY <2>5
    <3>3. n + Len(x.sent) = n
      <4> HIDE DEF n
      <4> QED
        BY <3>1, <3>2
    <3> QED
      BY <2>4, <2>5, <3>1, <3>3 DEF Sending
  <2>7. SendInv(x)
    BY <1>1, <2>2, <2>3, <2>6 DEF SendInv, Stages
  <2> QED
    BY <1>4, <2>7 DEF Sends
<1>5. \/ thread' = [thread EXCEPT ![t] = Changed(w)]
      \/ thread' = [thread EXCEPT ![t] = load]
      \/ inode # None /\ thread' = [thread EXCEPT ![t] = x]
      \/ \E status \in {403, 500} : thread' = [thread EXCEPT ![t] = Answered(status)]
  BY DEF Open
<1> HIDE DEF w, load, x
<1> QED
  BY <1>3, <1>4, <1>5, ChangedSends, NotByPieces DEF Sends

(* Each buffer adds to what was sent what it takes from what is left.      *)
LEMMA SendPieceSends ==
  ASSUME SendsInv, NEW t \in Threads, SendPiece(t)
  PROVE  Sends(t)
<1> DEFINE w == thread[t]
           stamp == store[w.handle].stamp
           sent == Append(w.sent, stamp)
           x == [w EXCEPT !.left = Tail(@), !.sent = sent]
           y == SentAnswer(w, stamp, sent)
<1>0. w.pc = "sending" /\ w.pc \in Stages /\ w.pc \in WithBytes
  BY DEF SendPiece, Stages, WithBytes
<1>1. DOMAIN w = Fields /\ Chosen(w).size # 0 /\ Sending(w)
  BY <1>0, StageOf DEF SendsInv, StageInv, SendInv
<1>2. /\ w.left \in Seq(Nat) /\ Len(w.left) > 0 /\ w.sent \in Seq(Nat)
      /\ Len(w.left) + Len(w.sent) = Wanted(w)
      /\ w.handle \in 1 .. Len(store) /\ w.opened \in Stamps /\ Unmixed(w.handle, w.opened, w.sent)
  BY <1>1 DEF Sending, Unmixed
<1>3. stamp \in Nat
  BY <1>2, StampFacts DEF SendsInv, IInv, DirectoryInv, DirectoryShape, StampsFine
<1>4. \/ thread' = [thread EXCEPT ![t] = Answered(Broken)]
      \/ Len(w.left) = 1 /\ thread' = [thread EXCEPT ![t] = y]
      \/ Len(w.left) # 1 /\ thread' = [thread EXCEPT ![t] = x]
  BY DEF SendPiece
<1>5. /\ sent \in Seq(Nat) /\ Len(sent) = Len(w.sent) + 1
      /\ \A i \in 1 .. Len(w.sent) : sent[i] = w.sent[i]
      /\ sent[Len(w.sent) + 1] = stamp
  <2> HIDE DEF w, stamp
  <2> QED
    BY <1>2, <1>3, SeqAppended
<1>6. Unmixed(w.handle, w.opened, sent)
  <2>1. ASSUME stamp = w.opened, NEW i \in 1 .. Len(sent) PROVE sent[i] = w.opened
    <3> DEFINE n == Len(w.sent)
    <3>1. n \in Nat
      BY <1>2
    <3>2. i \in 1 .. n + 1
      BY <1>5, <2>1
    <3>3. i \in 1 .. n \/ i = n + 1
      <4> HIDE DEF n
      <4> QED
        BY <3>1, <3>2
    <3>4. i \in 1 .. n => w.sent[i] = w.opened
      BY <1>2, <2>1 DEF Unmixed
    <3> HIDE DEF sent
    <3> QED
      BY <1>5, <2>1, <3>3, <3>4
  <2> HIDE DEF sent
  <2> QED
    BY <1>2, <2>1 DEF Unmixed
<1> HIDE DEF sent, stamp
<1>7. ASSUME Len(w.left) = 1 PROVE SendInv(y)
  <2>1. /\ y.pc = "answered" /\ y.pieces = sent /\ y.opened = w.opened /\ y.handle = w.handle
        /\ y.expected = Wanted(w)
    BY DEF SentAnswer
  <2> HIDE DEF y
  <2>2. Len(sent) = Wanted(w) /\ Len(sent) > 0
    <3> DEFINE n == Len(w.sent)
    <3>1. n \in Nat
      BY <1>2
    <3>2. Len(sent) = n + 1 /\ 1 + n = Wanted(w)
      BY <1>2, <1>5, <1>7
    <3> HIDE DEF n
    <3> QED
      BY <3>1, <3>2
  <2>3. Sent(y)
    BY <1>5, <1>6, <2>1, <2>2 DEF Sent
  <2> QED
    BY <2>1, <2>3 DEF SendInv, Stages, WithBytes
<1>8. ASSUME Len(w.left) # 1 PROVE SendInv(x)
  <2>1. /\ x.pc = "sending" /\ x.left = Tail(w.left) /\ x.sent = sent /\ x.handle = w.handle
        /\ x.opened = w.opened /\ x.request = w.request /\ x.found = w.found /\ x.held = w.held
    BY <1>0, <1>1 DEF Fields
  <2> HIDE DEF w, x
  <2>2. Chosen(x) = Chosen(w) /\ Wanted(x) = Wanted(w)
    <3>1. Chosen(x) = Chosen(w)
      BY <2>1 DEF Chosen
    <3>2. RangeSet(x) = RangeSet(w)
      BY <2>1, <3>1 DEF RangeSet
    <3> QED
      BY <3>1, <3>2 DEF Wanted
  <2>3. /\ x.left \in Seq(Nat) /\ Len(x.left) > 0
        /\ Len(x.left) + Len(sent) = Wanted(w)
    <3> DEFINE l == Len(w.left)
               n == Len(w.sent)
    <3>1. l \in Nat /\ n \in Nat /\ l > 0 /\ l # 1 /\ l + n = Wanted(w) /\ Len(sent) = n + 1
      <4>1. l \in Nat /\ n \in Nat
        BY <1>2
      <4> QED
        BY <1>2, <1>5, <1>8, <4>1
    <3>2. Tail(w.left) \in Seq(Nat) /\ Len(Tail(w.left)) = l - 1
      BY <1>2, <3>1
    <3> HIDE DEF l, n
    <3>3. l - 1 > 0 /\ (l - 1) + (n + 1) = Wanted(w)
      BY <3>1
    <3> QED
      BY <2>1, <3>1, <3>2, <3>3
  <2>4. Sending(x)
    BY <1>5, <1>6, <2>1, <2>2, <2>3 DEF Sending
  <2>5. SendInv(x)
    BY <1>1, <2>1, <2>2, <2>4 DEF SendInv, Stages
  <2> QED
    BY <2>5
<1> HIDE DEF w, x, y
<1> QED
  BY <1>4, <1>7, <1>8, NotByPieces DEF Sends

LEMMA SendsKept == SendsInv /\ [Next]_vars => SendsInv'
<1> SUFFICES ASSUME SendsInv, [Next]_vars PROVE SendsInv'
  OBVIOUS
<1>1. ASSUME NEW t \in Threads, Receive(t) \/ Lookup(t) \/ Status(t) \/ Stamp(t) PROVE SendsInv'
  BY <1>1, SendsStep, ReceiveSends, LookupSends, StatusSends, StampSends
<1>2. ASSUME NEW t \in Threads, AddSibling(t) \/ Remember(t) \/ FindContent(t) PROVE SendsInv'
  BY <1>2, SendsStep, AddSiblingSends, RememberSends, FindContentSends
<1>3. ASSUME NEW t \in Threads, Open(t) \/ Load(t) \/ KeepContent(t) \/ SendPiece(t) PROVE SendsInv'
  BY <1>3, SendsStep, OpenSends, LoadSends, KeepContentSends, SendPieceSends
<1>4. CASE Change \/ Tick \/ UNCHANGED vars
  BY <1>4, SendsStay DEF Change, Tick, vars
<1> QED
  BY <1>1, <1>2, <1>3, <1>4 DEF Next

LEMMA SendsBegin == Init => SendsInv
<1> SUFFICES ASSUME Init PROVE SendsInv
  OBVIOUS
<1>1. ASSUME NEW t \in Threads PROVE SendInv(thread[t])
  <2>1. thread[t] = Idle
    BY DEF Init
  <2>2. Idle.pc = "idle" /\ "pieces" \notin DOMAIN Idle
    BY DEF Idle
  <2> QED
    BY <2>1, <2>2 DEF SendInv, Stages, WithBytes
<1> QED
  BY <1>1, InitIs DEF SendsInv

(* A file sent piece by piece, whole or in ranges, is sent in exactly as   *)
(* many bytes as its request asks for, however its ranges overlap, and all *)
(* of one content unless that inode was rewritten: segmented_body keeps    *)
(* open the file that open_content measured.                               *)
THEOREM AnswersAreWhole == Spec => []SentWhole
<1>1. SendsInv => SentWhole
  <2> SUFFICES ASSUME SendsInv, NEW t \in Threads, Describes(t), "pieces" \in DOMAIN thread[t]
               PROVE  /\ Len(thread[t].pieces) = thread[t].expected
                      /\ \/ ToSet(thread[t].pieces) = {thread[t].opened}
                         \/ store[thread[t].handle].stamp # thread[t].opened
    BY DEF SentWhole
  <2> DEFINE w == thread[t]
             pieces == w.pieces
  <2>1. Sent(w)
    BY DEF SendsInv, SendInv, Describes, Stages
  <2>2. pieces \in Seq(Nat) /\ Len(pieces) > 0 /\ Len(pieces) = w.expected
    BY <2>1 DEF Sent
  <2>3. ASSUME store[w.handle].stamp = w.opened PROVE ToSet(pieces) = {w.opened}
    <3>1. \A i \in 1 .. Len(pieces) : pieces[i] = w.opened
      BY <2>1, <2>3 DEF Sent, Unmixed
    <3> HIDE DEF w, pieces
    <3>2. DOMAIN pieces = 1 .. Len(pieces) /\ 1 \in 1 .. Len(pieces)
      BY <2>2
    <3> QED
      BY <3>1, <3>2 DEF ToSet
  <2> QED
    BY <2>2, <2>3
<1> QED
  BY <1>1, SendsBegin, SendsKept, PTL DEF Spec
=============================================================================
