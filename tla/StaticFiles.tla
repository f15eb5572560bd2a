----------------------------- MODULE StaticFiles -----------------------------
(***************************************************************************)
(* htdocs (handler/htdocs.hpp): files of a directory served by several     *)
(* threads through two caches, while other programs change the directory.  *)
(*                                                                         *)
(* The handler asks the file system in single calls - is it there, how     *)
(* large, how old, the sibling - and opens the file later still, by its    *)
(* name.  What it remembers of them lives in two least-recently-used lists *)
(* behind one mutex that is not held over any of these calls.  A step here *)
(* is one such call, or one stretch with the mutex held.                   *)
(*                                                                         *)
(* A write gives a file a new stamp, its modification time: two different  *)
(* contents never carry the same one.  source says which content of the    *)
(* original a file stands for: its own stamp, or for a precompressed       *)
(* sibling the stamp of the original it was made from.                     *)
(***************************************************************************)
EXTENDS Representation, FiniteSetsExt

CONSTANTS
    Threads,             \* connections being served
    Requests,            \* what clients may ask, see Receive
    Paths,               \* names in the directory
    Precompressed,       \* the codings of siblings, in the configured order
    Directories,         \* the directories among Paths
    Outside,             \* links to files outside the root
    InitialSizes,        \* the files at the start: path to size
    Rewritten,           \* the paths other programs write to
    Hidden, Dotted,      \* segments starting with ".", segments containing one
    Fallback, Indexes,   \* fallback_document (or None) and index_files
    MetadataEntries, MemoryMaxFile, MemoryMaxTotal, RevalidateAfter, MaxRanges,
    OverwrittenSizes, ReplacedSizes, MaxTime, MaxChanges, MaxRequests, MaxFaults    \* bounds

\* Sizes and offsets are 64-bit numbers.
Sizes == 0 .. NoLimit

ASSUME BoundsAssumption ==
    /\ NoLimit \in Nat \ {0}
    /\ MetadataEntries \in Nat /\ MemoryMaxFile \in Nat /\ MemoryMaxTotal \in Nat
    /\ RevalidateAfter \in Nat \ {0} /\ MaxRanges \in Nat /\ MaxTime \in Nat

\* A coding of siblings is a token, so not empty: the constructor throws else.
ASSUME DirectoryAssumption ==
    /\ Precompressed \in Seq(STRING \ {""}) /\ Indexes \in Seq(STRING)
    /\ IsFiniteSet(DOMAIN InitialSizes) /\ DOMAIN InitialSizes \subseteq Paths
    /\ InitialSizes \in [DOMAIN InitialSizes -> Sizes] /\ Rewritten \subseteq Paths
    /\ OverwrittenSizes \subseteq Sizes /\ ReplacedSizes \subseteq Sizes

\* q-values are counted in thousandths.
ASSUME RequestsAssumption ==
    /\ None \notin Nat
    /\ \A r \in Requests : r.acceptEncoding # None =>
          r.acceptEncoding \in Seq([name : STRING, q : 0 .. 1000])
    /\ \A r \in Requests : r.range # None =>
          r.range \in Seq([first : Sizes \cup {None}, last : Sizes \cup {None}])

VARIABLES
    disk,          \* what a name leads to: an inode of store, or None
    store,         \* the inodes: stamp and size of each
    history,       \* of each stamp: when it was written, its source, and when
                   \* the original ceased to have that content (Never: not yet)
    now,           \* the steady clock
    metadata,      \* the metadata cache, the most recently used entry first
    content,       \* the content cache, likewise
    contentBytes,  \* content_bytes
    thread,        \* each thread's request and how far it got
    copy,          \* what each client kept of its last full answer
    asked, faults

vars == <<disk, store, history, now, metadata, content, contentBytes, thread, copy, asked, faults>>

directory == <<disk, store, history>>
caches == <<metadata, content, contentBytes>>

Never == MaxTime + 1

Codings == {""} \cup ToSet(Precompressed)

Files == Paths \X Codings

Inode(file) == store[disk[file]]

-----------------------------------------------------------------------------
(* The lists.  find moves an entry to the front, put overwrites it there.  *)

Holds(cache, key) == \E i \in DOMAIN cache : cache[i].key = key

PlaceOf(cache, key) == CHOOSE i \in DOMAIN cache : cache[i].key = key

EntryOf(cache, key) == cache[PlaceOf(cache, key)]

Without(cache, key) == IF Holds(cache, key) THEN RemoveAt(cache, PlaceOf(cache, key)) ELSE cache

Touched(cache, key) == <<EntryOf(cache, key)>> \o Without(cache, key)

Put(cache, entry) == <<entry>> \o Without(cache, entry.key)

BytesOf(cache, n) == MapThenSumSet(LAMBDA i : cache[i].size, n + 1 .. Len(cache))

-----------------------------------------------------------------------------
(* Threads. *)

Idle == [pc |-> "idle"]

Answered(status) == [pc |-> "answered", status |-> status]

Broken == 0    \* the connection closes amid the body

Go(t, pc) == [thread EXCEPT ![t].pc = pc]

\* requested_segments: the capture's segments, or nothing.
HasDots(path) == \E i \in DOMAIN path : path[i] \in {".", ".."}

\* Refusals that need no look at the directory: the method, the target's
\* syntax and encoded separators, then . and .. segments, then hidden names.
Refusal(r) ==
    CASE r.method \notin {"GET", "HEAD"}                                  -> 405
      [] ~r.wellFormed \/ r.encodedSeparator                              -> 400
      [] HasDots(r.path)                                                  -> 400
      [] \E i \in DOMAIN r.path : r.path[i] \in Hidden \ {".well-known"}  -> 404
      [] OTHER -> None

\* The conditional fields a client sends for the copy it holds.
Conditions(r, c) ==
    LET Tags == IF c = None THEN None ELSE [any |-> FALSE, tags |-> {c.tag}]
        Date == IF c = None THEN None ELSE c.modified
    IN [ifMatch           |-> IF "if_match" \in r.conditions THEN Tags ELSE None,
        ifUnmodifiedSince |-> IF "if_unmodified_since" \in r.conditions THEN Date ELSE None,
        ifNoneMatch       |-> IF "if_none_match" \in r.conditions THEN Tags ELSE None,
        ifModifiedSince   |-> IF "if_modified_since" \in r.conditions THEN Date ELSE None,
        ifRange           |-> IF "if_range" \in r.conditions /\ c # None
                              THEN [tag |-> c.tag, date |-> None] ELSE None]

\* Before a round of serve's loop, of a request and the conditions in it; at
\* is when the lookup began, looked how many siblings were looked at, handle
\* which inode is open, opened the content it had then, read what to keep.
LookingUp(request, held) ==
    [pc |-> "lookup", fresh |-> FALSE, fallback |-> FALSE, at |-> 0,
     path |-> request.path, slash |-> request.slash, found |-> None, looked |-> 0,
     handle |-> 0, read |-> None, opened |-> 0, left |-> <<>>, sent |-> <<>>,
     request |-> request, held |-> held]

\* operator(), serve up to the loop.
Receive(t) ==
    /\ thread[t].pc \in {"idle", "answered"}
    /\ asked < MaxRequests
    /\ asked' = asked + 1
    /\ \E r \in Requests :
          thread' = [thread EXCEPT ![t] =
              IF Refusal(r) # None THEN Answered(Refusal(r))
              ELSE LookingUp(r, Conditions(r, copy[t]))]
    /\ UNCHANGED <<directory, now, caches, copy, faults>>

-----------------------------------------------------------------------------
(* serve_file up to the bytes, of a thread's record w whose lookup ended.  *)

Chosen(w) == SelectVariant(w.request, w.found.variants)

FileOf(w) == <<w.found.file, Chosen(w).coding>>

\* What is answered, of which tag, with the content of which stamp.
Answer(w, status, stamp) ==
    [pc |-> "answered", status |-> status, at |-> w.at,
     tag |-> Tag(Chosen(w)), stamp |-> stamp, file |-> FileOf(w)]

LastDotted(path) == path # <<>> /\ path[Len(path)] \in Dotted

WantsFallback(w) ==
    /\ Fallback # None /\ ~w.fallback
    /\ w.found.kind = "not_found" /\ ~LastDotted(w.path)

StatusFor(kind) ==
    CASE kind = "redirect" -> 301 [] kind = "not_found" -> 404
      [] kind = "forbidden" -> 403 [] kind = "error" -> 500

\* The bytes a GET is answered with; none requested means all of them.
RangeSet(w) ==
    IF w.request.range # None /\ MaxRanges > 0 /\ IfRangeHolds(w.held, Tag(Chosen(w)), w.found.modified)
    THEN RangesOf(w.request.range, Chosen(w).size, MaxRanges)
    ELSE [status |-> "ignored", ranges |-> <<>>]

\* The precondition, a HEAD, an unsatisfiable range and an empty file are
\* answered from what is known; other answers need the bytes.
Served(w) ==
    LET verdict == EvaluatePreconditions(w.held, Tag(Chosen(w)), w.found.modified)
    IN CASE verdict = "failed"                   -> Answered(412)
         [] verdict = "not_modified"             -> Answer(w, 304, Chosen(w).stamp)
         [] w.request.method = "HEAD"            -> Answer(w, 200, Chosen(w).stamp)
         [] RangeSet(w).status = "unsatisfiable" -> Answered(416)
         [] Chosen(w).size = 0                   -> Answer(w, 200, Chosen(w).stamp)
         [] OTHER                                -> [w EXCEPT !.pc = "content"]

\* serve's loop after cached_resolve: a miss may be looked up again as the
\* fallback document, a refusal is answered, a file is served.
Decided(w) ==
    IF WantsFallback(w) THEN [w EXCEPT !.pc = "lookup", !.path = Fallback, !.slash = FALSE, !.fallback = TRUE]
    ELSE IF w.found.kind # "file" THEN Answered(IF w.fallback THEN 404 ELSE StatusFor(w.found.kind))
    ELSE Served(w)

-----------------------------------------------------------------------------
(* cached_resolve. *)

KeyOf(w) == <<w.path, w.slash>>

\* An entry younger than revalidate_after is taken as it is.
Lookup(t) ==
    LET w == thread[t]
        known == MetadataEntries > 0 /\ ~w.fresh /\ Holds(metadata, KeyOf(w))
        hit == known /\ now - EntryOf(metadata, KeyOf(w)).checked < RevalidateAfter
    IN /\ w.pc = "lookup"
       /\ metadata' = IF known THEN Touched(metadata, KeyOf(w)) ELSE metadata
       /\ thread' = [thread EXCEPT ![t] =
              IF hit THEN Decided([w EXCEPT !.at = now, !.found = EntryOf(metadata, KeyOf(w)).result])
              ELSE [w EXCEPT !.at = now, !.pc = "status"]]
       /\ UNCHANGED <<directory, now, content, contentBytes, copy, asked, faults>>

IsFile(path) == disk[<<path, "">>] # None

IsRegular(path) == path \in Paths \ Directories /\ IsFile(path)

Contained(path) == path \notin Outside

NotAFile(kind) == [kind |-> kind, file |-> None]

\* resolve: what the path names, the first index file for a directory.
Resolved(path, slash) ==
    LET candidates == {i \in DOMAIN Indexes : IsRegular(Append(path, Indexes[i]))
                                               /\ Contained(Append(path, Indexes[i]))}
    IN CASE path \in Directories /\ Contained(path) /\ ~slash -> NotAFile("redirect")
         [] path \in Directories /\ Contained(path) /\ slash /\ candidates # {} ->
                [kind |-> "file", file |-> Append(path, Indexes[Min(candidates)])]
         [] IsRegular(path) /\ Contained(path) /\ ~slash -> [kind |-> "file", file |-> path]
         [] OTHER -> NotAFile("not_found")

\* The status calls and make_file's file_size; any of them may fail.
Status(t) ==
    /\ thread[t].pc = "status"
    /\ \/ LET r == Resolved(thread[t].path, thread[t].slash)
          IN /\ thread' = [thread EXCEPT
                   ![t].pc = IF r.kind = "file" THEN "stamp" ELSE "remember",
                   ![t].found = IF r.kind # "file" THEN r
                                ELSE [kind |-> "file", file |-> r.file, modified |-> 0,
                                      variants |-> <<[coding |-> "", stamp |-> 0,
                                                      size |-> Inode(<<r.file, "">>).size]>>]]
             /\ UNCHANGED faults
       \/ /\ faults < MaxFaults
          /\ faults' = faults + 1
          /\ \E kind \in {"forbidden", "error"} :
                thread' = [thread EXCEPT ![t].pc = "remember", ![t].found = NotAFile(kind)]
    /\ UNCHANGED <<directory, now, caches, copy, asked>>

\* make_file's last_write_time; Last-Modified is that time, to the tick.
Stamp(t) ==
    LET w == thread[t]
        f == <<w.found.file, "">>
        s == Inode(f).stamp
        variants == [w.found.variants EXCEPT ![1].stamp = s]
    IN /\ w.pc = "stamp"
       /\ thread' = IF disk[f] = None
                    THEN [thread EXCEPT ![t] = [w EXCEPT !.pc = "remember", !.found = NotAFile("not_found")]]
                    ELSE [thread EXCEPT ![t] = [w EXCEPT
                              !.pc = IF Precompressed = <<>> THEN "remember" ELSE "siblings", !.looked = 0,
                              !.found = [w.found EXCEPT !.variants = variants, !.modified = history[s].written]]]
       /\ UNCHANGED <<directory, now, caches, copy, asked, faults>>

\* A sibling older than the original was made from an earlier one.
IsStale(sibling, original) == sibling.stamp < original.stamp

\* The next configured sibling is taken if it is there and not stale.
AddSibling(t) ==
    LET w == thread[t]
        coding == Precompressed[w.looked + 1]
        file == <<w.found.file, coding>>
        sibling == [coding |-> coding, stamp |-> Inode(file).stamp, size |-> Inode(file).size]
        usable == disk[file] # None /\ ~IsStale(sibling, w.found.variants[1])
        variants == IF usable THEN Append(w.found.variants, sibling) ELSE w.found.variants
    IN /\ w.pc = "siblings"
       /\ thread' = [thread EXCEPT ![t] = [w EXCEPT
              !.pc = IF w.looked + 1 = Len(Precompressed) THEN "remember" ELSE "siblings",
              !.looked = w.looked + 1,
              !.found = [w.found EXCEPT !.variants = variants]]]
       /\ UNCHANGED <<directory, now, caches, copy, asked, faults>>

\* The entry is dated when it is put.
DefectCheckedAt(w) == now

\* The entry is dated by the clock read before the file system was asked.
CheckedAt(w) == w.at

\* An error may pass and is not remembered; anything else is.
Remember(t) ==
    LET w == thread[t]
        kept == Put(metadata, [key |-> KeyOf(w), result |-> w.found, checked |-> CheckedAt(w)])
    IN /\ w.pc = "remember"
       /\ metadata' = CASE MetadataEntries = 0 -> metadata
                        [] w.found.kind = "error" -> Without(metadata, KeyOf(w))
                        [] OTHER -> SubSeq(kept, 1, LowerOf(Len(kept), MetadataEntries))
       /\ thread' = [thread EXCEPT ![t] = Decided(w)]
       /\ UNCHANGED <<directory, now, content, contentBytes, copy, asked, faults>>

-----------------------------------------------------------------------------
(* open_content and the body's writer. *)

\* The file is not what the entry says: look once more, past the cache.
Changed(w) ==
    IF w.fresh THEN Answered(500)
    ELSE [LookingUp(w.request, w.held) EXCEPT !.fresh = TRUE]

Cacheable(w) == Chosen(w).size <= MemoryMaxFile /\ Chosen(w).size <= MemoryMaxTotal

StatusOfBytes(w) == IF RangeSet(w).ranges = <<>> THEN 200 ELSE 206

\* A client keeps a full answer with its validators.
Kept(t, w, stamp) ==
    IF StatusOfBytes(w) = 200
    THEN [copy EXCEPT ![t] = [tag |-> Tag(Chosen(w)), stamp |-> stamp, modified |-> w.found.modified]]
    ELSE copy

\* An entry is the file's if its size is.
DefectMatches(entry, variant) == entry.size = variant.size

\* An entry is the file's if both its size and its modification time are.
Matches(entry, variant) == entry.size = variant.size /\ entry.mtime = variant.stamp

\* open_content's first stretch under the lock.
FindContent(t) ==
    LET w == thread[t]
        known == Cacheable(w) /\ Holds(content, FileOf(w))
        entry == EntryOf(content, FileOf(w))
    IN /\ w.pc = "content"
       /\ \/ /\ known /\ Matches(entry, Chosen(w))
             /\ content' = Touched(content, FileOf(w))
             /\ thread' = [thread EXCEPT ![t] = Answer(w, StatusOfBytes(w), entry.stamp)]
             /\ copy' = Kept(t, w, entry.stamp)
             /\ UNCHANGED contentBytes
          \/ /\ known /\ ~Matches(entry, Chosen(w))
             /\ content' = Without(content, FileOf(w))
             /\ contentBytes' = contentBytes - entry.size
             /\ thread' = Go(t, "open")
             /\ UNCHANGED copy
          \/ /\ ~known
             /\ thread' = Go(t, "open")
             /\ UNCHANGED <<content, contentBytes, copy>>
       /\ UNCHANGED <<directory, now, metadata, asked, faults>>

\* The offsets of the requested bytes, in the order they are sent.
Offsets(w) ==
    LET ranges == IF RangeSet(w).ranges = <<>> THEN <<[first |-> 0, last |-> Chosen(w).size - 1]>>
                  ELSE CoalesceRanges(RangeSet(w).ranges)
    IN FlattenSeq([i \in DOMAIN ranges |->
                    [k \in 1 .. ranges[i].last - ranges[i].first + 1 |-> ranges[i].first + k - 1]])

\* The open by name, and the size it has now; a large file stays open.
Open(t) ==
    LET w == thread[t]
        file == FileOf(w)
    IN /\ w.pc = "open"
       /\ \/ /\ thread' = [thread EXCEPT ![t] =
                  IF disk[file] = None \/ Inode(file).size # Chosen(w).size THEN Changed(w)
                  ELSE IF Cacheable(w) THEN [w EXCEPT !.pc = "load", !.handle = disk[file]]
                  ELSE [w EXCEPT !.pc = "sending", !.handle = disk[file],
                                 !.opened = Inode(file).stamp, !.left = Offsets(w)]]
             /\ UNCHANGED faults
          \/ /\ faults < MaxFaults
             /\ faults' = faults + 1
             /\ \E status \in {403, 500} : thread' = [thread EXCEPT ![t] = Answered(status)]
       /\ UNCHANGED <<directory, now, caches, copy, asked>>

\* What is kept of a file: the bytes of stamp, as those of the chosen variant.
EntryFor(w, stamp) == [key |-> FileOf(w), mtime |-> Chosen(w).stamp, stamp |-> stamp, size |-> Chosen(w).size]

\* The whole file is read; one that has shrunk since is looked up again.
Load(t) ==
    LET w == thread[t]
        inode == store[w.handle]
    IN /\ w.pc = "load"
       /\ thread' = [thread EXCEPT ![t] =
              IF inode.size < Chosen(w).size THEN Changed(w)
              ELSE [w EXCEPT !.pc = "keep", !.read = EntryFor(w, inode.stamp)]]
       /\ UNCHANGED <<directory, now, caches, copy, asked, faults>>

\* What an entry put over another one takes out of the account.
Displaced(file) == IF Holds(content, file) THEN EntryOf(content, file).size ELSE 0

\* open_content's second stretch under the lock: put, count, evict.
KeepContent(t) ==
    LET w == thread[t]
        cache == Put(content, w.read)
        bytes == contentBytes - Displaced(w.read.key) + w.read.size
        evicted == Min({n \in 0 .. Len(cache) :
                          bytes - BytesOf(cache, Len(cache) - n) <= MemoryMaxTotal \/ n = Len(cache)})
    IN /\ w.pc = "keep"
       /\ content' = SubSeq(cache, 1, Len(cache) - evicted)
       /\ contentBytes' = bytes - BytesOf(cache, Len(cache) - evicted)
       /\ thread' = [thread EXCEPT ![t] = Answer(w, StatusOfBytes(w), w.read.stamp)]
       /\ copy' = Kept(t, w, w.read.stamp)
       /\ UNCHANGED <<directory, now, metadata, asked, faults>>

\* How many bytes the request asks for, each counted once.
Wanted(w) ==
    IF RangeSet(w).ranges = <<>> THEN Chosen(w).size
    ELSE Cardinality({o \in 0 .. Chosen(w).size - 1 :
                        \E r \in ToSet(RangeSet(w).ranges) : r.first <= o /\ o <= r.last})

\* What is answered by a file sent piece by piece.
SentAnswer(w, stamp, sent) ==
    [pc |-> "answered", status |-> StatusOfBytes(w), at |-> w.at,
     tag |-> Tag(Chosen(w)), stamp |-> stamp, file |-> FileOf(w),
     pieces |-> sent, opened |-> w.opened, handle |-> w.handle, expected |-> Wanted(w)]

\* segmented_body's writer, a buffer at a time from the file kept open; a
\* file that has become too short fails the write.
SendPiece(t) ==
    LET w == thread[t]
        inode == store[w.handle]
        sent == Append(w.sent, inode.stamp)
        done == Len(w.left) = 1
    IN /\ w.pc = "sending"
       /\ thread' = [thread EXCEPT ![t] =
              IF w.left[1] >= inode.size THEN Answered(Broken)
              ELSE IF done THEN SentAnswer(w, inode.stamp, sent)
              ELSE [w EXCEPT !.left = Tail(@), !.sent = sent]]
       /\ copy' = IF done /\ w.left[1] < inode.size THEN Kept(t, w, inode.stamp) ELSE copy
       /\ UNCHANGED <<directory, now, caches, asked, faults>>

-----------------------------------------------------------------------------
(* Other programs, and time. *)

Changes == Len(history)

\* Stamp n+1 stands for a content; the one it replaces is superseded.
Written(source, old) ==
    Append([s \in DOMAIN history |-> IF s = old THEN [history[s] EXCEPT !.superseded = now] ELSE history[s]],
           [written |-> now, source |-> source, superseded |-> Never])

Original(path) == Inode(<<path, "">>)

StampOf(path) == IF IsFile(path) THEN Original(path).stamp ELSE None

NewStamp == Len(history) + 1

\* In place: whoever has the file open sees the new content.
Overwrite(path, size) ==
    /\ IsFile(path)
    /\ store' = [store EXCEPT ![disk[<<path, "">>]] = [stamp |-> NewStamp, size |-> size]]
    /\ history' = Written(NewStamp, StampOf(path))
    /\ UNCHANGED disk

\* By renaming another file over it: they keep the old one.
Replace(path, size) ==
    /\ store' = Append(store, [stamp |-> NewStamp, size |-> size])
    /\ disk' = [disk EXCEPT ![<<path, "">>] = Len(store) + 1]
    /\ history' = Written(NewStamp, StampOf(path))

RemoveFile(path) ==
    /\ IsFile(path)
    /\ disk' = [disk EXCEPT ![<<path, "">>] = None]
    /\ history' = Written(NewStamp, StampOf(path))
    /\ UNCHANGED store

\* A sibling is made of what the original is at that moment.
Compress(path, coding) ==
    /\ IsFile(path)
    /\ store' = Append(store, [stamp |-> NewStamp, size |-> 1])
    /\ disk' = [disk EXCEPT ![<<path, coding>>] = Len(store) + 1]
    /\ history' = Written(StampOf(path), None)

Change ==
    /\ Changes < Cardinality(DOMAIN InitialSizes) + MaxChanges
    /\ \E path \in Rewritten :
          \/ \E size \in OverwrittenSizes : Overwrite(path, size)
          \/ \E size \in ReplacedSizes : Replace(path, size)
          \/ RemoveFile(path)
          \/ \E coding \in ToSet(Precompressed) : Compress(path, coding)
    /\ UNCHANGED <<now, caches, thread, copy, asked, faults>>

Tick ==
    /\ now < MaxTime
    /\ now' = now + 1
    /\ UNCHANGED <<directory, caches, thread, copy, asked, faults>>

Init ==
    LET initial == SetToSeq(DOMAIN InitialSizes)
        At(path) == CHOOSE i \in DOMAIN initial : initial[i] = path
    IN /\ disk = [f \in Files |-> IF f[1] \in DOMAIN InitialSizes /\ f[2] = "" THEN At(f[1]) ELSE None]
       /\ store = [i \in DOMAIN initial |-> [stamp |-> i, size |-> InitialSizes[initial[i]]]]
       /\ history = [i \in DOMAIN initial |-> [written |-> 0, source |-> i, superseded |-> Never]]
       /\ now = 0
       /\ metadata = <<>> /\ content = <<>> /\ contentBytes = 0
       /\ thread = [t \in Threads |-> Idle]
       /\ copy = [t \in Threads |-> None]
       /\ asked = 0 /\ faults = 0

Next ==
    \/ \E t \in Threads : \/ Receive(t) \/ Lookup(t) \/ Status(t) \/ Stamp(t) \/ AddSibling(t)
                          \/ Remember(t) \/ FindContent(t) \/ Open(t) \/ Load(t)
                          \/ KeepContent(t) \/ SendPiece(t)
    \/ Change
    \/ Tick

Spec == Init /\ [][Next]_vars

-----------------------------------------------------------------------------
(* Properties. *)

Describes(t) == thread[t].pc = "answered" /\ thread[t].status \in {200, 206, 304} /\ "tag" \in DOMAIN thread[t]

\* When a request had its path looked up, the content it is answered with -
\* the one sent, or the copy a 304 confirms - was current less than
\* revalidate_after earlier: no interleaving of lookups and changes, no
\* precompressed sibling left from an earlier content and no remembered
\* result makes an answer older than the option allows.
StalenessIsBounded ==
    \A t \in Threads : Describes(t) =>
        history[history[thread[t].stamp].source].superseded + RevalidateAfter > thread[t].at

\* The bytes of an answer are never older than the validators they are sent
\* with: a client that keeps them under that tag is not left with an old
\* content that later requests confirm.  (They may be newer: the file is
\* opened after it was examined, and the tag is then out of date.)
NeverOlderThanTheTag ==
    \A t \in Threads : Describes(t) => thread[t].stamp >= thread[t].tag.stamp

\* A large file answered in full or in ranges is sent in exactly as many
\* bytes as were asked for, overlapping ranges only once, and all of the
\* content it had when it was opened unless that very file was rewritten in
\* place; replacing it by a rename does not mix two contents in one answer.
SentWhole ==
    \A t \in Threads : Describes(t) /\ "pieces" \in DOMAIN thread[t] =>
        /\ Len(thread[t].pieces) = thread[t].expected
        /\ \/ ToSet(thread[t].pieces) = {thread[t].opened}
           \/ store[thread[t].handle].stamp # thread[t].opened

=============================================================================
