--------------------------- MODULE Representation ---------------------------
(***************************************************************************)
(* What a static file's answer is, once the file is known (handler/        *)
(* htdocs.hpp): which of the file and its precompressed siblings is sent,  *)
(* whether the request's preconditions let it be sent, which of its bytes  *)
(* a Range asks for, and how the media type and the cache policy follow    *)
(* from the name.  Everything here is a function of the request and of     *)
(* what is known of the file; StaticFiles says when each is evaluated.     *)
(*                                                                         *)
(* A parsed field of a request is None when the request does not carry it. *)
(***************************************************************************)
EXTENDS Naturals, Sequences, FiniteSets, SequencesExt

CONSTANT None, NoLimit    \* NoLimit: the largest 64-bit number

-----------------------------------------------------------------------------
(* Validators. *)

\* make_etag: size, modification time and coding, always strong.
Tag(variant) == [weak |-> FALSE, size |-> variant.size, stamp |-> variant.stamp, coding |-> variant.coding]

Opaque(tag) == <<tag.size, tag.stamp, tag.coding>>

StrongMatch(a, b) == ~a.weak /\ ~b.weak /\ Opaque(a) = Opaque(b)

WeakMatch(a, b) == Opaque(a) = Opaque(b)

\* A list of tags as If-Match and If-None-Match carry it; any stands for "*".
ListMatches(field, tag, strong) ==
    field.any \/ \E t \in field.tags : IF strong THEN StrongMatch(t, tag) ELSE WeakMatch(t, tag)

\* RFC 9110 13.2.2: a tag's condition hides the date's.
EvaluatePreconditions(request, tag, lastModified) ==
    LET failed == IF request.ifMatch # None
                  THEN ~ListMatches(request.ifMatch, tag, TRUE)
                  ELSE request.ifUnmodifiedSince # None /\ lastModified > request.ifUnmodifiedSince
        unchanged == IF request.ifNoneMatch # None
                     THEN ListMatches(request.ifNoneMatch, tag, FALSE)
                     ELSE request.ifModifiedSince # None /\ lastModified <= request.ifModifiedSince
    IN IF failed THEN "failed" ELSE IF unchanged THEN "not_modified" ELSE "proceed"

\* If-Range holds with the same strong tag, or with the very date.
IfRangeHolds(request, tag, lastModified) ==
    \/ request.ifRange = None
    \/ request.ifRange.date # None /\ request.ifRange.date = lastModified
    \/ request.ifRange.tag # None /\ StrongMatch(request.ifRange.tag, tag)

-----------------------------------------------------------------------------
(* Which representation. *)

\* q-value of a coding under an Accept-Encoding of elements [name, q]: the
\* last element naming it counts, else the last "*", else None.
Quality(elements, coding) ==
    LET Named(name) == LET at == {i \in DOMAIN elements : elements[i].name = name}
                      IN IF at = {} THEN None ELSE elements[CHOOSE i \in at : \A j \in at : j <= i].q
    IN IF Named(coding) # None THEN Named(coding) ELSE Named("*")

\* variants[1] is the file itself.  A GET with a Range is always answered
\* from it; otherwise the acceptable sibling with the highest q, the first
\* configured one of equals, unless identity is ranked higher explicitly.
SelectVariant(request, variants) ==
    LET Q(i) == LET q == Quality(request.acceptEncoding, variants[i].coding) IN IF q = None THEN 0 ELSE q
        siblings == {i \in 2 .. Len(variants) : Q(i) > 0}
        best == CHOOSE i \in siblings : \A j \in siblings : Q(i) > Q(j) \/ (Q(i) = Q(j) /\ i <= j)
        own == Quality(request.acceptEncoding, "identity")
    IN CASE request.method = "GET" /\ request.range # None -> variants[1]
         [] request.acceptEncoding = None                  -> variants[1]
         [] siblings = {}                                  -> variants[1]
         [] own # None /\ own > Q(best)                    -> variants[1]
         [] OTHER                                          -> variants[best]

-----------------------------------------------------------------------------
(* Which bytes.  A spec is [first, last] with None for the end left out:   *)
(* [None, n] is the last n bytes, [n, None] everything from n on.          *)

LowerOf(a, b) == IF a <= b THEN a ELSE b

HigherOf(a, b) == IF a >= b THEN a ELSE b

IsMalformed(spec) ==
    \/ spec.first = None /\ spec.last = None
    \/ spec.first # None /\ spec.last # None /\ spec.last < spec.first

\* The bytes a spec asks for of a file of that size, clipped; <<>> if none.
Clipped(spec, size) ==
    IF spec.first = None
    THEN IF spec.last > 0 /\ size > 0
         THEN <<[first |-> size - LowerOf(spec.last, size), last |-> size - 1]>> ELSE <<>>
    ELSE IF spec.first < size
         THEN <<[first |-> spec.first,
                 last  |-> LowerOf(IF spec.last = None THEN NoLimit ELSE spec.last, size - 1)]>> ELSE <<>>

\* parse_range after the header was cut into specs.
RangesOf(specs, size, maxRanges) ==
    LET ranges == FlattenSeq([i \in DOMAIN specs |-> Clipped(specs[i], size)])
    IN IF specs = <<>> \/ Len(specs) > maxRanges \/ \E i \in DOMAIN specs : IsMalformed(specs[i])
       THEN [status |-> "ignored", ranges |-> <<>>]
       ELSE [status |-> IF ranges = <<>> THEN "unsatisfiable" ELSE "satisfiable", ranges |-> ranges]

\* The ranges are sent as they were asked for.
DefectCoalesceRanges(ranges) == ranges

\* Sorted by first byte; which of those that begin alike comes first is open.
Sorted(ranges) ==
    LET order == CHOOSE p \in Bijection(DOMAIN ranges, DOMAIN ranges) :
                    \A i, j \in DOMAIN ranges : i < j => ranges[p[i]].first <= ranges[p[j]].first
    IN [i \in DOMAIN ranges |-> ranges[order[i]]]

\* One that overlaps or adjoins the last of those done is merged into it.
MergeInto(done, r) ==
    IF done # <<>> /\ (done[Len(done)].last = NoLimit \/ r.first <= done[Len(done)].last + 1)
    THEN [done EXCEPT ![Len(done)].last = HigherOf(@, r.last)]
    ELSE Append(done, r)

\* coalesce_ranges.
CoalesceRanges(ranges) ==
    LET sorted == Sorted(ranges)
        merged[i \in 0 .. Len(ranges)] == IF i = 0 THEN <<>> ELSE MergeInto(merged[i - 1], sorted[i])
    IN merged[Len(ranges)]

=============================================================================
