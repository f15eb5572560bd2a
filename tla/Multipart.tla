------------------------------ MODULE Multipart ------------------------------
(***************************************************************************)
(* multipart/form-data bodies (core/multipart.hpp): the incremental        *)
(* scanner, the form parsed from a whole body, and the reader that pulls   *)
(* the parts of a body still arriving.                                     *)
(*                                                                         *)
(* The body is a sequence of characters, because what is hard is where the *)
(* pieces it arrives in are cut: a boundary, the end of a header or a line *)
(* end may be split anywhere, and data may begin like a boundary.  "r" and *)
(* "l" are CR and LF, "b" is the boundary, and "h" stands for the text of  *)
(* a header line that names the part; a header line without it has no      *)
(* colon.  One character stands for itself in the data.                    *)
(*                                                                         *)
(* The pieces come from the body reader, whose parser is a library's: it   *)
(* hands on what it parsed in one go, up to the size asked for.  Of a body *)
(* with chunked transfer encoding that can be a chunk's header, and so no  *)
(* byte of the body: 0 is then among PieceSizes.                           *)
(***************************************************************************)
EXTENDS Naturals, Sequences, FiniteSets, SequencesExt, FiniteSetsExt

CONSTANTS
    Chars,            \* the characters; one not named above is only data
    Bodies,           \* the bodies that may arrive
    PieceSizes,       \* how much a read may bring
    MaxHeaderSize,    \* max_header_size
    SomeMax,          \* the buffer read_some is given
    Limit             \* the limit read_all is given

ASSUME BodiesAssumption ==
    {"-", "b", "r", "l", "h"} \subseteq Chars /\ \A b \in Bodies : b \in Seq(Chars)

ASSUME SizesAssumption ==
    /\ PieceSizes \subseteq Nat /\ PieceSizes # {}
    /\ MaxHeaderSize \in Nat /\ SomeMax \in Nat \ {0} /\ Limit \in Nat

FirstDelim == <<"-", "-", "b">>
Eol == <<"r", "l">>
Delim == Eol \o FirstDelim

VARIABLES
    body,       \* what the client sends
    read,       \* how much of it the body reader has delivered
    scanner,    \* buf_, pos_, eof_ and state_, and whether it asked for more
    pending, partDone, finished,    \* the reader's members
    op,         \* the call in progress, "idle" if none
    sofar,      \* bytes read_all has collected
    parts,      \* the parts handed to the program
    ended       \* "no", or how the reading ended

multipartVars == <<body, read, scanner, pending, partDone, finished, op, sofar, parts, ended>>

-----------------------------------------------------------------------------
(* Searching. *)

HasAt(text, what, i) == i + Len(what) - 1 <= Len(text) /\ SubSeq(text, i, i + Len(what) - 1) = what

\* string::find: where what first occurs in text after pos, 0 if nowhere.
Find(text, what, pos) ==
    LET at == {i \in pos + 1 .. Len(text) : HasAt(text, what, i)} IN IF at = {} THEN 0 ELSE Min(at)

\* parse_headers: lines up to the last, each with a colon, one with a name.
HeaderHolds(block) ==
    LET starts == {1} \cup {i + 2 : i \in {j \in DOMAIN block : HasAt(block, Eol, j)}}
        EndOf(a) == Min({i \in DOMAIN block : i >= a /\ HasAt(block, Eol, i)} \cup {Len(block) + 1})
    IN /\ block # <<>>
       /\ \A a \in starts : a <= Len(block) => "h" \in ToSet(SubSeq(block, a, EndOf(a) - 1))

-----------------------------------------------------------------------------
(* multipart_scanner::next, one state at a time.  A step of the scanner    *)
(* either goes on silently or ends in an event, which the call in progress *)
(* takes at once.                                                          *)

Rest == Len(scanner.buf) - scanner.pos

To(state, pos) == [scanner EXCEPT !.state = state, !.pos = pos]

\* need_more: asked once, the caller fetches a piece or says there is none.
Wants(s) == [s EXCEPT !.wants = TRUE]

Scanning(state) == op # "idle" /\ ended = "no" /\ ~scanner.wants /\ scanner.state = state

Malformed ==
    /\ ended' = "malformed" /\ op' = "idle"
    /\ UNCHANGED <<body, read, scanner, pending, partDone, finished, sofar, parts>>

\* More is asked for whether or not there is any.
DefectMoreOrMalformed(s) ==
    /\ scanner' = Wants(s)
    /\ UNCHANGED <<body, read, pending, partDone, finished, op, sofar, parts, ended>>

\* No more input: truncated; otherwise more is asked for.
MoreOrMalformed(s) ==
    \/ scanner.eof /\ Malformed
    \/ /\ ~scanner.eof
       /\ scanner' = Wants(s)
       /\ UNCHANGED <<body, read, pending, partDone, finished, op, sofar, parts, ended>>

Silently(s) ==
    /\ scanner' = s
    /\ UNCHANGED <<body, read, pending, partDone, finished, op, sofar, parts, ended>>

AddTo(part, data) == [part EXCEPT !.data = @ \o data]

\* What the call in progress does with an event.
PartBegin(s) ==
    /\ scanner' = s
    /\ parts' = IF op \in {"next", "form"} THEN Append(parts, [data |-> <<>>, whole |-> FALSE]) ELSE parts
    /\ partDone' = (partDone /\ op # "next")
    /\ op' = IF op = "next" THEN "idle" ELSE op
    /\ UNCHANGED <<body, read, pending, finished, sofar, ended>>

Data(s, data) ==
    /\ scanner' = s
    /\ pending' = IF op \in {"some", "all"} THEN data ELSE pending
    /\ parts' = IF op = "form" THEN [parts EXCEPT ![Len(parts)] = AddTo(@, data)] ELSE parts
    /\ UNCHANGED <<body, read, partDone, finished, op, sofar, ended>>

PartEnd(s) ==
    /\ scanner' = s
    /\ partDone' = (partDone \/ op \in {"some", "all"})
    /\ parts' = IF op = "form" THEN [parts EXCEPT ![Len(parts)].whole = TRUE] ELSE parts
    /\ UNCHANGED <<body, read, pending, finished, op, sofar, ended>>

Finished(s) ==
    /\ scanner' = s
    /\ partDone' = TRUE /\ finished' = TRUE
    /\ op' = IF op \in {"next", "form"} THEN "idle" ELSE op
    /\ ended' = IF op \in {"next", "form"} THEN "done" ELSE ended
    /\ UNCHANGED <<body, read, pending, sofar, parts>>

\* One character less of it is kept.
DefectKeptFrom(buf) == IF Len(buf) > Len(FirstDelim) THEN Len(buf) - Len(FirstDelim) + 2 ELSE 0

\* Where to go on looking for a delimiter that may have begun to arrive.
KeptFrom(buf) == IF Len(buf) > Len(FirstDelim) THEN Len(buf) - Len(FirstDelim) ELSE 0

ScanPreamble ==
    LET i == Find(scanner.buf, FirstDelim, scanner.pos)
    IN /\ Scanning("preamble")
       /\ \/ i # 0 /\ Silently(To("after_delim", i - 1 + Len(FirstDelim)))
          \/ i = 0 /\ MoreOrMalformed(To("preamble", KeptFrom(scanner.buf)))

ScanAfterDelim ==
    LET two == SubSeq(scanner.buf, scanner.pos + 1, scanner.pos + 2)
    IN /\ Scanning("after_delim")
       /\ \/ Rest < 2 /\ MoreOrMalformed(scanner)
          \/ Rest >= 2 /\ two = <<"-", "-">> /\ Finished(To("finished", scanner.pos))
          \/ Rest >= 2 /\ two = Eol /\ Silently(To("headers", scanner.pos + 2))
          \/ Rest >= 2 /\ two \notin {<<"-", "-">>, Eol} /\ Malformed

ScanHeaders ==
    LET end == Find(scanner.buf, Eol \o Eol, scanner.pos)
        block == SubSeq(scanner.buf, scanner.pos + 1, end - 1)
    IN /\ Scanning("headers")
       /\ \/ end = 0 /\ Rest > MaxHeaderSize /\ Malformed
          \/ end = 0 /\ Rest <= MaxHeaderSize /\ MoreOrMalformed(scanner)
          \/ end # 0 /\ ~HeaderHolds(block) /\ Malformed
          \/ end # 0 /\ HeaderHolds(block) /\ PartBegin(To("data", end + 3))

\* The delimiter's line end is not held back.
DefectHold == Len(FirstDelim) - 1

\* So much at the end of the buffer may be the beginning of a delimiter.
Hold == Len(Delim) - 1

ScanData ==
    LET i == Find(scanner.buf, Delim, scanner.pos)
        upTo == scanner.pos + Rest - Hold
    IN /\ Scanning("data")
       /\ \/ /\ i # 0
             /\ IF i = scanner.pos + 1
                THEN Silently(To("part_ending", i - 1 + Len(Delim)))
                ELSE Data(To("part_ending", i - 1 + Len(Delim)), SubSeq(scanner.buf, scanner.pos + 1, i - 1))
          \/ i = 0 /\ (scanner.eof \/ Rest <= Hold) /\ MoreOrMalformed(scanner)
          \/ /\ i = 0 /\ ~scanner.eof /\ Rest > Hold
             /\ Data(To("data", upTo), SubSeq(scanner.buf, scanner.pos + 1, upTo))

ScanPartEnding == Scanning("part_ending") /\ PartEnd(To("after_delim", scanner.pos))

ScanFinished == Scanning("finished") /\ Finished(scanner)

-----------------------------------------------------------------------------
(* The reader. *)

\* feed: what was consumed is dropped before a piece is appended.
Fed(piece) == [scanner EXCEPT !.buf = SubSeq(@, scanner.pos + 1, Len(@)) \o piece,
                              !.pos = 0, !.wants = FALSE]

AtEof == [scanner EXCEPT !.eof = TRUE, !.wants = FALSE]

\* A piece without a byte is taken for the end of the body.
Received(piece) == IF piece = <<>> THEN AtEof ELSE Fed(piece)

\* multipart_reader::step, when the scanner wants more.
Refill ==
    /\ op # "idle" /\ scanner.wants
    /\ IF read = Len(body) THEN scanner' = AtEof /\ UNCHANGED read
       ELSE \E n \in PieceSizes :
              /\ read' = Min({read + n, Len(body)})
              /\ scanner' = Received(SubSeq(body, read + 1, read'))
    /\ UNCHANGED <<body, pending, partDone, finished, op, sofar, parts, ended>>

\* The program calls next_part; what is left of the current part is dropped.
CallNextPart ==
    /\ op = "idle" /\ ended = "no"
    /\ op' = "next" /\ pending' = <<>>
    /\ parts' = IF parts = <<>> THEN parts
                ELSE [parts EXCEPT ![Len(parts)].whole = partDone /\ pending = <<>>]
    /\ UNCHANGED <<body, read, scanner, partDone, finished, sofar, ended>>

CallRead ==
    /\ op = "idle" /\ ended = "no"
    /\ op' \in {"some", "all"}
    /\ sofar' = 0
    /\ UNCHANGED <<body, read, scanner, pending, partDone, finished, parts, ended>>

Reading(call) == op = call /\ ~scanner.wants /\ (pending # <<>> \/ partDone)

Handed(data) == IF parts = <<>> THEN parts ELSE [parts EXCEPT ![Len(parts)] = AddTo(@, data)]

\* read_some returns what fits the buffer.
ReturnSome ==
    LET n == Min({SomeMax, Len(pending)})
    IN /\ Reading("some") /\ ended = "no"
       /\ parts' = Handed(SubSeq(pending, 1, n))
       /\ pending' = SubSeq(pending, n + 1, Len(pending))
       /\ op' = "idle"
       /\ UNCHANGED <<body, read, scanner, partDone, finished, sofar, ended>>

\* read_all goes on until the part is done or has outgrown the limit.
CollectAll ==
    /\ Reading("all") /\ ended = "no"
    /\ sofar' = sofar + Len(pending)
    /\ ended' = IF sofar' > Limit THEN "limit" ELSE ended
    /\ parts' = IF sofar' > Limit THEN parts ELSE Handed(pending)
    /\ pending' = <<>>
    /\ op' = IF partDone \/ sofar' > Limit THEN "idle" ELSE op
    /\ UNCHANGED <<body, read, scanner, partDone, finished>>

-----------------------------------------------------------------------------

\* A reader over an arriving body, or parse_multipart over a whole one.
MultipartInit ==
    /\ body \in Bodies
    /\ \/ op = "idle" /\ read = 0
       \/ op = "form" /\ read = Len(body)
    /\ scanner = [buf |-> IF op = "form" THEN body ELSE <<>>, pos |-> 0, eof |-> op = "form",
                  state |-> "preamble", wants |-> FALSE]
    /\ pending = <<>> /\ partDone = TRUE /\ finished = FALSE
    /\ sofar = 0 /\ parts = <<>> /\ ended = "no"

Scan ==
    /\ ~Reading("some") /\ ~Reading("all")
    /\ \/ ScanPreamble \/ ScanAfterDelim \/ ScanHeaders \/ ScanData \/ ScanPartEnding \/ ScanFinished

Call == CallNextPart \/ CallRead

MultipartNext == Scan \/ Refill \/ ReturnSome \/ CollectAll \/ Call

\* A call that has work goes on with it; whether one is made is the program's.
MultipartSpec ==
    /\ MultipartInit /\ [][MultipartNext]_multipartVars
    /\ WF_multipartVars(Scan \/ Refill \/ ReturnSome \/ CollectAll)

-----------------------------------------------------------------------------
(* Properties. *)

\* The grammar, read in one go.  Of what follows a delimiter, at place i: where
\* the header of a part ends and where the delimiter after its data is, each
\* 0 if it is missing, and whether it is a part.
HeaderEnd(text, i) == Find(text, Eol \o Eol, i + 1)

NextDelim(text, i) == Find(text, Delim, HeaderEnd(text, i) + 3)

IsPart(text, i) ==
    /\ HasAt(text, Eol, i)
    /\ HeaderEnd(text, i) # 0 /\ HeaderHolds(SubSeq(text, i + 2, HeaderEnd(text, i) - 1))

\* The parts from place i on, and whether the text then ends as it must.  A
\* part cut off by the end has what is there as its data.
From(text) ==
    LET from[i \in 1 .. Len(text) + 1] ==
          IF ~IsPart(text, i) THEN [ok |-> HasAt(text, <<"-", "-">>, i), parts |-> <<>>]
          ELSE IF NextDelim(text, i) = 0
          THEN [ok |-> FALSE, parts |-> <<SubSeq(text, HeaderEnd(text, i) + 4, Len(text))>>]
          ELSE LET rest == from[NextDelim(text, i) + Len(Delim)]
               IN [ok |-> rest.ok,
                   parts |-> <<SubSeq(text, HeaderEnd(text, i) + 4, NextDelim(text, i) - 1)>> \o rest.parts]
    IN from

Meaning(text) ==
    LET opening == Find(text, FirstDelim, 0)
    IN IF opening = 0 THEN [ok |-> FALSE, parts |-> <<>>] ELSE From(text)[opening + Len(FirstDelim)]

\* A header so long that the limit may be met before its end has arrived.
HasLongHeader ==
    \E i \in DOMAIN body : HasAt(body, FirstDelim, i) /\
        LET end == Find(body, Eol \o Eol, i + 4) IN end # 0 /\ end - i - 5 > MaxHeaderSize - 3

\* However a body is cut into pieces and however the program reads it, the
\* data it is handed is the data of that part, from its beginning: never a
\* piece of a boundary, never a character lost where two pieces meet, and
\* all of it when the part was read to its end.
DataIsTheBodys ==
    /\ Len(parts) <= Len(Meaning(body).parts)
    /\ \A k \in DOMAIN parts :
          /\ IsPrefix(parts[k].data, Meaning(body).parts[k])
          /\ parts[k].whole \/ (k = Len(parts) /\ op = "idle" /\ ended = "no" /\ partDone /\ pending = <<>>)
               => parts[k].data = Meaning(body).parts[k]

\* A read brought nothing and was taken for the end, which was still to come.
CutShort == scanner.eof /\ read < Len(body)

\* A body is called malformed only if it is, or has a header too long, or a
\* read of it brought nothing and cut it short; and it is finished only if it
\* ended with the closing boundary and every part was handed on: a streamed
\* and a buffered upload are judged alike.
EndsAsTheBody ==
    /\ ended = "malformed" => ~Meaning(body).ok \/ HasLongHeader \/ CutShort
    /\ ended = "done" => Meaning(body).ok /\ Len(parts) = Len(Meaning(body).parts)

\* A call on a body that stops arriving anywhere still returns: no state of
\* the scanner goes on asking for more once there is no more.
CallsReturn == [](op # "idle" => <>(op = "idle"))

-----------------------------------------------------------------------------
\* What the reader makes of a body reader's promise that a read returns no
\* byte "only when done": whether a well-formed body is found malformed does
\* not depend on how it arrives, chunked transfer encoding included.
WellFormedIsAccepted == ended = "malformed" => ~Meaning(body).ok \/ HasLongHeader

=============================================================================
