----------------------------- MODULE ServeFile -----------------------------
(***************************************************************************)
(* Serving a Track's file: the preconditions, If-Range and the byte ranges *)
(* of src/server/src/modules/playback/serve_file.rs, while a Track         *)
(* Replacement exchanges the file at the same path by two renames.  A file *)
(* is a version with a size and a modification time in seconds; a header   *)
(* is what its parser makes of it.                                         *)
(***************************************************************************)
EXTENDS Integers, Sequences, FiniteSetsExt

CONSTANTS
  Sizes,            \* sizes a version may have
  MaxRanges,        \* MAX_RANGES, the ranges read from one header
  Headers,          \* the Range headers a client may send: sequences of specs
  MaxRequests, MaxReplacements     \* bounds

VARIABLES
  file,      \* the file at the Track's path, or Missing between two renames
  next,      \* the number of the next version
  request,   \* what the client asked
  step,      \* how far serve is: idle, stat, open, deciding, sending, done
  meta,      \* the metadata serve read
  single,    \* the body is one range, read from the file that is open
  opened,    \* the file it then opened
  reply,     \* status, ranges and length as sent in the head
  sent,      \* what the body has carried: a sequence of <<version, byte>>
  resuming,  \* the version and time the client wants the rest of, if any
  raced,     \* the file was exchanged since serve read the metadata
  asked

vars == <<file, next, request, step, meta, opened, single, reply, sent, resuming, raced, asked>>

Missing == [version |-> 0, size |-> 0, mtime |-> 0]
Open == -1                     \* a range without a last byte
Nothing == [status |-> 0, ranges |-> <<>>, length |-> 0]
NoRequest == [specs |-> <<>>, valid |-> TRUE, match |-> "none", since |-> 0, resume |-> FALSE, head |-> FALSE]
Span(start, length) == [start |-> start, length |-> length]

-----------------------------------------------------------------------------
(* parse_range.  A spec is <<first, last>>, <<first, Open>> or a suffix.   *)

Suffix(spec) == spec.kind = "suffix"
Least(a, b) == IF a < b THEN a ELSE b

\* A last byte before the first is an error only where the first lies in the file.
Unreadable(spec, size) ==
  \/ spec.kind = "bad"
  \/ spec.kind = "from" /\ spec.first < size /\ spec.last # Open /\ spec.last < spec.first

\* No byte of the file is in the range; one that begins with the last byte is not such.
Misses(spec, size) ==
  \/ Suffix(spec) /\ Least(spec.last, size) = 0
  \/ spec.kind = "from" /\ spec.first >= size

RangeOf(spec, size) ==
  IF Suffix(spec) THEN Span(size - Least(spec.last, size), Least(spec.last, size))
  ELSE Span(spec.first, (IF spec.last = Open THEN size - 1 ELSE Least(spec.last, size - 1)) - spec.first + 1)

Ranges(specs, size) ==
  LET used == SelectSeq(specs, LAMBDA spec : spec.kind # "blank" /\ ~Misses(spec, size))
  IN [i \in 1..Len(used) |-> RangeOf(used[i], size)]

\* "ok" with the ranges to send (none: the whole file), or why there are none.
ParseRange(specs, size) ==
  CASE Len(specs) > MaxRanges -> [is |-> "ok", ranges |-> <<>>]
    [] Len(specs) <= MaxRanges /\ \E i \in 1..Len(specs) : Unreadable(specs[i], size) -> [is |-> "invalid", ranges |-> <<>>]
    [] OTHER ->
         LET ranges == Ranges(specs, size) IN
         IF ranges = <<>> /\ \E i \in 1..Len(specs) : Misses(specs[i], size)
         THEN [is |-> "no overlap", ranges |-> <<>>] ELSE [is |-> "ok", ranges |-> ranges]

LengthOf(ranges) == MapThenSumSet(LAMBDA i : ranges[i].length, DOMAIN ranges)

\* Ranges that together ask for more than the file are answered with the file.
Wanted(ranges, size) == IF LengthOf(ranges) > size THEN <<>> ELSE ranges

-----------------------------------------------------------------------------
(* serve. *)

\* If-Match and If-Unmodified-Since, If-None-Match and If-Modified-Since in the
\* order of RFC 7232, against a file that has a time and no ETag.
Precondition ==
  CASE request.match = "if-match tag" -> 412
    [] request.match = "if-unmodified-since" /\ meta.mtime > request.since -> 412
    [] request.match = "if-none-match any" -> 304
    [] request.match = "if-modified-since" /\ meta.mtime <= request.since -> 304
    [] OTHER -> 0

\* An If-Range that takes any file that is not newer.
IfRangeHoldsNotNewer == ~request.resume \/ meta.mtime >= resuming.mtime

\* check_if_range: the time must be the very one the client has.
IfRangeHolds == ~request.resume \/ meta.mtime = resuming.mtime

RangeAnswer ==
  LET specs  == IF IfRangeHolds THEN request.specs ELSE <<>>
      parsed == IF specs # <<>> /\ ~request.valid THEN [is |-> "invalid", ranges |-> <<>>]
                ELSE ParseRange(specs, meta.size)
      ranges == Wanted(parsed.ranges, meta.size)
  IN CASE parsed.is = "invalid" -> [Nothing EXCEPT !.status = 416]
       [] parsed.is = "no overlap" /\ meta.size > 0 -> [Nothing EXCEPT !.status = 416]
       [] parsed.is # "invalid" /\ (parsed.is = "ok" \/ meta.size = 0) /\ ranges = <<>> ->
            [status |-> 200, ranges |-> <<Span(0, meta.size)>>, length |-> meta.size]
       [] OTHER -> [status |-> 206, ranges |-> ranges, length |-> LengthOf(ranges)]

Ask(specs, valid, match, since, resume, head) ==
  /\ step = "idle" /\ asked < MaxRequests
  /\ resume => resuming # Missing /\ match = "none" /\ Len(specs) = 1
  /\ request' = [specs |-> specs, valid |-> valid, match |-> match, since |-> since, resume |-> resume, head |-> head]
  /\ step' = "stat" /\ asked' = asked + 1 /\ raced' = FALSE /\ sent' = <<>> /\ reply' = Nothing
  /\ meta' = Missing /\ opened' = Missing /\ single' = FALSE
  /\ UNCHANGED <<file, next, resuming>>

NotFound == reply' = [Nothing EXCEPT !.status = 404] /\ step' = "done"

Stat ==
  /\ step = "stat"
  /\ IF file = Missing THEN NotFound /\ UNCHANGED meta
     ELSE meta' = file /\ step' = "open" /\ UNCHANGED reply
  /\ UNCHANGED <<file, next, request, opened, single, sent, resuming, raced, asked>>

OpenFile ==
  /\ step = "open"
  /\ IF file = Missing THEN NotFound /\ UNCHANGED opened
     ELSE opened' = file /\ step' = "deciding" /\ UNCHANGED reply
  /\ UNCHANGED <<file, next, request, meta, single, sent, resuming, raced, asked>>

Decide ==
  /\ step = "deciding"
  /\ LET answer == IF Precondition # 0 THEN [Nothing EXCEPT !.status = Precondition] ELSE RangeAnswer IN
     /\ reply' = answer
     /\ single' = (Len(answer.ranges) = 1)
     /\ step' = IF answer.ranges = <<>> \/ request.head THEN "done" ELSE "sending"
  /\ UNCHANGED <<file, next, request, meta, opened, sent, resuming, raced, asked>>

\* The bytes of one range as a file has them; a file that has become shorter ends early.
BytesOf(version, range) ==
  LET last == Least(range.start + range.length, version.size)
  IN [i \in 1..(IF last > range.start THEN last - range.start ELSE 0) |-> <<version.version, range.start + i - 1>>]

\* One range of the body.  A single range comes from the file that is open, each
\* part of several from the path, opened again.
Send ==
  /\ step = "sending"
  /\ LET source == IF single THEN opened ELSE file IN
     IF source = Missing THEN step' = "done" /\ UNCHANGED <<sent, reply>>
     ELSE /\ sent' = sent \o BytesOf(source, Head(reply.ranges))
          /\ reply' = [reply EXCEPT !.ranges = Tail(@)]
          /\ step' = IF Len(reply.ranges) = 1 THEN "done" ELSE "sending"
  /\ UNCHANGED <<file, next, request, meta, opened, single, resuming, raced, asked>>

\* The client has the answer, or loses the connection, and may want the rest of
\* what it has got, as of the time in the head.
Finish ==
  /\ step \in {"sending", "done"}
  /\ step' = "idle" /\ request' = NoRequest
  /\ resuming' = IF sent # <<>> /\ reply.status \in {200, 206} /\ ~raced THEN meta ELSE Missing
  /\ UNCHANGED <<file, next, meta, opened, single, reply, sent, raced, asked>>

\* The replacement's two renames: the old file goes, the new one, written
\* later, comes.
Retire ==
  /\ file # Missing /\ next <= MaxReplacements + 1
  /\ file' = Missing /\ raced' = TRUE
  /\ UNCHANGED <<next, request, step, meta, opened, single, reply, sent, resuming, asked>>

Install ==
  /\ file = Missing
  /\ \E size \in Sizes : file' = [version |-> next, size |-> size, mtime |-> next]
  /\ next' = next + 1 /\ raced' = TRUE
  /\ UNCHANGED <<request, step, meta, opened, single, reply, sent, resuming, asked>>

Init ==
  /\ \E size \in Sizes : file = [version |-> 1, size |-> size, mtime |-> 1]
  /\ next = 2 /\ request = NoRequest /\ step = "idle" /\ meta = Missing /\ opened = Missing /\ single = FALSE
  /\ reply = Nothing /\ sent = <<>> /\ resuming = Missing /\ raced = FALSE /\ asked = 0

Matches == {"none", "if-match tag", "if-unmodified-since", "if-none-match any", "if-modified-since"}

Next ==
  \/ step = "idle" /\ \E specs \in Headers, valid \in BOOLEAN, match \in Matches,
        since \in 1..2, resume \in BOOLEAN, head \in BOOLEAN :
       /\ valid \/ (Len(specs) = 1 /\ match = "none" /\ ~resume)
       /\ since = 1 \/ match \in {"if-unmodified-since", "if-modified-since"}
       /\ match = "none" \/ specs = <<>>
       /\ Ask(specs, valid, match, since, resume, head)
  \/ Stat \/ OpenFile \/ Decide \/ Send \/ Finish \/ Retire \/ Install

Spec == Init /\ [][Next]_vars

-----------------------------------------------------------------------------
\* TypeOK: the state of the module.
TypeOK ==
  /\ step \in {"idle", "stat", "open", "deciding", "sending", "done"}
  /\ \A version \in {file, meta, opened, resuming} :
       version \in [version : 0..next, size : Sizes \cup {0}, mtime : 0..next]
  /\ reply.status \in {0, 200, 206, 304, 404, 412, 416}
  /\ raced \in BOOLEAN /\ asked \in 0..MaxRequests

\* What the specs ask for, read as RFC 7233 says: a byte is wanted when some spec names it.
AskedBytes(specs, size) ==
  {byte \in 0..(size - 1) : \E i \in 1..Len(specs) :
     \/ specs[i].kind = "from" /\ specs[i].first <= byte /\ (specs[i].last = Open \/ byte <= specs[i].last)
     \/ specs[i].kind = "suffix" /\ byte >= size - specs[i].last}

SentBytes == {sent[i][2] : i \in 1..Len(sent)}

\* SendsWhatWasAsked: a partial answer that was sent to its end, with no exchange of
\* the file during it, carries exactly the bytes its specs ask for, whatever
\* combination of ranges, open ranges, suffixes and blanks they are; a whole answer
\* carries the file; and the body is as long as the head said (parse_range, serve).
SendsWhatWasAsked ==
  step = "done" /\ reply.status \in {200, 206} /\ ~raced /\ ~request.head =>
    /\ Len(sent) = reply.length
    /\ SentBytes = IF reply.status = 206 THEN AskedBytes(request.specs, meta.size) ELSE 0..(meta.size - 1)

\* RefusedOnlyIfNothingToSend: 416 is the answer only where a spec is not readable
\* or none of them meets the file.
RefusedOnlyIfNothingToSend ==
  step = "done" /\ reply.status = 416 /\ request.valid =>
    \/ AskedBytes(request.specs, meta.size) = {}
    \/ \E i \in 1..Len(request.specs) : Unreadable(request.specs[i], meta.size)

\* ResumeKeepsTheVersion: a client that lost the connection and asks for the rest
\* with If-Range gets bytes of the version it already has, or the whole file,
\* although the file may be replaced at any time but between the reading of the
\* metadata and the opening of the file.
ResumeKeepsTheVersion ==
  request.resume /\ reply.status = 206 /\ opened.version = meta.version =>
    \A i \in 1..Len(sent) : sent[i][1] = resuming.version
=============================================================================
