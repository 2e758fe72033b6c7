--------------------------- MODULE ChunkedStream ---------------------------
(***************************************************************************)
(* ExternalSource::fetch_in_chunks: one response made of upstream ranges   *)
(* of at most chunk_size bytes, fetched one after another as the client    *)
(* reads.  src/server/src/modules/external_source/service.rs.              *)
(*                                                                         *)
(* The site's file may change between two chunks; the site may serve less  *)
(* than it was asked for, ignore the range, refuse or fail.                *)
(***************************************************************************)
EXTENDS Integers, Sequences

CONSTANTS Sizes, ChunkSizes, MaxStart

\* A chunk is at least one byte.
ConstantsOK == Sizes \subseteq Nat /\ ChunkSizes \subseteq Nat \ {0} /\ MaxStart \in Nat

VARIABLES
  size,    \* the size of the site's file
  chunk,   \* chunk_size
  ask,     \* what the client asked for: [start, end, head]; end may be Open
  step,    \* first, reading, whole, ended, failed, refused
  last,    \* the last byte promised in the head
  next,    \* the first byte of the next chunk
  sent     \* the bytes the client has

vars == <<size, chunk, ask, step, last, next, sent>>

Open == -1
Least(a, b) == IF a < b THEN a ELSE b
Span(first, final) == [i \in 1..(final - first + 1) |-> first + i - 1]

\* The last byte of the first range: a probe of one byte for HEAD.
FirstLast ==
  LET final == IF ask.head THEN ask.start ELSE ask.start + chunk - 1
  IN IF ask.end = Open THEN final ELSE Least(ask.end, final)

\* The last byte of the response, as its Content-Length and Content-Range say.
Promised(total) == IF ask.end = Open THEN total - 1 ELSE Least(ask.end, total - 1)

NextLast == Least(next + chunk - 1, last)

\* A 206 that says which bytes it has.
FirstChunk ==
  /\ step = "first" /\ ask.start < size
  /\ \E served \in ask.start .. Least(FirstLast, size - 1) :
       /\ last' = Promised(size)
       /\ IF ask.head THEN step' = "ended" /\ UNCHANGED <<next, sent>>
          ELSE step' = "reading" /\ next' = served + 1 /\ sent' = Span(ask.start, served)
  /\ UNCHANGED <<size, chunk, ask>>

\* A server that ignored the range: passed on as it is.
FirstIgnored ==
  /\ step = "first" /\ step' = "whole" /\ sent' = Span(0, size - 1)
  /\ UNCHANGED <<size, chunk, ask, last, next>>

\* 416 is passed on, any other status and a failed request are errors.
FirstRefused == step = "first" /\ step' = "refused" /\ UNCHANGED <<size, chunk, ask, last, next, sent>>

\* A later chunk must be exactly the range that was asked for.
Accepted(first, final) == first = next /\ final = NextLast

\* The site serves what it has of the range, from its beginning or not.
LaterChunk ==
  /\ step = "reading" /\ next <= last
  /\ \E first \in 0..(size - 1) : \E final \in first..(size - 1) :
       /\ final <= NextLast
       /\ IF Accepted(first, final)
          THEN sent' = sent \o Span(first, final) /\ next' = NextLast + 1 /\ UNCHANGED step
          ELSE step' = "failed" /\ UNCHANGED <<sent, next>>
  /\ UNCHANGED <<size, chunk, ask, last>>

LaterFails == step = "reading" /\ next <= last /\ step' = "failed" /\ UNCHANGED <<size, chunk, ask, last, next, sent>>

\* unfold ends the body when the next chunk would begin past the last byte.
BodyEnds == step = "reading" /\ next > last /\ step' = "ended" /\ UNCHANGED <<size, chunk, ask, last, next, sent>>

FileChanges == step = "reading" /\ size' \in Sizes \ {size} /\ UNCHANGED <<chunk, ask, step, last, next, sent>>

Init ==
  /\ size \in Sizes /\ chunk \in ChunkSizes /\ step = "first" /\ last = 0 /\ next = 0 /\ sent = <<>>
  /\ ask \in [start : 0..MaxStart, end : 0..MaxStart \cup {Open}, head : BOOLEAN]
  /\ ask.end = Open \/ ask.end >= ask.start

Next == FirstChunk \/ FirstIgnored \/ FirstRefused \/ LaterChunk \/ LaterFails \/ BodyEnds \/ FileChanges

Spec == Init /\ [][Next]_vars

-----------------------------------------------------------------------------
\* TypeOK: the state of the module.
TypeOK ==
  /\ step \in {"first", "reading", "whole", "ended", "failed", "refused"}
  /\ size \in Sizes /\ chunk \in ChunkSizes /\ last \in Nat /\ next \in Nat
  /\ \A i \in 1..Len(sent) : sent[i] \in Nat

\* BodyIsWhatTheHeadSaid: whatever the client has read, also of a body that will
\* fail, is one run of bytes from the first asked for and not past the last promised,
\* and a body that ends without an error is complete, although the site answered in
\* pieces of its own choice and its file may have changed meanwhile.
BodyIsWhatTheHeadSaid ==
  /\ step \in {"reading", "failed"} => sent = Span(ask.start, ask.start + Len(sent) - 1) /\ ask.start + Len(sent) - 1 <= last
  /\ step = "ended" /\ ~ask.head => sent = Span(ask.start, last)
=============================================================================
