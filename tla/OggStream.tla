----------------------------- MODULE OggStream -----------------------------
(***************************************************************************)
(* Media Inspection of an Ogg file (server/src/inspect/ogg.rs).  An        *)
(* encoder laces packets into segments, cuts them into pages and writes    *)
(* the samples reached into each page; the file is then whole or was       *)
(* damaged on its way.  The inspection walks the pages once to judge their *)
(* continuity, collects the packets and counts the samples they decode to. *)
(* A segment holds at most MaxSegment bytes (255 in the format); a page's  *)
(* checksum is taken to hold, so damage is to whole pages.                 *)
(***************************************************************************)
EXTENDS Integers, Sequences, SequencesExt, FiniteSets

CONSTANTS
  MaxSegment,   \* bytes of a full segment
  Headers,      \* header packets of the codec
  MaxAudio,     \* audio packets of a stream
  MaxBytes,     \* bytes of a packet
  MaxSamples    \* samples a packet decodes to

VARIABLES
  codec,        \* "vorbis" or "opus"
  stream,       \* what the encoder wrote: packets, samples, trims
  damage,       \* what happened to the file since
  pages,        \* the file
  scan,         \* analyze
  decode,       \* decode_vorbis, decode_opus
  phase

vars == <<codec, stream, damage, pages, scan, decode, phase>>

Sum(s) == FoldSeq(+, 0, s)

----------------------------------------------------------------------------
(* The encoder                                                             *)

\* A packet's segments: full ones, then one that is not full, maybe empty.
Lacing(p, bytes) ==
  [i \in 1 .. bytes \div MaxSegment + 1 |->
     [of |-> p, size |-> IF i <= bytes \div MaxSegment THEN MaxSegment ELSE bytes % MaxSegment]]

Segments(sizes) == FlattenSeq([p \in 1 .. Len(sizes) |-> Lacing(p, sizes[p])])

\* The samples reached once packet p is complete.  The first audio packet of
\* Vorbis only primes the decoder; trims shorten the first and the last page.
Reached(c, x, p) ==
  LET heard == [q \in 1 .. p |-> IF q <= Headers \/ (c = "vorbis" /\ q = Headers + 1) THEN 0
                                 ELSE x.samples[q - Headers]]
      last == p = Len(x.sizes)
  IN  IF p <= Headers THEN 0
      ELSE Sum(heard) - (IF c = "vorbis" THEN x.start ELSE 0) - (IF last THEN x.end ELSE 0)

Page(c, x, segs, first, last) ==
  LET part == SubSeq(segs, first, last)
      done == {i \in 1 .. Len(part) : part[i].size < MaxSegment}
  IN  [bos |-> first = 1, eos |-> last = Len(segs),
       cont |-> first > 1 /\ segs[first - 1].size = MaxSegment,
       serial |-> 1, segments |-> part,
       granule |-> IF done = {} THEN -1
                   ELSE Reached(c, x, part[CHOOSE i \in done : \A j \in done : j <= i].of)]

Paged(c, x) ==
  LET segs == Segments(x.sizes)
      cuts == SetToSortSeq(x.cuts \cup {Len(segs)}, <)
  IN  [n \in 1 .. Len(cuts) |->
         Page(c, x, segs, IF n = 1 THEN 1 ELSE cuts[n - 1] + 1, cuts[n])
           @@ [sequence |-> n - 1]]

Foreign(page) == [page EXCEPT !.serial = 2]

\* A page is lost, doubled, exchanged with the next or comes from elsewhere, or
\* the file ends early or goes on with another stream.
Damaged(ps, d) ==
  CASE d.kind = "lost"      -> RemoveAt(ps, d.at)
    [] d.kind = "doubled"   -> InsertAt(ps, d.at, ps[d.at])
    [] d.kind = "swapped"   -> [ps EXCEPT ![d.at] = ps[d.at + 1], ![d.at + 1] = ps[d.at]]
    [] d.kind = "foreign"   -> [ps EXCEPT ![d.at] = Foreign(ps[d.at])]
    [] d.kind = "truncated" -> SubSeq(ps, 1, d.at - 1)
    [] d.kind = "chained"   -> ps \o [n \in 1 .. Len(ps) |-> Foreign(ps[n])]
    [] OTHER -> ps

Damages(n) ==
  {[kind |-> "none", at |-> 0], [kind |-> "chained", at |-> 0]}
  \cup [kind : {"lost", "doubled", "truncated"}, at : 1 .. n]
  \cup [kind : {"foreign"}, at : 2 .. n]
  \cup [kind : {"swapped"}, at : 1 .. n - 1]

\* Trims cannot exceed what is heard, and an identification packet fits its page.
Encodable(c, x) ==
  /\ Reached(c, x, Len(x.sizes)) > 0
  /\ x.cuts \subseteq 1 .. Len(Segments(x.sizes)) - 1
  /\ \A p \in Headers + 1 .. Len(x.sizes) : Reached(c, x, p) >= 0
  /\ \A m \in x.cuts : m >= Len(Lacing(1, x.sizes[1]))

Streams(c) ==
  {x \in UNION {[sizes : [1 .. Headers + a -> 1 .. MaxBytes],
                 samples : [1 .. a -> 1 .. MaxSamples],
                 start : 0 .. 1, end : 0 .. 1,
                 cuts : SUBSET (1 .. (Headers + a) * (MaxBytes \div MaxSegment + 1) - 1)]
                : a \in 1 .. MaxAudio} : Encodable(c, x)}

----------------------------------------------------------------------------
(* analyze                                                                 *)

Scanning == [at |-> 1, hasPage |-> FALSE, hasEos |-> FALSE, serial |-> 0,
             expected |-> 0, partial |-> 0, packets |-> 0, bytes |-> 0, granule |-> 0]
Decoding == [at |-> Headers + 1, bytes |-> 0, position |-> 0, samples |-> 0, started |-> FALSE]

Init ==
  /\ codec \in {"vorbis", "opus"}
  /\ stream \in Streams(codec)
  /\ damage \in Damages(Len(Paged(codec, stream)))
  /\ pages = Damaged(Paged(codec, stream), damage)
  /\ scan = Scanning /\ decode = Decoding
  /\ phase = "analyzing"

ContinuesAnyway(page) ==
  /\ ~ scan.hasEos
  /\ IF ~ scan.hasPage THEN page.bos /\ page.sequence = 0
     ELSE page.serial = scan.serial /\ ~ page.bos
  /\ page.cont = (scan.partial > 0)

\* validate_continuity
Continues(page) ==
  /\ ~ scan.hasEos
  /\ IF ~ scan.hasPage THEN page.bos /\ page.sequence = 0
     ELSE page.serial = scan.serial /\ page.sequence = scan.expected /\ ~ page.bos
  /\ page.cont = (scan.partial > 0)

\* The segments of one page: a packet ends with a segment that is not full.
Counted(s, segment) ==
  IF segment.size = MaxSegment THEN [s EXCEPT !.partial = @ + segment.size]
  ELSE [s EXCEPT !.partial = 0, !.packets = @ + 1,
                 !.bytes = IF s.packets >= Headers THEN @ + s.partial + segment.size ELSE @]

ReadPage ==
  /\ phase = "analyzing" /\ scan.at <= Len(pages)
  /\ LET page == pages[scan.at]
         read == FoldLeft(Counted, scan, page.segments)
     IN  IF Continues(page)
         THEN /\ scan' = [read EXCEPT !.at = @ + 1, !.hasPage = TRUE,
                            !.serial = IF scan.hasPage THEN @ ELSE page.serial,
                            !.expected = page.sequence + 1,
                            !.hasEos = page.eos,
                            !.granule = IF page.eos THEN page.granule ELSE @]
              /\ UNCHANGED phase
         ELSE phase' = "rejected" /\ UNCHANGED scan
  /\ UNCHANGED <<codec, stream, damage, pages, decode>>

Whole == /\ scan.hasPage /\ scan.hasEos /\ scan.partial = 0
         /\ scan.packets > Headers /\ scan.bytes > 0

Analyzed ==
  /\ phase = "analyzing" /\ scan.at > Len(pages)
  /\ phase' = IF Whole THEN "decoding" ELSE "rejected"
  /\ UNCHANGED <<codec, stream, damage, pages, scan, decode>>

\* ctx.is_cancelled, looked at before every page and every packet.
Cancel ==
  /\ phase \in {"analyzing", "decoding"} /\ phase' = "cancelled"
  /\ UNCHANGED <<codec, stream, damage, pages, scan, decode>>

----------------------------------------------------------------------------
(* packets and decode                                                      *)

Laid == FlattenSeq([n \in 1 .. Len(pages) |->
          LET ss == pages[n].segments
          IN  [i \in 1 .. Len(ss) |->
                 [of |-> ss[i].of, size |-> ss[i].size, granule |-> pages[n].granule,
                  last |-> \A j \in i + 1 .. Len(ss) : ss[j].size = MaxSegment,
                  eos |-> pages[n].eos]]])

\* The packets, each with the page it completes on.
Packets ==
  LET ends == SelectSeq([i \in 1 .. Len(Laid) |-> i], LAMBDA i : Laid[i].size < MaxSegment)
  IN  [p \in 1 .. Len(ends) |->
         LET first == IF p = 1 THEN 1 ELSE ends[p - 1] + 1
         IN  [parts |-> [i \in 1 .. ends[p] - first + 1 |->
                           [of |-> Laid[first + i - 1].of, size |-> Laid[first + i - 1].size]],
              granule |-> Laid[ends[p]].granule, lastOnPage |-> Laid[ends[p]].last,
              isLast |-> Laid[ends[p]].last /\ Laid[ends[p]].eos]]

\* What a packet decodes to is the codec's business.
Frames(p) == LET q == p.parts[1].of - Headers
             IN  IF q < 1 THEN 0 ELSE stream.samples[q]

\* decode_vorbis: the first audio packet primes; the end is trimmed to the last
\* granule position, the start to that of the page the first heard packet ends.
Heard(p) ==
  LET decoded == IF decode.at = Headers + 1 THEN 0 ELSE Frames(p)
      reached == decode.position + decoded
      ended == IF p.isLast /\ reached > p.granule THEN decoded - (reached - p.granule) ELSE decoded
      at == IF p.isLast THEN p.granule ELSE reached
      starts == ~ decode.started /\ p.lastOnPage
  IN  IF ~ decode.started /\ decoded = 0 THEN [frames |-> 0, position |-> reached]
      ELSE [frames |-> IF starts /\ p.granule < at THEN ended + p.granule - at ELSE ended,
            position |-> IF starts THEN p.granule ELSE at]

DecodeVorbis ==
  /\ phase = "decoding" /\ codec = "vorbis" /\ decode.at <= Len(Packets)
  /\ LET p == Packets[decode.at]
         h == Heard(p)
     IN  IF h.frames < 0 THEN phase' = "rejected" /\ UNCHANGED decode
         ELSE /\ decode' = [decode EXCEPT !.at = @ + 1, !.position = h.position,
                            !.samples = @ + h.frames,
                            !.started = @ \/ (decode.at > Headers + 1 /\ Frames(p) > 0)]
              /\ UNCHANGED phase
  /\ UNCHANGED <<codec, stream, damage, pages, scan>>

DecodeOpus ==
  /\ phase = "decoding" /\ codec = "opus" /\ decode.at <= Len(Packets)
  /\ LET p == Packets[decode.at]
     IN  decode' = [decode EXCEPT !.at = @ + 1, !.samples = @ + Frames(p),
                      !.bytes = @ + Sum([i \in DOMAIN p.parts |-> p.parts[i].size]),
                      !.position = p.granule]
  /\ UNCHANGED <<codec, stream, damage, pages, scan, phase>>

\* The counts must agree with the granule position of the last page.
Agrees ==
  IF codec = "vorbis" THEN scan.granule > 0 /\ decode.samples = scan.granule
  ELSE /\ decode.bytes = scan.bytes /\ decode.position = scan.granule
       /\ scan.granule > stream.start /\ scan.granule <= decode.samples

Playable == IF codec = "vorbis" THEN decode.samples ELSE scan.granule - stream.start

Decoded ==
  /\ phase = "decoding" /\ decode.at > Len(Packets)
  /\ phase' = IF Agrees THEN "accepted" ELSE "rejected"
  /\ UNCHANGED <<codec, stream, damage, pages, scan, decode>>

Next == ReadPage \/ Analyzed \/ DecodeVorbis \/ DecodeOpus \/ Decoded \/ Cancel

Spec == Init /\ [][Next]_vars

----------------------------------------------------------------------------
TypeOK ==
  /\ phase \in {"analyzing", "decoding", "accepted", "rejected", "cancelled"}
  /\ scan.at \in 1 .. Len(pages) + 1 /\ scan.bytes \in Nat /\ scan.partial \in Nat
  /\ decode.samples \in Nat

Written == [p \in 1 .. Len(stream.sizes) |-> Lacing(p, stream.sizes[p])]

\* A file is accepted only when it holds the stream as it was written, packet by
\* packet and to its end, and the length it is given is what the encoder meant
\* to be played: no lost, doubled, exchanged, foreign or missing page is heard
\* as audio ("guarantees that the complete audio stream decoded to its end").
AcceptedIsWhole ==
  phase = "accepted" =>
    /\ [p \in 1 .. Len(Packets) |-> Packets[p].parts] = Written
    /\ scan.bytes = Sum(SubSeq(stream.sizes, Headers + 1, Len(stream.sizes)))
    /\ Playable = Reached(codec, stream, Len(stream.sizes))
                    - (IF codec = "opus" THEN stream.start ELSE 0)

\* The start trim of a Vorbis stream is applied only when the first heard packet
\* ends its page.
StartIsTrimmed ==
  stream.start = 0 \/ (Len(Packets) > Headers + 1 /\ Packets[Headers + 2].lastOnPage)

\* A whole file is accepted however its packets were laced and cut into pages,
\* unless nothing is left after Opus's pre-skip or a Vorbis start trim is spread
\* over a page of several packets.
IntactIsAccepted ==
  damage.kind = "none" /\ phase = "rejected" =>
    \/ codec = "opus" /\ scan.granule <= stream.start
    \/ codec = "vorbis" /\ ~ StartIsTrimmed
=============================================================================
