----------------------------- MODULE MediaFile -----------------------------
(***************************************************************************)
(* Media Inspection of WAV, MP3, FLAC and M4A files (server/src/inspect):  *)
(* the walk over chunks, tags, frames, blocks and atoms, each of which     *)
(* says itself how long it is.  The file is any file: what is read at an   *)
(* offset is any header the format can spell, and the walk must take the   *)
(* file to pieces that fit, or refuse it.  Lengths are in units of a few   *)
(* bytes; offsets are 64-bit numbers and wrap at Wrap.                     *)
(***************************************************************************)
EXTENDS Integers, Sequences, SequencesExt

CONSTANTS
  MaxFile,      \* bytes of a file
  Header,       \* bytes of a header: chunk, block, tag, tag frame, atom
  Info,         \* STREAM_INFO_SIZE_BYTES
  Descriptor,   \* APEV2_DESCRIPTOR_SIZE
  Trailer,      \* ID3V1_TAG_SIZE_BYTES
  BlockAlign,   \* bytes of one PCM frame
  MaxDepth,     \* nested atoms a walk follows
  Wrap          \* 2^64

VARIABLES
  format,       \* what the signature says
  size,         \* bytes of the file, hashed before anything else
  phase,        \* where the inspection is
  at,           \* offset of the next header
  limit,        \* where the walk of this phase ends
  parts,        \* the pieces found so far
  inner,        \* the frames and the padding of the ID3 tag
  open,         \* the atoms being walked, outermost first
  heard         \* bytes of audio decoded

vars == <<format, size, phase, at, limit, parts, inner, open, heard>>

Formats == {"wav", "mp3", "flac", "m4a"}

Part(kind, from, to) == [kind |-> kind, from |-> from, to |-> to]
Kinds == {parts[i].kind : i \in DOMAIN parts}
OfKind(k) == SelectSeq(parts, LAMBDA p : p.kind = k)
Bytes(ps) == FoldSeq(LAMBDA p, n : n + p.to - p.from, 0, ps)
Minus(a, b) == (a - b) % Wrap

Init ==
  /\ format \in Formats /\ size \in Header .. MaxFile
  /\ phase = "begin" /\ at = 0 /\ limit = size
  /\ parts = <<>> /\ inner = <<>> /\ open = <<>> /\ heard = 0

Reject == phase' = "rejected" /\ UNCHANGED <<at, limit, parts, inner, open, heard>>

----------------------------------------------------------------------------
(* The signature and what each format asks of the first bytes              *)

Begin ==
  /\ phase = "begin"
  /\ CASE format = "wav" ->
            \* the declared RIFF size is that of the file
            \E declared \in 0 .. MaxFile :
              IF declared + Header # size THEN Reject
              ELSE /\ phase' = "chunks" /\ at' = Header /\ parts' = <<Part("riff", 0, Header)>>
                   /\ UNCHANGED <<limit, inner, open, heard>>
       [] format = "mp3" ->
            \* read_frames of id3.rs: the header, then the payload it announces
            \E n \in 0 .. MaxFile :
              IF n = 0 \/ Header + n > size THEN Reject
              ELSE /\ phase' = "tag" /\ at' = Header /\ limit' = Header + n
                   /\ parts' = <<Part("id3", 0, Header + n)>>
                   /\ UNCHANGED <<inner, open, heard>>
       [] format = "flac" ->
            /\ phase' = "blocks" /\ at' = Header /\ parts' = <<Part("signature", 0, Header)>>
            /\ UNCHANGED <<limit, inner, open, heard>>
       [] format = "m4a" ->
            phase' = "atoms" /\ UNCHANGED <<at, limit, parts, inner, open, heard>>
  /\ UNCHANGED <<format, size>>

----------------------------------------------------------------------------
(* ID3                                                                     *)

\* Headers are even, so a chunk that ends at an odd offset is of an odd size and
\* followed by one byte of padding.
AfterChunk(end) == end + (end % 2)

TagEnds(ps) ==
  /\ inner' = ps
  /\ IF format = "mp3" THEN phase' = "ends" /\ UNCHANGED <<at, limit>>
     ELSE /\ phase' = IF AfterChunk(limit) >= size THEN "check" ELSE "chunks"
          /\ at' = AfterChunk(limit) /\ limit' = size
  /\ UNCHANGED <<parts, open, heard>>

\* parse_frames: a frame, or padding that is zero to its end.
ReadTagFrame ==
  /\ phase = "tag"
  /\ IF at >= limit THEN TagEnds(inner)
     ELSE \E name, rest \in {"zero", "other"}, n \in 0 .. MaxFile :
            IF limit - at < Header \/ name = "zero"
            THEN IF rest = "zero" THEN TagEnds(Append(inner, Part("padding", at, limit))) ELSE Reject
            ELSE IF n = 0 \/ n > limit - at - Header THEN Reject
            ELSE /\ inner' = Append(inner, Part("frame", at, at + Header + n)) /\ at' = at + Header + n
                 /\ UNCHANGED <<phase, limit, parts, open, heard>>
  /\ UNCHANGED <<format, size>>

----------------------------------------------------------------------------
(* WAV                                                                     *)

\* read_chunks: one fmt, data and ID3 chunk each, in any order.
ReadChunk ==
  /\ phase = "chunks"
  /\ IF size - at < Header THEN Reject
     ELSE \E id \in {"fmt", "data", "id3", "other"}, n \in 0 .. MaxFile, sound \in BOOLEAN :
            LET body == at + Header
                end == body + n
            IN  IF \/ end > size \/ (id = "fmt" /\ ~ sound) \/ id \in Kinds \ {"other"}
                   \/ n % 2 = 1 /\ end >= size
                   \/ id = "id3" /\ n < Header
                THEN Reject
                ELSE /\ parts' = parts \o <<Part(id, at, end)>>
                                \o IF end < AfterChunk(end) THEN <<Part("pad", end, AfterChunk(end))>> ELSE <<>>
                     /\ IF id = "id3" THEN phase' = "tag" /\ at' = body + Header /\ limit' = end
                        ELSE /\ phase' = IF AfterChunk(end) >= size THEN "check" ELSE "chunks"
                             /\ at' = AfterChunk(end) /\ UNCHANGED limit
                     /\ UNCHANGED <<inner, open, heard>>
  /\ UNCHANGED <<format, size>>

\* The data chunk is there, not empty and holds whole PCM frames.
DataBytes == OfKind("data")[1].to - OfKind("data")[1].from - Header
CheckChunks ==
  /\ phase = "check"
  /\ IF /\ {"fmt", "data", "id3"} \subseteq Kinds
        /\ DataBytes > 0 /\ DataBytes % BlockAlign = 0
     THEN phase' = "decode" /\ UNCHANGED <<at, limit, parts, inner, open, heard>>
     ELSE Reject
  /\ UNCHANGED <<format, size>>

----------------------------------------------------------------------------
(* MP3                                                                     *)

\* audio_end: a file that carries TAG so many bytes before its end.
AudioEnd(tagged) == IF size >= Trailer /\ tagged THEN size - Trailer ELSE size

\* apev2_audio_end: a footer, the items before it, perhaps a header before them.
ApeFits(start, n, footer) ==
  /\ footer.size >= Descriptor /\ footer.size <= Minus(n, start)
  /\ footer.items                              \* the items fill the tag exactly
  /\ footer.header => n - footer.size >= start + Descriptor

ApeBytes(footer) == footer.size + IF footer.header THEN Descriptor ELSE 0

FindEnds ==
  /\ phase = "ends"
  /\ LET start == parts[1].to IN
     \E tagged, ape, header, items \in BOOLEAN, n \in 0 .. MaxFile :
       LET end == AudioEnd(tagged)
           footer == [size |-> n, header |-> header, items |-> items]
           v1 == IF end < size THEN <<Part("id3v1", end, size)>> ELSE <<>>
           hasApe == ape /\ Minus(end, start) >= Descriptor
           stop == IF hasApe THEN end - ApeBytes(footer) ELSE end
       IN  IF (hasApe /\ ~ ApeFits(start, end, footer)) \/ start >= stop THEN Reject
           ELSE /\ parts' = parts \o (IF hasApe THEN <<Part("apev2", stop, end)>> ELSE <<>>) \o v1
                /\ at' = start /\ limit' = stop /\ phase' = "frames"
                /\ UNCHANGED <<inner, open, heard>>
  /\ UNCHANGED <<format, size>>

FrameFits(n) == n <= limit - at

\* inspect_frames: an MPEG frame of the rate and channels of the first.
ReadFrame ==
  /\ phase = "frames"
  /\ IF at >= limit THEN phase' = "decode" /\ UNCHANGED <<at, limit, parts, inner, open, heard>>
     ELSE \E n \in 1 .. MaxFile, same \in BOOLEAN :
            IF ~ FrameFits(n) \/ (~ same /\ "frame" \in Kinds) THEN Reject
            ELSE /\ parts' = Append(parts, Part("frame", at, at + n)) /\ at' = at + n
                 /\ UNCHANGED <<phase, limit, inner, open, heard>>
  /\ UNCHANGED <<format, size>>

----------------------------------------------------------------------------
(* FLAC                                                                    *)

\* parse: STREAMINFO first and once, then blocks until the one marked last.
ReadBlock ==
  /\ phase = "blocks"
  /\ \E kind \in {"info", "picture", "other", "invalid"}, n \in 0 .. MaxFile, last \in BOOLEAN :
       LET end == at + Header + n IN
       IF \/ size - at < Header \/ end > size \/ kind = "invalid"
          \/ (kind = "info") # (Len(parts) = 1)
          \/ kind = "info" /\ n < Info
       THEN Reject
       ELSE /\ parts' = Append(parts, Part(kind, at, end)) /\ at' = end
            /\ phase' = IF last THEN "decode" ELSE "blocks"
            /\ UNCHANGED <<limit, inner, open, heard>>
  /\ UNCHANGED <<format, size>>

\* build_audio: the encoded audio is what the metadata blocks leave.
MetadataBytes == Header + Header + Info + Bytes(SubSeq(parts, 3, Len(parts)))

----------------------------------------------------------------------------
(* M4A                                                                     *)

\* read_atom: the size in the header, one beyond it, or all that is left.
AtomSize(rest, code, n) ==
  LET head == IF code = "extended" THEN 2 * Header ELSE Header
      bytes == CASE code = "extended" -> n [] code = "rest" -> rest [] OTHER -> n
  IN  IF rest < head \/ bytes < head \/ bytes > rest THEN -1 ELSE bytes

End == IF open = <<>> THEN size ELSE Last(open).to

\* read_structured_credits and walk: atoms up to moov, then into the containers.
ReadAtom ==
  /\ phase = "atoms" /\ at < End
  /\ \E kind \in {"moov", "meta", "leaf"}, code \in {"plain", "extended", "rest"}, n \in 0 .. MaxFile :
       LET bytes == AtomSize(End - at, code, n)
           head == IF code = "extended" THEN 2 * Header ELSE Header
           child == at + head + IF kind = "meta" /\ open # <<>> THEN 1 ELSE 0
           enters == kind = "moov" \/ (kind = "meta" /\ open # <<>>)
       IN  IF bytes = -1 \/ (enters /\ (child > at + bytes \/ Len(open) = MaxDepth)) THEN Reject
           ELSE /\ IF enters THEN at' = child /\ open' = Append(open, Part(kind, child, at + bytes))
                   ELSE at' = at + bytes /\ UNCHANGED open
                /\ UNCHANGED <<phase, limit, parts, inner, heard>>
  /\ UNCHANGED <<format, size>>

\* The end of a container, of moov or of the file, in which case moov is missing.
CloseAtom ==
  /\ phase = "atoms" /\ at >= End
  /\ IF open = <<>> THEN Reject
     ELSE /\ open' = Front(open)
          /\ IF Len(open) = 1 THEN phase' = "accepted" ELSE UNCHANGED phase
          /\ UNCHANGED <<at, limit, parts, inner, heard>>
  /\ UNCHANGED <<format, size>>

----------------------------------------------------------------------------
(* Decoding                                                                *)

\* What the format holds to be the encoded audio, for the bitrate.
EncodedBytes == CASE format = "wav" -> DataBytes
                  [] format = "mp3" -> Bytes(OfKind("frame"))
                  [] OTHER -> size - MetadataBytes

\* The decoder takes the audio piece by piece or gives up; symphonia refuses a
\* STREAMINFO of another length (external).
Decode ==
  /\ phase = "decode"
  /\ \/ /\ heard < EncodedBytes /\ heard' = heard + 1
        /\ UNCHANGED <<phase, at, limit, parts, inner, open>>
     \/ Reject
     \/ /\ heard >= EncodedBytes
        /\ IF EncodedBytes <= 0 \/ (format = "flac" /\ parts[2].to - parts[2].from # Header + Info)
           THEN Reject
           ELSE phase' = "accepted" /\ UNCHANGED <<at, limit, parts, inner, open, heard>>
  /\ UNCHANGED <<format, size>>

Next == Begin \/ ReadTagFrame \/ ReadChunk \/ CheckChunks \/ FindEnds \/ ReadFrame
          \/ ReadBlock \/ ReadAtom \/ CloseAtom \/ Decode

Spec == Init /\ [][Next]_vars

----------------------------------------------------------------------------
TypeOK ==
  /\ format \in Formats
  /\ phase \in {"begin", "tag", "chunks", "check", "ends", "frames", "blocks", "atoms",
                "decode", "accepted", "rejected"}
  /\ at \in 0 .. MaxFile + Header /\ limit \in 0 .. MaxFile /\ heard \in 0 .. MaxFile

\* Every byte from one offset to another belongs to exactly one piece.
Tiles(ps, from, to) ==
  \A b \in from .. to - 1 : \E i \in DOMAIN ps :
    /\ ps[i].from <= b /\ b < ps[i].to
    /\ \A j \in DOMAIN ps \ {i} : ~ (ps[j].from <= b /\ b < ps[j].to)
Inside(ps, from, to) == \A i \in DOMAIN ps : from <= ps[i].from /\ ps[i].to <= to

Audio == IF format = "flac" THEN <<Part("audio", at, size)>> ELSE <<>>

\* A file is accepted only when tags, chunks, blocks and audio frames fill it
\* without a gap and without reading a byte twice, an audio tag's frames fill
\* the tag, and the audio decoded, which gives duration and bitrate, is all of
\* the audio in it: no overlapping tag, missing padding or wrapped length slips
\* through as audio.
WholeFileIsAccountedFor ==
  phase = "accepted" /\ format # "m4a" =>
    /\ Tiles(parts \o Audio, 0, size) /\ Inside(parts, 0, size)
    /\ heard = IF format = "flac" THEN size - at ELSE EncodedBytes
    /\ format # "flac" => LET tag == OfKind("id3")[1] IN Inside(inner, tag.from, tag.to)

\* The atoms being walked lie inside each other and the walk inside the
\* innermost, whatever sizes they claim.
AtomsNest ==
  phase = "atoms" =>
    /\ at <= End
    /\ \A i \in DOMAIN open :
         open[i].to <= IF i = 1 THEN size ELSE open[i - 1].to
=============================================================================
