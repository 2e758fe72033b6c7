---------------------------- MODULE RadioStream ----------------------------
(***************************************************************************)
(* The radio proxy's ICY stream: IcyParser takes the metadata blocks out   *)
(* of the audio, whatever the chunks the network cuts the stream into, and *)
(* reports each title to the cache of what is now playing, which all the   *)
(* listeners of a Station share.  src/server/src/modules/radio/stream.rs.  *)
(*                                                                         *)
(* A Station sends MetaInt audio bytes, a length byte and that many times  *)
(* Unit bytes of metadata, over and over.  Blocks gives each length.       *)
(***************************************************************************)
EXTENDS Integers, Sequences, FiniteSetsExt, SequencesExt

CONSTANTS Listeners, MetaInt, Unit, Blocks, MaxChunk

VARIABLES
  received,  \* bytes of the broadcast each listener's upstream has sent
  pending,   \* bytes the parser holds back
  remaining, \* audio bytes before the next block
  feeding,   \* the parser is inside feed
  audio,     \* audio bytes passed on to the listener
  titles,    \* blocks reported by each listener's parser
  cache      \* NowPlayingCache: the last title set, and whether it has gone stale

vars == <<received, pending, remaining, feeding, audio, titles, cache>>

\* The broadcast, byte by byte: <<"audio", which>>, <<"length", units>>, <<"meta", block>>.
Block(k) ==
  [i \in 1..MetaInt |-> <<"audio", (k - 1) * MetaInt + i>>]
    \o <<<<"length", Blocks[k]>>>> \o [i \in 1..(Blocks[k] * Unit) |-> <<"meta", k>>]
Broadcast == FlattenSeq([k \in 1..Len(Blocks) |-> Block(k)])

Least(a, b) == IF a < b THEN a ELSE b
Drop(seq, n) == SubSeq(seq, n + 1, Len(seq))
NothingPlaying == [block |-> 0, stale |-> FALSE]

\* A chunk arrives and feed begins.
Chunk(l) ==
  /\ ~feeding[l]
  /\ \E n \in 1..MaxChunk :
       /\ received[l] + n <= Len(Broadcast)
       /\ pending' = [pending EXCEPT ![l] = @ \o SubSeq(Broadcast, received[l] + 1, received[l] + n)]
       /\ received' = [received EXCEPT ![l] = @ + n]
  /\ feeding' = [feeding EXCEPT ![l] = TRUE]
  /\ UNCHANGED <<remaining, audio, titles, cache>>

TakeAudio(l) ==
  /\ feeding[l] /\ remaining[l] > 0 /\ pending[l] # <<>>
  /\ LET take == Least(remaining[l], Len(pending[l])) IN
     /\ audio' = [audio EXCEPT ![l] = @ \o SubSeq(pending[l], 1, take)]
     /\ pending' = [pending EXCEPT ![l] = Drop(@, take)]
     /\ remaining' = [remaining EXCEPT ![l] = @ - take]
  /\ UNCHANGED <<received, feeding, titles, cache>>

\* The length a byte stands for; only a length byte may stand there.
LengthOf(byte) == IF byte[1] = "length" THEN byte[2] * Unit ELSE 0

\* A block is complete with its length byte and all of its metadata.
BlockLength(l) == 1 + LengthOf(Head(pending[l]))

BlockReady(l) == remaining[l] = 0 /\ pending[l] # <<>> /\ Len(pending[l]) >= BlockLength(l)

\* The audio that follows a block has the announced length.
NextRun == MetaInt

\* A whole block: one that is not empty is parsed and reported to the shared cache.
TakeBlock(l) ==
  /\ feeding[l] /\ BlockReady(l)
  /\ LET length == LengthOf(Head(pending[l])) IN
     /\ pending' = [pending EXCEPT ![l] = Drop(@, 1 + length)]
     /\ IF length = 0 THEN UNCHANGED <<titles, cache>>
        ELSE /\ titles' = [titles EXCEPT ![l] = Append(@, pending[l][2])]
             /\ cache' = [block |-> pending[l][2][2], stale |-> FALSE]
  /\ remaining' = [remaining EXCEPT ![l] = NextRun]
  /\ UNCHANGED <<received, feeding, audio>>

\* feed leaves the rest for the next chunk.
FeedEnds(l) ==
  /\ feeding[l] /\ ~BlockReady(l)
  /\ pending[l] = <<>> \/ remaining[l] = 0
  /\ feeding' = [feeding EXCEPT ![l] = FALSE]
  /\ UNCHANGED <<received, pending, remaining, audio, titles, cache>>

\* NOW_PLAYING_STALE_AFTER passes without a new title.
GoesStale ==
  /\ cache.block # 0 /\ ~cache.stale
  /\ cache' = [cache EXCEPT !.stale = TRUE]
  /\ UNCHANGED <<received, pending, remaining, feeding, audio, titles>>

\* A listener connects anew: another response, with a parser of its own.
Reconnect(l) ==
  /\ ~feeding[l] /\ received[l] = Len(Broadcast)
  /\ received' = [received EXCEPT ![l] = 0] /\ pending' = [pending EXCEPT ![l] = <<>>]
  /\ remaining' = [remaining EXCEPT ![l] = MetaInt]
  /\ audio' = [audio EXCEPT ![l] = <<>>] /\ titles' = [titles EXCEPT ![l] = <<>>]
  /\ UNCHANGED <<feeding, cache>>

Init ==
  /\ received = [l \in Listeners |-> 0] /\ pending = [l \in Listeners |-> <<>>]
  /\ remaining = [l \in Listeners |-> MetaInt] /\ feeding = [l \in Listeners |-> FALSE]
  /\ audio = [l \in Listeners |-> <<>>] /\ titles = [l \in Listeners |-> <<>>]
  /\ cache = NothingPlaying

Next ==
  \/ \E l \in Listeners : Chunk(l) \/ TakeAudio(l) \/ TakeBlock(l) \/ FeedEnds(l) \/ Reconnect(l)
  \/ GoesStale

Spec == Init /\ [][Next]_vars

-----------------------------------------------------------------------------
\* TypeOK: the state of the module.
TypeOK ==
  /\ received \in [Listeners -> 0..Len(Broadcast)]
  /\ remaining \in [Listeners -> 0..MetaInt] /\ feeding \in [Listeners -> BOOLEAN]
  /\ cache \in [block : 0..Len(Blocks), stale : BOOLEAN]
  /\ \A l \in Listeners : Len(pending[l]) <= received[l] /\ Len(audio[l]) <= received[l]

IsAudio(byte) == byte[1] = "audio"
Heard(l) == SubSeq(Broadcast, 1, received[l])

\* AudioIsAudio: however the broadcast is cut into chunks, also within a length byte's
\* block, the listener is sent audio bytes only, all of them and in order: outside of
\* feed nothing but an unfinished block is held back (IcyParser::feed).
AudioIsAudio ==
  \A l \in Listeners :
    /\ \A i \in 1..Len(audio[l]) : audio[l][i] = <<"audio", i>>
    /\ ~feeding[l] => audio[l] = SelectSeq(Heard(l), IsAudio)

\* EachBlockOnce: the titles a listener's stream reports are those of the blocks that
\* came whole, each once and in order.
EachBlockOnce ==
  \A l \in Listeners : ~feeding[l] =>
    \A k \in 1..Len(Blocks) :
      Quantify(1..Len(titles[l]), LAMBDA i : titles[l][i] = <<"meta", k>>)
        = IF Blocks[k] > 0 /\ Quantify(1..received[l], LAMBDA i : Broadcast[i] = <<"meta", k>>) = Blocks[k] * Unit
          THEN 1 ELSE 0
=============================================================================
