----------------------------- MODULE RoomState -----------------------------
(***************************************************************************)
(* The Room State of Listen Together and what each command does to it:     *)
(* src/server/src/modules/listen_together/room_state.rs.  Everything here  *)
(* is a pure function of a snapshot, a command and the server's time.      *)
(*                                                                         *)
(* max_guests, expires_at and invite_url never change while a Room is open *)
(* and are left out of the snapshot.  Positions in the Room Queue count    *)
(* from 0, as in the code; NoIndex stands for None.                        *)
(***************************************************************************)
EXTENDS Integers, Sequences

CONSTANTS
  Tracks,          \* the Track ids of the library
  MaxRoomQueue,    \* MAX_ROOM_QUEUE_TRACKS
  MaxMs            \* i64::MAX, where the playhead saturates

ASSUME RoomStateAssumption ==
  /\ MaxRoomQueue \in Nat \ {0}
  /\ MaxMs \in Nat

NoIndex == -1

\* A field a client may leave out of a skip.
Absent == "absent"

Ms == 0..MaxMs

RoomStates ==
  [revision : Nat, trackIds : Seq(Tracks), currentIndex : Nat \cup {NoIndex},
   playing : BOOLEAN, positionMs : Ms, positionAtMs : Ms,
   lyricsOpen : BOOLEAN, guestCount : Nat]

-----------------------------------------------------------------------------
(* Commands *)

PlayTracks(ids, index) ==
  [type |-> "playTracks", trackIds |-> ids, index |-> index]
Resume == [type |-> "resume"]
Pause == [type |-> "pause"]
Seek(ms) == [type |-> "seek", positionMs |-> ms]
SkipFrom(direction, id, from) ==
  [type |-> "skip", direction |-> direction,
   fromTrackId |-> id, fromIndex |-> from]
SetLyricsOpen(open) == [type |-> "setLyricsOpen", open |-> open]

\* What the JSON of a request can decode to.
IsCommand(c) ==
  \/ /\ c.type = "playTracks"
     /\ c = PlayTracks(c.trackIds, c.index)
     /\ c.trackIds \in Seq(Tracks)
     /\ c.index \in Nat
  \/ c \in {Resume, Pause}
  \/ /\ c.type = "seek"
     /\ c = Seek(c.positionMs)
     /\ c.positionMs \in Int
     /\ c.positionMs <= MaxMs
  \/ /\ c.type = "skip"
     /\ c = SkipFrom(c.direction, c.fromTrackId, c.fromIndex)
     /\ c.direction \in {"next", "previous"}
     /\ c.fromTrackId \in Tracks \cup {Absent}
     /\ c.fromIndex \in Nat \cup {NoIndex}
  \/ /\ c.type = "setLyricsOpen"
     /\ c = SetLyricsOpen(c.open)
     /\ c.open \in BOOLEAN

\* What can be refused without looking at the Room or the library.
Validate(c) ==
  /\ c.type = "playTracks" => /\ c.trackIds # << >>
                              /\ Len(c.trackIds) <= MaxRoomQueue
                              /\ c.index < Len(c.trackIds)
  /\ c.type = "seek" => c.positionMs >= 0

-----------------------------------------------------------------------------
(* The snapshot *)

NewRoomState(now) ==
  [revision |-> 1, trackIds |-> << >>, currentIndex |-> NoIndex,
   playing |-> FALSE, positionMs |-> 0, positionAtMs |-> now,
   lyricsOpen |-> FALSE, guestCount |-> 0]

HasCurrent(s) == s.currentIndex # NoIndex

SaturatingAdd(a, b) == IF a + b > MaxMs THEN MaxMs ELSE a + b

\* max(0): the server's clock may have been set back since positionAtMs.
Elapsed(s, now) == IF now > s.positionAtMs THEN now - s.positionAtMs ELSE 0

Playhead(s, now) ==
  IF s.playing THEN SaturatingAdd(s.positionMs, Elapsed(s, now))
               ELSE s.positionMs

SetPosition(s, ms, now) ==
  [s EXCEPT !.positionMs = ms, !.positionAtMs = now]

StartTrack(s, index, now) ==
  SetPosition([s EXCEPT !.currentIndex = index], 0, now)

IsFromCurrentByTrackOnly(s, c) ==  \* mutant: the place is not compared
  c.fromTrackId # Absent => s.trackIds[s.currentIndex + 1] = c.fromTrackId

\* track_ids[current_index] does not panic, and a Room that plays has a Track.
CurrentInQueue(s) ==
  /\ HasCurrent(s) => s.currentIndex < Len(s.trackIds)
  /\ s.playing => HasCurrent(s)

\* Whether a skip names the Track and the place that are current.
IsFromCurrent(s, c) ==
  /\ c.fromTrackId # Absent => s.trackIds[s.currentIndex + 1] = c.fromTrackId
  /\ c.fromIndex # NoIndex => s.currentIndex = c.fromIndex

HasNext(s) == s.currentIndex + 1 < Len(s.trackIds)

\* Whether the command finds anything to change: the guards of `apply` and
\* `skip`.
Changes(s, c) ==
  CASE c.type = "playTracks" -> TRUE
    [] c.type = "resume" -> HasCurrent(s) /\ ~s.playing
    [] c.type = "pause" -> s.playing
    [] c.type = "seek" -> HasCurrent(s)
    [] c.type = "skip" ->
         /\ HasCurrent(s)
         /\ IsFromCurrent(s, c)
         /\ \/ c.direction = "previous"
            \/ HasNext(s)
            \/ s.playing \/ s.positionMs # 0
    [] c.type = "setLyricsOpen" -> s.lyricsOpen # c.open

\* Where a skip that counts leaves the Room.  Past the end the last Track
\* stays current, stopped at its start.
Skip(s, direction, now) ==
  CASE direction = "previous" ->
         StartTrack(s, IF s.currentIndex > 0 THEN s.currentIndex - 1 ELSE 0, now)
    [] direction = "next" /\ HasNext(s) -> StartTrack(s, s.currentIndex + 1, now)
    [] OTHER -> SetPosition([s EXCEPT !.playing = FALSE], 0, now)

QueueKeepingIndex(s, c, now) ==  \* mutant: a new Queue keeps the old index
  IF HasCurrent(s)
  THEN SetPosition([s EXCEPT !.trackIds = c.trackIds, !.playing = TRUE], 0, now)
  ELSE StartTrack([s EXCEPT !.trackIds = c.trackIds, !.playing = TRUE], c.index, now)

NewQueue(s, c, now) ==
  StartTrack([s EXCEPT !.trackIds = c.trackIds, !.playing = TRUE], c.index, now)

ResumedKeepingClock(s, now) == [s EXCEPT !.playing = TRUE]  \* mutant

\* The clock restarts here, so paused time does not count.
Resumed(s, now) == [s EXCEPT !.positionAtMs = now, !.playing = TRUE]

Paused(s, now) == [SetPosition(s, Playhead(s, now), now) EXCEPT !.playing = FALSE]

\* What a command that changes something does to the snapshot.
Effect(s, c, now) ==
  CASE c.type = "playTracks" -> NewQueue(s, c, now)
    [] c.type = "resume" -> Resumed(s, now)
    [] c.type = "pause" -> Paused(s, now)
    [] c.type = "seek" -> SetPosition(s, c.positionMs, now)
    [] c.type = "skip" -> Skip(s, c.direction, now)
    [] c.type = "setLyricsOpen" -> [s EXCEPT !.lyricsOpen = c.open]

RaiseRevision(s) == [s EXCEPT !.revision = @ + 1]

ApplySameRevision(s, c, now) ==  \* mutant: the revision is not raised
  IF Changes(s, c) THEN Effect(s, c, now) ELSE s

Apply(s, c, now) ==
  IF Changes(s, c) THEN RaiseRevision(Effect(s, c, now)) ELSE s

SetGuestCount(s, n) == RaiseRevision([s EXCEPT !.guestCount = n])
=============================================================================
