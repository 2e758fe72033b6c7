-------------------------- MODULE RoomStateProofs --------------------------
(***************************************************************************)
(* What the operators of RoomState preserve, for every snapshot, command   *)
(* and time.  The proofs about RoomPlayback and ListenTogether rest on it. *)
(***************************************************************************)
EXTENDS RoomState, TLAPS

LEMMA ZeroInMs == 0 \in Ms
BY RoomStateAssumption DEF Ms

LEMMA StartTrackType ==
  ASSUME NEW s \in RoomStates, NEW i \in Nat, NEW now \in Ms
  PROVE  LET e == StartTrack(s, i, now)
         IN  /\ e \in RoomStates /\ e.revision = s.revision /\ e.guestCount = s.guestCount
             /\ e.currentIndex = i /\ e.trackIds = s.trackIds
<1>1. StartTrack(s, i, now) =
        [s EXCEPT !.currentIndex = i, !.positionMs = 0, !.positionAtMs = now]
  BY DEF StartTrack, SetPosition
<1> QED BY <1>1, ZeroInMs DEF RoomStates

(* The commands that take effect keep a snapshot well formed and its        *)
(* current index inside its queue (RoomState::apply and RoomState::skip).   *)
LEMMA EffectType ==
  ASSUME NEW s \in RoomStates, NEW c, NEW now \in Ms,
         CurrentInQueue(s), IsCommand(c), Validate(c), Changes(s, c)
  PROVE  /\ Effect(s, c, now) \in RoomStates
         /\ CurrentInQueue(Effect(s, c, now))
         /\ Effect(s, c, now).revision = s.revision
         /\ Effect(s, c, now).guestCount = s.guestCount
<1> USE ZeroInMs DEF RoomStates
<1>1. CASE c.type = "playTracks"
  <2>1. /\ c.trackIds \in Seq(Tracks)
        /\ c.index \in Nat
        /\ c.index < Len(c.trackIds)
    BY <1>1 DEF IsCommand, Validate, PlayTracks, Resume, Pause, Seek, SkipFrom,
                SetLyricsOpen
  <2>2. Effect(s, c, now) =
          [s EXCEPT !.trackIds = c.trackIds, !.playing = TRUE,
                    !.currentIndex = c.index, !.positionMs = 0, !.positionAtMs = now]
    BY <1>1 DEF Effect, NewQueue, StartTrack, SetPosition
  <2> DEFINE e == Effect(s, c, now)
  <2>3. e \in RoomStates
    BY <2>1, <2>2
  <2>4. /\ e.trackIds = c.trackIds /\ e.currentIndex = c.index
        /\ e.revision = s.revision /\ e.guestCount = s.guestCount
    BY <2>2
  <2> QED BY <2>1, <2>3, <2>4 DEF CurrentInQueue, HasCurrent, NoIndex
<1>2. CASE c.type = "resume"
  BY <1>2 DEF Effect, Resumed, Changes, CurrentInQueue, HasCurrent
<1>3. CASE c.type = "pause"
  <2>1. Playhead(s, now) \in Ms
    BY RoomStateAssumption DEF Playhead, SaturatingAdd, Elapsed, Ms
  <2>2. Effect(s, c, now) =
          [s EXCEPT !.playing = FALSE, !.positionMs = Playhead(s, now),
                    !.positionAtMs = now]
    BY <1>3 DEF Effect, Paused, SetPosition
  <2> QED BY <2>1, <2>2 DEF CurrentInQueue, HasCurrent
<1>4. CASE c.type = "seek"
  <2>1. c.positionMs \in Ms
    BY <1>4, RoomStateAssumption DEF Ms, IsCommand, Validate, PlayTracks, Resume, Pause, Seek, SkipFrom,
                SetLyricsOpen
  <2> QED BY <1>4, <2>1 DEF Effect, SetPosition, CurrentInQueue, HasCurrent
<1>5. CASE c.type = "skip"
  <2>1. Effect(s, c, now) = Skip(s, c.direction, now)
    BY <1>5 DEF Effect
  <2>2. HasCurrent(s)
    BY <1>5 DEF Changes
  <2>3. /\ s.currentIndex \in Nat /\ s.currentIndex < Len(s.trackIds)
        /\ Len(s.trackIds) \in Nat
    BY <2>2 DEF CurrentInQueue, HasCurrent
  <2>4. CASE HasNext(s) \/ c.direction = "previous"
    <3>1. ASSUME NEW i \in Nat, i < Len(s.trackIds)
          PROVE  LET e == StartTrack(s, i, now)
                 IN  /\ e \in RoomStates /\ CurrentInQueue(e)
                     /\ e.revision = s.revision /\ e.guestCount = s.guestCount
      <4> DEFINE e == StartTrack(s, i, now)
      <4>1. /\ e \in RoomStates /\ e.revision = s.revision /\ e.guestCount = s.guestCount
            /\ e.currentIndex = i /\ e.trackIds = s.trackIds
        BY StartTrackType
      <4> QED BY <3>1, <4>1 DEF CurrentInQueue, HasCurrent, NoIndex
    <3>2. CASE c.direction = "previous"
      <4> DEFINE i == IF s.currentIndex > 0 THEN s.currentIndex - 1 ELSE 0
      <4>1. i \in Nat /\ i < Len(s.trackIds)
        BY <2>3
      <4>2. Effect(s, c, now) = StartTrack(s, i, now)
        BY <2>1, <3>2 DEF Skip
      <4> HIDE DEF i
      <4> QED BY <3>1, <4>1, <4>2
    <3>3. CASE c.direction # "previous"
      <4>1. s.currentIndex + 1 \in Nat /\ s.currentIndex + 1 < Len(s.trackIds)
        BY <2>3, <2>4, <3>3 DEF HasNext
      <4>2. c.direction = "next"
        BY <1>5, <3>3 DEF IsCommand, PlayTracks, Resume, Pause, Seek, SkipFrom,
                          SetLyricsOpen
      <4>3. Effect(s, c, now) = StartTrack(s, s.currentIndex + 1, now)
        BY <2>1, <2>4, <4>2 DEF Skip
      <4> QED BY <3>1, <4>1, <4>3
    <3> QED BY <3>2, <3>3
  <2>5. CASE ~(HasNext(s) \/ c.direction = "previous")
    <3>1. Skip(s, c.direction, now) = [s EXCEPT !.playing = FALSE, !.positionMs = 0,
                                                !.positionAtMs = now]
      BY <2>5 DEF Skip, SetPosition
    <3> DEFINE e == [s EXCEPT !.playing = FALSE, !.positionMs = 0, !.positionAtMs = now]
    <3>2. /\ e \in RoomStates /\ e.trackIds = s.trackIds /\ e.currentIndex = s.currentIndex
          /\ e.revision = s.revision /\ e.guestCount = s.guestCount /\ ~e.playing
      OBVIOUS
    <3>3. Effect(s, c, now) = e
      BY <2>1, <3>1
    <3> HIDE DEF e
    <3> QED BY <3>2, <3>3 DEF CurrentInQueue, HasCurrent
  <2> QED BY <2>4, <2>5
<1>6. CASE c.type = "setLyricsOpen"
  <2>1. c.open \in BOOLEAN
    BY <1>6 DEF IsCommand, PlayTracks, Resume, Pause, Seek, SkipFrom, SetLyricsOpen
  <2> QED BY <1>6, <2>1 DEF Effect, CurrentInQueue, HasCurrent
<1>7. c.type \in {"playTracks", "resume", "pause", "seek", "skip", "setLyricsOpen"}
  BY DEF IsCommand, PlayTracks, Resume, Pause, Seek, SkipFrom, SetLyricsOpen
<1> QED BY <1>1, <1>2, <1>3, <1>4, <1>5, <1>6, <1>7

(* A command leaves a well-formed snapshot either as it was or with the next *)
(* revision.                                                                 *)
LEMMA ApplyType ==
  ASSUME NEW s \in RoomStates, NEW c, NEW now \in Ms,
         CurrentInQueue(s), IsCommand(c), Validate(c)
  PROVE  /\ Apply(s, c, now) \in RoomStates
         /\ CurrentInQueue(Apply(s, c, now))
         /\ Apply(s, c, now) # s => Apply(s, c, now).revision = s.revision + 1
         /\ Apply(s, c, now).guestCount = s.guestCount
<1>1. CASE Changes(s, c)
  <2> DEFINE e == Effect(s, c, now)
  <2>1. /\ e \in RoomStates /\ CurrentInQueue(e)
                     /\ e.revision = s.revision /\ e.guestCount = s.guestCount
    BY <1>1, EffectType
  <2>2. Apply(s, c, now) = [e EXCEPT !.revision = @ + 1]
    BY <1>1 DEF Apply, RaiseRevision
  <2> HIDE DEF e
  <2> QED BY <2>1, <2>2 DEF RoomStates, CurrentInQueue, HasCurrent
<1>2. CASE ~Changes(s, c)
  BY <1>2 DEF Apply
<1> QED BY <1>1, <1>2

LEMMA ApplyRaisesRevision ==
  ASSUME NEW s \in RoomStates, NEW c, NEW now \in Ms,
         CurrentInQueue(s), IsCommand(c), Validate(c), Changes(s, c)
  PROVE  Apply(s, c, now).revision = s.revision + 1
<1>1. Effect(s, c, now) \in RoomStates /\ Effect(s, c, now).revision = s.revision
  BY EffectType
<1> QED BY <1>1 DEF Apply, RaiseRevision, RoomStates

LEMMA NewRoomStateType ==
  ASSUME NEW now \in Ms
  PROVE  /\ NewRoomState(now) \in RoomStates
         /\ CurrentInQueue(NewRoomState(now))
         /\ NewRoomState(now).guestCount = 0
<1>1. NewRoomState(now) \in RoomStates
  BY ZeroInMs DEF NewRoomState, RoomStates
<1> QED BY <1>1 DEF NewRoomState, CurrentInQueue, HasCurrent

LEMMA SetGuestCountType ==
  ASSUME NEW s \in RoomStates, CurrentInQueue(s), NEW n \in Nat
  PROVE  /\ SetGuestCount(s, n) \in RoomStates
         /\ CurrentInQueue(SetGuestCount(s, n))
         /\ SetGuestCount(s, n).guestCount = n
         /\ SetGuestCount(s, n).revision = s.revision + 1
<1> DEFINE t == [s EXCEPT !.guestCount = n]
<1>1. /\ t \in RoomStates
      /\ t.guestCount = n /\ t.revision = s.revision
      /\ t.trackIds = s.trackIds /\ t.currentIndex = s.currentIndex
      /\ t.playing = s.playing
  BY DEF RoomStates
<1>2. SetGuestCount(s, n) = [t EXCEPT !.revision = @ + 1]
  BY DEF SetGuestCount, RaiseRevision
<1> HIDE DEF t
<1>3. CurrentInQueue(t)
  BY <1>1 DEF CurrentInQueue, HasCurrent
<1> QED BY <1>1, <1>2, <1>3 DEF RoomStates, CurrentInQueue, HasCurrent
=============================================================================
