------------------------- MODULE RoomPlaybackProofs -------------------------
(***************************************************************************)
(* What RoomPlayback guarantees for every set of Tracks, every queue and   *)
(* every sequence of commands and clock settings.  And what the clients of *)
(* a Room guarantee, an Owner's and a Guest's, for any number of Rooms,    *)
(* requests and lost connections.                                          *)
(***************************************************************************)
EXTENDS RoomPlayback, RoomStateProofs

CONSTANTS MaxRooms, MaxClientRevision, MaxFlights, MaxDrops, MaxInbox

VARIABLES
  part,     \* the part that runs, where a Room and its clients run side by side
  server, session, shown, newest, stream, flights, driver, counts

Client(Role) == INSTANCE RoomClient WITH MaxRevision <- MaxClientRevision, player <- driver

ASSUME ClientAssumption ==
  MaxRooms \in Nat \ {0} /\ MaxClientRevision \in Nat \ {0} /\ MaxInbox \in Nat \ {0}

clientVars == <<server, session, shown, newest, stream, flights, driver, counts>>

Roles == {"owner", "guest"}

\* A client shows a Room, listens to it and drives its Player for it, all or none, and
\* never goes back to an older snapshot of it (ListenTogetherProvider.tsx, room-
\* events.ts).
ClientFollowsTheRoom ==
  /\ [](part = "owner" => Client("owner")!TypeOK /\ Client("owner")!PlayerFollowsTheRoom)
  /\ [][part = "owner" => Client("owner")!NeverBack]_clientVars
  /\ [](part = "guest" => Client("guest")!TypeOK /\ Client("guest")!PlayerFollowsTheRoom)
  /\ [][part = "guest" => Client("guest")!NeverBack]_clientVars

LEMMA TargetType ==
  ASSUME NEW s \in RoomStates, CurrentInQueue(s), NEW p \in Nat
  PROVE  Target(s, p) \in Targets
<1>1. HasCurrent(s) => s.trackIds[s.currentIndex + 1] \in Tracks
  BY DEF CurrentInQueue, HasCurrent, RoomStates, NoIndex
<1> QED BY <1>1 DEF Target, Targets, RoomStates

IInv == TypeOK /\ CurrentIsInQueue

LEMMA InitIInv == Init => IInv
<1> SUFFICES ASSUME Init PROVE IInv
  OBVIOUS
<1> DEFINE empty == NewRoomState(clock)
<1>1. clock \in Ms
  BY DEF Init
<1>2. state \in RoomStates /\ CurrentInQueue(state)
  <2>1. state = RaiseRevision(
                  StartTrack([empty EXCEPT !.trackIds = FirstQueue, !.playing = TRUE],
                             0, clock))
    BY DEF Init, Apply, Changes, Effect, NewQueue, PlayTracks
  <2>2. FirstQueue \in Seq(Tracks) /\ Len(FirstQueue) > 0
    BY RoomPlaybackAssumption
  <2>3. empty \in RoomStates
    BY <1>1, NewRoomStateType
  <2> HIDE DEF empty
  <2> DEFINE first == [empty EXCEPT !.trackIds = FirstQueue, !.playing = TRUE]
  <2>4. first \in RoomStates /\ first.trackIds = FirstQueue
    BY <2>2, <2>3 DEF RoomStates
  <2> HIDE DEF first
  <2>5. LET e == StartTrack(first, 0, clock)
        IN  e \in RoomStates /\ e.currentIndex = 0 /\ e.trackIds = FirstQueue
    BY <1>1, <2>4, StartTrackType
  <2>6. state \in RoomStates /\ state.currentIndex = 0 /\ state.trackIds = FirstQueue
    BY <2>1, <2>5 DEF RaiseRevision, RoomStates, first
  <2> QED BY <2>2, <2>6 DEF CurrentInQueue, HasCurrent, NoIndex
<1>3. NoReport \in Reports
  BY DEF NoReport, Reports
<1> QED BY <1>1, <1>2, <1>3, TargetType DEF Init, IInv, TypeOK, CurrentIsInQueue

(* ApplyNow, for any decodable command. *)
LEMMA ApplyNowIInv ==
  ASSUME IInv, NEW c, IsCommand(c), Validate(c), ApplyNow(c)
  PROVE  /\ state' \in RoomStates
         /\ CurrentInQueue(state')
         /\ plays' \in Nat
         /\ state' # state => state'.revision = state.revision + 1
BY ApplyType DEF IInv, TypeOK, CurrentIsInQueue, ApplyNow, NextPlay

(* A report is a command the server accepts for validation. *)
LEMMA ReportIsCommand ==
  ASSUME NEW r \in Reports
  PROVE  IsCommand(EndOfTrack(r)) /\ Validate(EndOfTrack(r))
BY DEF Reports, EndOfTrack, IsCommand, Validate, SkipFrom

LEMMA NextIInv == IInv /\ [Next]_vars => IInv' /\ (state' # state => state'.revision = state.revision + 1)
<1> SUFFICES ASSUME IInv, [Next]_vars
             PROVE  IInv' /\ (state' # state => state'.revision = state.revision + 1)
  OBVIOUS
<1> USE DEF IInv, TypeOK, CurrentIsInQueue
<1>1. ASSUME NEW c \in UserCommands, Command(c)
      PROVE  IInv' /\ (state' # state => state'.revision = state.revision + 1)
  BY <1>1, ApplyNowIInv, RoomPlaybackAssumption DEF Command
<1>2. CASE ClockMoves
  BY <1>2 DEF ClockMoves
<1>3. ASSUME NEW c \in Clients, Adopt(c)
      PROVE  IInv' /\ state' = state
  BY <1>3, TargetType DEF Adopt
<1>4. ASSUME NEW c \in Clients, TrackEnds(c)
      PROVE  IInv' /\ state' = state
  BY <1>4 DEF TrackEnds, Targets, Reports
<1>5. ASSUME NEW c \in Clients, ReportArrives(c)
      PROVE  IInv' /\ (state' # state => state'.revision = state.revision + 1)
  <2>1. NoReport \in Reports
    BY DEF NoReport, Reports
  <2> QED BY <1>5, <2>1, ApplyNowIInv, ReportIsCommand DEF ReportArrives
<1>6. CASE UNCHANGED vars
  BY <1>6 DEF vars
<1> QED BY <1>1, <1>2, <1>3, <1>4, <1>5, <1>6 DEF Next

(* Every snapshot the Room passes through is well formed: the playhead a     *)
(* pause stores is a non-negative i64 however the wall clock was set.        *)
THEOREM RoomTypeCorrect == Spec => []TypeOK
BY InitIInv, NextIInv, PTL DEF Spec, IInv

(* The current index of a Room always points into its queue.                 *)
THEOREM RoomCurrentInQueue == Spec => []CurrentIsInQueue
BY InitIInv, NextIInv, PTL DEF Spec, IInv

(* Both together: what a client is sent can be followed (room_state.rs,      *)
(* apply), for every library, limit and set of members.                      *)
THEOREM RoomSnapshotSound == Spec => []SnapshotIsSound
BY RoomTypeCorrect, RoomCurrentInQueue, PTL DEF SnapshotIsSound

(* Snapshots are ordered by their revision.                                  *)
THEOREM RoomRevisionsOrder == Spec => RevisionOrdersSnapshots
<1>1. IInv /\ [Next]_vars => [state' # state => state'.revision = state.revision + 1]_state
  BY NextIInv
<1> QED BY <1>1, InitIInv, NextIInv, PTL DEF Spec, RevisionOrdersSnapshots
-----------------------------------------------------------------------------
(* The playhead *)

\* What pausing, resuming and opening the lyrics leave of the playhead.
LEMMA EffectKeepsPlayhead ==
  ASSUME NEW s \in RoomStates, NEW c, NEW now \in Ms,
         c.type \in {"pause", "resume", "setLyricsOpen"}, Changes(s, c)
  PROVE  Playhead(Effect(s, c, now), now) = Playhead(s, now)
<1>1. CASE c.type = "pause"
  <2> DEFINE e == Effect(s, c, now)
  <2>1. e = [s EXCEPT !.playing = FALSE, !.positionMs = Playhead(s, now),
                      !.positionAtMs = now]
    BY <1>1 DEF Effect, Paused, SetPosition
  <2>2. ~e.playing /\ e.positionMs = Playhead(s, now)
    BY <2>1 DEF RoomStates
  <2> HIDE DEF e
  <2> QED BY <2>2 DEF Playhead, e
<1>2. CASE c.type = "resume"
  <2> DEFINE e == Effect(s, c, now)
  <2>1. ~s.playing
    BY <1>2 DEF Changes
  <2>2. e = [s EXCEPT !.positionAtMs = now, !.playing = TRUE]
    BY <1>2 DEF Effect, Resumed
  <2>3. e.playing /\ e.positionAtMs = now /\ e.positionMs = s.positionMs
    BY <2>2 DEF RoomStates
  <2>4. s.positionMs \in Ms
    BY DEF RoomStates
  <2> HIDE DEF e
  <2> QED BY <2>1, <2>3, <2>4, RoomStateAssumption DEF Playhead, SaturatingAdd, Elapsed, Ms, e
<1>3. CASE c.type = "setLyricsOpen"
  <2> DEFINE e == Effect(s, c, now)
  <2>1. e = [s EXCEPT !.lyricsOpen = c.open]
    BY <1>3 DEF Effect
  <2>2. /\ e.playing = s.playing /\ e.positionMs = s.positionMs
        /\ e.positionAtMs = s.positionAtMs
    BY <2>1 DEF RoomStates
  <2> HIDE DEF e
  <2> QED BY <2>2 DEF Playhead, Elapsed, e
<1> QED BY <1>1, <1>2, <1>3

LEMMA ApplyKeepsPlayhead ==
  ASSUME NEW s \in RoomStates, NEW c, NEW now \in Ms, CurrentInQueue(s), IsCommand(c),
         Validate(c), c.type \in {"pause", "resume", "setLyricsOpen"}
  PROVE  Playhead(Apply(s, c, now), now) = Playhead(s, now)
<1>1. CASE Changes(s, c)
  <2> DEFINE e == Effect(s, c, now)
  <2>1. e \in RoomStates /\ Playhead(e, now) = Playhead(s, now)
    BY <1>1, EffectType, EffectKeepsPlayhead
  <2>2. Apply(s, c, now) = [e EXCEPT !.revision = @ + 1]
    BY <1>1 DEF Apply, RaiseRevision
  <2> HIDE DEF e
  <2>3. /\ Apply(s, c, now).playing = e.playing
        /\ Apply(s, c, now).positionMs = e.positionMs
        /\ Apply(s, c, now).positionAtMs = e.positionAtMs
    BY <2>1, <2>2 DEF RoomStates
  <2> QED BY <2>1, <2>3 DEF Playhead, Elapsed
<1>2. CASE ~Changes(s, c)
  BY <1>2 DEF Apply
<1> QED BY <1>1, <1>2

(* Pausing, resuming and opening the lyrics leave the playhead where it is,  *)
(* also where it has saturated and however the wall clock was set in between *)
(* (room_state.rs, apply and playhead).                                      *)
THEOREM RoomPlayheadContinuity == Spec => PlayheadContinuity
<1>1. IInv /\ [Next]_vars =>
        [\A c \in UserCommands :
           c.type \in {"pause", "resume", "setLyricsOpen"} /\ Command(c)
           => Playhead(state', clock) = Playhead(state, clock)]_vars
  BY ApplyKeepsPlayhead, RoomPlaybackAssumption
     DEF Command, ApplyNow, IInv, TypeOK, CurrentIsInQueue
<1> QED BY <1>1, InitIInv, NextIInv, PTL DEF Spec, PlayheadContinuity

-----------------------------------------------------------------------------
(* The end of a Track *)

\* What a command does to the Room's place in its Queue.  Only a new Queue and
\* a skip change it, each of which begins another play; short of starting a
\* Track again, it goes forwards and the Room does not begin to play.
LEMMA EffectOnPlace ==
  ASSUME NEW s \in RoomStates, NEW c, NEW now \in Ms,
         CurrentInQueue(s), IsCommand(c), Validate(c), Changes(s, c)
  PROVE  LET e == Effect(s, c, now)
         IN  /\ c.type \notin {"playTracks", "skip"} => e.currentIndex = s.currentIndex
             /\ ~StartsAgain(c) =>
                  /\ e.trackIds = s.trackIds
                  /\ e.playing => s.playing
                  /\ \/ e.currentIndex = s.currentIndex
                     \/ e.currentIndex = s.currentIndex + 1 /\ HasNext(s)
             /\ c.type = "skip" /\ c.direction = "next" =>
                  IF HasNext(s) THEN e.currentIndex = s.currentIndex + 1
                  ELSE e.currentIndex = s.currentIndex /\ ~e.playing
<1> USE DEF RoomStates
<1>1. CASE c.type = "playTracks"
  BY <1>1 DEF StartsAgain
<1>2. CASE c.type = "resume"
  BY <1>2 DEF Effect, Resumed, StartsAgain
<1>3. CASE c.type = "pause"
  <2>1. Effect(s, c, now) =
          [s EXCEPT !.playing = FALSE, !.positionMs = Playhead(s, now),
                    !.positionAtMs = now]
    BY <1>3 DEF Effect, Paused, SetPosition
  <2> QED BY <1>3, <2>1
<1>4. CASE c.type = "seek"
  BY <1>4 DEF Effect, SetPosition
<1>5. CASE c.type = "setLyricsOpen"
  BY <1>5 DEF Effect
<1>6. CASE c.type = "skip" /\ c.direction = "previous"
  BY <1>6 DEF StartsAgain
<1>7. CASE c.type = "skip" /\ c.direction = "next"
  <2>1. Effect(s, c, now) = Skip(s, "next", now)
    BY <1>7 DEF Effect
  <2>2. CASE HasNext(s)
    <3>1. Effect(s, c, now) = StartTrack(s, s.currentIndex + 1, now)
      BY <2>1, <2>2 DEF Skip
    <3>2. Effect(s, c, now) = [s EXCEPT !.currentIndex = s.currentIndex + 1,
                                        !.positionMs = 0, !.positionAtMs = now]
      BY <3>1 DEF StartTrack, SetPosition
    <3> QED BY <1>7, <2>2, <3>2
  <2>3. CASE ~HasNext(s)
    <3>1. Effect(s, c, now) = [s EXCEPT !.playing = FALSE, !.positionMs = 0,
                                        !.positionAtMs = now]
      BY <2>1, <2>3 DEF Skip, SetPosition
    <3> QED BY <1>7, <2>3, <3>1
  <2> QED BY <2>2, <2>3
<1>8. \/ c.type \in {"playTracks", "resume", "pause", "seek", "setLyricsOpen"}
      \/ c.type = "skip" /\ c.direction \in {"next", "previous"}
  BY DEF IsCommand, PlayTracks, Resume, Pause, Seek, SkipFrom, SetLyricsOpen
<1> QED BY <1>1, <1>2, <1>3, <1>4, <1>5, <1>6, <1>7, <1>8
\* The plays that clients follow or report the end of, each with its place.
Points ==
  {<<view[c].index, view[c].play>> : c \in Clients}
  \cup {<<report[c].index, report[c].play>> : c \in {d \in Clients : report[d] # NoReport}}

\* A report of the end at place i cannot move the Room any more.
IsPast(i) ==
  \/ i < state.currentIndex
  \/ i <= state.currentIndex /\ ~HasNext(state) /\ ~state.playing

\* One play has one place; and once its end has counted, the Room is past that
\* place until a Track is started again.
EndsInv ==
  /\ restarted <= plays
  /\ \A c \in Clients : report[c] # NoReport => report[c].index # NoIndex
  /\ \A x \in Points : x[2] <= plays /\ (x[2] = plays => x[1] = state.currentIndex)
  /\ \A x, y \in Points : x[2] = y[2] => x[1] = y[1]
  /\ \A p \in counted :
       /\ p \in Nat /\ p < plays
       /\ p >= restarted => \A x \in Points : x[2] = p => IsPast(x[1])

EInv == IInv /\ EndsInv

LEMMA PointsType ==
  ASSUME TypeOK
  PROVE  \A x \in Points : x[1] \in Int /\ x[2] \in Nat
BY DEF TypeOK, Points, Targets, Reports, NoIndex

LEMMA StateNumbers ==
  ASSUME IInv
  PROVE  /\ state.currentIndex \in Int /\ Len(state.trackIds) \in Nat
         /\ plays \in Nat /\ restarted \in Nat
BY DEF IInv, TypeOK, RoomStates, NoIndex

LEMMA InitEInv == Init => EInv
<1> SUFFICES ASSUME Init PROVE EInv
  OBVIOUS
<1>1. \A x \in Points : x = <<state.currentIndex, plays>>
  BY DEF Init, Points, Target
<1>2. plays = 1 /\ restarted = 0 /\ counted = {} /\ \A c \in Clients : report[c] = NoReport
  BY DEF Init
<1> QED BY <1>1, <1>2, InitIInv DEF EInv, EndsInv

\* ApplyNow on the Room's place.
LEMMA ApplyNowOnPlace ==
  ASSUME IInv, NEW c, IsCommand(c), Validate(c), ApplyNow(c)
  PROVE  /\ plays' \in {plays, plays + 1}
         /\ plays' = plays => state'.currentIndex = state.currentIndex
         /\ ~(Changes(state, c) /\ StartsAgain(c)) =>
              /\ state'.trackIds = state.trackIds
              /\ state'.playing => state.playing
              /\ \/ state'.currentIndex = state.currentIndex
                 \/ state'.currentIndex = state.currentIndex + 1 /\ HasNext(state)
         /\ c.type = "skip" /\ c.direction = "next" /\ Changes(state, c) =>
              /\ plays' = plays + 1
              /\ IF HasNext(state) THEN state'.currentIndex = state.currentIndex + 1
                 ELSE state'.currentIndex = state.currentIndex /\ ~state'.playing
<1>1. state \in RoomStates /\ CurrentInQueue(state) /\ clock \in Ms /\ plays \in Nat
  BY DEF IInv, TypeOK, CurrentIsInQueue
<1>2. CASE Changes(state, c)
  <2> DEFINE e == Effect(state, c, clock)
  <2>1. e \in RoomStates
    BY <1>1, <1>2, EffectType
  <2>2. /\ state' = [e EXCEPT !.revision = @ + 1]
        /\ plays' = IF c.type \in {"playTracks", "skip"} THEN plays + 1 ELSE plays
    BY <1>2 DEF ApplyNow, Apply, RaiseRevision, NextPlay
  <2>3. /\ c.type \notin {"playTracks", "skip"} => e.currentIndex = state.currentIndex
        /\ ~StartsAgain(c) =>
             /\ e.trackIds = state.trackIds
             /\ e.playing => state.playing
             /\ \/ e.currentIndex = state.currentIndex
                \/ e.currentIndex = state.currentIndex + 1 /\ HasNext(state)
        /\ c.type = "skip" /\ c.direction = "next" =>
             IF HasNext(state) THEN e.currentIndex = state.currentIndex + 1
             ELSE e.currentIndex = state.currentIndex /\ ~e.playing
    BY <1>1, <1>2, EffectOnPlace
  <2> HIDE DEF e
  <2>4. /\ state'.currentIndex = e.currentIndex /\ state'.trackIds = e.trackIds
        /\ state'.playing = e.playing
    BY <2>1, <2>2 DEF RoomStates
  <2> QED BY <1>1, <1>2, <2>2, <2>3, <2>4
<1>3. CASE ~Changes(state, c)
  BY <1>3 DEF ApplyNow, Apply, NextPlay
<1> QED BY <1>2, <1>3

\* The Room, once past a place, stays past it until a Track is started again.
LEMMA StaysPast ==
  ASSUME IInv, NEW c, IsCommand(c), Validate(c), ApplyNow(c),
         ~(Changes(state, c) /\ StartsAgain(c)), NEW i \in Int, IsPast(i)
  PROVE  IsPast(i)'
BY ApplyNowOnPlace, StateNumbers DEF IsPast, HasNext

\* A command leaves what is known about plays that ended before.
LEMMA ApplyNowEnds ==
  ASSUME EInv, NEW c, IsCommand(c), Validate(c), ApplyNow(c), Points' \subseteq Points,
         restarted' = IF Changes(state, c) /\ StartsAgain(c) THEN plays' ELSE restarted
  PROVE  /\ restarted' <= plays'
         /\ \A x \in Points' : /\ x[2] <= plays'
                               /\ x[2] = plays' => x[1] = state'.currentIndex
         /\ \A x, y \in Points' : x[2] = y[2] => x[1] = y[1]
         /\ \A p \in counted :
              /\ p \in Nat /\ p < plays'
              /\ p >= restarted' => \A x \in Points' : x[2] = p => IsPast(x[1])'
<1>1. IInv /\ EndsInv /\ plays \in Nat /\ restarted \in Nat /\ plays' \in {plays, plays + 1}
  BY ApplyNowOnPlace, StateNumbers DEF EInv
<1>2. \A x \in Points : x[1] \in Int /\ x[2] \in Nat
  BY <1>1, PointsType DEF IInv
<1>3. restarted' <= plays'
  BY <1>1 DEF EndsInv
<1>4. \A x \in Points' : x[2] <= plays' /\ (x[2] = plays' => x[1] = state'.currentIndex)
  BY <1>1, <1>2, ApplyNowOnPlace DEF EndsInv
<1>5. \A x, y \in Points' : x[2] = y[2] => x[1] = y[1]
  BY <1>1 DEF EndsInv
<1>6. ASSUME NEW p \in counted
      PROVE  /\ p \in Nat /\ p < plays'
             /\ p >= restarted' => \A x \in Points' : x[2] = p => IsPast(x[1])'
  <2>1. p \in Nat /\ p < plays /\ p < plays'
    BY <1>1, <1>6 DEF EndsInv
  <2>2. ASSUME p >= restarted', NEW x \in Points', x[2] = p
        PROVE  IsPast(x[1])'
    <3>1. ~(Changes(state, c) /\ StartsAgain(c)) /\ p >= restarted
      BY <1>1, <2>1, <2>2
    <3>2. IsPast(x[1]) /\ x[1] \in Int
      BY <1>1, <1>2, <1>6, <2>2, <3>1 DEF EndsInv
    <3>3. \A i \in Int : IsPast(i) => IsPast(i)'
      BY <1>1, <3>1, StaysPast
    <3> QED BY <3>2, <3>3 DEF IsPast
  <2> QED BY <2>1, <2>2
<1> QED BY <1>3, <1>4, <1>5, <1>6
\* A report that moves the Room was about its place, and leaves it past that place.
LEMMA ReportMoves ==
  ASSUME EInv, NEW c \in Clients, ReportArrives(c), Moved, NEW i, report[c].index = i
  PROVE  /\ i = state.currentIndex /\ plays' = plays + 1
         /\ ~IsPast(i) /\ IsPast(i)'
<1> DEFINE r == report[c]
           e == EndOfTrack(r)
<1>1. r \in Reports /\ r.index # NoIndex /\ ApplyNow(e)
  BY DEF EInv, IInv, TypeOK, EndsInv, ReportArrives
<1>2. IsCommand(e) /\ Validate(e)
  BY <1>1, ReportIsCommand
<1>3. e.type = "skip" /\ e.direction = "next" /\ e.fromIndex = i
  BY DEF EndOfTrack, SkipFrom
<1>4. ~StartsAgain(e)
  BY <1>3 DEF StartsAgain
<1> HIDE DEF e
<1>5. Changes(state, e)
  <2>1. state' # state
    BY DEF Moved
  <2> QED BY <1>1, <2>1 DEF ApplyNow, Apply
<1>6. i = state.currentIndex
  BY <1>1, <1>3, <1>5 DEF Changes, IsFromCurrent
<1>7. /\ plays' = plays + 1 /\ state'.trackIds = state.trackIds
      /\ IF HasNext(state) THEN state'.currentIndex = state.currentIndex + 1
         ELSE state'.currentIndex = state.currentIndex /\ ~state'.playing
  BY <1>1, <1>2, <1>3, <1>4, <1>5, ApplyNowOnPlace DEF EInv
<1>8. state.currentIndex \in Int /\ Len(state.trackIds) \in Nat
  BY StateNumbers DEF EInv
<1>9. IsPast(i)'
  BY <1>6, <1>7, <1>8 DEF IsPast, HasNext
<1>10. ~IsPast(i)
  BY <1>6, <1>7, <1>8 DEF IsPast, Moved
<1> QED BY <1>6, <1>7, <1>9, <1>10

LEMMA CommandEInv ==
  ASSUME EInv, NEW c \in UserCommands, Command(c)
  PROVE  EndsInv'
<1>1. Points' = Points /\ counted' = counted /\ report' = report
  BY DEF Command, Points
<1>2. IsCommand(c) /\ Validate(c) /\ ApplyNow(c)
  BY RoomPlaybackAssumption DEF Command
<1>3. restarted' = IF Changes(state, c) /\ StartsAgain(c) THEN plays' ELSE restarted
  BY DEF Command
<1> QED BY <1>1, <1>2, <1>3, ApplyNowEnds DEF EInv, EndsInv, IsPast

LEMMA ReportEInv ==
  ASSUME EInv, NEW c \in Clients, ReportArrives(c)
  PROVE  EndsInv'
<1> DEFINE r == report[c]
           e == EndOfTrack(r)
<1>1. r \in Reports /\ r # NoReport /\ ApplyNow(e) /\ report \in [Clients -> Reports]
  BY DEF EInv, IInv, TypeOK, ReportArrives
<1>2. IsCommand(e) /\ Validate(e) /\ ~StartsAgain(e)
  <2>1. e.type = "skip" /\ e.direction = "next"
    BY DEF EndOfTrack, SkipFrom
  <2> QED BY <1>1, <2>1, ReportIsCommand DEF StartsAgain
<1> HIDE DEF e
<1>3. /\ report'[c] = NoReport /\ view' = view /\ restarted' = restarted
      /\ \A d \in Clients : d # c => report'[d] = report[d]
  BY <1>1 DEF ReportArrives
<1>4. Points' \subseteq Points
  BY <1>3 DEF Points
<1>5. \A d \in Clients : report'[d] # NoReport => report'[d].index # NoIndex
  BY <1>3 DEF EInv, EndsInv
<1>6. /\ restarted' <= plays'
      /\ \A x \in Points' : /\ x[2] <= plays'
                            /\ x[2] = plays' => x[1] = state'.currentIndex
      /\ \A x, y \in Points' : x[2] = y[2] => x[1] = y[1]
      /\ \A p \in counted :
           /\ p \in Nat /\ p < plays'
           /\ p >= restarted' => \A x \in Points' : x[2] = p => IsPast(x[1])'
  BY <1>1, <1>2, <1>3, <1>4, ApplyNowEnds
<1>7. CASE ~Moved
  <2>1. counted' = counted
    BY <1>7 DEF ReportArrives
  <2> QED BY <1>5, <1>6, <2>1 DEF EndsInv, IsPast
<1>8. CASE Moved
  <2>1. counted' = counted \cup {r.play}
    BY <1>8 DEF ReportArrives
  <2>2. PICK i : r.index = i
    OBVIOUS
  <2>3. IsPast(i)' /\ plays' = plays + 1
    BY <1>8, <2>2, ReportMoves
  <2>4. <<i, r.play>> \in Points
    BY <1>1, <2>2 DEF Points
  <2>5. r.play \in Nat /\ r.play <= plays /\ plays \in Nat
    BY <1>1, <2>4, StateNumbers DEF EInv, EndsInv, Reports
  <2>6. \A x \in Points' : x[2] = r.play => x[1] = i
    BY <1>4, <2>4 DEF EInv, EndsInv
  <2>7. \A x \in Points' : x[2] = r.play => IsPast(x[1])'
    BY <2>3, <2>6 DEF IsPast
  <2> QED BY <1>5, <1>6, <2>1, <2>3, <2>5, <2>7 DEF EndsInv, IsPast
<1> QED BY <1>7, <1>8

LEMMA NextEInv == EInv /\ [Next]_vars => EInv'
<1> SUFFICES ASSUME EInv, [Next]_vars PROVE EInv'
  OBVIOUS
<1>1. IInv'
  BY NextIInv DEF EInv
<1>2. plays \in Nat /\ restarted \in Nat
  BY StateNumbers DEF EInv
<1>3. ASSUME UNCHANGED <<state, plays, counted, restarted, report>>,
             Points' \subseteq Points \cup {<<state.currentIndex, plays>>}
      PROVE  EndsInv'
  BY <1>2, <1>3 DEF EInv, EndsInv, IsPast
<1>4. CASE ClockMoves \/ UNCHANGED vars
  <2>1. Points' = Points
    BY <1>4 DEF ClockMoves, Points, vars
  <2>2. UNCHANGED <<state, plays, counted, restarted, report>>
    BY <1>4 DEF ClockMoves, vars
  <2>3. Points' \subseteq Points \cup {<<state.currentIndex, plays>>}
    BY <2>1
  <2> QED BY <1>1, <1>3, <2>2, <2>3 DEF EInv
<1>5. ASSUME NEW c \in Clients, Adopt(c)
      PROVE  EndsInv'
  <2>1. /\ view'[c].index = state.currentIndex /\ view'[c].play = plays
        /\ \A d \in Clients : d # c => view'[d] = view[d]
        /\ UNCHANGED <<state, plays, counted, restarted, report>>
    BY <1>5 DEF Adopt, Target, EInv, IInv, TypeOK
  <2>2. Points' \subseteq Points \cup {<<state.currentIndex, plays>>}
    BY <2>1 DEF Points
  <2> QED BY <1>3, <2>1, <2>2
<1>6. ASSUME NEW c \in Clients, TrackEnds(c)
      PROVE  EndsInv'
  <2>1. /\ report'[c].index = view[c].index /\ report'[c].play = view[c].play
        /\ view[c].index # NoIndex
        /\ \A d \in Clients : d # c => report'[d] = report[d]
        /\ UNCHANGED <<state, plays, counted, restarted, view>>
    BY <1>6 DEF TrackEnds, EInv, IInv, TypeOK
  <2>2. Points' \subseteq Points
    BY <2>1 DEF Points
  <2>3. \A d \in Clients : report'[d] # NoReport => report'[d].index # NoIndex
    BY <2>1 DEF EInv, EndsInv
  <2> QED BY <2>1, <2>2, <2>3 DEF EInv, EndsInv, IsPast
<1> QED BY <1>1, <1>4, <1>5, <1>6, CommandEInv, ReportEInv DEF EInv, Next

(* Only the first report of a Track's end moves the Room, for any number of   *)
(* clients and however late their reports arrive, also where the same Track   *)
(* follows (room_state.rs, skip): once the end of a play has counted, the     *)
(* Room is past its place until a member starts a Track again.                *)
THEOREM RoomEndCountsOnce == Spec => EndCountsOnce
<1>1. EInv /\ [Next]_vars =>
        [\A c \in Clients :
           ReportArrives(c) /\ Moved
           => report[c].play \notin counted \/ restarted > report[c].play]_vars
  <2> SUFFICES ASSUME EInv, NEW c \in Clients, ReportArrives(c), Moved,
                      report[c].play \in counted, ~(restarted > report[c].play)
               PROVE  FALSE
    OBVIOUS
  <2>1. ~IsPast(report[c].index)
    BY ReportMoves
  <2>2. <<report[c].index, report[c].play>> \in Points
    BY DEF ReportArrives, Points
  <2>3. report[c].play \in Nat /\ restarted \in Nat
    BY StateNumbers DEF EInv, EndsInv
  <2> QED BY <2>1, <2>2, <2>3 DEF EInv, EndsInv
<1> QED BY <1>1, InitEInv, NextEInv, PTL DEF Spec, EndCountsOnce

----------------------------------------------------------------------------
(***************************************************************************)
(* A client of a Room.  What is shown is what was adopted last, and nothing *)
(* that a stream or an answer carries is less than a snapshot.             *)
(***************************************************************************)

\* What a snapshot of a Room may be, and what a stream or an answer may carry.
Shots == [id : 1..MaxRooms, revision : 1..MaxClientRevision]
NoShot == [id |-> 0, revision |-> 0]
End == [id |-> -1, revision |-> 0]
Answers == [n : Int, kind : {"command", "open", "leave", "join", "fetch"}, session : 0..MaxRooms,
            answer : {"none", "room", "gone", "failed"}, room : Shots \cup {NoShot}]

ClientTypes ==
  /\ server \in [id : 0..MaxRooms, revision : 0..MaxClientRevision, open : BOOLEAN]
  /\ server.open => server.id > 0 /\ server.revision > 0
  /\ session \in 0..MaxRooms
  /\ shown \in Shots \cup {NoShot} /\ newest \in 0..MaxClientRevision
  /\ stream \in [stage : {"off", "connecting", "live", "down"}, inbox : Seq(Shots \cup {End}),
                 last : Shots \cup {End, NoShot}]
  /\ driver \in [follows : BOOLEAN, saved : BOOLEAN, left : {"untouched", "stopped", "paused"}]
  /\ counts \in [flights : Int, drops : Int]

\* An answer that brings a Room brings one; what is shown is the newest.
ClientInv ==
  /\ ClientTypes /\ Len(stream.inbox) <= MaxInbox
  /\ flights \subseteq Answers /\ \A a \in flights : a.answer = "room" => a.room # NoShot
  /\ driver.follows = (shown # NoShot) /\ driver.saved = driver.follows
  /\ (stream.stage # "off") = (shown # NoShot)
  /\ shown # NoShot => newest = shown.revision

LEMMA ClientKnown ==
  ASSUME NEW r \in Roles
  PROVE  /\ Client(r)!None = NoShot /\ Client(r)!Closed = End
         /\ Client(r)!NoStream = [stage |-> "off", inbox |-> <<>>, last |-> NoShot]
         /\ NoShot \notin Shots /\ End \notin Shots /\ End # NoShot
BY DEF Client!None, Client!Closed, Client!NoStream, NoShot, End, Shots

\* A snapshot of an open Room.
LEMMA ShotOfServer ==
  ASSUME NEW r \in Roles, ClientTypes, server.open
  PROVE  Client(r)!Snapshot \in Shots
BY ClientAssumption DEF ClientTypes, Client!Snapshot, Shots

Subscriptions == [stage : {"off", "connecting", "live", "down"}, inbox : Seq(Shots \cup {End}),
                  last : Shots \cup {End, NoShot}]

LEMMA Subscribed ==
  ASSUME NEW s \in {"off", "connecting", "live", "down"}, NEW r \in Roles
  PROVE  /\ [Client(r)!NoStream EXCEPT !.stage = s] \in Subscriptions
         /\ [Client(r)!NoStream EXCEPT !.stage = s].stage = s
         /\ Len([Client(r)!NoStream EXCEPT !.stage = s].inbox) <= MaxInbox
         /\ Client(r)!NoStream \in Subscriptions /\ Client(r)!NoStream.stage = "off" /\ Len(Client(r)!NoStream.inbox) <= MaxInbox
<1>1. <<>> \in Seq(Shots \cup {End}) /\ Len(<<>>) = 0
  OBVIOUS
<1>2. Client(r)!NoStream \in Subscriptions /\ Client(r)!NoStream.inbox = <<>> /\ Client(r)!NoStream.stage = "off"
  <2> DEFINE n == [stage |-> "off", inbox |-> <<>>, last |-> NoShot]
  <2>1. Client(r)!NoStream = n
    BY ClientKnown
  <2>2. n \in Subscriptions
    BY <1>1 DEF Subscriptions
  <2>3. n.inbox = <<>> /\ n.stage = "off"
    OBVIOUS
  <2> QED BY <2>1, <2>2, <2>3
<1> QED BY <1>1, <1>2, ClientAssumption DEF Subscriptions

\* The driver takes the Player over, and gives it back.
LEMMA Driven ==
  ASSUME NEW r \in Roles, ClientTypes
  PROVE  /\ Client(r)!Follows => /\ driver' \in [follows : BOOLEAN, saved : BOOLEAN, left : {"untouched", "stopped", "paused"}]
                                 /\ driver'.follows /\ driver'.saved
         /\ Client(r)!Finishes => /\ driver' \in [follows : BOOLEAN, saved : BOOLEAN, left : {"untouched", "stopped", "paused"}]
                                  /\ ~driver'.follows /\ ~driver'.saved
<1> DEFINE T == [follows : BOOLEAN, saved : BOOLEAN, left : {"untouched", "stopped", "paused"}]
<1>1. \A d \in T : [d EXCEPT !.follows = TRUE, !.saved = TRUE] \in T
  OBVIOUS
<1>2. \A d \in T : [d EXCEPT !.follows = TRUE, !.saved = TRUE].follows /\ [d EXCEPT !.follows = TRUE, !.saved = TRUE].saved
  OBVIOUS
<1>3. driver \in T
  BY DEF ClientTypes
<1>4. ASSUME Client(r)!Follows PROVE driver' \in T /\ driver'.follows /\ driver'.saved
  BY <1>1, <1>2, <1>3, <1>4 DEF Client!Follows
<1>5. ASSUME Client(r)!Finishes PROVE driver' \in T /\ ~driver'.follows /\ ~driver'.saved
  <2>1. \E l \in {"stopped", "paused"} : driver' = [follows |-> FALSE, saved |-> FALSE, left |-> l]
    BY <1>5 DEF Client!Finishes
  <2>2. \A l \in {"stopped", "paused"} : [follows |-> FALSE, saved |-> FALSE, left |-> l] \in T
    OBVIOUS
  <2> QED BY <2>1, <2>2
<1> QED BY <1>4, <1>5

\* adoptRoom and endRoom, with the effect on the subscription, keep the invariant.
LEMMA AdoptKeeps ==
  ASSUME NEW r \in Roles, ClientInv, NEW next \in Shots, NEW known \in {0, newest},
         NEW after \in Subscriptions, Len(after.inbox) <= MaxInbox, shown # NoShot => after.stage # "off",
         Client(r)!AdoptRoom(next, known), Client(r)!Resubscribes(after),
         UNCHANGED <<server, session, counts>>, flights' \subseteq flights
  PROVE  ClientInv'
<1>1. next.revision \in 0..MaxClientRevision /\ next # NoShot
  BY ClientKnown DEF Shots
<1>2. \/ UNCHANGED <<shown, newest, driver>> /\ known = newest
      \/ /\ shown' = next /\ newest' = next.revision
         /\ IF shown = NoShot THEN Client(r)!Follows ELSE UNCHANGED driver
  BY ClientKnown DEF Client!AdoptRoom
<1>3. stream' \in Subscriptions /\ Len(stream'.inbox) <= MaxInbox
      /\ (stream'.stage # "off") = (shown' # NoShot)
  <2>1. CASE shown' = NoShot
    <3>1. stream' = Client(r)!NoStream
      BY <2>1, ClientKnown DEF Client!Resubscribes
    <3> QED BY <2>1, <3>1, Subscribed
  <2>2. CASE shown' # NoShot /\ shown = NoShot
    BY <2>2, Subscribed, ClientKnown DEF Client!Resubscribes
  <2>3. CASE shown' # NoShot /\ shown # NoShot
    BY <2>3, ClientKnown DEF Client!Resubscribes
  <2> QED BY <2>1, <2>2, <2>3
<1>4. /\ shown' \in Shots \cup {NoShot} /\ newest' \in 0..MaxClientRevision
      /\ shown' # NoShot => newest' = shown'.revision
      /\ driver' \in [follows : BOOLEAN, saved : BOOLEAN, left : {"untouched", "stopped", "paused"}]
      /\ driver'.follows = (shown' # NoShot) /\ driver'.saved = driver'.follows
  BY <1>1, <1>2, Driven DEF ClientInv, ClientTypes
<1>5. flights' \subseteq Answers /\ \A a \in flights' : a.answer = "room" => a.room # NoShot
  BY DEF ClientInv
<1> QED BY <1>3, <1>4, <1>5 DEF ClientInv, ClientTypes, Subscriptions

LEMMA EndKeeps ==
  ASSUME NEW r \in Roles, ClientInv, NEW after \in Subscriptions,
         Client(r)!EndRoom, Client(r)!Resubscribes(after),
         UNCHANGED <<server, session, counts>>, flights' \subseteq flights
  PROVE  ClientInv'
<1>1. /\ shown' = NoShot /\ newest' \in 0..MaxClientRevision
      /\ driver' \in [follows : BOOLEAN, saved : BOOLEAN, left : {"untouched", "stopped", "paused"}]
      /\ ~driver'.follows /\ ~driver'.saved
  BY ClientKnown, Driven, ClientAssumption DEF Client!EndRoom, ClientInv, ClientTypes
<1>2. stream' = Client(r)!NoStream
  BY <1>1, ClientKnown DEF Client!Resubscribes
<1>3. stream' \in Subscriptions /\ Len(stream'.inbox) <= MaxInbox /\ stream'.stage = "off"
  BY <1>2, Subscribed
<1>4. flights' \subseteq Answers /\ \A a \in flights' : a.answer = "room" => a.room # NoShot
  BY DEF ClientInv
<1> QED BY <1>1, <1>3, <1>4 DEF ClientInv, ClientTypes, Subscriptions

\* What has no effect on the page.
LEMMA StreamKeeps ==
  ASSUME ClientInv, stream' \in Subscriptions, Len(stream'.inbox) <= MaxInbox,
         stream.stage # "off", stream'.stage # "off",
         UNCHANGED <<server, session, shown, newest, flights, driver>>, counts' \in [flights : Int, drops : Int]
  PROVE  ClientInv'
BY DEF ClientInv, ClientTypes, Subscriptions

LEMMA ServerKeeps ==
  ASSUME ClientInv, UNCHANGED <<shown, newest, stream, driver, counts>>,
         server' \in [id : 0..MaxRooms, revision : 0..MaxClientRevision, open : BOOLEAN],
         server'.open => server'.id > 0 /\ server'.revision > 0,
         session' \in 0..MaxRooms,
         flights' \subseteq Answers, \A a \in flights' : a.answer = "room" => a.room # NoShot
  PROVE  ClientInv'
BY DEF ClientInv, ClientTypes

LEMMA ClientInit ==
  ASSUME NEW r \in Roles, Client(r)!Init
  PROVE  ClientInv
<1>1. /\ server \in [id : 0..MaxRooms, revision : 0..MaxClientRevision, open : BOOLEAN]
      /\ server.open => server.id > 0 /\ server.revision > 0
  <2>1. \/ server = [id |-> 0, revision |-> 0, open |-> FALSE]
        \/ server = [id |-> 1, revision |-> 1, open |-> TRUE]
    BY DEF Client!Init
  <2>2. 0 \in 0..MaxRooms /\ 1 \in 0..MaxRooms /\ 0 \in 0..MaxClientRevision /\ 1 \in 0..MaxClientRevision
    BY ClientAssumption
  <2>3. /\ [id |-> 0, revision |-> 0, open |-> FALSE] \in [id : 0..MaxRooms, revision : 0..MaxClientRevision, open : BOOLEAN]
        /\ [id |-> 1, revision |-> 1, open |-> TRUE] \in [id : 0..MaxRooms, revision : 0..MaxClientRevision, open : BOOLEAN]
    BY <2>2
  <2>4. server.open => server.id > 0 /\ server.revision > 0
    BY <2>1
  <2> QED BY <2>1, <2>3, <2>4
<1>2. session \in 0..MaxRooms
  <2>1. server.id \in 0..MaxRooms /\ 0 \in 0..MaxRooms
    BY <1>1, ClientAssumption
  <2>2. session = server.id \/ session = 0
    BY DEF Client!Init
  <2> QED BY <2>1, <2>2
<1>3. stream \in Subscriptions /\ Len(stream.inbox) <= MaxInbox /\ stream.stage = "off"
  BY Subscribed DEF Client!Init
<1>4. /\ driver \in [follows : BOOLEAN, saved : BOOLEAN, left : {"untouched", "stopped", "paused"}]
      /\ driver.follows = FALSE /\ driver.saved = FALSE
  BY DEF Client!Init
<1>5. counts \in [flights : Int, drops : Int]
  BY DEF Client!Init
<1>6. shown = NoShot /\ newest \in 0..MaxClientRevision /\ flights = {}
  BY ClientKnown, ClientAssumption DEF Client!Init
<1> QED BY <1>1, <1>2, <1>3, <1>4, <1>5, <1>6 DEF ClientInv, ClientTypes, Subscriptions

LEMMA RoomStepKeeps ==
  ASSUME NEW r \in Roles, ClientInv,
         Client(r)!RoomChanges \/ Client(r)!RoomCloses \/ Client(r)!OtherOpens
  PROVE  ClientInv' /\ UNCHANGED shown
<1>1. ClientTypes /\ flights \subseteq Answers /\ \A a \in flights : a.answer = "room" => a.room # NoShot
  BY DEF ClientInv
<1>2. CASE Client(r)!RoomChanges
  <2>1. /\ server' \in [id : 0..MaxRooms, revision : 0..MaxClientRevision, open : BOOLEAN]
        /\ server'.open => server'.id > 0 /\ server'.revision > 0
    BY <1>1, <1>2, ClientAssumption DEF ClientTypes, Client!RoomChanges
  <2> QED BY <1>1, <1>2, <2>1, ServerKeeps DEF ClientTypes, Client!RoomChanges
<1>3. CASE Client(r)!RoomCloses
  <2>1. /\ server' \in [id : 0..MaxRooms, revision : 0..MaxClientRevision, open : BOOLEAN] /\ ~server'.open
        /\ session' \in 0..MaxRooms
    <3>1. /\ \A s \in [id : 0..MaxRooms, revision : 0..MaxClientRevision, open : BOOLEAN] :
               [s EXCEPT !.open = FALSE] \in [id : 0..MaxRooms, revision : 0..MaxClientRevision, open : BOOLEAN]
          /\ \A s \in [id : 0..MaxRooms, revision : 0..MaxClientRevision, open : BOOLEAN] :
               [s EXCEPT !.open = FALSE].open = FALSE
      OBVIOUS
    <3>2. 0 \in 0..MaxRooms
      BY ClientAssumption
    <3> QED BY <1>1, <1>3, <3>1, <3>2 DEF ClientTypes, Client!RoomCloses
  <2> QED BY <1>1, <1>3, <2>1, ServerKeeps DEF Client!RoomCloses
<1>4. CASE Client(r)!OtherOpens
  <2>1. /\ server' \in [id : 0..MaxRooms, revision : 0..MaxClientRevision, open : BOOLEAN]
        /\ server'.open => server'.id > 0 /\ server'.revision > 0
    BY <1>1, <1>4, ClientAssumption DEF ClientTypes, Client!OtherOpens
  <2> QED BY <1>1, <1>4, <2>1, ServerKeeps DEF ClientTypes, Client!OtherOpens
<1> QED BY <1>2, <1>3, <1>4 DEF Client!RoomChanges, Client!RoomCloses, Client!OtherOpens

\* The page never goes back: not by a snapshot, not by an end.
LEMMA AdoptGoesOn ==
  ASSUME NEW r \in Roles, ClientInv, NEW next \in Shots, Client(r)!AdoptRoom(next, newest)
  PROVE  shown'.revision >= shown.revision
<1>1. shown.revision \in Nat /\ next.revision \in Nat /\ newest \in Nat /\ (shown # NoShot => newest = shown.revision)
      /\ (shown = NoShot => shown.revision = 0)
  BY ClientAssumption DEF ClientInv, ClientTypes, Shots, NoShot
<1> QED BY <1>1 DEF Client!AdoptRoom, Client!IsStaleSnapshot

LEMMA EndGoesOn ==
  ASSUME NEW r \in Roles, ClientInv, Client(r)!EndRoom, shown'.id = shown.id
  PROVE  shown'.revision >= shown.revision
<1>1. shown \in Shots \cup {NoShot} /\ (shown \in Shots => shown.id # 0) /\ NoShot.id = 0 /\ NoShot.revision = 0
  BY DEF ClientInv, ClientTypes, Shots, NoShot
<1>2. shown' = NoShot
  BY ClientKnown DEF Client!EndRoom
<1> QED BY <1>1, <1>2

GoesOn(r) == shown'.id = shown.id /\ (\A a \in flights : a.kind # "join") => shown'.revision >= shown.revision

LEMMA UnseenGoesOn ==
  ASSUME NEW r \in Roles, ClientInv, UNCHANGED shown
  PROVE  GoesOn(r)
BY DEF GoesOn, ClientInv, ClientTypes, Shots, NoShot

LEMMA StreamStepKeeps ==
  ASSUME NEW r \in Roles, ClientInv, Client(r)!StreamStep \/ Client(r)!Drop
  PROVE  ClientInv' /\ GoesOn(r)
<1>1. ClientTypes /\ Len(stream.inbox) <= MaxInbox /\ stream \in Subscriptions /\ newest \in {0, newest}
      /\ stream.inbox \in Seq(Shots \cup {End}) /\ (stream.stage # "off" => shown # NoShot)
  BY DEF ClientInv, ClientTypes, Subscriptions
<1>2. CASE Client(r)!Connect
  <2>1. stream.stage = "connecting" /\ UNCHANGED <<server, session, shown, newest, flights, driver, counts>>
    BY <1>2 DEF Client!Connect
  <2>2. CASE Client(r)!RoomGone
    <3>1. stream' \in Subscriptions /\ Len(stream'.inbox) <= MaxInbox /\ stream'.stage = "down"
      BY <1>2, <2>2, Subscribed DEF Client!Connect
    <3> QED BY <1>1, <2>1, <3>1, StreamKeeps, UnseenGoesOn DEF ClientTypes
  <2>3. CASE ~Client(r)!RoomGone
    <3>1. Client(r)!Snapshot \in Shots
      BY <1>1, <2>3, ShotOfServer DEF Client!RoomGone, Client!GoneFor
    <3>2. <<Client(r)!Snapshot>> \in Seq(Shots \cup {End}) /\ Len(<<Client(r)!Snapshot>>) = 1
      BY <3>1
    <3>3. stream' = [stage |-> "live", inbox |-> <<Client(r)!Snapshot>>, last |-> Client(r)!Snapshot]
      BY <1>2, <2>3 DEF Client!Connect
    <3>4. stream' \in Subscriptions /\ Len(stream'.inbox) <= MaxInbox /\ stream'.stage = "live"
      BY <3>1, <3>2, <3>3, ClientAssumption DEF Subscriptions
    <3> QED BY <1>1, <2>1, <3>4, StreamKeeps, UnseenGoesOn DEF ClientTypes
  <2> QED BY <2>2, <2>3
<1>3. CASE Client(r)!Push
  <2>1. PICK event \in Shots \cup {End} : stream' = [stream EXCEPT !.inbox = Append(@, event), !.last = event]
    <3>1. ~Client(r)!RoomGone => Client(r)!Snapshot \in Shots
      BY <1>1, ShotOfServer DEF Client!RoomGone, Client!GoneFor
    <3> QED BY <1>3, <3>1, ClientKnown DEF Client!Push
  <2>2. stream.stage = "live" /\ Len(stream.inbox) < MaxInbox
        /\ UNCHANGED <<server, session, shown, newest, flights, driver, counts>>
    BY <1>3 DEF Client!Push
  <2>3. Append(stream.inbox, event) \in Seq(Shots \cup {End}) /\ Len(Append(stream.inbox, event)) = Len(stream.inbox) + 1
        /\ Len(stream.inbox) \in Nat
    BY <1>1
  <2>4. stream' \in Subscriptions /\ Len(stream'.inbox) <= MaxInbox /\ stream'.stage = "live"
    <3> DEFINE q == Append(stream.inbox, event)
    <3>1. q \in Seq(Shots \cup {End}) /\ Len(q) <= MaxInbox
      BY <2>2, <2>3, ClientAssumption
    <3> HIDE DEF q
    <3>2. stream' = [stream EXCEPT !.inbox = q, !.last = event]
      BY <2>1 DEF q
    <3> QED BY <1>1, <2>2, <3>1, <3>2 DEF Subscriptions
  <2> QED BY <1>1, <2>2, <2>4, StreamKeeps, UnseenGoesOn DEF ClientTypes
<1>4. CASE Client(r)!Deliver
  <2> DEFINE event == Head(stream.inbox)
             after == [stream EXCEPT !.inbox = Tail(@)]
  <2>1. event \in Shots \cup {End} /\ Tail(stream.inbox) \in Seq(Shots \cup {End})
        /\ Len(Tail(stream.inbox)) <= MaxInbox
    BY <1>1, <1>4, ClientAssumption DEF Client!Deliver
  <2>2. after \in Subscriptions /\ Len(after.inbox) <= MaxInbox /\ after.stage = "live"
    BY <1>1, <1>4, <2>1 DEF Subscriptions, Client!Deliver
  <2>3. /\ IF event = Client(r)!Closed THEN Client(r)!EndRoom ELSE Client(r)!AdoptRoom(event, newest)
        /\ Client(r)!Resubscribes(after) /\ UNCHANGED <<server, session, flights, counts>>
    BY <1>4 DEF Client!Deliver
  <2> HIDE DEF event, after
  <2>4. CASE event = End
    BY <2>2, <2>3, <2>4, ClientKnown, EndKeeps, EndGoesOn DEF GoesOn
  <2>5. CASE event # End
    <3>1. event \in Shots
      BY <2>1, <2>5
    <3> QED BY <1>1, <2>2, <2>3, <2>5, <3>1, ClientKnown, AdoptKeeps, AdoptGoesOn DEF GoesOn
  <2> QED BY <2>4, <2>5
<1>5. CASE Client(r)!Drop \/ Client(r)!StreamEnds
  <2>1. /\ stream.stage = "live" /\ stream' = [Client(r)!NoStream EXCEPT !.stage = "down"]
        /\ UNCHANGED <<server, session, shown, newest, flights, driver>>
    BY <1>5 DEF Client!Drop, Client!StreamEnds
  <2>2. counts' \in [flights : Int, drops : Int]
    BY <1>1, <1>5 DEF ClientTypes, Client!Drop, Client!StreamEnds
  <2>3. stream' \in Subscriptions /\ Len(stream'.inbox) <= MaxInbox /\ stream'.stage = "down"
    BY <2>1, Subscribed
  <2> QED BY <2>1, <2>2, <2>3, StreamKeeps, UnseenGoesOn
<1>6. CASE Client(r)!ReadRoom
  <2> DEFINE after == [Client(r)!NoStream EXCEPT !.stage = "connecting"]
  <2>1. after \in Subscriptions /\ Len(after.inbox) <= MaxInbox /\ after.stage = "connecting"
    BY Subscribed
  <2>2. /\ IF Client(r)!RoomGone THEN Client(r)!EndRoom ELSE Client(r)!AdoptRoom(Client(r)!Snapshot, newest)
        /\ Client(r)!Resubscribes(after) /\ UNCHANGED <<server, session, flights, counts>>
    BY <1>6 DEF Client!ReadRoom
  <2> HIDE DEF after
  <2>3. CASE Client(r)!RoomGone
    BY <2>1, <2>2, <2>3, EndKeeps, EndGoesOn DEF GoesOn
  <2>4. CASE ~Client(r)!RoomGone
    <3>1. Client(r)!Snapshot \in Shots
      BY <1>1, <2>4, ShotOfServer DEF Client!RoomGone, Client!GoneFor
    <3> QED BY <1>1, <2>1, <2>2, <2>4, <3>1, AdoptKeeps, AdoptGoesOn DEF GoesOn
  <2> QED BY <2>3, <2>4
<1> QED BY <1>2, <1>3, <1>4, <1>5, <1>6 DEF Client!StreamStep

\* Requests: one more under way, which changes nothing that is shown.
LEMMA AskKeeps ==
  ASSUME NEW r \in Roles, ClientInv,
         \/ Client(r)!Command \/ Client(r)!OpenRoom \/ Client(r)!LeaveRoom \/ Client(r)!JoinRoom \/ Client(r)!FetchRoom
  PROVE  ClientInv' /\ GoesOn(r)
<1>1. /\ counts.flights \in Int /\ counts.drops \in Int /\ session \in 0..MaxRooms
      /\ flights \subseteq Answers /\ \A a \in flights : a.answer = "room" => a.room # NoShot
  BY DEF ClientInv, ClientTypes
<1>2. PICK kind \in {"command", "open", "leave", "join", "fetch"} : Client(r)!Asks(kind)
  BY DEF Client!Command, Client!OpenRoom, Client!LeaveRoom, Client!JoinRoom, Client!FetchRoom
<1> DEFINE new == [n |-> counts.flights, kind |-> kind, session |-> session, answer |-> "none", room |-> NoShot]
<1>3. new \in Answers /\ new.answer = "none"
  BY <1>1 DEF Answers
<1>4. flights' = flights \cup {new}
  BY <1>2, ClientKnown DEF Client!Asks
<1>5. counts' \in [flights : Int, drops : Int]
  <2>1. counts \in [flights : Int, drops : Int]
    BY DEF ClientInv, ClientTypes
  <2>2. counts' = [counts EXCEPT !.flights = @ + 1]
    BY <1>2 DEF Client!Asks
  <2> QED BY <2>1, <2>2
<1>6. flights' \subseteq Answers /\ \A a \in flights' : a.answer = "room" => a.room # NoShot
  BY <1>1, <1>3, <1>4
<1>7. UNCHANGED <<server, session, shown, stream, driver>> /\ (newest' = newest \/ (shown = NoShot /\ newest' = 0))
  BY ClientKnown DEF Client!Command, Client!OpenRoom, Client!LeaveRoom, Client!JoinRoom, Client!FetchRoom
<1>8. newest' \in 0..MaxClientRevision
  BY <1>7, ClientAssumption DEF ClientInv, ClientTypes
<1>9. ClientInv'
  BY <1>5, <1>6, <1>7, <1>8 DEF ClientInv, ClientTypes
<1> QED BY <1>7, <1>9, UnseenGoesOn

\* An answer that brings a Room, to a request of any kind, and one that brings none.
LEMMA AnswerKeeps ==
  ASSUME NEW r \in Roles, ClientInv, NEW a, Client(r)!ServerAnswers(a)
  PROVE  ClientInv' /\ GoesOn(r)
<1>1. /\ ClientTypes /\ a \in Answers
      /\ flights \subseteq Answers /\ \A b \in flights : b.answer = "room" => b.room # NoShot
  BY DEF ClientInv, Client!ServerAnswers
<1>2. UNCHANGED <<shown, newest, stream, driver, counts>>
  BY DEF Client!ServerAnswers
<1> SUFFICES ClientInv'
  BY <1>2, UnseenGoesOn
<1> DEFINE Says(answer, room) == flights' = (flights \ {a}) \cup {[a EXCEPT !.answer = answer, !.room = room]}
           Servers == [id : 0..MaxRooms, revision : 0..MaxClientRevision, open : BOOLEAN]
<1>3. ASSUME NEW answer \in {"gone", "failed"}, Says(answer, NoShot)
      PROVE  flights' \subseteq Answers /\ \A b \in flights' : b.answer = "room" => b.room # NoShot
  <2>1. [a EXCEPT !.answer = answer, !.room = NoShot] \in Answers
        /\ [a EXCEPT !.answer = answer, !.room = NoShot].answer = answer
    BY <1>1 DEF Answers
  <2> QED BY <1>1, <1>3, <2>1
<1>4. ASSUME NEW room \in Shots, Says("room", room)
      PROVE  flights' \subseteq Answers /\ \A b \in flights' : b.answer = "room" => b.room # NoShot
  <2>1. [a EXCEPT !.answer = "room", !.room = room] \in Answers
        /\ [a EXCEPT !.answer = "room", !.room = room].room = room
    BY <1>1 DEF Answers
  <2> QED BY <1>1, <1>4, <2>1, ClientKnown
<1>5. ASSUME NEW answer \in {"gone", "failed"}, Says(answer, NoShot), server' = server \/ (server' = [server EXCEPT !.open = FALSE]),
             session' \in 0..MaxRooms
      PROVE  ClientInv'
  <2>1. /\ \A s \in Servers : [s EXCEPT !.open = FALSE] \in Servers
        /\ \A s \in Servers : [s EXCEPT !.open = FALSE].open = FALSE
    OBVIOUS
  <2>2. server' \in Servers /\ (server'.open => server'.id > 0 /\ server'.revision > 0)
    BY <1>1, <1>5, <2>1 DEF ClientTypes
  <2> QED BY <1>2, <1>3, <1>5, <2>2, ServerKeeps
<1>6. ASSUME NEW room \in Shots, Says("room", room), session' \in 0..MaxRooms,
             server' \in Servers, server'.open => server'.id > 0 /\ server'.revision > 0
      PROVE  ClientInv'
  BY <1>2, <1>4, <1>6, ServerKeeps
<1>7. session \in 0..MaxRooms /\ server \in Servers /\ (server.open => server.id > 0 /\ server.revision > 0)
      /\ 0 \in 0..MaxRooms
  BY <1>1, ClientAssumption DEF ClientTypes, Servers
<1>8. server.open => Client(r)!Snapshot \in Shots
  BY <1>1, ShotOfServer
<1> HIDE DEF Says, Servers
<1>9. CASE \/ /\ a.kind \in {"command", "fetch"} /\ Client(r)!GoneFor(a.session) /\ Says("gone", NoShot) /\ UNCHANGED <<server, session>>
           \/ Says("failed", NoShot) /\ UNCHANGED <<server, session>>
  BY <1>5, <1>7, <1>9
<1>10. CASE /\ a.kind = "leave" /\ Says("gone", NoShot) /\ session' = 0
            /\ server' = IF r = "owner" THEN [server EXCEPT !.open = FALSE] ELSE server
  BY <1>5, <1>7, <1>10
<1>11. CASE /\ a.kind = "command" /\ ~Client(r)!GoneFor(a.session) /\ server.revision < MaxClientRevision
            /\ server' = [server EXCEPT !.revision = @ + 1]
            /\ Says("room", [Client(r)!Snapshot EXCEPT !.revision = @ + 1]) /\ UNCHANGED session
  <2>1. server.open /\ server.id \in 1..MaxRooms /\ server.revision + 1 \in 1..MaxClientRevision
    BY <1>7, <1>11, ClientAssumption DEF Client!GoneFor, Servers
  <2>2. [Client(r)!Snapshot EXCEPT !.revision = @ + 1] \in Shots
    BY <2>1 DEF Client!Snapshot, Shots
  <2>3. server' \in Servers /\ server'.id > 0 /\ server'.revision > 0
    BY <1>7, <1>11, <2>1, ClientAssumption DEF Servers
  <2> QED BY <1>6, <1>7, <1>11, <2>2, <2>3
<1>12. CASE a.kind = "fetch" /\ ~Client(r)!GoneFor(a.session) /\ Says("room", Client(r)!Snapshot) /\ UNCHANGED <<server, session>>
  BY <1>6, <1>7, <1>8, <1>12 DEF Client!GoneFor
<1>13. CASE a.kind = "join" /\ server.open /\ session' = server.id /\ Says("room", Client(r)!Snapshot) /\ UNCHANGED server
  <2>1. server.id \in 0..MaxRooms
    BY <1>7 DEF Servers
  <2> QED BY <1>6, <1>7, <1>8, <1>13, <2>1
<1>14. CASE /\ a.kind = "open" /\ UNCHANGED session
            /\ IF server.open THEN Says("room", Client(r)!Snapshot) /\ UNCHANGED server
               ELSE server.id < MaxRooms /\ server' = Client(r)!Opened
                    /\ Says("room", [id |-> Client(r)!Opened.id, revision |-> 1])
  <2>1. CASE server.open
    BY <1>6, <1>7, <1>8, <1>14, <2>1
  <2>2. CASE ~server.open
    <3>1. server.id + 1 \in 1..MaxRooms /\ server.id + 1 \in 0..MaxRooms
          /\ 1 \in 1..MaxClientRevision /\ 1 \in 0..MaxClientRevision
      BY <1>7, <1>14, <2>2, ClientAssumption DEF Servers
    <3>2. /\ Client(r)!Opened \in Servers /\ Client(r)!Opened.id > 0 /\ Client(r)!Opened.revision > 0
          /\ [id |-> Client(r)!Opened.id, revision |-> 1] \in Shots
      BY <3>1 DEF Client!Opened, Shots, Servers
    <3> QED BY <1>6, <1>7, <1>14, <2>2, <3>2
  <2> QED BY <2>1, <2>2
<1> QED
  BY <1>9, <1>10, <1>11, <1>12, <1>13, <1>14, ClientKnown DEF Client!ServerAnswers, Says

LEMMA ReceiveKeeps ==
  ASSUME NEW r \in Roles, ClientInv, NEW a, Client(r)!Receive(a)
  PROVE  ClientInv' /\ GoesOn(r)
<1>1. /\ a \in flights /\ flights' \subseteq flights /\ a \in Answers /\ (a.answer = "room" => a.room \in Shots)
      /\ UNCHANGED <<server, session, counts>> /\ Client(r)!Resubscribes(stream)
  BY DEF Client!Receive, ClientInv, Answers
<1>2. /\ stream \in Subscriptions /\ Len(stream.inbox) <= MaxInbox /\ (shown # NoShot => stream.stage # "off")
      /\ newest \in {0, newest} /\ 0 \in {0, newest}
  BY DEF ClientInv, ClientTypes, Subscriptions
<1>3. CASE a.answer = "room"
  <2>1. Client(r)!AdoptRoom(a.room, IF a.kind = "join" THEN 0 ELSE newest)
    BY <1>3 DEF Client!Receive
  <2>2. CASE a.kind = "join"
    <3>1. Client(r)!AdoptRoom(a.room, 0)
      BY <2>1, <2>2
    <3> QED BY <1>1, <1>2, <1>3, <2>2, <3>1, AdoptKeeps DEF GoesOn
  <2>3. CASE a.kind # "join"
    <3>1. Client(r)!AdoptRoom(a.room, newest)
      BY <2>1, <2>3
    <3> QED BY <1>1, <1>2, <1>3, <3>1, AdoptKeeps, AdoptGoesOn DEF GoesOn
  <2> QED BY <2>2, <2>3
<1>4. CASE a.answer = "gone" /\ a.kind # "fetch"
  <2>1. Client(r)!EndRoom
    BY <1>4 DEF Client!Receive
  <2> QED BY <1>1, <1>2, <2>1, EndKeeps, EndGoesOn DEF GoesOn
<1>5. CASE a.answer # "room" /\ ~(a.answer = "gone" /\ a.kind # "fetch")
  <2>1. UNCHANGED <<shown, newest, driver>>
    BY <1>5 DEF Client!Receive
  <2>2. stream' = stream \/ (shown = NoShot /\ stream' = Client(r)!NoStream)
    BY <1>1, <2>1, ClientKnown DEF Client!Resubscribes
  <2>4. stream' \in Subscriptions /\ Len(stream'.inbox) <= MaxInbox /\ (stream'.stage # "off") = (shown # NoShot)
    BY <1>2, <2>2, Subscribed DEF ClientInv
  <2>3. ClientInv'
    BY <1>1, <2>1, <2>4 DEF ClientInv, ClientTypes, Subscriptions
  <2> QED BY <2>1, <2>3, UnseenGoesOn
<1> QED BY <1>3, <1>4, <1>5

LEMMA ClientNext ==
  ASSUME NEW r \in Roles
  PROVE  ClientInv /\ [Client(r)!Next]_(Client(r)!vars) => ClientInv' /\ GoesOn(r)
<1> SUFFICES ASSUME ClientInv, [Client(r)!Next]_(Client(r)!vars)
             PROVE  ClientInv' /\ GoesOn(r)
  OBVIOUS
<1>1. CASE UNCHANGED Client(r)!vars
  <2>1. ClientInv'
    BY <1>1 DEF Client!vars, ClientInv, ClientTypes
  <2> QED BY <1>1, <2>1, UnseenGoesOn DEF Client!vars
<1>2. CASE Client(r)!Next
  BY <1>2, RoomStepKeeps, UnseenGoesOn, StreamStepKeeps, AskKeeps, AnswerKeeps, ReceiveKeeps
     DEF Client!Next, Client!Answers
<1> QED BY <1>1, <1>2

LEMMA ClientImplied ==
  ASSUME NEW r \in Roles, ClientInv
  PROVE  Client(r)!TypeOK /\ Client(r)!PlayerFollowsTheRoom
<1>1. shown.id \in 0..MaxRooms
  BY ClientAssumption DEF ClientInv, ClientTypes, Shots, NoShot
<1>2. stream.stage \in {"off", "connecting", "live", "down"} /\ Len(stream.inbox) <= MaxInbox
  BY DEF ClientInv, ClientTypes
<1>3. /\ driver.follows \in BOOLEAN /\ driver.saved \in BOOLEAN
      /\ driver.left \in {"untouched", "stopped", "paused"}
  BY DEF ClientInv, ClientTypes
<1>4. server.id \in 0..MaxRooms /\ server.revision \in 0..MaxClientRevision
  BY DEF ClientInv, ClientTypes
<1> QED BY <1>1, <1>2, <1>3, <1>4, ClientKnown
        DEF ClientInv, ClientTypes, Client!TypeOK, Client!PlayerFollowsTheRoom

\* ClientFollowsTheRoom of an Owner's and of a Guest's client, for any number of Rooms,
\* requests and lost connections: the Player is driven and the events are read exactly
\* while a Room is shown, and no late answer or event brings an older snapshot back
\* (ListenTogetherProvider.tsx, adoptRoom, endRoom, isStaleSnapshot).
THEOREM ClientsFollow ==
  ASSUME NEW r \in Roles
  PROVE  /\ Client(r)!Spec => [](Client(r)!TypeOK /\ Client(r)!PlayerFollowsTheRoom)
         /\ Client(r)!Spec => [][Client(r)!NeverBack]_(Client(r)!vars)
         /\ Client(r)!Spec /\ [](part = r) => ClientFollowsTheRoom
<1>1. Client(r)!Init => ClientInv
  BY ClientInit
<1>2. ClientInv /\ [Client(r)!Next]_(Client(r)!vars) => ClientInv'
  BY ClientNext
<1>3. ClientInv => Client(r)!TypeOK /\ Client(r)!PlayerFollowsTheRoom
  BY ClientImplied
<1>4. ClientInv /\ [Client(r)!Next]_(Client(r)!vars) => Client(r)!NeverBack
  BY ClientNext DEF GoesOn, Client!NeverBack
<1>5. Client(r)!Spec => []ClientInv
  BY <1>1, <1>2, PTL DEF Client!Spec
<1>6. Client(r)!Spec => [](Client(r)!TypeOK /\ Client(r)!PlayerFollowsTheRoom)
  BY <1>3, <1>5, PTL
<1>7. Client(r)!Spec => [][Client(r)!NeverBack]_(Client(r)!vars)
  BY <1>4, <1>5, PTL DEF Client!Spec
<1>8. (Client(r)!TypeOK /\ Client(r)!PlayerFollowsTheRoom) /\ part = r =>
        /\ part = "owner" => Client("owner")!TypeOK /\ Client("owner")!PlayerFollowsTheRoom
        /\ part = "guest" => Client("guest")!TypeOK /\ Client("guest")!PlayerFollowsTheRoom
  BY DEF Roles
<1>9. ClientInv /\ [Client(r)!Next]_(Client(r)!vars) /\ part = r =>
        /\ [part = "owner" => Client("owner")!NeverBack]_clientVars
        /\ [part = "guest" => Client("guest")!NeverBack]_clientVars
  BY <1>4 DEF Roles
<1>10. Client(r)!Spec /\ [](part = r) =>
         /\ [](part = "owner" => Client("owner")!TypeOK /\ Client("owner")!PlayerFollowsTheRoom)
         /\ [](part = "guest" => Client("guest")!TypeOK /\ Client("guest")!PlayerFollowsTheRoom)
  BY <1>6, <1>8, PTL
<1>11. Client(r)!Spec /\ [](part = r) =>
         /\ [][part = "owner" => Client("owner")!NeverBack]_clientVars
         /\ [][part = "guest" => Client("guest")!NeverBack]_clientVars
  BY <1>5, <1>9, PTL DEF Client!Spec
<1> QED BY <1>6, <1>7, <1>10, <1>11, PTL DEF ClientFollowsTheRoom
=============================================================================
