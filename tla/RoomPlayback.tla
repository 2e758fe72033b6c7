---------------------------- MODULE RoomPlayback ----------------------------
(***************************************************************************)
(* The Room State of one open Room under the commands of its members and   *)
(* under the reports every member's Player sends when a Track ends.        *)
(*                                                                         *)
(* The server side is RoomState's Apply.  The clients are the sync layer   *)
(* of packages/ui/src/listen-together: each follows some snapshot it has   *)
(* adopted, and when its Player reaches the end of that snapshot's Track   *)
(* it sends `skip next` naming the Track and its place.  A report is a     *)
(* POST of its own, so it may arrive after any number of other commands.   *)
(***************************************************************************)
EXTENDS RoomState, FiniteSets

CONSTANTS
  Clients,         \* the Owner and the Guests
  FirstQueue,      \* the Room Queue the first playTracks brings
  UserCommands,    \* what members send on their own account
  MaxRevision      \* bound: commands stop changing the Room here

ASSUME RoomPlaybackAssumption ==
  /\ FirstQueue \in Seq(Tracks)
  /\ FirstQueue # << >>
  /\ \A c \in UserCommands : IsCommand(c)
  /\ MaxRevision \in Nat

VARIABLES
  state,    \* the Room State
  clock,    \* the server's wall clock, which an operator or NTP may set
  view,     \* [Clients -> what the client follows]
  report,   \* [Clients -> the end-of-Track report in flight, or NoReport]
  plays,    \* history: how often a Track was started or the Room stopped
  counted,  \* history: the plays whose end has moved the Room
  restarted \* history: the play in which a member last started a Track again

vars == <<state, clock, view, report, plays, counted, restarted>>

NoReport == [index |-> NoIndex, trackId |-> Absent, play |-> 0]

\* The Room's target as a client sees it (roomTarget), and the history value
\* that says which play of the Track the client is following.
Target(s, p) ==
  [index |-> s.currentIndex, playing |-> s.playing, play |-> p,
   trackId |-> IF HasCurrent(s) THEN s.trackIds[s.currentIndex + 1] ELSE Absent]

Targets ==
  [index : Nat \cup {NoIndex}, playing : BOOLEAN, play : Nat,
   trackId : Tracks \cup {Absent}]

Reports ==
  [index : Nat \cup {NoIndex}, trackId : Tracks \cup {Absent}, play : Nat]

\* A Room in which somebody has pressed play.
Init ==
  /\ clock \in Ms
  /\ state = Apply(NewRoomState(clock), PlayTracks(FirstQueue, 0), clock)
  /\ plays = 1
  /\ counted = {}
  /\ restarted = 0
  /\ view = [c \in Clients |-> Target(state, plays)]
  /\ report = [c \in Clients |-> NoReport]

-----------------------------------------------------------------------------

\* A step of the history: a Track was started anew, or the Room stopped past
\* the end of its Queue.
NextPlay(s, c) ==
  IF Changes(s, c) /\ c.type \in {"playTracks", "skip"} THEN plays + 1 ELSE plays

ApplyNow(c) ==
  /\ state.revision < MaxRevision
  /\ state' = Apply(state, c, clock)
  /\ plays' = NextPlay(state, c)

\* Commands after which a Track that has ended may play again.
StartsAgain(c) ==
  \/ c.type \in {"playTracks", "resume"}
  \/ c.type = "skip" /\ c.direction = "previous"

\* A member presses a button.
Command(c) ==
  /\ Validate(c)
  /\ ApplyNow(c)
  /\ restarted' = IF Changes(state, c) /\ StartsAgain(c) THEN plays' ELSE restarted
  /\ UNCHANGED <<clock, view, report, counted>>

\* The wall clock moves, forwards or back.
ClockMoves ==
  /\ clock' \in Ms \ {clock}
  /\ UNCHANGED <<state, view, report, plays, counted, restarted>>

\* A client adopts the newest snapshot.
Adopt(c) ==
  /\ view' = [view EXCEPT ![c] = Target(state, plays)]
  /\ UNCHANGED <<state, clock, report, plays, counted, restarted>>

\* planEnded: the Player has played the Track it follows to its end.
TrackEnds(c) ==
  /\ report[c] = NoReport
  /\ view[c].index # NoIndex
  /\ view[c].playing
  /\ report' = [report EXCEPT ![c] = [index |-> view[c].index,
                                      trackId |-> view[c].trackId,
                                      play |-> view[c].play]]
  /\ UNCHANGED <<state, clock, view, plays, counted, restarted>>

EndOfTrack(r) == SkipFrom("next", r.trackId, r.index)

\* The Room went to another Track, or stopped.
Moved ==
  \/ state'.currentIndex # state.currentIndex
  \/ state.playing /\ ~state'.playing

\* A report reaches the Music Server.
ReportArrives(c) ==
  /\ report[c] # NoReport
  /\ ApplyNow(EndOfTrack(report[c]))
  /\ counted' = counted \cup (IF Moved THEN {report[c].play} ELSE {})
  /\ report' = [report EXCEPT ![c] = NoReport]
  /\ UNCHANGED <<clock, view, restarted>>

Next ==
  \/ \E c \in UserCommands : Command(c)
  \/ ClockMoves
  \/ \E c \in Clients : Adopt(c) \/ TrackEnds(c) \/ ReportArrives(c)

Spec == Init /\ [][Next]_vars

-----------------------------------------------------------------------------
(* Properties *)

\* Every snapshot the Room can be in has the contract's shape; in particular
\* the playhead that a pause stores stays a non-negative i64 whatever the
\* wall clock did and wherever a member sought to.
TypeOK ==
  /\ state \in RoomStates
  /\ clock \in Ms
  /\ view \in [Clients -> Targets]
  /\ report \in [Clients -> Reports]
  /\ plays \in Nat /\ restarted \in Nat

\* track_ids[current_index] never panics, and the Room never plays without a
\* Track: a new Room Queue always brings its own current index with it.
CurrentIsInQueue == CurrentInQueue(state)

\* Whatever members command and however the clock is set, the Room hands out
\* snapshots a client can follow: of the right shape, and with a current Track.
SnapshotIsSound == TypeOK /\ CurrentIsInQueue

\* "Every client reports the end of a Track; only the first one counts"
\* (room_state.rs, skip): however many clients report the end of one play of a
\* Track, and whenever their reports arrive, at most one moves the Room, also
\* where the same Track follows, and unless a member has since gone back to a
\* Track or started one again, which the place alone cannot tell.
EndCountsOnce ==
  [][\A c \in Clients :
       ReportArrives(c) /\ Moved
         => report[c].play \notin counted \/ restarted > report[c].play]_vars

\* Pausing, resuming and opening the lyrics leave the playhead where it is:
\* paused time does not count, and time already played is not lost.
PlayheadContinuity ==
  [][\A c \in UserCommands :
       c.type \in {"pause", "resume", "setLyricsOpen"} /\ Command(c)
         => Playhead(state', clock) = Playhead(state, clock)]_vars

\* Clients order snapshots by revision (isStaleSnapshot), so a snapshot that
\* differs from the one before it always has the next revision.
RevisionOrdersSnapshots ==
  [][state' # state => state'.revision = state.revision + 1]_state
=============================================================================
