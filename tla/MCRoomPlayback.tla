--------------------------- MODULE MCRoomPlayback ---------------------------
(***************************************************************************)
(* A Room and those who follow it, side by side in one run: a behaviour is *)
(* that of the Room State under commands and reports (RoomPlayback, which  *)
(* this module extends), of an Owner's or a Guest's client, or of the sync *)
(* of a Player with a Room, without and with trouble. The variables of the *)
(* parts that do not run hold Idle, those of RoomPlayback their initial    *)
(* values.                                                                 *)
(***************************************************************************)
EXTENDS RoomPlaybackProofs

CONSTANTS t1, t2

\* One Track queued twice in a row, then another: the case that the place in
\* a skip is there for.
TwiceInARow == <<t1, t1, t2>>

\* Every command, with seeks to the start and to i64::MAX, a Room
\* Queue shorter than the first, skips with and without a place.
EveryCommand ==
  {Resume, Pause, Seek(0), Seek(MaxMs), SetLyricsOpen(TRUE), SetLyricsOpen(FALSE),
   PlayTracks(<<t2>>, 0), PlayTracks(<<t1, t2>>, 1), PlayTracks(<< >>, 0),
   PlayTracks(<<t1>>, 1), Seek(-1),
   SkipFrom("previous", Absent, NoIndex), SkipFrom("next", Absent, NoIndex),
   SkipFrom("next", t2, NoIndex)}

VARIABLES
  room, isClockKnown, player, orders, loads, memo, command, touched, syncCounts

Sync == INSTANCE RoomSync WITH Items <- 2, Duration <- 5, Drift <- 0, LocalSeek <- 2,
  EndMargin <- 1, Echo <- 3, Retry <- 2, Latency <- 1, LoadTimeout <- 3, Cooldown <- 3,
  MaxCooldown <- 6, MaxRoom <- 2, MaxLocal <- 1, MaxTrouble <- 0, clock <- isClockKnown,
  counts <- syncCounts
Troubled == INSTANCE RoomSync WITH Items <- 2, Duration <- 5, Drift <- 0, LocalSeek <- 2,
  EndMargin <- 1, Echo <- 3, Retry <- 2, Latency <- 1, LoadTimeout <- 3, Cooldown <- 3,
  MaxCooldown <- 6, MaxRoom <- 1, MaxLocal <- 1, MaxTrouble <- 1, clock <- isClockKnown,
  counts <- syncCounts

syncVars == <<room, isClockKnown, player, orders, loads, memo, command, touched, syncCounts>>
all == <<part, vars, clientVars, syncVars>>

\* The variables of a part that does not run.
Idle == "idle"
ClientIdle == server = Idle /\ session = Idle /\ shown = Idle /\ newest = Idle
    /\ stream = Idle /\ flights = Idle /\ driver = Idle /\ counts = Idle
SyncIdle == room = Idle /\ isClockKnown = Idle /\ player = Idle /\ orders = Idle
    /\ loads = Idle /\ memo = Idle /\ command = Idle /\ touched = Idle /\ syncCounts = Idle

SumInit ==
  /\ part \in {"room", "owner", "guest", "sync", "trouble"} /\ Init /\ (part # "room" => clock = 0)
  /\ CASE part = "owner" -> Client("owner")!Init
       [] part = "guest" -> Client("guest")!Init
       [] OTHER -> ClientIdle
  /\ IF part = "sync" THEN Sync!Init ELSE IF part = "trouble" THEN Troubled!Init ELSE SyncIdle

RoomStep == part = "room" /\ Next /\ UNCHANGED <<part, clientVars, syncVars>>
OwnerStep == part = "owner" /\ Client("owner")!Next /\ UNCHANGED <<part, vars, syncVars>>
GuestStep == part = "guest" /\ Client("guest")!Next /\ UNCHANGED <<part, vars, syncVars>>
SyncStep == part = "sync" /\ Sync!Next /\ UNCHANGED <<part, vars, clientVars>>
TroubledStep == part = "trouble" /\ Troubled!Next /\ UNCHANGED <<part, vars, clientVars>>

SumNext == RoomStep \/ OwnerStep \/ GuestStep \/ SyncStep \/ TroubledStep

SumSpec == SumInit /\ [][SumNext]_all

----------------------------------------------------------------------------
\* What the sync itself does to the Player, and what time and the network do, is never
\* sent to the Room as the listener's wish (roomSync.ts, RoomSyncDriver.ts).
EchoIsNoCommand ==
  /\ part = "sync" => Sync!TypeOK /\ Sync!EchoIsNoCommand
  /\ part = "trouble" => Troubled!TypeOK /\ Troubled!EchoIsNoCommand
=============================================================================
