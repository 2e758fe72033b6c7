------------------------------ MODULE RoomSync -----------------------------
(***************************************************************************)
(* How a Player follows the Room State: every tick compares the Room, the  *)
(* expected playhead and the Player, and either corrects the Player or     *)
(* sends what its listener did as a command to the Room.                   *)
(* src/packages/ui/src/listen-together/roomSync.ts (planRoomSync) and      *)
(* RoomSyncDriver.ts.                                                      *)
(*                                                                         *)
(* Time is counted in ticks, positions in what plays in one; deadlines are *)
(* kept as the ticks left.  A Room Queue item is its index, 0 is none.     *)
(* The client knows the Room State as it is (RoomClient has the way there) *)
(* and the server's clock once it is estimated.                            *)
(***************************************************************************)
EXTENDS Integers, Sequences, FiniteSets

CONSTANTS
  Items,          \* length of the Room Queue
  Duration,       \* of a Track
  Drift, LocalSeek, EndMargin,                 \* DRIFT_THRESHOLD_MS, ...
  Echo, Retry, LoadTimeout, Cooldown, MaxCooldown,
  Latency,        \* ticks within which an engine shows what it was told
  MaxRoom, MaxLocal, MaxTrouble                \* bounds

VARIABLES
  room,      \* index, playing and expected playhead
  clock,     \* whether clockOffsetMs is known
  player,    \* queueItemId, status and position of the engine
  orders,    \* what sync asked of the engine and has not shown yet
  loads,     \* loads under way in the driver, with the await each is at
  memo,      \* RoomSyncMemo
  command,   \* the command that is on its way
  touched,   \* the listener, or a load that was overtaken, moved the Player (history)
  counts     \* room changes, local changes, troubles

vars == <<room, clock, player, orders, loads, memo, command, touched, counts>>

Abs(n) == IF n < 0 THEN -n ELSE n
Lesser(a, b) == IF a < b THEN a ELSE b
Down(n, by) == IF n > by THEN n - by ELSE 0
Loads == [item : 1..Items, at : {"resolve", "play"}]
Positions == 0..(Duration + 1)
Null == -1

InitialMemo ==
  [loading |-> 0, loadAge |-> 0, needsSeek |-> FALSE, failed |-> 0, endReported |-> 0,
   pending |-> FALSE, statusInSync |-> FALSE, sourceInSync |-> FALSE, lastPlaying |-> "null",
   echo |-> 0, cooldown |-> 0, seeks |-> 0, correction |-> 0,
   lastPosition |-> Null, lastItem |-> 0, lastExpected |-> Null]

Flag(b) == IF b THEN "true" ELSE "false"
NoCommand == [type |-> "none", from |-> 0, position |-> 0]
Nothing == [type |-> "none", item |-> 0, position |-> 0, age |-> 0]
Does(m, action) == [memo |-> m, action |-> action, command |-> NoCommand]
Stays(m) == Does(m, Nothing)
Sends(m, cmd) == [memo |-> [m EXCEPT !.pending = TRUE], action |-> Nothing, command |-> cmd]

-----------------------------------------------------------------------------
(* planRoomSync.  The Room r, the Player p, the expected playhead e and the time passed  *)
(* since the last plan; previous and next memo as in the code.                           *)

IsAudible(p) == p.status \in {"playing", "reconnecting"}

\* correctStatus.
CorrectStatus(m, shouldPlay) ==
  IF m.correction > 0 THEN Stays(m)
  ELSE Does([m EXCEPT !.correction = Retry, !.echo = Echo],
            [Nothing EXCEPT !.type = IF shouldPlay THEN "play" ELSE "pause"])

LoadItem(m, item) ==
  Does([m EXCEPT !.loading = item, !.loadAge = 0, !.needsSeek = TRUE, !.statusInSync = FALSE,
                 !.endReported = 0, !.echo = Echo],
       [Nothing EXCEPT !.type = "load", !.item = item])

SkipCommand(direction, from) == [NoCommand EXCEPT !.type = direction, !.from = from]

\* planOtherSource: the listener moved to a neighbour or stopped, or the Track is loaded.
OtherSource(previous, m, r, p) ==
  LET wasOnTarget == m.sourceInSync /\ previous.lastItem = r.index /\ m.echo = 0
  IN IF wasOnTarget /\ p.item = r.index + 1 THEN Sends(m, SkipCommand("next", r.index))
     ELSE IF wasOnTarget /\ p.item # 0 /\ p.item = r.index - 1 THEN Sends(m, SkipCommand("previous", r.index))
     ELSE IF wasOnTarget /\ p.item = 0 /\ r.playing THEN Sends(m, [NoCommand EXCEPT !.type = "pause"])
     ELSE IF m.failed = r.index THEN Stays(m)
     ELSE LoadItem([m EXCEPT !.sourceInSync = FALSE], r.index)

\* planEnded: the end is reported once; a Room that went back plays the Track again.
Ended(m, r, e) ==
  IF m.endReported # r.index
  THEN IF ~r.playing THEN Stays(m)
       ELSE Sends([m EXCEPT !.endReported = r.index], SkipCommand("end", r.index))
  ELSE IF e # Null /\ e < Duration - EndMargin THEN LoadItem(m, r.index) ELSE Stays(m)

\* seekTo: corrections in a row back off.
SeekTo(m, e) ==
  Does([m EXCEPT !.cooldown = Lesser(Cooldown * 2 ^ m.seeks, MaxCooldown), !.seeks = @ + 1, !.echo = Echo],
       [Nothing EXCEPT !.type = "seek", !.position = e])

HasRoomJumped(previous, elapsed, e) ==
  /\ e # Null /\ previous.lastExpected # Null
  /\ LET moved == e - previous.lastExpected IN moved < -Drift \/ moved > elapsed + Drift

HasLocalJump(previous, p, elapsed) ==
  LET moved == p.position - previous.lastPosition
  IN moved < -LocalSeek \/ moved > (IF IsAudible(p) THEN elapsed ELSE 0) + LocalSeek

\* A playhead that moves is compared, and one that the Room holds.
Measurable(previous, r, p) ==
  \/ ~r.playing
  \/ previous.lastPosition # Null /\ previous.lastItem = p.item /\ p.position > previous.lastPosition

\* planPosition.
Position(previous, m0, r, p, e, elapsed, wasInSync) ==
  LET hasBaseline == previous.lastPosition # Null /\ previous.lastItem = p.item
      jumped == HasRoomJumped(previous, elapsed, e)
      m == IF jumped THEN [m0 EXCEPT !.cooldown = 0, !.seeks = 0] ELSE m0
      nearEnd == e >= Duration - EndMargin
      drifting == Abs(p.position - e) > Drift
      correct(n) == IF drifting /\ ~nearEnd THEN SeekTo(n, e) ELSE Stays(n)
  IN CASE ~jumped /\ hasBaseline /\ wasInSync /\ m.echo = 0 /\ HasLocalJump(previous, p, elapsed) ->
            Sends(m, [NoCommand EXCEPT !.type = "seek", !.position = p.position])
       [] OTHER ->
            CASE e = Null -> Stays(m)
              [] e # Null /\ m.needsSeek -> correct([m EXCEPT !.needsSeek = FALSE])
              [] e # Null /\ ~m.needsSeek /\ jumped -> correct(m)
              [] e # Null /\ ~m.needsSeek /\ ~jumped ->
                   IF m.cooldown > 0 \/ ~Measurable(previous, r, p) THEN Stays(m)
                   ELSE IF drifting THEN correct(m) ELSE Stays([m EXCEPT !.seeks = 0])

\* A Player whose status is not the Room's has always been paused or resumed by its listener.
LocalChangeAlways(m) == m.echo = 0

\* Only a Player that had shown the Room's status, and that sync does not move just now.
LocalChange(m) == m.statusInSync /\ m.echo = 0

\* plan, on the Room's Track.
OnTarget(previous, m0, r, p, e, elapsed) ==
  LET m1 == [m0 EXCEPT !.sourceInSync = TRUE]
      m2 == IF m1.failed = r.index THEN [m1 EXCEPT !.failed = 0] ELSE m1
      m3 == [m2 EXCEPT !.endReported = 0]
  IN CASE p.status = "error" -> Stays([m1 EXCEPT !.failed = r.index])
       [] p.status = "ended" -> Ended(m2, r, e)
       [] p.status \notin {"error", "ended"} /\ IsAudible(p) # r.playing ->
            IF LocalChange(m3) THEN Sends(m3, [NoCommand EXCEPT !.type = IF r.playing THEN "pause" ELSE "resume"])
            ELSE CorrectStatus(m3, r.playing)
       [] OTHER -> Position(previous, [m3 EXCEPT !.statusInSync = TRUE], r, p, e, elapsed, m3.statusInSync)

PlanWith(previous, m, r, p, e, elapsed) ==
  CASE m.pending -> Stays(m)
    [] ~m.pending /\ r.index = 0 -> IF IsAudible(p) THEN CorrectStatus(m, FALSE) ELSE Stays(m)
    [] ~m.pending /\ r.index # 0 /\ m.loading = r.index /\ m.loadAge < LoadTimeout -> Stays(m)
    [] OTHER -> LET n == [m EXCEPT !.loading = 0]
                IN IF p.item # r.index THEN OtherSource(previous, n, r, p)
                   ELSE OnTarget(previous, n, r, p, e, elapsed)

\* planRoomSync: the deadlines as they stand now, the plan, and what is remembered of it.
Plan(previous, r, p, e, elapsed) ==
  LET aged == [previous EXCEPT !.echo = Down(@, elapsed), !.cooldown = Down(@, elapsed),
                               !.correction = Down(@, elapsed), !.loadAge = Lesser(@ + elapsed, LoadTimeout)]
      m == IF Flag(r.playing) # aged.lastPlaying
           THEN [aged EXCEPT !.lastPlaying = Flag(r.playing), !.statusInSync = FALSE] ELSE aged
      result == PlanWith(previous, m, r, p, e, elapsed)
  IN [result EXCEPT !.memo = [@ EXCEPT !.lastPosition = p.position, !.lastItem = p.item, !.lastExpected = e]]

-----------------------------------------------------------------------------
(* The driver. *)

Expected(r) == IF clock THEN r.position ELSE Null

\* tick, with the Room and the Player as they are then, and perform: m is the memo, asked
\* and under what is asked of the engine and being loaded, sent the command on its way.
Ticks(m, r, p, elapsed, asked, under, sent) ==
  LET plan == Plan(m, r, p, Expected(r), elapsed)
  IN /\ memo' = plan.memo
     /\ orders' = IF plan.action.type \in {"play", "pause", "seek"} THEN Append(asked, plan.action) ELSE asked
     /\ loads' = IF plan.action.type = "load" THEN under \cup {[item |-> plan.action.item, at |-> "resolve"]} ELSE under
     /\ command' = IF plan.command.type # "none" THEN plan.command ELSE sent

\* expectedPositionMs grows while the Room plays; a Player that plays ends at the end.
Playing(r) == IF r.playing THEN [r EXCEPT !.position = Lesser(@ + 1, Duration + 1)] ELSE r
Plays(p, stalls) ==
  IF p.status # "playing" \/ stalls THEN p
  ELSE IF p.position >= Duration THEN [p EXCEPT !.status = "ended"] ELSE [p EXCEPT !.position = @ + 1]

\* SYNC_TICK_MS passes.  The code allows an engine ECHO_WINDOW_MS to show a change.
Tick ==
  /\ orders # <<>> => Head(orders).age < Latency
  /\ \E stalls \in BOOLEAN :
       /\ stalls => counts.trouble < MaxTrouble /\ player.status = "playing"
       /\ counts' = IF stalls THEN [counts EXCEPT !.trouble = @ + 1] ELSE counts
       /\ room' = Playing(room) /\ player' = Plays(player, stalls)
       /\ Ticks(memo, room', player', 1, [i \in DOMAIN orders |-> [orders[i] EXCEPT !.age = @ + 1]], loads, command)
  /\ UNCHANGED <<clock, touched>>

\* The engine shows what was asked of it.
EngineObeys ==
  /\ orders # <<>>
  /\ LET o == Head(orders)
     IN player' = IF player.item = 0 \/ player.status = "error" THEN player
                  ELSE CASE o.type = "play" -> [player EXCEPT !.status = "playing",
                                                              !.position = IF player.status = "ended" THEN 0 ELSE @]
                         [] o.type = "pause" -> IF player.status = "playing" THEN [player EXCEPT !.status = "paused"] ELSE player
                         [] o.type = "seek" -> IF player.status = "ended" THEN player
                                               ELSE [player EXCEPT !.position = Lesser(o.position, Duration)]
                         [] OTHER -> player
  /\ orders' = Tail(orders)
  /\ UNCHANGED <<room, clock, loads, memo, command, touched, counts>>

\* settleLoad.
Settled(m, item, succeeded) ==
  IF m.loading # item THEN m
  ELSE [m EXCEPT !.loading = 0, !.failed = IF succeeded THEN @ ELSE item]

\* load: the source is resolved; a load that was overtaken stops there.
Resolved(load) ==
  /\ load \in loads /\ load.at = "resolve"
  /\ loads' = (loads \ {load}) \cup (IF memo.loading = load.item THEN {[load EXCEPT !.at = "play"]} ELSE {})
  /\ UNCHANGED <<room, clock, player, orders, memo, command, touched, counts>>

\* A source that is not resolved, or that the engine cannot play, settles the load too.
LoadFails(load) ==
  /\ load \in loads /\ counts.trouble < MaxTrouble
  /\ counts' = [counts EXCEPT !.trouble = @ + 1]
  /\ Ticks(Settled(memo, load.item, FALSE), room, player, 0, orders, loads \ {load}, command)
  /\ UNCHANGED <<room, clock, player, touched>>

\* The engine knows the Tracks around it and plays the source, overtaken by now or not.
Loaded(load) ==
  /\ load \in loads /\ load.at = "play"
  /\ player' = [item |-> load.item, status |-> "playing", position |-> 0]
  /\ Ticks(Settled(memo, load.item, TRUE), room, player', 0, orders, loads \ {load}, command)
  /\ touched' = (touched \/ memo.loading # load.item)
  /\ UNCHANGED <<room, clock, counts>>

\* settleCommand.
CommandSettled(m) == [m EXCEPT !.pending = FALSE, !.statusInSync = FALSE, !.sourceInSync = FALSE, !.lastPosition = Null]

Start(r, index) == [r EXCEPT !.index = index, !.position = 0, !.playing = TRUE]

\* RoomState's Apply: a skip counts only from where the Room is.
Applied(r, c) ==
  CASE c.type = "pause" -> [r EXCEPT !.playing = FALSE, !.position = Lesser(@, Duration)]
    [] c.type = "resume" -> [r EXCEPT !.playing = TRUE]
    [] c.type = "seek" -> [r EXCEPT !.position = c.position]
    [] c.type \in {"next", "end"} /\ c.from = r.index ->
         IF r.index < Items THEN Start(r, r.index + 1) ELSE [r EXCEPT !.playing = FALSE, !.position = 0]
    [] c.type = "previous" /\ c.from = r.index -> Start(r, IF r.index > 1 THEN r.index - 1 ELSE 1)
    [] OTHER -> r

\* The answer to a command: taken, or refused.
CommandAnswered ==
  /\ command.type # "none"
  /\ \/ room' = Applied(room, command) /\ UNCHANGED counts
     \/ counts.trouble < MaxTrouble /\ counts' = [counts EXCEPT !.trouble = @ + 1] /\ UNCHANGED room
  /\ Ticks(CommandSettled(memo), room', player, 0, orders, loads, NoCommand)
  /\ touched' = FALSE
  /\ UNCHANGED <<clock, player>>

\* Another client of the Room; update ticks at once.
RoomChanges ==
  /\ counts.room < MaxRoom
  /\ \E r \in {[room EXCEPT !.playing = ~@]} \cup {[room EXCEPT !.position = x] : x \in {0, Duration - 2}}
             \cup {Start(room, i) : i \in 1..Items} :
       /\ r # room /\ (room.index # 0 \/ r.index # 0)
       /\ room' = r
       /\ Ticks(memo, r, player, 0, orders, loads, command)
  /\ counts' = [counts EXCEPT !.room = @ + 1]
  /\ UNCHANGED <<clock, player, touched>>

\* refreshClock has its first estimate.
ClockKnown ==
  /\ ~clock /\ clock' = TRUE
  /\ UNCHANGED <<room, player, orders, loads, memo, command, touched, counts>>

\* The listener: OS controls reach the engine, not the Room.
ListenerActs ==
  /\ counts.local < MaxLocal /\ player.item # 0 /\ player.status \in {"playing", "paused"}
  /\ player' \in {[player EXCEPT !.status = IF @ = "playing" THEN "paused" ELSE "playing"],
                  [player EXCEPT !.position = 0], [player EXCEPT !.position = Duration - 1],
                  [item |-> Lesser(player.item + 1, Items), status |-> "playing", position |-> 0],
                  [item |-> 0, status |-> "paused", position |-> 0]}
  /\ player' # player
  /\ touched' = TRUE
  /\ counts' = [counts EXCEPT !.local = @ + 1]
  /\ UNCHANGED <<room, clock, orders, loads, memo, command>>

\* A Track that breaks here.
TrackFails ==
  /\ counts.trouble < MaxTrouble /\ player.status = "playing"
  /\ player' = [player EXCEPT !.status = "error"]
  /\ counts' = [counts EXCEPT !.trouble = @ + 1]
  /\ UNCHANGED <<room, clock, orders, loads, memo, command, touched>>

Init ==
  /\ room = [index |-> 0, playing |-> FALSE, position |-> 0] /\ clock = FALSE
  /\ player \in {[item |-> 0, status |-> "paused", position |-> 0]}
  /\ orders = <<>> /\ loads = {} /\ memo = InitialMemo /\ command = NoCommand
  /\ touched = FALSE /\ counts = [room |-> 0, local |-> 0, trouble |-> 0]

Next ==
  \/ Tick \/ EngineObeys \/ (\E l \in loads : Resolved(l) \/ LoadFails(l) \/ Loaded(l)) \/ CommandAnswered
  \/ RoomChanges \/ ClockKnown \/ ListenerActs \/ TrackFails

Fairness ==
  /\ WF_vars(Tick) /\ WF_vars(EngineObeys) /\ WF_vars(CommandAnswered) /\ WF_vars(ClockKnown)
  /\ \A l \in Loads : WF_vars(Resolved(l) \/ Loaded(l))

Spec == Init /\ [][Next]_vars /\ Fairness

-----------------------------------------------------------------------------
\* TypeOK: the state of the module.
TypeOK ==
  /\ room.index \in 0..Items /\ room.playing \in BOOLEAN /\ room.position \in Positions
  /\ player.item \in 0..Items /\ player.status \in {"playing", "paused", "ended", "error"} /\ player.position \in Positions
  /\ memo.loading \in 0..Items /\ memo.echo \in 0..Echo /\ memo.cooldown \in 0..MaxCooldown /\ memo.seeks \in Nat
  /\ Len(orders) <= 6 /\ loads \subseteq Loads

\* EchoIsNoCommand: what sync itself does to the Player, and what time and the network do
\* to it, is never taken for a change of its listener and sent to the Room: a pause, a
\* resume, a seek or a skip goes out only after the listener moved the Player.  (A load
\* that was overtaken after its check moves it too: RoomSyncDriver.load.)
EchoIsNoCommand == command.type \notin {"none", "end"} => touched

InSync ==
  \/ room.index = 0 /\ player.status # "playing"
  \/ /\ player.item = room.index
     /\ \/ player.status = "error"
        \/ player.status = "ended" /\ (~room.playing \/ room.position >= Duration - EndMargin)
        \/ /\ IsAudible(player) = room.playing
           /\ Abs(player.position - room.position) <= Drift \/ room.position >= Duration - EndMargin
  \/ memo.failed = room.index
=============================================================================
