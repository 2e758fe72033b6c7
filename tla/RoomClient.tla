---------------------------- MODULE RoomClient -----------------------------
(***************************************************************************)
(* A client's part in a Room: which Room it shows, in which revision, its  *)
(* event stream, its requests and the Player it drives.                    *)
(* src/packages/ui/src/listen-together/ListenTogetherProvider.tsx,         *)
(* src/packages/api-client/src/room-events.ts and the start and finish of  *)
(* RoomSyncDriver.ts.                                                      *)
(*                                                                         *)
(* The Music Server is what its answers show: Rooms that follow one        *)
(* another, each counting its revisions from 1 (RoomState, ListenTogether  *)
(* have it in full).  React renders between two events.                    *)
(***************************************************************************)
EXTENDS Integers, Sequences, FiniteSets

CONSTANTS
  Role,                               \* "owner" or "guest"
  MaxRooms, MaxRevision, MaxFlights, MaxDrops, MaxInbox   \* bounds

VARIABLES
  server,   \* the Room on the server: id, revision, whether it is open
  session,  \* the Room a Guest's session belongs to; 0 is none
  shown,    \* roomRef: the Room and revision on the page, or None
  newest,   \* newestRevisionRef; 0 is null
  stream,   \* the subscription: stage, what is on its way, what was sent last
  flights,  \* requests and their answers under way
  player,   \* the driver: whether it follows, what prepareEngine saved, how it was left
  counts    \* requests made, drops

vars == <<server, session, shown, newest, stream, flights, player, counts>>

None == [id |-> 0, revision |-> 0]
Snapshot == [id |-> server.id, revision |-> server.revision]
Closed == [id |-> -1, revision |-> 0]    \* the room-closed event
NoStream == [stage |-> "off", inbox |-> <<>>, last |-> None]

\* 401 or 404: no Room, or a session that is over.
GoneFor(s) == ~server.open \/ (Role = "guest" /\ s # server.id)
RoomGone == GoneFor(session)

-----------------------------------------------------------------------------
(* The server, changed by everybody else. *)

RoomChanges ==
  /\ server.open /\ server.revision < MaxRevision
  /\ server' = [server EXCEPT !.revision = @ + 1]
  /\ UNCHANGED <<session, shown, newest, stream, flights, player, counts>>

RoomCloses ==
  /\ server.open
  /\ server' = [server EXCEPT !.open = FALSE]
  /\ session' = 0
  /\ UNCHANGED <<shown, newest, stream, flights, player, counts>>

OtherOpens ==
  /\ ~server.open /\ server.id < MaxRooms
  /\ server' = [id |-> server.id + 1, revision |-> 1, open |-> TRUE]
  /\ UNCHANGED <<session, shown, newest, stream, flights, player, counts>>

-----------------------------------------------------------------------------
(* adoptRoom and endRoom. *)

\* isStaleSnapshot.
IsStaleSnapshot(next) == newest # 0 /\ next.revision < newest

\* The driver's prepareEngine, once for a Room.
Follows == player' = [player EXCEPT !.follows = TRUE, !.saved = TRUE]

\* A first snapshot subscribes to the events and starts the driver.
AdoptRoom(next, known) ==
  IF known # 0 /\ IsStaleSnapshot(next)
  THEN UNCHANGED <<shown, player>> /\ newest' = known
  ELSE /\ shown' = next /\ newest' = next.revision
       /\ IF shown = None THEN Follows ELSE UNCHANGED player

\* The Player is left without its own settings, as suspend does.
FinishesSuspended == player' = [player EXCEPT !.follows = FALSE, !.left = IF Role = "guest" THEN "stopped" ELSE "paused"]

\* The Player is left as it was found: finish and restoreEngine.
Finishes == player' = [follows |-> FALSE, saved |-> FALSE, left |-> IF Role = "guest" THEN "stopped" ELSE "paused"]

EndRoom ==
  IF shown = None THEN UNCHANGED <<shown, newest, player>>
  ELSE shown' = None /\ newest' = 0 /\ Finishes

\* The effect on hasRoom: subscribe with the first snapshot, abort with the end.
Resubscribes(next) ==
  stream' = IF shown' = None THEN NoStream
            ELSE IF shown = None THEN [NoStream EXCEPT !.stage = "connecting"] ELSE next

-----------------------------------------------------------------------------
(* subscribeRoomEvents in "stream" mode. *)

\* A new stream begins with the Room State; one that is refused looks like a drop.
Connect ==
  /\ stream.stage = "connecting"
  /\ stream' = IF RoomGone THEN [NoStream EXCEPT !.stage = "down"]
               ELSE [stage |-> "live", inbox |-> <<Snapshot>>, last |-> Snapshot]
  /\ UNCHANGED <<server, session, shown, newest, flights, player, counts>>

\* A changed Room State, or the end of the stream's Room.
Push ==
  /\ stream.stage = "live" /\ Len(stream.inbox) < MaxInbox /\ stream.last # Closed
  /\ \/ ~RoomGone /\ stream.last.id = server.id /\ stream.last # Snapshot
        /\ stream' = [stream EXCEPT !.inbox = Append(@, Snapshot), !.last = Snapshot]
     \/ (RoomGone \/ stream.last.id # server.id)
        /\ stream' = [stream EXCEPT !.inbox = Append(@, Closed), !.last = Closed]
  /\ UNCHANGED <<server, session, shown, newest, flights, player, counts>>

Deliver ==
  /\ stream.stage = "live" /\ stream.inbox # <<>>
  /\ LET event == Head(stream.inbox)
     IN /\ IF event = Closed THEN EndRoom ELSE AdoptRoom(event, newest)
        /\ Resubscribes([stream EXCEPT !.inbox = Tail(@)])
  /\ UNCHANGED <<server, session, flights, counts>>

\* The connection drops: what was on its way is lost.
Drop ==
  /\ stream.stage = "live" /\ counts.drops < MaxDrops
  /\ stream' = [NoStream EXCEPT !.stage = "down"]
  /\ counts' = [counts EXCEPT !.drops = @ + 1]
  /\ UNCHANGED <<server, session, shown, newest, flights, player>>

\* The server ends a stream whose Room is gone, or whose session is.
StreamEnds ==
  /\ stream.stage = "live" /\ stream.inbox = <<>> /\ stream.last # Closed /\ RoomGone
  /\ stream' = [NoStream EXCEPT !.stage = "down"]
  /\ UNCHANGED <<server, session, shown, newest, flights, player, counts>>

\* After the delay the stream is opened again, which a gone Room refuses.
ReconnectOnly ==
  /\ stream.stage = "down"
  /\ stream' = [NoStream EXCEPT !.stage = "connecting"]
  /\ UNCHANGED <<server, session, shown, newest, flights, player, counts>>

\* After the delay the Room State is read, so that an end is seen.
ReadRoom ==
  /\ stream.stage = "down"
  /\ IF RoomGone THEN EndRoom ELSE AdoptRoom(Snapshot, newest)
  /\ Resubscribes([NoStream EXCEPT !.stage = "connecting"])
  /\ UNCHANGED <<server, session, flights, counts>>

-----------------------------------------------------------------------------
(* Requests, with the session they were sent with.  The server answers one when it     *)
(* takes it; the answer may be late.                                                    *)

Asks(kind) ==
  /\ counts.flights < MaxFlights
  /\ flights' = flights \cup {[n |-> counts.flights, kind |-> kind, session |-> session, answer |-> "none", room |-> None]}
  /\ counts' = [counts EXCEPT !.flights = @ + 1]

Command ==
  /\ shown # None /\ Asks("command")
  /\ UNCHANGED <<server, session, shown, newest, stream, player>>

\* openRoom forgets the newest revision before it asks.
OpenRoom ==
  /\ Role = "owner" /\ shown = None /\ \A a \in flights : a.kind # "open"
  /\ Asks("open") /\ newest' = 0
  /\ UNCHANGED <<server, session, shown, stream, player>>

LeaveRoom ==
  /\ shown # None /\ Asks("leave")
  /\ UNCHANGED <<server, session, shown, newest, stream, player>>

JoinRoom ==
  /\ Role = "guest" /\ shown = None /\ \A a \in flights : a.kind \notin {"join", "fetch"}
  /\ Asks("join")
  /\ UNCHANGED <<server, session, shown, newest, stream, player>>

\* The first look, and the Owner's when the window gets the focus.
FetchRoom ==
  /\ shown = None /\ (Role = "owner" \/ counts.flights = 0) /\ Asks("fetch")
  /\ UNCHANGED <<server, session, shown, newest, stream, player>>

Opened == [id |-> server.id + 1, revision |-> 1, open |-> TRUE]

ServerAnswers(a) ==
  /\ a \in flights /\ a.answer = "none"
  /\ LET says(answer, room) == flights' = (flights \ {a}) \cup {[a EXCEPT !.answer = answer, !.room = room]}
     IN \/ /\ a.kind \in {"command", "fetch"} /\ GoneFor(a.session) /\ says("gone", None) /\ UNCHANGED <<server, session>>
        \/ /\ a.kind = "command" /\ ~GoneFor(a.session) /\ server.revision < MaxRevision
           /\ server' = [server EXCEPT !.revision = @ + 1]
           /\ says("room", [Snapshot EXCEPT !.revision = @ + 1])
           /\ UNCHANGED session
        \/ a.kind = "fetch" /\ ~GoneFor(a.session) /\ says("room", Snapshot) /\ UNCHANGED <<server, session>>
        \/ /\ a.kind = "open"
           /\ IF server.open THEN says("room", Snapshot) /\ UNCHANGED server
              ELSE server.id < MaxRooms /\ server' = Opened /\ says("room", [id |-> Opened.id, revision |-> 1])
           /\ UNCHANGED session
        \/ /\ a.kind = "leave" /\ says("gone", None)
           /\ server' = IF Role = "owner" THEN [server EXCEPT !.open = FALSE] ELSE server
           /\ session' = 0
        \/ a.kind = "join" /\ server.open /\ session' = server.id /\ says("room", Snapshot) /\ UNCHANGED server
        \/ says("failed", None) /\ UNCHANGED <<server, session>>
  /\ UNCHANGED <<shown, newest, stream, player, counts>>

\* The answer on the page.
Receive(a) ==
  /\ a \in flights /\ a.answer # "none"
  /\ flights' = flights \ {a}
  /\ CASE a.answer = "room" -> AdoptRoom(a.room, IF a.kind = "join" THEN 0 ELSE newest)
       [] a.answer = "gone" /\ a.kind # "fetch" -> EndRoom
       [] OTHER -> UNCHANGED <<shown, newest, player>>
  /\ Resubscribes(stream)
  /\ UNCHANGED <<server, session, counts>>

Init ==
  /\ server \in {[id |-> 0, revision |-> 0, open |-> FALSE], [id |-> 1, revision |-> 1, open |-> TRUE]}
  /\ session = IF Role = "guest" THEN server.id ELSE 0
  /\ shown = None /\ newest = 0 /\ stream = NoStream /\ flights = {}
  /\ player = [follows |-> FALSE, saved |-> FALSE, left |-> "untouched"]
  /\ counts = [flights |-> 0, drops |-> 0]

StreamStep == Connect \/ Push \/ Deliver \/ StreamEnds \/ ReadRoom
Answers == \E a \in flights : ServerAnswers(a) \/ Receive(a)

Next ==
  \/ RoomChanges \/ RoomCloses \/ OtherOpens \/ StreamStep \/ Drop \/ Answers
  \/ Command \/ OpenRoom \/ LeaveRoom \/ JoinRoom \/ FetchRoom

\* The stream is read and reconnected as long as there is one, requests are answered.
Fairness == WF_vars(StreamStep) /\ WF_vars(Answers)

Spec == Init /\ [][Next]_vars /\ Fairness

-----------------------------------------------------------------------------
\* TypeOK: the state of the module.
TypeOK ==
  /\ server.id \in 0..MaxRooms /\ server.revision \in 0..MaxRevision /\ session \in 0..MaxRooms
  /\ shown.id \in 0..MaxRooms /\ newest \in 0..MaxRevision
  /\ stream.stage \in {"off", "connecting", "live", "down"} /\ Len(stream.inbox) <= MaxInbox
  /\ player.follows \in BOOLEAN /\ player.saved \in BOOLEAN /\ player.left \in {"untouched", "stopped", "paused"}

\* NeverBack, of every step: while a client shows a Room it never goes back to an earlier revision of
\* it, in whatever order command answers, reads and events arrive.  Unless it is joining:
\* a late answer from an earlier Room may show that Room and its stream the new one, until
\* the answer to the join comes.
NeverBack == shown'.id = shown.id /\ (\A a \in flights : a.kind # "join") => shown'.revision >= shown.revision

\* PlayerFollowsTheRoom: the Player is driven, its own settings put aside, exactly while
\* a Room is shown, and there is an event stream exactly then; so no Room leaves a Player
\* behind that follows nothing, or without its settings.
PlayerFollowsTheRoom ==
  /\ player.follows = (shown # None) /\ player.saved = player.follows
  /\ (stream.stage # "off") = (shown # None)
=============================================================================
