--------------------------- MODULE ListenTogether ---------------------------
(***************************************************************************)
(* The Room service of the Music Server:                                   *)
(* src/server/src/modules/listen_together/service.rs, with the event       *)
(* streams of handlers.rs and the audio streams of gate.rs.                *)
(*                                                                         *)
(* One mutex guards the slot that holds the Room.  Every operation is one  *)
(* critical section, except that                                           *)
(*   - a command takes the lock twice, around the library read;            *)
(*   - `close` takes the Room out of the slot and ends it after the lock   *)
(*     is released, while `lock` ends an expired Room holding the lock;    *)
(*   - event streams read the feed and their session's revocation without  *)
(*     the lock, and let go of their presence later, with it.              *)
(*                                                                         *)
(* Instants are kept as what is left of the Room's life and as how long a  *)
(* Guest has been without a stream, counted up to where the code's         *)
(* comparison no longer changes.  An operation that is refused (Disabled,  *)
(* NotFound, RateLimited, BadCommand, ...) changes nothing but what `lock` *)
(* does, which is an action here, so refusals are not actions of their own.*)
(***************************************************************************)
EXTENDS RoomState, FiniteSets, Functions

CONSTANTS
  Keys,            \* the session keys ever handed out (hashes of cookies)
  MaxGuests,       \* LISTEN_TOGETHER_MAX_GUESTS
  RoomLifetime,    \* Timings.room_lifetime, in ticks
  GuestGrace,      \* Timings.guest_grace, in ticks
  MaxAudioStreams, \* MAX_AUDIO_STREAMS
  AudioTargets,    \* request paths of Track streams
  StreamIds,       \* event-stream connections open at a time
  Requests,        \* the command requests ever sent
  Commands,        \* the commands they carry
  ClockReadings,   \* what now_ms may answer
  MaxRooms,        \* bound: Rooms ever opened
  MaxAudioOpens    \* bound: audio streams ever opened

ASSUME ListenTogetherAssumption ==
  /\ MaxGuests \in Nat
  /\ RoomLifetime \in Nat \ {0}
  /\ GuestGrace \in Nat
  /\ MaxAudioStreams \in Nat \ {0}
  /\ ClockReadings \subseteq Ms
  /\ \A c \in Commands : IsCommand(c)
  /\ MaxRooms \in Nat /\ MaxAudioOpens \in Nat
  /\ "owner" \notin Keys
  /\ IsFiniteSet(Keys) /\ IsFiniteSet(StreamIds)

VARIABLES
  room,       \* the slot: the open Room, or NoRoom
  feeds,      \* the watch channel of every Room so far, by generation
  closing,    \* Rooms taken from the slot and not yet ended
  issued,     \* the session keys handed out
  revoked,    \* the sessions whose revocation was sent
  sweepers,   \* generations whose sweeper task runs
  streams,    \* event streams, by connection
  requests,   \* command requests
  nextAudio,  \* next_audio_stream
  bodies      \* audio responses holding an AudioStreamSlot

vars == <<room, feeds, closing, issued, revoked, sweepers, streams, requests,
          nextAudio, bodies>>

Owner == "owner"

NoRoom == [generation |-> 0]

NewGuest == [openStreams |-> 0, absentFor |-> 0, audio |-> {}]

NoGuests == [k \in {} |-> NewGuest]

NoStream ==
  [stage |-> "none", client |-> Owner, generation |-> 0, seen |-> 0,
   sent |-> 0, said |-> "nothing", late |-> 0]

NewRequest == [stage |-> "new"]
DoneRequest == [stage |-> "done"]

IsOpen == room # NoRoom

Members == IF IsOpen THEN DOMAIN room.guests ELSE {}

Init ==
  /\ room = NoRoom
  /\ feeds = << >>
  /\ closing = {}
  /\ issued = {}
  /\ revoked = {}
  /\ sweepers = {}
  /\ streams = [s \in StreamIds |-> NoStream]
  /\ requests = [r \in Requests |-> NewRequest]
  /\ nextAudio = 1
  /\ bodies = {}

-----------------------------------------------------------------------------
(* The lock *)

Expired == IsOpen /\ room.left = 0

LockHeld == \E c \in closing : c.holdsLock

\* What every locked operation may rely on: `lock` has closed an expired Room.
CanEnter == ~LockHeld /\ ~Expired

\* Room::close, up to its first effect: the Room is out of the slot.  `guests`
\* is who was in it, `keys` whose session has yet to be revoked.
TakeRoom(holdsLock) ==
  /\ room' = NoRoom
  /\ closing' = closing \cup {[generation |-> room.generation, told |-> FALSE,
                               guests |-> DOMAIN room.guests,
                               keys |-> DOMAIN room.guests,
                               holdsLock |-> holdsLock]}

\* `lock`, called by any operation, finds the Room expired.
LockClosesExpired ==
  /\ ~LockHeld
  /\ Expired
  /\ TakeRoom(TRUE)
  /\ UNCHANGED <<feeds, issued, revoked, sweepers, streams, requests, nextAudio,
                 bodies>>

\* The Owner closes the Room.
Close ==
  /\ CanEnter
  /\ IsOpen
  /\ TakeRoom(FALSE)
  /\ UNCHANGED <<feeds, issued, revoked, sweepers, streams, requests, nextAudio,
                 bodies>>

\* What is left of a closing Room after one more of its steps.
Continue(c, d) ==
  closing' = (closing \ {c}) \cup (IF d.told /\ d.keys = {} THEN {} ELSE {d})

TellFeedLate(c) ==  \* mutant: the feed is told after the sessions are revoked
  /\ ~c.told
  /\ IF c.keys = {}
     THEN /\ feeds' = [feeds EXCEPT ![c.generation].version = @ + 1,
                                    ![c.generation].closed = TRUE]
          /\ closing' = closing \ {c}
          /\ UNCHANGED revoked
     ELSE /\ \E k \in c.keys :
               /\ revoked' = revoked \cup {k}
               /\ closing' = (closing \ {c}) \cup {[c EXCEPT !.keys = @ \ {k}]}
          /\ UNCHANGED feeds
  /\ UNCHANGED <<room, issued, sweepers, streams, requests, nextAudio, bodies>>

\* Room::close tells every event stream first ...
TellFeed(c) ==
  /\ ~c.told
  /\ feeds' = [feeds EXCEPT ![c.generation].version = @ + 1,
                            ![c.generation].closed = TRUE]
  /\ Continue(c, [c EXCEPT !.told = TRUE])
  /\ UNCHANGED <<room, issued, revoked, sweepers, streams, requests, nextAudio,
                 bodies>>

\* ... then ends the Guest sessions, one after the other.
RevokeNext(c, k) ==
  /\ c.told
  /\ k \in c.keys
  /\ revoked' = revoked \cup {k}
  /\ Continue(c, [c EXCEPT !.keys = @ \ {k}])
  /\ UNCHANGED <<room, feeds, issued, sweepers, streams, requests, nextAudio,
                 bodies>>

-----------------------------------------------------------------------------
(* Opening, joining, leaving *)

\* A new generation with its own feed and its own sweeper.
Open(now) ==
  /\ CanEnter
  /\ ~IsOpen
  /\ Len(feeds) < MaxRooms
  /\ room' = [generation |-> Len(feeds) + 1, left |-> RoomLifetime,
              guests |-> NoGuests, state |-> NewRoomState(now)]
  /\ feeds' = Append(feeds, [version |-> 0, closed |-> FALSE,
                             state |-> NewRoomState(now)])
  /\ sweepers' = sweepers \cup {Len(feeds) + 1}
  /\ UNCHANGED <<closing, issued, revoked, streams, requests, nextAudio, bodies>>

\* Room::publish
Publish(s) ==
  feeds' = [feeds EXCEPT ![room.generation] =
              [version |-> @.version + 1, closed |-> FALSE, state |-> s]]

SetGuestsUnpublished(guests) ==  \* mutant: the new count is not published
  /\ room' = [room EXCEPT !.guests = guests,
                          !.state = SetGuestCount(@, Cardinality(DOMAIN guests))]
  /\ UNCHANGED feeds

\* The Guests changed: the count in the snapshot follows, and is published.
SetGuests(guests) ==
  LET s == SetGuestCount(room.state, Cardinality(DOMAIN guests))
  IN  /\ room' = [room EXCEPT !.guests = guests, !.state = s]
      /\ Publish(s)

JoinWithOldCookie(invite, k) ==  \* mutant: a cookie whose session ended is kept
  /\ CanEnter
  /\ IsOpen
  /\ invite = room.generation
  /\ k \in Keys \ DOMAIN room.guests
  /\ Cardinality(DOMAIN room.guests) < MaxGuests
  /\ SetGuests([g \in DOMAIN room.guests \cup {k} |->
                  IF g = k THEN NewGuest ELSE room.guests[g]])
  /\ issued' = issued \cup {k}
  /\ UNCHANGED <<closing, revoked, sweepers, streams, requests, nextAudio, bodies>>

\* An Invite Link of the open Room is exchanged for a fresh session.  A
\* browser that still has a live session keeps it, which changes nothing.
Join(invite, k) ==
  /\ CanEnter
  /\ IsOpen
  /\ invite = room.generation
  /\ k \in Keys \ issued
  /\ Cardinality(DOMAIN room.guests) < MaxGuests
  /\ SetGuests([g \in DOMAIN room.guests \cup {k} |->
                  IF g = k THEN NewGuest ELSE room.guests[g]])
  /\ issued' = issued \cup {k}
  /\ UNCHANGED <<closing, revoked, sweepers, streams, requests, nextAudio, bodies>>

LeaveWithoutRevoking(k) ==  \* mutant: the Guest's streams are not told
  /\ CanEnter
  /\ k \in Members
  /\ SetGuests(Restrict(room.guests, DOMAIN room.guests \ {k}))
  /\ UNCHANGED <<closing, issued, revoked, sweepers, streams, requests, nextAudio,
                 bodies>>

Leave(k) ==
  /\ CanEnter
  /\ k \in Members
  /\ revoked' = revoked \cup {k}
  /\ SetGuests(Restrict(room.guests, DOMAIN room.guests \ {k}))
  /\ UNCHANGED <<closing, issued, sweepers, streams, requests, nextAudio, bodies>>

-----------------------------------------------------------------------------
(* The sweeper *)

StaysAtGrace(guest) ==  \* mutant: off by one at the end of the grace
  guest.openStreams > 0 \/ guest.absentFor <= GuestGrace

\* Whom the sweep lets stay.
Stays(guest) == guest.openStreams > 0 \/ guest.absentFor < GuestGrace

\* The sweeper of a Room that is gone stops itself.
SweeperStops(g) ==
  /\ CanEnter
  /\ g \in sweepers
  /\ ~IsOpen \/ room.generation # g
  /\ sweepers' = sweepers \ {g}
  /\ UNCHANGED <<room, feeds, closing, issued, revoked, streams, requests,
                 nextAudio, bodies>>

\* A sweep that finds Guests gone too long; another changes nothing.
Sweep(g) ==
  LET gone == {k \in Members : ~Stays(room.guests[k])}
  IN  /\ CanEnter
      /\ g \in sweepers
      /\ IsOpen /\ room.generation = g
      /\ gone # {}
      /\ revoked' = revoked \cup gone
      /\ SetGuests(Restrict(room.guests, DOMAIN room.guests \ gone))
      /\ UNCHANGED <<closing, issued, sweepers, streams, requests, nextAudio,
                     bodies>>

\* A Guest one tick later; whoever has a stream is not absent.
Aged(guest) ==
  IF guest.openStreams = 0 /\ guest.absentFor < GuestGrace
  THEN [guest EXCEPT !.absentFor = @ + 1]
  ELSE guest

\* Time passes for the Room and for its Guests.
Tick ==
  /\ IsOpen
  /\ room' = [room EXCEPT !.left = IF @ > 0 THEN @ - 1 ELSE 0,
                          !.guests = [k \in DOMAIN @ |-> Aged(@[k])]]
  /\ UNCHANGED <<feeds, closing, issued, revoked, sweepers, streams, requests,
                 nextAudio, bodies>>

-----------------------------------------------------------------------------
(* Commands *)

\* Room::require
Require(client) == client = Owner \/ client \in Members

\* The first critical section of `command`: the sender is there and within
\* its rate.  `generation` is history: the Room that took the command.
TakeCommand(r, client, c) ==
  /\ CanEnter
  /\ IsOpen
  /\ Require(client)
  /\ Validate(c)
  /\ requests[r] = NewRequest
  /\ requests' = [requests EXCEPT ![r] =
       [stage |-> "taken", client |-> client, command |-> c,
        generation |-> room.generation]]
  /\ UNCHANGED <<room, feeds, closing, issued, revoked, sweepers, streams,
                 nextAudio, bodies>>

\* require_tracks: the library does not have a Track, or the read fails, or
\* the client goes away while it is awaited.
ReadFails(r) ==
  /\ requests[r].stage = "taken"
  /\ requests[r].command.type = "playTracks"
  /\ requests' = [requests EXCEPT ![r] = DoneRequest]
  /\ UNCHANGED <<room, feeds, closing, issued, revoked, sweepers, streams,
                 nextAudio, bodies>>

ApplyCommandUnchecked(r, now) ==  \* mutant: the session is not checked again
  /\ CanEnter
  /\ requests[r].stage = "taken"
  /\ requests' = [requests EXCEPT ![r] = DoneRequest]
  /\ IF IsOpen /\ Changes(room.state, requests[r].command)
     THEN LET s == Apply(room.state, requests[r].command, now)
          IN  room' = [room EXCEPT !.state = s] /\ Publish(s)
     ELSE UNCHANGED <<room, feeds>>
  /\ UNCHANGED <<closing, issued, revoked, sweepers, streams, nextAudio, bodies>>

\* The second critical section: whoever is not in the Room any more is
\* refused; a command that changed something is published.
ApplyCommand(r, now) ==
  /\ CanEnter
  /\ requests[r].stage = "taken"
  /\ requests' = [requests EXCEPT ![r] = DoneRequest]
  /\ IF IsOpen /\ Require(requests[r].client)
               /\ Changes(room.state, requests[r].command)
     THEN LET s == Apply(room.state, requests[r].command, now)
          IN  room' = [room EXCEPT !.state = s] /\ Publish(s)
     ELSE UNCHANGED <<room, feeds>>
  /\ UNCHANGED <<closing, issued, revoked, sweepers, streams, nextAudio, bodies>>

-----------------------------------------------------------------------------
(* Event streams *)

\* `subscribe`: a Guest's stream counts as presence from here on.
Subscribe(s, client) ==
  /\ CanEnter
  /\ IsOpen
  /\ Require(client)
  /\ streams[s] = NoStream
  /\ streams' = [streams EXCEPT ![s] =
       [stage |-> "subscribed", client |-> client, generation |-> room.generation,
        seen |-> feeds[room.generation].version, sent |-> 0, said |-> "nothing",
        late |-> 0]]
  /\ room' = IF client = Owner THEN room
             ELSE [room EXCEPT !.guests[client].openStreams = @ + 1]
  /\ UNCHANGED <<feeds, closing, issued, revoked, sweepers, requests, nextAudio,
                 bodies>>

FeedOf(stream) == feeds[stream.generation]

\* A frame of the feed's present value: a snapshot, or `room-closed`, after
\* which the stream ends.  `late` is history: snapshots sent to a Guest
\* whose session had ended.
Framed(stream) ==
  LET feed == FeedOf(stream)
      isLate == stream.client \in revoked
  IN  IF feed.closed
      THEN [stream EXCEPT !.stage = "ending", !.said = "closed",
                          !.seen = feed.version]
      ELSE [stream EXCEPT !.stage = "live", !.said = "state",
                          !.seen = feed.version, !.sent = feed.state.revision,
                          !.late = IF isLate THEN @ + 1 ELSE @]

StreamStep(s, stream) ==
  /\ streams' = [streams EXCEPT ![s] = stream]
  /\ UNCHANGED <<room, feeds, closing, issued, revoked, sweepers, requests,
                 nextAudio, bodies>>

\* event_stream: the current snapshot first.
FirstFrame(s) ==
  /\ streams[s].stage = "subscribed"
  /\ StreamStep(s, Framed(streams[s]))

\* EventStream::next looks at the revocation first.  Told that the session
\* ended, it reads the feed to tell a closed Room from a Guest who is out.
PollSession(s) ==
  LET stream == streams[s]
      isOut == stream.client \in revoked
  IN  /\ stream.stage = "live"
      /\ isOut \/ FeedOf(stream).version # stream.seen
      /\ StreamStep(s,
           IF ~isOut THEN [stream EXCEPT !.stage = "polled"]
           ELSE IF FeedOf(stream).closed
           THEN [stream EXCEPT !.stage = "ending", !.said = "closed"]
           ELSE [stream EXCEPT !.stage = "ending"])

\* ... then at the feed.  The revocation may have come in between.
PollFeed(s) ==
  /\ streams[s].stage = "polled"
  /\ StreamStep(s, Framed(streams[s]))

StreamEndsPresence(s) ==  \* mutant: presence is a flag, not a count
  LET k == streams[s].client
  IN  /\ streams[s].stage # "none"
      /\ k # Owner => CanEnter
      /\ streams' = [streams EXCEPT ![s] = NoStream]
      /\ room' =
           IF k \in Members /\ room.generation = streams[s].generation
           THEN [room EXCEPT !.guests[k].openStreams = 0, !.guests[k].absentFor = 0]
           ELSE room
      /\ UNCHANGED <<feeds, closing, issued, revoked, sweepers, requests,
                     nextAudio, bodies>>

\* Presence::drop and stream_ended: the stream is over, by itself or because
\* the client went away.  The last one starts the Guest's grace.
StreamEnds(s) ==
  LET k == streams[s].client
      isPresent == k \in Members /\ room.generation = streams[s].generation
      open == room.guests[k].openStreams
      left == IF open > 0 THEN open - 1 ELSE 0
  IN  /\ streams[s].stage # "none"
      /\ k # Owner => CanEnter
      /\ streams' = [streams EXCEPT ![s] = NoStream]
      /\ room' =
           IF isPresent
           THEN [room EXCEPT !.guests[k].openStreams = left,
                             !.guests[k].absentFor = IF left = 0 THEN 0 ELSE @]
           ELSE room
      /\ UNCHANGED <<feeds, closing, issued, revoked, sweepers, requests,
                     nextAudio, bodies>>

-----------------------------------------------------------------------------
(* Audio streams *)

PlacesKeptAll(audio, target) == audio  \* mutant: the oldest keeps its place

\* The places a Guest's further stream of `target` leaves in use, where there
\* is room for it: at the limit it replaces the oldest stream of that Track.
PlacesKept(audio, target) ==
  LET same == {a \in audio : a.target = target}
      oldest == CHOOSE a \in same : \A b \in same : a.id <= b.id
  IN  IF Cardinality(audio) < MaxAudioStreams THEN audio ELSE audio \ {oldest}

OpenAudioStream(k, target) ==
  /\ CanEnter
  /\ k \in Members
  /\ nextAudio <= MaxAudioOpens
  /\ LET audio == room.guests[k].audio
     IN  /\ Cardinality(audio) < MaxAudioStreams
              \/ \E a \in audio : a.target = target
         /\ room' = [room EXCEPT !.guests[k].audio =
              PlacesKept(audio, target) \cup {[id |-> nextAudio, target |-> target]}]
  /\ nextAudio' = nextAudio + 1
  /\ bodies' = bodies \cup {[generation |-> room.generation, key |-> k,
                             id |-> nextAudio]}
  /\ UNCHANGED <<feeds, closing, issued, revoked, sweepers, streams, requests>>

\* AudioStreamSlot::drop: the body is over, whatever ended it.
AudioStreamEnds(b) ==
  /\ CanEnter
  /\ b \in bodies
  /\ bodies' = bodies \ {b}
  /\ room' = IF b.key \in Members /\ room.generation = b.generation
             THEN [room EXCEPT !.guests[b.key].audio = {a \in @ : a.id # b.id}]
             ELSE room
  /\ UNCHANGED <<feeds, closing, issued, revoked, sweepers, streams, requests,
                 nextAudio>>

-----------------------------------------------------------------------------

Next ==
  \/ LockClosesExpired
  \/ Close
  \/ \E c \in closing : TellFeed(c) \/ \E k \in c.keys : RevokeNext(c, k)
  \/ \E now \in ClockReadings : Open(now)
  \/ \E invite \in 1..Len(feeds), k \in Keys : Join(invite, k)
  \/ \E k \in Keys : Leave(k)
  \/ \E g \in sweepers : SweeperStops(g) \/ Sweep(g)
  \/ Tick
  \/ \E r \in Requests :
       \/ \E client \in Keys \cup {Owner}, c \in Commands : TakeCommand(r, client, c)
       \/ ReadFails(r)
       \/ \E now \in ClockReadings : ApplyCommand(r, now)
  \/ \E s \in StreamIds :
       \/ \E client \in Keys \cup {Owner} : Subscribe(s, client)
       \/ FirstFrame(s) \/ PollSession(s) \/ PollFeed(s) \/ StreamEnds(s)
  \/ \E k \in Keys, t \in AudioTargets : OpenAudioStream(k, t)
  \/ \E b \in bodies : AudioStreamEnds(b)

Spec == Init /\ [][Next]_vars

\* What the runtime keeps doing.  The sweeper of an open Room runs every
\* sweep_interval and takes the lock, so an expired Room is closed and absent
\* Guests go; a closing Room's steps have no await between them; a client that
\* reads its event stream has it polled, and a stream that ended is dropped.
\* That time goes on is not assumed: what is due now happens without it.
Fairness ==
  /\ WF_vars(sweepers # {} /\ LockClosesExpired)
  /\ WF_vars(\E g \in sweepers : Sweep(g))
  /\ WF_vars(\E c \in closing : TellFeed(c) \/ \E k \in c.keys : RevokeNext(c, k))
  /\ \A s \in StreamIds :
       /\ WF_vars(FirstFrame(s) \/ PollSession(s) \/ PollFeed(s))
       /\ WF_vars(streams[s].stage = "ending" /\ StreamEnds(s))

FairSpec == Spec /\ Fairness

-----------------------------------------------------------------------------
(* Types *)

Guests ==
  [openStreams : Nat, absentFor : 0..GuestGrace,
   audio : SUBSET [id : Nat, target : AudioTargets]]

IsRoom(r) ==
  /\ r \in [generation : Nat \ {0}, left : 0..RoomLifetime, state : RoomStates,
            guests : {r.guests}]
  /\ DOMAIN r.guests \subseteq Keys
  /\ r.guests \in [DOMAIN r.guests -> Guests]

TakenRequests ==
  [stage : {"taken"}, client : Keys \cup {Owner}, generation : Nat,
   command : {c \in Commands : Validate(c)}]

Feeds == [version : Nat, closed : BOOLEAN, state : RoomStates]

ClosingRooms ==
  [generation : Nat, told : BOOLEAN, guests : SUBSET Keys, keys : SUBSET Keys,
   holdsLock : BOOLEAN]

Streams ==
  [stage : {"none", "subscribed", "live", "polled", "ending"},
   client : Keys \cup {Owner}, generation : Nat, seen : Nat, sent : Nat,
   said : {"nothing", "state", "closed"}, late : Nat]

\* The service's state has the shape of its Rust types, and whatever refers to
\* a Room by its generation refers to one that was opened.
TypeOK ==
  /\ IsOpen => /\ IsRoom(room)
               /\ room.generation = Len(feeds)
               /\ CurrentInQueue(room.state)
  /\ feeds \in Seq(Feeds)
  /\ closing \subseteq ClosingRooms
  /\ \A c \in closing : c.generation \in DOMAIN feeds
  /\ issued \subseteq Keys
  /\ revoked \subseteq Keys
  /\ sweepers \subseteq DOMAIN feeds
  /\ streams \in [StreamIds -> Streams]
  /\ \A s \in StreamIds :
       streams[s].stage # "none" => streams[s].generation \in DOMAIN feeds
  /\ requests \in [Requests -> TakenRequests \cup {NewRequest, DoneRequest}]
  /\ nextAudio \in Nat
  /\ \A b \in bodies : b.generation \in DOMAIN feeds /\ b.key \in Keys

-----------------------------------------------------------------------------
(* Safety *)

\* The Room never holds more Guests than it may: `join` counts and inserts in
\* one critical section.
GuestLimit == Cardinality(Members) <= MaxGuests

\* Every session handed out is in exactly one of three places: in the open
\* Room, in a Room that is being closed and will still revoke it, or revoked.
\* So a session that ended is told so exactly then, and never comes back,
\* across Leave, the sweeper, expiry, and closing a Room while the next one is
\* already open.
PendingRevocations == UNION {c.keys : c \in closing}

SessionsAccountedFor ==
  /\ issued = Members \cup PendingRevocations \cup revoked
  /\ Members \cap (PendingRevocations \cup revoked) = {}
  /\ PendingRevocations \cap revoked = {}

\* The account of sessions and places is exact in every state: their shapes, the
\* limit, and where each session handed out is (service.rs, join, leave, close,
\* sweep).
PlacesAreExact == TypeOK /\ GuestLimit /\ SessionsAccountedFor

\* The promise about places, as ListenTogether keeps it.
Places == INSTANCE GuestPlaces WITH
  current <- room.generation, rooms <- Len(feeds),
  members <- Members, ended <- issued \ Members

\* Through locking, two-step closing, sweeping and expiry the service keeps to
\* the abstract account of places: one Room at a time, admission only to the
\* open Room and only below its limit, and no way back for an ended session.
KeepsPlaces == Places!Spec

\* The feed of the open Room is its state: no change of the Room goes
\* unpublished, a snapshot counts exactly the Guests who hold a place, and
\* nothing is published to a Room that was told it is closed.
FeedIsCurrent ==
  IsOpen => /\ feeds[room.generation].state = room.state
            /\ ~feeds[room.generation].closed
            /\ room.state.guestCount = Cardinality(Members)

StreamsOf(k) ==
  {s \in StreamIds : streams[s].stage # "none" /\ streams[s].client = k}

\* A Guest's presence is the number of their streams not yet dropped, through
\* reconnects that overlap the old stream's end: the sweeper never removes a
\* Guest who is connected, nor keeps one who is not.
PresenceIsExact ==
  \A k \in Members : room.guests[k].openStreams = Cardinality(StreamsOf(k))

\* "A snapshot waiting in the channel loses to a revocation, so a Guest who is
\* out receives nothing more" (handlers.rs, EventStream::next).  The code
\* guarantees almost that: one snapshot at most gets past the revocation, the
\* stream's first or one whose poll had already passed the session.
OutReceivesAtMostOne == \A s \in StreamIds : streams[s].late <= 1

\* A stream that ends without `room-closed` belonged to a Guest who was out
\* before the Room closed: whoever was in the Room to its end is told so, and
\* a Guest's page does not mistake a closed Room for a lost connection.
SilentEndMeansOut ==
  [][\A s \in StreamIds :
       streams[s].stage = "live" /\ streams'[s].stage = "ending"
         /\ streams'[s].said # "closed"
       => \A c \in closing : streams[s].client \notin c.guests]_vars

\* Every snapshot a stream sends after its first is newer by revision than the
\* one before, so no client (isStaleSnapshot) drops it as old.
FramesAdvance ==
  [][\A s \in StreamIds :
       streams[s].stage = "polled" /\ streams'[s].stage = "live"
       => streams'[s].sent > streams[s].sent]_vars

\* What a member is told by an event stream is true, to its last frame: at most one
\* snapshot after the member is out, no silent end for who was in, and every frame
\* newer than the one before (handlers.rs, EventStream::next).
MembersAreToldTheTruth == []OutReceivesAtMostOne /\ SilentEndMeansOut /\ FramesAdvance

\* The command request r changes the Room in this step.
Applies(r) ==
  /\ requests[r].stage = "taken" /\ requests'[r] = DoneRequest
  /\ IsOpen /\ room' # room

\* "The session or the Room may have ended during that read." (service.rs,
\* command): a Guest's command changes only the Room that took it, and only
\* while the Guest is in it, although the library is read in between without
\* the lock.  (The Owner belongs to every Room, so the Owner's may change the
\* next one.)
GuestCommandStaysInRoom ==
  [][\A r \in Requests :
       Applies(r) /\ requests[r].client # Owner
       => /\ requests[r].client \in Members
          /\ requests[r].generation = room.generation]_vars

\* Every place among a Guest's audio streams belongs to a response that is
\* still open and will give it back, and there are never more than the limit:
\* a seek that replaces a stream neither leaks its place nor frees it twice.
AudioPlacesAreHeld ==
  \A k \in Members :
    /\ Cardinality(room.guests[k].audio) <= MaxAudioStreams
    /\ \A a \in room.guests[k].audio :
         [generation |-> room.generation, key |-> k, id |-> a.id] \in bodies

-----------------------------------------------------------------------------
(* Liveness *)

\* A Room whose time is over ends, even if nobody ever calls again: its own
\* sweeper runs until then.
RoomEnds ==
  \A g \in 1..MaxRooms :
    (room.generation = g /\ room.left = 0) ~> room.generation # g

\* A Guest without a stream for the length of the grace returns or gives up
\* the place, without waiting for the Room to expire: the sweeper of an open
\* Room never stops, and no other Room's sweeper takes its part.
AbsentGuestGoes ==
  \A k \in Keys :
    (k \in Members /\ ~Expired /\ room.guests[k].openStreams = 0
        /\ room.guests[k].absentFor = GuestGrace)
      ~> (k \notin Members \/ Expired \/ room.guests[k].openStreams > 0)

\* Every stream of a Room that was closed ends and is dropped.
StreamsEndWithRoom ==
  \A s \in StreamIds, g \in 1..MaxRooms :
    (streams[s].stage # "none" /\ streams[s].generation = g /\ feeds[g].closed)
      ~> streams[s].stage = "none"

\* Nothing of a Room outlasts it or its Guests' absence: Rooms end, places of Guests
\* who are gone are given up, and streams are dropped (service.rs, sweep, lock, close).
RoomsComeToAnEnd == RoomEnds /\ AbsentGuestGoes /\ StreamsEndWithRoom
=============================================================================
