------------------------ MODULE ListenTogetherProofs ------------------------
(***************************************************************************)
(* Proofs about the Room service, for any number of sessions, streams,     *)
(* requests and Rooms and for any limits: first its critical sections and  *)
(* the account of sessions and places, then what outlives a critical       *)
(* section.                                                                *)
(***************************************************************************)
EXTENDS ListenTogether, RoomStateProofs, FiniteSetTheorems, WellFoundedInduction,
        TLAPS

-----------------------------------------------------------------------------
(* Updating the Room one field at a time *)

LEMMA OpenRoomIsRoom ==
  ASSUME NEW r, IsRoom(r)
  PROVE  r # NoRoom
BY DEF IsRoom, NoRoom

LEMMA RoomFields ==
  ASSUME NEW r, IsRoom(r)
  PROVE  /\ r.generation \in Nat \ {0}
         /\ r.left \in 0..RoomLifetime
         /\ r.state \in RoomStates
         /\ DOMAIN r.guests \subseteq Keys
         /\ r.guests \in [DOMAIN r.guests -> Guests]
BY DEF IsRoom

LEMMA WithGuests ==
  ASSUME NEW r, IsRoom(r), NEW g, DOMAIN g \subseteq Keys, g \in [DOMAIN g -> Guests]
  PROVE  /\ IsRoom([r EXCEPT !.guests = g])
         /\ [r EXCEPT !.guests = g].guests = g
         /\ [r EXCEPT !.guests = g].generation = r.generation
         /\ [r EXCEPT !.guests = g].left = r.left
         /\ [r EXCEPT !.guests = g].state = r.state
BY DEF IsRoom

LEMMA WithState ==
  ASSUME NEW r, IsRoom(r), NEW s \in RoomStates
  PROVE  /\ IsRoom([r EXCEPT !.state = s])
         /\ [r EXCEPT !.state = s].state = s
         /\ [r EXCEPT !.state = s].generation = r.generation
         /\ [r EXCEPT !.state = s].guests = r.guests
BY DEF IsRoom

LEMMA WithLeft ==
  ASSUME NEW r, IsRoom(r), NEW n \in 0..RoomLifetime
  PROVE  /\ IsRoom([r EXCEPT !.left = n])
         /\ [r EXCEPT !.left = n].generation = r.generation
         /\ [r EXCEPT !.left = n].guests = r.guests
         /\ [r EXCEPT !.left = n].state = r.state
BY DEF IsRoom

LEMMA SomeKeysFinite ==
  ASSUME NEW S \in SUBSET Keys
  PROVE  IsFiniteSet(S) /\ Cardinality(S) \in Nat
<1>1. IsFiniteSet(S)
  BY ListenTogetherAssumption, FS_Subset
<1> QED BY <1>1, FS_CardinalityType

LEMMA FeedPublished ==
  ASSUME NEW fs \in Seq(Feeds), NEW g \in 1..Len(fs), NEW f \in Feeds
  PROVE  /\ [fs EXCEPT ![g] = f] \in Seq(Feeds)
         /\ Len([fs EXCEPT ![g] = f]) = Len(fs)
         /\ [fs EXCEPT ![g] = f][g] = f
         /\ \A h \in 1..Len(fs) : h # g => [fs EXCEPT ![g] = f][h] = fs[h]
BY SMT

LEMMA PublishType ==
  ASSUME TypeOK, IsOpen, NEW s \in RoomStates, Publish(s)
  PROVE  /\ feeds' \in Seq(Feeds)
         /\ Len(feeds') = Len(feeds)
         /\ feeds'[room.generation].state = s
         /\ ~feeds'[room.generation].closed
<1> DEFINE f == [version |-> feeds[room.generation].version + 1, closed |-> FALSE,
                 state |-> s]
<1>1. room.generation \in 1..Len(feeds)
  BY RoomFields DEF TypeOK
<1>2. feeds \in Seq(Feeds) /\ feeds[room.generation] \in Feeds
  BY <1>1 DEF TypeOK
<1>3. f \in Feeds
  BY <1>2 DEF Feeds
<1>4. feeds' = [feeds EXCEPT ![room.generation] = f]
  BY <1>1, <1>2 DEF Publish
<1>5. f.state = s /\ ~f.closed
  OBVIOUS
<1> HIDE DEF f
<1> QED BY <1>1, <1>2, <1>3, <1>4, <1>5, FeedPublished

LEMMA SetGuestsType ==
  ASSUME TypeOK, IsOpen, NEW g, DOMAIN g \subseteq Keys, g \in [DOMAIN g -> Guests],
         SetGuests(g)
  PROVE  /\ IsRoom(room')
         /\ room'.generation = room.generation
         /\ room'.guests = g
         /\ CurrentInQueue(room'.state)
         /\ room'.state.guestCount = Cardinality(DOMAIN g)
         /\ feeds' \in Seq(Feeds)
         /\ Len(feeds') = Len(feeds)
         /\ feeds'[room.generation].state = room'.state
         /\ ~feeds'[room.generation].closed
<1> DEFINE s == SetGuestCount(room.state, Cardinality(DOMAIN g))
           q == [room EXCEPT !.guests = g]
<1>1. IsRoom(room) /\ room.state \in RoomStates /\ CurrentInQueue(room.state)
  BY RoomFields DEF TypeOK
<1>2. Cardinality(DOMAIN g) \in Nat
  BY SomeKeysFinite
<1>3. /\ s \in RoomStates /\ CurrentInQueue(s)
      /\ s.guestCount = Cardinality(DOMAIN g)
  BY <1>1, <1>2, SetGuestCountType
<1>4. IsRoom(q) /\ q.guests = g /\ q.generation = room.generation
  BY <1>1, WithGuests
<1>5. Publish(s) /\ room' = [q EXCEPT !.state = s]
  BY DEF SetGuests
<1> HIDE DEF s, q
<1>6. /\ IsRoom(room') /\ room'.state = s
      /\ room'.generation = room.generation /\ room'.guests = g
  BY <1>3, <1>4, <1>5, WithState
<1> QED BY <1>3, <1>5, <1>6, PublishType

-----------------------------------------------------------------------------
(* Types *)

LEMMA InitTypeOK == Init => TypeOK
<1> SUFFICES ASSUME Init PROVE TypeOK
  OBVIOUS
<1>1. NoStream \in Streams /\ NoStream.stage = "none"
  BY DEF NoStream, Streams
<1>2. streams \in [StreamIds -> Streams] /\ \A s \in StreamIds : streams[s].stage = "none"
  BY <1>1 DEF Init
<1>3. requests \in [Requests -> TakenRequests \cup {NewRequest, DoneRequest}]
  BY DEF Init
<1> QED BY <1>2, <1>3 DEF Init, TypeOK, IsOpen

LEMMA TakeRoomType ==
  ASSUME TypeOK, IsOpen, NEW h \in BOOLEAN, TakeRoom(h)
  PROVE  /\ ~IsOpen'
         /\ closing' \subseteq ClosingRooms
         /\ \A c \in closing' : c.generation \in DOMAIN feeds
<1> DEFINE c == [generation |-> room.generation, told |-> FALSE,
                 guests |-> DOMAIN room.guests, keys |-> DOMAIN room.guests,
                 holdsLock |-> h]
<1>1. room.generation \in 1..Len(feeds) /\ DOMAIN room.guests \subseteq Keys
  BY RoomFields DEF TypeOK
<1>2. c \in ClosingRooms /\ c.generation = room.generation
  BY <1>1 DEF ClosingRooms
<1>3. closing' = closing \cup {c} /\ room' = NoRoom
  BY DEF TakeRoom
<1>4. DOMAIN feeds = 1..Len(feeds)
  BY DEF TypeOK
<1> HIDE DEF c
<1> QED BY <1>1, <1>2, <1>3, <1>4 DEF TypeOK, IsOpen

LEMMA CloseTypeOK ==
  ASSUME TypeOK, LockClosesExpired \/ Close
  PROVE  TypeOK'
<1>1. IsOpen /\ \E h \in BOOLEAN : TakeRoom(h)
  BY DEF LockClosesExpired, Close, Expired
<1>2. ~IsOpen' /\ closing' \subseteq ClosingRooms
      /\ \A c \in closing' : c.generation \in DOMAIN feeds
  BY <1>1, TakeRoomType
<1> QED BY <1>2 DEF LockClosesExpired, Close, TypeOK

LEMMA ContinueType ==
  ASSUME TypeOK, NEW c \in closing, NEW d \in ClosingRooms,
         d.generation = c.generation, Continue(c, d)
  PROVE  /\ closing' \subseteq ClosingRooms
         /\ \A e \in closing' : e.generation \in DOMAIN feeds
BY DEF TypeOK, Continue

LEMMA TellFeedTypeOK ==
  ASSUME TypeOK, NEW c \in closing, TellFeed(c)
  PROVE  /\ TypeOK'
         /\ Len(feeds') = Len(feeds)
         /\ \A h \in 1..Len(feeds) : h # c.generation => feeds'[h] = feeds[h]
<1> DEFINE f == [feeds[c.generation] EXCEPT !.version = @ + 1, !.closed = TRUE]
           d == [c EXCEPT !.told = TRUE]
<1>1. c.generation \in 1..Len(feeds) /\ feeds \in Seq(Feeds)
  BY DEF TypeOK
<1>2. feeds[c.generation] \in Feeds
  BY <1>1
<1>3. f \in Feeds
  <2> DEFINE g == [feeds[c.generation] EXCEPT !.version = @ + 1]
  <2>1. g \in Feeds
    BY <1>2 DEF Feeds
  <2>2. f = [g EXCEPT !.closed = TRUE]
    OBVIOUS
  <2> HIDE DEF f, g
  <2> QED BY <2>1, <2>2 DEF Feeds
<1>4. feeds' = [feeds EXCEPT ![c.generation] = f]
  BY <1>1, <1>2 DEF TellFeed
<1>5. d \in ClosingRooms /\ d.generation = c.generation
  BY DEF TypeOK, ClosingRooms
<1>6. Continue(c, d)
  BY DEF TellFeed
<1> HIDE DEF f, d
<1>7. feeds' \in Seq(Feeds) /\ Len(feeds') = Len(feeds)
      /\ \A h \in 1..Len(feeds) : h # c.generation => feeds'[h] = feeds[h]
  BY <1>1, <1>3, <1>4, FeedPublished
<1>8. DOMAIN feeds' = DOMAIN feeds
  BY <1>1, <1>7
<1>9. closing' \subseteq ClosingRooms /\ \A e \in closing' : e.generation \in DOMAIN feeds
  BY <1>5, <1>6, ContinueType
<1> QED BY <1>7, <1>8, <1>9 DEF TellFeed, TypeOK, IsOpen

LEMMA RevokeNextTypeOK ==
  ASSUME TypeOK, NEW c \in closing, NEW k \in c.keys, RevokeNext(c, k)
  PROVE  TypeOK'
<1> DEFINE d == [c EXCEPT !.keys = @ \ {k}]
<1>1. c \in ClosingRooms /\ k \in Keys
  BY DEF TypeOK, ClosingRooms
<1>2. d \in ClosingRooms /\ d.generation = c.generation
  BY <1>1 DEF ClosingRooms
<1>3. Continue(c, d)
  BY DEF RevokeNext
<1> HIDE DEF d
<1>4. closing' \subseteq ClosingRooms /\ \A e \in closing' : e.generation \in DOMAIN feeds
  BY <1>2, <1>3, ContinueType
<1> QED BY <1>1, <1>4 DEF RevokeNext, TypeOK, IsOpen

LEMMA OpenEffect ==
  ASSUME TypeOK, NEW now \in ClockReadings, Open(now)
  PROVE  /\ IsRoom(room')
         /\ room'.generation = Len(feeds) + 1
         /\ room'.guests = NoGuests
         /\ room'.state = NewRoomState(now)
         /\ feeds' \in Seq(Feeds)
         /\ Len(feeds') = Len(feeds) + 1
         /\ feeds'[Len(feeds) + 1].state = NewRoomState(now)
         /\ ~feeds'[Len(feeds) + 1].closed
<1> DEFINE s == NewRoomState(now)
           f == [version |-> 0, closed |-> FALSE, state |-> s]
<1>1. s \in RoomStates
  BY NewRoomStateType, ListenTogetherAssumption
<1> HIDE DEF s
<1>2. f \in Feeds /\ f.state = s /\ ~f.closed
  BY <1>1 DEF Feeds
<1>3. feeds \in Seq(Feeds) /\ feeds' = Append(feeds, f)
  BY DEF TypeOK, Open, s
<1> HIDE DEF f
<1>4. feeds' \in Seq(Feeds) /\ Len(feeds') = Len(feeds) + 1 /\ feeds'[Len(feeds) + 1] = f
  BY <1>2, <1>3
<1>5. room' = [generation |-> Len(feeds) + 1, left |-> RoomLifetime,
               guests |-> NoGuests, state |-> s]
  BY DEF Open, s
<1>6. DOMAIN NoGuests = {} /\ NoGuests \in [DOMAIN NoGuests -> Guests]
  BY DEF NoGuests
<1>7. Len(feeds) \in Nat /\ RoomLifetime \in 0..RoomLifetime
  BY <1>3, ListenTogetherAssumption
<1>8. IsRoom(room')
  BY <1>1, <1>5, <1>6, <1>7 DEF IsRoom
<1> QED BY <1>2, <1>4, <1>5, <1>8 DEF s

LEMMA OpenTypeOK ==
  ASSUME TypeOK, NEW now \in ClockReadings, Open(now)
  PROVE  TypeOK'
<1>1. /\ IsRoom(room') /\ room'.generation = Len(feeds') /\ room'.state = NewRoomState(now)
      /\ feeds' \in Seq(Feeds) /\ Len(feeds') = Len(feeds) + 1
  BY OpenEffect
<1>2. CurrentInQueue(room'.state)
  BY <1>1, NewRoomStateType, ListenTogetherAssumption
<1>3. DOMAIN feeds' = 1..(Len(feeds) + 1) /\ DOMAIN feeds = 1..Len(feeds)
      /\ Len(feeds) \in Nat
  BY <1>1 DEF TypeOK
<1>4. DOMAIN feeds \subseteq DOMAIN feeds' /\ Len(feeds) + 1 \in DOMAIN feeds'
  BY <1>3
<1> QED BY <1>1, <1>2, <1>4 DEF Open, TypeOK

LEMMA OneMoreGuest ==
  ASSUME NEW g, DOMAIN g \subseteq Keys, g \in [DOMAIN g -> Guests], NEW k \in Keys
  PROVE  LET h == [j \in DOMAIN g \cup {k} |-> IF j = k THEN NewGuest ELSE g[j]]
         IN  /\ DOMAIN h = DOMAIN g \cup {k}
             /\ DOMAIN h \subseteq Keys
             /\ h \in [DOMAIN h -> Guests]
<1>1. NewGuest \in Guests
  BY ListenTogetherAssumption DEF NewGuest, Guests
<1> QED BY <1>1

LEMMA FewerGuests ==
  ASSUME NEW g, DOMAIN g \subseteq Keys, g \in [DOMAIN g -> Guests],
         NEW S \in SUBSET DOMAIN g
  PROVE  /\ DOMAIN Restrict(g, S) = S
         /\ Restrict(g, S) \in [S -> Guests]
BY DEF Restrict

\* What joining, leaving and sweeping have in common.
LEMMA GuestsChangeTypeOK ==
  ASSUME TypeOK, IsOpen, NEW g, DOMAIN g \subseteq Keys, g \in [DOMAIN g -> Guests],
         SetGuests(g), issued' \subseteq Keys, revoked' \subseteq Keys,
         UNCHANGED <<closing, sweepers, streams, requests, nextAudio, bodies>>
  PROVE  TypeOK'
<1>1. /\ IsRoom(room') /\ room'.generation = room.generation
      /\ CurrentInQueue(room'.state)
      /\ feeds' \in Seq(Feeds) /\ Len(feeds') = Len(feeds)
  BY SetGuestsType
<1>2. DOMAIN feeds' = DOMAIN feeds
  BY <1>1 DEF TypeOK
<1> QED BY <1>1, <1>2 DEF TypeOK

LEMMA JoinEffect ==
  ASSUME TypeOK, NEW invite, NEW k \in Keys, Join(invite, k)
  PROVE  \E g : /\ DOMAIN g = DOMAIN room.guests \cup {k}
                /\ DOMAIN g \subseteq Keys
                /\ g \in [DOMAIN g -> Guests]
                /\ SetGuests(g)
<1> DEFINE h == [j \in DOMAIN room.guests \cup {k} |->
                   IF j = k THEN NewGuest ELSE room.guests[j]]
<1>1. DOMAIN room.guests \subseteq Keys /\ room.guests \in [DOMAIN room.guests -> Guests]
  BY RoomFields DEF TypeOK, Join
<1>2. DOMAIN h = DOMAIN room.guests \cup {k} /\ DOMAIN h \subseteq Keys
      /\ h \in [DOMAIN h -> Guests]
  BY <1>1, OneMoreGuest
<1>3. SetGuests(h)
  BY DEF Join
<1> HIDE DEF h
<1> QED BY <1>2, <1>3

LEMMA JoinTypeOK ==
  ASSUME TypeOK, NEW invite, NEW k \in Keys, Join(invite, k)
  PROVE  TypeOK'
<1>1. PICK g : DOMAIN g \subseteq Keys /\ g \in [DOMAIN g -> Guests] /\ SetGuests(g)
  BY JoinEffect
<1> QED BY <1>1, GuestsChangeTypeOK DEF Join, TypeOK

LEMMA MembersAreGuests ==
  ASSUME TypeOK, IsOpen
  PROVE  /\ Members = DOMAIN room.guests
         /\ Members \subseteq Keys
         /\ room.guests \in [Members -> Guests]
BY RoomFields DEF TypeOK, Members

LEMMA LeaveTypeOK ==
  ASSUME TypeOK, NEW k \in Keys, Leave(k)
  PROVE  TypeOK'
<1> DEFINE g == Restrict(room.guests, DOMAIN room.guests \ {k})
<1>1. IsOpen
  BY DEF Leave, Members
<1>2. DOMAIN g \subseteq Keys /\ g \in [DOMAIN g -> Guests]
  BY <1>1, MembersAreGuests, FewerGuests
<1>3. SetGuests(g) /\ issued' = issued /\ revoked' = revoked \cup {k}
  BY DEF Leave
<1> HIDE DEF g
<1> QED BY <1>1, <1>2, <1>3, GuestsChangeTypeOK DEF Leave, TypeOK

LEMMA SweepTypeOK ==
  ASSUME TypeOK, NEW i \in sweepers, Sweep(i)
  PROVE  TypeOK'
<1> DEFINE gone == {k \in Members : ~Stays(room.guests[k])}
           g == Restrict(room.guests, DOMAIN room.guests \ gone)
<1>1. IsOpen /\ SetGuests(g) /\ issued' = issued /\ revoked' = revoked \cup gone
  BY DEF Sweep
<1>2. DOMAIN g \subseteq Keys /\ g \in [DOMAIN g -> Guests]
  BY <1>1, MembersAreGuests, FewerGuests
<1>3. gone \subseteq Keys
  BY <1>1, MembersAreGuests
<1> HIDE DEF gone, g
<1> QED BY <1>1, <1>2, <1>3, GuestsChangeTypeOK DEF Sweep, TypeOK

LEMMA SweeperStopsTypeOK ==
  ASSUME TypeOK, NEW i \in sweepers, SweeperStops(i)
  PROVE  TypeOK'
BY DEF SweeperStops, TypeOK, IsOpen

\* A step that changes only what is kept about Guests, not who is in the Room.
GuestsKept ==
  IsOpen => /\ IsRoom(room') /\ room'.generation = room.generation
            /\ room'.state = room.state
            /\ DOMAIN room'.guests = DOMAIN room.guests

LEMMA OneGuestChanged ==
  ASSUME TypeOK, NEW k \in Members, NEW guest \in Guests,
         room' = [room EXCEPT !.guests[k] = guest]
  PROVE  IsOpen /\ IsOpen' /\ GuestsKept
<1> DEFINE g == [room.guests EXCEPT ![k] = guest]
<1>1. IsOpen /\ IsRoom(room)
  BY DEF Members, TypeOK
<1>2. DOMAIN g = DOMAIN room.guests /\ DOMAIN g \subseteq Keys /\ g \in [DOMAIN g -> Guests]
  BY <1>1, MembersAreGuests
<1>3. room' = [room EXCEPT !.guests = g]
  OBVIOUS
<1> HIDE DEF g
<1> QED BY <1>1, <1>2, <1>3, WithGuests, OpenRoomIsRoom DEF GuestsKept, IsOpen

LEMMA TickKeepsGuests ==
  ASSUME TypeOK, Tick
  PROVE  IsOpen /\ IsOpen' /\ GuestsKept
<1> DEFINE n == IF room.left > 0 THEN room.left - 1 ELSE 0
           g == [k \in DOMAIN room.guests |-> Aged(room.guests[k])]
           q == [room EXCEPT !.left = n]
<1>1. IsOpen /\ IsRoom(room)
  BY DEF Tick, TypeOK
<1>2. n \in 0..RoomLifetime
  BY <1>1, RoomFields, ListenTogetherAssumption
<1>3. ASSUME NEW guest \in Guests
      PROVE  Aged(guest) \in Guests
  BY ListenTogetherAssumption DEF Aged, Guests
<1>4. DOMAIN g = DOMAIN room.guests /\ DOMAIN g \subseteq Keys /\ g \in [DOMAIN g -> Guests]
  BY <1>1, <1>3, MembersAreGuests
<1>5. IsRoom(q) /\ q.generation = room.generation /\ q.guests = room.guests
      /\ q.state = room.state
  BY <1>1, <1>2, WithLeft
<1>6. room' = [q EXCEPT !.guests = g]
  BY DEF Tick
<1> HIDE DEF n, g, q
<1> QED BY <1>1, <1>4, <1>5, <1>6, WithGuests, OpenRoomIsRoom DEF GuestsKept, IsOpen

LEMMA TickTypeOK ==
  ASSUME TypeOK, Tick
  PROVE  TypeOK'
BY TickKeepsGuests DEF Tick, TypeOK, GuestsKept

LEMMA TakeCommandTypeOK ==
  ASSUME TypeOK, NEW r \in Requests, NEW client \in Keys \cup {Owner},
         NEW c \in Commands, TakeCommand(r, client, c)
  PROVE  TypeOK'
<1> DEFINE q == [stage |-> "taken", client |-> client, command |-> c,
                 generation |-> room.generation]
<1>1. room.generation \in Nat /\ Validate(c)
  BY RoomFields DEF TypeOK, TakeCommand
<1>2. q \in TakenRequests
  BY <1>1 DEF TakenRequests
<1>3. requests' = [requests EXCEPT ![r] = q]
  BY DEF TakeCommand
<1> HIDE DEF q
<1>4. requests' \in [Requests -> TakenRequests \cup {NewRequest, DoneRequest}]
  BY <1>2, <1>3 DEF TypeOK
<1> QED BY <1>4 DEF TakeCommand, TypeOK, IsOpen

LEMMA RequestDone ==
  ASSUME TypeOK, NEW r \in Requests, requests' = [requests EXCEPT ![r] = DoneRequest]
  PROVE  requests' \in [Requests -> TakenRequests \cup {NewRequest, DoneRequest}]
BY DEF TypeOK

LEMMA ReadFailsTypeOK ==
  ASSUME TypeOK, NEW r \in Requests, ReadFails(r)
  PROVE  TypeOK'
BY RequestDone DEF ReadFails, TypeOK, IsOpen

LEMMA TakenCommand ==
  ASSUME TypeOK, NEW r \in Requests, requests[r].stage = "taken"
  PROVE  IsCommand(requests[r].command) /\ Validate(requests[r].command)
<1>1. requests[r] \in TakenRequests
  BY DEF TypeOK, NewRequest, DoneRequest
<1> QED BY <1>1, ListenTogetherAssumption DEF TakenRequests

LEMMA ApplyCommandEffect ==
  ASSUME TypeOK, NEW r \in Requests, NEW now \in ClockReadings, ApplyCommand(r, now)
  PROVE  \/ UNCHANGED <<room, feeds>>
         \/ /\ IsOpen
            /\ IsRoom(room') /\ room'.generation = room.generation
            /\ room'.guests = room.guests
            /\ CurrentInQueue(room'.state)
            /\ room'.state.guestCount = room.state.guestCount
            /\ feeds' \in Seq(Feeds) /\ Len(feeds') = Len(feeds)
            /\ feeds'[room.generation].state = room'.state
            /\ ~feeds'[room.generation].closed
<1> DEFINE c == requests[r].command
           s == Apply(room.state, c, now)
<1>1. CASE UNCHANGED <<room, feeds>>
  BY <1>1
<1>2. CASE IsOpen /\ room' = [room EXCEPT !.state = s] /\ Publish(s)
  <2>1. IsRoom(room) /\ room.state \in RoomStates /\ CurrentInQueue(room.state)
    BY <1>2, RoomFields DEF TypeOK
  <2>2. IsCommand(c) /\ Validate(c)
    BY TakenCommand DEF ApplyCommand
  <2>3. /\ s \in RoomStates /\ CurrentInQueue(s)
        /\ s.guestCount = room.state.guestCount
    BY <2>1, <2>2, ApplyType, ListenTogetherAssumption
  <2> HIDE DEF s
  <2>4. /\ IsRoom(room') /\ room'.generation = room.generation
        /\ room'.guests = room.guests /\ room'.state = s
    BY <1>2, <2>1, <2>3, WithState
  <2> QED BY <1>2, <2>3, <2>4, PublishType
<1> QED BY <1>1, <1>2 DEF ApplyCommand

LEMMA ApplyCommandTypeOK ==
  ASSUME TypeOK, NEW r \in Requests, NEW now \in ClockReadings, ApplyCommand(r, now)
  PROVE  TypeOK'
<1>1. requests' \in [Requests -> TakenRequests \cup {NewRequest, DoneRequest}]
  BY RequestDone DEF ApplyCommand
<1>2. feeds' \in Seq(Feeds) /\ Len(feeds') = Len(feeds)
  BY ApplyCommandEffect DEF TypeOK
<1>3. DOMAIN feeds' = DOMAIN feeds
  BY <1>2 DEF TypeOK
<1>4. IsOpen' => IsRoom(room') /\ room'.generation = Len(feeds') /\ CurrentInQueue(room'.state)
  BY <1>2, ApplyCommandEffect DEF TypeOK, IsOpen
<1> QED BY <1>1, <1>2, <1>3, <1>4 DEF ApplyCommand, TypeOK

\* What a step of one event stream, or its start or end, leaves typed.
LEMMA StreamChangedTypes ==
  ASSUME TypeOK, NEW s \in StreamIds, NEW t \in Streams,
         t.stage # "none" => t.generation \in DOMAIN feeds,
         streams' = [streams EXCEPT ![s] = t]
  PROVE  /\ streams' \in [StreamIds -> Streams]
         /\ \A i \in StreamIds :
              streams'[i].stage # "none" => streams'[i].generation \in DOMAIN feeds
BY DEF TypeOK

LEMMA GuestFields ==
  ASSUME TypeOK, NEW k \in Members
  PROVE  /\ room.guests[k] \in Guests
         /\ room.guests[k].openStreams \in Nat
         /\ room.guests[k].absentFor \in 0..GuestGrace
<1>1. IsOpen
  BY DEF Members
<1>2. room.guests[k] \in Guests
  BY <1>1, MembersAreGuests
<1> QED BY <1>2 DEF Guests

\* A step that keeps the Room open, or touches it not at all.
LEMMA GuestsKeptTypeOK ==
  ASSUME TypeOK, UNCHANGED room \/ (IsOpen /\ GuestsKept),
         UNCHANGED <<feeds, closing, issued, revoked, sweepers, requests>>,
         streams' \in [StreamIds -> Streams],
         \A i \in StreamIds :
           streams'[i].stage # "none" => streams'[i].generation \in DOMAIN feeds,
         nextAudio' \in Nat,
         \A b \in bodies' : b.generation \in DOMAIN feeds /\ b.key \in Keys
  PROVE  TypeOK'
<1>1. IsOpen' => /\ IsRoom(room') /\ room'.generation = Len(feeds)
                 /\ CurrentInQueue(room'.state)
  BY DEF TypeOK, GuestsKept, IsOpen
<1> QED BY <1>1 DEF TypeOK

LEMMA SubscribeEffect ==
  ASSUME TypeOK, NEW s \in StreamIds, NEW client \in Keys \cup {Owner},
         Subscribe(s, client)
  PROVE  UNCHANGED room \/ (IsOpen /\ GuestsKept)
<1>1. CASE client = Owner
  BY <1>1 DEF Subscribe
<1>2. CASE client # Owner
  <2> DEFINE guest == [room.guests[client] EXCEPT !.openStreams = @ + 1]
  <2>1. client \in Members
    BY <1>2 DEF Subscribe, Require
  <2>2. guest \in Guests
    BY <2>1, GuestFields DEF Guests
  <2>3. room' = [room EXCEPT !.guests[client] = guest]
    BY <1>2 DEF Subscribe
  <2> HIDE DEF guest
  <2> QED BY <2>1, <2>2, <2>3, OneGuestChanged
<1> QED BY <1>1, <1>2

LEMMA SubscribeTypeOK ==
  ASSUME TypeOK, NEW s \in StreamIds, NEW client \in Keys \cup {Owner},
         Subscribe(s, client)
  PROVE  TypeOK'
<1> DEFINE v == feeds[room.generation].version
           t == [stage |-> "subscribed", client |-> client,
                 generation |-> room.generation, seen |-> v, sent |-> 0,
                 said |-> "nothing", late |-> 0]
<1>1. room.generation \in 1..Len(feeds) /\ feeds \in Seq(Feeds)
  BY RoomFields DEF TypeOK, Subscribe
<1>2. /\ feeds[room.generation] \in Feeds
      /\ room.generation \in Nat /\ room.generation \in DOMAIN feeds
  BY <1>1
<1>3. v \in Nat
  BY <1>2 DEF Feeds
<1>4. t \in Streams /\ t.generation = room.generation
  BY <1>2, <1>3 DEF Streams
<1>5. streams' = [streams EXCEPT ![s] = t]
  BY DEF Subscribe
<1> HIDE DEF t
<1>6. /\ streams' \in [StreamIds -> Streams]
      /\ \A i \in StreamIds :
           streams'[i].stage # "none" => streams'[i].generation \in DOMAIN feeds
  BY <1>2, <1>4, <1>5, StreamChangedTypes
<1>7. nextAudio' \in Nat /\ \A b \in bodies' : b.generation \in DOMAIN feeds /\ b.key \in Keys
  BY DEF Subscribe, TypeOK
<1> QED BY <1>6, <1>7, SubscribeEffect, GuestsKeptTypeOK DEF Subscribe

LEMMA StreamStepTypeOK ==
  ASSUME TypeOK, NEW s \in StreamIds, NEW t \in Streams, streams[s].stage # "none",
         t.generation = streams[s].generation, StreamStep(s, t)
  PROVE  TypeOK'
<1>1. streams[s].generation \in DOMAIN feeds
  BY DEF TypeOK
<1>2. /\ streams' \in [StreamIds -> Streams]
      /\ \A i \in StreamIds :
           streams'[i].stage # "none" => streams'[i].generation \in DOMAIN feeds
  BY <1>1, StreamChangedTypes DEF StreamStep
<1>3. nextAudio' \in Nat /\ \A b \in bodies' : b.generation \in DOMAIN feeds /\ b.key \in Keys
  BY DEF StreamStep, TypeOK
<1> QED BY <1>2, <1>3, GuestsKeptTypeOK DEF StreamStep

LEMMA FramedType ==
  ASSUME TypeOK, NEW s \in StreamIds, streams[s].stage # "none"
  PROVE  Framed(streams[s]) \in Streams /\ Framed(streams[s]).generation = streams[s].generation
<1> DEFINE stream == streams[s]
           f == FeedOf(stream)
<1>1. stream \in Streams /\ stream.generation \in DOMAIN feeds
  BY DEF TypeOK
<1>2. f \in Feeds
  BY <1>1 DEF TypeOK, FeedOf
<1>3. f.version \in Nat /\ f.state.revision \in Nat
  BY <1>2 DEF Feeds, RoomStates
<1>4. /\ Framed(stream).generation = stream.generation
      /\ Framed(stream) =
           [stage |-> IF f.closed THEN "ending" ELSE "live",
            client |-> stream.client, generation |-> stream.generation,
            seen |-> f.version,
            sent |-> IF f.closed THEN stream.sent ELSE f.state.revision,
            said |-> IF f.closed THEN "closed" ELSE "state",
            late |-> IF ~f.closed /\ stream.client \in revoked THEN stream.late + 1
                                                           ELSE stream.late]
  BY <1>1 DEF Framed, Streams
<1> HIDE DEF stream, f
<1>5. Framed(stream) \in Streams
  BY <1>1, <1>3, <1>4 DEF Streams
<1> QED BY <1>4, <1>5 DEF stream

LEMMA StreamMovesTypeOK ==
  ASSUME TypeOK, NEW s \in StreamIds, FirstFrame(s) \/ PollSession(s) \/ PollFeed(s)
  PROVE  TypeOK'
<1>1. CASE FirstFrame(s) \/ PollFeed(s)
  BY <1>1, FramedType, StreamStepTypeOK DEF FirstFrame, PollFeed
<1>2. CASE PollSession(s)
  <2>1. streams[s] \in Streams
    BY DEF TypeOK
  <2> DEFINE t == [streams[s] EXCEPT !.stage = "ending"]
             u == [streams[s] EXCEPT !.stage = "polled"]
             v == [t EXCEPT !.said = "closed"]
  <2>2. /\ t \in Streams /\ t.generation = streams[s].generation
        /\ u \in Streams /\ u.generation = streams[s].generation
    BY <2>1 DEF Streams
  <2>3. StreamStep(s, u) \/ StreamStep(s, t) \/ StreamStep(s, v)
    BY <1>2 DEF PollSession
  <2> HIDE DEF t, u
  <2>4. v \in Streams /\ v.generation = streams[s].generation
    BY <2>2 DEF Streams
  <2> HIDE DEF v
  <2> QED BY <1>2, <2>2, <2>3, <2>4, StreamStepTypeOK DEF PollSession
<1> QED BY <1>1, <1>2

LEMMA StreamEndsEffect ==
  ASSUME TypeOK, NEW s \in StreamIds, StreamEnds(s)
  PROVE  UNCHANGED room \/ (IsOpen /\ GuestsKept)
<1> DEFINE k == streams[s].client
           open == room.guests[k].openStreams
           left == IF open > 0 THEN open - 1 ELSE 0
           guest == [room.guests[k] EXCEPT !.openStreams = left,
                                           !.absentFor = IF left = 0 THEN 0 ELSE @]
<1>1. CASE k \in Members /\ room.generation = streams[s].generation
  <2>1. room.guests[k] \in Guests /\ left \in Nat
    BY <1>1, GuestFields
  <2>2. guest \in Guests
    <3> DEFINE h == [room.guests[k] EXCEPT !.openStreams = left]
               a == IF left = 0 THEN 0 ELSE room.guests[k].absentFor
    <3>1. h \in Guests
      BY <2>1 DEF Guests
    <3>2. a \in 0..GuestGrace
      BY <1>1, GuestFields, ListenTogetherAssumption
    <3>3. guest = [h EXCEPT !.absentFor = a]
      BY <2>1 DEF Guests
    <3> HIDE DEF h, a, guest
    <3> QED BY <3>1, <3>2, <3>3 DEF Guests
  <2>3. room' = [room EXCEPT !.guests[k] = guest]
    BY <1>1 DEF StreamEnds
  <2> HIDE DEF guest
  <2> QED BY <1>1, <2>2, <2>3, OneGuestChanged
<1>2. CASE ~(k \in Members /\ room.generation = streams[s].generation)
  BY <1>2 DEF StreamEnds
<1> QED BY <1>1, <1>2

LEMMA StreamEndsTypeOK ==
  ASSUME TypeOK, NEW s \in StreamIds, StreamEnds(s)
  PROVE  TypeOK'
<1>1. NoStream \in Streams /\ NoStream.stage = "none"
  BY DEF NoStream, Streams
<1>2. /\ streams' \in [StreamIds -> Streams]
      /\ \A i \in StreamIds :
           streams'[i].stage # "none" => streams'[i].generation \in DOMAIN feeds
  BY <1>1, StreamChangedTypes DEF StreamEnds
<1>3. nextAudio' \in Nat /\ \A b \in bodies' : b.generation \in DOMAIN feeds /\ b.key \in Keys
  BY DEF StreamEnds, TypeOK
<1>4. UNCHANGED <<feeds, closing, issued, revoked, sweepers, requests>>
  BY DEF StreamEnds
<1> QED BY <1>2, <1>3, <1>4, StreamEndsEffect, GuestsKeptTypeOK

LEMMA OpenAudioStreamEffect ==
  ASSUME TypeOK, NEW k \in Keys, NEW target \in AudioTargets, OpenAudioStream(k, target)
  PROVE  IsOpen /\ GuestsKept
<1> DEFINE kept == PlacesKept(room.guests[k].audio, target)
           place == [id |-> nextAudio, target |-> target]
           guest == [room.guests[k] EXCEPT !.audio = kept \cup {place}]
<1>1. k \in Members
  BY DEF OpenAudioStream
<1>2. room.guests[k] \in Guests
  BY <1>1, GuestFields
<1>3. kept \subseteq room.guests[k].audio
  BY DEF PlacesKept
<1>4. place \in [id : Nat, target : AudioTargets]
  BY DEF TypeOK
<1> HIDE DEF kept, place
<1>5. guest \in Guests
  BY <1>2, <1>3, <1>4 DEF Guests
<1>6. room' = [room EXCEPT !.guests[k] = guest]
  BY DEF OpenAudioStream, kept, place
<1> HIDE DEF guest
<1> QED BY <1>1, <1>5, <1>6, OneGuestChanged

LEMMA OpenAudioStreamTypeOK ==
  ASSUME TypeOK, NEW k \in Keys, NEW target \in AudioTargets, OpenAudioStream(k, target)
  PROVE  TypeOK'
<1>1. IsOpen /\ GuestsKept
  BY OpenAudioStreamEffect
<1>2. room.generation \in DOMAIN feeds
  BY <1>1, RoomFields DEF TypeOK
<1>3. nextAudio' \in Nat /\ \A b \in bodies' : b.generation \in DOMAIN feeds /\ b.key \in Keys
  BY <1>2 DEF OpenAudioStream, TypeOK
<1>4. /\ streams' \in [StreamIds -> Streams]
      /\ \A i \in StreamIds :
           streams'[i].stage # "none" => streams'[i].generation \in DOMAIN feeds
  BY DEF OpenAudioStream, TypeOK
<1>5. UNCHANGED <<feeds, closing, issued, revoked, sweepers, requests>>
  BY DEF OpenAudioStream
<1> QED BY <1>1, <1>3, <1>4, <1>5, GuestsKeptTypeOK

LEMMA AudioStreamEndsEffect ==
  ASSUME TypeOK, NEW b \in bodies, AudioStreamEnds(b)
  PROVE  UNCHANGED room \/ (IsOpen /\ GuestsKept)
<1> DEFINE k == b.key
           guest == [room.guests[k] EXCEPT !.audio = {a \in @ : a.id # b.id}]
<1>1. CASE k \in Members /\ room.generation = b.generation
  <2>1. room.guests[k] \in Guests
    BY <1>1, GuestFields
  <2>2. guest \in Guests
    BY <2>1 DEF Guests
  <2>3. room' = [room EXCEPT !.guests[k] = guest]
    BY <1>1 DEF AudioStreamEnds
  <2> HIDE DEF guest
  <2> QED BY <1>1, <2>2, <2>3, OneGuestChanged
<1>2. CASE ~(k \in Members /\ room.generation = b.generation)
  BY <1>2 DEF AudioStreamEnds
<1> QED BY <1>1, <1>2

LEMMA AudioStreamEndsTypeOK ==
  ASSUME TypeOK, NEW b \in bodies, AudioStreamEnds(b)
  PROVE  TypeOK'
<1>1. /\ streams' \in [StreamIds -> Streams]
      /\ \A i \in StreamIds :
           streams'[i].stage # "none" => streams'[i].generation \in DOMAIN feeds
      /\ nextAudio' \in Nat
      /\ \A c \in bodies' : c.generation \in DOMAIN feeds /\ c.key \in Keys
  BY DEF AudioStreamEnds, TypeOK
<1>2. UNCHANGED <<feeds, closing, issued, revoked, sweepers, requests>>
  BY DEF AudioStreamEnds
<1> QED BY <1>1, <1>2, AudioStreamEndsEffect, GuestsKeptTypeOK

LEMMA NextTypeOK == TypeOK /\ [Next]_vars => TypeOK'
<1> SUFFICES ASSUME TypeOK, [Next]_vars PROVE TypeOK'
  OBVIOUS
<1>1. CASE UNCHANGED vars
  BY <1>1 DEF vars, TypeOK, IsOpen
<1>2. CASE Next
  BY <1>2, CloseTypeOK, TellFeedTypeOK, RevokeNextTypeOK, OpenTypeOK, JoinTypeOK,
     LeaveTypeOK, SweeperStopsTypeOK, SweepTypeOK, TickTypeOK, TakeCommandTypeOK,
     ReadFailsTypeOK, ApplyCommandTypeOK, SubscribeTypeOK, StreamMovesTypeOK,
     StreamEndsTypeOK, OpenAudioStreamTypeOK, AudioStreamEndsTypeOK
     DEF Next
<1> QED BY <1>1, <1>2

(* The service's state keeps the shape of its Rust types, and every stream,  *)
(* request, sweeper and response refers to a Room that was opened.           *)
THEOREM ServiceTypeCorrect == Spec => []TypeOK
BY InitTypeOK, NextTypeOK, PTL DEF Spec

-----------------------------------------------------------------------------
(* Sessions, places and the feed *)

\* Rooms being closed share no session, and none of them is the open Room.
ClosingApart ==
  /\ \A c, d \in closing : c # d => c.keys \cap d.keys = {}
  /\ IsOpen => \A c \in closing : c.generation # room.generation

IInv ==
  /\ TypeOK
  /\ SessionsAccountedFor
  /\ ClosingApart
  /\ GuestLimit
  /\ FeedIsCurrent

LEMMA NobodyCounted == Cardinality({}) = 0
BY FS_EmptySet

LEMMA InitIInv == Init => IInv
<1> SUFFICES ASSUME Init PROVE IInv
  OBVIOUS
<1>1. ~IsOpen /\ Members = {}
  BY DEF Init, IsOpen, Members
<1>2. PendingRevocations = {}
  BY DEF Init, PendingRevocations
<1>3. GuestLimit
  BY <1>1, NobodyCounted, ListenTogetherAssumption DEF GuestLimit
<1> QED BY <1>1, <1>2, <1>3, InitTypeOK
        DEF IInv, Init, SessionsAccountedFor, ClosingApart, FeedIsCurrent

LEMMA GuestsKeptMembers ==
  ASSUME UNCHANGED room \/ (IsOpen /\ GuestsKept)
  PROVE  /\ Members' = Members
         /\ IsOpen' = IsOpen
         /\ room'.generation = room.generation
         /\ IsOpen => room'.state = room.state
<1>1. CASE UNCHANGED room
  BY <1>1 DEF Members, IsOpen
<1>2. CASE IsOpen /\ GuestsKept
  BY <1>2, OpenRoomIsRoom DEF GuestsKept, Members, IsOpen
<1> QED BY <1>1, <1>2

\* Steps of clocks, streams and requests that leave the Room's snapshot alone.
LEMMA QuietStep ==
  ASSUME IInv, TypeOK', UNCHANGED room \/ (IsOpen /\ GuestsKept),
         UNCHANGED <<feeds, closing, issued, revoked>>
  PROVE  IInv'
<1>1. /\ Members' = Members /\ IsOpen' = IsOpen
      /\ room'.generation = room.generation
      /\ IsOpen => room'.state = room.state
  BY GuestsKeptMembers
<1>2. PendingRevocations' = PendingRevocations
  BY DEF PendingRevocations
<1>3. SessionsAccountedFor' /\ GuestLimit'
  BY <1>1, <1>2 DEF IInv, SessionsAccountedFor, GuestLimit
<1>4. ClosingApart' /\ FeedIsCurrent'
  BY <1>1 DEF IInv, ClosingApart, FeedIsCurrent
<1> QED BY <1>3, <1>4 DEF IInv

LEMMA CloseIInv ==
  ASSUME IInv, LockClosesExpired \/ Close
  PROVE  IInv'
<1> DEFINE K == DOMAIN room.guests
<1>1. PICK h \in BOOLEAN : TakeRoom(h)
  BY DEF LockClosesExpired, Close
<1> DEFINE c == [generation |-> room.generation, told |-> FALSE,
                 guests |-> K, keys |-> K, holdsLock |-> h]
<1>2. TypeOK' /\ ~IsOpen' /\ Members = K /\ Members' = {}
  BY <1>1, CloseTypeOK, TakeRoomType DEF IInv, Members, LockClosesExpired, Close, Expired
<1>3. closing' = closing \cup {c} /\ c.keys = Members /\ UNCHANGED <<issued, revoked>>
  BY <1>1, <1>2 DEF TakeRoom, LockClosesExpired, Close
<1> HIDE DEF c
<1>4. PendingRevocations' = PendingRevocations \cup Members
  BY <1>3 DEF PendingRevocations
<1>5. SessionsAccountedFor'
  BY <1>2, <1>3, <1>4 DEF IInv, SessionsAccountedFor
<1>6. ClosingApart'
  <2>1. \A d \in closing : d.keys \subseteq PendingRevocations
    BY DEF PendingRevocations
  <2>2. \A d \in closing : d.keys \cap c.keys = {}
    BY <1>3, <2>1 DEF IInv, SessionsAccountedFor
  <2> QED BY <1>2, <1>3, <2>2 DEF IInv, ClosingApart
<1>7. GuestLimit' /\ FeedIsCurrent'
  BY <1>2, NobodyCounted, ListenTogetherAssumption DEF GuestLimit, FeedIsCurrent
<1> QED BY <1>2, <1>5, <1>6, <1>7 DEF IInv

\* One more step of a closing Room that leaves the keys of d to be revoked.
LEMMA ContinueApart ==
  ASSUME ClosingApart, NEW c \in closing, NEW d, d.generation = c.generation,
         d.keys \subseteq c.keys, d.told, Continue(c, d), UNCHANGED room
  PROVE  /\ ClosingApart'
         /\ PendingRevocations' = (PendingRevocations \ c.keys) \cup d.keys
<1> DEFINE rest == closing \ {c}
<1>1. closing' \subseteq rest \cup {d} /\ rest \subseteq closing'
      /\ (d.keys # {} => d \in closing')
  BY DEF Continue
<1>2. \A e \in rest : e \in closing /\ e.keys \cap c.keys = {}
  BY DEF ClosingApart
<1>3. ClosingApart'
  BY <1>1, <1>2 DEF ClosingApart, IsOpen
<1>4. PendingRevocations' = (UNION {e.keys : e \in rest}) \cup d.keys
  BY <1>1 DEF PendingRevocations
<1>5. UNION {e.keys : e \in rest} = PendingRevocations \ c.keys
  BY <1>2 DEF PendingRevocations
<1> QED BY <1>3, <1>4, <1>5

LEMMA TellFeedIInv ==
  ASSUME IInv, NEW c \in closing, TellFeed(c)
  PROVE  IInv'
<1> DEFINE d == [c EXCEPT !.told = TRUE]
<1>1. d.generation = c.generation /\ d.keys = c.keys /\ d.told /\ Continue(c, d)
  BY DEF IInv, TypeOK, ClosingRooms, TellFeed
<1> HIDE DEF d
<1>2. c.keys \subseteq PendingRevocations
  BY DEF PendingRevocations
<1>3. ClosingApart' /\ PendingRevocations' = PendingRevocations
  BY <1>1, <1>2, ContinueApart DEF IInv, TellFeed
<1>4. /\ TypeOK' /\ Len(feeds') = Len(feeds)
      /\ \A h \in 1..Len(feeds) : h # c.generation => feeds'[h] = feeds[h]
  BY TellFeedTypeOK DEF IInv
<1>5. Members' = Members /\ IsOpen' = IsOpen /\ UNCHANGED <<room, issued, revoked>>
  BY DEF TellFeed, Members, IsOpen
<1>6. IsOpen => room.generation \in 1..Len(feeds) /\ room.generation # c.generation
  BY RoomFields DEF IInv, TypeOK, ClosingApart
<1>7. FeedIsCurrent'
  BY <1>4, <1>5, <1>6 DEF IInv, FeedIsCurrent
<1> QED BY <1>3, <1>4, <1>5, <1>7 DEF IInv, SessionsAccountedFor, GuestLimit

LEMMA RevokeNextIInv ==
  ASSUME IInv, NEW c \in closing, NEW k \in c.keys, RevokeNext(c, k)
  PROVE  IInv'
<1> DEFINE d == [c EXCEPT !.keys = @ \ {k}]
<1>1. /\ d.generation = c.generation /\ d.keys = c.keys \ {k} /\ d.told
      /\ Continue(c, d) /\ revoked' = revoked \cup {k}
  BY DEF IInv, TypeOK, ClosingRooms, RevokeNext
<1> HIDE DEF d
<1>2. c.keys \subseteq PendingRevocations
  BY DEF PendingRevocations
<1>3. ClosingApart' /\ PendingRevocations' = PendingRevocations \ {k}
  BY <1>1, <1>2, ContinueApart DEF IInv, RevokeNext
<1>4. TypeOK'
  BY RevokeNextTypeOK DEF IInv
<1>5. Members' = Members /\ IsOpen' = IsOpen /\ UNCHANGED <<room, feeds, issued>>
  BY DEF RevokeNext, Members, IsOpen
<1>6. SessionsAccountedFor'
  BY <1>1, <1>2, <1>3, <1>5 DEF IInv, SessionsAccountedFor
<1> QED BY <1>3, <1>4, <1>5, <1>6 DEF IInv, GuestLimit, FeedIsCurrent

LEMMA OpenIInv ==
  ASSUME IInv, NEW now \in ClockReadings, Open(now)
  PROVE  IInv'
<1>1. /\ IsRoom(room') /\ room'.generation = Len(feeds) + 1
      /\ room'.guests = NoGuests /\ room'.state = NewRoomState(now)
      /\ feeds'[Len(feeds) + 1].state = NewRoomState(now)
      /\ ~feeds'[Len(feeds) + 1].closed
  BY OpenEffect DEF IInv
<1>2. TypeOK'
  BY OpenTypeOK DEF IInv
<1>3. IsOpen' /\ Members = {} /\ Members' = {} /\ UNCHANGED <<closing, issued, revoked>>
  BY <1>1, OpenRoomIsRoom DEF Open, IsOpen, Members, NoGuests
<1>4. PendingRevocations' = PendingRevocations
  BY <1>3 DEF PendingRevocations
<1>5. \A c \in closing : c.generation # Len(feeds) + 1
  BY DEF IInv, TypeOK
<1>6. room'.state.guestCount = 0
  BY <1>1, NewRoomStateType, ListenTogetherAssumption
<1>7. SessionsAccountedFor' /\ ClosingApart'
  BY <1>1, <1>3, <1>4, <1>5 DEF IInv, SessionsAccountedFor, ClosingApart
<1>8. GuestLimit' /\ FeedIsCurrent'
  BY <1>1, <1>3, <1>6, NobodyCounted, ListenTogetherAssumption
     DEF GuestLimit, FeedIsCurrent
<1> QED BY <1>2, <1>7, <1>8 DEF IInv

\* What a change of the Guests leaves true, whoever comes or goes.
LEMMA GuestsChangeKeeps ==
  ASSUME IInv, IsOpen, NEW g, DOMAIN g \subseteq Keys, g \in [DOMAIN g -> Guests],
         SetGuests(g), UNCHANGED closing
  PROVE  /\ IsOpen' /\ Members' = DOMAIN g
         /\ ClosingApart' /\ FeedIsCurrent'
         /\ PendingRevocations' = PendingRevocations
<1>1. /\ IsRoom(room') /\ room'.generation = room.generation /\ room'.guests = g
      /\ room'.state.guestCount = Cardinality(DOMAIN g)
      /\ feeds'[room.generation].state = room'.state
      /\ ~feeds'[room.generation].closed
  BY SetGuestsType DEF IInv
<1>2. IsOpen' /\ Members' = DOMAIN g
  BY <1>1, OpenRoomIsRoom DEF IsOpen, Members
<1> QED BY <1>1, <1>2 DEF IInv, ClosingApart, FeedIsCurrent, PendingRevocations

LEMMA JoinIInv ==
  ASSUME IInv, NEW invite, NEW k \in Keys, Join(invite, k)
  PROVE  IInv'
<1>1. IsOpen /\ TypeOK'
  BY JoinTypeOK DEF Join, IInv
<1>2. PICK g : /\ DOMAIN g = DOMAIN room.guests \cup {k} /\ DOMAIN g \subseteq Keys
               /\ g \in [DOMAIN g -> Guests] /\ SetGuests(g)
  BY JoinEffect DEF IInv
<1>3. /\ Members = DOMAIN room.guests /\ k \notin issued
      /\ Cardinality(Members) < MaxGuests
      /\ issued' = issued \cup {k} /\ UNCHANGED <<closing, revoked>>
  BY <1>1 DEF Join, Members
<1>4. /\ Members' = Members \cup {k} /\ ClosingApart' /\ FeedIsCurrent'
      /\ PendingRevocations' = PendingRevocations
  BY <1>1, <1>2, <1>3, GuestsChangeKeeps
<1>5. SessionsAccountedFor'
  BY <1>3, <1>4 DEF IInv, SessionsAccountedFor
<1>6. GuestLimit'
  <2>1. IsFiniteSet(Members) /\ Cardinality(Members) \in Nat /\ k \notin Members
    BY <1>1, <1>3, MembersAreGuests, SomeKeysFinite DEF IInv, SessionsAccountedFor
  <2>2. Cardinality(Members \cup {k}) = Cardinality(Members) + 1
    BY <2>1, FS_AddElement
  <2> QED BY <1>3, <1>4, <2>1, <2>2, ListenTogetherAssumption DEF GuestLimit
<1> QED BY <1>1, <1>4, <1>5, <1>6 DEF IInv

\* Guests who go, by themselves or swept: their sessions end in that step.
LEMMA GuestsGo ==
  ASSUME IInv, IsOpen, TypeOK', NEW gone \in SUBSET Members,
         SetGuests(Restrict(room.guests, DOMAIN room.guests \ gone)),
         revoked' = revoked \cup gone, UNCHANGED <<closing, issued>>
  PROVE  IInv' /\ Members' = Members \ gone
<1> DEFINE g == Restrict(room.guests, DOMAIN room.guests \ gone)
<1>1. /\ Members = DOMAIN room.guests /\ Members \subseteq Keys
      /\ room.guests \in [Members -> Guests]
  BY MembersAreGuests DEF IInv
<1>2. DOMAIN g = Members \ gone /\ DOMAIN g \subseteq Keys /\ g \in [DOMAIN g -> Guests]
  BY <1>1, FewerGuests
<1>3. SetGuests(g)
  OBVIOUS
<1> HIDE DEF g
<1>4. /\ Members' = Members \ gone /\ ClosingApart' /\ FeedIsCurrent'
      /\ PendingRevocations' = PendingRevocations
  BY <1>2, <1>3, GuestsChangeKeeps
<1>5. SessionsAccountedFor'
  BY <1>4 DEF IInv, SessionsAccountedFor
<1>6. GuestLimit'
  <2>1. IsFiniteSet(Members) /\ Cardinality(Members) \in Nat
        /\ Cardinality(Members \ gone) \in Nat
    BY <1>1, SomeKeysFinite
  <2>2. Cardinality(Members \ gone) <= Cardinality(Members)
    BY <2>1, FS_Subset
  <2> QED BY <1>4, <2>1, <2>2, ListenTogetherAssumption DEF IInv, GuestLimit
<1> QED BY <1>4, <1>5, <1>6 DEF IInv

LEMMA LeaveIInv ==
  ASSUME IInv, NEW k \in Keys, Leave(k)
  PROVE  IInv' /\ Members' = Members \ {k}
<1>1. IsOpen /\ TypeOK' /\ {k} \in SUBSET Members
  BY LeaveTypeOK DEF Leave, Members, IInv
<1> QED BY <1>1, GuestsGo DEF Leave

LEMMA SweepIInv ==
  ASSUME IInv, NEW i \in sweepers, Sweep(i)
  PROVE  /\ IInv'
         /\ \E gone \in SUBSET Members : gone # {} /\ Members' = Members \ gone
<1> DEFINE gone == {k \in Members : ~Stays(room.guests[k])}
<1>1. /\ IsOpen /\ TypeOK' /\ gone \in SUBSET Members /\ gone # {}
      /\ SetGuests(Restrict(room.guests, DOMAIN room.guests \ gone))
      /\ revoked' = revoked \cup gone /\ UNCHANGED <<closing, issued>>
  BY SweepTypeOK DEF Sweep, IInv
<1> HIDE DEF gone
<1> QED BY <1>1, GuestsGo

LEMMA ApplyCommandIInv ==
  ASSUME IInv, NEW r \in Requests, NEW now \in ClockReadings, ApplyCommand(r, now)
  PROVE  IInv'
<1>1. TypeOK' /\ UNCHANGED <<closing, issued, revoked>>
  BY ApplyCommandTypeOK DEF IInv, ApplyCommand
<1>2. CASE UNCHANGED <<room, feeds>>
  BY <1>1, <1>2, QuietStep
<1>3. CASE ~UNCHANGED <<room, feeds>>
  <2>1. /\ IsOpen /\ IsRoom(room') /\ room'.generation = room.generation
        /\ room'.guests = room.guests
        /\ room'.state.guestCount = room.state.guestCount
        /\ feeds'[room.generation].state = room'.state
        /\ ~feeds'[room.generation].closed
    BY <1>3, ApplyCommandEffect DEF IInv
  <2>2. IsOpen' /\ Members' = Members /\ PendingRevocations' = PendingRevocations
    BY <1>1, <2>1, OpenRoomIsRoom DEF IsOpen, Members, PendingRevocations
  <2>3. SessionsAccountedFor' /\ GuestLimit'
    BY <1>1, <2>2 DEF IInv, SessionsAccountedFor, GuestLimit
  <2>4. ClosingApart' /\ FeedIsCurrent'
    BY <1>1, <2>1, <2>2 DEF IInv, ClosingApart, FeedIsCurrent
  <2> QED BY <1>1, <2>3, <2>4 DEF IInv
<1> QED BY <1>2, <1>3

Quiet ==
  /\ UNCHANGED room \/ (IsOpen /\ GuestsKept)
  /\ UNCHANGED <<feeds, closing, issued, revoked>>

\* The actions that make a quiet step.
QuietActions ==
  \/ \E i \in sweepers : SweeperStops(i)
  \/ Tick
  \/ \E r \in Requests :
       \/ \E client \in Keys \cup {Owner}, c \in Commands : TakeCommand(r, client, c)
       \/ ReadFails(r)
  \/ \E s \in StreamIds :
       \/ \E client \in Keys \cup {Owner} : Subscribe(s, client)
       \/ FirstFrame(s) \/ PollSession(s) \/ PollFeed(s) \/ StreamEnds(s)
  \/ \E k \in Keys, t \in AudioTargets : OpenAudioStream(k, t)
  \/ \E b \in bodies : AudioStreamEnds(b)
  \/ UNCHANGED vars

LEMMA QuietActionsQuiet ==
  ASSUME TypeOK, QuietActions
  PROVE  Quiet
<1>1. CASE \E i \in sweepers : SweeperStops(i)
  BY <1>1 DEF SweeperStops, Quiet
<1>2. CASE Tick
  BY <1>2, TickKeepsGuests DEF Tick, Quiet
<1>3. ASSUME NEW r \in Requests, NEW client \in Keys \cup {Owner}, NEW c \in Commands,
             TakeCommand(r, client, c)
      PROVE  Quiet
  BY <1>3 DEF TakeCommand, Quiet
<1>4. ASSUME NEW r \in Requests, ReadFails(r)
      PROVE  Quiet
  BY <1>4 DEF ReadFails, Quiet
<1>5. ASSUME NEW s \in StreamIds, NEW client \in Keys \cup {Owner}, Subscribe(s, client)
      PROVE  Quiet
  <2>1. UNCHANGED <<feeds, closing, issued, revoked>>
    BY <1>5 DEF Subscribe
  <2> QED BY <1>5, <2>1, SubscribeEffect DEF Quiet
<1>6. ASSUME NEW s \in StreamIds, FirstFrame(s) \/ PollSession(s) \/ PollFeed(s)
      PROVE  Quiet
  <2>1. \E t : StreamStep(s, t)
    BY <1>6 DEF FirstFrame, PollSession, PollFeed
  <2> QED BY <2>1 DEF StreamStep, Quiet
<1>7. ASSUME NEW s \in StreamIds, StreamEnds(s)
      PROVE  Quiet
  <2>1. UNCHANGED <<feeds, closing, issued, revoked>>
    BY <1>7 DEF StreamEnds
  <2> QED BY <1>7, <2>1, StreamEndsEffect DEF Quiet
<1>8. ASSUME NEW k \in Keys, NEW t \in AudioTargets, OpenAudioStream(k, t)
      PROVE  Quiet
  <2>1. UNCHANGED <<feeds, closing, issued, revoked>>
    BY <1>8 DEF OpenAudioStream
  <2> QED BY <1>8, <2>1, OpenAudioStreamEffect DEF Quiet
<1>9. ASSUME NEW b \in bodies, AudioStreamEnds(b)
      PROVE  Quiet
  <2>1. UNCHANGED <<feeds, closing, issued, revoked>>
    BY <1>9 DEF AudioStreamEnds
  <2> QED BY <1>9, <2>1, AudioStreamEndsEffect DEF Quiet
<1>10. CASE UNCHANGED vars
  BY <1>10 DEF vars, Quiet
<1> QED BY <1>1, <1>2, <1>3, <1>4, <1>5, <1>6, <1>7, <1>8, <1>9, <1>10 DEF QuietActions

LEMMA NextIInv == IInv /\ [Next]_vars => IInv'
<1> SUFFICES ASSUME IInv, [Next]_vars PROVE IInv'
  OBVIOUS
<1>1. TypeOK /\ TypeOK'
  BY NextTypeOK DEF IInv
<1>2. CASE QuietActions
  BY <1>1, <1>2, QuietActionsQuiet, QuietStep DEF Quiet
<1>3. CASE Next /\ ~QuietActions
  <2>1. \/ LockClosesExpired
        \/ Close
        \/ \E c \in closing : TellFeed(c) \/ \E k \in c.keys : RevokeNext(c, k)
        \/ \E now \in ClockReadings : Open(now)
        \/ \E invite \in 1..Len(feeds), k \in Keys : Join(invite, k)
        \/ \E k \in Keys : Leave(k)
        \/ \E i \in sweepers : Sweep(i)
        \/ \E r \in Requests, now \in ClockReadings : ApplyCommand(r, now)
    BY <1>3 DEF Next, QuietActions
  <2> QED BY <2>1, CloseIInv, TellFeedIInv, RevokeNextIInv, OpenIInv, JoinIInv,
             LeaveIInv, SweepIInv, ApplyCommandIInv
<1> QED BY <1>2, <1>3 DEF QuietActions

LEMMA ServiceIInv == Spec => []IInv
BY InitIInv, NextIInv, PTL DEF Spec

(* The Room never holds more Guests than LISTEN_TOGETHER_MAX_GUESTS, however *)
(* `join`, `leave`, the sweeper, expiry and closing interleave.              *)
THEOREM ServiceGuestLimit == Spec => []GuestLimit
BY ServiceIInv, PTL DEF IInv

(* Every session the service handed out is in the open Room, in a Room whose *)
(* `close` has yet to revoke it, or revoked, and in one of them only.        *)
THEOREM ServiceSessionsAccountedFor == Spec => []SessionsAccountedFor
BY ServiceIInv, PTL DEF IInv

(* The whole account: shapes, limit and sessions, for any number of them     *)
(* (service.rs, join, leave, close, sweep).                                  *)
THEOREM ServicePlacesExact == Spec => []PlacesAreExact
BY ServiceTypeCorrect, ServiceGuestLimit, ServiceSessionsAccountedFor, PTL DEF PlacesAreExact

(* The feed of the open Room shows its state and the exact number of Guests, *)
(* even while the Room before it is still being closed.                      *)
THEOREM ServiceFeedIsCurrent == Spec => []FeedIsCurrent
BY ServiceIInv, PTL DEF IInv

-----------------------------------------------------------------------------
(* ListenTogether implements GuestPlaces *)

LEMMA InitPlaces == Init => Places!Init
BY DEF Init, Places!Init, Members, IsOpen, NoRoom

LEMMA ClosePlaces ==
  ASSUME IInv, LockClosesExpired \/ Close
  PROVE  Places!CloseRoom
<1>1. IsOpen /\ room' = NoRoom /\ UNCHANGED <<feeds, issued>>
  BY DEF LockClosesExpired, Close, TakeRoom, Expired
<1>2. room.generation # 0 /\ room'.generation = 0
  BY <1>1, RoomFields DEF IInv, TypeOK, NoRoom
<1>3. Members' = {} /\ Members \subseteq issued
  BY <1>1 DEF IInv, SessionsAccountedFor, Members, IsOpen
<1> QED BY <1>1, <1>2, <1>3 DEF Places!CloseRoom

LEMMA OpenPlaces ==
  ASSUME IInv, NEW now \in ClockReadings, Open(now)
  PROVE  Places!OpenRoom
<1>1. /\ IsRoom(room') /\ room'.generation = Len(feeds) + 1 /\ room'.guests = NoGuests
      /\ Len(feeds') = Len(feeds) + 1
  BY OpenEffect DEF IInv
<1>2. room.generation = 0 /\ Members = {} /\ Members' = {} /\ issued' = issued
  BY <1>1, OpenRoomIsRoom DEF Open, IsOpen, NoRoom, Members, NoGuests
<1> QED BY <1>1, <1>2 DEF Places!OpenRoom

\* A change of the Guests keeps the Room open under its generation.
LEMMA GuestsChangeSameRoom ==
  ASSUME IInv, IsOpen, NEW g, DOMAIN g \subseteq Keys, g \in [DOMAIN g -> Guests],
         SetGuests(g)
  PROVE  /\ room.generation # 0 /\ room'.generation = room.generation
         /\ Len(feeds') = Len(feeds) /\ Members' = DOMAIN g
<1>1. /\ IsRoom(room') /\ room'.generation = room.generation
      /\ room'.guests = g /\ Len(feeds') = Len(feeds)
  BY SetGuestsType DEF IInv
<1> QED BY <1>1, RoomFields, OpenRoomIsRoom DEF Members, IsOpen

LEMMA JoinPlaces ==
  ASSUME IInv, NEW invite, NEW k \in Keys, Join(invite, k)
  PROVE  Places!Admit(k)
<1>1. /\ IsOpen /\ k \notin issued /\ issued' = issued \cup {k}
      /\ Members = DOMAIN room.guests /\ Cardinality(Members) < MaxGuests
  BY DEF Join, Members
<1>2. PICK g : /\ DOMAIN g = DOMAIN room.guests \cup {k} /\ DOMAIN g \subseteq Keys
               /\ g \in [DOMAIN g -> Guests] /\ SetGuests(g)
  BY JoinEffect DEF IInv
<1>3. /\ room.generation # 0 /\ room'.generation = room.generation
      /\ Len(feeds') = Len(feeds) /\ Members' = Members \cup {k}
  BY <1>1, <1>2, GuestsChangeSameRoom
<1>4. k \notin Members
  BY <1>1 DEF IInv, SessionsAccountedFor
<1>5. Places!Cardinality(Members) = Cardinality(Members)
  BY DEF Places!Cardinality, Cardinality
<1> QED BY <1>1, <1>3, <1>4, <1>5 DEF Places!Admit

LEMMA GoPlaces ==
  ASSUME IInv, IsOpen, NEW gone \in SUBSET Members, gone # {},
         SetGuests(Restrict(room.guests, DOMAIN room.guests \ gone)), UNCHANGED issued
  PROVE  Places!End(gone)
<1> DEFINE g == Restrict(room.guests, DOMAIN room.guests \ gone)
<1>1. /\ Members = DOMAIN room.guests /\ Members \subseteq Keys
      /\ room.guests \in [Members -> Guests]
  BY MembersAreGuests DEF IInv
<1>2. DOMAIN g = Members \ gone /\ DOMAIN g \subseteq Keys /\ g \in [DOMAIN g -> Guests]
  BY <1>1, FewerGuests
<1>3. SetGuests(g)
  OBVIOUS
<1> HIDE DEF g
<1>4. /\ room'.generation = room.generation /\ Len(feeds') = Len(feeds)
      /\ Members' = Members \ gone
  BY <1>2, <1>3, GuestsChangeSameRoom
<1>5. Members \subseteq issued
  BY DEF IInv, SessionsAccountedFor
<1> QED BY <1>4, <1>5 DEF Places!End

LEMMA LeavePlaces ==
  ASSUME IInv, NEW k \in Keys, Leave(k)
  PROVE  \E gone \in SUBSET Members : Places!End(gone)
<1>1. IsOpen /\ {k} \in SUBSET Members /\ {k} # {}
  BY DEF Leave, Members
<1> QED BY <1>1, GoPlaces DEF Leave

LEMMA SweepPlaces ==
  ASSUME IInv, NEW i \in sweepers, Sweep(i)
  PROVE  \E gone \in SUBSET Members : Places!End(gone)
<1> DEFINE gone == {k \in Members : ~Stays(room.guests[k])}
<1>1. /\ IsOpen /\ gone \in SUBSET Members /\ gone # {} /\ UNCHANGED issued
      /\ SetGuests(Restrict(room.guests, DOMAIN room.guests \ gone))
  BY DEF Sweep
<1> HIDE DEF gone
<1> QED BY <1>1, GoPlaces

LEMMA StutterPlaces ==
  ASSUME Members' = Members, room'.generation = room.generation,
         Len(feeds') = Len(feeds), issued' = issued
  PROVE  UNCHANGED Places!vars
BY DEF Places!vars

LEMMA NextPlaces == IInv /\ [Next]_vars => [Places!Next]_(Places!vars)
<1> SUFFICES ASSUME IInv, [Next]_vars PROVE [Places!Next]_(Places!vars)
  OBVIOUS
<1>1. CASE QuietActions
  <2>1. Quiet
    BY <1>1, QuietActionsQuiet DEF IInv
  <2> QED BY <2>1, GuestsKeptMembers, StutterPlaces DEF Quiet
<1>2. ASSUME NEW c \in closing, TellFeed(c)
      PROVE  UNCHANGED Places!vars
  <2>1. Len(feeds') = Len(feeds)
    BY <1>2, TellFeedTypeOK DEF IInv
  <2> QED BY <1>2, <2>1, StutterPlaces DEF TellFeed, Members, IsOpen
<1>3. ASSUME NEW c \in closing, NEW k \in c.keys, RevokeNext(c, k)
      PROVE  UNCHANGED Places!vars
  BY <1>3, StutterPlaces DEF RevokeNext, Members, IsOpen
<1>4. ASSUME NEW r \in Requests, NEW now \in ClockReadings, ApplyCommand(r, now)
      PROVE  UNCHANGED Places!vars
  <2>1. \/ UNCHANGED <<room, feeds>>
        \/ /\ IsOpen /\ IsRoom(room') /\ room'.generation = room.generation
           /\ room'.guests = room.guests /\ Len(feeds') = Len(feeds)
    BY <1>4, ApplyCommandEffect DEF IInv
  <2>2. Members' = Members /\ issued' = issued
    BY <1>4, <2>1, OpenRoomIsRoom DEF ApplyCommand, Members, IsOpen
  <2> QED BY <2>1, <2>2, StutterPlaces
<1>5. ASSUME LockClosesExpired \/ Close
      PROVE  Places!Next
  BY <1>5, ClosePlaces DEF Places!Next
<1>6. ASSUME NEW now \in ClockReadings, Open(now)
      PROVE  Places!Next
  BY <1>6, OpenPlaces DEF Places!Next
<1>7. ASSUME NEW invite, NEW k \in Keys, Join(invite, k)
      PROVE  Places!Next
  BY <1>7, JoinPlaces DEF Places!Next
<1>8. ASSUME NEW k \in Keys, Leave(k)
      PROVE  Places!Next
  BY <1>8, LeavePlaces DEF Places!Next
<1>9. ASSUME NEW i \in sweepers, Sweep(i)
      PROVE  Places!Next
  BY <1>9, SweepPlaces DEF Places!Next
<1> QED BY <1>1, <1>2, <1>3, <1>4, <1>5, <1>6, <1>7, <1>8, <1>9 DEF Next, QuietActions

(* The service implements the abstract account of places: every step of      *)
(* `lock`, `open`, `join`, `leave`, `sweep` and `close` is a step of         *)
(* GuestPlaces, and every other step leaves places alone.                    *)
THEOREM ServiceKeepsPlaces == Spec => KeepsPlaces
<1>1. Spec => Places!Init
  BY InitPlaces DEF Spec
<1>2. IInv /\ [Next]_vars => [Places!Next]_(Places!vars)
  BY NextPlaces
<1> QED BY <1>1, <1>2, ServiceIInv, PTL DEF Spec, KeepsPlaces, Places!Spec

-----------------------------------------------------------------------------
(* What outlives a critical section of the service: the event streams, the   *)
(* audio streams and the commands that wait for the library.                 *)


-----------------------------------------------------------------------------
(* What a step leaves of a Guest *)

\* k stays in the same Room, with the same streams.
StaysInRoom(k) ==
  /\ k \in Members
  /\ room'.generation = room.generation
  /\ room'.guests[k].openStreams = room.guests[k].openStreams
  /\ room'.guests[k].audio = room.guests[k].audio

\* k is new: a session never handed out before.
ComesNew(k) == k \in Keys \ issued /\ room'.guests[k] = NewGuest

\* The steps that touch neither an event stream nor an audio stream.
RoomActions ==
  \/ LockClosesExpired
  \/ Close
  \/ \E c \in closing : TellFeed(c) \/ \E k \in c.keys : RevokeNext(c, k)
  \/ \E now \in ClockReadings : Open(now)
  \/ \E invite \in 1..Len(feeds), k \in Keys : Join(invite, k)
  \/ \E k \in Keys : Leave(k)
  \/ \E g \in sweepers : SweeperStops(g) \/ Sweep(g)
  \/ Tick
  \/ \E r \in Requests :
       \/ \E client \in Keys \cup {Owner}, c \in Commands : TakeCommand(r, client, c)
       \/ ReadFails(r)
       \/ \E now \in ClockReadings : ApplyCommand(r, now)
  \/ UNCHANGED vars

LEMMA SameRoomStays ==
  ASSUME UNCHANGED room, NEW k \in Members'
  PROVE  StaysInRoom(k)
BY DEF StaysInRoom, Members, IsOpen

LEMMA TakenRoomEmpty ==
  ASSUME LockClosesExpired \/ Close
  PROVE  Members' = {}
BY DEF LockClosesExpired, Close, TakeRoom, Members, IsOpen

LEMMA JoinStays ==
  ASSUME IInv, NEW invite, NEW j \in Keys, Join(invite, j), NEW k \in Members'
  PROVE  StaysInRoom(k) \/ ComesNew(k)
<1> DEFINE h == [g \in DOMAIN room.guests \cup {j} |->
                   IF g = j THEN NewGuest ELSE room.guests[g]]
<1>1. IsOpen /\ j \notin issued /\ SetGuests(h)
  BY DEF Join
<1>2. DOMAIN room.guests \subseteq Keys /\ room.guests \in [DOMAIN room.guests -> Guests]
  BY <1>1, RoomFields DEF IInv, TypeOK
<1>3. DOMAIN h = DOMAIN room.guests \cup {j} /\ DOMAIN h \subseteq Keys
      /\ h \in [DOMAIN h -> Guests]
  BY <1>2, OneMoreGuest
<1>4. /\ h[j] = NewGuest
      /\ \A g \in DOMAIN room.guests : g # j => h[g] = room.guests[g]
  OBVIOUS
<1> HIDE DEF h
<1>5. IsRoom(room') /\ room'.guests = h /\ room'.generation = room.generation
  BY <1>1, <1>3, SetGuestsType DEF IInv
<1>6. k \in DOMAIN h /\ Members = DOMAIN room.guests
  BY <1>1, <1>5, OpenRoomIsRoom DEF Members, IsOpen
<1> QED BY <1>1, <1>3, <1>4, <1>5, <1>6 DEF StaysInRoom, ComesNew

LEMMA GoStays ==
  ASSUME IInv, IsOpen, NEW gone \in SUBSET Members,
         SetGuests(Restrict(room.guests, DOMAIN room.guests \ gone)), NEW k \in Members'
  PROVE  StaysInRoom(k)
<1> DEFINE g == Restrict(room.guests, DOMAIN room.guests \ gone)
<1>1. /\ Members = DOMAIN room.guests /\ Members \subseteq Keys
      /\ room.guests \in [Members -> Guests]
  BY MembersAreGuests DEF IInv
<1>2. DOMAIN g = Members \ gone /\ DOMAIN g \subseteq Keys /\ g \in [DOMAIN g -> Guests]
  BY <1>1, FewerGuests
<1>3. \A j \in DOMAIN g : g[j] = room.guests[j]
  BY <1>1 DEF Restrict
<1>4. SetGuests(g)
  OBVIOUS
<1> HIDE DEF g
<1>5. IsRoom(room') /\ room'.guests = g /\ room'.generation = room.generation
  BY <1>2, <1>4, SetGuestsType DEF IInv
<1>6. k \in DOMAIN g
  BY <1>5, OpenRoomIsRoom DEF Members, IsOpen
<1> QED BY <1>2, <1>3, <1>5, <1>6 DEF StaysInRoom

LEMMA TickStays ==
  ASSUME IInv, Tick, NEW k \in Members'
  PROVE  StaysInRoom(k)
<1> DEFINE g == [j \in DOMAIN room.guests |-> Aged(room.guests[j])]
<1>1. IsOpen /\ IsOpen' /\ GuestsKept
  BY TickKeepsGuests DEF IInv
<1>2. k \in Members /\ room'.generation = room.generation
  BY <1>1 DEF GuestsKept, Members
<1>3. room'.guests = g
  BY <1>1 DEF Tick, IInv, TypeOK, IsRoom
<1>4. room.guests[k] \in Guests /\ k \in DOMAIN room.guests
  BY <1>1, <1>2, MembersAreGuests DEF IInv
<1>5. ASSUME NEW guest \in Guests
      PROVE  Aged(guest).openStreams = guest.openStreams /\ Aged(guest).audio = guest.audio
  BY DEF Aged, Guests
<1> QED BY <1>2, <1>3, <1>4, <1>5 DEF StaysInRoom

LEMMA RoomActionsStay ==
  ASSUME IInv, RoomActions, NEW k \in Members'
  PROVE  StaysInRoom(k) \/ ComesNew(k)
<1>1. CASE LockClosesExpired \/ Close
  BY <1>1, TakenRoomEmpty
<1>2. CASE \E c \in closing : TellFeed(c) \/ \E j \in c.keys : RevokeNext(c, j)
  BY <1>2, SameRoomStays DEF TellFeed, RevokeNext
<1>3. CASE \E now \in ClockReadings : Open(now)
  <2>1. room'.guests = NoGuests
    BY <1>3, OpenEffect DEF IInv
  <2> QED BY <2>1 DEF Members, NoGuests
<1>4. CASE \E invite \in 1..Len(feeds), j \in Keys : Join(invite, j)
  BY <1>4, JoinStays
<1>5. CASE \E j \in Keys : Leave(j)
  <2>1. PICK j \in Keys : Leave(j)
    BY <1>5
  <2>2. IsOpen /\ {j} \in SUBSET Members
        /\ SetGuests(Restrict(room.guests, DOMAIN room.guests \ {j}))
    BY <2>1 DEF Leave, Members
  <2> QED BY <2>2, GoStays
<1>6. CASE \E i \in sweepers : Sweep(i)
  <2> DEFINE gone == {j \in Members : ~Stays(room.guests[j])}
  <2>1. IsOpen /\ gone \in SUBSET Members
        /\ SetGuests(Restrict(room.guests, DOMAIN room.guests \ gone))
    BY <1>6 DEF Sweep
  <2> HIDE DEF gone
  <2> QED BY <2>1, GoStays
<1>7. CASE Tick
  BY <1>7, TickStays
<1>8. ASSUME NEW r \in Requests, NEW now \in ClockReadings, ApplyCommand(r, now)
      PROVE  StaysInRoom(k)
  <2>1. CASE UNCHANGED room
    BY <2>1, SameRoomStays
  <2>2. CASE /\ IsOpen /\ IsRoom(room') /\ room'.generation = room.generation
             /\ room'.guests = room.guests
    BY <2>2 DEF StaysInRoom, Members
  <2> QED BY <1>8, <2>1, <2>2, ApplyCommandEffect DEF IInv
<1>9. CASE UNCHANGED room
  BY <1>9, SameRoomStays
<1> QED BY <1>1, <1>2, <1>3, <1>4, <1>5, <1>6, <1>7, <1>8, <1>9
        DEF RoomActions, SweeperStops, TakeCommand, ReadFails, vars
-----------------------------------------------------------------------------
(* What a step leaves of the feeds *)

\* A feed moves to a new version: it is closed, for good, or a newer snapshot.
FeedMoves(f, g) ==
  \/ g = f
  \/ /\ g.version = f.version + 1
     /\ f.closed => g.closed
     /\ g.closed \/ g.state.revision > f.state.revision

FeedsMove ==
  \A h \in 1..Len(feeds) : h \in 1..Len(feeds') /\ FeedMoves(feeds[h], feeds'[h])

LEMMA PublishMoves ==
  ASSUME IInv, IsOpen, NEW s \in RoomStates, s.revision = room.state.revision + 1,
         Publish(s)
  PROVE  FeedsMove
<1> DEFINE f == [version |-> feeds[room.generation].version + 1, closed |-> FALSE,
                 state |-> s]
<1>1. room.generation \in 1..Len(feeds) /\ feeds \in Seq(Feeds)
  BY RoomFields DEF IInv, TypeOK
<1>2. feeds[room.generation] \in Feeds /\ room.state \in RoomStates
  BY <1>1, RoomFields DEF IInv, TypeOK
<1>3. f \in Feeds
  BY <1>2 DEF Feeds
<1>4. feeds' = [feeds EXCEPT ![room.generation] = f]
  BY <1>1, <1>2 DEF Publish
<1>5. feeds[room.generation].state = room.state /\ ~feeds[room.generation].closed
  BY DEF IInv, FeedIsCurrent
<1>6. FeedMoves(feeds[room.generation], f)
  BY <1>2, <1>5 DEF FeedMoves, RoomStates
<1> HIDE DEF f
<1>7. /\ Len(feeds') = Len(feeds) /\ feeds'[room.generation] = f
      /\ \A h \in 1..Len(feeds) : h # room.generation => feeds'[h] = feeds[h]
  BY <1>1, <1>3, <1>4, FeedPublished
<1> QED BY <1>6, <1>7 DEF FeedsMove, FeedMoves

LEMMA SetGuestsMoves ==
  ASSUME IInv, IsOpen, NEW g, DOMAIN g \subseteq Keys, SetGuests(g)
  PROVE  FeedsMove
<1> DEFINE s == SetGuestCount(room.state, Cardinality(DOMAIN g))
<1>1. room.state \in RoomStates /\ CurrentInQueue(room.state)
  BY RoomFields DEF IInv, TypeOK
<1>2. s \in RoomStates /\ s.revision = room.state.revision + 1
  BY <1>1, SomeKeysFinite, SetGuestCountType
<1>3. Publish(s)
  BY DEF SetGuests
<1> HIDE DEF s
<1> QED BY <1>2, <1>3, PublishMoves

LEMMA ApplyCommandMoves ==
  ASSUME IInv, NEW r \in Requests, NEW now \in ClockReadings, ApplyCommand(r, now)
  PROVE  UNCHANGED feeds \/ FeedsMove
<1> DEFINE c == requests[r].command
           s == Apply(room.state, c, now)
<1>1. CASE UNCHANGED feeds
  BY <1>1
<1>2. CASE IsOpen /\ Changes(room.state, c) /\ Publish(s)
  <2>1. room.state \in RoomStates /\ CurrentInQueue(room.state)
    BY <1>2, RoomFields DEF IInv, TypeOK
  <2>2. IsCommand(c) /\ Validate(c)
    BY TakenCommand DEF ApplyCommand, IInv
  <2>3. s \in RoomStates /\ s.revision = room.state.revision + 1
    BY <1>2, <2>1, <2>2, ApplyType, ApplyRaisesRevision, ListenTogetherAssumption
  <2> HIDE DEF s
  <2> QED BY <1>2, <2>3, PublishMoves
<1> QED BY <1>1, <1>2 DEF ApplyCommand

LEMMA TellFeedMoves ==
  ASSUME IInv, NEW c \in closing, TellFeed(c)
  PROVE  FeedsMove /\ feeds'[c.generation].closed
<1> DEFINE f == [feeds[c.generation] EXCEPT !.version = @ + 1, !.closed = TRUE]
<1>1. c.generation \in 1..Len(feeds) /\ feeds \in Seq(Feeds)
  BY DEF IInv, TypeOK
<1>2. feeds[c.generation] \in Feeds
  BY <1>1
<1>3. f.version = feeds[c.generation].version + 1 /\ f.closed
  BY <1>2 DEF Feeds
<1>4. feeds' = [feeds EXCEPT ![c.generation] = f]
  BY <1>1, <1>2 DEF TellFeed
<1> HIDE DEF f
<1>5. feeds'[c.generation] = f
  BY <1>1, <1>4
<1>6. /\ Len(feeds') = Len(feeds)
      /\ \A h \in 1..Len(feeds) : h # c.generation => feeds'[h] = feeds[h]
  BY TellFeedTypeOK DEF IInv
<1> QED BY <1>1, <1>3, <1>5, <1>6 DEF FeedsMove, FeedMoves

LEMMA OpenMoves ==
  ASSUME IInv, NEW now \in ClockReadings, Open(now)
  PROVE  FeedsMove
<1> DEFINE f == [version |-> 0, closed |-> FALSE, state |-> NewRoomState(now)]
<1>1. feeds \in Seq(Feeds) /\ feeds' = Append(feeds, f)
  BY DEF IInv, TypeOK, Open
<1> HIDE DEF f
<1> QED BY <1>1 DEF FeedsMove, FeedMoves

LEMMA NextMovesFeeds ==
  ASSUME IInv, [Next]_vars
  PROVE  FeedsMove
<1>1. CASE UNCHANGED feeds
  BY <1>1 DEF FeedsMove, FeedMoves
<1>2. CASE QuietActions
  BY <1>1, <1>2, QuietActionsQuiet DEF IInv, Quiet
<1>3. ASSUME NEW invite, NEW k \in Keys, Join(invite, k)
      PROVE  FeedsMove
  BY <1>3, JoinEffect, SetGuestsMoves DEF IInv, Join
<1>4. ASSUME IsOpen, NEW gone, SetGuests(Restrict(room.guests, DOMAIN room.guests \ gone))
      PROVE  FeedsMove
  <2> DEFINE g == Restrict(room.guests, DOMAIN room.guests \ gone)
  <2>1. DOMAIN g \subseteq Keys
    BY <1>4, MembersAreGuests, FewerGuests DEF IInv
  <2> HIDE DEF g
  <2> QED BY <1>4, <2>1, SetGuestsMoves DEF g
<1>5. ASSUME NEW k \in Keys, Leave(k)
      PROVE  FeedsMove
  BY <1>4, <1>5 DEF Leave, Members
<1>6. ASSUME NEW i \in sweepers, Sweep(i)
      PROVE  FeedsMove
  BY <1>4, <1>6 DEF Sweep
<1>7. CASE LockClosesExpired \/ Close
  BY <1>1, <1>7 DEF LockClosesExpired, Close
<1>8. ASSUME NEW c \in closing, NEW k \in c.keys, RevokeNext(c, k)
      PROVE  FeedsMove
  BY <1>1, <1>8 DEF RevokeNext
<1> QED BY <1>1, <1>2, <1>3, <1>5, <1>6, <1>7, <1>8, ApplyCommandMoves, TellFeedMoves,
           OpenMoves
        DEF Next, QuietActions
-----------------------------------------------------------------------------
(* Closing Rooms *)

\* A closing Room tells its feed before the first session is revoked, and
\* whoever was in it is revoked or about to be.
ClosingInOrder ==
  \A c \in closing :
    /\ c.guests \subseteq c.keys \cup revoked
    /\ c.told => feeds[c.generation].closed
    /\ ~c.told => c.keys = c.guests

LEMMA SessionsGrow ==
  ASSUME [Next]_vars
  PROVE  issued \subseteq issued' /\ revoked \subseteq revoked'
BY DEF Next, vars, LockClosesExpired, Close, TellFeed, RevokeNext, Open, Join, Leave,
       SweeperStops, Sweep, Tick, TakeCommand, ReadFails, ApplyCommand, Subscribe,
       FirstFrame, PollSession, PollFeed, StreamStep, StreamEnds, OpenAudioStream,
       AudioStreamEnds

\* The steps that change which Rooms are closing.
ClosingActions ==
  \/ LockClosesExpired
  \/ Close
  \/ \E c \in closing : TellFeed(c) \/ \E k \in c.keys : RevokeNext(c, k)

LEMMA OthersKeepClosing ==
  ASSUME [Next]_vars, ~ClosingActions
  PROVE  UNCHANGED closing
BY DEF Next, vars, ClosingActions, Open, Join, Leave, SweeperStops, Sweep, Tick,
       TakeCommand, ReadFails, ApplyCommand, Subscribe, FirstFrame, PollSession,
       PollFeed, StreamStep, StreamEnds, OpenAudioStream, AudioStreamEnds

\* The Room that a closing Room was, before the step or since.
LEMMA ClosingWas ==
  ASSUME IInv, [Next]_vars, NEW c \in closing'
  PROVE  \/ \E d \in closing : c.guests = d.guests /\ c.generation = d.generation
         \/ IsOpen /\ c.guests = Members /\ c.generation = room.generation
<1>1. CASE UNCHANGED closing
  BY <1>1
<1>2. CASE LockClosesExpired \/ Close
  <2>1. IsOpen /\ \E h \in BOOLEAN : TakeRoom(h)
    BY <1>2 DEF LockClosesExpired, Close, Expired
  <2> QED BY <2>1 DEF TakeRoom, Members
<1>3. ASSUME NEW e \in closing, TellFeed(e) \/ \E k \in e.keys : RevokeNext(e, k)
      PROVE  \E d \in closing : c.guests = d.guests /\ c.generation = d.generation
  <2>1. e \in ClosingRooms
    BY DEF IInv, TypeOK
  <2> DEFINE Same(d) == d.guests = e.guests /\ d.generation = e.generation
  <2>2. Same([e EXCEPT !.told = TRUE]) /\ \A k : Same([e EXCEPT !.keys = @ \ {k}])
    BY <2>1 DEF ClosingRooms
  <2>3. PICK d : Continue(e, d) /\ Same(d)
    <3>1. CASE TellFeed(e)
      BY <2>2, <3>1 DEF TellFeed
    <3>2. CASE \E k \in e.keys : RevokeNext(e, k)
      BY <2>2, <3>2 DEF RevokeNext
    <3> QED BY <1>3, <3>1, <3>2
  <2> QED BY <2>3 DEF Continue
<1> QED BY <1>1, <1>2, <1>3, OthersKeepClosing DEF ClosingActions

LEMMA NextClosingInOrder ==
  ASSUME IInv, ClosingInOrder, [Next]_vars
  PROVE  ClosingInOrder'
<1>1. /\ revoked \subseteq revoked'
      /\ \A c \in closing : feeds[c.generation].closed => feeds'[c.generation].closed
  <2>1. \A c \in closing : c.generation \in 1..Len(feeds)
    BY DEF IInv, TypeOK
  <2> QED BY <2>1, SessionsGrow, NextMovesFeeds DEF FeedsMove, FeedMoves
<1>2. CASE UNCHANGED closing
  BY <1>1, <1>2 DEF ClosingInOrder
<1>3. CASE LockClosesExpired \/ Close
  <2>1. \E h \in BOOLEAN : TakeRoom(h)
    BY <1>3 DEF LockClosesExpired, Close
  <2> QED BY <1>1, <2>1 DEF TakeRoom, ClosingInOrder
<1>4. ASSUME NEW e \in closing, TellFeed(e)
      PROVE  ClosingInOrder'
  <2> DEFINE d == [e EXCEPT !.told = TRUE]
  <2>1. /\ Continue(e, d) /\ d.guests = e.guests /\ d.keys = e.keys /\ d.told
        /\ d.generation = e.generation
    BY <1>4 DEF TellFeed, IInv, TypeOK, ClosingRooms
  <2> HIDE DEF d
  <2>2. feeds'[d.generation].closed
    BY <1>4, <2>1, TellFeedMoves
  <2> QED BY <1>1, <2>1, <2>2 DEF Continue, ClosingInOrder
<1>5. ASSUME NEW e \in closing, NEW k \in e.keys, RevokeNext(e, k)
      PROVE  ClosingInOrder'
  <2> DEFINE d == [e EXCEPT !.keys = @ \ {k}]
  <2>1. /\ Continue(e, d) /\ d.guests = e.guests /\ d.keys = e.keys \ {k} /\ d.told
        /\ d.generation = e.generation /\ e.told /\ revoked' = revoked \cup {k}
    BY <1>5 DEF RevokeNext, IInv, TypeOK, ClosingRooms
  <2> HIDE DEF d
  <2> QED BY <1>1, <2>1 DEF Continue, ClosingInOrder
<1> QED BY <1>2, <1>3, <1>4, <1>5, OthersKeepClosing DEF ClosingActions

-----------------------------------------------------------------------------
(* Who holds a stream or waits with a command *)

\* x is a stream or a command of the Owner or of a session handed out.  Whoever
\* is in a Room, open or closing, holds it under the generation of that Room.
HeldInRoom(x) ==
  /\ x.client = Owner \/ x.client \in issued
  /\ x.client \in Members => x.generation = room.generation
  /\ \A c \in closing : x.client \in c.guests => x.generation = c.generation

\* The actions of event streams.
StreamActions(s) ==
  \/ \E client \in Keys \cup {Owner} : Subscribe(s, client)
  \/ FirstFrame(s) \/ PollSession(s) \/ PollFeed(s) \/ StreamEnds(s)

AudioActions ==
  \/ \E k \in Keys, t \in AudioTargets : OpenAudioStream(k, t)
  \/ \E b \in bodies : AudioStreamEnds(b)

LEMMA NextSplit ==
  ASSUME [Next]_vars
  PROVE  RoomActions \/ (\E s \in StreamIds : StreamActions(s)) \/ AudioActions
BY DEF Next, RoomActions, StreamActions, AudioActions

LEMMA MembersAreKeys ==
  ASSUME TypeOK
  PROVE  Members \subseteq Keys /\ Owner \notin Members
BY MembersAreGuests, ListenTogetherAssumption DEF Members, Owner

LEMMA MembersWere ==
  ASSUME IInv, [Next]_vars, NEW k \in Members'
  PROVE  \/ k \in Members /\ room'.generation = room.generation
         \/ k \in Keys \ issued
<1>1. CASE RoomActions
  BY <1>1, RoomActionsStay DEF StaysInRoom, ComesNew
<1>2. CASE (\E s \in StreamIds : StreamActions(s)) \/ AudioActions
  <2>1. QuietActions
    BY <1>2 DEF QuietActions, StreamActions, AudioActions
  <2> QED BY <2>1, QuietActionsQuiet, GuestsKeptMembers DEF Quiet, IInv
<1> QED BY <1>1, <1>2, NextSplit

\* What is held goes on being held in the same Room.
LEMMA HeldStays ==
  ASSUME IInv, IInv', [Next]_vars, NEW x, HeldInRoom(x)
  PROVE  /\ x.client = Owner \/ x.client \in issued'
         /\ x.client \in Members' => x.generation = room'.generation
         /\ \A c \in closing' : x.client \in c.guests => x.generation = c.generation
<1>1. x.client = Owner \/ x.client \in issued'
  BY SessionsGrow DEF HeldInRoom
<1>2. x.client \in Members' => x.generation = room'.generation
  <2>1. Owner \notin Members'
    BY MembersAreGuests, ListenTogetherAssumption DEF IInv, Members, Owner, TypeOK, IsRoom
  <2> QED BY <2>1, MembersWere DEF HeldInRoom
<1>3. \A c \in closing' : x.client \in c.guests => x.generation = c.generation
  BY ClosingWas DEF HeldInRoom
<1> QED BY <1>1, <1>2, <1>3

\* Something newly held by the Owner or a member of the open Room.
LEMMA NewlyHeld ==
  ASSUME IInv, ClosingInOrder, IsOpen, NEW x, Require(x.client),
         x.generation = room.generation
  PROVE  HeldInRoom(x)
<1>1. CASE x.client = Owner
  <2>1. Owner \notin Keys /\ \A c \in closing : c.guests \subseteq Keys
    BY ListenTogetherAssumption DEF Owner, IInv, TypeOK, ClosingRooms
  <2> QED BY <1>1, <2>1 DEF HeldInRoom
<1>2. CASE x.client \in Members
  <2>1. /\ Members \subseteq issued
        /\ Members \cap revoked = {} /\ Members \cap PendingRevocations = {}
    BY DEF IInv, SessionsAccountedFor
  <2>2. \A c \in closing : c.guests \subseteq PendingRevocations \cup revoked
    BY DEF ClosingInOrder, PendingRevocations
  <2> QED BY <1>2, <2>1, <2>2 DEF HeldInRoom
<1> QED BY <1>1, <1>2 DEF Require
-----------------------------------------------------------------------------
(* Event streams *)

\* A stream sends one snapshot at most after its Guest is out, and is past its
\* last look at the session when it does.
LateOnce(t) ==
  /\ t.late \in {0, 1}
  /\ t.stage \in {"none", "subscribed", "polled"} \/ t.client \notin revoked
     => t.late = 0

\* A stream never is ahead of its feed, and what it has not seen yet is newer
\* than what it sent.
BehindFeed(t, f) ==
  /\ t.seen <= f.version
  /\ t.stage = "polled" => t.seen < f.version
  /\ ~f.closed => /\ t.sent <= f.state.revision
                  /\ t.seen < f.version => t.sent < f.state.revision

StreamOK(s) ==
  /\ HeldInRoom(streams[s])
  /\ LateOnce(streams[s])
  /\ streams[s].stage \in {"live", "polled"} => BehindFeed(streams[s], FeedOf(streams[s]))

LEMMA StreamTypes ==
  ASSUME TypeOK, NEW s \in StreamIds
  PROVE  /\ streams[s] \in Streams
         /\ streams[s].stage # "none" => /\ streams[s].generation \in 1..Len(feeds)
                                         /\ FeedOf(streams[s]) \in Feeds
BY DEF TypeOK, FeedOf

LEMMA BehindMovedFeed ==
  ASSUME NEW t \in Streams, NEW f \in Feeds, NEW g \in Feeds, FeedMoves(f, g),
         BehindFeed(t, f)
  PROVE  BehindFeed(t, g)
<1>1. /\ t.seen \in Nat /\ t.sent \in Nat
      /\ f.version \in Nat /\ f.state.revision \in Nat
      /\ g.version \in Nat /\ g.state.revision \in Nat
  BY DEF Streams, Feeds, RoomStates
<1> QED BY <1>1 DEF FeedMoves, BehindFeed

LEMMA UntouchedStreamOK ==
  ASSUME IInv, IInv', [Next]_vars, NEW s \in StreamIds, StreamOK(s),
         streams'[s] = streams[s]
  PROVE  StreamOK(s)'
<1>1. HeldInRoom(streams[s])'
  BY HeldStays DEF StreamOK, HeldInRoom
<1>2. LateOnce(streams[s])'
  BY SessionsGrow DEF StreamOK, LateOnce
<1>3. ASSUME streams[s].stage \in {"live", "polled"}
      PROVE  BehindFeed(streams'[s], FeedOf(streams[s])')
  <2>1. /\ streams[s] \in Streams /\ streams[s].generation \in 1..Len(feeds)
        /\ FeedOf(streams[s]) \in Feeds
    BY <1>3, StreamTypes DEF IInv
  <2>2. FeedOf(streams[s])' \in Feeds
    BY <1>3 DEF IInv, TypeOK, FeedOf
  <2>3. FeedMoves(FeedOf(streams[s]), FeedOf(streams[s])')
    BY <2>1, NextMovesFeeds DEF FeedsMove, FeedOf
  <2> QED BY <1>3, <2>1, <2>2, <2>3, BehindMovedFeed DEF StreamOK
<1> QED BY <1>1, <1>2, <1>3 DEF StreamOK

LEMMA SubscribedOK ==
  ASSUME IInv, IInv', ClosingInOrder, [Next]_vars, NEW s \in StreamIds,
         NEW client \in Keys \cup {Owner}, Subscribe(s, client)
  PROVE  StreamOK(s)'
<1>1. /\ streams'[s].stage = "subscribed" /\ streams'[s].client = client
      /\ streams'[s].generation = room.generation /\ streams'[s].late = 0
      /\ IsOpen /\ Require(client)
  BY DEF Subscribe, IInv, TypeOK
<1>2. HeldInRoom([client |-> client, generation |-> room.generation])
  BY <1>1, NewlyHeld
<1>3. HeldInRoom(streams[s])'
  BY <1>1, <1>2, HeldStays DEF HeldInRoom
<1> QED BY <1>1, <1>3 DEF StreamOK, LateOnce

LEMMA FramedFields ==
  ASSUME NEW t \in Streams
  PROVE  LET f == FeedOf(t)
         IN  /\ Framed(t).client = t.client /\ Framed(t).generation = t.generation
             /\ Framed(t).late = IF ~f.closed /\ t.client \in revoked THEN t.late + 1
                                                                    ELSE t.late
             /\ Framed(t).stage = IF f.closed THEN "ending" ELSE "live"
             /\ Framed(t).seen = f.version
             /\ ~f.closed => Framed(t).sent = f.state.revision
BY DEF Framed, Streams

LEMMA FramedOK ==
  ASSUME IInv, IInv', [Next]_vars, NEW s \in StreamIds, StreamOK(s),
         FirstFrame(s) \/ PollFeed(s)
  PROVE  /\ StreamOK(s)'
         /\ streams'[s] = Framed(streams[s]) /\ UNCHANGED feeds
<1> DEFINE t == streams[s]
           f == FeedOf(t)
<1>1. t.stage \in {"subscribed", "polled"} /\ StreamStep(s, Framed(t))
  BY DEF FirstFrame, PollFeed
<1>2. t \in Streams /\ f \in Feeds /\ f.version \in Nat /\ f.state.revision \in Nat
  BY <1>1, StreamTypes DEF IInv, Feeds, RoomStates
<1>3. t.late = 0
  BY <1>1 DEF StreamOK, LateOnce
<1>4. UNCHANGED <<feeds, revoked>> /\ streams'[s] = Framed(t)
  BY <1>1 DEF StreamStep, IInv, TypeOK
<1>5. /\ Framed(t).client = t.client /\ Framed(t).generation = t.generation
      /\ Framed(t).late = IF ~f.closed /\ t.client \in revoked THEN 1 ELSE 0
      /\ Framed(t).stage = IF f.closed THEN "ending" ELSE "live"
      /\ Framed(t).seen = f.version
      /\ ~f.closed => Framed(t).sent = f.state.revision
  BY <1>2, <1>3, FramedFields
<1>6. HeldInRoom(streams[s])'
  BY <1>4, <1>5, HeldStays DEF StreamOK, HeldInRoom
<1>7. FeedOf(streams[s])' = f
  BY <1>4, <1>5 DEF FeedOf
<1>8. LateOnce(streams[s])'
  BY <1>4, <1>5 DEF LateOnce
<1>9. streams'[s].stage \in {"live", "polled"} => BehindFeed(streams'[s], f)
  BY <1>2, <1>4, <1>5 DEF BehindFeed
<1> QED BY <1>4, <1>6, <1>7, <1>8, <1>9 DEF StreamOK

LEMMA PolledOK ==
  ASSUME IInv, IInv', [Next]_vars, NEW s \in StreamIds, StreamOK(s), PollSession(s)
  PROVE  StreamOK(s)'
<1> DEFINE t == streams[s]
           u == streams'[s]
           f == FeedOf(t)
<1>1. t.stage = "live" /\ t \in Streams /\ f \in Feeds /\ f.version \in Nat
  BY StreamTypes DEF PollSession, IInv, Feeds
<1>2. /\ u.client = t.client /\ u.generation = t.generation
      /\ u.late = t.late /\ u.seen = t.seen /\ u.sent = t.sent
      /\ u.stage \in {"polled", "ending"}
      /\ u.stage = "polled" => t.client \notin revoked /\ f.version # t.seen
      /\ UNCHANGED <<feeds, revoked>>
  BY <1>1 DEF PollSession, StreamStep, IInv, TypeOK, Streams
<1>3. HeldInRoom(streams[s])'
  BY <1>2, HeldStays DEF StreamOK, HeldInRoom
<1>4. LateOnce(streams[s])'
  BY <1>1, <1>2 DEF StreamOK, LateOnce
<1>5. FeedOf(streams[s])' = f
  BY <1>2 DEF FeedOf
<1>6. u.stage = "polled" => BehindFeed(u, f)
  <2>1. BehindFeed(t, f) /\ t.seen \in Nat
    BY <1>1 DEF StreamOK, Streams
  <2> QED BY <1>1, <1>2, <2>1 DEF BehindFeed
<1> QED BY <1>2, <1>3, <1>4, <1>5, <1>6 DEF StreamOK

LEMMA EndedOK ==
  ASSUME IInv, IInv', [Next]_vars, NEW s \in StreamIds, StreamEnds(s)
  PROVE  StreamOK(s)'
<1>1. streams'[s] = NoStream
  BY DEF StreamEnds, IInv, TypeOK
<1>2. NoStream.client = Owner /\ NoStream.stage = "none" /\ NoStream.late = 0
  BY DEF NoStream
<1>3. /\ Owner \notin Keys /\ \A c \in closing' : c.guests \subseteq Keys
      /\ Members' \subseteq Keys
  BY ListenTogetherAssumption
     DEF Owner, IInv, TypeOK, ClosingRooms, Members, IsRoom
<1> QED BY <1>1, <1>2, <1>3 DEF StreamOK, HeldInRoom, LateOnce

LEMMA OneStreamTouched ==
  ASSUME TypeOK, NEW s \in StreamIds, StreamActions(s), NEW i \in StreamIds, i # s
  PROVE  streams'[i] = streams[i]
BY DEF StreamActions, Subscribe, FirstFrame, PollSession, PollFeed, StreamStep,
       StreamEnds, TypeOK

LEMMA OthersKeepStreams ==
  ASSUME RoomActions \/ AudioActions
  PROVE  UNCHANGED streams
BY DEF RoomActions, AudioActions, LockClosesExpired, Close, TellFeed, RevokeNext, Open,
       Join, Leave, SweeperStops, Sweep, Tick, TakeCommand, ReadFails, ApplyCommand,
       OpenAudioStream, AudioStreamEnds, vars

LEMMA NextStreamOK ==
  ASSUME IInv, IInv', ClosingInOrder, \A s \in StreamIds : StreamOK(s), [Next]_vars,
         NEW s \in StreamIds
  PROVE  StreamOK(s)'
<1>1. CASE streams'[s] = streams[s]
  BY <1>1, UntouchedStreamOK
<1>2. CASE StreamActions(s)
  BY <1>2, SubscribedOK, FramedOK, PolledOK, EndedOK DEF StreamActions
<1>3. \/ streams'[s] = streams[s]
      \/ StreamActions(s)
  BY NextSplit, OthersKeepStreams, OneStreamTouched DEF IInv
<1> QED BY <1>1, <1>2, <1>3
-----------------------------------------------------------------------------
(* Commands that wait for the library *)

RequestOK(r) == requests[r].stage = "taken" => HeldInRoom(requests[r])

LEMMA NextRequestOK ==
  ASSUME IInv, IInv', ClosingInOrder, [Next]_vars, NEW r \in Requests, RequestOK(r)
  PROVE  RequestOK(r)'
<1>1. CASE requests'[r] = requests[r]
  BY <1>1, HeldStays DEF RequestOK, HeldInRoom
<1>2. CASE requests'[r] = DoneRequest
  BY <1>2 DEF RequestOK, DoneRequest
<1>3. ASSUME NEW client \in Keys \cup {Owner}, NEW c \in Commands,
             TakeCommand(r, client, c)
      PROVE  RequestOK(r)'
  <2>1. /\ requests'[r].client = client /\ requests'[r].generation = room.generation
        /\ IsOpen /\ Require(client)
    BY <1>3 DEF TakeCommand, IInv, TypeOK
  <2>2. HeldInRoom([client |-> client, generation |-> room.generation])
    BY <2>1, NewlyHeld
  <2> QED BY <2>1, <2>2, HeldStays DEF RequestOK, HeldInRoom
<1>4. ASSUME NEW q \in Requests,
             \/ \E client \in Keys \cup {Owner}, c \in Commands : TakeCommand(q, client, c)
             \/ ReadFails(q)
             \/ \E now \in ClockReadings : ApplyCommand(q, now)
      PROVE  RequestOK(r)'
  <2>1. CASE q = r
    <3>1. ReadFails(r) \/ (\E now \in ClockReadings : ApplyCommand(r, now))
          => requests'[r] = DoneRequest
      BY DEF ReadFails, ApplyCommand, IInv, TypeOK
    <3> QED BY <1>2, <1>3, <1>4, <2>1, <3>1
  <2>2. CASE q # r
    <3>1. requests'[r] = requests[r]
      BY <1>4, <2>2 DEF TakeCommand, ReadFails, ApplyCommand, IInv, TypeOK
    <3> QED BY <1>1, <3>1
  <2> QED BY <2>1, <2>2
<1>5. CASE UNCHANGED requests
  BY <1>1, <1>5
<1>6. \/ UNCHANGED requests
      \/ \E q \in Requests :
           \/ \E client \in Keys \cup {Owner}, c \in Commands : TakeCommand(q, client, c)
           \/ ReadFails(q)
           \/ \E now \in ClockReadings : ApplyCommand(q, now)
  BY DEF Next, vars, LockClosesExpired, Close, TellFeed, RevokeNext, Open, Join, Leave,
         SweeperStops, Sweep, Tick, Subscribe, FirstFrame, PollSession, PollFeed,
         StreamStep, StreamEnds, OpenAudioStream, AudioStreamEnds
<1> QED BY <1>4, <1>5, <1>6

-----------------------------------------------------------------------------
(* Presence *)

LEMMA OneGuestUpdated ==
  ASSUME TypeOK, NEW k \in Members, NEW guest \in Guests,
         room' = [room EXCEPT !.guests[k] = guest]
  PROVE  /\ Members' = Members /\ room'.generation = room.generation
         /\ room'.guests[k] = guest
         /\ \A j \in Members : j # k => room'.guests[j] = room.guests[j]
<1> DEFINE g == [room.guests EXCEPT ![k] = guest]
<1>1. IsOpen /\ IsRoom(room)
  BY DEF Members, TypeOK
<1>2. /\ DOMAIN g = DOMAIN room.guests /\ DOMAIN g \subseteq Keys
      /\ g \in [DOMAIN g -> Guests] /\ DOMAIN room.guests = Members
      /\ g[k] = guest /\ \A j \in Members : j # k => g[j] = room.guests[j]
  BY <1>1, MembersAreGuests
<1>3. room' = [room EXCEPT !.guests = g]
  OBVIOUS
<1> HIDE DEF g
<1>4. IsRoom(room') /\ room'.guests = g /\ room'.generation = room.generation
  BY <1>1, <1>2, <1>3, WithGuests
<1> QED BY <1>2, <1>4, OpenRoomIsRoom DEF Members, IsOpen

LEMMA StreamsOfFinite ==
  ASSUME NEW k
  PROVE  IsFiniteSet(StreamsOf(k)) /\ Cardinality(StreamsOf(k)) \in Nat
<1>1. IsFiniteSet(StreamsOf(k))
  BY ListenTogetherAssumption, FS_Subset DEF StreamsOf
<1> QED BY <1>1, FS_CardinalityType

\* A session not handed out yet has no stream.
LEMMA NobodysStreams ==
  ASSUME IInv, \A s \in StreamIds : StreamOK(s), NEW k \in Keys \ issued
  PROVE  StreamsOf(k) = {}
BY ListenTogetherAssumption DEF StreamOK, HeldInRoom, StreamsOf, Owner

LEMMA RoomActionsPresence ==
  ASSUME IInv, \A s \in StreamIds : StreamOK(s), PresenceIsExact, RoomActions
  PROVE  PresenceIsExact'
<1> SUFFICES ASSUME NEW k \in Members'
             PROVE  room'.guests[k].openStreams = Cardinality(StreamsOf(k))'
  BY DEF PresenceIsExact
<1>1. StreamsOf(k)' = StreamsOf(k)
  BY OthersKeepStreams DEF StreamsOf
<1>2. CASE StaysInRoom(k)
  BY <1>1, <1>2 DEF StaysInRoom, PresenceIsExact
<1>3. CASE ComesNew(k)
  <2>1. StreamsOf(k) = {}
    BY <1>3, NobodysStreams DEF ComesNew
  <2> QED BY <1>1, <1>3, <2>1, NobodyCounted DEF ComesNew, NewGuest
<1> QED BY <1>2, <1>3, RoomActionsStay

LEMMA SubscribePresence ==
  ASSUME IInv, PresenceIsExact, NEW s \in StreamIds, NEW client \in Keys \cup {Owner},
         Subscribe(s, client)
  PROVE  PresenceIsExact'
<1>1. /\ streams'[s].stage = "subscribed" /\ streams'[s].client = client
      /\ streams[s].stage = "none"
      /\ \A i \in StreamIds : i # s => streams'[i] = streams[i]
  BY DEF Subscribe, IInv, TypeOK, NoStream
<1>2. /\ StreamsOf(client)' = StreamsOf(client) \cup {s} /\ s \notin StreamsOf(client)
      /\ \A k : k # client => StreamsOf(k)' = StreamsOf(k)
  BY <1>1 DEF StreamsOf
<1>3. CASE client = Owner
  <2>1. UNCHANGED room /\ Members' = Members /\ Owner \notin Members
    BY <1>3, MembersAreKeys DEF Subscribe, Members, IsOpen, IInv
  <2> QED BY <1>2, <1>3, <2>1 DEF PresenceIsExact
<1>4. CASE client # Owner
  <2> DEFINE guest == [room.guests[client] EXCEPT !.openStreams = @ + 1]
  <2>1. client \in Members
    BY <1>4 DEF Subscribe, Require
  <2>2. guest \in Guests /\ guest.openStreams = room.guests[client].openStreams + 1
    BY <2>1, GuestFields DEF Guests, IInv
  <2>3. room' = [room EXCEPT !.guests[client] = guest]
    BY <1>4 DEF Subscribe
  <2> HIDE DEF guest
  <2>4. /\ Members' = Members /\ room'.guests[client] = guest
        /\ \A j \in Members : j # client => room'.guests[j] = room.guests[j]
    BY <2>1, <2>2, <2>3, OneGuestUpdated DEF IInv
  <2>5. Cardinality(StreamsOf(client) \cup {s}) = Cardinality(StreamsOf(client)) + 1
    BY <1>2, StreamsOfFinite, FS_AddElement
  <2> QED BY <1>2, <2>1, <2>2, <2>4, <2>5 DEF PresenceIsExact
<1> QED BY <1>3, <1>4

LEMMA MovedPresence ==
  ASSUME IInv, PresenceIsExact, NEW s \in StreamIds,
         FirstFrame(s) \/ PollSession(s) \/ PollFeed(s)
  PROVE  PresenceIsExact'
<1>1. UNCHANGED room /\ Members' = Members
  BY DEF FirstFrame, PollSession, PollFeed, StreamStep, Members, IsOpen
<1>2. streams[s] \in Streams /\ \A i \in StreamIds : i # s => streams'[i] = streams[i]
  BY DEF FirstFrame, PollSession, PollFeed, StreamStep, IInv, TypeOK
<1>3. streams[s].stage # "none" /\ streams'[s].stage # "none"
      /\ streams'[s].client = streams[s].client
  <2>1. CASE FirstFrame(s) \/ PollFeed(s)
    <3>1. /\ streams[s].stage \in {"subscribed", "polled"}
          /\ streams'[s] = Framed(streams[s])
      BY <2>1 DEF FirstFrame, PollFeed, StreamStep, IInv, TypeOK
    <3> QED BY <1>2, <3>1, FramedFields
  <2>2. CASE PollSession(s)
    BY <1>2, <2>2 DEF PollSession, StreamStep, IInv, TypeOK, Streams
  <2> QED BY <2>1, <2>2
<1>4. \A k : StreamsOf(k)' = StreamsOf(k)
  BY <1>2, <1>3 DEF StreamsOf
<1> QED BY <1>1, <1>4 DEF PresenceIsExact

LEMMA EndPresence ==
  ASSUME IInv, PresenceIsExact, NEW s \in StreamIds, StreamOK(s), StreamEnds(s),
         NEW k, streams[s].client = k
  PROVE  PresenceIsExact'
<1> DEFINE open == room.guests[k].openStreams
           left == IF open > 0 THEN open - 1 ELSE 0
           guest == [room.guests[k] EXCEPT !.openStreams = left,
                                           !.absentFor = IF left = 0 THEN 0 ELSE @]
<1>1. /\ streams'[s].stage = "none" /\ streams[s].stage # "none"
      /\ \A i \in StreamIds : i # s => streams'[i] = streams[i]
  BY DEF StreamEnds, IInv, TypeOK, NoStream
<1>2. /\ StreamsOf(k)' = StreamsOf(k) \ {s} /\ s \in StreamsOf(k)
      /\ \A j : j # k => StreamsOf(j)' = StreamsOf(j)
  BY <1>1 DEF StreamsOf
<1>3. CASE k \notin Members
  <2>1. UNCHANGED room /\ Members' = Members
    BY <1>3 DEF StreamEnds, Members, IsOpen
  <2> QED BY <1>2, <1>3, <2>1 DEF PresenceIsExact
<1>4. CASE k \in Members
  <2>1. room.generation = streams[s].generation
    BY <1>4 DEF StreamOK, HeldInRoom
  <2>2. room.guests[k] \in Guests /\ open \in Nat /\ left \in Nat
        /\ room.guests[k].absentFor \in 0..GuestGrace
    BY <1>4, GuestFields DEF IInv
  <2>3. guest \in Guests /\ guest.openStreams = left
    <3> DEFINE a == IF left = 0 THEN 0 ELSE room.guests[k].absentFor
    <3>1. a \in 0..GuestGrace
      BY <2>2, ListenTogetherAssumption
    <3> DEFINE h == [room.guests[k] EXCEPT !.openStreams = left]
    <3>2. h \in Guests /\ h.openStreams = left
      BY <2>2 DEF Guests
    <3>3. guest = [h EXCEPT !.absentFor = a]
      BY <2>2 DEF Guests
    <3> HIDE DEF a, guest, left, h
    <3> QED BY <3>1, <3>2, <3>3 DEF Guests
  <2>4. room' = [room EXCEPT !.guests[k] = guest]
    <3>1. room' = [room EXCEPT !.guests[k].openStreams = left,
                               !.guests[k].absentFor = IF left = 0 THEN 0 ELSE @]
      BY <1>4, <2>1, Zenon DEF StreamEnds
    <3> HIDE DEF left
    <3> QED BY <1>4, <3>1 DEF Members
  <2> HIDE DEF guest
  <2>5. /\ Members' = Members /\ room'.guests[k] = guest
        /\ \A j \in Members : j # k => room'.guests[j] = room.guests[j]
    BY <1>4, <2>3, <2>4, OneGuestUpdated DEF IInv
  <2>6. /\ Cardinality(StreamsOf(k) \ {s}) = Cardinality(StreamsOf(k)) - 1
        /\ Cardinality(StreamsOf(k)) \in Nat
        /\ Cardinality(StreamsOf(k) \ {s}) \in Nat
    BY <1>2, StreamsOfFinite, FS_RemoveElement, FS_CardinalityType
  <2>7. open = Cardinality(StreamsOf(k))
    BY <1>4 DEF PresenceIsExact
  <2>8. left = Cardinality(StreamsOf(k) \ {s})
    BY <2>6, <2>7
  <2> QED BY <1>2, <1>4, <2>3, <2>5, <2>8 DEF PresenceIsExact
<1> QED BY <1>3, <1>4
-----------------------------------------------------------------------------
(* Audio streams *)

LEMMA LeastNatural ==
  ASSUME NEW T \in SUBSET Nat, T # {}
  PROVE  \E m \in T : \A n \in T : m <= n
<1> DEFINE R == {ss \in Nat \X Nat : ss[1] < ss[2]}
<1>1. IsWellFoundedOn(R, Nat)
  BY NatLessThanWellFounded DEF OpToRel
<1> HIDE DEF R
<1>2. PICK m \in T : \A n \in T : ~(<<n, m>> \in R)
  BY <1>1, WFMin
<1>3. \A n \in T : ~(n < m)
  BY <1>2 DEF R
<1> QED BY <1>3

\* The places of a Guest in the open Room: within the limit, each handed out
\* before and held by a response.
AudioOK(k) ==
  LET audio == room.guests[k].audio
  IN  /\ IsFiniteSet(audio)
      /\ Cardinality(audio) <= MaxAudioStreams
      /\ \A a \in audio :
           /\ a.id < nextAudio
           /\ [generation |-> room.generation, key |-> k, id |-> a.id] \in bodies

\* At the limit, the oldest stream of the Track is one of those there are.
LEMMA PlacesKeptFewer ==
  ASSUME NEW audio \in SUBSET [id : Nat, target : AudioTargets], IsFiniteSet(audio),
         Cardinality(audio) <= MaxAudioStreams, NEW target,
         Cardinality(audio) < MaxAudioStreams \/ \E a \in audio : a.target = target
  PROVE  /\ PlacesKept(audio, target) \subseteq audio
         /\ IsFiniteSet(PlacesKept(audio, target))
         /\ Cardinality(PlacesKept(audio, target)) < MaxAudioStreams
<1> DEFINE same == {a \in audio : a.target = target}
           oldest == CHOOSE a \in same : \A b \in same : a.id <= b.id
<1>1. Cardinality(audio) \in Nat /\ MaxAudioStreams \in Nat
  BY FS_CardinalityType, ListenTogetherAssumption
<1>2. CASE Cardinality(audio) < MaxAudioStreams
  BY <1>2 DEF PlacesKept
<1>3. CASE ~(Cardinality(audio) < MaxAudioStreams)
  <2>1. same # {}
    BY <1>3
  <2>2. PICK a \in same : \A b \in same : a.id <= b.id
    <3> DEFINE T == {a.id : a \in same}
    <3>1. T \in SUBSET Nat /\ T # {}
      BY <2>1
    <3>2. PICK m \in T : \A n \in T : m <= n
      BY <3>1, LeastNatural
    <3> QED BY <3>2
  <2>3. oldest \in same
    BY <2>2
  <2>4. PlacesKept(audio, target) = audio \ {oldest}
    BY <1>3 DEF PlacesKept
  <2> HIDE DEF oldest
  <2>5. oldest \in audio
    BY <2>3
  <2>6. /\ IsFiniteSet(audio \ {oldest})
        /\ Cardinality(audio \ {oldest}) = Cardinality(audio) - 1
    BY <2>5, FS_RemoveElement
  <2> QED BY <1>1, <2>4, <2>6
<1> QED BY <1>2, <1>3

\* A step that gives or takes no place.
LEMMA PlacesStay ==
  ASSUME \A k \in Members : AudioOK(k), UNCHANGED <<nextAudio, bodies>>,
         NEW k \in Members', StaysInRoom(k)
         \/ (k \in Members /\ room'.generation = room.generation
               /\ room'.guests[k].audio = room.guests[k].audio)
  PROVE  AudioOK(k)'
BY DEF AudioOK, StaysInRoom

LEMMA NewcomersPlaces ==
  ASSUME NEW k, ComesNew(k)
  PROVE  AudioOK(k)'
<1>1. room'.guests[k].audio = {}
  BY DEF ComesNew, NewGuest
<1>2. 0 <= MaxAudioStreams
  BY ListenTogetherAssumption
<1> QED BY <1>1, <1>2, FS_EmptySet DEF AudioOK

LEMMA StreamActionsKeepAudio ==
  ASSUME IInv, NEW s \in StreamIds, StreamActions(s), NEW k \in Members'
  PROVE  /\ k \in Members /\ room'.generation = room.generation
         /\ room'.guests[k].audio = room.guests[k].audio
         /\ UNCHANGED <<nextAudio, bodies>>
<1> DEFINE Keeps == /\ k \in Members /\ room'.generation = room.generation
                    /\ room'.guests[k].audio = room.guests[k].audio
<1>1. UNCHANGED <<nextAudio, bodies>>
  BY DEF StreamActions, Subscribe, FirstFrame, PollSession, PollFeed, StreamStep, StreamEnds
<1>2. CASE UNCHANGED room
  BY <1>1, <1>2 DEF Members, IsOpen
<1>3. ASSUME NEW j \in Members, NEW guest \in Guests,
             guest.audio = room.guests[j].audio,
             room' = [room EXCEPT !.guests[j] = guest]
      PROVE  Keeps
  BY <1>3, OneGuestUpdated DEF IInv
<1>4. ASSUME NEW client \in Keys \cup {Owner}, Subscribe(s, client), ~UNCHANGED room
      PROVE  Keeps
  <2> DEFINE guest == [room.guests[client] EXCEPT !.openStreams = @ + 1]
  <2>1. client # Owner /\ client \in Members
    BY <1>4 DEF Subscribe, Require
  <2>2. guest \in Guests /\ guest.audio = room.guests[client].audio
    BY <2>1, GuestFields DEF Guests, IInv
  <2>3. room' = [room EXCEPT !.guests[client] = guest]
    BY <1>4, <2>1 DEF Subscribe
  <2> HIDE DEF guest
  <2> QED BY <1>3, <2>1, <2>2, <2>3
<1>5. ASSUME StreamEnds(s), ~UNCHANGED room
      PROVE  Keeps
  <2> DEFINE j == streams[s].client
             open == room.guests[j].openStreams
             left == IF open > 0 THEN open - 1 ELSE 0
             h == [room.guests[j] EXCEPT !.openStreams = left]
             a == IF left = 0 THEN 0 ELSE room.guests[j].absentFor
             guest == [room.guests[j] EXCEPT !.openStreams = left,
                                             !.absentFor = IF left = 0 THEN 0 ELSE @]
  <2>1. j \in Members /\ room' = [room EXCEPT !.guests[j] = guest]
    <3>1. CASE j \in Members /\ room.generation = streams[s].generation
      <4>1. room' = [room EXCEPT !.guests[j].openStreams = left,
                                 !.guests[j].absentFor = IF left = 0 THEN 0 ELSE @]
        BY <1>5, <3>1, Zenon DEF StreamEnds
      <4> HIDE DEF j, left
      <4> QED BY <3>1, <4>1 DEF Members
    <3>2. CASE ~(j \in Members /\ room.generation = streams[s].generation)
      <4>1. room' = room
        BY <1>5, <3>2 DEF StreamEnds
      <4> QED BY <1>5, <4>1
    <3> QED BY <3>1, <3>2
  <2>2. /\ room.guests[j] \in Guests /\ left \in Nat /\ a \in 0..GuestGrace
    BY <2>1, GuestFields, ListenTogetherAssumption DEF IInv
  <2>3. guest = [h EXCEPT !.absentFor = a]
    BY <2>2 DEF Guests
  <2> HIDE DEF left, a
  <2>4. h \in Guests /\ h.audio = room.guests[j].audio
    BY <2>2 DEF Guests
  <2> HIDE DEF h, guest
  <2>5. guest \in Guests /\ guest.audio = room.guests[j].audio
    BY <2>2, <2>3, <2>4 DEF Guests
  <2> HIDE DEF j
  <2> QED BY <1>3, <2>1, <2>5
<1>6. CASE FirstFrame(s) \/ PollSession(s) \/ PollFeed(s)
  BY <1>2, <1>6 DEF FirstFrame, PollSession, PollFeed, StreamStep
<1> QED BY <1>1, <1>2, <1>4, <1>5, <1>6 DEF StreamActions

LEMMA OpenAudioOK ==
  ASSUME IInv, \A j \in Members : AudioOK(j), PresenceIsExact,
         NEW k \in Keys, NEW target \in AudioTargets, OpenAudioStream(k, target)
  PROVE  (\A j \in Members : AudioOK(j))' /\ PresenceIsExact'
<1> DEFINE audio == room.guests[k].audio
           kept == PlacesKept(audio, target)
           place == [id |-> nextAudio, target |-> target]
           guest == [room.guests[k] EXCEPT !.audio = kept \cup {place}]
           body == [generation |-> room.generation, key |-> k, id |-> nextAudio]
<1>1. k \in Members /\ room.guests[k] \in Guests /\ nextAudio \in Nat
  BY GuestFields DEF OpenAudioStream, IInv, TypeOK
<1>2. audio \in SUBSET [id : Nat, target : AudioTargets]
  BY <1>1 DEF Guests
<1>3. /\ nextAudio' = nextAudio + 1 /\ bodies' = bodies \cup {body}
      /\ Cardinality(audio) < MaxAudioStreams \/ \E a \in audio : a.target = target
      /\ room' = [room EXCEPT !.guests[k] = guest] /\ UNCHANGED streams
  BY DEF OpenAudioStream
<1>4. AudioOK(k)
  BY <1>1
<1>5. kept \subseteq audio /\ IsFiniteSet(kept) /\ Cardinality(kept) < MaxAudioStreams
  BY <1>2, <1>3, <1>4, PlacesKeptFewer DEF AudioOK
<1>6. /\ IsFiniteSet(kept \cup {place})
      /\ Cardinality(kept \cup {place}) <= MaxAudioStreams
  <2>1. Cardinality(kept) \in Nat /\ MaxAudioStreams \in Nat
    BY <1>5, FS_CardinalityType, ListenTogetherAssumption
  <2>2. /\ IsFiniteSet(kept \cup {place})
        /\ Cardinality(kept \cup {place}) =
             IF place \in kept THEN Cardinality(kept) ELSE Cardinality(kept) + 1
    BY <1>5, FS_AddElement
  <2> QED BY <1>5, <2>1, <2>2
<1>7. /\ guest \in Guests /\ guest.audio = kept \cup {place}
      /\ guest.openStreams = room.guests[k].openStreams
  <2>1. kept \cup {place} \in SUBSET [id : Nat, target : AudioTargets]
    BY <1>1, <1>2, <1>5
  <2> HIDE DEF kept, place
  <2> QED BY <1>1, <2>1 DEF Guests
<1>8. \A a \in kept \cup {place} :
        /\ a.id < nextAudio'
        /\ [generation |-> room.generation, key |-> k, id |-> a.id] \in bodies'
  <2>1. ASSUME NEW a \in kept
        PROVE  /\ a.id < nextAudio'
               /\ [generation |-> room.generation, key |-> k, id |-> a.id] \in bodies'
    BY <1>1, <1>2, <1>3, <1>4, <1>5, <2>1 DEF AudioOK
  <2>2. place.id < nextAudio' /\ body \in bodies' /\ place.id = nextAudio
    BY <1>1, <1>3
  <2> QED BY <2>1, <2>2
<1> HIDE DEF guest, kept, place, body
<1>9. /\ Members' = Members /\ room'.generation = room.generation
      /\ room'.guests[k] = guest
      /\ \A j \in Members : j # k => room'.guests[j] = room.guests[j]
  BY <1>1, <1>3, <1>7, OneGuestUpdated DEF IInv
<1>10. AudioOK(k)'
  BY <1>6, <1>7, <1>8, <1>9 DEF AudioOK
<1>11. ASSUME NEW j \in Members, j # k
       PROVE  AudioOK(j)'
  <2>1. AudioOK(j) /\ room'.guests[j].audio = room.guests[j].audio
    BY <1>9, <1>11
  <2>2. room.guests[j].audio \in SUBSET [id : Nat, target : AudioTargets]
    BY GuestFields DEF IInv, Guests
  <2> QED BY <1>1, <1>3, <1>9, <2>1, <2>2 DEF AudioOK
<1>12. PresenceIsExact'
  <2>1. \A j : StreamsOf(j)' = StreamsOf(j)
    BY <1>3 DEF StreamsOf
  <2> QED BY <1>7, <1>9, <2>1 DEF PresenceIsExact
<1> QED BY <1>9, <1>10, <1>11, <1>12

LEMMA AudioEndsOK ==
  ASSUME IInv, \A j \in Members : AudioOK(j), PresenceIsExact,
         NEW b \in bodies, AudioStreamEnds(b)
  PROVE  (\A j \in Members : AudioOK(j))' /\ PresenceIsExact'
<1> DEFINE k == b.key
           kept == {a \in room.guests[k].audio : a.id # b.id}
           guest == [room.guests[k] EXCEPT !.audio = kept]
<1>1. bodies' = bodies \ {b} /\ UNCHANGED <<streams, nextAudio>>
  BY DEF AudioStreamEnds
<1>2. \A j : StreamsOf(j)' = StreamsOf(j)
  BY <1>1 DEF StreamsOf
<1>3. CASE k \in Members /\ room.generation = b.generation
  <2>1. room.guests[k] \in Guests /\ AudioOK(k)
    BY <1>3, GuestFields DEF IInv
  <2>2. /\ guest \in Guests /\ guest.audio = kept
        /\ guest.openStreams = room.guests[k].openStreams
    BY <2>1 DEF Guests
  <2>3. room' = [room EXCEPT !.guests[k] = guest]
    BY <1>3 DEF AudioStreamEnds
  <2>4. IsFiniteSet(kept) /\ Cardinality(kept) <= MaxAudioStreams
    <3> DEFINE audio == room.guests[k].audio
    <3>1. IsFiniteSet(audio) /\ Cardinality(audio) <= MaxAudioStreams /\ kept \in SUBSET audio
      BY <2>1 DEF AudioOK
    <3> HIDE DEF audio, kept
    <3>2. IsFiniteSet(kept) /\ Cardinality(kept) <= Cardinality(audio)
      BY <3>1, FS_Subset
    <3>3. Cardinality(kept) \in Nat /\ Cardinality(audio) \in Nat
          /\ MaxAudioStreams \in Nat
      BY <3>1, <3>2, FS_CardinalityType, ListenTogetherAssumption
    <3> QED BY <3>1, <3>2, <3>3
  <2> HIDE DEF guest
  <2>5. /\ Members' = Members /\ room'.generation = room.generation
        /\ room'.guests[k] = guest
        /\ \A j \in Members : j # k => room'.guests[j] = room.guests[j]
    BY <1>3, <2>2, <2>3, OneGuestUpdated DEF IInv
  <2>6. AudioOK(k)'
    <3>1. ASSUME NEW a \in kept
          PROVE  /\ a.id < nextAudio'
                 /\ [generation |-> room.generation, key |-> k, id |-> a.id] \in bodies'
      BY <1>1, <2>1, <3>1 DEF AudioOK
    <3> HIDE DEF kept
    <3> QED BY <2>2, <2>4, <2>5, <3>1 DEF AudioOK
  <2>7. ASSUME NEW j \in Members, j # k
        PROVE  AudioOK(j)'
    BY <1>1, <2>5, <2>7 DEF AudioOK
  <2>8. PresenceIsExact'
    BY <1>2, <2>2, <2>5 DEF PresenceIsExact
  <2> QED BY <2>5, <2>6, <2>7, <2>8
<1>4. CASE ~(k \in Members /\ room.generation = b.generation)
  <2>1. UNCHANGED room /\ Members' = Members
    BY <1>4 DEF AudioStreamEnds, Members, IsOpen
  <2>2. ASSUME NEW j \in Members
        PROVE  AudioOK(j)'
    BY <1>1, <1>4, <2>1 DEF AudioOK
  <2> QED BY <1>2, <2>1, <2>2 DEF PresenceIsExact
<1> QED BY <1>3, <1>4
-----------------------------------------------------------------------------
(* Together *)

SInv ==
  /\ IInv
  /\ ClosingInOrder
  /\ \A s \in StreamIds : StreamOK(s)
  /\ \A r \in Requests : RequestOK(r)
  /\ PresenceIsExact
  /\ \A k \in Members : AudioOK(k)

LEMMA InitSInv == Init => SInv
<1> SUFFICES ASSUME Init PROVE SInv
  OBVIOUS
<1>1. IInv
  BY InitIInv
<1>2. Members = {} /\ closing = {}
  BY DEF Init, Members, IsOpen
<1>3. \A s \in StreamIds : StreamOK(s)
  BY <1>2 DEF Init, StreamOK, HeldInRoom, LateOnce, NoStream
<1>4. \A r \in Requests : RequestOK(r)
  BY DEF Init, RequestOK, NewRequest
<1> QED BY <1>1, <1>2, <1>3, <1>4 DEF SInv, ClosingInOrder, PresenceIsExact

LEMMA NextPresenceAndAudio ==
  ASSUME SInv, [Next]_vars
  PROVE  PresenceIsExact' /\ (\A k \in Members : AudioOK(k))'
<1>1. CASE RoomActions
  <2>1. PresenceIsExact'
    BY <1>1, RoomActionsPresence DEF SInv
  <2>2. UNCHANGED <<nextAudio, bodies>>
    BY <1>1 DEF RoomActions, LockClosesExpired, Close, TellFeed, RevokeNext, Open, Join,
          Leave, SweeperStops, Sweep, Tick, TakeCommand, ReadFails, ApplyCommand, vars
  <2>3. ASSUME NEW k \in Members'
        PROVE  AudioOK(k)'
    BY <1>1, <2>2, RoomActionsStay, PlacesStay, NewcomersPlaces DEF SInv
  <2> QED BY <2>1, <2>3
<1>2. ASSUME NEW s \in StreamIds, StreamActions(s)
      PROVE  PresenceIsExact' /\ (\A k \in Members : AudioOK(k))'
  <2>1. PresenceIsExact'
    BY <1>2, SubscribePresence, MovedPresence, EndPresence DEF SInv, StreamActions
  <2>2. ASSUME NEW k \in Members'
        PROVE  AudioOK(k)'
    BY <1>2, StreamActionsKeepAudio, PlacesStay DEF SInv
  <2> QED BY <2>1, <2>2
<1>3. CASE AudioActions
  BY <1>3, OpenAudioOK, AudioEndsOK DEF SInv, AudioActions
<1> QED BY <1>1, <1>2, <1>3, NextSplit

LEMMA NextSInv == SInv /\ [Next]_vars => SInv'
<1> SUFFICES ASSUME SInv, [Next]_vars PROVE SInv'
  OBVIOUS
<1>1. IInv /\ IInv'
  BY NextIInv DEF SInv
<1>2. ClosingInOrder'
  BY <1>1, NextClosingInOrder DEF SInv
<1>3. (\A s \in StreamIds : StreamOK(s))'
  BY <1>1, NextStreamOK DEF SInv
<1>4. (\A r \in Requests : RequestOK(r))'
  BY <1>1, NextRequestOK DEF SInv
<1> QED BY <1>1, <1>2, <1>3, <1>4, NextPresenceAndAudio DEF SInv

LEMMA ServiceSInv == Spec => []SInv
BY InitSInv, NextSInv, PTL DEF Spec

(* A Guest's presence is the number of event streams not yet dropped, through *)
(* reconnects that overlap the old stream's end, expiry and closing           *)
(* (service.rs, subscribe and stream_ended): the sweeper, which reads it,     *)
(* removes nobody who is connected and keeps nobody who is not.               *)
THEOREM ServicePresenceIsExact == Spec => []PresenceIsExact
BY ServiceSInv, PTL DEF SInv

(* Every place among a Guest's audio streams is held by a response that will  *)
(* give it back, and there are never more of them than MAX_AUDIO_STREAMS      *)
(* (service.rs, open_audio_stream and AudioStreamSlot::drop), in whatever     *)
(* order streams are replaced by a seek and end.                              *)
THEOREM ServiceAudioPlacesAreHeld == Spec => []AudioPlacesAreHeld
<1>1. SInv => AudioPlacesAreHeld
  BY DEF SInv, AudioOK, AudioPlacesAreHeld
<1> QED BY <1>1, ServiceSInv, PTL

(* A Guest's command changes only the Room that took it, and only while the   *)
(* Guest is in it, although `command` reads the library between its two       *)
(* critical sections.                                                         *)
THEOREM ServiceGuestCommandStaysInRoom == Spec => GuestCommandStaysInRoom
<1> DEFINE Stays1 == \A r \in Requests :
                      Applies(r) /\ requests[r].client # Owner
                      => /\ requests[r].client \in Members
                         /\ requests[r].generation = room.generation
<1>1. SInv /\ [Next]_vars => [Stays1]_vars
  <2> SUFFICES ASSUME SInv, [Next]_vars, NEW r \in Requests, Applies(r),
                      requests[r].client # Owner
               PROVE  /\ requests[r].client \in Members
                      /\ requests[r].generation = room.generation
    OBVIOUS
  <2>1. requests[r].stage = "taken" /\ requests'[r] = DoneRequest /\ room' # room
    BY DEF Applies
  <2>2. PICK q \in Requests, now \in ClockReadings : ApplyCommand(q, now)
    <3>1. DoneRequest.stage # "taken"
      BY DEF DoneRequest
    <3> QED BY <2>1, <3>1 DEF Next, vars, LockClosesExpired, Close, TellFeed, RevokeNext,
          Open, Join, Leave, SweeperStops, Sweep, Tick, TakeCommand, ReadFails, Subscribe,
          FirstFrame, PollSession, PollFeed, StreamStep, StreamEnds, OpenAudioStream,
          AudioStreamEnds
  <2>3. q = r
    BY <2>1, <2>2 DEF ApplyCommand, SInv, IInv, TypeOK, DoneRequest
  <2>4. requests[r].client \in Members
    BY <2>1, <2>2, <2>3 DEF ApplyCommand, Require
  <2> QED BY <2>1, <2>4 DEF SInv, RequestOK, HeldInRoom
<1> QED BY <1>1, ServiceSInv, PTL DEF Spec, GuestCommandStaysInRoom

(* A stream that ends without `room-closed` belonged to a Guest who was out   *)
(* before the Room closed: `close` tells the feed before it revokes           *)
(* (service.rs, Room::close; handlers.rs, EventStream::next).                 *)
LEMMA ServiceSilentEndMeansOut == Spec => SilentEndMeansOut
<1>1. SInv /\ [Next]_vars =>
        [\A s \in StreamIds :
           streams[s].stage = "live" /\ streams'[s].stage = "ending"
             /\ streams'[s].said # "closed"
           => \A c \in closing : streams[s].client \notin c.guests]_vars
  <2> SUFFICES ASSUME SInv, [Next]_vars, NEW s \in StreamIds,
                      streams[s].stage = "live", streams'[s].stage = "ending",
                      streams'[s].said # "closed", NEW c \in closing,
                      streams[s].client \in c.guests
               PROVE  FALSE
    OBVIOUS
  <2>1. StreamActions(s)
    BY NextSplit, OthersKeepStreams, OneStreamTouched DEF SInv, IInv
  <2>2. PollSession(s)
    BY <2>1 DEF StreamActions, Subscribe, FirstFrame, PollFeed, StreamEnds, NoStream,
                SInv, IInv, TypeOK
  <2>3. streams[s] \in Streams
    BY DEF SInv, IInv, TypeOK
  <2>4. streams[s].client \in revoked /\ ~FeedOf(streams[s]).closed
    BY <2>2, <2>3 DEF PollSession, StreamStep, SInv, IInv, TypeOK, Streams
  <2>5. streams[s].generation = c.generation
    BY DEF SInv, StreamOK, HeldInRoom
  <2>6. ~c.told /\ c.keys = c.guests
    BY <2>4, <2>5 DEF SInv, ClosingInOrder, FeedOf
  <2>7. streams[s].client \in PendingRevocations
    BY <2>6 DEF PendingRevocations
  <2> QED BY <2>4, <2>7 DEF SInv, IInv, SessionsAccountedFor
<1> QED BY <1>1, ServiceSInv, PTL DEF Spec, SilentEndMeansOut

(* Every snapshot a stream sends after its first is newer than the one before. *)
LEMMA ServiceFramesAdvance == Spec => FramesAdvance
<1>1. SInv /\ [Next]_vars =>
        [\A s \in StreamIds :
           streams[s].stage = "polled" /\ streams'[s].stage = "live"
           => streams'[s].sent > streams[s].sent]_vars
  <2> SUFFICES ASSUME SInv, [Next]_vars, NEW s \in StreamIds,
                      streams[s].stage = "polled", streams'[s].stage = "live"
               PROVE  streams'[s].sent > streams[s].sent
    OBVIOUS
  <2>1. StreamActions(s)
    BY NextSplit, OthersKeepStreams, OneStreamTouched DEF SInv, IInv
  <2>2. PollFeed(s)
    BY <2>1 DEF StreamActions, Subscribe, FirstFrame, PollSession, StreamEnds, NoStream,
                SInv, IInv, TypeOK
  <2>3. streams[s] \in Streams /\ streams'[s] = Framed(streams[s])
    BY <2>2 DEF PollFeed, StreamStep, SInv, IInv, TypeOK
  <2>4. ~FeedOf(streams[s]).closed /\ streams'[s].sent = FeedOf(streams[s]).state.revision
    BY <2>3, FramedFields
  <2>5. BehindFeed(streams[s], FeedOf(streams[s]))
    BY DEF SInv, StreamOK
  <2>6. streams[s].sent \in Nat /\ FeedOf(streams[s]).state.revision \in Nat
    BY <2>3, StreamTypes DEF SInv, IInv, Streams, Feeds, RoomStates
  <2> QED BY <2>4, <2>5, <2>6 DEF BehindFeed
<1> QED BY <1>1, ServiceSInv, PTL DEF Spec, FramesAdvance

(* What a member is told by an event stream is true to its last frame: one    *)
(* snapshot at most after the member is out, no silent end for whoever was in *)
(* the Room to its end, and every frame newer than the one before             *)
(* (handlers.rs, event_stream and EventStream::next).                         *)
THEOREM ServiceToldTheTruth == Spec => MembersAreToldTheTruth
<1>1. SInv => OutReceivesAtMostOne
  BY DEF SInv, StreamOK, LateOnce, OutReceivesAtMostOne
<1> QED BY <1>1, ServiceSInv, ServiceSilentEndMeansOut, ServiceFramesAdvance, PTL
        DEF MembersAreToldTheTruth
=============================================================================
