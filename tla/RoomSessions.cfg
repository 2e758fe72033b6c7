CONSTANTS
  t1 = t1
  Tracks = {t1}
  MaxRoomQueue = 1
  MaxMs = 0
  ClockReadings = {0}
  Keys = {k1, k2, k3}
  MaxGuests = 2
  RoomLifetime = 2
  GuestGrace = 1
  MaxAudioStreams = 2
  AudioTargets = {}
  StreamIds = {s1, s2}
  Requests = {}
  Commands <- PlayOnly
  MaxRooms = 2
  MaxAudioOpens = 0
SYMMETRY Symmetry
SPECIFICATION Spec
INVARIANTS PlacesAreExact PresenceIsExact
CHECK_DEADLOCK FALSE
PROPERTIES KeepsPlaces
