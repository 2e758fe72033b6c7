CONSTANTS
  t1 = t1
  Tracks = {t1}
  MaxRoomQueue = 1
  MaxMs = 0
  ClockReadings = {0}
  Keys = {k1, k2}
  MaxGuests = 2
  RoomLifetime = 2
  GuestGrace = 1
  MaxAudioStreams = 2
  AudioTargets = {}
  StreamIds = {s1}
  Requests = {r1, r2}
  Commands <- PlayAndPause
  MaxRooms = 2
  MaxAudioOpens = 0
CHECK_DEADLOCK FALSE
SYMMETRY Symmetry
SPECIFICATION Spec
INVARIANT FeedIsCurrent
PROPERTIES MembersAreToldTheTruth GuestCommandStaysInRoom
