CONSTANTS
  t1 = t1
  Tracks = {t1}
  MaxRoomQueue = 1
  MaxMs = 0
  ClockReadings = {0}
  Keys = {k1, k2}
  MaxGuests = 1
  RoomLifetime = 2
  GuestGrace = 1
  MaxAudioStreams = 1
  AudioTargets = {p1}
  StreamIds = {s1}
  Requests = {}
  Commands <- PlayOnly
  MaxRooms = 2
  MaxAudioOpens = 2
CHECK_DEADLOCK FALSE
SPECIFICATION FairSpec
PROPERTY RoomsComeToAnEnd
 
