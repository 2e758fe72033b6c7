SPECIFICATION SumSpec
CONSTANTS
  \* The connection: one renderer, two saves, one failure or kill, one restart.
  Servers = {"a", "b"}
  Savers = {"main"}
  MaxSaves = 2
  MaxFaults = 1
  MaxStarts = 2
  MaxRequests = 0
  \* Import: two files, a hidden one, and one change by another program.
  Names = {"a", "b", "h"}
  Hidden = {"h"}
  Audio = {"a", "b", "h"}
  Uploads = {"u"}
  MaxInode = 4
  MaxSize = 2
  MaxEdits = 1
  \* MPRIS: a Track of three units and a live one.
  Tracks = {"t", "l"}
  LiveTracks = {"l"}
  Length = 3
  Threshold = 1
  SeekStep = 2
  MaxChanges = 2
  MaxCommands = 1
  \* The browser: a Track, a live stream and an HLS stream.
  WebSources = {"t", "l", "h"}
  LiveSources = {"l", "h"}
  Hls = {"h"}
  MaxDelay = 2
  MaxPresses = 3
  MaxTrouble = 2
INVARIANTS   ConnectionIsOne ImportIsAsChosen SignalsSuffice
  BrowserShowsWhatIsHeard
PROPERTIES ChoicesAreKept
CHECK_DEADLOCK FALSE
