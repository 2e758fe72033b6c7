SPECIFICATION SumSpec
CONSTANTS
  \* Like JOINS: several ticks for a token, which a burst holds a few of.
  Token = 5
  Burst = 15
  PerTick = 2
  MaxClock = 9
  \* The External Source: caches that hold one of two addresses.
  Ids = {"a", "b"}
  HlsIds = {"a", "b"}
  Requests = {"r1", "r2"}
  HeaderSets = {"h"}
  Lifetimes = {1, 2}
  Concurrency = 1
  CacheCapacity = 1
  HlsCapacity = 1
  CacheTtl = 2
  ExpiryMargin = 1
  RefusalGrace = 1
  TokenTtl = 2
  RunTimeout = 1
  \* Chunks that fit the file, do not, and are longer.
  Sizes = {1, 4, 5, 7}
  ChunkSizes = {1, 2, 3}
  MaxStart = 7
  \* What is found online: two requests for one place, or the sweep of two Tracks.
  Askers = {"a1", "a2"}
  LookupKinds = {"titles", "cover", "genres"}
  Places = 1
  Tracks = {"x", "y"}
  FailedRetry = 1
  Refresh = 1
  MissingRetry = 2
  MaxTime = 2
  MaxAsks = 3
  MaxChanges = 2
INVARIANTS KeepsRate SourceStaysGood  OnlyWholeAudioPasses
PROPERTIES LookupsAreKept 
CHECK_DEADLOCK FALSE
