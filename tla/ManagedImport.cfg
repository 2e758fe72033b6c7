SPECIFICATION SumSpec
CONSTANTS
  \* Two Tracks of two Albums; three uploads to replace them with.
  Tracks = {"t1", "t2"}
  Jobs = {"j1", "j2", "j3"}
  Replaces <- Replaced
  Albums = {"a", "b"}
  AlbumOf <- AlbumOfFile
  NameOf <- NameOfFile
  Names = {"flac", "mp3"}
  ExtOf <- NameOfFile
  Exts = {"flac", "mp3"}
  HasCover = {"j2"}
  CoveredAtFirst = {"a", "b"}
  MaxIds = 3
  MaxCrashes = 1
  MaxFaults = 2
  \* Two imports to one Album, both with artwork.
  Imports = {"i1", "i2"}
  Illustrated = {"i1", "i2"}
  MaxDirs = 4
  MaxKills = 2
  MaxFailures = 2
  \* Three files, two places, a retry after a delay.
  Picked = {"f1", "f2", "f3"}
  MaxActive = 2
  Retries = 1
  MaxBreaks = 2
  MaxRetries = 1
  MaxSessions = 2
  \* Two files, of which the limit takes three units.
  BatchFiles = {"f1", "f2"}
  Sizes = {1, 2}
  BatchLimit = 3
  MaxUploads = 2
  MaxLosses = 1
  MaxUpsets = 1
  MaxCancels = 1
PROPERTIES TracksKeepTheirFiles CommitIsSafe   ChangesAreAsConfirmed
CHECK_DEADLOCK FALSE
