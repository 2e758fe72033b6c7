----------------------------- MODULE MCProgress -----------------------------
(***************************************************************************)
(* What must eventually happen, in one run: a behaviour is one part's,     *)
(* with the fairness its module justifies, and the variables of the other  *)
(* parts hold Idle. Fairness of a part is fairness of its steps while it   *)
(* is the part that runs.                                                  *)
(***************************************************************************)
EXTENDS Integers, Sequences

VARIABLES part,
  session, queue, revision, mpv, appended, events, live, hasRecovered, call, thread, left, excuse,
  workerMpv, deaf, file, inbox, lines, channel, worker, caller, published, directory, stopping,
  core, sent, happened, timeouts, torn,
  disk, kept, saved, connectionCore, origin, headers, playing, shell, view, save, feed, woken,
  request, connectionSent, saves, faults, starts, slip,
  browserSession, media, tasks, calls, settled, factory, browserRevision, hasStarted, running,
  attempt, timers, want, slips, counts,
  choicesQueue, choicesSession, current, place, intent, choicesCalls, failure, room, newest,
  behind, choicesSlips, choicesCounts,
  server, guestSession, shown, guestNewest, stream, flights, player, guestCounts,
  syncRoom, clock, syncPlayer, orders, loads, memo, command, touched, syncCounts,
  externalRunning, cache, externalKept, requests, tokens, evicted,
  enabled, artistClock, online, own, present, row, task, held, tracks, check, sweep, asks, changes,
  batch, job, batchDisk, upload, canceling, batchTask, client, confirmed, overtaken, batchCounts,
  handler, busy, entry, uploadsWorker, active, waiting, aborted, lingering, uploadsServer,
  uploadsSent, uploadsCounts,
  toolFile, stage, child, pipe, reader, cancelled, issues, cover, sound, result

\* A request on its way to an address: it missed the cache, and waits for a run of yt-dlp.
ResolutionStages == {"missed", "waiting", "queued", "searching"}

Session == INSTANCE PlaybackSession WITH Callers <- {"c"}, Tracks <- {"t1"}, Radios <- {"r"},
  Externals <- {}, Contexts <- {<<"t1">>}, MaxCommands <- 2, MaxHappenings <- 1, MaxCrashes <- 1,
  MaxFaults <- 1
Worker == INSTANCE MpvWorker WITH MaxCommands <- 2, MaxEvents <- 2, MaxTimeouts <- 1,
  MaxTorn <- 1, mpv <- workerMpv
Connection == INSTANCE DesktopConnection WITH Servers <- {"a", "b"}, Savers <- {"main"},
  MaxSaves <- 2, MaxFaults <- 1, MaxStarts <- 1, MaxRequests <- 0, core <- connectionCore,
  sent <- connectionSent
Browser == INSTANCE BrowserEngine WITH Sources <- {"l", "h"}, Live <- {"l", "h"}, Hls <- {"h"},
  MaxDelay <- 2, MaxCommands <- 2, MaxTrouble <- 3, session <- browserSession,
  revision <- browserRevision
Choices == INSTANCE PlayerChoices WITH Countdown <- 2, MaxChoices <- 2, MaxChanges <- 1,
  MaxItems <- 4, MaxFailures <- 1, queue <- choicesQueue, session <- choicesSession,
  calls <- choicesCalls, slips <- choicesSlips, counts <- choicesCounts
Guest == INSTANCE RoomClient WITH Role <- "guest", MaxRooms <- 2, MaxRevision <- 2,
  MaxFlights <- 2, MaxDrops <- 1, MaxInbox <- 1, session <- guestSession, newest <- guestNewest,
  counts <- guestCounts
Sync == INSTANCE RoomSync WITH Items <- 2, Duration <- 4, Drift <- 0, LocalSeek <- 2,
  EndMargin <- 1, Echo <- 3, Retry <- 2, Latency <- 1, LoadTimeout <- 3, Cooldown <- 4,
  MaxCooldown <- 8, MaxRoom <- 1, MaxLocal <- 1, MaxTrouble <- 1, room <- syncRoom,
  player <- syncPlayer, counts <- syncCounts
External == INSTANCE ExternalSource WITH Ids <- {"a"}, HlsIds <- {}, Requests <- {"r1", "r2"},
  HeaderSets <- {"h"}, Lifetimes <- {1}, Concurrency <- 1, CacheCapacity <- 1, HlsCapacity <- 1,
  CacheTtl <- 1, ExpiryMargin <- 1, RefusalGrace <- 1, TokenTtl <- 1, RunTimeout <- 1,
  running <- externalRunning, kept <- externalKept
Artist == INSTANCE ArtistInfo WITH Askers <- {"a1"}, Kinds <- {"genres"}, Places <- 1,
  Tracks <- {"x", "y"}, FailedRetry <- 1, Refresh <- 1, MissingRetry <- 2, MaxTime <- 1,
  MaxAsks <- 2, MaxChanges <- 1, clock <- artistClock
Batch == INSTANCE ImportBatch WITH Files <- {"f1"}, Sizes <- {1}, BatchLimit <- 3,
  MaxUploads <- 2, MaxLosses <- 1, MaxFaults <- 1, MaxCancels <- 1, disk <- batchDisk,
  task <- batchTask, counts <- batchCounts
Uploads == INSTANCE ImportUploads WITH Files <- {"f1", "f2"}, MaxActive <- 1, Retries <- 1,
  MaxFaults <- 2, MaxRetries <- 1, MaxSessions <- 2, worker <- uploadsWorker,
  server <- uploadsServer, sent <- uploadsSent, counts <- uploadsCounts
Tool == INSTANCE MediaTool WITH MaxPrint <- 3, MaxErrors <- 2, Pipe <- 1, ProbeLimit <- 2,
  CoverLimit <- 2, ErrorLimit <- 1, file <- toolFile

sessionVars == <<session, queue, revision, mpv, appended, events, live, hasRecovered, call,
    thread, left, excuse>>
workerVars == <<workerMpv, deaf, file, inbox, lines, channel, worker, caller, published,
    directory, stopping, core, sent, happened, timeouts, torn>>
connectionVars == <<disk, kept, saved, connectionCore, origin, headers, playing, shell, view,
    save, feed, woken, request, connectionSent, saves, faults, starts, slip>>
browserVars == <<browserSession, media, tasks, calls, settled, factory, browserRevision,
    hasStarted, running, attempt, timers, want, slips, counts>>
choicesVars == <<choicesQueue, choicesSession, current, place, intent, choicesCalls, failure,
    room, newest, behind, choicesSlips, choicesCounts>>
guestVars == <<server, guestSession, shown, guestNewest, stream, flights, player, guestCounts>>
syncVars == <<syncRoom, clock, syncPlayer, orders, loads, memo, command, touched, syncCounts>>
externalVars == <<externalRunning, cache, externalKept, requests, tokens, evicted>>
artistVars == <<enabled, artistClock, online, own, present, row, task, held, tracks, check, sweep,
    asks, changes>>
batchVars == <<batch, job, batchDisk, upload, canceling, batchTask, client, confirmed, overtaken,
    batchCounts>>
uploadsVars == <<handler, busy, entry, uploadsWorker, active, waiting, aborted, lingering,
    uploadsServer, uploadsSent, uploadsCounts>>
toolVars == <<toolFile, stage, child, pipe, reader, cancelled, issues, cover, sound, result>>
all == <<part, sessionVars, workerVars, connectionVars, browserVars, choicesVars, guestVars,
        syncVars, externalVars, artistVars, batchVars, uploadsVars, toolVars>>

\* The variables of a part that does not run.
Idle == "idle"
SessionIdle == session = Idle /\ queue = Idle /\ revision = Idle /\ mpv = Idle
    /\ appended = Idle /\ events = Idle /\ live = Idle /\ hasRecovered = Idle /\ call = Idle
    /\ thread = Idle /\ left = Idle /\ excuse = Idle
WorkerIdle == workerMpv = Idle /\ deaf = Idle /\ file = Idle /\ inbox = Idle /\ lines = Idle
    /\ channel = Idle /\ worker = Idle /\ caller = Idle /\ published = Idle /\ directory = Idle
    /\ stopping = Idle /\ core = Idle /\ sent = Idle /\ happened = Idle /\ timeouts = Idle
    /\ torn = Idle
ConnectionIdle == disk = Idle /\ kept = Idle /\ saved = Idle /\ connectionCore = Idle
    /\ origin = Idle /\ headers = Idle /\ playing = Idle /\ shell = Idle /\ view = Idle
    /\ save = Idle /\ feed = Idle /\ woken = Idle /\ request = Idle /\ connectionSent = Idle
    /\ saves = Idle /\ faults = Idle /\ starts = Idle /\ slip = Idle
BrowserIdle == browserSession = Idle /\ media = Idle /\ tasks = Idle /\ calls = Idle
    /\ settled = Idle /\ factory = Idle /\ browserRevision = Idle /\ hasStarted = Idle
    /\ running = Idle /\ attempt = Idle /\ timers = Idle /\ want = Idle /\ slips = Idle
    /\ counts = Idle
ChoicesIdle == choicesQueue = Idle /\ choicesSession = Idle /\ current = Idle /\ place = Idle
    /\ intent = Idle /\ choicesCalls = Idle /\ failure = Idle /\ room = Idle /\ newest = Idle
    /\ behind = Idle /\ choicesSlips = Idle /\ choicesCounts = Idle
GuestIdle == server = Idle /\ guestSession = Idle /\ shown = Idle /\ guestNewest = Idle
    /\ stream = Idle /\ flights = Idle /\ player = Idle /\ guestCounts = Idle
SyncIdle == syncRoom = Idle /\ clock = Idle /\ syncPlayer = Idle /\ orders = Idle
    /\ loads = Idle /\ memo = Idle /\ command = Idle /\ touched = Idle /\ syncCounts = Idle
ExternalIdle == externalRunning = Idle /\ cache = Idle /\ externalKept = Idle
    /\ requests = Idle /\ tokens = Idle /\ evicted = Idle
ArtistIdle == enabled = Idle /\ artistClock = Idle /\ online = Idle /\ own = Idle
    /\ present = Idle /\ row = Idle /\ task = Idle /\ held = Idle /\ tracks = Idle /\ check = Idle
    /\ sweep = Idle /\ asks = Idle /\ changes = Idle
BatchIdle == batch = Idle /\ job = Idle /\ batchDisk = Idle /\ upload = Idle
    /\ canceling = Idle /\ batchTask = Idle /\ client = Idle /\ confirmed = Idle
    /\ overtaken = Idle /\ batchCounts = Idle
UploadsIdle == handler = Idle /\ busy = Idle /\ entry = Idle /\ uploadsWorker = Idle
    /\ active = Idle /\ waiting = Idle /\ aborted = Idle /\ lingering = Idle
    /\ uploadsServer = Idle /\ uploadsSent = Idle /\ uploadsCounts = Idle
ToolIdle == toolFile = Idle /\ stage = Idle /\ child = Idle /\ pipe = Idle /\ reader = Idle
    /\ cancelled = Idle /\ issues = Idle /\ cover = Idle /\ sound = Idle /\ result = Idle

SumInit ==
  /\ part \in {"session", "worker", "connection", "browser", "choices", "guest", "sync",
              "external", "artist", "batch", "uploads", "tool"}
  /\ IF part = "session" THEN Session!Init ELSE SessionIdle
  /\ IF part = "worker" THEN Worker!Init ELSE WorkerIdle
  /\ IF part = "connection" THEN Connection!Init ELSE ConnectionIdle
  /\ IF part = "browser" THEN Browser!Init ELSE BrowserIdle
  /\ IF part = "choices" THEN Choices!Init ELSE ChoicesIdle
  /\ IF part = "guest" THEN Guest!Init ELSE GuestIdle
  /\ IF part = "sync" THEN Sync!Init ELSE SyncIdle
  /\ IF part = "external" THEN External!Init ELSE ExternalIdle
  /\ IF part = "artist" THEN Artist!Init ELSE ArtistIdle
  /\ IF part = "batch" THEN Batch!Init ELSE BatchIdle
  /\ IF part = "uploads" THEN Uploads!Init ELSE UploadsIdle
  /\ IF part = "tool" THEN Tool!Init ELSE ToolIdle

SessionStep ==
  /\ part = "session" /\ Session!Next
  /\ UNCHANGED <<part, workerVars, connectionVars, browserVars, choicesVars, guestVars, syncVars,
      externalVars, artistVars, batchVars, uploadsVars, toolVars>>
WorkerStep ==
  /\ part = "worker" /\ Worker!Next
  /\ UNCHANGED <<part, sessionVars, connectionVars, browserVars, choicesVars, guestVars, syncVars,
      externalVars, artistVars, batchVars, uploadsVars, toolVars>>
ConnectionStep ==
  /\ part = "connection" /\ Connection!Next
  /\ UNCHANGED <<part, sessionVars, workerVars, browserVars, choicesVars, guestVars, syncVars,
      externalVars, artistVars, batchVars, uploadsVars, toolVars>>
BrowserStep ==
  /\ part = "browser" /\ Browser!Next
  /\ UNCHANGED <<part, sessionVars, workerVars, connectionVars, choicesVars, guestVars, syncVars,
      externalVars, artistVars, batchVars, uploadsVars, toolVars>>
ChoicesStep ==
  /\ part = "choices" /\ Choices!Next
  /\ UNCHANGED <<part, sessionVars, workerVars, connectionVars, browserVars, guestVars, syncVars,
      externalVars, artistVars, batchVars, uploadsVars, toolVars>>
GuestStep ==
  /\ part = "guest" /\ Guest!Next
  /\ UNCHANGED <<part, sessionVars, workerVars, connectionVars, browserVars, choicesVars,
      syncVars, externalVars, artistVars, batchVars, uploadsVars, toolVars>>
SyncStep ==
  /\ part = "sync" /\ Sync!Next
  /\ UNCHANGED <<part, sessionVars, workerVars, connectionVars, browserVars, choicesVars,
      guestVars, externalVars, artistVars, batchVars, uploadsVars, toolVars>>
ExternalStep ==
  /\ part = "external" /\ External!Next
  /\ UNCHANGED <<part, sessionVars, workerVars, connectionVars, browserVars, choicesVars,
      guestVars, syncVars, artistVars, batchVars, uploadsVars, toolVars>>
ArtistStep ==
  /\ part = "artist" /\ Artist!Next
  /\ UNCHANGED <<part, sessionVars, workerVars, connectionVars, browserVars, choicesVars,
      guestVars, syncVars, externalVars, batchVars, uploadsVars, toolVars>>
BatchStep ==
  /\ part = "batch" /\ Batch!Next
  /\ UNCHANGED <<part, sessionVars, workerVars, connectionVars, browserVars, choicesVars,
      guestVars, syncVars, externalVars, artistVars, uploadsVars, toolVars>>
UploadsStep ==
  /\ part = "uploads" /\ Uploads!Next
  /\ UNCHANGED <<part, sessionVars, workerVars, connectionVars, browserVars, choicesVars,
      guestVars, syncVars, externalVars, artistVars, batchVars, toolVars>>
ToolStep ==
  /\ part = "tool" /\ Tool!Next
  /\ UNCHANGED <<part, sessionVars, workerVars, connectionVars, browserVars, choicesVars,
      guestVars, syncVars, externalVars, artistVars, batchVars, uploadsVars>>

SumNext == SessionStep \/ WorkerStep \/ ConnectionStep \/ BrowserStep \/ ChoicesStep
    \/ GuestStep \/ SyncStep \/ ExternalStep \/ ArtistStep \/ BatchStep \/ UploadsStep \/ ToolStep

\* The steps of a saving and of the feed of the Desktop Connection.
ConnectionSaves(w) ==
  \/ Connection!TestPasses(w) \/ Connection!Store(w) \/ Connection!SaveHeaders(w)
  \/ Connection!ReplaceOrigin(w) \/ Connection!Forget(w) \/ Connection!StopPlayback(w)
  \/ Connection!Wake(w) \/ Connection!Sync(w)
ConnectionFeeds ==
  \/ Connection!ReadOrigin \/ Connection!OpenStream \/ Connection!StreamOpens
  \/ Connection!FeedWoken \/ Connection!FeedWaits

\* A load of the Player in the sync of a Room.
L(i, at) == [item |-> i, at |-> at]

\* Each part's fairness is that of its module, while it is the part that runs.
Fairness ==
  /\ WF_sessionVars(part = "session" /\ Session!Continue("c") /\ Session!Excusing)
  /\ WF_sessionVars(part = "session" /\ Session!EventThread /\ Session!Excusing)
  /\ WF_sessionVars(part = "session" /\ Session!MpvStarts /\ Session!Excusing)
  /\ WF_workerVars(part = "worker" /\ Worker!Stopped)
  /\ WF_workerVars(part = "worker" /\ Worker!Execute)
  /\ WF_workerVars(part = "worker" /\ Worker!Exit)
  /\ WF_workerVars(part = "worker" /\ Worker!Take)
  /\ WF_workerVars(part = "worker" /\ Worker!ReadForCommand)
  /\ WF_workerVars(part = "worker" /\ workerMpv = "exited" /\ Worker!CommandFails)
  /\ WF_workerVars(part = "worker" /\ Worker!Drain)
  /\ WF_workerVars(part = "worker" /\ Worker!Look)
  /\ WF_workerVars(part = "worker" /\ Worker!Terminate)
  /\ WF_workerVars(part = "worker" /\ Worker!ChannelCloses)
  /\ WF_connectionVars(part = "connection" /\ ConnectionSaves("main"))
  /\ WF_connectionVars(part = "connection" /\ ConnectionFeeds)
  /\ WF_connectionVars(part = "connection" /\ (Connection!SetServerHeaders \/ Connection!RestoredAgain))
  /\ WF_connectionVars(part = "connection" /\ Connection!Exit)
  /\ WF_connectionVars(part = "connection" /\ Connection!Start)
  /\ WF_browserVars(part = "browser" /\ Browser!Dispatch)
  /\ WF_browserVars(part = "browser" /\ Browser!ReconnectTimer)
  /\ WF_browserVars(part = "browser" /\ Browser!StallTimer)
  /\ WF_browserVars(part = "browser" /\ Browser!Starts)
  /\ WF_browserVars(part = "browser" /\ (\E c \in calls : Browser!Imported(c)))
  /\ WF_browserVars(part = "browser" /\ (\E d \in settled : Browser!Continue(d)))
  /\ WF_choicesVars(part = "choices" /\ Choices!CountsDown)
  /\ WF_choicesVars(part = "choices" /\ Choices!Ends)
  /\ WF_choicesVars(part = "choices" /\ (\E c \in choicesCalls : Choices!QueueWritten(c) \/ Choices!Resolved(c)))
  /\ WF_guestVars(part = "guest" /\ Guest!StreamStep)
  /\ WF_guestVars(part = "guest" /\ Guest!Answers)
  /\ WF_syncVars(part = "sync" /\ Sync!Tick)
  /\ WF_syncVars(part = "sync" /\ Sync!EngineObeys)
  /\ WF_syncVars(part = "sync" /\ Sync!CommandAnswered)
  /\ WF_syncVars(part = "sync" /\ Sync!ClockKnown)
  /\ WF_syncVars(part = "sync" /\ (Sync!Resolved(L(1, "resolve")) \/ Sync!Loaded(L(1, "resolve"))))
  /\ WF_syncVars(part = "sync" /\ (Sync!Resolved(L(1, "play")) \/ Sync!Loaded(L(1, "play"))))
  /\ WF_syncVars(part = "sync" /\ (Sync!Resolved(L(2, "resolve")) \/ Sync!Loaded(L(2, "resolve"))))
  /\ WF_syncVars(part = "sync" /\ (Sync!Resolved(L(2, "play")) \/ Sync!Loaded(L(2, "play"))))
  /\ WF_externalVars(part = "external" /\ External!Tick)
  /\ WF_externalVars(part = "external" /\ External!Resolution("r1"))
  /\ WF_externalVars(part = "external" /\ External!Open("r1"))
  /\ WF_externalVars(part = "external" /\ External!SearchTimesOut("r1"))
  /\ WF_externalVars(part = "external" /\ External!Resolution("r2"))
  /\ WF_externalVars(part = "external" /\ External!Open("r2"))
  /\ WF_externalVars(part = "external" /\ External!SearchTimesOut("r2"))
  /\ WF_externalVars(part = "external" /\ External!RunFails("a") /\ externalRunning["a"].age = 1)
  /\ WF_externalVars(part = "external" /\ External!RunLeaves("a"))
  /\ WF_artistVars(part = "artist" /\ Artist!LookUp("a1"))
  /\ WF_artistVars(part = "artist" /\ Artist!Store("a1"))
  /\ WF_artistVars(part = "artist" /\ Artist!SweepLooksUp)
  /\ WF_artistVars(part = "artist" /\ Artist!Mark)
  /\ WF_artistVars(part = "artist" /\ Artist!Check)
  /\ WF_artistVars(part = "artist" /\ Artist!TakePlace("a1"))
  /\ WF_artistVars(part = "artist" /\ Artist!SweepTakesPlace)
  /\ WF_batchVars(part = "batch" /\ Batch!UploadStep("f1"))
  /\ WF_batchVars(part = "batch" /\ Batch!TaskStep)
  /\ WF_batchVars(part = "batch" /\ ~client.here /\ Batch!TimePasses)
  /\ WF_batchVars(part = "batch" /\ Batch!Heartbeat)
  /\ WF_batchVars(part = "batch" /\ Batch!CleanUp)
  /\ WF_uploadsVars(part = "uploads" /\ Uploads!HandlerStep)
  /\ WF_uploadsVars(part = "uploads" /\ Uploads!WorkerStep("f1"))
  /\ WF_uploadsVars(part = "uploads" /\ Uploads!WorkerStep("f2"))
  /\ WF_toolVars(part = "tool" /\ Tool!Inspect)
  /\ WF_toolVars(part = "tool" /\ Tool!Exit)
  /\ WF_toolVars(part = "tool" /\ Tool!Writes("out"))
  /\ WF_toolVars(part = "tool" /\ Tool!Writes("err"))
  /\ WF_toolVars(part = "tool" /\ Tool!Capture("out"))
  /\ WF_toolVars(part = "tool" /\ Tool!Capture("err"))

SumSpec == SumInit /\ [][SumNext]_all /\ Fairness

----------------------------------------------------------------------------
\* A reconnection does not go on for ever once mpv can play the source again: it plays,
\* or a command or an error takes its place.
SessionReconnects ==
  []<>(part = "session" => session.status # "reconnecting")

\* An exit of mpv is answered: a player runs again, or the session goes on showing the
\* error, unless a command overlapped the exit and published its own session over it.
ExitIsAnswered ==
  []<>(part = "session" => mpv.isAlive \/ session.status = "error" \/ excuse)

\* mpv never outlives the Desktop Client: stopping returns and leaves no mpv behind
\* even if it ignores quit, and a killed Desktop Client's mpv ends because its
\* connection closed.
MpvEnds ==
  []<>(part = "worker" => (core => stopping # "waits") /\ (stopping = "done" \/ ~core => workerMpv # "running"))

\* An mpv that ends by itself is reported, so that the playback can restart it, unless
\* the process is being stopped anyway.
ExitIsReported ==
  []<>(part = "worker" => (workerMpv # "running" => published.exit \/ stopping # "no" \/ ~core))

\* The stream of Queue events ends up on the server the core is connected to.
FeedFollowsTheServer ==
  <>[](part = "connection" => connectionCore = "on"
               /\ (origin = "none" \/ (feed.at = "streaming" /\ feed.of = origin)))

\* A reconnection ends: the stream plays, or the listener chose something else.  (A
\* fatal error of hls.js during the attempt is not heard: the attempt waits for a
\* play() that nothing answers.)
BrowserReconnects ==
  []<>(part = "browser" => browserSession.status # "reconnecting" \/ "deaf" \in slips)

\* A Track that fails is not where the Player stays, unless the listener wants it to or
\* a Room decides.
NeverStuckOnFailure ==
  []<>(part = "choices" => failure.item = 0 \/ failure.countdown = -1)

\* A client does not show a Room for ever that is over; it learns of the end from the
\* event, from the read after a drop or from a refused request.
EndIsSeen ==
  []<>(part = "guest" => shown = Guest!None \/ server.open)

\* A Guest's client shows the open Room as it is in the end, however its stream, its reads
\* and its requests interleave.
CatchesUp ==
  []<>(part = "guest" => shown \in {Guest!None, Guest!Snapshot} \/ Guest!RoomGone)

\* Once nobody changes anything any more, the Player stays where the Room is: on its
\* Track, playing or paused with it, within the drift that is allowed.
PlayerCatchesUp ==
  <>[](part = "sync" => Sync!InSync)

\* A request that waits for yt-dlp, its own run or one it joined, stops waiting even
\* when yt-dlp hangs, both permits are taken or the request that started the run has
\* gone (YtDlp::run, resolution).
ListenersAreAnswered ==
  \A r \in {"r1", "r2"} : []<>(part = "external" => requests[r].stage \notin ResolutionStages)

\* Every request that waits for a place is answered or given up.
AskersAreAnswered ==
  []<>(part = "artist" => task["a1"].step \in {"idle", "answered"})

\* A Batch whose client has gone is completed or removed in the end, wherever its
\* uploads, its cancellation or its confirmation stood.
AbandonedIsRemoved ==
  []<>(part = "batch" => client.here \/ ~Batch!Open)

\* Uploads that began come to an end, so the listener can confirm or cancel.
ImportEnds ==
  []<>(part = "uploads" => handler # "uploading")

\* The inspection ends, cancelled or not: a tool that prints more than is kept is not
\* left waiting for a reader, nor the inspection for the tool.
InspectionEnds ==
  []<>(part = "tool" => ~Tool!Running)

\* Whatever fails, players go on or say that they cannot: a lost live stream is
\* reconnected or given up, an exit of mpv is answered, a failed Track is skipped or
\* left to the listener, and the desktop follows the Queue of the server it was given.
PlayersGoOn ==
  SessionReconnects /\ ExitIsAnswered /\ FeedFollowsTheServer /\ BrowserReconnects /\ NeverStuckOnFailure

\* The worker between the callers and mpv gives each command its own answer, parts the
\* events of one source from those of the next, and ends with mpv, which it reports
\* (playback.rs, run_mpv_worker).
WorkerAnswers ==
  /\ [](part = "worker" => Worker!TypeOK /\ Worker!AnswerIsItsOwn /\ Worker!BoundaryParts)
  /\ MpvEnds /\ ExitIsReported

\* A client of a Room sees its end and its newest snapshot, and its Player ends up where
\* the Room is (room-events.ts, RoomSyncDriver.ts).
RoomsAreFollowed == EndIsSeen /\ CatchesUp /\ PlayerCatchesUp

\* Whoever asked the Music Server is answered, and what was begun is ended: lookups,
\* abandoned batches, the uploads of an import, and the inspection of a file, which
\* leaves no tool running and accepts only what the tools were heard to say.
RequestsEnd ==
  /\ ListenersAreAnswered /\ AskersAreAnswered /\ AbandonedIsRemoved /\ ImportEnds /\ InspectionEnds
  /\ [](part = "tool" => Tool!TypeOK /\ Tool!AcceptedIsHeard /\ Tool!ToolsAreGone)
=============================================================================
