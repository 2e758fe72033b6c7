------------------------------ MODULE MCPlayers -----------------------------
(***************************************************************************)
(* The Playback Clients, side by side in one run: a behaviour is one       *)
(* part's, the desktop's connection (DesktopConnection), its import, MPRIS *)
(* or the browser's engine, which PlayersProofs has side by side and       *)
(* proves, or its Playback Session, its output mode or the listener's      *)
(* choices. The variables of the other parts hold Unused, those of the     *)
(* connection their initial values.                                        *)
(***************************************************************************)
EXTENDS PlayersProofs, Integers, Sequences

VARIABLES
  desktopSession, queue, desktopRevision, mpv, appended, events, live, hasRecovered,
  desktopCall, thread, desktopLeft, excuse,
  app, outPlayer, out, processing, settings, mpvVolume, volume, held, record, sink, card, command,
  chosen, spared, broken, outCounts,
  choicesQueue, choicesSession, current, place, intent, choicesCalls, failure, room, newest,
  behind, choicesSlips, choicesCounts

Session == INSTANCE PlaybackSession WITH Callers <- {"c"}, Radios <- {"r"}, Externals <- {"x"},
  Contexts <- {<<"t1">>}, Tracks <- {"t1", "t2"}, MaxCommands <- 2, MaxHappenings <- 3,
  MaxCrashes <- 0, MaxFaults <- 0, session <- desktopSession, revision <- desktopRevision,
  call <- desktopCall, left <- desktopLeft
Exits == INSTANCE PlaybackSession WITH Callers <- {"c"}, Radios <- {"r"}, Externals <- {"x"},
  Contexts <- {<<"t1">>}, Tracks <- {"t1"}, MaxCommands <- 2, MaxHappenings <- 1, MaxCrashes <- 1,
  MaxFaults <- 1, session <- desktopSession, revision <- desktopRevision, call <- desktopCall,
  left <- desktopLeft
Output == INSTANCE OutputMode WITH Cards <- {"hw0"}, Rates <- {44, 96},
  Faulty <- {"mpv", "rate", "disk", "sink", "card", "listing", "busy"}, MaxLevel <- 1,
  MaxCommands <- 2, MaxFaults <- 1, MaxStarts <- 2, MaxExits <- 1, player <- outPlayer,
  counts <- outCounts
\* The connection with a request that is cancelled, and one save.
Requested == INSTANCE DesktopConnection WITH MaxSaves <- 1, MaxStarts <- 1, MaxRequests <- 1
Choices == INSTANCE PlayerChoices WITH Countdown <- 1, MaxChoices <- 3, MaxChanges <- 1,
  MaxItems <- 7, MaxFailures <- 1, queue <- choicesQueue, session <- choicesSession,
  calls <- choicesCalls, slips <- choicesSlips, counts <- choicesCounts
Following == INSTANCE PlayerChoices WITH Countdown <- 1, MaxChoices <- 2, MaxChanges <- 2,
  MaxItems <- 7, MaxFailures <- 1, queue <- choicesQueue, session <- choicesSession,
  calls <- choicesCalls, slips <- choicesSlips, counts <- choicesCounts

sessionVars == <<desktopSession, queue, desktopRevision, mpv, appended, events, live,
    hasRecovered, desktopCall, thread, desktopLeft, excuse>>
outputVars == <<app, outPlayer, out, processing, settings, mpvVolume, volume, held, record, sink,
    card, command, chosen, spared, broken, outCounts>>
importVars == <<entry, bytes, walk, picked, upload, token, cancel, edits>>
mprisVars == <<player, outgoing, published, late, channel, answers, last, announcing, client,
    orders, moved, changes, commands>>
browserVars == <<session, media, tasks, calls, settled, factory, revision, hasStarted, running,
    attempt, timers, want, slips, counts>>
choicesVars == <<choicesQueue, choicesSession, current, place, intent, choicesCalls, failure,
    room, newest, behind, choicesSlips, choicesCounts>>
all == <<part, sessionVars, outputVars, vars, importVars, mprisVars, browserVars, choicesVars>>

\* The variables of a part that does not run.
Unused == "unused"
SessionUnused == desktopSession = Unused /\ queue = Unused /\ desktopRevision = Unused
    /\ mpv = Unused /\ appended = Unused /\ events = Unused /\ live = Unused
    /\ hasRecovered = Unused /\ desktopCall = Unused /\ thread = Unused
    /\ desktopLeft = Unused /\ excuse = Unused
OutputUnused == app = Unused /\ outPlayer = Unused /\ out = Unused /\ processing = Unused
    /\ settings = Unused /\ mpvVolume = Unused /\ volume = Unused /\ held = Unused
    /\ record = Unused /\ sink = Unused /\ card = Unused /\ command = Unused
    /\ chosen = Unused /\ spared = Unused /\ broken = Unused /\ outCounts = Unused
ImportUnused == entry = Unused /\ bytes = Unused /\ walk = Unused /\ picked = Unused
    /\ upload = Unused /\ token = Unused /\ cancel = Unused /\ edits = Unused
MprisUnused == player = Unused /\ outgoing = Unused /\ published = Unused /\ late = Unused
    /\ channel = Unused /\ answers = Unused /\ last = Unused /\ announcing = Unused
    /\ client = Unused /\ orders = Unused /\ moved = Unused /\ changes = Unused
    /\ commands = Unused
BrowserUnused == session = Unused /\ media = Unused /\ tasks = Unused /\ calls = Unused
    /\ settled = Unused /\ factory = Unused /\ revision = Unused /\ hasStarted = Unused
    /\ running = Unused /\ attempt = Unused /\ timers = Unused /\ want = Unused
    /\ slips = Unused /\ counts = Unused
ChoicesUnused == choicesQueue = Unused /\ choicesSession = Unused /\ current = Unused
    /\ place = Unused /\ intent = Unused /\ choicesCalls = Unused /\ failure = Unused
    /\ room = Unused /\ newest = Unused /\ behind = Unused /\ choicesSlips = Unused
    /\ choicesCounts = Unused

SumInit ==
  /\ part \in {"ends", "exits", "output", "connection", "request", "import", "mpris", "browser",
              "choices", "queue"} /\ Init
  /\ IF part = "ends" THEN Session!Init ELSE IF part = "exits" THEN Exits!Init ELSE SessionUnused
  /\ IF part = "output" THEN Output!Init ELSE OutputUnused
  /\ IF part = "import" THEN Import!Init ELSE ImportUnused
  /\ IF part = "mpris" THEN Mpris!Init ELSE MprisUnused
  /\ IF part = "browser" THEN Browser!Init ELSE BrowserUnused
  /\ IF part = "choices" THEN Choices!Init ELSE IF part = "queue" THEN Following!Init
     ELSE ChoicesUnused

SessionStep ==
  /\ part = "ends" /\ Session!Next
  /\ UNCHANGED <<part, outputVars, vars, importVars, mprisVars, browserVars, choicesVars>>
ExitsStep ==
  /\ part = "exits" /\ Exits!Next
  /\ UNCHANGED <<part, outputVars, vars, importVars, mprisVars, browserVars, choicesVars>>
OutputStep ==
  /\ part = "output" /\ Output!Next
  /\ UNCHANGED <<part, sessionVars, vars, importVars, mprisVars, browserVars, choicesVars>>
ConnectionStep ==
  /\ part = "connection" /\ Next
  /\ UNCHANGED <<part, sessionVars, outputVars, importVars, mprisVars, browserVars, choicesVars>>
RequestedStep ==
  /\ part = "request" /\ Requested!Next
  /\ UNCHANGED <<part, sessionVars, outputVars, importVars, mprisVars, browserVars, choicesVars>>
ImportStep ==
  /\ part = "import" /\ Import!Next
  /\ UNCHANGED <<part, sessionVars, outputVars, vars, mprisVars, browserVars, choicesVars>>
MprisStep ==
  /\ part = "mpris" /\ Mpris!Next
  /\ UNCHANGED <<part, sessionVars, outputVars, vars, importVars, browserVars, choicesVars>>
BrowserStep ==
  /\ part = "browser" /\ Browser!Next
  /\ UNCHANGED <<part, sessionVars, outputVars, vars, importVars, mprisVars, choicesVars>>
ChoicesStep ==
  /\ part = "choices" /\ Choices!Next
  /\ UNCHANGED <<part, sessionVars, outputVars, vars, importVars, mprisVars, browserVars>>
FollowingStep ==
  /\ part = "queue" /\ Following!Next
  /\ UNCHANGED <<part, sessionVars, outputVars, vars, importVars, mprisVars, browserVars>>

SumNext == SessionStep \/ ExitsStep \/ OutputStep \/ ConnectionStep \/ RequestedStep \/ ImportStep
    \/ MprisStep \/ BrowserStep \/ ChoicesStep \/ FollowingStep

SumSpec == SumInit /\ [][SumNext]_all

----------------------------------------------------------------------------
\* The Playback Session shows what mpv plays, and its queue context stands on it,
\* whatever commands, events, reconnections and restarts interleave (playback.rs).
SessionShowsMpv ==
  /\ part = "ends" => Session!TypeOK /\ Session!ShowsWhatPlays /\ Session!QueueFollowsSession
  /\ part = "exits" => Exits!TypeOK /\ Exits!ShowsWhatPlays /\ Exits!QueueFollowsSession

\* Whatever of a switch of the output mode fails, is killed or is started again: a
\* forced rate is taken back, a card is leased only while mpv plays to it, nothing gets
\* louder than chosen, and a lowered card is lowered for a record that will raise it
\* (lib.rs, playback.rs).
OutputIsRestored ==
  part = "output" => Output!TypeOK /\ Output!ForcedRateIsTakenBack /\ Output!LeaseFollowsRoute
     /\ Output!NeverLouder /\ Output!AttenuationIsAccountedFor /\ Output!LevelIsKept

\* The listener's last choice is what plays once nothing waits, and what follows it is
\* the next of the Queue, also when the Queue changed under it (PlaybackProvider.tsx).
ChoicesAreKept ==
  /\ [](part = "choices" => Choices!TypeOK /\ Choices!LatestChoiceWins)
  /\ [][part = "choices" => Choices!AdvancesInOrder]_all
  /\ [](part = "queue" => Following!TypeOK /\ Following!LatestChoiceWins)
  /\ [][part = "queue" => Following!AdvancesInOrder]_all
=============================================================================
