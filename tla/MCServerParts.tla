---------------------------- MODULE MCServerParts ---------------------------
(***************************************************************************)
(* Parts of the Music Server that share no state, side by side in one run: *)
(* a behaviour is one part's, the token bucket (TokenBucket), the External *)
(* Source, its chunks or what is found online, which ServerPartsProofs     *)
(* proves, or one of the others.  The variables of the other parts hold    *)
(* Idle, those of the token bucket their initial values.                   *)
(***************************************************************************)
EXTENDS ServerPartsProofs, Integers, Sequences, FiniteSets

VARIABLES
  file, version, request, fileStage, meta, single, opened, reply, body, resuming, raced, asked,
  received, pending, remaining, feeding, audio, titles, shown,
  codec, stream, damage, pages, scan, decode, phase,
  format, length, walk, at, limit, parts, inner, open, heard,
  db, repairFile, journal, repairPhase, snapshot, inspected, plan, backup, repairFailed,
  repairChanges

\* Range specs: "0-0", "1-", "1-4", "2-1", "-2" and an empty one (-1 is an open end).
From(a, b) == [kind |-> "from", first |-> a, last |-> b]
RangeSpecs == {From(0, 0), From(1, -1), From(1, 4), From(2, 1),
               [From(0, 2) EXCEPT !.kind = "suffix"], [From(0, 0) EXCEPT !.kind = "blank"]}
RangeHeaders == {<< >>} \cup {<<s>> : s \in RangeSpecs} \cup {<<s, t>> : s \in RangeSpecs, t \in RangeSpecs}
                  \cup {<<s, s, s>> : s \in RangeSpecs}

\* Two spellings of one name, and another name.
Folded == [A |-> "a", a |-> "a", B |-> "b"]

File == INSTANCE ServeFile WITH Sizes <- {0, 1, 3}, MaxRanges <- 2, Headers <- RangeHeaders,
  MaxRequests <- 2, MaxReplacements <- 1, next <- version, step <- fileStage, sent <- body
Radio == INSTANCE RadioStream WITH Listeners <- {"l1", "l2"}, MetaInt <- 2, Unit <- 2,
  Blocks <- <<1, 0, 1>>, MaxChunk <- 3, cache <- shown
Ogg == INSTANCE OggStream WITH MaxSegment <- 2, Headers <- 1, MaxAudio <- 2, MaxBytes <- 2,
  MaxSamples <- 2
Media == INSTANCE MediaFile WITH MaxFile <- 14, Header <- 2, Info <- 2, Descriptor <- 2,
  Trailer <- 3, BlockAlign <- 2, MaxDepth <- 2, Wrap <- 64, size <- length, phase <- walk
Repair == INSTANCE CreditRepair WITH Tracks <- {"t1", "t2"}, Albums <- {"b1", "b2"},
  Fold <- Folded, TrackLists <- {<<"B">>}, DbLists <- {<<"A">>, <<"B">>},
  ArtistLists <- {<<"a">>, <<"A", "a">>}, AlbumLists <- {<<"a">>, <<"A", "B">>},
  Editions <- {"", "odd"}, MaxChanges <- 1, file <- repairFile, pending <- journal,
  phase <- repairPhase, failed <- repairFailed, changes <- repairChanges

sourceVars == <<running, cache, kept, requests, issued, evicted>>
chunksVars == <<size, chunk, ask, step, last, next, sent>>
fileVars == <<file, version, request, fileStage, meta, single, opened, reply, body, resuming, raced,
    asked>>
radioVars == <<received, pending, remaining, feeding, audio, titles, shown>>
oggVars == <<codec, stream, damage, pages, scan, decode, phase>>
mediaVars == <<format, length, walk, at, limit, parts, inner, open, heard>>
repairVars == <<db, repairFile, journal, repairPhase, snapshot, inspected, plan, backup,
    repairFailed, repairChanges>>
all == <<part, vars, sourceVars, chunksVars, fileVars, radioVars, artistVars, oggVars,
    mediaVars, repairVars>>

\* The variables of a part that does not run.
Idle == "idle"
SourceIdle == running = Idle /\ cache = Idle /\ kept = Idle /\ requests = Idle /\ issued = Idle
    /\ evicted = Idle
ChunksIdle == size = Idle /\ chunk = Idle /\ ask = Idle /\ step = Idle /\ last = Idle
    /\ next = Idle /\ sent = Idle
FileIdle == file = Idle /\ version = Idle /\ request = Idle /\ fileStage = Idle /\ meta = Idle
    /\ single = Idle /\ opened = Idle /\ reply = Idle /\ body = Idle /\ resuming = Idle
    /\ raced = Idle /\ asked = Idle
RadioIdle == received = Idle /\ pending = Idle /\ remaining = Idle /\ feeding = Idle
    /\ audio = Idle /\ titles = Idle /\ shown = Idle
ArtistIdle == enabled = Idle /\ today = Idle /\ online = Idle /\ own = Idle /\ present = Idle
    /\ row = Idle /\ task = Idle /\ held = Idle /\ tracks = Idle /\ check = Idle /\ sweep = Idle
    /\ asks = Idle /\ changes = Idle
OggIdle == codec = Idle /\ stream = Idle /\ damage = Idle /\ pages = Idle /\ scan = Idle
    /\ decode = Idle /\ phase = Idle
MediaIdle == format = Idle /\ length = Idle /\ walk = Idle /\ at = Idle /\ limit = Idle
    /\ parts = Idle /\ inner = Idle /\ open = Idle /\ heard = Idle
RepairIdle == db = Idle /\ repairFile = Idle /\ journal = Idle /\ repairPhase = Idle
    /\ snapshot = Idle /\ inspected = Idle /\ plan = Idle /\ backup = Idle
    /\ repairFailed = Idle /\ repairChanges = Idle

SumInit ==
  /\ part \in {"bucket", "source", "shared", "chunks", "file", "radio", "artist", "sweep", "ogg",
              "media", "repair"} /\ Init
  /\ IF part \in {"source", "shared"} THEN Source!Init ELSE SourceIdle
  /\ IF part = "chunks" THEN Chunks!Init ELSE ChunksIdle
  /\ IF part = "file" THEN File!Init ELSE FileIdle
  /\ IF part = "radio" THEN Radio!Init ELSE RadioIdle
  /\ IF part \in {"artist", "sweep"}
     THEN Lookups!Init /\ (part = "artist" => tracks = [t \in Tracks |-> "plain"])
     ELSE ArtistIdle
  /\ IF part = "ogg" THEN Ogg!Init ELSE OggIdle
  /\ IF part = "media" THEN Media!Init ELSE MediaIdle
  /\ IF part = "repair" THEN Repair!Init ELSE RepairIdle

BaseStep == part = "bucket" /\ Next /\ UNCHANGED <<part, sourceVars, chunksVars, fileVars,
    radioVars, artistVars, oggVars, mediaVars, repairVars>>
\* Bounds: one request at a time, or every request for the same address.
OneRequest == \A r \in Requests \ {CHOOSE r \in Requests : TRUE} : requests'[r] = Source!Idle
OneAddress == \A r \in Requests : requests'[r].id \in {"none", CHOOSE id \in Ids : TRUE}
SourceStep ==
  /\ part \in {"source", "shared"} /\ Source!Next
  /\ part = "source" => OneRequest
  /\ part = "shared" => OneAddress
  /\ UNCHANGED <<part, vars, chunksVars, fileVars, radioVars, artistVars, oggVars, mediaVars,
       repairVars>>
ChunksStep ==
  /\ part = "chunks" /\ Chunks!Next
  /\ UNCHANGED <<part, vars, sourceVars, fileVars, radioVars, artistVars, oggVars, mediaVars,
       repairVars>>
FileStep ==
  /\ part = "file" /\ File!Next
  /\ UNCHANGED <<part, vars, sourceVars, chunksVars, radioVars, artistVars, oggVars, mediaVars,
       repairVars>>
RadioStep ==
  /\ part = "radio" /\ Radio!Next
  /\ UNCHANGED <<part, vars, sourceVars, chunksVars, fileVars, artistVars, oggVars, mediaVars,
       repairVars>>
\* Bounds: two requests without the sweep, for a list or a cover, or the sweep beside a
\* single request for what never moves.
TwoRequests ==
  /\ sweep' = sweep /\ today' <= 1 /\ asks' <= 3 /\ changes' <= 1
  /\ \A a \in Askers : task'[a].kind # "genres"
  /\ tracks' = tracks \/ ~present'
SweepBesideOne ==
  /\ asks' <= 1 /\ changes' <= 2 /\ today' <= 2
  /\ \A a \in Askers : task'[a] # Lookups!Idle => a = "a1" /\ task'[a].kind = "genres"
ArtistStep ==
  /\ part \in {"artist", "sweep"} /\ Lookups!Next
  /\ part = "artist" => TwoRequests
  /\ part = "sweep" => SweepBesideOne
  /\ UNCHANGED <<part, vars, sourceVars, chunksVars, fileVars, radioVars, oggVars, mediaVars,
       repairVars>>
OggStep ==
  /\ part = "ogg" /\ Ogg!Next
  /\ UNCHANGED <<part, vars, sourceVars, chunksVars, fileVars, radioVars, artistVars, mediaVars,
       repairVars>>
MediaStep ==
  /\ part = "media" /\ Media!Next
  /\ UNCHANGED <<part, vars, sourceVars, chunksVars, fileVars, radioVars, artistVars, oggVars,
       repairVars>>
RepairStep ==
  /\ part = "repair" /\ Repair!Next
  /\ UNCHANGED <<part, vars, sourceVars, chunksVars, fileVars, radioVars, artistVars, oggVars,
       mediaVars>>

SumNext == BaseStep \/ SourceStep \/ ChunksStep \/ FileStep \/ RadioStep
    \/ ArtistStep \/ OggStep \/ MediaStep \/ RepairStep

SumSpec == SumInit /\ [][SumNext]_all

----------------------------------------------------------------------------
\* What is streamed is byte for byte what was promised: ranges are those asked for and
\* of the version the client already has, and a radio stream is parted into audio and
\* titles however it arrives cut (serve_file.rs, radio/stream.rs).
StreamsAreExact ==
  /\ part = "file" => File!TypeOK /\ File!SendsWhatWasAsked /\ File!RefusedOnlyIfNothingToSend
        /\ File!ResumeKeepsTheVersion
  /\ part = "radio" => Radio!TypeOK /\ Radio!AudioIsAudio /\ Radio!EachBlockOnce

\* An inspected file passes only if all of it is accounted for, and an intact one does
\* pass, however it is cut into pages, chunks, frames or atoms (inspect/ogg.rs, mp3.rs,
\* flac.rs, wav.rs, m4a.rs).
OnlyWholeAudioPasses ==
  /\ part = "ogg" => Ogg!TypeOK /\ Ogg!AcceptedIsWhole /\ Ogg!IntactIsAccepted
  /\ part = "media" => Media!TypeOK /\ Media!WholeFileIsAccountedFor /\ Media!AtomsNest

\* A repair of credits writes what the files say of the rows it read, is never refused
\* by the database for a plan of its own making, and is not proposed again
\* (credit_repair.rs).
RepairIsTrue ==
  /\ [](part = "repair" => Repair!TypeOK /\ Repair!PlanIsSound)
  /\ [][part = "repair" => Repair!AppliedIsTruth]_all
  /\ [][part = "repair" => Repair!RepairedIsSettled]_all
=============================================================================
