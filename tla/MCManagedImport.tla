--------------------------- MODULE MCManagedImport --------------------------
(***************************************************************************)
(* Managed Import, side by side in one run: a behaviour is that of the     *)
(* files of replaced and deleted Tracks (TrackFiles), the commit of        *)
(* imports, an Import Batch or a page's uploads, which ImportCommitProofs  *)
(* has, or the confirmed changes of the catalog.  The variables of the     *)
(* other parts hold Idle, those of TrackFiles their initial values.        *)
(***************************************************************************)
EXTENDS TrackFiles, ImportCommitProofs

VARIABLES
  catalogTrack, hidden, albums, artists, genres, playlist, queue, replacement, del, lock,
  adding, late, imports, edits, breaks

\* Two Tracks of two Albums.  One has two uploads of another format, which stay on its
\* Album and take the same place; the other's moves to that Album.
Replaced == [j1 |-> "t1", j2 |-> "t2", j3 |-> "t1"]
AlbumOfFile == [t1 |-> "a", t2 |-> "b", j1 |-> "a", j2 |-> "a", j3 |-> "a"]
NameOfFile == [t1 |-> "flac", t2 |-> "flac", j1 |-> "mp3", j2 |-> "flac", j3 |-> "mp3"]

\* An Album of two Tracks by one Artist, one with a guest; files to import or to
\* replace with: another number on the same Album, and another Album.
Meta(name, no, ars, gs) == [album |-> name, no |-> no, artists |-> ars, genres |-> gs]
FirstTracks == [a |-> Meta("A", 1, {"p"}, {"g"}), b |-> Meta("A", 2, {"r"}, {"g"})]
NewFiles == {Meta("A", 3, {"r"}, {"g"}), Meta("B", 1, {"q"}, {"h"})}

\* The files are an instance that the proofs speak of (for the commit, the
\* Batch and the uploads see ImportCommitProofs).
ASSUME ManagedImportAssumption == ConstantsOK

Catalog == INSTANCE ConfirmedChanges WITH Tracks <- {"a", "b", "c"}, Playlists <- {"mine"},
  Users <- {"u"}, Favorites <- "fav", AlbumArtists <- [A |-> {"p"}, B |-> {"q"}],
  First <- FirstTracks, Candidates <- NewFiles, MaxImports <- 1, MaxEdits <- 1, MaxFaults <- 1,
  track <- catalogTrack, job <- replacement, faults <- breaks
catalogVars == <<catalogTrack, hidden, albums, artists, genres, playlist, queue, replacement, del,
    lock, adding, late, imports, edits, breaks>>
all == <<part, vars, commitVars, batchVars, pageVars, catalogVars>>

\* The variables of a part that does not run.
Idle == "idle"
CommitIdle == uploads = Idle /\ commits = Idle /\ tracks = Idle /\ album = Idle /\ cover = Idle
    /\ waits = Idle /\ audio = Idle /\ art = Idle /\ dirs = Idle /\ host = Idle /\ doing = Idle
    /\ kills = Idle /\ failures = Idle
BatchIdle == batch = Idle /\ batchJob = Idle /\ staging = Idle /\ batchUpload = Idle
    /\ canceling = Idle /\ task = Idle /\ client = Idle /\ confirmed = Idle /\ overtaken = Idle
    /\ batchCounts = Idle
PageIdle == handler = Idle /\ busy = Idle /\ entry = Idle /\ worker = Idle /\ active = Idle
    /\ waiting = Idle /\ aborted = Idle /\ lingering = Idle /\ known = Idle /\ sent = Idle
    /\ counts = Idle
CatalogIdle == catalogTrack = Idle /\ hidden = Idle /\ albums = Idle /\ artists = Idle
    /\ genres = Idle /\ playlist = Idle /\ queue = Idle /\ replacement = Idle /\ del = Idle
    /\ lock = Idle /\ adding = Idle /\ late = Idle /\ imports = Idle /\ edits = Idle
    /\ breaks = Idle
SumInit ==
  /\ part \in {"commit", "files", "batch", "uploads", "changes"} /\ Init
  /\ IF part = "commit" THEN Commit!Init ELSE CommitIdle
  /\ IF part = "batch" THEN Batch!Init ELSE BatchIdle
  /\ IF part = "uploads" THEN Page!Init ELSE PageIdle
  /\ IF part = "changes" THEN Catalog!Init /\ playlist.mine = {"a", "b"} ELSE CatalogIdle

SwapStep == part = "files" /\ Next /\ UNCHANGED <<part, commitVars, batchVars, pageVars,
    catalogVars>>
CommitStep ==
  /\ part = "commit" /\ Commit!Next
  /\ UNCHANGED <<part, vars, batchVars, pageVars, catalogVars>>
BatchStep ==
  /\ part = "batch" /\ Batch!Next
  /\ UNCHANGED <<part, vars, commitVars, pageVars, catalogVars>>
PageStep ==
  /\ part = "uploads" /\ Page!Next
  /\ UNCHANGED <<part, vars, commitVars, batchVars, catalogVars>>
CatalogStep ==
  /\ part = "changes" /\ Catalog!Next
  /\ UNCHANGED <<part, vars, commitVars, batchVars, pageVars>>
SumNext == SwapStep \/ CommitStep \/ BatchStep \/ PageStep \/ CatalogStep

SumSpec == SumInit /\ [][SumNext]_all

----------------------------------------------------------------------------
\* A confirmed replacement or deletion changes what its preview showed and nothing
\* else, and leaves a catalog in which every entry is referenced and no Playlist goes
\* with Tracks in it (replacement.rs, deletion.rs, playlists/repository.rs).
ChangesAreAsConfirmed ==
  /\ [](part = "changes" => Catalog!TypeOK /\ Catalog!ReplacesAsConfirmed
        /\ Catalog!CatalogIsReferenced /\ Catalog!DeletesWhatWasShown
        /\ Catalog!TakesFromWhomWasShown)
  /\ [][part = "changes" => Catalog!PlaylistsGoEmpty]_all
=============================================================================
