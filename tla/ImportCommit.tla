---------------------------- MODULE ImportCommit ----------------------------
(***************************************************************************)
(* How Managed Import moves an uploaded file into the library, and what a  *)
(* restart makes of a commit that was cut short:                           *)
(* src/server/src/modules/managed_import/service.rs (commit, recover_*,    *)
(* cancel_*, cleanup_restart), commit.rs (the journal's transactions) and  *)
(* storage.rs (the files).                                                 *)
(*                                                                         *)
(* `op` is the operation that holds batch_lock, or the one the startup is  *)
(* at; each of its durable effects (a transaction, a rename, a file        *)
(* written or removed) is one step, and the server may crash between any   *)
(* two.  A step whose failure the code handles may also fail.              *)
(*                                                                         *)
(* The jobs belong to one Album and to no batch, and have passed their     *)
(* Import Preview.  Canonical Library Paths hold the ids of the Album and  *)
(* the Track, so files of two Albums never meet; `dirs` numbers the        *)
(* directories made for this one, which is a new one for every commit      *)
(* until the Album has a row.  All the artwork of the Album is the same.   *)
(***************************************************************************)
EXTENDS Integers

CONSTANTS
  Jobs,        \* import jobs, one staged file each
  HasCover,    \* those whose file embeds Album Artwork
  MaxDirs,     \* bound: directories made for the Album
  MaxCrashes,  \* bound: crashes
  MaxFaults    \* bound: failures of a disk or database operation

\* Every job has a name of its own; the bounds are numbers.
ConstantsOK ==
  /\ HasCover \subseteq Jobs
  /\ "none" \notin Jobs
  /\ MaxDirs \in Nat \ {0} /\ MaxCrashes \in Nat /\ MaxFaults \in Nat

VARIABLES
  jobs,      \* job rows: "awaiting", "committed" or "gone"
  journals,  \* the job's incomplete commit journal, or NoJournal
  tracks,    \* how many pending and visible Tracks the job made
  album,     \* the directory of the Album's row, 0 without a row
  cover,     \* album_artwork: the job of the source Track, or NoJob
  staged,    \* the staged file: "good", "bad" or "absent"
  audio,     \* the file at its Canonical Library Path
  art,       \* a directory's artwork file: "whole", "empty" or "absent"
  dirs,      \* how many directories were made
  server,    \* what the process does
  op,        \* the operation in progress
  crashes, faults

files == <<staged, audio, art>>
vars == <<jobs, journals, tracks, album, cover, staged, audio, art, dirs,
          server, op, crashes, faults>>

NoJob == "none"
NoOp == [pc |-> "none"]
NoJournal == [phase |-> "closed"]

\* `todo`: the jobs whose journal this startup has yet to recover, or which it
\* has yet to cancel; `isFailed`: a recovery failed; `before` (history): the
\* faults before this startup.
Server(state, todo, isFailed, before) ==
  [state |-> state, todo |-> todo, isFailed |-> isFailed, before |-> before]

IsUp == server.state = "up"
IsIdle == op = NoOp
IsOpen(j) == journals[j] # NoJournal
Dir(j) == journals[j].dir

Init ==
  /\ jobs = [j \in Jobs |-> "awaiting"]
  /\ journals = [j \in Jobs |-> NoJournal]
  /\ tracks = [j \in Jobs |-> [pending |-> 0, visible |-> 0]]
  /\ album \in {0, 1}     \* 1: the Album is there, without artwork
  /\ dirs = album
  /\ cover = NoJob
  /\ staged = [j \in Jobs |-> "good"]
  /\ audio = [j \in Jobs |-> "absent"]
  /\ art = [d \in 1..MaxDirs |-> "absent"]
  /\ server = Server("up", {}, FALSE, 0)
  /\ op = NoOp
  /\ crashes = 0
  /\ faults = 0

-----------------------------------------------------------------------------
(* Steps of an operation.  An operation runs for a client or at startup,   *)
(* is or is not a recovery, and knows whether a part of a rollback failed. *)

Op(on, j, isRecovery, pc) ==
  [on |-> on, job |-> j, isRecovery |-> isRecovery, isBroken |-> FALSE, pc |-> pc]

At(pc) == op.pc = pc

GoesOn(pc) == op' = [op EXCEPT !.pc = pc] /\ UNCHANGED server

\* The operation is over.  A client is answered; the startup remembers failure.
End(isFailed) ==
  /\ op' = NoOp
  /\ server' = IF op.on = "startup" THEN [server EXCEPT !.isFailed = @ \/ isFailed]
                                    ELSE server

Fault == faults < MaxFaults /\ faults' = faults + 1

Unfailing == UNCHANGED <<crashes, faults>>

SetPhase(j, phase) == journals' = [journals EXCEPT ![j].phase = phase]

Close(j) == journals' = [journals EXCEPT ![j] = NoJournal]

\* What a step on files, and one on the journal only, leaves alone.
FilesOnly == Unfailing /\ UNCHANGED <<jobs, journals, tracks, album, cover, dirs>>
JournalOnly == Unfailing /\ UNCHANGED <<jobs, tracks, album, cover, files, dirs>>

-----------------------------------------------------------------------------
(* Confirming *)

\* confirm_job_with_edition: a commit that was cut short is recovered first.
Confirm(j) ==
  /\ IsUp /\ IsIdle
  /\ jobs[j] = "awaiting"
  /\ op' = Op("request", j, IsOpen(j), IF IsOpen(j) THEN "recover" ELSE "create")
  /\ UNCHANGED server /\ FilesOnly /\ UNCHANGED files

\* confirm_awaiting_job: the staged file must still be the one that was previewed.
IsAsPreviewed(j) == staged[j] = "good"

\* resolve_commit_identity: the Album's id is looked up, or a new one is made.
ResolvedDir == IF album # 0 THEN album ELSE dirs + 1

\* commit: the journal is written before anything is moved.  An open journal of
\* the job would fail the insert (a unique index).
CreateJournal(j) ==
  /\ At("create")
  /\ IF IsAsPreviewed(j) /\ ~IsOpen(j) /\ ResolvedDir <= MaxDirs
     THEN /\ dirs' = IF ResolvedDir > dirs THEN ResolvedDir ELSE dirs
          /\ journals' = [journals EXCEPT ![j] =
               [phase |-> "prepared", isCoverCreated |-> FALSE, dir |-> ResolvedDir,
                hasArt |-> j \in HasCover \/ cover # NoJob]]
          /\ GoesOn("place")
     ELSE End(TRUE) /\ UNCHANGED <<dirs, journals>>
  /\ Unfailing
  /\ UNCHANGED <<jobs, tracks, album, cover, files>>

\* prepare_artwork: the commit writes the artwork when the Album has none and
\* no file is in its place; a file that is there must be the right one.
MustCreateCover(j) ==
  journals[j].hasArt /\ cover = NoJob /\ art[Dir(j)] = "absent"

CoverMatches(j) ==
  ~journals[j].hasArt \/ MustCreateCover(j) \/ art[Dir(j)] = "whole"

\* place_planned, to the rename.
Place(j) ==
  /\ At("place")
  /\ IF CoverMatches(j)
     THEN /\ audio' = [audio EXCEPT ![j] = staged[j]]
          /\ staged' = [staged EXCEPT ![j] = "absent"]
          /\ GoesOn(IF MustCreateCover(j) THEN "cover" ELSE "placed")
     ELSE GoesOn("close") /\ UNCHANGED <<audio, staged>>
  /\ FilesOnly /\ UNCHANGED art

\* write_rooted_artwork: the file is made, empty ...
CreateCover(j) ==
  /\ At("cover")
  /\ art' = [art EXCEPT ![Dir(j)] = "empty"]
  /\ GoesOn("mark")
  /\ FilesOnly /\ UNCHANGED <<staged, audio>>

\* ... the journal is told (mark_commit_artwork_created) ...
MarkCover(j) ==
  /\ At("mark")
  /\ journals' = [journals EXCEPT ![j].isCoverCreated = TRUE]
  /\ GoesOn("write")
  /\ JournalOnly

\* ... and the file is written.
WriteCover(j) ==
  /\ At("write")
  /\ art' = [art EXCEPT ![Dir(j)] = "whole"]
  /\ GoesOn("placed")
  /\ FilesOnly /\ UNCHANGED <<staged, audio>>

\* The artwork could not be written: it goes, the file is staged again, as far
\* as that works, and the journal is closed.
DropCover(j) ==
  /\ At("drop")
  /\ art' = [art EXCEPT ![Dir(j)] = "absent"]
  /\ GoesOn("unplace")
  /\ FilesOnly /\ UNCHANGED <<staged, audio>>

Restored(j) ==
  /\ staged' = [staged EXCEPT ![j] = audio[j]]
  /\ audio' = [audio EXCEPT ![j] = "absent"]

Unplace(j) ==
  /\ At("unplace")
  /\ Restored(j)
  /\ GoesOn("close")
  /\ FilesOnly /\ UNCHANGED art

\* rollback_commit_journal.  A confirmation that began with a recovery goes on.
CloseJournal(j) ==
  /\ At("close")
  /\ Close(j)
  /\ IF op.on = "request" /\ op.isRecovery
     THEN op' = Op("request", j, FALSE, "create") /\ UNCHANGED server
     ELSE End(FALSE)
  /\ JournalOnly

MarkPlaced(j) ==
  /\ At("placed")
  /\ SetPhase(j, "placed")
  /\ GoesOn("verify")
  /\ JournalOnly

\* verify_placement
IsWhole(j) ==
  /\ audio[j] = "good"
  /\ journals[j].hasArt => art[Dir(j)] = "whole"

Verify(j) ==
  /\ At("verify")
  /\ GoesOn(IF IsWhole(j) THEN "verified" ELSE "undo")
  /\ FilesOnly /\ UNCHANGED files

MarkVerified(j) ==
  /\ At("verified")
  /\ SetPhase(j, "verified")
  /\ GoesOn("persist")
  /\ JournalOnly

\* commit_pending: the hidden Track, the Album and its artwork (insert_artwork_for)
\* and the journal's phase, in one transaction.
Persisted(j) ==
  /\ tracks' = [tracks EXCEPT ![j].pending = @ + 1]
  /\ album' = Dir(j)
  /\ cover' = IF cover = NoJob /\ j \in HasCover THEN j ELSE cover
  /\ SetPhase(j, "database_committed")
  /\ UNCHANGED <<jobs, files, dirs>>

Persist(j) ==
  /\ At("persist")
  /\ Persisted(j)
  /\ GoesOn("clean")
  /\ Unfailing

\* The transaction commits and its answer is lost: the journal, read again,
\* says so, and the confirmation fails without a rollback.
PersistUnanswered(j) ==
  /\ At("persist")
  /\ Persisted(j)
  /\ End(TRUE)
  /\ Fault /\ UNCHANGED crashes

\* cleanup_placement
Clean(j) ==
  /\ At("clean")
  /\ staged' = [staged EXCEPT ![j] = "absent"]
  /\ GoesOn("cleaned")
  /\ FilesOnly /\ UNCHANGED <<audio, art>>

MarkCleaned(j) ==
  /\ At("cleaned")
  /\ SetPhase(j, "cleaned")
  /\ GoesOn("finalize")
  /\ JournalOnly

\* finalize_commit: the Track is published, the job committed and the journal
\* closed.  A recovery reads the job first, and fails when it is gone.
Finalize(j) ==
  /\ At("finalize")
  /\ IF jobs[j] = "awaiting" /\ tracks[j].pending > 0
     THEN /\ tracks' = [tracks EXCEPT ![j] = [pending |-> @.pending - 1, visible |-> @.visible + 1]]
          /\ jobs' = [jobs EXCEPT ![j] = "committed"]
          /\ Close(j)
          /\ End(FALSE)
     ELSE End(TRUE) /\ UNCHANGED <<tracks, jobs, journals>>
  /\ Unfailing
  /\ UNCHANGED <<album, cover, files, dirs>>

-----------------------------------------------------------------------------
(* Recovery *)

HasDatabase(j) == journals[j].phase \in {"database_committed", "cleaned"}

\* complete_pending_journal
Completion(j) ==
  IF ~IsWhole(j) THEN "unpersist"
  ELSE IF journals[j].phase = "cleaned" THEN "finalize" ELSE "clean"

RollbackByPhase(j) ==  \* mutant: `prepared` is taken to mean not yet placed
  IF journals[j].phase # "prepared" /\ audio[j] # "absent" THEN "undo" ELSE "undoPrepared"

\* rollback_uncommitted_journal: by what is on disk, not by the phase.
Rollback(j) ==
  IF audio[j] # "absent" THEN "undo" ELSE "undoPrepared"

\* recover_commit
Recover(j) ==
  /\ At("recover")
  /\ GoesOn(IF HasDatabase(j) THEN Completion(j) ELSE Rollback(j))
  /\ FilesOnly /\ UNCHANGED files

\* rollback_pending_commit; the Album's row stays.
Unpersist(j) ==
  /\ At("unpersist")
  /\ tracks' = [tracks EXCEPT ![j].pending = 0]
  /\ cover' = IF cover = j THEN NoJob ELSE cover
  /\ SetPhase(j, "verified")
  /\ GoesOn("undo")
  /\ Unfailing
  /\ UNCHANGED <<jobs, album, files, dirs>>

\* The artwork goes if the journal says that this commit made it.
CoverRemoved(j) ==
  art' = IF journals[j].isCoverCreated THEN [art EXCEPT ![Dir(j)] = "absent"] ELSE art

\* Storage::rollback: the artwork, then the file.
UndoCover(j) ==
  /\ At("undo")
  /\ CoverRemoved(j)
  /\ GoesOn("restore")
  /\ FilesOnly /\ UNCHANGED <<staged, audio>>

UndoMove(j) ==
  /\ At("restore")
  /\ IF audio[j] = "absent" THEN UNCHANGED <<staged, audio>> ELSE Restored(j)
  /\ IF audio[j] = "absent" \/ op.isBroken THEN End(TRUE) ELSE GoesOn("close")
  /\ FilesOnly /\ UNCHANGED art

\* cleanup_prepared_placement
UndoPrepared(j) ==
  /\ At("undoPrepared")
  /\ CoverRemoved(j)
  /\ GoesOn("close")
  /\ FilesOnly /\ UNCHANGED <<staged, audio>>

-----------------------------------------------------------------------------
(* Cancellation (cancel_job, and cleanup_inactive after 15 minutes)        *)

\* cancel_job_before looks for a replacement journal, not for a commit journal.
Cancel(j) ==
  /\ IsUp /\ IsIdle
  /\ jobs[j] = "awaiting"
  /\ op' = Op("request", j, FALSE, "unstage")
  /\ UNCHANGED server /\ FilesOnly /\ UNCHANGED files

\* remove_uncommitted_staging
DropStaged(j) ==
  /\ At("unstage")
  /\ staged' = [staged EXCEPT ![j] = "absent"]
  /\ GoesOn("delete")
  /\ FilesOnly /\ UNCHANGED <<audio, art>>

\* delete_job
DeleteJob(j) ==
  /\ At("delete")
  /\ jobs' = [jobs EXCEPT ![j] = "gone"]
  /\ End(FALSE)
  /\ Unfailing
  /\ UNCHANGED <<journals, tracks, album, cover, files, dirs>>

-----------------------------------------------------------------------------
(* Failures *)

\* The step at `from` fails without effect, and the operation goes on to undo.
FaultTo(from, to) ==
  /\ At(from)
  /\ Fault
  /\ op' = [op EXCEPT !.pc = to, !.isBroken = (from = "undo")]
  /\ UNCHANGED <<jobs, journals, tracks, album, cover, files, dirs, server, crashes>>

StepFails ==
  \/ FaultTo("place", "close")
  \/ FaultTo("cover", "unplace")
  \/ FaultTo("mark", "drop")
  \/ FaultTo("write", "drop")
  \/ FaultTo("drop", "unplace")
  \/ FaultTo("unplace", "close")
  \/ FaultTo("verify", "undo")
  \/ FaultTo("persist", "undo")
  \/ FaultTo("undo", "restore")
  \/ HasDatabase(op.job) /\ FaultTo("recover", "unpersist")

\* The step fails and so does the operation; an open journal stays open.
OpFails ==
  /\ op.pc \in {"create", "close", "placed", "verified", "clean", "cleaned", "finalize",
                "unpersist", "restore", "undoPrepared", "unstage", "delete"}
  /\ Fault
  /\ End(TRUE)
  /\ UNCHANGED <<jobs, journals, tracks, album, cover, files, dirs, crashes>>

\* A crash also damages files that had just been placed: nothing flushes them.
Crash ==
  /\ server.state # "down" /\ crashes < MaxCrashes
  /\ crashes' = crashes + 1
  /\ server' = Server("down", {}, FALSE, 0)
  /\ op' = NoOp
  /\ \E torn \in SUBSET {j \in Jobs : IsOpen(j) /\ audio[j] # "absent"} :
       audio' = [j \in Jobs |-> IF j \in torn THEN "bad" ELSE audio[j]]
  /\ UNCHANGED <<jobs, journals, tracks, album, cover, staged, art, dirs, faults>>

-----------------------------------------------------------------------------
(* Startup: cleanup_restart, before the server listens                     *)

OnlyServer == UNCHANGED <<jobs, journals, tracks, album, cover, dirs, crashes, faults>>

Restart ==
  /\ server.state = "down"
  /\ server' = Server("recovering", {j \in Jobs : IsOpen(j)}, FALSE, faults)
  /\ UNCHANGED op /\ OnlyServer /\ UNCHANGED files

\* recover_commits: one journal after the other, failed or not.
RecoverNext(j) ==
  /\ server.state = "recovering" /\ IsIdle
  /\ j \in server.todo
  /\ server' = [server EXCEPT !.todo = @ \ {j}]
  /\ op' = Op("startup", j, TRUE, "recover")
  /\ OnlyServer /\ UNCHANGED files

IsRecovered == server.state = "recovering" /\ server.todo = {} /\ IsIdle

\* Without a failure, remove_all_staged and then cleanup_uncommitted.  A failure
\* is logged and the server starts as it is.
SweepStaging ==
  /\ IsRecovered
  /\ IF server.isFailed
     THEN server' = Server("up", {}, FALSE, 0) /\ UNCHANGED staged
     ELSE /\ staged' = [j \in Jobs |-> "absent"]
          /\ server' = [server EXCEPT !.state = "cancelling",
                                      !.todo = {j \in Jobs : jobs[j] = "awaiting"}]
  /\ UNCHANGED op /\ OnlyServer /\ UNCHANGED <<audio, art>>

CancelNext(j) ==
  /\ server.state = "cancelling" /\ IsIdle
  /\ j \in server.todo
  /\ server' = [server EXCEPT !.todo = @ \ {j}]
  /\ op' = Op("startup", j, FALSE, "unstage")
  /\ OnlyServer /\ UNCHANGED files

Listen ==
  /\ server.state = "cancelling" /\ server.todo = {} /\ IsIdle
  /\ server' = Server("up", {}, FALSE, 0)
  /\ UNCHANGED op /\ OnlyServer /\ UNCHANGED files

-----------------------------------------------------------------------------

Commits(j) ==
  \/ CreateJournal(j) \/ Place(j) \/ CreateCover(j) \/ MarkCover(j) \/ WriteCover(j)
  \/ DropCover(j) \/ Unplace(j) \/ CloseJournal(j) \/ MarkPlaced(j) \/ Verify(j)
  \/ MarkVerified(j) \/ Persist(j) \/ PersistUnanswered(j) \/ Clean(j) \/ MarkCleaned(j)
  \/ Finalize(j)

Recovers(j) ==
  Recover(j) \/ Unpersist(j) \/ UndoCover(j) \/ UndoMove(j) \/ UndoPrepared(j)

OpStep == ~IsIdle /\ LET j == op.job IN
  Commits(j) \/ Recovers(j) \/ DropStaged(j) \/ DeleteJob(j) \/ StepFails \/ OpFails

Next ==
  \/ \E j \in Jobs : Confirm(j) \/ Cancel(j) \/ RecoverNext(j) \/ CancelNext(j)
  \/ OpStep
  \/ Crash \/ Restart \/ SweepStaging \/ Listen

Spec == Init /\ [][Next]_vars

-----------------------------------------------------------------------------
(* Properties *)

FileStates == {"good", "bad", "absent"}

Journals ==
  {NoJournal} \cup
  [phase : {"prepared", "placed", "verified", "database_committed", "cleaned"},
   isCoverCreated : BOOLEAN, hasArt : BOOLEAN, dir : 1..MaxDirs]

\* Every row and file is in a state the code knows.
TypeOK ==
  /\ jobs \in [Jobs -> {"awaiting", "committed", "gone"}]
  /\ journals \in [Jobs -> Journals]
  /\ tracks \in [Jobs -> [pending : 0..1, visible : 0..1]]
  /\ album \in 0..MaxDirs /\ dirs \in 0..MaxDirs
  /\ cover \in Jobs \cup {NoJob}
  /\ staged \in [Jobs -> FileStates] /\ audio \in [Jobs -> FileStates]
  /\ art \in [1..MaxDirs -> {"whole", "empty", "absent"}]
  /\ crashes \in 0..MaxCrashes /\ faults \in 0..MaxFaults

\* A Track the library shows has its file, whole, at its Canonical Library Path,
\* whatever crashed or failed on the way (finalize_commit, recover_commit).
PublishedIsWhole ==
  \A j \in Jobs : tracks[j].visible > 0 => audio[j] = "good"

\* However often a confirmation is retried or recovered, a job makes at most one
\* Track, and it is shown exactly when the job is committed.
ImportedOnce ==
  \A j \in Jobs :
    /\ tracks[j].pending + tracks[j].visible <= 1
    /\ tracks[j].visible = 1 <=> jobs[j] = "committed"

\* A file in the canonical library belongs to a shown Track, or a journal will
\* bring it there or back: crashes, and a failure of one step, leave no orphan.
\* (A second failure may: place_planned restores as far as that works and the
\* journal is closed.)
CanonicalAccountedFor ==
  faults <= 1 =>
    \A j \in Jobs : audio[j] # "absent" => tracks[j].visible > 0 \/ IsOpen(j)

\* The one copy of an upload is removed by a cancellation or the restart's sweep
\* and by nothing else: every rollback puts it back in staging.
UploadIsKept ==
  \A j \in Jobs :
    (staged[j] # "absent" \/ audio[j] # "absent") /\ staged'[j] = "absent"
       /\ audio'[j] = "absent"
    => At("unstage") \/ IsRecovered

\* A startup in which nothing fails settles every journal (cleanup_restart) ...
RestartSettles ==
  IsRecovered /\ faults = server.before => \A j \in Jobs : ~IsOpen(j)

\* ... that is, every journal whose job still exists.
RestartSettlesJobs ==
  IsRecovered /\ faults = server.before =>
    \A j \in Jobs : IsOpen(j) => jobs[j] = "gone" /\ tracks[j].pending = 1

\* Artwork the library refers to is there (insert_artwork_for, rollback).
ArtworkIsThere ==
  cover # NoJob => art[album] = "whole" \/ IsOpen(cover)
=============================================================================
