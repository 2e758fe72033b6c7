----------------------------- MODULE TrackFiles -----------------------------
(***************************************************************************)
(* What happens to the file of a Managed Track after its import: a Track   *)
(* Replacement puts another file in its place, a Permanent Track Deletion  *)
(* removes it, and a restart makes something of both when they were cut    *)
(* short: src/server/src/modules/managed_import/replacement.rs,            *)
(* deletion.rs, and the parts of storage.rs and service.rs they call.      *)
(*                                                                         *)
(* Both hold commit_lock, so one operation runs at a time; its durable     *)
(* effects (a transaction, a rename, a file written or removed) are one    *)
(* step each, the server may crash between any two, and a step whose       *)
(* failure the code handles may fail.                                      *)
(*                                                                         *)
(* A file is named by what it holds: a Track stands for the file it was    *)
(* imported with, a job for its upload.  A Canonical Library Path has the  *)
(* Track, the id of the Album's row, and a name and extension that follow  *)
(* from the tags.  The pending and the retired path of a replacement are   *)
(* in the same directory and have the Track and the extension in them, not *)
(* the job: an upload that was left at the one is in the way of the next.  *)
(* All artwork of an Album is the same: the code takes an Album's artwork  *)
(* for the upload's (apply_import_plan), so a replacement never exchanges  *)
(* it.                                                                     *)
(***************************************************************************)
EXTENDS Integers, FiniteSets

CONSTANTS
  Tracks,       \* Managed Tracks
  Jobs,         \* replacement jobs with a validated upload
  Replaces,     \* the Track a job replaces
  Albums,       \* Albums, by identity key
  AlbumOf,      \* the Album the tags of a file name
  NameOf,       \* the file name and extension that follow from them
  Names,
  ExtOf,        \* the extension alone
  Exts,
  HasCover,     \* the uploads that embed Album Artwork
  CoveredAtFirst, \* the Albums that have artwork to begin with
  MaxIds,       \* bound: rows made for Albums
  MaxCrashes,   \* bound: crashes
  MaxFaults     \* bound: failures of a disk or database operation

Absent == "absent"

\* What a managed library and its jobs are like.  MaxIds is the model's bound; it
\* has room for the Albums there are to begin with.
ConstantsOK ==
  /\ IsFiniteSet(Tracks) /\ IsFiniteSet(Jobs)
  /\ Tracks \cap Jobs = {} /\ Absent \notin Tracks \cup Jobs
  /\ Replaces \in [Jobs -> Tracks]
  /\ AlbumOf \in [Tracks \cup Jobs -> Albums]
  /\ NameOf \in [Tracks \cup Jobs -> Names] /\ ExtOf \in [Tracks \cup Jobs -> Exts]
  /\ CoveredAtFirst \subseteq {AlbumOf[t] : t \in Tracks}
  /\ MaxIds \in Nat /\ Cardinality({AlbumOf[t] : t \in Tracks}) <= MaxIds

VARIABLES
  rows,       \* track rows: state, Album id, the file it names, replacements
  ids,        \* the id of the Album's row, 0 without one
  artwork,    \* the Album ids with an album_artwork row
  jobs,       \* job rows: "awaiting", "committed" or "gone"
  journals,   \* a Track's incomplete replacement journal, or NoJournal
  deletions,  \* a Track's permanent_track_deletions row, or NoDeletion
  staged,     \* is the job's upload in the staging directory?
  disk,       \* what is at a Track's canonical, pending and retired paths
  covers,     \* an Album id's artwork file: "whole", "empty" or "absent"
  made,       \* how many Album ids were made
  server,     \* what the process does; `todo`: the journals the startup has yet to
              \* recover; `before` (history): the faults before this startup, or -1
              \* once a request came
  op,         \* the operation in progress
  crashes, faults

rowVars == <<rows, ids, artwork>>
files == <<staged, disk, covers>>
vars == <<rowVars, jobs, journals, deletions, files, made, server, op, crashes, faults>>

NoOp == [pc |-> "none"]
NoJournal == [phase |-> "closed"]
NoDeletion == [cover |-> -1]

Paths == Tracks \X (1..MaxIds) \X Names
SidePaths == Tracks \X (1..MaxIds) \X Exts
PathOf(t, id, v) == <<t, id, NameOf[v]>>

\* The path the Track's row names, and the Tracks of an Album's row, hidden or not.
RowPath(t) == PathOf(t, rows[t].album, rows[t].version)
TracksOf(id) == {t \in Tracks : rows[t].state # "gone" /\ rows[t].album = id}

\* A replacement's paths, from its journal: where the Track's file is and where its
\* new one goes, and the paths beside them where the upload waits and the old file
\* is kept (plan_replacement_placement).
From(t) == journals[t].from
To(t) == journals[t].to
NewId(t) == To(t)[2]
JobOf(t) == journals[t].job
Pending(t) == <<t, NewId(t), ExtOf[JobOf(t)]>>
Retired(t) == <<t, From(t)[2], ExtOf[journals[t].old]>>

IsOpen(t) == journals[t] # NoJournal
JournalOf(j) == IsOpen(Replaces[j]) /\ journals[Replaces[j]].job = j
IsUp == server.state = "up"
IsIdle == op = NoOp
At(pc) == op.pc = pc

Init ==
  LET albumsUsed == {AlbumOf[t] : t \in Tracks}
      number == CHOOSE f \in [albumsUsed -> 1..Cardinality(albumsUsed)] :
                  \A a, b \in albumsUsed : f[a] = f[b] => a = b
      path(t) == <<t, number[AlbumOf[t]], NameOf[t]>>
      covered == {number[a] : a \in CoveredAtFirst}
  IN /\ rows = [t \in Tracks |-> [state |-> "here", album |-> number[AlbumOf[t]],
                                  version |-> t, replaced |-> 0]]
     /\ ids = [a \in Albums |-> IF a \in albumsUsed THEN number[a] ELSE 0]
     /\ artwork = covered
     /\ jobs = [j \in Jobs |-> "awaiting"]
     /\ journals = [t \in Tracks |-> NoJournal]
     /\ deletions = [t \in Tracks |-> NoDeletion]
     /\ staged = [j \in Jobs |-> TRUE]
     /\ disk = [audio |-> [p \in Paths |-> IF p = path(p[1]) THEN p[1] ELSE Absent],
                pending |-> [p \in SidePaths |-> Absent],
                retired |-> [p \in SidePaths |-> Absent]]
     /\ covers = [i \in 1..MaxIds |-> IF i \in covered THEN "whole" ELSE Absent]
     /\ made = Cardinality(albumsUsed)
     /\ server = [state |-> "up", todo |-> {}, isFailed |-> FALSE, before |-> -1]
     /\ op = NoOp
     /\ crashes = 0
     /\ faults = 0

-----------------------------------------------------------------------------
(* Steps of an operation.  It runs for a client or at startup and knows    *)
(* whether a part of a rollback failed.                                    *)

Op(on, kind, x, pc) == [on |-> on, kind |-> kind, of |-> x, isBroken |-> FALSE, pc |-> pc]

GoesOn(pc) == op' = [op EXCEPT !.pc = pc] /\ UNCHANGED server

\* The operation is over.  A client is answered; the startup remembers a failure,
\* and a deletion that failed ends it (ManagedImport::start).
End(isFailed) ==
  /\ op' = NoOp
  /\ server' = CASE op.on = "request" -> server
                 [] op.on = "startup" /\ isFailed /\ op.kind = "delete" ->
                      [server EXCEPT !.state = "up", !.todo = {}, !.isFailed = TRUE]
                 [] OTHER -> [server EXCEPT !.isFailed = @ \/ isFailed]

\* A recovery has closed the journal.  A confirmation that made it goes on with a
\* job that still awaits it (recovered_replacement_job).
Recovered == IF op.kind = "reconfirm"
             THEN op' = [op EXCEPT !.kind = "confirm", !.pc = "journal"] /\ UNCHANGED server
             ELSE End(op.kind # "recover")

Fault == faults < MaxFaults /\ faults' = faults + 1 /\ UNCHANGED crashes
Unfailing == UNCHANGED <<crashes, faults>>

OnlyFiles == UNCHANGED <<rowVars, jobs, journals, deletions, made>>
OnlyJournals == UNCHANGED <<rowVars, jobs, deletions, made, files>>
Nothing == OnlyFiles /\ UNCHANGED files

SetPhase(t, phase) == journals' = [journals EXCEPT ![t].phase = phase]
Close(t) == journals' = [journals EXCEPT ![t] = NoJournal]

\* A request makes the startup's result old news.
Request(kind, x, pc) ==
  /\ IsUp /\ IsIdle
  /\ op' = Op("request", kind, x, pc)
  /\ server' = [server EXCEPT !.before = -1]
  /\ Nothing /\ Unfailing

-----------------------------------------------------------------------------
(* Track Replacement, to the transaction *)

\* confirm_replacement: a replacement of the job that was cut short is recovered
\* first.
ConfirmReplacement(j) ==
  /\ jobs[j] = "awaiting"
  /\ Request(IF JournalOf(j) THEN "reconfirm" ELSE "confirm", Replaces[j],
             IF ~JournalOf(j) THEN "journal"
             ELSE IF journals[Replaces[j]].phase = "database_committed" THEN "unretire"
             ELSE "undo_swap")

\* load_replacement_target, load_track_deletion: the Track is visible and its file
\* is the one its row names.
Resolves(t) == rows[t].state = "here" /\ disk.audio[RowPath(t)] = rows[t].version

\* read_target_row: no other visible Track in the Album.
IsSoleTrack(t) == \A u \in TracksOf(rows[t].album) \ {t} : rows[u].state = "hidden"

\* resolve_commit_identity: the Album's id, or a new one.
AlbumId(j) == LET id == ids[AlbumOf[j]] IN IF id # 0 THEN id ELSE made + 1

\* plan_replacement_artwork: the artwork to make, and the artwork that goes when
\* the Track leaves an Album nobody else is in.
ArtworkMode(j) ==
  IF AlbumId(j) \in artwork THEN "existing" ELSE IF j \in HasCover THEN "create" ELSE "none"

AbandonedCover(j) ==
  LET t == Replaces[j] IN
  IF AlbumId(j) # rows[t].album /\ IsSoleTrack(t) /\ rows[t].album \in artwork
  THEN rows[t].album ELSE 0

\* prepare_replacement_confirmation, build_replacement_state and
\* prepare_replacement_journal.  A Track has one open journal (a unique index).
PrepareJournal(j) ==
  LET t == Replaces[j] IN
  /\ At("journal") /\ op.of = t
  /\ jobs[j] = "awaiting" /\ ~JournalOf(j)
  /\ IF staged[j] /\ Resolves(t) /\ ~IsOpen(t) /\ AlbumId(j) <= MaxIds
     THEN /\ made' = IF AlbumId(j) > made THEN AlbumId(j) ELSE made
          /\ journals' = [journals EXCEPT ![t] =
               [phase |-> "prepared", job |-> j, from |-> RowPath(t),
                to |-> PathOf(t, AlbumId(j), j), mode |-> ArtworkMode(j),
                isCoverCreated |-> FALSE, old |-> rows[t].version,
                oldCover |-> AbandonedCover(j)]]
          /\ GoesOn("place")
     ELSE End(TRUE) /\ UNCHANGED <<made, journals>>
  /\ Unfailing /\ UNCHANGED <<rowVars, jobs, deletions, files>>

\* place_replacement, to the artwork.
Place(t) ==
  /\ At("place") /\ op.of = t
  /\ \/ /\ staged' = [staged EXCEPT ![JobOf(t)] = FALSE]
        /\ disk' = [disk EXCEPT !.pending[Pending(t)] = JobOf(t)]
        /\ GoesOn("artwork") /\ UNCHANGED covers /\ Unfailing
     \/ Fault /\ GoesOn("give_up") /\ UNCHANGED files
  /\ OnlyFiles

\* place_replacement's match on the mode: an Album's artwork must be as its row
\* says, and so must a file that is in the place of the one to be made.
PlaceArtwork(t) ==
  LET mode == journals[t].mode
      isMade == mode = "create" /\ covers[NewId(t)] = Absent
  IN /\ At("artwork") /\ op.of = t
     /\ \/ /\ isMade
           /\ covers' = [covers EXCEPT ![NewId(t)] = "empty"]
           /\ GoesOn("mark_artwork")
        \/ /\ ~isMade /\ (mode = "none" \/ covers[NewId(t)] = "whole")
           /\ GoesOn("placed") /\ UNCHANGED covers
        \/ /\ ~isMade /\ mode # "none" /\ covers[NewId(t)] # "whole"
           /\ GoesOn("unplace") /\ UNCHANGED covers
     /\ OnlyFiles /\ UNCHANGED <<staged, disk>> /\ Unfailing

\* mark_replacement_artwork_created
MarkArtworkCreated(t) ==
  /\ At("mark_artwork") /\ op.of = t
  /\ \/ /\ journals' = [journals EXCEPT ![t].isCoverCreated = TRUE]
        /\ GoesOn("write_artwork") /\ Unfailing
     \/ Fault /\ GoesOn("remove_artwork") /\ UNCHANGED journals
  /\ OnlyJournals

\* write_rooted_artwork, after the mark; a file that is not whole is removed.
WriteArtwork(t) ==
  /\ At("write_artwork") /\ op.of = t
  /\ \/ covers' = [covers EXCEPT ![NewId(t)] = "whole"] /\ GoesOn("placed") /\ Unfailing
     \/ Fault /\ GoesOn("remove_artwork") /\ UNCHANGED covers
  /\ OnlyFiles /\ UNCHANGED <<staged, disk>>

RemoveArtwork(t) ==
  /\ At("remove_artwork") /\ op.of = t
  /\ \/ covers' = [covers EXCEPT ![NewId(t)] = Absent] /\ Unfailing
     \/ Fault /\ UNCHANGED covers
  /\ GoesOn("unplace")
  /\ OnlyFiles /\ UNCHANGED <<staged, disk>>

\* place_replacement's error arm, then the journal is closed whether or not the
\* upload went back (place_and_verify_replacement).
Unplace(t) ==
  /\ At("unplace") /\ op.of = t
  /\ \/ /\ staged' = [staged EXCEPT ![JobOf(t)] = TRUE]
        /\ disk' = [disk EXCEPT !.pending[Pending(t)] = Absent]
        /\ UNCHANGED covers /\ Unfailing
     \/ Fault /\ UNCHANGED files
  /\ GoesOn("give_up")
  /\ OnlyFiles

GiveUp(t) ==
  /\ At("give_up") /\ op.of = t
  /\ End(TRUE)
  /\ \/ Close(t) /\ Unfailing
     \/ Fault /\ UNCHANGED journals
  /\ OnlyJournals

\* advance_replacement_phase; verify_replacement and stream_swapped_replacement
\* read the file back first.
Advance(t, pc, phase, next) ==
  /\ At(pc) /\ op.of = t
  /\ \/ SetPhase(t, phase) /\ GoesOn(next) /\ Unfailing
     \/ Fault /\ GoesOn("undo_swap") /\ UNCHANGED journals
  /\ OnlyJournals

AdvancePlaced(t) == Advance(t, "placed", "placed", "verify")
AdvanceVerified(t) == Advance(t, "verify", "verified", "retire")
AdvanceSwapped(t) == Advance(t, "swapped", "swapped", "stream")

\* swap_replacement: two renames, the second of which takes the first one back
\* when it fails.
Retire(t) ==
  /\ At("retire") /\ op.of = t
  /\ \/ /\ disk' = [disk EXCEPT !.audio[From(t)] = Absent,
                                !.retired[Retired(t)] = disk.audio[From(t)]]
        /\ GoesOn("swap") /\ Unfailing
     \/ Fault /\ GoesOn("undo_swap") /\ UNCHANGED disk
  /\ OnlyFiles /\ UNCHANGED <<staged, covers>>

Swap(t) ==
  /\ At("swap") /\ op.of = t
  /\ \/ /\ disk' = [disk EXCEPT !.pending[Pending(t)] = Absent,
                                !.audio[To(t)] = disk.pending[Pending(t)]]
        /\ GoesOn("swapped") /\ Unfailing
     \/ Fault /\ GoesOn("unswap") /\ UNCHANGED disk
  /\ OnlyFiles /\ UNCHANGED <<staged, covers>>

Unswap(t) ==
  /\ At("unswap") /\ op.of = t
  /\ \/ /\ disk' = [disk EXCEPT !.retired[Retired(t)] = Absent,
                                !.audio[From(t)] = disk.retired[Retired(t)]]
        /\ Unfailing
     \/ Fault /\ UNCHANGED disk
  /\ GoesOn("undo_swap")
  /\ OnlyFiles /\ UNCHANGED <<staged, covers>>

StreamSwapped(t) ==
  /\ At("stream") /\ op.of = t
  /\ \/ disk.audio[To(t)] = JobOf(t) /\ GoesOn("commit") /\ Unfailing
     \/ Fault /\ GoesOn("undo_swap")
  /\ Nothing

\* move_or_delete_artwork_reference and delete_album_if_empty: the rows of an Album's
\* artwork and of the Album itself go with its last Track, hidden ones counted.
ArtworkWithout(t) ==
  IF TracksOf(rows[t].album) = {t} THEN artwork \ {rows[t].album} ELSE artwork

IdsWithout(t) ==
  [a \in Albums |-> IF TracksOf(rows[t].album) = {t} /\ ids[a] = rows[t].album THEN 0 ELSE ids[a]]

\* update_replaced_track: only if nobody changed the row since it was read.
ReplacedTrack(t) ==
  [rows EXCEPT ![t].album = NewId(t), ![t].version = JobOf(t), ![t].replaced = @ + 1]

\* commit_replacement_data (write_replacement_data): one transaction.
ReplacementData(t) ==
  LET isMoved == NewId(t) # rows[t].album
      created == IF journals[t].mode = "create" THEN {NewId(t)} ELSE {}
  IN /\ rows' = ReplacedTrack(t)
     /\ ids' = [(IF isMoved THEN IdsWithout(t) ELSE ids) EXCEPT ![AlbumOf[JobOf(t)]] = NewId(t)]
     /\ artwork' = (IF isMoved THEN ArtworkWithout(t) ELSE artwork) \cup created

\* commit_replacement, the transaction and what its failure means: when the answer
\* is lost after the commit, the journal stays open for the next recovery.
CommitData(t) ==
  /\ At("commit") /\ op.of = t
  /\ rows[t].state = "here"
  /\ \/ ReplacementData(t) /\ SetPhase(t, "database_committed") /\ GoesOn("unretire") /\ Unfailing
     \/ ReplacementData(t) /\ SetPhase(t, "database_committed") /\ End(TRUE) /\ Fault
     \/ Fault /\ GoesOn("undo_swap") /\ UNCHANGED <<rowVars, journals>>
  /\ UNCHANGED <<jobs, deletions, files, made>>


-----------------------------------------------------------------------------
(* rollback_replacement: every part is tried, judging from the files, and  *)
(* the journal is closed when all went well (rollback_replacement_files).  *)

Broken(pc) == op' = [op EXCEPT !.pc = pc, !.isBroken = TRUE] /\ UNCHANGED server

\* A part of the rollback that is not needed, that works, or that fails: the target
\* is taken (restore_if_present) or the operation itself fails.
Part(t, pc, next, isNeeded, isBlocked, Effect) ==
  /\ At(pc) /\ op.of = t
  /\ \/ ~isNeeded /\ GoesOn(next) /\ UNCHANGED files /\ Unfailing
     \/ isNeeded /\ ~isBlocked /\ Effect /\ GoesOn(next) /\ Unfailing
     \/ isNeeded /\ isBlocked /\ Broken(next) /\ UNCHANGED files /\ Unfailing
     \/ isNeeded /\ Fault /\ Broken(next) /\ UNCHANGED files
  /\ OnlyFiles

\* undo_retired_swap: the retired file proves that the swap began.
IsSwapBegun(t) == disk.retired[Retired(t)] # Absent

UndoSwap(t) ==
  Part(t, "undo_swap", "undo_retire",
       IsSwapBegun(t) /\ disk.audio[To(t)] # Absent, disk.pending[Pending(t)] # Absent,
       /\ disk' = [disk EXCEPT !.audio[To(t)] = Absent, !.pending[Pending(t)] = disk.audio[To(t)]]
       /\ UNCHANGED <<staged, covers>>)

\* Mutant: what to undo is judged from the journal's phase, which is behind the files.
UndoRetireByPhase(t) ==
  Part(t, "undo_retire", "undo_place",
       journals[t].phase = "swapped", disk.audio[From(t)] # Absent,
       /\ disk' = [disk EXCEPT !.retired[Retired(t)] = Absent,
                             !.audio[From(t)] = disk.retired[Retired(t)]]
       /\ UNCHANGED <<staged, covers>>)

UndoRetire(t) ==
  Part(t, "undo_retire", "undo_place",
       IsSwapBegun(t), disk.audio[From(t)] # Absent,
       /\ disk' = [disk EXCEPT !.retired[Retired(t)] = Absent,
                             !.audio[From(t)] = disk.retired[Retired(t)]]
       /\ UNCHANGED <<staged, covers>>)

UndoPlace(t) ==
  Part(t, "undo_place", "undo_artwork",
       disk.pending[Pending(t)] # Absent, staged[JobOf(t)],
       /\ disk' = [disk EXCEPT !.pending[Pending(t)] = Absent]
       /\ staged' = [staged EXCEPT ![JobOf(t)] = TRUE]
       /\ UNCHANGED covers)

UndoArtwork(t) ==
  Part(t, "undo_artwork", "undone", journals[t].isCoverCreated, FALSE,
       covers' = [covers EXCEPT ![NewId(t)] = Absent] /\ UNCHANGED <<staged, disk>>)

Undone(t) ==
  /\ At("undone") /\ op.of = t
  /\ \/ ~op.isBroken /\ Close(t) /\ Recovered /\ Unfailing
     \/ op.isBroken /\ End(TRUE) /\ UNCHANGED journals /\ Unfailing
     \/ ~op.isBroken /\ End(TRUE) /\ UNCHANGED journals /\ Fault
  /\ OnlyJournals

-----------------------------------------------------------------------------
(* complete_replacement: the previous file goes, then the artwork of an    *)
(* Album that is left empty, then the job is committed.                    *)

\* remove_managed_file: gone already, removed because its bytes are as expected, or
\* an error.
RemoveRetired(t) ==
  /\ At("unretire") /\ op.of = t
  /\ \/ /\ disk.retired[Retired(t)] \in {Absent, journals[t].old}
        /\ disk' = [disk EXCEPT !.retired[Retired(t)] = Absent]
        /\ GoesOn("uncover") /\ Unfailing
     \/ Fault /\ End(TRUE) /\ UNCHANGED disk
  /\ OnlyFiles /\ UNCHANGED <<staged, covers>>

RemoveOldCover(t) ==
  LET old == journals[t].oldCover IN
  /\ At("uncover") /\ op.of = t
  /\ \/ old = 0 /\ GoesOn("finalize") /\ UNCHANGED covers /\ Unfailing
     \/ /\ old # 0 /\ covers[old] # "empty"
        /\ covers' = [covers EXCEPT ![old] = Absent]
        /\ GoesOn("finalize") /\ Unfailing
     \/ old # 0 /\ Fault /\ End(TRUE) /\ UNCHANGED covers
  /\ OnlyFiles /\ UNCHANGED <<staged, disk>>

\* finalize_replacement: the job names the Track from now on, which must be there
\* (a foreign key).
FinalizeReplacement(t) ==
  /\ At("finalize") /\ op.of = t
  /\ \/ /\ rows[t].state # "gone"
        /\ jobs' = [jobs EXCEPT ![JobOf(t)] = "committed"]
        /\ Close(t) /\ End(FALSE) /\ Unfailing
     \/ /\ End(TRUE) /\ UNCHANGED <<jobs, journals>>
        /\ (rows[t].state = "gone" /\ Unfailing) \/ Fault
  /\ UNCHANGED <<rowVars, deletions, files, made>>

\* cancel_job_before: not while a replacement of the job is open.
CancelJob(j) ==
  /\ IsUp /\ IsIdle
  /\ jobs[j] = "awaiting" /\ ~JournalOf(j)
  /\ staged' = [staged EXCEPT ![j] = FALSE]
  /\ jobs' = [jobs EXCEPT ![j] = "gone"]
  /\ server' = [server EXCEPT !.before = -1]
  /\ UNCHANGED <<rowVars, journals, deletions, disk, covers, made, op, crashes, faults>>

-----------------------------------------------------------------------------
(* Permanent Track Deletion.  Deleting an Album asks for its Tracks one    *)
(* after the other (delete_album).                                         *)

\* delete_track
DeleteTrack(t) == rows[t].state = "here" /\ Request("delete", t, "d_prepare")

\* load_track_deletion: the Album's artwork goes with its last Track.
FinalCover(t) ==
  IF TracksOf(rows[t].album) = {t} /\ rows[t].album \in artwork THEN rows[t].album ELSE 0

\* prepare_track_deletion: the journal and the hiding in one transaction.
PrepareDeletion(t) ==
  /\ At("d_prepare") /\ op.of = t
  /\ IF Resolves(t) /\ (FinalCover(t) # 0 => covers[FinalCover(t)] = "whole")
     THEN /\ deletions' = [deletions EXCEPT ![t] = [cover |-> FinalCover(t)]]
          /\ rows' = [rows EXCEPT ![t].state = "hidden"]
          /\ GoesOn("d_audio")
     ELSE End(TRUE) /\ UNCHANGED <<deletions, rows>>
  /\ Unfailing /\ UNCHANGED <<ids, artwork, jobs, journals, files, made>>

\* remove_prepared_deletion_files, the audio: a failure takes a request's deletion
\* back, for nothing is removed yet.
RemoveAudio(t) ==
  /\ At("d_audio") /\ op.of = t
  /\ \/ /\ disk.audio[RowPath(t)] \in {Absent, rows[t].version}
        /\ disk' = [disk EXCEPT !.audio[RowPath(t)] = Absent]
        /\ GoesOn("d_cover") /\ Unfailing
     \/ /\ UNCHANGED disk
        /\ (disk.audio[RowPath(t)] \notin {Absent, rows[t].version} /\ Unfailing) \/ Fault
        /\ IF op.on = "request" THEN GoesOn("d_cancel") ELSE End(TRUE)
  /\ OnlyFiles /\ UNCHANGED <<staged, covers>>

RemoveFinalCover(t) ==
  LET cover == deletions[t].cover IN
  /\ At("d_cover") /\ op.of = t
  /\ \/ cover = 0 /\ GoesOn("d_finalize") /\ UNCHANGED covers /\ Unfailing
     \/ /\ cover # 0
        /\ covers' = [covers EXCEPT ![cover] = Absent]
        /\ GoesOn("d_finalize") /\ Unfailing
     \/ cover # 0 /\ Fault /\ End(TRUE) /\ UNCHANGED covers
  /\ OnlyFiles /\ UNCHANGED <<staged, disk>>

\* cancel_track_deletion
CancelDeletion(t) ==
  /\ At("d_cancel") /\ op.of = t
  /\ End(TRUE)
  /\ \/ /\ rows' = [rows EXCEPT ![t].state = "here"]
        /\ deletions' = [deletions EXCEPT ![t] = NoDeletion]
        /\ Unfailing
     \/ Fault /\ UNCHANGED <<rows, deletions>>
  /\ UNCHANGED <<ids, artwork, jobs, journals, files, made>>

\* finalize_track_deletion: one transaction; the Track's committed jobs go with it.
FinalizeDeletion(t) ==
  /\ At("d_finalize") /\ op.of = t
  /\ \/ /\ rows' = [rows EXCEPT ![t].state = "gone"]
        /\ deletions' = [deletions EXCEPT ![t] = NoDeletion]
        /\ jobs' = [j \in Jobs |-> IF jobs[j] = "committed" /\ Replaces[j] = t
                                   THEN "gone" ELSE jobs[j]]
        /\ artwork' = ArtworkWithout(t)
        /\ ids' = IdsWithout(t)
        /\ End(FALSE) /\ Unfailing
     \/ Fault /\ End(TRUE) /\ UNCHANGED <<rowVars, deletions, jobs>>
  /\ UNCHANGED <<journals, files, made>>

-----------------------------------------------------------------------------
(* Crash and restart.  ManagedImport::start recovers the deletions, then   *)
(* the replacements, then removes what is staged; the first that fails     *)
(* ends it, and the server serves requests all the same (main).            *)

Crash ==
  /\ server.state # "down" /\ crashes < MaxCrashes
  /\ crashes' = crashes + 1
  /\ server' = [server EXCEPT !.state = "down", !.todo = {}]
  /\ op' = NoOp
  /\ Nothing /\ UNCHANGED faults

Restart ==
  /\ server.state = "down"
  /\ server' = [state |-> "deletions", todo |-> {t \in Tracks : deletions[t] # NoDeletion},
                isFailed |-> FALSE, before |-> faults]
  /\ UNCHANGED op /\ Nothing /\ Unfailing

\* recover_pending_track_deletions, recover_pending_track_replacements
StartupRecovers(t) ==
  /\ IsIdle /\ t \in server.todo
  /\ server' = [server EXCEPT !.todo = @ \ {t}]
  /\ op' = IF server.state = "deletions" THEN Op("startup", "delete", t, "d_audio")
           ELSE IF journals[t].phase = "database_committed" THEN Op("startup", "recover", t, "unretire")
           ELSE Op("startup", "recover", t, "undo_swap")
  /\ Nothing /\ Unfailing

StartupGoesOn ==
  /\ IsIdle /\ server.todo = {}
  /\ \/ /\ server.state = "deletions"
        /\ server' = [server EXCEPT !.state = "replacements", !.todo = {t \in Tracks : IsOpen(t)}]
     \/ /\ server.state = "replacements"
        /\ server' = [server EXCEPT !.state = IF server.isFailed THEN "up" ELSE "cleanup"]
  /\ UNCHANGED op /\ Nothing /\ Unfailing

\* cleanup_restart, after recover_commits: remove_all_staged, then the jobs that wait
\* are cancelled (cleanup_uncommitted).
RemoveAllStaged ==
  /\ server.state = "cleanup"
  /\ \/ /\ staged' = [j \in Jobs |-> FALSE]
        /\ server' = [server EXCEPT !.state = "cancel"] /\ Unfailing
     \/ /\ Fault /\ UNCHANGED staged
        /\ server' = [server EXCEPT !.state = "cancel", !.isFailed = TRUE]
  /\ OnlyFiles /\ UNCHANGED <<disk, covers, op>>

CancelUncommitted ==
  /\ server.state = "cancel"
  /\ LET waiting == {j \in Jobs : jobs[j] = "awaiting" /\ ~JournalOf(j)} IN
     \E failed \in {{}} \cup {{j} : j \in waiting} :
       /\ IF failed = {} THEN Unfailing ELSE Fault
       /\ jobs' = [j \in Jobs |-> IF j \in waiting \ failed THEN "gone" ELSE jobs[j]]
       /\ staged' = [j \in Jobs |-> staged[j] /\ j \notin waiting \ failed]
       /\ server' = [server EXCEPT !.state = "up", !.isFailed = @ \/ failed # {}]
  /\ UNCHANGED <<rowVars, journals, deletions, disk, covers, made, op>>

ReplacementStep(t) ==
  \/ Place(t) \/ PlaceArtwork(t) \/ MarkArtworkCreated(t) \/ WriteArtwork(t)
  \/ RemoveArtwork(t) \/ Unplace(t) \/ GiveUp(t) \/ AdvancePlaced(t) \/ AdvanceVerified(t)
  \/ Retire(t) \/ Swap(t) \/ Unswap(t) \/ AdvanceSwapped(t) \/ StreamSwapped(t)
  \/ CommitData(t) \/ UndoSwap(t) \/ UndoRetire(t) \/ UndoPlace(t) \/ UndoArtwork(t)
  \/ Undone(t) \/ RemoveRetired(t) \/ RemoveOldCover(t) \/ FinalizeReplacement(t)

DeletionStep(t) ==
  \/ PrepareDeletion(t) \/ RemoveAudio(t) \/ RemoveFinalCover(t) \/ CancelDeletion(t)
  \/ FinalizeDeletion(t)

Next ==
  \/ \E j \in Jobs : ConfirmReplacement(j) \/ PrepareJournal(j) \/ CancelJob(j)
  \/ \E t \in Tracks :
       \/ IsOpen(t) /\ ReplacementStep(t)
       \/ DeleteTrack(t) \/ DeletionStep(t) \/ StartupRecovers(t)
  \/ StartupGoesOn \/ RemoveAllStaged \/ CancelUncommitted
  \/ Crash \/ Restart

Spec == Init /\ [][Next]_vars

-----------------------------------------------------------------------------
(* Properties *)

\* The variables have their types.
TypeOK ==
  /\ \A t \in Tracks :
       /\ rows[t].state \in {"here", "hidden", "gone"} /\ rows[t].album \in 1..MaxIds
       /\ rows[t].version \in {t} \cup {j \in Jobs : Replaces[j] = t}
       /\ IsOpen(t) => /\ From(t) \in Paths /\ To(t) \in Paths
                       /\ Replaces[JobOf(t)] = t
                       /\ journals[t].phase \in {"prepared", "placed", "verified", "swapped",
                                                 "database_committed"}
  /\ \A j \in Jobs : jobs[j] \in {"awaiting", "committed", "gone"}
  /\ \A p \in Paths : disk.audio[p] \in Tracks \cup Jobs \cup {Absent}
  /\ \A p \in SidePaths : {disk.pending[p], disk.retired[p]} \subseteq Tracks \cup Jobs \cup {Absent}
  /\ ids \in [Albums -> 0..MaxIds] /\ artwork \subseteq 1..MaxIds
  /\ \A i \in 1..MaxIds : covers[i] \in {"whole", "empty", Absent}

\* At every moment, crashes and failures included, the bytes a visible Track's row
\* names are at the path it names, or at the retired path of a replacement whose
\* journal is open and not committed (swap_replacement, rollback_replacement).
VisibleTrackKeepsItsFile ==
  \A t \in Tracks : rows[t].state = "here" =>
    \/ disk.audio[RowPath(t)] = rows[t].version
    \/ /\ IsOpen(t) /\ journals[t].phase \in {"verified", "swapped"}
       /\ From(t) = RowPath(t) /\ disk.retired[Retired(t)] = rows[t].version

\* A file that a Track's row has given up is gone or is the retired file of an open
\* journal (complete_replacement_files, finalize_track_deletion).  What may be at a
\* canonical path that no row names is an upload that has not become a Track's.
OldFilesAreRemoved ==
  /\ \A p \in Paths : LET t == p[1] IN
       disk.audio[p] # Absent => \/ rows[t].state # "gone" /\ p = RowPath(t)
                                \/ disk.audio[p] \in {j \in Jobs : jobs[j] # "committed"}
  /\ \A p \in SidePaths : LET t == p[1] IN
       disk.retired[p] # Absent => IsOpen(t) /\ p = Retired(t)

\* A Track is hidden exactly while the journal of its deletion is there, so nothing
\* stays hidden that no restart would delete (prepare_track_deletion,
\* cancel_track_deletion), and once its file was removed it is not shown again.
HiddenIsBeingDeleted ==
  \A t \in Tracks : (rows[t].state = "hidden") <=> (deletions[t] # NoDeletion)

\* An Album is shown with a Track of it that is visible or whose deletion may still be
\* taken back.
IsShown(id) ==
  \E t \in TracksOf(id) :
    \/ rows[t].state = "here"
    \/ At("d_cancel") /\ op.of = t
    \/ At("d_audio") /\ op.of = t /\ op.on = "request"

\* The row of a shown Album's artwork names no whole file.
IsCoverLost(id) == covers[id] # "whole" /\ id \in artwork /\ IsShown(id)

\* The shown Album's artwork is to go with an operation that is not over: a rollback
\* removes what its replacement made, a completion the artwork of the Album its Track
\* left, a deletion that of its Track's Album.
IsCoverClaimed(id) ==
  /\ id \in artwork /\ IsShown(id)
  /\ \E t \in Tracks :
       \/ deletions[t].cover = id
       \/ /\ IsOpen(t)
          /\ IF journals[t].phase = "database_committed" THEN journals[t].oldCover = id
             ELSE journals[t].isCoverCreated /\ NewId(t) = id

\* The row of a shown Album's artwork names a whole file, neither an empty one that a
\* crash left (write_rooted_artwork) nor one that went with another Track; it is lost
\* only to an operation that was cut short and overtaken: its journal says what it
\* may remove, and a Track has joined the Album or its artwork has got a row since
\* (rollback_replacement, complete_replacement_files, remove_prepared_deletion_files).
CoversStayWhole == \A id \in 1..MaxIds : IsCoverLost(id)' => IsCoverLost(id) \/ IsCoverClaimed(id)

\* A confirmed replacement is applied once, however often it is confirmed again,
\* recovered or answered with an error after its transaction.
ReplacedOnce ==
  \A t \in Tracks : rows[t].state # "gone" =>
    rows[t].replaced = Cardinality({j \in Jobs : Replaces[j] = t /\ jobs[j] = "committed"})
                       + (IF IsOpen(t) /\ journals[t].phase = "database_committed" THEN 1 ELSE 0)

\* The upload of an earlier replacement of the Track, left behind by a failure, is where
\* this one's goes or waits: the rollback cannot take this one's out of the way of it
\* (restore_if_present).
IsObstructed(t) ==
  \/ disk.pending[Pending(t)] \notin {Absent, JobOf(t)}
  \/ To(t) # From(t) /\ disk.audio[To(t)] \notin {Absent, JobOf(t)}

\* A startup in which nothing fails leaves no deletion, no replacement and no upload
\* half done; the exceptions are a replacement of a Track that was deleted before its
\* old file was removed, and one with an upload of another in its way.
StartupSettles ==
  (IsUp /\ server.before = faults) =>
    /\ \A t \in Tracks :
         /\ deletions[t] = NoDeletion
         /\ IsOpen(t) => IF journals[t].phase = "database_committed" THEN rows[t].state = "gone"
                         ELSE IsObstructed(t)
    /\ (\A t \in Tracks : ~IsOpen(t)) =>
         \A j \in Jobs : jobs[j] # "awaiting" /\ ~staged[j]

\* All of it, in every state and every step.
TracksKeepTheirFiles ==
  /\ [](TypeOK /\ VisibleTrackKeepsItsFile /\ OldFilesAreRemoved /\ HiddenIsBeingDeleted
        /\ ReplacedOnce /\ StartupSettles)
  /\ [][CoversStayWhole]_vars
=============================================================================
