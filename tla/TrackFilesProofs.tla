-------------------------- MODULE TrackFilesProofs --------------------------
(***************************************************************************)
(* What is proved of the files of Managed Tracks, for every set of Tracks, *)
(* jobs, names and Albums and any number of crashes and failures: a Track  *)
(* that is shown has its file, nothing that a row gave up is left behind,  *)
(* a hidden Track is being deleted, a replacement is applied once, a       *)
(* startup settles what was cut short, and the artwork of a shown Album    *)
(* stays whole, both with the exceptions that the properties name.         *)
(*                                                                         *)
(* The inductive invariant IInv says where the files of a Track are in     *)
(* every phase of its journal (PendingOK, CommittedOK) and at every step   *)
(* of the operation in progress (OpOK), that the upload of a job that      *)
(* waits is in one place (UploadsOK), and what a startup has left to do    *)
(* (ServerOK).  What it says of a Track (TrackOK) takes the Track's row    *)
(* and journal and the files as arguments: a lemma about a step is one     *)
(* about values, and a step of one Track keeps what holds of another       *)
(* because it keeps the other's paths and jobs (OthersStay).  On top of it *)
(* CoverOK says what a replacement about to commit finds of the artwork,   *)
(* and SettledOK what a startup in which nothing has failed has settled.   *)
(***************************************************************************)
EXTENDS TrackFiles, FiniteSetTheorems, FunctionTheorems, TLAPS

Audio == Tracks \cup Jobs
Phases == {"prepared", "placed", "verified", "swapped", "database_committed"}

\* The steps of a replacement before the old file is retired, those with the upload
\* at the pending path, those after the retiring, of a rollback, of a completion
\* and of a deletion.
Placing == {"place", "artwork", "mark_artwork", "write_artwork", "remove_artwork", "unplace",
            "give_up", "placed", "verify", "retire"}
Placed == {"artwork", "mark_artwork", "write_artwork", "remove_artwork", "unplace", "placed",
           "verify", "retire", "swap"}
Swapping == {"swap", "unswap", "swapped", "stream", "commit"}
Undoing == {"undo_swap", "undo_retire", "undo_place", "undo_artwork", "undone"}
Completing == {"unretire", "uncover", "finalize"}
Deleting == {"d_audio", "d_cover", "d_cancel", "d_finalize"}
Steps == {"journal", "d_prepare"} \cup Placing \cup Swapping \cup Undoing \cup Completing \cup Deleting

Rows == [state : {"here", "hidden", "gone"}, album : 1..MaxIds, version : Audio, replaced : Nat]
Journals == [phase : Phases, job : Jobs, from : Paths, to : Paths,
             mode : {"existing", "create", "none"}, isCoverCreated : BOOLEAN, old : Audio,
             oldCover : 0..MaxIds]
Disks == [audio : [Paths -> Audio \cup {Absent}], pending : [SidePaths -> Audio \cup {Absent}],
          retired : [SidePaths -> Audio \cup {Absent}]]
JobStates == {"awaiting", "committed", "gone"}
Servers == [state : {"up", "down", "deletions", "replacements", "cleanup", "cancel"},
            todo : SUBSET Tracks, isFailed : BOOLEAN, before : Int]
Ops == [on : {"request", "startup"}, kind : {"confirm", "reconfirm", "delete", "recover"},
        of : Tracks, isBroken : BOOLEAN, pc : Steps]

\* The types, with the domains of the functions.
DataTyped ==
  /\ rows \in [Tracks -> Rows] /\ ids \in [Albums -> 0..MaxIds] /\ made \in Nat
  /\ artwork \subseteq 1..MaxIds /\ covers \in [1..MaxIds -> {"whole", "empty", Absent}]
  /\ jobs \in [Jobs -> JobStates]
  /\ journals \in [Tracks -> Journals \cup {NoJournal}]
  /\ deletions \in [Tracks -> [cover : Int]]
  /\ staged \in [Jobs -> BOOLEAN] /\ disk \in Disks

Typed == DataTyped /\ server \in Servers /\ op \in Ops \cup {NoOp}

-----------------------------------------------------------------------------
(* What holds of a Track t with row r, journal jr and deletion dl, where   *)
(* jb are the jobs, st says what is staged, and d is the disk              *)

FilesOf(t) == {t} \cup {j \in Jobs : Replaces[j] = t}
PathsOf(t) == {p \in Paths : p[1] = t}
SidesOf(t) == {p \in SidePaths : p[1] = t}

RowPathOf(t, r) == PathOf(t, r.album, r.version)
PendingOf(t, jr) == <<t, jr.to[2], ExtOf[jr.job]>>
RetiredOf(t, jr) == <<t, jr.from[2], ExtOf[jr.old]>>

IsPending(jr) == jr # NoJournal /\ jr.phase # "database_committed"
IsCommitted(jr) == jr # NoJournal /\ jr.phase = "database_committed"

\* Its paths hold its own files.
OwnOK(t, r, d) ==
  /\ r.version \in FilesOf(t)
  /\ \A p \in PathsOf(t) : d.audio[p] \in FilesOf(t) \cup {Absent}
  /\ \A p \in SidesOf(t) : d.pending[p] \in FilesOf(t) \cup {Absent}

\* Its row and its file.
RowOK(t, r, jr, dl, jb, d) ==
  /\ ~IsCommitted(jr) /\ r.version \in Jobs => jb[r.version] # "awaiting"
  /\ r.state = "gone" => d.audio[RowPathOf(t, r)] = Absent
  /\ jr = NoJournal /\ r.state = "here" => d.audio[RowPathOf(t, r)] = r.version
  /\ (r.state = "hidden") <=> (dl # NoDeletion)

\* What is at a path that its row does not name.
StrayOK(t, r, jr, jb, d) ==
  /\ \A p \in PathsOf(t) : d.audio[p] # Absent /\ p # RowPathOf(t, r) =>
       d.audio[p] \in Jobs /\ jb[d.audio[p]] # "committed"
  /\ \A p \in SidesOf(t) : d.retired[p] # Absent => jr # NoJournal /\ p = RetiredOf(t, jr)

\* The upload of a job that waits is in one place.
UploadOK(t, j, st, d) ==
  /\ st[j] => /\ \A p \in PathsOf(t) : d.audio[p] # j
              /\ \A p \in SidesOf(t) : d.pending[p] # j
  /\ \A p \in SidesOf(t) : d.pending[p] = j =>
       /\ \A q \in PathsOf(t) : d.audio[q] # j
       /\ \A q \in SidesOf(t) : d.pending[q] = j => p = q
  /\ \A p, q \in PathsOf(t) : d.audio[p] = j /\ d.audio[q] = j => p = q

UploadsOK(t, jb, st, d) ==
  \A j \in Jobs : Replaces[j] = t /\ jb[j] = "awaiting" => UploadOK(t, j, st, d)

\* What an open journal says of its files: before the transaction, and after it.
OpenOK(t, jr, jb, d) ==
  /\ Replaces[jr.job] = t /\ jb[jr.job] = "awaiting"
  /\ jr.from \in PathsOf(t) /\ jr.to \in PathsOf(t) /\ jr.to = PathOf(t, jr.to[2], jr.job)
  /\ jr.old \in FilesOf(t) /\ (jr.old \in Jobs => jb[jr.old] # "awaiting")
  /\ d.retired[RetiredOf(t, jr)] \in {Absent, jr.old}

PendingOK(t, r, jr, st, d) ==
  LET kept == d.retired[RetiredOf(t, jr)] IN
  /\ r.version = jr.old /\ jr.from = RowPathOf(t, r)
  /\ kept # Absent => /\ r.state = "here" /\ jr.phase \in {"verified", "swapped"}
                      /\ d.audio[jr.from] \in {Absent, jr.job}
  /\ kept = Absent /\ r.state = "here" => d.audio[jr.from] = jr.old
  /\ ~st[jr.job] => \/ d.pending[PendingOf(t, jr)] = jr.job
                    \/ d.pending[PendingOf(t, jr)] = Absent /\ d.audio[jr.to] = jr.job

CommittedOK(t, r, jr, d) ==
  /\ r.version = jr.job /\ jr.to = RowPathOf(t, r)
  /\ \A p \in PathsOf(t) : d.audio[p] = jr.job => p = jr.to
  /\ r.state = "here" => d.audio[jr.to] = jr.job

JournalOK(t, r, jr, jb, st, d) ==
  /\ jr # NoJournal => OpenOK(t, jr, jb, d)
  /\ IsPending(jr) => PendingOK(t, r, jr, st, d)
  /\ IsCommitted(jr) => CommittedOK(t, r, jr, d)

\* A replacement is counted once.
CountOK(t, r, jr, jb) ==
  r.state # "gone" =>
    r.replaced = Cardinality({j \in Jobs : Replaces[j] = t /\ jb[j] = "committed"})
                 + (IF IsCommitted(jr) THEN 1 ELSE 0)

TrackOK(t, r, jr, dl, jb, st, d) ==
  /\ OwnOK(t, r, d) /\ RowOK(t, r, jr, dl, jb, d) /\ StrayOK(t, r, jr, jb, d)
  /\ UploadsOK(t, jb, st, d) /\ JournalOK(t, r, jr, jb, st, d) /\ CountOK(t, r, jr, jb)

\* What the step the operation is at says of its Track.
ReplacingOK(t, pc, r, jr, st, d) ==
  LET kept == d.retired[RetiredOf(t, jr)] IN
  /\ IsPending(jr) /\ r.state = "here"
  /\ pc \in Placing => kept = Absent
  /\ pc = "retire" => jr.phase = "verified"
  /\ pc = "place" => st[jr.job]
  /\ pc \in Placed => d.pending[PendingOf(t, jr)] = jr.job
  /\ pc \in Swapping => /\ kept = jr.old
                        /\ jr.from # jr.to \/ pc \in {"swap", "unswap"} => d.audio[jr.from] = Absent
  /\ pc = "commit" => d.audio[jr.to] = jr.job

UndoingOK(t, pc, isBroken, jr, d) ==
  /\ IsPending(jr)
  /\ pc \in {"undo_place", "undo_artwork", "undone"} /\ ~isBroken =>
       d.retired[RetiredOf(t, jr)] = Absent

CompletingOK(t, pc, jr, d) ==
  /\ IsCommitted(jr)
  /\ pc \in {"uncover", "finalize"} => d.retired[RetiredOf(t, jr)] = Absent

DeletingOK(t, pc, on, r, d) ==
  /\ r.state = "hidden"
  /\ pc = "d_cancel" \/ (pc = "d_audio" /\ on = "request") => d.audio[RowPathOf(t, r)] = r.version
  /\ pc \in {"d_cover", "d_finalize"} => d.audio[RowPathOf(t, r)] = Absent

OpOK(o, t, r, jr, st, d) ==
  /\ o.pc \in Placing \cup Swapping => ReplacingOK(t, o.pc, r, jr, st, d)
  /\ o.pc \in Undoing => UndoingOK(t, o.pc, o.isBroken, jr, d)
  /\ o.pc \in Completing => CompletingOK(t, o.pc, jr, d)
  /\ o.pc \in Deleting => DeletingOK(t, o.pc, o.on, r, d)
  /\ o.pc \in Deleting \cup {"d_prepare"} => o.kind = "delete"

-----------------------------------------------------------------------------
(* The invariant *)

TracksOK == \A t \in Tracks : TrackOK(t, rows[t], journals[t], deletions[t], jobs, staged, disk)

AtWorkOK == op # NoOp => OpOK(op, op.of, rows[op.of], journals[op.of], staged, disk)

\* What the startup has left to do, and who may be at work when.
ServerOK ==
  /\ op # NoOp => \/ op.on = "request" /\ server.state = "up"
                  \/ /\ op.on = "startup" /\ server.state \in {"deletions", "replacements"}
                     /\ op.of \notin server.todo
                     /\ op.kind = (IF server.state = "deletions" THEN "delete" ELSE "recover")
  /\ server.state \notin {"deletions", "replacements"} => server.todo = {}
  /\ server.state = "deletions" => \A t \in server.todo : rows[t].state = "hidden"
  /\ server.state = "replacements" => \A t \in server.todo : journals[t] # NoJournal
  /\ server.state = "replacements" /\ ~server.isFailed =>
       \A t \in Tracks : IsPending(journals[t]) => t \in server.todo \/ (op # NoOp /\ op.of = t)
  /\ server.state = "cleanup" => \A t \in Tracks : ~IsPending(journals[t])

IInv == ConstantsOK /\ Typed /\ TracksOK /\ AtWorkOK /\ ServerOK

-----------------------------------------------------------------------------
(* Paths *)

LEMMA RowPathIn ==
  ASSUME ConstantsOK, NEW t \in Tracks, NEW r \in Rows
  PROVE  RowPathOf(t, r) \in PathsOf(t) /\ RowPathOf(t, r) \in Paths
BY DEF ConstantsOK, RowPathOf, PathOf, PathsOf, Paths, Rows, Audio

LEMMA SidePathsIn ==
  ASSUME ConstantsOK, NEW t \in Tracks, NEW jr \in Journals
  PROVE  /\ PendingOf(t, jr) \in SidesOf(t) /\ RetiredOf(t, jr) \in SidesOf(t)
         /\ PendingOf(t, jr) \in SidePaths /\ RetiredOf(t, jr) \in SidePaths
<1>1. jr.to[2] \in 1..MaxIds /\ jr.from[2] \in 1..MaxIds
  BY DEF Journals, Paths
<1>2. ExtOf[jr.job] \in Exts /\ ExtOf[jr.old] \in Exts
  BY DEF ConstantsOK, Journals, Audio
<1> QED BY <1>1, <1>2 DEF PendingOf, RetiredOf, SidesOf, SidePaths

LEMMA PathsApart ==
  ASSUME NEW t, NEW u, t # u
  PROVE  /\ \A p \in PathsOf(t) : p \notin PathsOf(u) /\ p \in Paths
         /\ \A p \in SidesOf(t) : p \notin SidesOf(u) /\ p \in SidePaths
BY DEF PathsOf, SidesOf

LEMMA OwnPaths ==
  ASSUME NEW t
  PROVE  PathsOf(t) \subseteq Paths /\ SidesOf(t) \subseteq SidePaths
BY DEF PathsOf, SidesOf

-----------------------------------------------------------------------------
(* A Track whose paths and jobs are as they were is as it was *)

\* The jobs of Track t are as they were, or they no longer count: such a job is in
\* no open journal.
JobsStay(t, jr, jb, st, jb2, st2) ==
  /\ \A j \in Jobs : Replaces[j] = t =>
       /\ jb2[j] = jb[j] \/ (jb2[j] = "gone" /\ jb[j] # "committed")
       /\ jr # NoJournal /\ jr.job = j => jb2[j] = jb[j]
       /\ st2[j] => st[j]
  /\ IsPending(jr) => st2[jr.job] = st[jr.job]

FilesStay(t, d, d2) ==
  /\ \A p \in PathsOf(t) : d2.audio[p] = d.audio[p]
  /\ \A p \in SidesOf(t) : d2.pending[p] = d.pending[p] /\ d2.retired[p] = d.retired[p]

LEMMA TrackStays ==
  ASSUME ConstantsOK, NEW t \in Tracks, NEW r \in Rows, NEW jr \in Journals \cup {NoJournal}, NEW dl,
         NEW jb, NEW st, NEW d, NEW jb2, NEW st2, NEW d2,
         TrackOK(t, r, jr, dl, jb, st, d), JobsStay(t, jr, jb, st, jb2, st2), FilesStay(t, d, d2)
  PROVE  TrackOK(t, r, jr, dl, jb2, st2, d2)
<1>0. RowPathOf(t, r) \in PathsOf(t)
  BY RowPathIn
<1>1. ASSUME jr # NoJournal
      PROVE  PendingOf(t, jr) \in SidesOf(t) /\ RetiredOf(t, jr) \in SidesOf(t)
  BY <1>1, SidePathsIn
<1>2. ASSUME NEW x \in FilesOf(t), x \in Jobs
      PROVE  jb2[x] = jb[x] \/ (jb2[x] = "gone" /\ jb[x] # "committed")
  <2>1. Replaces[x] = t
    BY <1>2 DEF FilesOf, ConstantsOK
  <2> QED BY <1>2, <2>1 DEF JobsStay
<1>3. OwnOK(t, r, d2)
  BY DEF TrackOK, OwnOK, FilesStay
<1>4. RowOK(t, r, jr, dl, jb2, d2)
  BY <1>0, <1>2 DEF TrackOK, RowOK, OwnOK, FilesStay
<1>5. StrayOK(t, r, jr, jb2, d2)
  BY <1>2 DEF TrackOK, StrayOK, OwnOK, FilesStay
<1>6. UploadsOK(t, jb2, st2, d2)
  <2> SUFFICES ASSUME NEW j \in Jobs, Replaces[j] = t, jb2[j] = "awaiting"
               PROVE  UploadOK(t, j, st2, d2)
    BY DEF UploadsOK
  <2>1. UploadOK(t, j, st, d) /\ (st2[j] => st[j])
    BY DEF TrackOK, UploadsOK, JobsStay
  <2> QED BY <2>1 DEF UploadOK, FilesStay
<1>7. ASSUME jr # NoJournal
      PROVE  OpenOK(t, jr, jb2, d2)
  <2>1. OpenOK(t, jr, jb, d) /\ jr \in Journals
    BY <1>7 DEF TrackOK, JournalOK
  <2>2. jb2[jr.job] = jb[jr.job]
    BY <1>7, <2>1 DEF OpenOK, JobsStay, Journals
  <2>3. jr.old \in Jobs => jb2[jr.old] # "awaiting"
    BY <1>2, <2>1 DEF OpenOK
  <2> QED BY <1>1, <1>7, <2>1, <2>2, <2>3 DEF OpenOK, FilesStay
<1>8. ASSUME IsPending(jr)
      PROVE  PendingOK(t, r, jr, st2, d2)
  <2>1. PendingOK(t, r, jr, st, d) /\ OpenOK(t, jr, jb, d) /\ jr # NoJournal /\ st2[jr.job] = st[jr.job]
    BY <1>8 DEF TrackOK, JournalOK, IsPending, JobsStay
  <2> QED BY <1>1, <2>1 DEF PendingOK, OpenOK, FilesStay
<1>9. ASSUME IsCommitted(jr)
      PROVE  CommittedOK(t, r, jr, d2)
  <2>1. CommittedOK(t, r, jr, d) /\ OpenOK(t, jr, jb, d)
    BY <1>9 DEF TrackOK, JournalOK, IsCommitted
  <2> QED BY <2>1 DEF CommittedOK, OpenOK, FilesStay
<1>10. CountOK(t, r, jr, jb2)
  <2>1. {j \in Jobs : Replaces[j] = t /\ jb2[j] = "committed"}
          = {j \in Jobs : Replaces[j] = t /\ jb[j] = "committed"}
    BY DEF JobsStay
  <2> QED BY <2>1 DEF TrackOK, CountOK
<1> QED BY <1>3, <1>4, <1>5, <1>6, <1>7, <1>8, <1>9, <1>10 DEF TrackOK, JournalOK
-----------------------------------------------------------------------------
(* What is known of an open journal's Track *)

LEMMA OpenFacts ==
  ASSUME ConstantsOK, NEW t \in Tracks, NEW r \in Rows, NEW jr \in Journals, NEW dl,
         NEW jb \in [Jobs -> JobStates], NEW st \in [Jobs -> BOOLEAN], NEW d \in Disks,
         TrackOK(t, r, jr, dl, jb, st, d)
  PROVE  /\ jr # NoJournal /\ jr.job \in Jobs /\ jr.job \in FilesOf(t) /\ jr.job # Absent
         /\ jr.old \in FilesOf(t) /\ jr.old # Absent /\ jr.job # jr.old
         /\ jr.job \in Audio /\ jr.old \in Audio
         /\ Replaces[jr.job] = t /\ jb[jr.job] = "awaiting" /\ UploadOK(t, jr.job, st, d)
         /\ jr.from \in PathsOf(t) /\ jr.to \in PathsOf(t) /\ jr.from \in Paths /\ jr.to \in Paths
         /\ RowPathOf(t, r) \in PathsOf(t) /\ RowPathOf(t, r) \in Paths
         /\ PendingOf(t, jr) \in SidesOf(t) /\ PendingOf(t, jr) \in SidePaths
         /\ RetiredOf(t, jr) \in SidesOf(t) /\ RetiredOf(t, jr) \in SidePaths
<1>1. jr # NoJournal /\ jr.job \in Jobs /\ jr.old \in Audio
  <2>1. NoJournal.phase = "closed" /\ jr.phase # "closed"
    BY DEF NoJournal, Journals, Phases
  <2> QED BY <2>1 DEF Journals
<1>2. OpenOK(t, jr, jb, d)
  BY <1>1 DEF TrackOK, JournalOK
<1>3. jr.job \in FilesOf(t) /\ jr.job # Absent /\ jr.old # Absent /\ jr.job \in Audio
  BY <1>1, <1>2 DEF OpenOK, FilesOf, ConstantsOK, Audio
<1>4. jr.job # jr.old
  BY <1>1, <1>2 DEF OpenOK
<1>5. UploadOK(t, jr.job, st, d)
  BY <1>1, <1>2 DEF OpenOK, TrackOK, UploadsOK
<1> QED BY <1>1, <1>2, <1>3, <1>4, <1>5, RowPathIn, SidePathsIn, OwnPaths DEF OpenOK

LEMMA PendingFacts ==
  ASSUME ConstantsOK, NEW t \in Tracks, NEW r \in Rows, NEW jr \in Journals, NEW dl,
         NEW jb \in [Jobs -> JobStates], NEW st \in [Jobs -> BOOLEAN], NEW d \in Disks,
         TrackOK(t, r, jr, dl, jb, st, d),
         IsPending(jr)
  PROVE  /\ r.version = jr.old /\ jr.from = RowPathOf(t, r) /\ ~IsCommitted(jr)
         /\ PendingOK(t, r, jr, st, d) /\ OpenOK(t, jr, jb, d)
BY OpenFacts DEF TrackOK, JournalOK, PendingOK, IsPending, IsCommitted

-----------------------------------------------------------------------------
(* The moves of a replacement's files *)

\* The upload goes to its pending path (place_replacement).
LEMMA PlaceMove ==
  ASSUME ConstantsOK, NEW t \in Tracks, NEW r \in Rows, NEW jr \in Journals, NEW dl,
         NEW jb \in [Jobs -> JobStates], NEW st \in [Jobs -> BOOLEAN], NEW d \in Disks,
         TrackOK(t, r, jr, dl, jb, st, d),
         IsPending(jr), st[jr.job],
         NEW e \in Disks, e.audio = d.audio,
         e.pending = [d.pending EXCEPT ![PendingOf(t, jr)] = jr.job],
         e.retired = d.retired
  PROVE  TrackOK(t, r, jr, dl, jb, [st EXCEPT ![jr.job] = FALSE], e)
<1>0. /\ d.audio \in [Paths -> Audio \cup {Absent}] /\ d.pending \in [SidePaths -> Audio \cup {Absent}]
      /\ d.retired \in [SidePaths -> Audio \cup {Absent}] /\ PathsOf(t) \subseteq Paths
      /\ SidesOf(t) \subseteq SidePaths
  BY OwnPaths DEF Disks
<1>1. IsPending(jr) /\ ~IsCommitted(jr) /\ r.version = jr.old /\ jr.from = RowPathOf(t, r)
      /\ PendingOK(t, r, jr, st, d) /\ OpenOK(t, jr, jb, d)
      /\ d.retired[RetiredOf(t, jr)] \in {Absent, jr.old}
  BY PendingFacts DEF OpenOK
<1>2. OwnOK(t, r, e)
  BY <1>0, <1>1, OpenFacts DEF TrackOK, OwnOK
<1>3. RowOK(t, r, jr, dl, jb, e)
  BY <1>0, <1>1, OpenFacts DEF TrackOK, RowOK, PendingOK
<1>4. StrayOK(t, r, jr, jb, e)
  BY <1>0, <1>1, OpenFacts DEF TrackOK, StrayOK
<1>5. UploadsOK(t, jb, [st EXCEPT ![jr.job] = FALSE], e)
  <2> SUFFICES ASSUME NEW j \in Jobs, Replaces[j] = t, jb[j] = "awaiting"
               PROVE  UploadOK(t, j, [st EXCEPT ![jr.job] = FALSE], e)
    BY DEF UploadsOK
  <2>1. UploadOK(t, j, st, d)
    BY DEF TrackOK, UploadsOK
  <2>2. jr.old \in Jobs => j # jr.old
    BY <1>1 DEF OpenOK
  <2>3. j # Absent
    BY DEF ConstantsOK
  <2> QED BY <1>0, <1>1, <2>1, <2>2, <2>3, OpenFacts DEF UploadOK
<1>6. OpenOK(t, jr, jb, e)
  BY <1>0, <1>1, OpenFacts DEF OpenOK
<1>7. PendingOK(t, r, jr, [st EXCEPT ![jr.job] = FALSE], e)
  BY <1>0, <1>1, OpenFacts DEF PendingOK, OpenOK
<1>8. CountOK(t, r, jr, jb)
  BY DEF TrackOK
<1> QED BY <1>1, <1>2, <1>3, <1>4, <1>5, <1>6, <1>7, <1>8 DEF TrackOK, JournalOK

\* It goes back (place_replacement, rollback_replacement).
LEMMA UnplaceMove ==
  ASSUME ConstantsOK, NEW t \in Tracks, NEW r \in Rows, NEW jr \in Journals, NEW dl,
         NEW jb \in [Jobs -> JobStates], NEW st \in [Jobs -> BOOLEAN], NEW d \in Disks,
         TrackOK(t, r, jr, dl, jb, st, d),
         IsPending(jr), d.pending[PendingOf(t, jr)] = jr.job,
         NEW e \in Disks, e.audio = d.audio,
         e.pending = [d.pending EXCEPT ![PendingOf(t, jr)] = Absent],
         e.retired = d.retired
  PROVE  TrackOK(t, r, jr, dl, jb, [st EXCEPT ![jr.job] = TRUE], e)
<1>0. /\ d.audio \in [Paths -> Audio \cup {Absent}] /\ d.pending \in [SidePaths -> Audio \cup {Absent}]
      /\ d.retired \in [SidePaths -> Audio \cup {Absent}] /\ PathsOf(t) \subseteq Paths
      /\ SidesOf(t) \subseteq SidePaths
  BY OwnPaths DEF Disks
<1>1. IsPending(jr) /\ ~IsCommitted(jr) /\ r.version = jr.old /\ jr.from = RowPathOf(t, r)
      /\ PendingOK(t, r, jr, st, d) /\ OpenOK(t, jr, jb, d)
      /\ d.retired[RetiredOf(t, jr)] \in {Absent, jr.old}
  BY PendingFacts DEF OpenOK
<1>2. OwnOK(t, r, e)
  BY <1>0, <1>1, OpenFacts DEF TrackOK, OwnOK
<1>3. RowOK(t, r, jr, dl, jb, e)
  BY <1>0, <1>1, OpenFacts DEF TrackOK, RowOK, PendingOK
<1>4. StrayOK(t, r, jr, jb, e)
  BY <1>0, <1>1, OpenFacts DEF TrackOK, StrayOK
<1>5. UploadsOK(t, jb, [st EXCEPT ![jr.job] = TRUE], e)
  <2> SUFFICES ASSUME NEW j \in Jobs, Replaces[j] = t, jb[j] = "awaiting"
               PROVE  UploadOK(t, j, [st EXCEPT ![jr.job] = TRUE], e)
    BY DEF UploadsOK
  <2>1. UploadOK(t, j, st, d)
    BY DEF TrackOK, UploadsOK
  <2>2. jr.old \in Jobs => j # jr.old
    BY <1>1 DEF OpenOK
  <2>3. j # Absent
    BY DEF ConstantsOK
  <2>4. \A p \in PathsOf(t) : e.audio[p] = d.audio[p]
    OBVIOUS
  <2>5. \A p \in SidesOf(t) : e.pending[p] = j => d.pending[p] = j /\ p # PendingOf(t, jr)
    BY <1>0, <2>3, OpenFacts
  <2>6. ASSUME j = jr.job
        PROVE  /\ \A p \in PathsOf(t) : d.audio[p] # j
               /\ \A p \in SidesOf(t) : e.pending[p] # j
    <3>1. d.pending[PendingOf(t, jr)] = j /\ PendingOf(t, jr) \in SidesOf(t)
      BY <2>6, OpenFacts
    <3> QED BY <2>1, <2>5, <3>1 DEF UploadOK
  <2>7. j # jr.job => [st EXCEPT ![jr.job] = TRUE][j] = st[j]
    OBVIOUS
  <2>8. CASE j = jr.job
    BY <2>1, <2>4, <2>6, <2>8 DEF UploadOK
  <2>9. CASE j # jr.job
    BY <2>1, <2>4, <2>5, <2>7, <2>9 DEF UploadOK
  <2> QED BY <2>8, <2>9
<1>6. OpenOK(t, jr, jb, e)
  BY <1>0, <1>1, OpenFacts DEF OpenOK
<1>7. PendingOK(t, r, jr, [st EXCEPT ![jr.job] = TRUE], e)
  BY <1>0, <1>1, OpenFacts DEF PendingOK, OpenOK
<1>8. CountOK(t, r, jr, jb)
  BY DEF TrackOK
<1> QED BY <1>1, <1>2, <1>3, <1>4, <1>5, <1>6, <1>7, <1>8 DEF TrackOK, JournalOK

\* The old file is retired (swap_replacement).
LEMMA RetireMove ==
  ASSUME ConstantsOK, NEW t \in Tracks, NEW r \in Rows, NEW jr \in Journals, NEW dl,
         NEW jb \in [Jobs -> JobStates], NEW st \in [Jobs -> BOOLEAN], NEW d \in Disks,
         TrackOK(t, r, jr, dl, jb, st, d),
         IsPending(jr), r.state = "here", jr.phase = "verified",
         d.retired[RetiredOf(t, jr)] = Absent,
         NEW e \in Disks, e.audio = [d.audio EXCEPT ![jr.from] = Absent],
         e.pending = d.pending,
         e.retired = [d.retired EXCEPT ![RetiredOf(t, jr)] = jr.old]
  PROVE  TrackOK(t, r, jr, dl, jb, st, e)
<1>0. /\ d.audio \in [Paths -> Audio \cup {Absent}] /\ d.pending \in [SidePaths -> Audio \cup {Absent}]
      /\ d.retired \in [SidePaths -> Audio \cup {Absent}] /\ PathsOf(t) \subseteq Paths
      /\ SidesOf(t) \subseteq SidePaths
  BY OwnPaths DEF Disks
<1>1. IsPending(jr) /\ ~IsCommitted(jr) /\ r.version = jr.old /\ jr.from = RowPathOf(t, r)
      /\ PendingOK(t, r, jr, st, d) /\ OpenOK(t, jr, jb, d)
      /\ d.retired[RetiredOf(t, jr)] \in {Absent, jr.old}
  BY PendingFacts DEF OpenOK
<1>2. OwnOK(t, r, e)
  BY <1>0, <1>1, OpenFacts DEF TrackOK, OwnOK
<1>3. RowOK(t, r, jr, dl, jb, e)
  BY <1>0, <1>1, OpenFacts DEF TrackOK, RowOK, PendingOK
<1>4. StrayOK(t, r, jr, jb, e)
  BY <1>0, <1>1, OpenFacts DEF TrackOK, StrayOK
<1>5. UploadsOK(t, jb, st, e)
  <2> SUFFICES ASSUME NEW j \in Jobs, Replaces[j] = t, jb[j] = "awaiting"
               PROVE  UploadOK(t, j, st, e)
    BY DEF UploadsOK
  <2>1. UploadOK(t, j, st, d)
    BY DEF TrackOK, UploadsOK
  <2>2. jr.old \in Jobs => j # jr.old
    BY <1>1 DEF OpenOK
  <2>3. j # Absent
    BY DEF ConstantsOK
  <2> QED BY <1>0, <1>1, <2>1, <2>2, <2>3, OpenFacts DEF UploadOK
<1>6. OpenOK(t, jr, jb, e)
  BY <1>0, <1>1, OpenFacts DEF OpenOK
<1>7. PendingOK(t, r, jr, st, e)
  BY <1>0, <1>1, OpenFacts DEF PendingOK, OpenOK
<1>8. CountOK(t, r, jr, jb)
  BY DEF TrackOK
<1> QED BY <1>1, <1>2, <1>3, <1>4, <1>5, <1>6, <1>7, <1>8 DEF TrackOK, JournalOK

\* The upload takes its place (swap_replacement).
LEMMA SwapMove ==
  ASSUME ConstantsOK, NEW t \in Tracks, NEW r \in Rows, NEW jr \in Journals, NEW dl,
         NEW jb \in [Jobs -> JobStates], NEW st \in [Jobs -> BOOLEAN], NEW d \in Disks,
         TrackOK(t, r, jr, dl, jb, st, d),
         IsPending(jr), d.pending[PendingOf(t, jr)] = jr.job, d.retired[RetiredOf(t, jr)] = jr.old,
         NEW e \in Disks, e.audio = [d.audio EXCEPT ![jr.to] = jr.job],
         e.pending = [d.pending EXCEPT ![PendingOf(t, jr)] = Absent],
         e.retired = d.retired
  PROVE  TrackOK(t, r, jr, dl, jb, st, e)
<1>0. /\ d.audio \in [Paths -> Audio \cup {Absent}] /\ d.pending \in [SidePaths -> Audio \cup {Absent}]
      /\ d.retired \in [SidePaths -> Audio \cup {Absent}] /\ PathsOf(t) \subseteq Paths
      /\ SidesOf(t) \subseteq SidePaths
  BY OwnPaths DEF Disks
<1>1. IsPending(jr) /\ ~IsCommitted(jr) /\ r.version = jr.old /\ jr.from = RowPathOf(t, r)
      /\ PendingOK(t, r, jr, st, d) /\ OpenOK(t, jr, jb, d)
      /\ d.retired[RetiredOf(t, jr)] \in {Absent, jr.old}
  BY PendingFacts DEF OpenOK
<1>2. OwnOK(t, r, e)
  BY <1>0, <1>1, OpenFacts DEF TrackOK, OwnOK
<1>3. RowOK(t, r, jr, dl, jb, e)
  BY <1>0, <1>1, OpenFacts DEF TrackOK, RowOK, PendingOK
<1>4. StrayOK(t, r, jr, jb, e)
  BY <1>0, <1>1, OpenFacts DEF TrackOK, StrayOK
<1>5. UploadsOK(t, jb, st, e)
  <2> SUFFICES ASSUME NEW j \in Jobs, Replaces[j] = t, jb[j] = "awaiting"
               PROVE  UploadOK(t, j, st, e)
    BY DEF UploadsOK
  <2>1. UploadOK(t, j, st, d)
    BY DEF TrackOK, UploadsOK
  <2>2. jr.old \in Jobs => j # jr.old
    BY <1>1 DEF OpenOK
  <2>3. j # Absent
    BY DEF ConstantsOK
  <2> QED BY <1>0, <1>1, <2>1, <2>2, <2>3, OpenFacts DEF UploadOK
<1>6. OpenOK(t, jr, jb, e)
  BY <1>0, <1>1, OpenFacts DEF OpenOK
<1>7. PendingOK(t, r, jr, st, e)
  BY <1>0, <1>1, OpenFacts DEF PendingOK, OpenOK
<1>8. CountOK(t, r, jr, jb)
  BY DEF TrackOK
<1> QED BY <1>1, <1>2, <1>3, <1>4, <1>5, <1>6, <1>7, <1>8 DEF TrackOK, JournalOK

\* The old file comes back (swap_replacement, undo_retired_swap).
LEMMA RestoreMove ==
  ASSUME ConstantsOK, NEW t \in Tracks, NEW r \in Rows, NEW jr \in Journals, NEW dl,
         NEW jb \in [Jobs -> JobStates], NEW st \in [Jobs -> BOOLEAN], NEW d \in Disks,
         TrackOK(t, r, jr, dl, jb, st, d),
         IsPending(jr), d.retired[RetiredOf(t, jr)] # Absent, d.audio[jr.from] = Absent,
         NEW e \in Disks, e.audio = [d.audio EXCEPT ![jr.from] = d.retired[RetiredOf(t, jr)]],
         e.pending = d.pending,
         e.retired = [d.retired EXCEPT ![RetiredOf(t, jr)] = Absent]
  PROVE  TrackOK(t, r, jr, dl, jb, st, e)
<1>0. /\ d.audio \in [Paths -> Audio \cup {Absent}] /\ d.pending \in [SidePaths -> Audio \cup {Absent}]
      /\ d.retired \in [SidePaths -> Audio \cup {Absent}] /\ PathsOf(t) \subseteq Paths
      /\ SidesOf(t) \subseteq SidePaths
  BY OwnPaths DEF Disks
<1>1. IsPending(jr) /\ ~IsCommitted(jr) /\ r.version = jr.old /\ jr.from = RowPathOf(t, r)
      /\ PendingOK(t, r, jr, st, d) /\ OpenOK(t, jr, jb, d)
      /\ d.retired[RetiredOf(t, jr)] \in {Absent, jr.old}
  BY PendingFacts DEF OpenOK
<1>2. OwnOK(t, r, e)
  BY <1>0, <1>1, OpenFacts DEF TrackOK, OwnOK
<1>3. RowOK(t, r, jr, dl, jb, e)
  BY <1>0, <1>1, OpenFacts DEF TrackOK, RowOK, PendingOK
<1>4. StrayOK(t, r, jr, jb, e)
  BY <1>0, <1>1, OpenFacts DEF TrackOK, StrayOK
<1>5. UploadsOK(t, jb, st, e)
  <2> SUFFICES ASSUME NEW j \in Jobs, Replaces[j] = t, jb[j] = "awaiting"
               PROVE  UploadOK(t, j, st, e)
    BY DEF UploadsOK
  <2>1. UploadOK(t, j, st, d)
    BY DEF TrackOK, UploadsOK
  <2>2. jr.old \in Jobs => j # jr.old
    BY <1>1 DEF OpenOK
  <2>3. j # Absent
    BY DEF ConstantsOK
  <2> QED BY <1>0, <1>1, <2>1, <2>2, <2>3, OpenFacts DEF UploadOK
<1>6. OpenOK(t, jr, jb, e)
  BY <1>0, <1>1, OpenFacts DEF OpenOK
<1>7. PendingOK(t, r, jr, st, e)
  BY <1>0, <1>1, OpenFacts DEF PendingOK, OpenOK
<1>8. CountOK(t, r, jr, jb)
  BY DEF TrackOK
<1> QED BY <1>1, <1>2, <1>3, <1>4, <1>5, <1>6, <1>7, <1>8 DEF TrackOK, JournalOK

\* What is at the new path goes back to the pending path (undo_retired_swap).
LEMMA UndoSwapMove ==
  ASSUME ConstantsOK, NEW t \in Tracks, NEW r \in Rows, NEW jr \in Journals, NEW dl,
         NEW jb \in [Jobs -> JobStates], NEW st \in [Jobs -> BOOLEAN], NEW d \in Disks,
         TrackOK(t, r, jr, dl, jb, st, d),
         IsPending(jr), d.retired[RetiredOf(t, jr)] # Absent, d.audio[jr.to] # Absent, d.pending[PendingOf(t, jr)] = Absent,
         NEW e \in Disks, e.audio = [d.audio EXCEPT ![jr.to] = Absent],
         e.pending = [d.pending EXCEPT ![PendingOf(t, jr)] = d.audio[jr.to]],
         e.retired = d.retired
  PROVE  TrackOK(t, r, jr, dl, jb, st, e)
<1>0. /\ d.audio \in [Paths -> Audio \cup {Absent}] /\ d.pending \in [SidePaths -> Audio \cup {Absent}]
      /\ d.retired \in [SidePaths -> Audio \cup {Absent}] /\ PathsOf(t) \subseteq Paths
      /\ SidesOf(t) \subseteq SidePaths
  BY OwnPaths DEF Disks
<1>1. IsPending(jr) /\ ~IsCommitted(jr) /\ r.version = jr.old /\ jr.from = RowPathOf(t, r)
      /\ PendingOK(t, r, jr, st, d) /\ OpenOK(t, jr, jb, d)
      /\ d.retired[RetiredOf(t, jr)] \in {Absent, jr.old}
  BY PendingFacts DEF OpenOK
<1>2. OwnOK(t, r, e)
  BY <1>0, <1>1, OpenFacts DEF TrackOK, OwnOK
<1>3. RowOK(t, r, jr, dl, jb, e)
  BY <1>0, <1>1, OpenFacts DEF TrackOK, RowOK, PendingOK
<1>4. StrayOK(t, r, jr, jb, e)
  BY <1>0, <1>1, OpenFacts DEF TrackOK, StrayOK
<1>5. UploadsOK(t, jb, st, e)
  <2> SUFFICES ASSUME NEW j \in Jobs, Replaces[j] = t, jb[j] = "awaiting"
               PROVE  UploadOK(t, j, st, e)
    BY DEF UploadsOK
  <2>1. UploadOK(t, j, st, d)
    BY DEF TrackOK, UploadsOK
  <2>2. jr.old \in Jobs => j # jr.old
    BY <1>1 DEF OpenOK
  <2>3. j # Absent
    BY DEF ConstantsOK
  <2>4. CASE d.audio[jr.to] = j
    <3>1. \A p \in PathsOf(t) : e.audio[p] # j
      BY <1>0, <2>1, <2>3, <2>4, OpenFacts DEF UploadOK
    <3>2. \A p \in SidesOf(t) : d.pending[p] # j
      BY <2>1, <2>4, OpenFacts DEF UploadOK
    <3>3. \A p \in SidesOf(t) : e.pending[p] = j => p = PendingOf(t, jr)
      BY <1>0, <3>2, OpenFacts
    <3>4. ~st[j]
      BY <2>1, <2>4, OpenFacts DEF UploadOK
    <3> QED BY <3>1, <3>3, <3>4 DEF UploadOK
  <2>5. CASE d.audio[jr.to] # j
    <3>1. \A p \in PathsOf(t) : e.audio[p] = j => d.audio[p] = j
      BY <1>0, <2>3, OpenFacts
    <3>2. \A p \in SidesOf(t) : e.pending[p] = j => d.pending[p] = j
      BY <1>0, <2>5, OpenFacts
    <3> QED BY <2>1, <3>1, <3>2 DEF UploadOK
  <2> QED BY <2>4, <2>5
<1>6. OpenOK(t, jr, jb, e)
  BY <1>0, <1>1, OpenFacts DEF OpenOK
<1>7. PendingOK(t, r, jr, st, e)
  BY <1>0, <1>1, OpenFacts DEF PendingOK, OpenOK
<1>8. CountOK(t, r, jr, jb)
  BY DEF TrackOK
<1> QED BY <1>1, <1>2, <1>3, <1>4, <1>5, <1>6, <1>7, <1>8 DEF TrackOK, JournalOK

-----------------------------------------------------------------------------
(* What a journal and a row may become *)

\* The old file is removed after the transaction (complete_replacement_files).
LEMMA DropRetired ==
  ASSUME ConstantsOK, NEW t \in Tracks, NEW r \in Rows, NEW jr \in Journals, NEW dl,
         NEW jb \in [Jobs -> JobStates], NEW st \in [Jobs -> BOOLEAN], NEW d \in Disks,
         TrackOK(t, r, jr, dl, jb, st, d),
         IsCommitted(jr), NEW e \in Disks, e.audio = d.audio, e.pending = d.pending,
         e.retired = [d.retired EXCEPT ![RetiredOf(t, jr)] = Absent]
  PROVE  TrackOK(t, r, jr, dl, jb, st, e)
<1>0. d.retired \in [SidePaths -> Audio \cup {Absent}] /\ SidesOf(t) \subseteq SidePaths /\ ~IsPending(jr)
  BY OwnPaths DEF Disks, IsPending, IsCommitted
<1>1. OwnOK(t, r, e) /\ RowOK(t, r, jr, dl, jb, e) /\ CountOK(t, r, jr, jb)
  BY DEF TrackOK, OwnOK, RowOK
<1>2. StrayOK(t, r, jr, jb, e)
  BY <1>0, OpenFacts DEF TrackOK, StrayOK
<1>3. UploadsOK(t, jb, st, e)
  BY DEF TrackOK, UploadsOK, UploadOK
<1>4. OpenOK(t, jr, jb, e) /\ CommittedOK(t, r, jr, e)
  BY <1>0, OpenFacts DEF TrackOK, JournalOK, OpenOK, CommittedOK
<1> QED BY <1>0, <1>1, <1>2, <1>3, <1>4 DEF TrackOK, JournalOK

\* The phase or the mark of the artwork (advance_replacement_phase,
\* mark_replacement_artwork_created).
LEMMA Advances ==
  ASSUME ConstantsOK, NEW t \in Tracks, NEW r \in Rows, NEW jr \in Journals, NEW dl,
         NEW jb \in [Jobs -> JobStates], NEW st \in [Jobs -> BOOLEAN], NEW d \in Disks,
         TrackOK(t, r, jr, dl, jb, st, d),
         IsPending(jr), NEW jr2 \in Journals, IsPending(jr2),
         jr2.job = jr.job, jr2.from = jr.from, jr2.to = jr.to, jr2.old = jr.old,
         d.retired[RetiredOf(t, jr)] # Absent => jr2.phase \in {"verified", "swapped"}
  PROVE  TrackOK(t, r, jr2, dl, jb, st, d)
<1>1. /\ ~IsCommitted(jr) /\ ~IsCommitted(jr2) /\ jr # NoJournal /\ jr2 # NoJournal
      /\ RetiredOf(t, jr2) = RetiredOf(t, jr) /\ PendingOf(t, jr2) = PendingOf(t, jr)
  BY DEF IsPending, IsCommitted, RetiredOf, PendingOf
<1>2. OwnOK(t, r, d) /\ RowOK(t, r, jr2, dl, jb, d) /\ UploadsOK(t, jb, st, d) /\ CountOK(t, r, jr2, jb)
  BY <1>1 DEF TrackOK, RowOK, CountOK
<1>3. StrayOK(t, r, jr2, jb, d)
  BY <1>1 DEF TrackOK, StrayOK
<1>4. OpenOK(t, jr2, jb, d) /\ PendingOK(t, r, jr2, st, d)
  BY <1>1, PendingFacts DEF OpenOK, PendingOK
<1> QED BY <1>1, <1>2, <1>3, <1>4 DEF TrackOK, JournalOK

\* The journal is written (prepare_replacement_journal).
LEMMA Opens ==
  ASSUME ConstantsOK, NEW t \in Tracks, NEW r \in Rows, NEW jr \in Journals \cup {NoJournal}, NEW dl,
         NEW jb \in [Jobs -> JobStates], NEW st \in [Jobs -> BOOLEAN], NEW d \in Disks,
         TrackOK(t, r, jr, dl, jb, st, d),
         jr = NoJournal, NEW jr2 \in Journals, IsPending(jr2),
         r.state = "here", st[jr2.job], jb[jr2.job] = "awaiting", Replaces[jr2.job] = t,
         jr2.from = RowPathOf(t, r), jr2.old = r.version, jr2.to \in PathsOf(t),
         jr2.to = PathOf(t, jr2.to[2], jr2.job)
  PROVE  TrackOK(t, r, jr2, dl, jb, st, d) /\ d.retired[RetiredOf(t, jr2)] = Absent
<1>1. ~IsCommitted(jr) /\ ~IsCommitted(jr2) /\ jr2 # NoJournal /\ jr2.job \in Jobs
  BY DEF IsPending, IsCommitted, Journals
<1>2. RowPathOf(t, r) \in PathsOf(t) /\ RetiredOf(t, jr2) \in SidesOf(t)
  BY RowPathIn, SidePathsIn
<1>3. \A p \in SidesOf(t) : d.retired[p] = Absent
  BY DEF TrackOK, StrayOK
<1>4. OwnOK(t, r, d) /\ RowOK(t, r, jr2, dl, jb, d) /\ UploadsOK(t, jb, st, d) /\ CountOK(t, r, jr2, jb)
  BY <1>1 DEF TrackOK, RowOK, CountOK
<1>5. StrayOK(t, r, jr2, jb, d)
  BY <1>3 DEF TrackOK, StrayOK
<1>6. d.audio[RowPathOf(t, r)] = r.version /\ (r.version \in Jobs => jb[r.version] # "awaiting")
      /\ r.version \in FilesOf(t)
  BY <1>1 DEF TrackOK, RowOK, OwnOK
<1>7. OpenOK(t, jr2, jb, d)
  BY <1>1, <1>2, <1>3, <1>6 DEF OpenOK
<1>8. PendingOK(t, r, jr2, st, d)
  BY <1>1, <1>2, <1>3, <1>6 DEF PendingOK
<1> QED BY <1>1, <1>2, <1>3, <1>4, <1>5, <1>7, <1>8 DEF TrackOK, JournalOK

\* The journal is closed, the replacement undone (rollback_replacement).
LEMMA ClosesUndone ==
  ASSUME ConstantsOK, NEW t \in Tracks, NEW r \in Rows, NEW jr \in Journals, NEW dl,
         NEW jb \in [Jobs -> JobStates], NEW st \in [Jobs -> BOOLEAN], NEW d \in Disks,
         TrackOK(t, r, jr, dl, jb, st, d),
         IsPending(jr), d.retired[RetiredOf(t, jr)] = Absent
  PROVE  TrackOK(t, r, NoJournal, dl, jb, st, d)
<1>1. ~IsCommitted(jr) /\ ~IsCommitted(NoJournal) /\ ~IsPending(NoJournal) /\ jr # NoJournal
  BY DEF IsPending, IsCommitted
<1>2. OwnOK(t, r, d) /\ UploadsOK(t, jb, st, d) /\ CountOK(t, r, NoJournal, jb)
  BY <1>1 DEF TrackOK, CountOK
<1>3. r.state = "here" => d.audio[RowPathOf(t, r)] = r.version
  BY PendingFacts DEF PendingOK
<1>4. RowOK(t, r, NoJournal, dl, jb, d)
  BY <1>1, <1>3 DEF TrackOK, RowOK
<1>5. StrayOK(t, r, NoJournal, jb, d)
  BY <1>1 DEF TrackOK, StrayOK
<1> QED BY <1>1, <1>2, <1>4, <1>5 DEF TrackOK, JournalOK

\* The transaction of a replacement (commit_replacement_data).
LEMMA Commits ==
  ASSUME ConstantsOK, NEW t \in Tracks, NEW r \in Rows, NEW jr \in Journals, NEW dl,
         NEW jb \in [Jobs -> JobStates], NEW st \in [Jobs -> BOOLEAN], NEW d \in Disks,
         TrackOK(t, r, jr, dl, jb, st, d),
         IsPending(jr), r.state = "here", d.retired[RetiredOf(t, jr)] = jr.old,
         d.audio[jr.to] = jr.job, jr.from # jr.to => d.audio[jr.from] = Absent,
         NEW jr2 \in Journals, jr2.phase = "database_committed", jr2.job = jr.job,
         jr2.from = jr.from, jr2.to = jr.to, jr2.old = jr.old,
         NEW r2 \in Rows, r2.state = r.state, r2.album = jr.to[2], r2.version = jr.job,
         r2.replaced = r.replaced + 1
  PROVE  TrackOK(t, r2, jr2, dl, jb, st, d)
<1>1. /\ ~IsCommitted(jr) /\ IsCommitted(jr2) /\ ~IsPending(jr2) /\ jr # NoJournal /\ jr2 # NoJournal
      /\ RetiredOf(t, jr2) = RetiredOf(t, jr)
  <2>1. NoJournal.phase = "closed"
    BY DEF NoJournal
  <2> QED BY <2>1 DEF IsPending, IsCommitted, RetiredOf
<1>2. OpenOK(t, jr, jb, d) /\ jr.from = RowPathOf(t, r)
  BY PendingFacts
<1>3. RowPathOf(t, r2) = jr.to
  BY <1>2 DEF OpenOK, RowPathOf
<1>4. OwnOK(t, r2, d) /\ UploadsOK(t, jb, st, d)
  BY OpenFacts DEF TrackOK, OwnOK
<1>5. RowOK(t, r2, jr2, dl, jb, d)
  BY <1>1 DEF TrackOK, RowOK
<1>6. StrayOK(t, r2, jr2, jb, d)
  BY <1>1, <1>2, <1>3 DEF TrackOK, StrayOK
<1>7. OpenOK(t, jr2, jb, d)
  BY <1>1, <1>2 DEF OpenOK
<1>8. CommittedOK(t, r2, jr2, d)
  <2>1. UploadOK(t, jr.job, st, d) /\ jr.to \in PathsOf(t)
    BY OpenFacts
  <2>2. \A p \in PathsOf(t) : d.audio[p] = jr.job => p = jr.to
    BY <2>1 DEF UploadOK
  <2> QED BY <1>3, <2>2 DEF CommittedOK
<1>9. CountOK(t, r2, jr2, jb)
  <2> DEFINE S == {j \in Jobs : Replaces[j] = t /\ jb[j] = "committed"}
  <2>1. Cardinality(S) \in Nat
    BY FS_Subset, FS_CardinalityType DEF ConstantsOK
  <2>2. r.replaced = Cardinality(S) + 0
    BY <1>1 DEF TrackOK, CountOK
  <2> HIDE DEF S
  <2>3. r2.replaced = Cardinality(S) + 1
    BY <2>1, <2>2
  <2> QED BY <1>1, <2>3 DEF CountOK, S
<1> QED BY <1>1, <1>4, <1>5, <1>6, <1>7, <1>8, <1>9 DEF TrackOK, JournalOK

\* The job is committed and the journal closed (finalize_replacement).
LEMMA Finalizes ==
  ASSUME ConstantsOK, NEW t \in Tracks, NEW r \in Rows, NEW jr \in Journals, NEW dl,
         NEW jb \in [Jobs -> JobStates], NEW st \in [Jobs -> BOOLEAN], NEW d \in Disks,
         TrackOK(t, r, jr, dl, jb, st, d),
         IsCommitted(jr), d.retired[RetiredOf(t, jr)] = Absent, r.state # "gone",
         NEW jb2, jb2 = [jb EXCEPT ![jr.job] = "committed"]
  PROVE  TrackOK(t, r, NoJournal, dl, jb2, st, d)
<1>1. ~IsCommitted(NoJournal) /\ ~IsPending(NoJournal) /\ jr # NoJournal
  BY DEF IsPending, IsCommitted
<1>2. OpenOK(t, jr, jb, d) /\ CommittedOK(t, r, jr, d)
  BY <1>1 DEF TrackOK, JournalOK
<1>3. /\ jb2[jr.job] = "committed" /\ \A j \in Jobs : j # jr.job => jb2[j] = jb[j]
      /\ jb[jr.job] = "awaiting" /\ jr.job \in Jobs /\ Replaces[jr.job] = t
  BY OpenFacts
<1>4. OwnOK(t, r, d)
  BY DEF TrackOK
<1>5. RowOK(t, r, NoJournal, dl, jb2, d)
  BY <1>1, <1>2, <1>3 DEF TrackOK, RowOK, CommittedOK
<1>6. StrayOK(t, r, NoJournal, jb2, d)
  <2>1. \A p \in SidesOf(t) : d.retired[p] = Absent
    BY DEF TrackOK, StrayOK
  <2>2. ASSUME NEW p \in PathsOf(t), d.audio[p] # Absent, p # RowPathOf(t, r)
        PROVE  d.audio[p] \in Jobs /\ jb2[d.audio[p]] # "committed"
    <3>1. d.audio[p] \in Jobs /\ jb[d.audio[p]] # "committed"
      BY <2>2 DEF TrackOK, StrayOK
    <3>2. d.audio[p] # jr.job
      BY <1>2, <2>2 DEF CommittedOK
    <3> QED BY <1>3, <3>1, <3>2
  <2> QED BY <2>1, <2>2 DEF StrayOK
<1>7. UploadsOK(t, jb2, st, d)
  BY <1>3 DEF TrackOK, UploadsOK
<1>8. CountOK(t, r, NoJournal, jb2)
  <2> DEFINE S == {j \in Jobs : Replaces[j] = t /\ jb[j] = "committed"}
             S2 == {j \in Jobs : Replaces[j] = t /\ jb2[j] = "committed"}
  <2>1. S2 = S \cup {jr.job} /\ jr.job \notin S
    BY <1>3
  <2>2. IsFiniteSet(S)
    BY FS_Subset DEF ConstantsOK
  <2> HIDE DEF S, S2
  <2>3. Cardinality(S2) = Cardinality(S) + 1 /\ Cardinality(S) \in Nat
    BY <2>1, <2>2, FS_AddElement, FS_CardinalityType
  <2>4. r.replaced = Cardinality(S) + 1
    BY DEF TrackOK, CountOK, S
  <2>5. r.replaced = Cardinality(S2) + 0
    BY <2>3, <2>4
  <2> QED BY <1>1, <2>5 DEF CountOK, S2
<1> QED BY <1>1, <1>4, <1>5, <1>6, <1>7, <1>8 DEF TrackOK, JournalOK

-----------------------------------------------------------------------------
(* Deletion *)

\* The file of a hidden Track is removed (remove_prepared_deletion_files).
LEMMA DropAudio ==
  ASSUME ConstantsOK, NEW t \in Tracks, NEW r \in Rows, NEW jr \in Journals \cup {NoJournal}, NEW dl,
         NEW jb \in [Jobs -> JobStates], NEW st \in [Jobs -> BOOLEAN], NEW d \in Disks,
         TrackOK(t, r, jr, dl, jb, st, d),
         r.state = "hidden", d.audio[RowPathOf(t, r)] \in {Absent, r.version},
         NEW e \in Disks, e.audio = [d.audio EXCEPT ![RowPathOf(t, r)] = Absent],
         e.pending = d.pending, e.retired = d.retired
  PROVE  TrackOK(t, r, jr, dl, jb, st, e)
<1>0. d.audio \in [Paths -> Audio \cup {Absent}] /\ PathsOf(t) \subseteq Paths
      /\ RowPathOf(t, r) \in PathsOf(t)
  BY OwnPaths, RowPathIn DEF Disks
<1>1. OwnOK(t, r, e) /\ RowOK(t, r, jr, dl, jb, e) /\ CountOK(t, r, jr, jb)
  BY <1>0 DEF TrackOK, OwnOK, RowOK
<1>2. StrayOK(t, r, jr, jb, e)
  BY <1>0 DEF TrackOK, StrayOK
<1>3. UploadsOK(t, jb, st, e)
  <2> SUFFICES ASSUME NEW j \in Jobs, Replaces[j] = t, jb[j] = "awaiting"
               PROVE  UploadOK(t, j, st, e)
    BY DEF UploadsOK
  <2>1. UploadOK(t, j, st, d) /\ j # Absent
    BY DEF TrackOK, UploadsOK, ConstantsOK
  <2>2. \A p \in PathsOf(t) : e.audio[p] = j => d.audio[p] = j
    BY <1>0, <2>1
  <2> QED BY <2>1, <2>2 DEF UploadOK
<1>4. ASSUME jr # NoJournal PROVE OpenOK(t, jr, jb, e)
  BY <1>4 DEF TrackOK, JournalOK, OpenOK
<1>5. ASSUME IsPending(jr) PROVE PendingOK(t, r, jr, st, e)
  <2>1. jr \in Journals /\ jr # NoJournal
    BY <1>5 DEF IsPending
  <2>2. r.version = jr.old /\ jr.from = RowPathOf(t, r) /\ PendingOK(t, r, jr, st, d)
    BY <1>5, <2>1, PendingFacts
  <2>3. jr.job # jr.old /\ jr.job # Absent /\ jr.to \in PathsOf(t)
    BY <2>1, OpenFacts
  <2>4. d.audio[jr.to] = jr.job => jr.to # RowPathOf(t, r)
    BY <2>2, <2>3
  <2> QED BY <1>0, <2>2, <2>3, <2>4 DEF PendingOK
<1>6. ASSUME IsCommitted(jr) PROVE CommittedOK(t, r, jr, e)
  <2>1. jr \in Journals /\ jr # NoJournal /\ CommittedOK(t, r, jr, d)
    BY <1>6 DEF IsCommitted, TrackOK, JournalOK
  <2>2. jr.job # Absent
    BY <2>1, OpenFacts
  <2> QED BY <1>0, <2>1, <2>2 DEF CommittedOK
<1> QED BY <1>1, <1>2, <1>3, <1>4, <1>5, <1>6 DEF TrackOK, JournalOK

\* The Track is hidden, or shown again, while its file is there
\* (prepare_track_deletion, cancel_track_deletion).
LEMMA HidesOrShows ==
  ASSUME ConstantsOK, NEW t \in Tracks, NEW r \in Rows, NEW jr \in Journals \cup {NoJournal}, NEW dl,
         NEW jb \in [Jobs -> JobStates], NEW st \in [Jobs -> BOOLEAN], NEW d \in Disks,
         TrackOK(t, r, jr, dl, jb, st, d),
         r.state # "gone", d.audio[RowPathOf(t, r)] = r.version,
         NEW r2 \in Rows, r2.state \in {"here", "hidden"}, r2.album = r.album,
         r2.version = r.version, r2.replaced = r.replaced,
         NEW dl2, (r2.state = "hidden") <=> (dl2 # NoDeletion)
  PROVE  TrackOK(t, r2, jr, dl2, jb, st, d)
<1>0. RowPathOf(t, r2) = RowPathOf(t, r)
  BY DEF RowPathOf
<1>1. OwnOK(t, r2, d) /\ RowOK(t, r2, jr, dl2, jb, d) /\ CountOK(t, r2, jr, jb)
  BY <1>0 DEF TrackOK, OwnOK, RowOK, CountOK
<1>2. StrayOK(t, r2, jr, jb, d) /\ UploadsOK(t, jb, st, d)
  BY <1>0 DEF TrackOK, StrayOK
<1>3. ASSUME IsPending(jr) PROVE PendingOK(t, r2, jr, st, d)
  <2>1. jr \in Journals /\ jr # NoJournal
    BY <1>3 DEF IsPending
  <2>2. r.version = jr.old /\ jr.from = RowPathOf(t, r) /\ PendingOK(t, r, jr, st, d)
    BY <1>3, <2>1, PendingFacts
  <2>3. jr.old # Absent /\ jr.job # jr.old
    BY <2>1, OpenFacts
  <2>4. d.retired[RetiredOf(t, jr)] = Absent
    BY <2>2, <2>3 DEF PendingOK
  <2> QED BY <1>0, <2>2, <2>4 DEF PendingOK
<1>4. ASSUME IsCommitted(jr) PROVE CommittedOK(t, r2, jr, d)
  <2>1. CommittedOK(t, r, jr, d)
    BY <1>4 DEF TrackOK, JournalOK
  <2> QED BY <1>0, <2>1 DEF CommittedOK
<1> QED BY <1>1, <1>2, <1>3, <1>4 DEF TrackOK, JournalOK

\* The row goes, and with it the Track's committed jobs (finalize_track_deletion).
LEMMA Goes ==
  ASSUME ConstantsOK, NEW t \in Tracks, NEW r \in Rows, NEW jr \in Journals \cup {NoJournal}, NEW dl,
         NEW jb \in [Jobs -> JobStates], NEW st \in [Jobs -> BOOLEAN], NEW d \in Disks,
         TrackOK(t, r, jr, dl, jb, st, d),
         r.state = "hidden", d.audio[RowPathOf(t, r)] = Absent,
         NEW r2 \in Rows, r2.state = "gone", r2.album = r.album, r2.version = r.version,
         NEW jb2, \A j \in Jobs : jb2[j] = jb[j] \/ (jb[j] = "committed" /\ jb2[j] = "gone")
  PROVE  TrackOK(t, r2, jr, NoDeletion, jb2, st, d)
<1>0. RowPathOf(t, r2) = RowPathOf(t, r)
  BY DEF RowPathOf
<1>1. OwnOK(t, r2, d) /\ CountOK(t, r2, jr, jb2)
  BY DEF TrackOK, OwnOK, CountOK
<1>2. RowOK(t, r2, jr, NoDeletion, jb2, d)
  BY <1>0 DEF TrackOK, RowOK
<1>3. StrayOK(t, r2, jr, jb2, d)
  BY <1>0 DEF TrackOK, StrayOK
<1>4. UploadsOK(t, jb2, st, d)
  BY DEF TrackOK, UploadsOK
<1>5. ASSUME jr # NoJournal PROVE OpenOK(t, jr, jb2, d)
  <2>1. jr \in Journals
    BY <1>5
  <2> QED BY <1>5, <2>1, OpenFacts DEF TrackOK, JournalOK, OpenOK
<1>6. ASSUME IsPending(jr) PROVE PendingOK(t, r2, jr, st, d)
  <2>1. jr \in Journals /\ PendingOK(t, r, jr, st, d)
    BY <1>6 DEF IsPending, TrackOK, JournalOK
  <2>2. d.retired[RetiredOf(t, jr)] = Absent
    BY <2>1 DEF PendingOK
  <2> QED BY <1>0, <2>1, <2>2 DEF PendingOK
<1>7. ASSUME IsCommitted(jr) PROVE CommittedOK(t, r2, jr, d)
  <2>1. CommittedOK(t, r, jr, d)
    BY <1>7 DEF TrackOK, JournalOK
  <2> QED BY <1>0, <2>1 DEF CommittedOK
<1> QED BY <1>1, <1>2, <1>3, <1>4, <1>5, <1>6, <1>7 DEF TrackOK, JournalOK

-----------------------------------------------------------------------------
(* A step of the operation in progress *)

\* A step of Track t leaves the other Tracks alone.
Elsewhere(t, d, e) ==
  /\ \A p \in Paths : p \notin PathsOf(t) => e.audio[p] = d.audio[p]
  /\ \A p \in SidePaths : p \notin SidesOf(t) =>
       e.pending[p] = d.pending[p] /\ e.retired[p] = d.retired[p]

OthersStay(t) ==
  /\ \A u \in Tracks : u # t =>
       rows'[u] = rows[u] /\ journals'[u] = journals[u] /\ deletions'[u] = deletions[u]
  /\ Elsewhere(t, disk, disk')
  /\ \A j \in Jobs : Replaces[j] # t => jobs'[j] = jobs[j] /\ staged'[j] = staged[j]

LEMMA TracksStay ==
  ASSUME IInv, NEW t \in Tracks, OthersStay(t),
         TrackOK(t, rows'[t], journals'[t], deletions'[t], jobs', staged', disk')
  PROVE  TracksOK'
<1> SUFFICES ASSUME NEW u \in Tracks, u # t
             PROVE  TrackOK(u, rows'[u], journals'[u], deletions'[u], jobs', staged', disk')
  BY DEF TracksOK
<1>1. /\ rows'[u] = rows[u] /\ journals'[u] = journals[u] /\ deletions'[u] = deletions[u]
      /\ rows[u] \in Rows /\ journals[u] \in Journals \cup {NoJournal}
      /\ TrackOK(u, rows[u], journals[u], deletions[u], jobs, staged, disk)
  BY DEF OthersStay, IInv, Typed, DataTyped, TracksOK
<1>2. FilesStay(u, disk, disk')
  BY PathsApart DEF OthersStay, Elsewhere, FilesStay
<1>3. ASSUME IsPending(journals[u])
      PROVE  journals[u].job \in Jobs /\ Replaces[journals[u].job] = u
  BY <1>1, <1>3 DEF IsPending, TrackOK, JournalOK, OpenOK, Journals
<1>4. JobsStay(u, journals[u], jobs, staged, jobs', staged')
  BY <1>3 DEF JobsStay, OthersStay
<1>5. ConstantsOK
  BY DEF IInv
<1> QED BY <1>1, <1>2, <1>4, <1>5, TrackStays

LEMMA AtStep ==
  ASSUME IInv, NEW pc, pc # "none", At(pc)
  PROVE  /\ op \in Ops /\ op.pc = pc /\ op # NoOp /\ op.of \in Tracks
         /\ OpOK(op, op.of, rows[op.of], journals[op.of], staged, disk)
<1>1. op # NoOp
  BY DEF At, NoOp
<1>2. op \in Ops
  BY <1>1 DEF IInv, Typed
<1> QED BY <1>1, <1>2 DEF At, IInv, AtWorkOK, Ops

LEMMA TrackFacts ==
  ASSUME IInv, NEW t \in Tracks
  PROVE  /\ ConstantsOK /\ rows[t] \in Rows /\ journals[t] \in Journals \cup {NoJournal}
         /\ jobs \in [Jobs -> JobStates] /\ staged \in [Jobs -> BOOLEAN] /\ disk \in Disks
         /\ deletions[t] \in [cover : Int]
         /\ TrackOK(t, rows[t], journals[t], deletions[t], jobs, staged, disk)
BY DEF IInv, Typed, DataTyped, TracksOK

\* The operation is an operation; its first step is no step of nothing.
LEMMA OpIsNotNone ==
  ASSUME NEW o \in Ops
  PROVE  o # NoOp
<1>1. NoOp.pc = "none" /\ o.pc # "none"
  BY DEF NoOp, Ops, Steps, Placing, Swapping, Undoing, Completing, Deleting
<1> QED BY <1>1

Continues ==
  /\ op' \in Ops /\ op'.of = op.of /\ op'.on = op.on
  /\ op'.kind = op.kind \/ op.on = "request"
  /\ server' = server

LEMMA ContinueStep ==
  ASSUME IInv, NEW t \in Tracks, op \in Ops, op.of = t, OthersStay(t), DataTyped', Continues,
         TrackOK(t, rows'[t], journals'[t], deletions'[t], jobs', staged', disk'),
         OpOK(op', t, rows'[t], journals'[t], staged', disk')
  PROVE  IInv'
<1>1. op # NoOp /\ op' # NoOp
  BY OpIsNotNone DEF Continues
<1>2. ConstantsOK' /\ Typed'
  BY DEF IInv, Typed, Continues, ConstantsOK
<1>3. TracksOK'
  BY TracksStay
<1>4. AtWorkOK'
  BY <1>1 DEF AtWorkOK, Continues
<1>5. ServerOK'
  <2>1. server \in Servers /\ server.todo \subseteq Tracks
    BY DEF IInv, Typed, Servers
  <2>2. \A u \in Tracks : u # t => rows'[u] = rows[u] /\ journals'[u] = journals[u]
    BY DEF OthersStay
  <2>3. \/ op.on = "request" /\ server.state = "up"
        \/ /\ op.on = "startup" /\ server.state \in {"deletions", "replacements"} /\ t \notin server.todo
           /\ op.kind = (IF server.state = "deletions" THEN "delete" ELSE "recover")
    BY <1>1 DEF IInv, ServerOK
  <2>4. CASE op.on = "request" /\ server.state = "up"
    <3>1. server.todo = {}
      BY <2>4 DEF IInv, ServerOK
    <3> QED BY <1>1, <2>4, <3>1 DEF ServerOK, Continues
  <2>5. CASE /\ op.on = "startup" /\ server.state \in {"deletions", "replacements"} /\ t \notin server.todo
             /\ op.kind = (IF server.state = "deletions" THEN "delete" ELSE "recover")
    <3>1. server.state = "deletions" => \A u \in server.todo : rows'[u].state = "hidden"
      BY <2>1, <2>2, <2>5 DEF IInv, ServerOK
    <3>2. server.state = "replacements" => \A u \in server.todo : journals'[u] # NoJournal
      BY <2>1, <2>2, <2>5 DEF IInv, ServerOK
    <3>3. server.state = "replacements" /\ ~server.isFailed =>
            \A u \in Tracks : IsPending(journals'[u]) => u \in server.todo \/ u = t
      BY <2>2, <2>5 DEF IInv, ServerOK
    <3> QED BY <1>1, <2>5, <3>1, <3>2, <3>3 DEF ServerOK, Continues
  <2> QED BY <2>3, <2>4, <2>5
<1> QED BY <1>2, <1>3, <1>4, <1>5 DEF IInv

LEMMA EndStep ==
  ASSUME IInv, NEW t \in Tracks, op \in Ops, op.of = t, OthersStay(t), DataTyped',
         NEW isFailed \in BOOLEAN, End(isFailed), isFailed \/ op.kind = "delete" \/ ~IsPending(journals'[t]),
         TrackOK(t, rows'[t], journals'[t], deletions'[t], jobs', staged', disk')
  PROVE  IInv'
<1>1. op # NoOp /\ op' = NoOp
  BY OpIsNotNone DEF End
<1>2. server \in Servers /\ server.todo \subseteq Tracks
  BY DEF IInv, Typed, Servers
<1>3. \A u \in Tracks : u # t => rows'[u] = rows[u] /\ journals'[u] = journals[u]
  BY DEF OthersStay
<1>4. TracksOK' /\ AtWorkOK' /\ ConstantsOK'
  BY <1>1, TracksStay DEF AtWorkOK, IInv, ConstantsOK
<1>5. \/ op.on = "request" /\ server.state = "up"
      \/ op.on = "startup" /\ server.state = "deletions" /\ op.kind = "delete" /\ t \notin server.todo
      \/ op.on = "startup" /\ server.state = "replacements" /\ op.kind = "recover" /\ t \notin server.todo
  BY <1>1 DEF IInv, ServerOK
<1>6. CASE op.on = "request" /\ server.state = "up"
  <2>1. server' = server /\ server.todo = {}
    BY <1>6 DEF End, IInv, ServerOK
  <2>2. ServerOK'
    BY <1>1, <1>6, <2>1 DEF ServerOK
  <2> QED BY <1>1, <1>2, <1>4, <2>1, <2>2 DEF IInv, Typed
<1>7. CASE op.on = "startup" /\ server.state = "deletions" /\ op.kind = "delete" /\ t \notin server.todo
  <2>1. CASE isFailed
    <3>1. server' = [server EXCEPT !.state = "up", !.todo = {}, !.isFailed = TRUE]
      BY <1>7, <2>1 DEF End
    <3>2. server' \in Servers /\ server'.state = "up" /\ server'.todo = {}
      BY <1>2, <3>1 DEF Servers
    <3>3. ServerOK'
      BY <1>1, <3>2 DEF ServerOK
    <3> QED BY <1>1, <1>4, <3>2, <3>3 DEF IInv, Typed
  <2>2. CASE ~isFailed
    <3>1. server' = [server EXCEPT !.isFailed = server.isFailed \/ isFailed]
      BY <1>7, <2>2 DEF End
    <3>2. server' \in Servers /\ server'.state = server.state /\ server'.todo = server.todo
      BY <1>2, <3>1 DEF Servers
    <3>3. \A u \in server.todo : rows'[u].state = "hidden"
      BY <1>2, <1>3, <1>7 DEF IInv, ServerOK
    <3>4. ServerOK'
      BY <1>1, <1>7, <3>2, <3>3 DEF ServerOK
    <3> QED BY <1>1, <1>4, <3>2, <3>4 DEF IInv, Typed
  <2> QED BY <2>1, <2>2
<1>8. CASE op.on = "startup" /\ server.state = "replacements" /\ op.kind = "recover" /\ t \notin server.todo
  <2>1. server' = [server EXCEPT !.isFailed = server.isFailed \/ isFailed]
    BY <1>8 DEF End
  <2>2. /\ server' \in Servers /\ server'.state = server.state /\ server'.todo = server.todo
        /\ server'.isFailed = (server.isFailed \/ isFailed)
    BY <1>2, <2>1 DEF Servers
  <2>3. \A u \in server.todo : journals'[u] # NoJournal
    BY <1>2, <1>3, <1>8 DEF IInv, ServerOK
  <2>4. ~server'.isFailed => \A u \in Tracks : IsPending(journals'[u]) => u \in server.todo
    <3> SUFFICES ASSUME ~server'.isFailed, NEW u \in Tracks, IsPending(journals'[u])
                 PROVE  u \in server.todo
      OBVIOUS
    <3>1. ~server.isFailed /\ ~isFailed
      BY <2>2
    <3>2. u # t
      BY <1>8, <3>1
    <3> QED BY <1>3, <1>8, <3>1, <3>2 DEF IInv, ServerOK
  <2>5. ServerOK'
    BY <1>1, <1>8, <2>2, <2>3, <2>4 DEF ServerOK
  <2> QED BY <1>1, <1>4, <2>2, <2>5 DEF IInv, Typed
<1> QED BY <1>5, <1>6, <1>7, <1>8

-----------------------------------------------------------------------------
(* Where the operation is, and where it goes *)

LEMMA AtReplacing ==
  ASSUME IInv, NEW t \in Tracks, NEW pc \in Placing \cup Swapping, At(pc), op.of = t
  PROVE  /\ op \in Ops /\ op.pc = pc /\ journals[t] \in Journals /\ IsPending(journals[t])
         /\ ReplacingOK(t, pc, rows[t], journals[t], staged, disk)
<1>1. op \in Ops /\ op.pc = pc /\ OpOK(op, t, rows[t], journals[t], staged, disk)
  BY AtStep DEF Placing, Swapping
<1>2. ReplacingOK(t, pc, rows[t], journals[t], staged, disk)
  BY <1>1 DEF OpOK
<1>3. IsPending(journals[t]) /\ journals[t] \in Journals \cup {NoJournal}
  BY <1>2, TrackFacts DEF ReplacingOK
<1> QED BY <1>1, <1>2, <1>3 DEF IsPending

LEMMA AtUndoing ==
  ASSUME IInv, NEW t \in Tracks, NEW pc \in Undoing, At(pc), op.of = t
  PROVE  /\ op \in Ops /\ op.pc = pc /\ journals[t] \in Journals /\ IsPending(journals[t])
         /\ UndoingOK(t, pc, op.isBroken, journals[t], disk) /\ op.isBroken \in BOOLEAN
<1>1. op \in Ops /\ op.pc = pc /\ OpOK(op, t, rows[t], journals[t], staged, disk)
  BY AtStep DEF Undoing
<1>2. UndoingOK(t, pc, op.isBroken, journals[t], disk)
  BY <1>1 DEF OpOK
<1>3. IsPending(journals[t]) /\ journals[t] \in Journals \cup {NoJournal}
  BY <1>2, TrackFacts DEF UndoingOK
<1> QED BY <1>1, <1>2, <1>3 DEF IsPending, Ops

LEMMA AtCompleting ==
  ASSUME IInv, NEW t \in Tracks, NEW pc \in Completing, At(pc), op.of = t
  PROVE  /\ op \in Ops /\ op.pc = pc /\ journals[t] \in Journals /\ IsCommitted(journals[t])
         /\ CompletingOK(t, pc, journals[t], disk)
<1>1. op \in Ops /\ op.pc = pc /\ OpOK(op, t, rows[t], journals[t], staged, disk)
  BY AtStep DEF Completing
<1>2. CompletingOK(t, pc, journals[t], disk)
  BY <1>1 DEF OpOK
<1>3. IsCommitted(journals[t]) /\ journals[t] \in Journals \cup {NoJournal}
  BY <1>2, TrackFacts DEF CompletingOK
<1> QED BY <1>1, <1>2, <1>3 DEF IsCommitted

LEMMA AtDeleting ==
  ASSUME IInv, NEW t \in Tracks, NEW pc \in Deleting, At(pc), op.of = t
  PROVE  /\ op \in Ops /\ op.pc = pc /\ op.kind = "delete"
         /\ DeletingOK(t, pc, op.on, rows[t], disk)
<1>1. op \in Ops /\ op.pc = pc /\ OpOK(op, t, rows[t], journals[t], staged, disk)
  BY AtStep DEF Deleting
<1> QED BY <1>1 DEF OpOK

\* The classes of steps are disjoint.
LEMMA OpOKBy ==
  ASSUME NEW o, NEW t, NEW r, NEW jr, NEW st, NEW d,
         \/ o.pc = "journal"
         \/ o.pc = "d_prepare" /\ o.kind = "delete"
         \/ o.pc \in Placing \cup Swapping /\ ReplacingOK(t, o.pc, r, jr, st, d)
         \/ o.pc \in Undoing /\ UndoingOK(t, o.pc, o.isBroken, jr, d)
         \/ o.pc \in Completing /\ CompletingOK(t, o.pc, jr, d)
         \/ o.pc \in Deleting /\ o.kind = "delete" /\ DeletingOK(t, o.pc, o.on, r, d)
  PROVE  OpOK(o, t, r, jr, st, d)
BY DEF OpOK, Placing, Swapping, Undoing, Completing, Deleting

LEMMA GoesOnOp ==
  ASSUME op \in Ops, NEW pc \in Steps, GoesOn(pc)
  PROVE  Continues /\ op'.pc = pc /\ op'.isBroken = op.isBroken /\ op'.on = op.on /\ op'.kind = op.kind
BY DEF GoesOn, Continues, Ops

LEMMA BrokenOp ==
  ASSUME op \in Ops, NEW pc \in Steps, Broken(pc)
  PROVE  Continues /\ op'.pc = pc /\ op'.isBroken = TRUE /\ op'.on = op.on
BY DEF Broken, Continues, Ops

LEMMA JournalPaths ==
  ASSUME NEW t
  PROVE  /\ From(t) = journals[t].from /\ To(t) = journals[t].to /\ JobOf(t) = journals[t].job
         /\ NewId(t) = journals[t].to[2]
         /\ Pending(t) = PendingOf(t, journals[t]) /\ Retired(t) = RetiredOf(t, journals[t])
         /\ RowPath(t) = RowPathOf(t, rows[t])
BY DEF From, To, JobOf, NewId, Pending, Retired, RowPath, PendingOf, RetiredOf, RowPathOf

LEMMA WritesElsewhere ==
  ASSUME NEW t, NEW d \in Disks, NEW e,
         e.audio = d.audio \/ \E a \in PathsOf(t), x \in Audio \cup {Absent} : e.audio = [d.audio EXCEPT ![a] = x],
         e.pending = d.pending \/ \E b \in SidesOf(t), x \in Audio \cup {Absent} : e.pending = [d.pending EXCEPT ![b] = x],
         e.retired = d.retired \/ \E b \in SidesOf(t), x \in Audio \cup {Absent} : e.retired = [d.retired EXCEPT ![b] = x]
  PROVE  Elsewhere(t, d, e)
BY DEF Elsewhere, Disks

\* A step that changes files, and one that changes journals.
FilesKeepTypes ==
  /\ disk' \in Disks /\ staged' \in [Jobs -> BOOLEAN]
  /\ covers' \in [1..MaxIds -> {"whole", "empty", Absent}]

LEMMA FilesOthers ==
  ASSUME IInv, NEW t \in Tracks, OnlyFiles, FilesKeepTypes, Elsewhere(t, disk, disk'),
         \A j \in Jobs : Replaces[j] # t => staged'[j] = staged[j]
  PROVE  OthersStay(t) /\ DataTyped'
<1>1. OthersStay(t)
  BY DEF OnlyFiles, rowVars, OthersStay
<1>2. DataTyped'
  BY DEF OnlyFiles, rowVars, FilesKeepTypes, DataTyped, IInv, Typed
<1> QED BY <1>1, <1>2

LEMMA FilesGoOn ==
  ASSUME IInv, NEW t \in Tracks, op \in Ops, op.of = t, OnlyFiles, FilesKeepTypes,
         Elsewhere(t, disk, disk'), \A j \in Jobs : Replaces[j] # t => staged'[j] = staged[j],
         Continues, TrackOK(t, rows[t], journals[t], deletions[t], jobs, staged', disk'),
         OpOK(op', t, rows[t], journals[t], staged', disk')
  PROVE  IInv'
<1>1. OthersStay(t) /\ DataTyped'
  BY FilesOthers
<1>2. rows' = rows /\ journals' = journals /\ deletions' = deletions /\ jobs' = jobs
  BY DEF OnlyFiles, rowVars
<1> QED BY <1>1, <1>2, ContinueStep

LEMMA FilesEnd ==
  ASSUME IInv, NEW t \in Tracks, op \in Ops, op.of = t, OnlyFiles, FilesKeepTypes,
         Elsewhere(t, disk, disk'), \A j \in Jobs : Replaces[j] # t => staged'[j] = staged[j],
         NEW isFailed \in BOOLEAN, End(isFailed), isFailed \/ ~IsPending(journals[t]),
         TrackOK(t, rows[t], journals[t], deletions[t], jobs, staged', disk')
  PROVE  IInv'
<1>1. OthersStay(t) /\ DataTyped'
  BY FilesOthers
<1>2. rows' = rows /\ journals' = journals /\ deletions' = deletions /\ jobs' = jobs
  BY DEF OnlyFiles, rowVars
<1> QED BY <1>1, <1>2, EndStep

\* Nothing but the operation, and perhaps an artwork file, changes.
NothingMoves ==
  /\ OnlyFiles /\ disk' = disk /\ staged' = staged
  /\ covers' \in [1..MaxIds -> {"whole", "empty", Absent}]

LEMMA OnlyGoesOn ==
  ASSUME IInv, NEW t \in Tracks, op \in Ops, op.of = t, NothingMoves, Continues,
         OpOK(op', t, rows[t], journals[t], staged, disk)
  PROVE  IInv'
<1>1. TrackOK(t, rows[t], journals[t], deletions[t], jobs, staged, disk) /\ disk \in Disks
      /\ staged \in [Jobs -> BOOLEAN]
  BY TrackFacts
<1>2. Elsewhere(t, disk, disk) /\ FilesKeepTypes /\ OnlyFiles /\ disk' = disk /\ staged' = staged
  BY <1>1 DEF Elsewhere, FilesKeepTypes, NothingMoves
<1> QED BY <1>1, <1>2, FilesGoOn

LEMMA OnlyEnds ==
  ASSUME IInv, NEW t \in Tracks, op \in Ops, op.of = t, NothingMoves,
         NEW isFailed \in BOOLEAN, End(isFailed), isFailed \/ ~IsPending(journals[t])
  PROVE  IInv'
<1>1. TrackOK(t, rows[t], journals[t], deletions[t], jobs, staged, disk) /\ disk \in Disks
      /\ staged \in [Jobs -> BOOLEAN]
  BY TrackFacts
<1>2. Elsewhere(t, disk, disk) /\ FilesKeepTypes /\ OnlyFiles /\ disk' = disk /\ staged' = staged
  BY <1>1 DEF Elsewhere, FilesKeepTypes, NothingMoves
<1> QED BY <1>1, <1>2, FilesEnd

LEMMA JournalOthers ==
  ASSUME IInv, NEW t \in Tracks, OnlyJournals,
         NEW jr \in Journals \cup {NoJournal}, journals' = [journals EXCEPT ![t] = jr]
  PROVE  /\ OthersStay(t) /\ DataTyped' /\ journals'[t] = jr
         /\ rows' = rows /\ deletions' = deletions /\ jobs' = jobs /\ staged' = staged /\ disk' = disk
<1>1. /\ rows' = rows /\ deletions' = deletions /\ jobs' = jobs /\ staged' = staged /\ disk' = disk
      /\ ids' = ids /\ artwork' = artwork /\ covers' = covers /\ made' = made
  BY DEF OnlyJournals, rowVars, files
<1>2. journals \in [Tracks -> Journals \cup {NoJournal}]
  BY DEF IInv, Typed, DataTyped
<1>3. journals'[t] = jr /\ \A u \in Tracks : u # t => journals'[u] = journals[u]
  BY <1>2
<1>4. DataTyped'
  BY <1>1, <1>2 DEF IInv, Typed, DataTyped
<1>5. OthersStay(t)
  BY <1>1, <1>3 DEF OthersStay, Elsewhere
<1> QED BY <1>1, <1>3, <1>4, <1>5

-----------------------------------------------------------------------------
(* Track Replacement, to the transaction *)

\* From a step of a replacement that changed nothing into its rollback.
LEMMA TurnsBack ==
  ASSUME IInv, NEW t \in Tracks, op \in Ops, op.of = t, NothingMoves, GoesOn("undo_swap"),
         IsPending(journals[t])
  PROVE  IInv'
<1>1. Continues /\ op'.pc = "undo_swap"
  BY GoesOnOp DEF Steps, Undoing
<1>2. UndoingOK(t, "undo_swap", op'.isBroken, journals[t], disk)
  BY DEF UndoingOK
<1>3. OpOK(op', t, rows[t], journals[t], staged, disk)
  BY <1>1, <1>2, OpOKBy DEF Undoing
<1> QED BY <1>1, <1>3, OnlyGoesOn

\* From a step of a replacement to another with the same files.
LEMMA Proceeds ==
  ASSUME IInv, NEW t \in Tracks, op \in Ops, op.of = t, NothingMoves,
         NEW pc \in Placing \cup Swapping, GoesOn(pc),
         ReplacingOK(t, pc, rows[t], journals[t], staged, disk)
  PROVE  IInv'
<1>1. Continues /\ op'.pc = pc
  BY GoesOnOp DEF Steps
<1>2. OpOK(op', t, rows[t], journals[t], staged, disk)
  BY <1>1, OpOKBy
<1> QED BY <1>1, <1>2, OnlyGoesOn

LEMMA StillPending ==
  ASSUME NEW t, NEW pc, NEW next, NEW r, NEW jr, NEW st, NEW d, ReplacingOK(t, pc, r, jr, st, d),
         pc \in Placing, next \in Placing, next # "retire", next # "place",
         next \in Placed => pc \in Placed
  PROVE  ReplacingOK(t, next, r, jr, st, d)
<1>1. next \notin Swapping /\ next # "commit"
  BY DEF Placing, Swapping
<1> QED BY <1>1 DEF ReplacingOK

LEMMA PlaceKeeps ==
  ASSUME IInv, NEW t \in Tracks, Place(t)
  PROVE  IInv'
<1> DEFINE jr == journals[t]
           b == PendingOf(t, jr)
<1>1. /\ op \in Ops /\ op.of = t /\ jr \in Journals /\ IsPending(jr) /\ OnlyFiles
      /\ ReplacingOK(t, "place", rows[t], jr, staged, disk)
  BY AtReplacing DEF Place, Placing
<1>2. CASE /\ staged' = [staged EXCEPT ![JobOf(t)] = FALSE]
           /\ disk' = [disk EXCEPT !.pending[Pending(t)] = JobOf(t)]
           /\ GoesOn("artwork") /\ UNCHANGED covers
  <2>1. staged' = [staged EXCEPT ![jr.job] = FALSE] /\ disk' = [disk EXCEPT !.pending[b] = jr.job]
    BY <1>2, JournalPaths
  <2>2. /\ jr.job \in Jobs /\ Replaces[jr.job] = t /\ b \in SidesOf(t) /\ b \in SidePaths
        /\ jr.job \in Audio
    BY <1>1, TrackFacts, OpenFacts
  <2> HIDE DEF b
  <2>3. /\ disk' \in Disks /\ disk'.pending = [disk.pending EXCEPT ![b] = jr.job]
        /\ disk'.audio = disk.audio /\ disk'.retired = disk.retired
    <3>1. disk \in Disks /\ jr.job \in Audio \cup {Absent}
      BY <2>2, TrackFacts
    <3> QED BY <2>1, <2>2, <3>1 DEF Disks
  <2>4. TrackOK(t, rows[t], jr, deletions[t], jobs, staged', disk')
    <3>1. staged[jr.job]
      BY <1>1 DEF ReplacingOK
    <3>2. TrackOK(t, rows[t], jr, deletions[t], jobs, [staged EXCEPT ![jr.job] = FALSE], disk')
      BY <1>1, <2>3, <3>1, TrackFacts, PlaceMove DEF b
    <3> QED BY <2>1, <3>2
  <2>5. ReplacingOK(t, "artwork", rows[t], jr, staged', disk')
    <3>1. disk'.pending[b] = jr.job
      BY <2>2, <2>3, TrackFacts DEF Disks
    <3> QED BY <1>1, <2>3, <3>1 DEF ReplacingOK, Placing, Placed, Swapping, b
  <2>6. Continues /\ op'.pc = "artwork"
    BY <1>1, <1>2, GoesOnOp DEF Steps, Placing
  <2>7. OpOK(op', t, rows[t], jr, staged', disk')
    BY <2>5, <2>6, OpOKBy DEF Placing
  <2>8. FilesKeepTypes
    BY <1>2, <2>1, <2>3 DEF FilesKeepTypes, IInv, Typed, DataTyped
  <2>9. Elsewhere(t, disk, disk')
    BY <2>2, <2>3, TrackFacts, WritesElsewhere
  <2>10. \A j \in Jobs : Replaces[j] # t => staged'[j] = staged[j]
    BY <2>1, <2>2, TrackFacts
  <2> QED BY <1>1, <2>4, <2>6, <2>7, <2>8, <2>9, <2>10, FilesGoOn
<1>3. CASE GoesOn("give_up") /\ UNCHANGED files
  <2>1. NothingMoves
    BY <1>1, <1>3 DEF NothingMoves, files, IInv, Typed, DataTyped
  <2>2. ReplacingOK(t, "give_up", rows[t], jr, staged, disk)
    BY <1>1, StillPending DEF Placing, Placed
  <2> QED BY <1>1, <1>3, <2>1, <2>2, Proceeds DEF Placing
<1> QED BY <1>2, <1>3 DEF Place

LEMMA UnplaceKeeps ==
  ASSUME IInv, NEW t \in Tracks, Unplace(t)
  PROVE  IInv'
<1> DEFINE jr == journals[t]
           b == PendingOf(t, jr)
<1>1. /\ op \in Ops /\ op.of = t /\ jr \in Journals /\ IsPending(jr) /\ OnlyFiles
      /\ ReplacingOK(t, "unplace", rows[t], jr, staged, disk) /\ GoesOn("give_up")
  BY AtReplacing DEF Unplace, Placing
<1>2. CASE /\ staged' = [staged EXCEPT ![JobOf(t)] = TRUE]
           /\ disk' = [disk EXCEPT !.pending[Pending(t)] = Absent] /\ UNCHANGED covers
  <2>1. staged' = [staged EXCEPT ![jr.job] = TRUE] /\ disk' = [disk EXCEPT !.pending[b] = Absent]
    BY <1>2, JournalPaths
  <2>2. jr.job \in Jobs /\ Replaces[jr.job] = t /\ b \in SidesOf(t) /\ b \in SidePaths
    BY <1>1, TrackFacts, OpenFacts
  <2>0. disk.pending[b] = jr.job
    BY <1>1 DEF ReplacingOK, Placed
  <2> HIDE DEF b
  <2>3. /\ disk' \in Disks /\ disk'.pending = [disk.pending EXCEPT ![b] = Absent]
        /\ disk'.audio = disk.audio /\ disk'.retired = disk.retired
    <3>1. disk \in Disks /\ Absent \in Audio \cup {Absent}
      BY <2>2, TrackFacts
    <3> QED BY <2>1, <2>2, <3>1 DEF Disks
  <2>4. TrackOK(t, rows[t], jr, deletions[t], jobs, staged', disk')
    <3>1. TrackOK(t, rows[t], jr, deletions[t], jobs, [staged EXCEPT ![jr.job] = TRUE], disk')
      BY <1>1, <2>0, <2>3, TrackFacts, UnplaceMove DEF b
    <3> QED BY <2>1, <3>1
  <2>5. ReplacingOK(t, "give_up", rows[t], jr, staged', disk')
    BY <1>1, <2>3 DEF ReplacingOK, Placing, Placed, Swapping
  <2>6. Continues /\ op'.pc = "give_up"
    BY <1>1, GoesOnOp DEF Steps, Placing
  <2>7. OpOK(op', t, rows[t], jr, staged', disk')
    BY <2>5, <2>6, OpOKBy DEF Placing
  <2>8. FilesKeepTypes
    BY <1>2, <2>1, <2>3 DEF FilesKeepTypes, IInv, Typed, DataTyped
  <2>9. Elsewhere(t, disk, disk')
    BY <2>2, <2>3, TrackFacts, WritesElsewhere
  <2>10. \A j \in Jobs : Replaces[j] # t => staged'[j] = staged[j]
    BY <2>1, <2>2, TrackFacts
  <2> QED BY <1>1, <2>4, <2>6, <2>7, <2>8, <2>9, <2>10, FilesGoOn
<1>3. CASE UNCHANGED files
  <2>1. NothingMoves
    BY <1>1, <1>3 DEF NothingMoves, files, IInv, Typed, DataTyped
  <2>2. ReplacingOK(t, "give_up", rows[t], jr, staged, disk)
    BY <1>1, StillPending DEF Placing, Placed
  <2> QED BY <1>1, <2>1, <2>2, Proceeds DEF Placing
<1> QED BY <1>2, <1>3 DEF Unplace

LEMMA CoverSet ==
  ASSUME IInv, NEW i, NEW x \in {"whole", "empty", Absent},
         covers' = covers \/ covers' = [covers EXCEPT ![i] = x]
  PROVE  covers' \in [1..MaxIds -> {"whole", "empty", Absent}]
BY DEF IInv, Typed, DataTyped

LEMMA ArtworkKeeps ==
  ASSUME IInv, NEW t \in Tracks, PlaceArtwork(t) \/ WriteArtwork(t) \/ RemoveArtwork(t)
  PROVE  IInv'
<1> DEFINE jr == journals[t]
<1>1. PICK pc \in {"artwork", "write_artwork", "remove_artwork"} : At(pc) /\ op.of = t
  BY DEF PlaceArtwork, WriteArtwork, RemoveArtwork
<1>2. op \in Ops /\ ReplacingOK(t, pc, rows[t], jr, staged, disk)
  BY <1>1, AtReplacing DEF Placing
<1>3. NothingMoves
  <2>1. OnlyFiles /\ disk' = disk /\ staged' = staged
    BY DEF PlaceArtwork, WriteArtwork, RemoveArtwork
  <2>2. \E i, x \in {"whole", "empty", Absent} \cup {NewId(t)} :
          x \in {"whole", "empty", Absent} /\ (covers' = covers \/ covers' = [covers EXCEPT ![i] = x])
    BY DEF PlaceArtwork, WriteArtwork, RemoveArtwork
  <2> QED BY <2>1, <2>2, CoverSet DEF NothingMoves
<1>4. PICK next \in {"mark_artwork", "placed", "unplace", "remove_artwork"} : GoesOn(next)
  BY DEF PlaceArtwork, WriteArtwork, RemoveArtwork
<1>5. ReplacingOK(t, next, rows[t], jr, staged, disk)
  BY <1>2, StillPending DEF Placing, Placed
<1> QED BY <1>1, <1>2, <1>3, <1>4, <1>5, Proceeds DEF Placing

LEMMA GiveUpKeeps ==
  ASSUME IInv, NEW t \in Tracks, GiveUp(t)
  PROVE  IInv'
<1> DEFINE jr == journals[t]
<1>1. /\ op \in Ops /\ op.of = t /\ jr \in Journals /\ IsPending(jr) /\ OnlyJournals /\ End(TRUE)
      /\ ReplacingOK(t, "give_up", rows[t], jr, staged, disk)
  BY AtReplacing DEF GiveUp, Placing
<1>2. CASE Close(t)
  <2>1. journals' = [journals EXCEPT ![t] = NoJournal]
    BY <1>2 DEF Close
  <2>2. /\ OthersStay(t) /\ DataTyped' /\ journals'[t] = NoJournal
        /\ rows' = rows /\ deletions' = deletions /\ jobs' = jobs /\ staged' = staged /\ disk' = disk
    BY <1>1, <2>1, JournalOthers
  <2>3. disk.retired[RetiredOf(t, jr)] = Absent
    BY <1>1 DEF ReplacingOK, Placing
  <2>4. TrackOK(t, rows[t], NoJournal, deletions[t], jobs, staged, disk)
    BY <1>1, <2>3, TrackFacts, ClosesUndone
  <2> QED BY <1>1, <2>2, <2>4, EndStep
<1>3. CASE UNCHANGED journals
  <2>1. NothingMoves
    BY <1>1, <1>3 DEF NothingMoves, OnlyJournals, OnlyFiles, files, rowVars, IInv, Typed, DataTyped
  <2> QED BY <1>1, <2>1, OnlyEnds
<1> QED BY <1>2, <1>3 DEF GiveUp

LEMMA PhaseSet ==
  ASSUME IInv, NEW t \in Tracks, journals[t] \in Journals, NEW ph \in Phases, SetPhase(t, ph)
  PROVE  \E jr2 \in Journals :
           /\ journals' = [journals EXCEPT ![t] = jr2]
           /\ jr2.phase = ph /\ jr2.job = journals[t].job /\ jr2.from = journals[t].from
           /\ jr2.to = journals[t].to /\ jr2.old = journals[t].old
<1> DEFINE jr2 == [journals[t] EXCEPT !.phase = ph]
<1>1. /\ jr2 \in Journals /\ jr2.phase = ph /\ jr2.job = journals[t].job /\ jr2.from = journals[t].from
      /\ jr2.to = journals[t].to /\ jr2.old = journals[t].old
  BY DEF Journals
<1>2. journals' = [journals EXCEPT ![t] = jr2]
  BY DEF SetPhase
<1> HIDE DEF jr2
<1> QED BY <1>1, <1>2

\* A replacement's journal is at another phase or has its mark, and it goes on.
LEMMA JournalGoesOn ==
  ASSUME IInv, NEW t \in Tracks, op \in Ops, op.of = t, OnlyJournals, journals[t] \in Journals,
         IsPending(journals[t]), NEW jr2 \in Journals, journals' = [journals EXCEPT ![t] = jr2],
         IsPending(jr2), jr2.job = journals[t].job, jr2.from = journals[t].from,
         jr2.to = journals[t].to, jr2.old = journals[t].old,
         disk.retired[RetiredOf(t, journals[t])] # Absent => jr2.phase \in {"verified", "swapped"},
         NEW pc \in Placing \cup Swapping, NEW next \in Placing \cup Swapping, GoesOn(next),
         ReplacingOK(t, pc, rows[t], journals[t], staged, disk),
         next = "retire" => jr2.phase = "verified", next # "place", next # "commit",
         next \in Placing => pc \in Placing, next \in Placed => pc \in Placed,
         next \in Swapping => pc \in Swapping, next \notin {"swap", "unswap"}
  PROVE  IInv'
<1>1. /\ OthersStay(t) /\ DataTyped' /\ journals'[t] = jr2
      /\ rows' = rows /\ deletions' = deletions /\ jobs' = jobs /\ staged' = staged /\ disk' = disk
  BY JournalOthers
<1>2. TrackOK(t, rows[t], jr2, deletions[t], jobs, staged, disk)
  BY TrackFacts, Advances
<1>3. RetiredOf(t, jr2) = RetiredOf(t, journals[t]) /\ PendingOf(t, jr2) = PendingOf(t, journals[t])
  BY DEF RetiredOf, PendingOf
<1>4. ReplacingOK(t, next, rows[t], jr2, staged, disk)
  BY <1>3 DEF ReplacingOK
<1>5. Continues /\ op'.pc = next
  BY GoesOnOp DEF Steps
<1>6. OpOK(op', t, rows[t], jr2, staged, disk)
  BY <1>4, <1>5, OpOKBy
<1> QED BY <1>1, <1>2, <1>5, <1>6, ContinueStep

LEMMA AdvanceKeeps ==
  ASSUME IInv, NEW t \in Tracks, AdvancePlaced(t) \/ AdvanceVerified(t) \/ AdvanceSwapped(t)
  PROVE  IInv'
<1>1. PICK pc \in {"placed", "verify", "swapped"}, ph \in {"placed", "verified", "swapped"},
           next \in {"verify", "retire", "stream"} :
        /\ Advance(t, pc, ph, next)
        /\ \/ pc = "placed" /\ ph = "placed" /\ next = "verify"
           \/ pc = "verify" /\ ph = "verified" /\ next = "retire"
           \/ pc = "swapped" /\ ph = "swapped" /\ next = "stream"
  BY DEF AdvancePlaced, AdvanceVerified, AdvanceSwapped
<1>2. /\ op \in Ops /\ op.of = t /\ journals[t] \in Journals /\ IsPending(journals[t]) /\ OnlyJournals
      /\ ReplacingOK(t, pc, rows[t], journals[t], staged, disk)
  BY <1>1, AtReplacing DEF Advance, Placing, Swapping
<1>3. CASE SetPhase(t, ph) /\ GoesOn(next)
  <2>1. PICK jr2 \in Journals :
          /\ journals' = [journals EXCEPT ![t] = jr2]
          /\ jr2.phase = ph /\ jr2.job = journals[t].job /\ jr2.from = journals[t].from
          /\ jr2.to = journals[t].to /\ jr2.old = journals[t].old
    BY <1>2, <1>3, PhaseSet DEF Phases
  <2>2. IsPending(jr2)
    BY <2>1 DEF IsPending, NoJournal
  <2>3. disk.retired[RetiredOf(t, journals[t])] # Absent => jr2.phase \in {"verified", "swapped"}
    BY <1>1, <1>2, <2>1 DEF ReplacingOK, Placing
  <2> QED BY <1>1, <1>2, <1>3, <2>1, <2>2, <2>3, JournalGoesOn DEF Placing, Placed, Swapping
<1>4. CASE GoesOn("undo_swap") /\ UNCHANGED journals
  <2>1. NothingMoves
    BY <1>2, <1>4 DEF NothingMoves, OnlyJournals, OnlyFiles, files, rowVars, IInv, Typed, DataTyped
  <2> QED BY <1>2, <1>4, <2>1, TurnsBack
<1> QED BY <1>1, <1>3, <1>4 DEF Advance

LEMMA MarkKeeps ==
  ASSUME IInv, NEW t \in Tracks, MarkArtworkCreated(t)
  PROVE  IInv'
<1>1. /\ op \in Ops /\ op.of = t /\ journals[t] \in Journals /\ IsPending(journals[t]) /\ OnlyJournals
      /\ ReplacingOK(t, "mark_artwork", rows[t], journals[t], staged, disk)
  BY AtReplacing DEF MarkArtworkCreated, Placing
<1>2. CASE journals' = [journals EXCEPT ![t].isCoverCreated = TRUE] /\ GoesOn("write_artwork")
  <2> DEFINE jr2 == [journals[t] EXCEPT !.isCoverCreated = TRUE]
  <2>1. /\ jr2 \in Journals /\ jr2.phase = journals[t].phase /\ jr2.job = journals[t].job
        /\ jr2.from = journals[t].from /\ jr2.to = journals[t].to /\ jr2.old = journals[t].old
    BY <1>1 DEF Journals
  <2>2. journals' = [journals EXCEPT ![t] = jr2]
    BY <1>2
  <2> HIDE DEF jr2
  <2>3. IsPending(jr2)
    <3>1. NoJournal.phase = "closed" /\ journals[t].phase # "closed"
      BY <1>1 DEF NoJournal, Journals, Phases
    <3> QED BY <1>1, <2>1, <3>1 DEF IsPending
  <2>4. disk.retired[RetiredOf(t, journals[t])] = Absent
    BY <1>1 DEF ReplacingOK, Placing
  <2> QED BY <1>1, <1>2, <2>1, <2>2, <2>3, <2>4, JournalGoesOn DEF Placing, Placed, Swapping
<1>3. CASE GoesOn("remove_artwork") /\ UNCHANGED journals
  <2>1. NothingMoves
    BY <1>1, <1>3 DEF NothingMoves, OnlyJournals, OnlyFiles, files, rowVars, IInv, Typed, DataTyped
  <2>2. ReplacingOK(t, "remove_artwork", rows[t], journals[t], staged, disk)
    BY <1>1, StillPending DEF Placing, Placed
  <2> QED BY <1>1, <1>3, <2>1, <2>2, Proceeds DEF Placing
<1> QED BY <1>2, <1>3 DEF MarkArtworkCreated

LEMMA RetireKeeps ==
  ASSUME IInv, NEW t \in Tracks, Retire(t)
  PROVE  IInv'
<1> DEFINE jr == journals[t]
           a == jr.from
           b == RetiredOf(t, jr)
<1>1. /\ op \in Ops /\ op.of = t /\ jr \in Journals /\ IsPending(jr) /\ OnlyFiles
      /\ ReplacingOK(t, "retire", rows[t], jr, staged, disk) /\ UNCHANGED <<staged, covers>>
  BY AtReplacing DEF Retire, Placing
<1>2. CASE /\ disk' = [disk EXCEPT !.audio[From(t)] = Absent,
                                   !.retired[Retired(t)] = disk.audio[From(t)]]
           /\ GoesOn("swap")
  <2>1. disk' = [disk EXCEPT !.audio[a] = Absent, !.retired[b] = disk.audio[a]]
    BY <1>2, JournalPaths
  <2>2. a \in PathsOf(t) /\ a \in Paths /\ b \in SidesOf(t) /\ b \in SidePaths /\ jr.old \in Audio
    BY <1>1, TrackFacts, OpenFacts
  <2>3. rows[t].state = "here" /\ jr.phase = "verified" /\ disk.retired[b] = Absent
        /\ disk.pending[PendingOf(t, jr)] = jr.job
    BY <1>1 DEF ReplacingOK, Placing, Placed
  <2>4. disk.audio[a] = jr.old
    BY <1>1, <2>3, TrackFacts, PendingFacts DEF PendingOK
  <2> HIDE DEF a, b
  <2>5. /\ disk' \in Disks /\ disk'.audio = [disk.audio EXCEPT ![a] = Absent]
        /\ disk'.retired = [disk.retired EXCEPT ![b] = jr.old] /\ disk'.pending = disk.pending
    <3>1. disk \in Disks
      BY TrackFacts
    <3> QED BY <2>1, <2>2, <2>4, <3>1 DEF Disks
  <2>6. TrackOK(t, rows[t], jr, deletions[t], jobs, staged, disk')
    BY <1>1, <2>3, <2>5, TrackFacts, RetireMove DEF a, b
  <2>7. ReplacingOK(t, "swap", rows[t], jr, staged, disk')
    <3>1. disk'.audio[a] = Absent /\ disk'.retired[b] = jr.old
      BY <2>2, <2>5, TrackFacts DEF Disks
    <3> QED BY <1>1, <2>3, <2>5, <3>1 DEF ReplacingOK, Placing, Placed, Swapping, a, b
  <2>8. Continues /\ op'.pc = "swap"
    BY <1>1, <1>2, GoesOnOp DEF Steps, Swapping
  <2>9. OpOK(op', t, rows[t], jr, staged, disk')
    BY <2>7, <2>8, OpOKBy DEF Swapping
  <2>10. FilesKeepTypes
    BY <1>1, <2>5 DEF FilesKeepTypes, IInv, Typed, DataTyped
  <2>11. Elsewhere(t, disk, disk')
    <3>1. disk \in Disks
      BY TrackFacts
    <3> QED BY <2>2, <2>5, <3>1 DEF Elsewhere, Disks, PathsOf, SidesOf
  <2> QED BY <1>1, <2>6, <2>8, <2>9, <2>10, <2>11, FilesGoOn
<1>3. CASE GoesOn("undo_swap") /\ UNCHANGED disk
  <2>1. NothingMoves
    BY <1>1, <1>3 DEF NothingMoves, IInv, Typed, DataTyped
  <2> QED BY <1>1, <1>3, <2>1, TurnsBack
<1> QED BY <1>2, <1>3 DEF Retire

LEMMA SwapKeeps ==
  ASSUME IInv, NEW t \in Tracks, Swap(t)
  PROVE  IInv'
<1> DEFINE jr == journals[t]
           a == jr.to
           b == PendingOf(t, jr)
<1>1. /\ op \in Ops /\ op.of = t /\ jr \in Journals /\ IsPending(jr) /\ OnlyFiles
      /\ ReplacingOK(t, "swap", rows[t], jr, staged, disk) /\ UNCHANGED <<staged, covers>>
  BY AtReplacing DEF Swap, Swapping
<1>2. CASE /\ disk' = [disk EXCEPT !.pending[Pending(t)] = Absent,
                                   !.audio[To(t)] = disk.pending[Pending(t)]]
           /\ GoesOn("swapped")
  <2>1. disk' = [disk EXCEPT !.pending[b] = Absent, !.audio[a] = disk.pending[b]]
    BY <1>2, JournalPaths
  <2>2. a \in PathsOf(t) /\ a \in Paths /\ b \in SidesOf(t) /\ b \in SidePaths /\ jr.job \in Audio
        /\ jr.from \in PathsOf(t) /\ jr.from \in Paths
    BY <1>1, TrackFacts, OpenFacts
  <2>3. disk.retired[RetiredOf(t, jr)] = jr.old /\ disk.pending[b] = jr.job
        /\ disk.audio[jr.from] = Absent
    BY <1>1 DEF ReplacingOK, Swapping, Placed
  <2> HIDE DEF a, b
  <2>5. /\ disk' \in Disks /\ disk'.audio = [disk.audio EXCEPT ![a] = jr.job]
        /\ disk'.pending = [disk.pending EXCEPT ![b] = Absent] /\ disk'.retired = disk.retired
    <3>1. disk \in Disks
      BY TrackFacts
    <3> QED BY <2>1, <2>2, <2>3, <3>1 DEF Disks
  <2>6. TrackOK(t, rows[t], jr, deletions[t], jobs, staged, disk')
    BY <1>1, <2>3, <2>5, TrackFacts, SwapMove DEF a, b
  <2>7. ReplacingOK(t, "swapped", rows[t], jr, staged, disk')
    <3>1. jr.from # a => disk'.audio[jr.from] = Absent
      BY <2>2, <2>3, <2>5, TrackFacts DEF Disks
    <3> QED BY <1>1, <2>3, <2>5, <3>1 DEF ReplacingOK, Placing, Placed, Swapping, a
  <2>8. Continues /\ op'.pc = "swapped"
    BY <1>1, <1>2, GoesOnOp DEF Steps, Swapping
  <2>9. OpOK(op', t, rows[t], jr, staged, disk')
    BY <2>7, <2>8, OpOKBy DEF Swapping
  <2>10. FilesKeepTypes
    BY <1>1, <2>5 DEF FilesKeepTypes, IInv, Typed, DataTyped
  <2>11. Elsewhere(t, disk, disk')
    <3>1. disk \in Disks
      BY TrackFacts
    <3> QED BY <2>2, <2>5, <3>1 DEF Elsewhere, Disks, PathsOf, SidesOf
  <2> QED BY <1>1, <2>6, <2>8, <2>9, <2>10, <2>11, FilesGoOn
<1>3. CASE GoesOn("unswap") /\ UNCHANGED disk
  <2>1. NothingMoves
    BY <1>1, <1>3 DEF NothingMoves, IInv, Typed, DataTyped
  <2>2. ReplacingOK(t, "unswap", rows[t], jr, staged, disk)
    BY <1>1 DEF ReplacingOK, Placing, Placed, Swapping
  <2> QED BY <1>1, <1>3, <2>1, <2>2, Proceeds DEF Swapping
<1> QED BY <1>2, <1>3 DEF Swap

\* The old file is put back, by the swap itself or by a rollback.
Restores(t) ==
  disk' = [disk EXCEPT !.retired[Retired(t)] = Absent, !.audio[From(t)] = disk.retired[Retired(t)]]

LEMMA RestoredStep ==
  ASSUME IInv, NEW t \in Tracks, op \in Ops, op.of = t, journals[t] \in Journals,
         IsPending(journals[t]), OnlyFiles, UNCHANGED <<staged, covers>>,
         disk.retired[RetiredOf(t, journals[t])] # Absent, disk.audio[journals[t].from] = Absent,
         Restores(t), NEW pc \in Undoing, GoesOn(pc)
  PROVE  IInv'
<1> DEFINE jr == journals[t]
           a == jr.from
           b == RetiredOf(t, jr)
<1>1. disk' = [disk EXCEPT !.retired[b] = Absent, !.audio[a] = disk.retired[b]]
  BY JournalPaths DEF Restores
<1>2. a \in PathsOf(t) /\ a \in Paths /\ b \in SidesOf(t) /\ b \in SidePaths /\ jr.old \in Audio
  BY TrackFacts, OpenFacts
<1>3. disk.retired[b] = jr.old
  BY TrackFacts, PendingFacts DEF OpenOK
<1> HIDE DEF a, b
<1>4. /\ disk' \in Disks /\ disk'.audio = [disk.audio EXCEPT ![a] = jr.old]
      /\ disk'.retired = [disk.retired EXCEPT ![b] = Absent] /\ disk'.pending = disk.pending
  <2>1. disk \in Disks
    BY TrackFacts
  <2> QED BY <1>1, <1>2, <1>3, <2>1 DEF Disks
<1>5. TrackOK(t, rows[t], jr, deletions[t], jobs, staged, disk')
  BY <1>3, <1>4, TrackFacts, RestoreMove DEF a, b
<1>6. UndoingOK(t, pc, op'.isBroken, jr, disk')
  <2>1. disk'.retired[b] = Absent
    BY <1>2, <1>4, TrackFacts DEF Disks
  <2> QED BY <2>1 DEF UndoingOK, b
<1>7. Continues /\ op'.pc = pc
  BY GoesOnOp DEF Steps
<1>8. OpOK(op', t, rows[t], jr, staged, disk')
  BY <1>6, <1>7, OpOKBy
<1>9. FilesKeepTypes
  BY <1>4 DEF FilesKeepTypes, IInv, Typed, DataTyped
<1>10. Elsewhere(t, disk, disk')
  <2>1. disk.audio \in [Paths -> Audio \cup {Absent}] /\ disk.retired \in [SidePaths -> Audio \cup {Absent}]
    BY TrackFacts DEF Disks
  <2>2. \A p \in Paths : p \notin PathsOf(t) => disk'.audio[p] = disk.audio[p]
    BY <1>2, <1>4, <2>1
  <2>3. \A p \in SidePaths : p \notin SidesOf(t) => disk'.retired[p] = disk.retired[p]
    BY <1>2, <1>4, <2>1
  <2> QED BY <1>4, <2>2, <2>3 DEF Elsewhere
<1> QED BY <1>5, <1>7, <1>8, <1>9, <1>10, FilesGoOn

LEMMA UnswapKeeps ==
  ASSUME IInv, NEW t \in Tracks, Unswap(t)
  PROVE  IInv'
<1> DEFINE jr == journals[t]
<1>1. /\ op \in Ops /\ op.of = t /\ jr \in Journals /\ IsPending(jr) /\ OnlyFiles /\ GoesOn("undo_swap")
      /\ ReplacingOK(t, "unswap", rows[t], jr, staged, disk) /\ UNCHANGED <<staged, covers>>
  BY AtReplacing DEF Unswap, Swapping
<1>2. CASE disk' = [disk EXCEPT !.retired[Retired(t)] = Absent,
                                !.audio[From(t)] = disk.retired[Retired(t)]]
  <2>1. disk.retired[RetiredOf(t, jr)] # Absent /\ disk.audio[jr.from] = Absent
    BY <1>1, TrackFacts, OpenFacts DEF ReplacingOK, Swapping
  <2> QED BY <1>1, <1>2, <2>1, RestoredStep DEF Undoing, Restores
<1>3. CASE UNCHANGED disk
  <2>1. NothingMoves
    BY <1>1, <1>3 DEF NothingMoves, IInv, Typed, DataTyped
  <2> QED BY <1>1, <2>1, TurnsBack
<1> QED BY <1>2, <1>3 DEF Unswap

LEMMA StreamKeeps ==
  ASSUME IInv, NEW t \in Tracks, StreamSwapped(t)
  PROVE  IInv'
<1> DEFINE jr == journals[t]
<1>1. /\ op \in Ops /\ op.of = t /\ jr \in Journals /\ IsPending(jr) /\ Nothing
      /\ ReplacingOK(t, "stream", rows[t], jr, staged, disk)
  BY AtReplacing DEF StreamSwapped, Swapping
<1>2. NothingMoves
  BY <1>1 DEF NothingMoves, Nothing, files, IInv, Typed, DataTyped
<1>3. CASE disk.audio[To(t)] = JobOf(t) /\ GoesOn("commit")
  <2>1. ReplacingOK(t, "commit", rows[t], jr, staged, disk)
    BY <1>1, <1>3, JournalPaths DEF ReplacingOK, Placing, Placed, Swapping
  <2> QED BY <1>1, <1>2, <1>3, <2>1, Proceeds DEF Swapping
<1>4. CASE GoesOn("undo_swap")
  BY <1>1, <1>2, <1>4, TurnsBack
<1> QED BY <1>3, <1>4 DEF StreamSwapped

\* The row of a replaced Track (update_replaced_track).
LEMMA RowReplaced ==
  ASSUME IInv, NEW t \in Tracks, journals[t] \in Journals, rows' = ReplacedTrack(t)
  PROVE  \E r2 \in Rows :
           /\ rows' = [rows EXCEPT ![t] = r2] /\ r2.state = rows[t].state
           /\ r2.album = journals[t].to[2] /\ r2.version = journals[t].job
           /\ r2.replaced = rows[t].replaced + 1
<1> DEFINE r2 == [rows[t] EXCEPT !.album = NewId(t), !.version = JobOf(t), !.replaced = rows[t].replaced + 1]
<1>1. rows \in [Tracks -> Rows] /\ rows[t] \in Rows
  BY DEF IInv, Typed, DataTyped
<1>2. NewId(t) = journals[t].to[2] /\ JobOf(t) = journals[t].job
  BY JournalPaths
<1>3. NewId(t) \in 1..MaxIds /\ JobOf(t) \in Audio
  BY <1>2 DEF Journals, Paths, Audio
<1>4. /\ r2 \in Rows /\ r2.state = rows[t].state /\ r2.album = NewId(t) /\ r2.version = JobOf(t)
      /\ r2.replaced = rows[t].replaced + 1
  <2>1. PICK r \in Rows, i \in 1..MaxIds, v \in Audio, n \in Nat :
          r = rows[t] /\ i = NewId(t) /\ v = JobOf(t) /\ n = rows[t].replaced + 1
    BY <1>1, <1>3 DEF Rows
  <2> DEFINE q == [r EXCEPT !.album = i, !.version = v, !.replaced = n]
  <2>2. q \in Rows /\ q.state = r.state /\ q.album = i /\ q.version = v /\ q.replaced = n
    BY DEF Rows
  <2>3. q = r2
    BY <2>1
  <2> HIDE DEF q, r2
  <2> QED BY <2>1, <2>2, <2>3
<1>5. rows' = [rows EXCEPT ![t] = r2]
  BY <1>1 DEF ReplacedTrack
<1> HIDE DEF r2
<1> QED BY <1>2, <1>4, <1>5

\* The rows of Albums and of their artwork, with a Track that leaves one of them.
LEMMA AlbumsWithout ==
  ASSUME IInv, NEW t \in Tracks
  PROVE  IdsWithout(t) \in [Albums -> 0..MaxIds] /\ ArtworkWithout(t) \subseteq 1..MaxIds
<1>1. ids \in [Albums -> 0..MaxIds] /\ artwork \subseteq 1..MaxIds /\ MaxIds \in Nat
  BY DEF IInv, Typed, DataTyped, ConstantsOK
<1>2. ArtworkWithout(t) \subseteq 1..MaxIds
  BY <1>1 DEF ArtworkWithout
<1>3. IdsWithout(t) \in [Albums -> 0..MaxIds]
  BY <1>1 DEF IdsWithout
<1> QED BY <1>2, <1>3

LEMMA DataReplaced ==
  ASSUME IInv, NEW t \in Tracks, journals[t] \in Journals, IsPending(journals[t]),
         ReplacingOK(t, "commit", rows[t], journals[t], staged, disk),
         ReplacementData(t), SetPhase(t, "database_committed"), UNCHANGED <<jobs, deletions, files, made>>
  PROVE  /\ OthersStay(t) /\ DataTyped' /\ IsCommitted(journals'[t])
         /\ TrackOK(t, rows'[t], journals'[t], deletions'[t], jobs', staged', disk')
<1> DEFINE jr == journals[t]
<1>1. PICK r2 \in Rows :
        /\ rows' = [rows EXCEPT ![t] = r2] /\ r2.state = rows[t].state /\ r2.album = jr.to[2]
        /\ r2.version = jr.job /\ r2.replaced = rows[t].replaced + 1
  <2>1. rows' = ReplacedTrack(t)
    BY DEF ReplacementData
  <2> QED BY <2>1, RowReplaced
<1>2. PICK jr2 \in Journals :
        /\ journals' = [journals EXCEPT ![t] = jr2] /\ jr2.phase = "database_committed"
        /\ jr2.job = jr.job /\ jr2.from = jr.from /\ jr2.to = jr.to /\ jr2.old = jr.old
  BY PhaseSet DEF Phases
<1>3. /\ rows \in [Tracks -> Rows] /\ journals \in [Tracks -> Journals \cup {NoJournal}]
      /\ jobs' = jobs /\ deletions' = deletions /\ staged' = staged /\ disk' = disk
      /\ covers' = covers /\ made' = made
  BY DEF IInv, Typed, DataTyped, files
<1>4. /\ rows'[t] = r2 /\ journals'[t] = jr2
      /\ \A u \in Tracks : u # t => rows'[u] = rows[u] /\ journals'[u] = journals[u]
      /\ rows' \in [Tracks -> Rows] /\ journals' \in [Tracks -> Journals \cup {NoJournal}]
  BY <1>1, <1>2, <1>3
<1>5. ids' \in [Albums -> 0..MaxIds] /\ artwork' \subseteq 1..MaxIds
  <2>1. NewId(t) \in 1..MaxIds /\ NewId(t) \in 0..MaxIds
    BY JournalPaths DEF Journals, Paths, IInv, ConstantsOK
  <2>2. ids \in [Albums -> 0..MaxIds] /\ artwork \subseteq 1..MaxIds
    BY DEF IInv, Typed, DataTyped
  <2>3. artwork' \subseteq 1..MaxIds
    BY <2>1, <2>2, AlbumsWithout DEF ReplacementData
  <2>4. PICK f \in [Albums -> 0..MaxIds] : ids' = [f EXCEPT ![AlbumOf[JobOf(t)]] = NewId(t)]
    BY <2>2, AlbumsWithout DEF ReplacementData
  <2> QED BY <2>1, <2>3, <2>4
<1>6. DataTyped'
  BY <1>3, <1>4, <1>5 DEF IInv, Typed, DataTyped
<1>7. OthersStay(t)
  BY <1>3, <1>4 DEF OthersStay, Elsewhere
<1>8. /\ disk.retired[RetiredOf(t, jr)] = jr.old /\ disk.audio[jr.to] = jr.job /\ rows[t].state = "here"
      /\ jr.from # jr.to => disk.audio[jr.from] = Absent
  BY DEF ReplacingOK, Swapping
<1>9. TrackOK(t, r2, jr2, deletions[t], jobs, staged, disk)
  BY <1>1, <1>2, <1>8, TrackFacts, Commits
<1>10. IsCommitted(jr2)
  BY <1>2 DEF IsCommitted, NoJournal
<1> QED BY <1>3, <1>4, <1>6, <1>7, <1>9, <1>10

LEMMA CommitKeeps ==
  ASSUME IInv, NEW t \in Tracks, CommitData(t)
  PROVE  IInv'
<1>1. /\ op \in Ops /\ op.of = t /\ journals[t] \in Journals /\ IsPending(journals[t])
      /\ ReplacingOK(t, "commit", rows[t], journals[t], staged, disk)
      /\ UNCHANGED <<jobs, deletions, files, made>>
  BY AtReplacing DEF CommitData, Swapping
<1>2. ASSUME ReplacementData(t), SetPhase(t, "database_committed"), GoesOn("unretire")
      PROVE  IInv'
  <2>1. /\ OthersStay(t) /\ DataTyped' /\ IsCommitted(journals'[t])
        /\ TrackOK(t, rows'[t], journals'[t], deletions'[t], jobs', staged', disk')
    BY <1>1, <1>2, DataReplaced
  <2>2. Continues /\ op'.pc = "unretire"
    BY <1>1, <1>2, GoesOnOp DEF Steps, Completing
  <2>3. CompletingOK(t, "unretire", journals'[t], disk')
    BY <2>1 DEF CompletingOK
  <2>4. OpOK(op', t, rows'[t], journals'[t], staged', disk')
    BY <2>2, <2>3, OpOKBy DEF Completing
  <2> QED BY <1>1, <2>1, <2>2, <2>4, ContinueStep
<1>3. ASSUME ReplacementData(t), SetPhase(t, "database_committed"), End(TRUE)
      PROVE  IInv'
  BY <1>1, <1>3, DataReplaced, EndStep
<1>4. ASSUME GoesOn("undo_swap"), UNCHANGED <<rowVars, journals>>
      PROVE  IInv'
  <2>1. NothingMoves
    BY <1>1, <1>4 DEF NothingMoves, OnlyFiles, files, IInv, Typed, DataTyped
  <2> QED BY <1>1, <1>4, <2>1, TurnsBack
<1> QED BY <1>2, <1>3, <1>4 DEF CommitData

-----------------------------------------------------------------------------
(* The rollback of a replacement *)

\* A part of it that is not needed or that fails.
LEMMA PartPasses ==
  ASSUME IInv, NEW t \in Tracks, op \in Ops, op.of = t, IsPending(journals[t]), NothingMoves,
         NEW next \in Undoing,
         Broken(next) \/ (GoesOn(next) /\ UndoingOK(t, next, op.isBroken, journals[t], disk))
  PROVE  IInv'
<1>1. Continues /\ op'.pc = next /\ UndoingOK(t, next, op'.isBroken, journals[t], disk)
  <2>1. CASE Broken(next)
    <3>1. Continues /\ op'.pc = next /\ op'.isBroken = TRUE
      BY <2>1, BrokenOp DEF Steps
    <3> QED BY <3>1 DEF UndoingOK
  <2>2. CASE GoesOn(next) /\ UndoingOK(t, next, op.isBroken, journals[t], disk)
    <3>1. Continues /\ op'.pc = next /\ op'.isBroken = op.isBroken
      BY <2>2, GoesOnOp DEF Steps
    <3> QED BY <2>2, <3>1
  <2> QED BY <2>1, <2>2
<1>2. OpOK(op', t, rows[t], journals[t], staged, disk)
  BY <1>1, OpOKBy
<1> QED BY <1>1, <1>2, OnlyGoesOn

LEMMA UndoSwapKeeps ==
  ASSUME IInv, NEW t \in Tracks, UndoSwap(t)
  PROVE  IInv'
<1> DEFINE jr == journals[t]
           a == jr.to
           b == PendingOf(t, jr)
           isNeeded == IsSwapBegun(t) /\ disk.audio[To(t)] # Absent
           isBlocked == disk.pending[Pending(t)] # Absent
           Effect == /\ disk' = [disk EXCEPT !.audio[To(t)] = Absent, !.pending[Pending(t)] = disk.audio[To(t)]]
                     /\ UNCHANGED <<staged, covers>>
<1>1. /\ op \in Ops /\ op.of = t /\ jr \in Journals /\ IsPending(jr) /\ OnlyFiles
  BY AtUndoing DEF UndoSwap, Part, Undoing
<1>2. ASSUME isNeeded, ~isBlocked, Effect, GoesOn("undo_retire")
      PROVE  IInv'
  <2>1. disk' = [disk EXCEPT !.audio[a] = Absent, !.pending[b] = disk.audio[a]]
    BY <1>2, JournalPaths
  <2>2. a \in PathsOf(t) /\ a \in Paths /\ b \in SidesOf(t) /\ b \in SidePaths
    BY <1>1, TrackFacts, OpenFacts
  <2>3. /\ disk.retired[RetiredOf(t, jr)] # Absent /\ disk.audio[a] # Absent /\ disk.pending[b] = Absent
        /\ staged' = staged /\ covers' = covers
    BY <1>2, JournalPaths DEF IsSwapBegun
  <2>4. PICK x \in Audio : x = disk.audio[a]
    BY <2>2, <2>3, TrackFacts DEF Disks
  <2> HIDE DEF a, b
  <2>5. /\ disk' \in Disks /\ disk'.audio = [disk.audio EXCEPT ![a] = Absent]
        /\ disk'.pending = [disk.pending EXCEPT ![b] = x] /\ disk'.retired = disk.retired
    <3>1. disk \in Disks
      BY TrackFacts
    <3>2. disk' = [disk EXCEPT !.audio[a] = Absent, !.pending[b] = x]
      BY <2>1, <2>4
    <3> QED BY <2>2, <3>1, <3>2 DEF Disks
  <2>6. TrackOK(t, rows[t], jr, deletions[t], jobs, staged, disk')
    BY <1>1, <2>3, <2>4, <2>5, TrackFacts, UndoSwapMove DEF a, b
  <2>7. UndoingOK(t, "undo_retire", op'.isBroken, jr, disk')
    BY <1>1 DEF UndoingOK
  <2>8. Continues /\ op'.pc = "undo_retire"
    BY <1>1, <1>2, GoesOnOp DEF Steps, Undoing
  <2>9. OpOK(op', t, rows[t], jr, staged, disk')
    BY <2>7, <2>8, OpOKBy DEF Undoing
  <2>10. FilesKeepTypes
    BY <2>3, <2>5 DEF FilesKeepTypes, IInv, Typed, DataTyped
  <2>11. Elsewhere(t, disk, disk')
    <3>1. disk \in Disks
      BY TrackFacts
    <3> QED BY <2>2, <2>5, <3>1 DEF Elsewhere, Disks, PathsOf, SidesOf
  <2>12. /\ TrackOK(t, rows[t], jr, deletions[t], jobs, staged', disk')
         /\ OpOK(op', t, rows[t], jr, staged', disk')
         /\ \A j \in Jobs : staged'[j] = staged[j]
    BY <2>3, <2>6, <2>9
  <2> QED BY <1>1, <2>8, <2>10, <2>11, <2>12, FilesGoOn
<1>3. ASSUME UNCHANGED files, GoesOn("undo_retire") \/ Broken("undo_retire")
      PROVE  IInv'
  <2>1. NothingMoves
    BY <1>1, <1>3 DEF NothingMoves, files, IInv, Typed, DataTyped
  <2>2. UndoingOK(t, "undo_retire", op.isBroken, jr, disk)
    BY <1>1 DEF UndoingOK
  <2> QED BY <1>1, <1>3, <2>1, <2>2, PartPasses DEF Undoing
<1> HIDE DEF isNeeded, isBlocked, Effect
<1>4. Part(t, "undo_swap", "undo_retire", isNeeded, isBlocked, Effect)
  BY DEF UndoSwap, isNeeded, isBlocked, Effect
<1> QED BY <1>2, <1>3, <1>4 DEF Part

LEMMA UndoRetireKeeps ==
  ASSUME IInv, NEW t \in Tracks, UndoRetire(t)
  PROVE  IInv'
<1> DEFINE jr == journals[t]
           isBlocked == disk.audio[From(t)] # Absent
           Effect == Restores(t) /\ UNCHANGED <<staged, covers>>
<1>1. /\ op \in Ops /\ op.of = t /\ jr \in Journals /\ IsPending(jr) /\ OnlyFiles
  BY AtUndoing DEF UndoRetire, Part, Undoing
<1>2. ASSUME IsSwapBegun(t), ~isBlocked, Effect, GoesOn("undo_place")
      PROVE  IInv'
  <2>1. disk.retired[RetiredOf(t, jr)] # Absent /\ disk.audio[jr.from] = Absent
    BY <1>2, JournalPaths DEF IsSwapBegun
  <2>2. Restores(t) /\ UNCHANGED <<staged, covers>>
    BY <1>2
  <2> QED BY <1>1, <1>2, <2>1, <2>2, RestoredStep DEF Undoing
<1>3. ASSUME UNCHANGED files, (~IsSwapBegun(t) /\ GoesOn("undo_place")) \/ Broken("undo_place")
      PROVE  IInv'
  <2>1. NothingMoves
    BY <1>1, <1>3 DEF NothingMoves, files, IInv, Typed, DataTyped
  <2>2. ~IsSwapBegun(t) => UndoingOK(t, "undo_place", op.isBroken, jr, disk)
    BY <1>1, JournalPaths DEF UndoingOK, IsSwapBegun
  <2> QED BY <1>1, <1>3, <2>1, <2>2, PartPasses DEF Undoing
<1> HIDE DEF isBlocked, Effect
<1>4. Part(t, "undo_retire", "undo_place", IsSwapBegun(t), isBlocked, Effect)
  BY DEF UndoRetire, isBlocked, Effect, Restores
<1> QED BY <1>2, <1>3, <1>4 DEF Part

LEMMA UndoPlaceKeeps ==
  ASSUME IInv, NEW t \in Tracks, UndoPlace(t)
  PROVE  IInv'
<1> DEFINE jr == journals[t]
           b == PendingOf(t, jr)
           isNeeded == disk.pending[Pending(t)] # Absent
           isBlocked == staged[JobOf(t)]
           Effect == /\ disk' = [disk EXCEPT !.pending[Pending(t)] = Absent]
                     /\ staged' = [staged EXCEPT ![JobOf(t)] = TRUE]
                     /\ UNCHANGED covers
<1>1. /\ op \in Ops /\ op.of = t /\ jr \in Journals /\ IsPending(jr) /\ OnlyFiles
      /\ UndoingOK(t, "undo_place", op.isBroken, jr, disk)
  BY AtUndoing DEF UndoPlace, Part, Undoing
<1>2. ASSUME isNeeded, ~isBlocked, Effect, GoesOn("undo_artwork")
      PROVE  IInv'
  <2>1. staged' = [staged EXCEPT ![jr.job] = TRUE] /\ disk' = [disk EXCEPT !.pending[b] = Absent]
        /\ covers' = covers
    BY <1>2, JournalPaths
  <2>2. jr.job \in Jobs /\ Replaces[jr.job] = t /\ b \in SidesOf(t) /\ b \in SidePaths
    BY <1>1, TrackFacts, OpenFacts
  <2>0. disk.pending[b] = jr.job
    <3>1. ~staged[jr.job] /\ disk.pending[b] # Absent
      BY <1>2, JournalPaths
    <3> QED BY <1>1, <3>1, TrackFacts, PendingFacts DEF PendingOK
  <2> HIDE DEF b
  <2>3. /\ disk' \in Disks /\ disk'.pending = [disk.pending EXCEPT ![b] = Absent]
        /\ disk'.audio = disk.audio /\ disk'.retired = disk.retired
    <3>1. disk \in Disks /\ Absent \in Audio \cup {Absent}
      BY <2>2, TrackFacts
    <3> QED BY <2>1, <2>2, <3>1 DEF Disks
  <2>4. TrackOK(t, rows[t], jr, deletions[t], jobs, staged', disk')
    <3>1. TrackOK(t, rows[t], jr, deletions[t], jobs, [staged EXCEPT ![jr.job] = TRUE], disk')
      BY <1>1, <2>0, <2>3, TrackFacts, UnplaceMove DEF b
    <3> QED BY <2>1, <3>1
  <2>6. Continues /\ op'.pc = "undo_artwork" /\ op'.isBroken = op.isBroken
    BY <1>1, <1>2, GoesOnOp DEF Steps, Undoing
  <2>5. UndoingOK(t, "undo_artwork", op'.isBroken, jr, disk')
    BY <1>1, <2>3, <2>6 DEF UndoingOK
  <2>7. OpOK(op', t, rows[t], jr, staged', disk')
    BY <2>5, <2>6, OpOKBy DEF Undoing
  <2>8. FilesKeepTypes
    BY <2>1, <2>3 DEF FilesKeepTypes, IInv, Typed, DataTyped
  <2>9. Elsewhere(t, disk, disk')
    BY <2>2, <2>3, TrackFacts, WritesElsewhere
  <2>10. \A j \in Jobs : Replaces[j] # t => staged'[j] = staged[j]
    BY <2>1, <2>2, TrackFacts
  <2> QED BY <1>1, <2>4, <2>6, <2>7, <2>8, <2>9, <2>10, FilesGoOn
<1>3. ASSUME UNCHANGED files, GoesOn("undo_artwork") \/ Broken("undo_artwork")
      PROVE  IInv'
  <2>1. NothingMoves
    BY <1>1, <1>3 DEF NothingMoves, files, IInv, Typed, DataTyped
  <2>2. UndoingOK(t, "undo_artwork", op.isBroken, jr, disk)
    BY <1>1 DEF UndoingOK
  <2> QED BY <1>1, <1>3, <2>1, <2>2, PartPasses DEF Undoing
<1> HIDE DEF isNeeded, isBlocked, Effect
<1>4. Part(t, "undo_place", "undo_artwork", isNeeded, isBlocked, Effect)
  BY DEF UndoPlace, isNeeded, isBlocked, Effect
<1> QED BY <1>2, <1>3, <1>4 DEF Part

LEMMA UndoArtworkKeeps ==
  ASSUME IInv, NEW t \in Tracks, UndoArtwork(t)
  PROVE  IInv'
<1>1. /\ op \in Ops /\ op.of = t /\ IsPending(journals[t]) /\ OnlyFiles
      /\ UndoingOK(t, "undo_artwork", op.isBroken, journals[t], disk)
  BY AtUndoing DEF UndoArtwork, Part, Undoing
<1>2. GoesOn("undone") \/ Broken("undone")
  BY DEF UndoArtwork, Part
<1>3. disk' = disk /\ staged' = staged
  BY DEF UndoArtwork, Part, files
<1>4. covers' = covers \/ covers' = [covers EXCEPT ![NewId(t)] = Absent]
  BY DEF UndoArtwork, Part, files
<1>5. NothingMoves
  BY <1>1, <1>3, <1>4, CoverSet DEF NothingMoves
<1>6. UndoingOK(t, "undone", op.isBroken, journals[t], disk)
  BY <1>1 DEF UndoingOK
<1> QED BY <1>1, <1>2, <1>5, <1>6, PartPasses DEF Undoing

\* The journal is closed and the operation over, or a confirmation goes on.
LEMMA UndoneKeeps ==
  ASSUME IInv, NEW t \in Tracks, Undone(t)
  PROVE  IInv'
<1> DEFINE jr == journals[t]
<1>1. /\ op \in Ops /\ op.of = t /\ jr \in Journals /\ IsPending(jr) /\ OnlyJournals
      /\ UndoingOK(t, "undone", op.isBroken, jr, disk)
  BY AtUndoing DEF Undone, Undoing
<1>2. ASSUME ~op.isBroken, Close(t), Recovered
      PROVE  IInv'
  <2>1. journals' = [journals EXCEPT ![t] = NoJournal]
    BY <1>2 DEF Close
  <2>2. /\ OthersStay(t) /\ DataTyped' /\ journals'[t] = NoJournal
        /\ rows' = rows /\ deletions' = deletions /\ jobs' = jobs /\ staged' = staged /\ disk' = disk
    BY <1>1, <2>1, JournalOthers
  <2>3. disk.retired[RetiredOf(t, jr)] = Absent
    BY <1>1, <1>2 DEF UndoingOK
  <2>4. TrackOK(t, rows[t], NoJournal, deletions[t], jobs, staged, disk)
    BY <1>1, <2>3, TrackFacts, ClosesUndone
  <2>5. CASE op.kind = "reconfirm"
    <3>1. op' = [op EXCEPT !.kind = "confirm", !.pc = "journal"] /\ server' = server
      BY <1>2, <2>5 DEF Recovered
    <3>2. op' \in Ops /\ op'.of = op.of /\ op'.on = op.on /\ op'.pc = "journal"
      BY <1>1, <3>1 DEF Ops, Steps
    <3>3. op.on = "request"
      <4>1. op # NoOp
        BY <1>1, OpIsNotNone
      <4> QED BY <2>5, <4>1 DEF IInv, ServerOK
    <3>4. Continues
      BY <3>1, <3>2, <3>3 DEF Continues
    <3>5. OpOK(op', t, rows[t], NoJournal, staged, disk)
      BY <3>2, OpOKBy
    <3> QED BY <1>1, <2>2, <2>4, <3>4, <3>5, ContinueStep
  <2>6. CASE op.kind # "reconfirm"
    <3>1. End(op.kind # "recover") /\ ~IsPending(NoJournal)
      BY <1>2, <2>6 DEF Recovered, IsPending
    <3> QED BY <1>1, <2>2, <2>4, <3>1, EndStep
  <2> QED BY <2>5, <2>6
<1>3. ASSUME End(TRUE), UNCHANGED journals
      PROVE  IInv'
  <2>1. NothingMoves
    BY <1>1, <1>3 DEF NothingMoves, OnlyJournals, OnlyFiles, files, rowVars, IInv, Typed, DataTyped
  <2> QED BY <1>1, <1>3, <2>1, OnlyEnds
<1> QED BY <1>2, <1>3 DEF Undone

-----------------------------------------------------------------------------
(* The completion of a replacement *)

LEMMA RemoveRetiredKeeps ==
  ASSUME IInv, NEW t \in Tracks, RemoveRetired(t)
  PROVE  IInv'
<1> DEFINE jr == journals[t]
           b == RetiredOf(t, jr)
<1>1. /\ op \in Ops /\ op.of = t /\ jr \in Journals /\ IsCommitted(jr) /\ OnlyFiles
      /\ UNCHANGED <<staged, covers>>
  BY AtCompleting DEF RemoveRetired, Completing
<1>2. CASE disk' = [disk EXCEPT !.retired[Retired(t)] = Absent] /\ GoesOn("uncover")
  <2>1. disk' = [disk EXCEPT !.retired[b] = Absent]
    BY <1>2, JournalPaths
  <2>2. b \in SidesOf(t) /\ b \in SidePaths
    BY <1>1, TrackFacts, OpenFacts
  <2> HIDE DEF b
  <2>3. /\ disk' \in Disks /\ disk'.retired = [disk.retired EXCEPT ![b] = Absent]
        /\ disk'.audio = disk.audio /\ disk'.pending = disk.pending
    <3>1. disk \in Disks /\ Absent \in Audio \cup {Absent}
      BY <2>2, TrackFacts
    <3> QED BY <2>1, <2>2, <3>1 DEF Disks
  <2>4. TrackOK(t, rows[t], jr, deletions[t], jobs, staged, disk')
    BY <1>1, <2>3, TrackFacts, DropRetired DEF b
  <2>5. CompletingOK(t, "uncover", jr, disk')
    <3>1. disk'.retired[b] = Absent
      BY <2>2, <2>3, TrackFacts DEF Disks
    <3> QED BY <1>1, <3>1 DEF CompletingOK, b
  <2>6. Continues /\ op'.pc = "uncover"
    BY <1>1, <1>2, GoesOnOp DEF Steps, Completing
  <2>7. OpOK(op', t, rows[t], jr, staged, disk')
    BY <2>5, <2>6, OpOKBy DEF Completing
  <2>8. FilesKeepTypes
    BY <1>1, <2>3 DEF FilesKeepTypes, IInv, Typed, DataTyped
  <2>9. Elsewhere(t, disk, disk')
    BY <2>2, <2>3, TrackFacts, WritesElsewhere
  <2> QED BY <1>1, <2>4, <2>6, <2>7, <2>8, <2>9, FilesGoOn
<1>3. CASE End(TRUE) /\ UNCHANGED disk
  <2>1. NothingMoves
    BY <1>1, <1>3 DEF NothingMoves, IInv, Typed, DataTyped
  <2> QED BY <1>1, <1>3, <2>1, OnlyEnds
<1> QED BY <1>2, <1>3 DEF RemoveRetired

LEMMA RemoveOldCoverKeeps ==
  ASSUME IInv, NEW t \in Tracks, RemoveOldCover(t)
  PROVE  IInv'
<1>1. /\ op \in Ops /\ op.of = t /\ OnlyFiles /\ UNCHANGED <<staged, disk>>
      /\ CompletingOK(t, "uncover", journals[t], disk)
  BY AtCompleting DEF RemoveOldCover, Completing
<1>2. covers' = covers \/ covers' = [covers EXCEPT ![journals[t].oldCover] = Absent]
  BY DEF RemoveOldCover
<1>3. NothingMoves
  BY <1>1, <1>2, CoverSet DEF NothingMoves
<1>4. CASE GoesOn("finalize")
  <2>1. Continues /\ op'.pc = "finalize"
    BY <1>1, <1>4, GoesOnOp DEF Steps, Completing
  <2>2. CompletingOK(t, "finalize", journals[t], disk)
    BY <1>1 DEF CompletingOK
  <2>3. OpOK(op', t, rows[t], journals[t], staged, disk)
    BY <2>1, <2>2, OpOKBy DEF Completing
  <2> QED BY <1>1, <1>3, <2>1, <2>3, OnlyGoesOn
<1>5. CASE End(TRUE)
  BY <1>1, <1>3, <1>5, OnlyEnds
<1> QED BY <1>4, <1>5 DEF RemoveOldCover

LEMMA FinalizeReplacementKeeps ==
  ASSUME IInv, NEW t \in Tracks, FinalizeReplacement(t)
  PROVE  IInv'
<1> DEFINE jr == journals[t]
<1>1. /\ op \in Ops /\ op.of = t /\ jr \in Journals /\ IsCommitted(jr)
      /\ CompletingOK(t, "finalize", jr, disk) /\ UNCHANGED <<rowVars, deletions, files, made>>
  BY AtCompleting DEF FinalizeReplacement, Completing
<1>2. ASSUME rows[t].state # "gone", jobs' = [jobs EXCEPT ![JobOf(t)] = "committed"], Close(t), End(FALSE)
      PROVE  IInv'
  <2>1. /\ jobs' = [jobs EXCEPT ![jr.job] = "committed"]
        /\ journals' = [journals EXCEPT ![t] = NoJournal]
    BY <1>2, JournalPaths DEF Close
  <2>2. jr.job \in Jobs /\ Replaces[jr.job] = t
    BY <1>1, TrackFacts, OpenFacts
  <2>3. /\ rows' = rows /\ ids' = ids /\ artwork' = artwork /\ deletions' = deletions
        /\ staged' = staged /\ disk' = disk /\ covers' = covers /\ made' = made
    BY <1>1 DEF rowVars, files
  <2>4. journals \in [Tracks -> Journals \cup {NoJournal}] /\ jobs \in [Jobs -> JobStates]
    BY DEF IInv, Typed, DataTyped
  <2>5. /\ journals'[t] = NoJournal /\ \A u \in Tracks : u # t => journals'[u] = journals[u]
        /\ \A j \in Jobs : Replaces[j] # t => jobs'[j] = jobs[j]
        /\ journals' \in [Tracks -> Journals \cup {NoJournal}] /\ jobs' \in [Jobs -> JobStates]
    BY <2>1, <2>2, <2>4 DEF JobStates
  <2>6. OthersStay(t) /\ DataTyped'
    <3>1. OthersStay(t)
      BY <2>3, <2>5 DEF OthersStay, Elsewhere
    <3>2. DataTyped'
      BY <2>3, <2>5 DEF IInv, Typed, DataTyped
    <3> QED BY <3>1, <3>2
  <2>7. disk.retired[RetiredOf(t, jr)] = Absent
    BY <1>1 DEF CompletingOK
  <2>8. TrackOK(t, rows[t], NoJournal, deletions[t], jobs', staged, disk)
    BY <1>1, <1>2, <2>1, <2>7, TrackFacts, Finalizes
  <2>9. ~IsPending(NoJournal)
    BY DEF IsPending
  <2> QED BY <1>1, <1>2, <2>3, <2>5, <2>6, <2>8, <2>9, EndStep
<1>3. ASSUME End(TRUE), UNCHANGED <<jobs, journals>>
      PROVE  IInv'
  <2>1. NothingMoves
    BY <1>1, <1>3 DEF NothingMoves, OnlyFiles, files, rowVars, IInv, Typed, DataTyped
  <2> QED BY <1>1, <1>3, <2>1, OnlyEnds
<1> QED BY <1>2, <1>3 DEF FinalizeReplacement

-----------------------------------------------------------------------------
(* Permanent Track Deletion *)

\* The row and the deletion of a Track change.
RowBecomes(t, r, dl) == rows' = [rows EXCEPT ![t] = r] /\ deletions' = [deletions EXCEPT ![t] = dl]

LEMMA RowOthers ==
  ASSUME IInv, NEW t \in Tracks, NEW r2 \in Rows, NEW dl2 \in [cover : Int], RowBecomes(t, r2, dl2),
         ids' \in [Albums -> 0..MaxIds], artwork' \subseteq 1..MaxIds, jobs' \in [Jobs -> JobStates],
         \A j \in Jobs : Replaces[j] # t => jobs'[j] = jobs[j], UNCHANGED <<journals, files, made>>
  PROVE  /\ OthersStay(t) /\ DataTyped' /\ rows'[t] = r2 /\ deletions'[t] = dl2
         /\ journals' = journals /\ staged' = staged /\ disk' = disk
<1>1. /\ rows \in [Tracks -> Rows] /\ deletions \in [Tracks -> [cover : Int]] /\ journals' = journals
      /\ staged' = staged /\ disk' = disk /\ covers' = covers /\ made' = made
  BY DEF IInv, Typed, DataTyped, files
<1>2. /\ rows'[t] = r2 /\ deletions'[t] = dl2
      /\ rows' \in [Tracks -> Rows] /\ deletions' \in [Tracks -> [cover : Int]]
      /\ \A u \in Tracks : u # t => rows'[u] = rows[u] /\ deletions'[u] = deletions[u]
  BY <1>1 DEF RowBecomes
<1>3. DataTyped'
  BY <1>1, <1>2 DEF IInv, Typed, DataTyped
<1>4. OthersStay(t)
  BY <1>1, <1>2 DEF OthersStay, Elsewhere
<1> QED BY <1>1, <1>2, <1>3, <1>4

LEMMA RowSet ==
  ASSUME IInv, NEW t \in Tracks, NEW s \in {"here", "hidden", "gone"}, rows' = [rows EXCEPT ![t].state = s]
  PROVE  \E r2 \in Rows : /\ rows' = [rows EXCEPT ![t] = r2] /\ r2.state = s
                          /\ r2.album = rows[t].album /\ r2.version = rows[t].version
                          /\ r2.replaced = rows[t].replaced
<1> DEFINE r2 == [rows[t] EXCEPT !.state = s]
<1>1. rows \in [Tracks -> Rows] /\ rows[t] \in Rows
  BY DEF IInv, Typed, DataTyped
<1>2. /\ r2 \in Rows /\ r2.state = s /\ r2.album = rows[t].album /\ r2.version = rows[t].version
      /\ r2.replaced = rows[t].replaced
  BY <1>1 DEF Rows
<1>3. rows' = [rows EXCEPT ![t] = r2]
  BY <1>1
<1> HIDE DEF r2
<1> QED BY <1>2, <1>3

LEMMA PrepareDeletionKeeps ==
  ASSUME IInv, NEW t \in Tracks, PrepareDeletion(t)
  PROVE  IInv'
<1>1. /\ op \in Ops /\ op.of = t /\ op.kind = "delete"
      /\ UNCHANGED <<ids, artwork, jobs, journals, files, made>>
  BY AtStep DEF PrepareDeletion, OpOK
<1>2. ASSUME Resolves(t), deletions' = [deletions EXCEPT ![t] = [cover |-> FinalCover(t)]],
             rows' = [rows EXCEPT ![t].state = "hidden"], GoesOn("d_audio")
      PROVE  IInv'
  <2>1. rows[t].state = "here" /\ disk.audio[RowPathOf(t, rows[t])] = rows[t].version
    BY <1>2, JournalPaths DEF Resolves
  <2>2. PICK r2 \in Rows : /\ rows' = [rows EXCEPT ![t] = r2] /\ r2.state = "hidden"
                           /\ r2.album = rows[t].album /\ r2.version = rows[t].version
                           /\ r2.replaced = rows[t].replaced
    BY <1>2, RowSet
  <2>3. PICK dl2 \in [cover : Int] : /\ deletions' = [deletions EXCEPT ![t] = dl2] /\ dl2 # NoDeletion
    <3>1. FinalCover(t) \in Int /\ FinalCover(t) # -1
      BY TrackFacts DEF FinalCover, Rows
    <3>2. [cover |-> FinalCover(t)] # NoDeletion
      BY <3>1 DEF NoDeletion
    <3> QED BY <1>2, <3>1, <3>2
  <2>4. /\ OthersStay(t) /\ DataTyped' /\ rows'[t] = r2 /\ deletions'[t] = dl2
        /\ journals' = journals /\ staged' = staged /\ disk' = disk /\ jobs' = jobs
    <3>1. /\ ids' \in [Albums -> 0..MaxIds] /\ artwork' \subseteq 1..MaxIds
          /\ jobs' = jobs /\ jobs' \in [Jobs -> JobStates]
      BY <1>1 DEF IInv, Typed, DataTyped
    <3>2. RowBecomes(t, r2, dl2)
      BY <2>2, <2>3 DEF RowBecomes
    <3> QED BY <1>1, <3>1, <3>2, RowOthers
  <2>5. TrackOK(t, r2, journals[t], dl2, jobs, staged, disk)
    BY <2>1, <2>2, <2>3, TrackFacts, HidesOrShows
  <2>6. DeletingOK(t, "d_audio", op.on, r2, disk)
    <3>1. RowPathOf(t, r2) = RowPathOf(t, rows[t])
      BY <2>2 DEF RowPathOf
    <3> QED BY <2>1, <2>2, <3>1 DEF DeletingOK
  <2>7. Continues /\ op'.pc = "d_audio" /\ op'.on = op.on /\ op'.kind = op.kind
    BY <1>1, <1>2, GoesOnOp DEF Steps, Deleting
  <2>8. OpOK(op', t, r2, journals[t], staged, disk)
    BY <1>1, <2>6, <2>7, OpOKBy DEF Deleting
  <2> QED BY <1>1, <2>4, <2>5, <2>7, <2>8, ContinueStep
<1>3. ASSUME End(TRUE), UNCHANGED <<deletions, rows>>
      PROVE  IInv'
  <2>1. NothingMoves
    BY <1>1, <1>3 DEF NothingMoves, OnlyFiles, files, rowVars, IInv, Typed, DataTyped
  <2> QED BY <1>1, <1>3, <2>1, OnlyEnds
<1> QED BY <1>2, <1>3 DEF PrepareDeletion

LEMMA RemoveAudioKeeps ==
  ASSUME IInv, NEW t \in Tracks, RemoveAudio(t)
  PROVE  IInv'
<1> DEFINE r == rows[t]
           a == RowPathOf(t, r)
<1>1. /\ op \in Ops /\ op.of = t /\ op.kind = "delete" /\ OnlyFiles /\ UNCHANGED <<staged, covers>>
      /\ DeletingOK(t, "d_audio", op.on, r, disk)
  BY AtDeleting DEF RemoveAudio, Deleting
<1>2. ASSUME disk.audio[RowPath(t)] \in {Absent, rows[t].version},
             disk' = [disk EXCEPT !.audio[RowPath(t)] = Absent], GoesOn("d_cover")
      PROVE  IInv'
  <2>1. disk' = [disk EXCEPT !.audio[a] = Absent] /\ disk.audio[a] \in {Absent, r.version}
    BY <1>2, JournalPaths
  <2>2. a \in PathsOf(t) /\ a \in Paths
    BY TrackFacts, RowPathIn
  <2> HIDE DEF a
  <2>3. /\ disk' \in Disks /\ disk'.audio = [disk.audio EXCEPT ![a] = Absent]
        /\ disk'.pending = disk.pending /\ disk'.retired = disk.retired
    <3>1. disk \in Disks /\ Absent \in Audio \cup {Absent}
      BY <2>2, TrackFacts
    <3> QED BY <2>1, <2>2, <3>1 DEF Disks
  <2>4. TrackOK(t, r, journals[t], deletions[t], jobs, staged, disk')
    <3>1. r.state = "hidden"
      BY <1>1 DEF DeletingOK
    <3> QED BY <2>1, <2>3, <3>1, TrackFacts, DropAudio DEF a
  <2>5. DeletingOK(t, "d_cover", op.on, r, disk')
    <3>1. disk'.audio[a] = Absent
      BY <2>2, <2>3, TrackFacts DEF Disks
    <3> QED BY <1>1, <3>1 DEF DeletingOK, a
  <2>6. Continues /\ op'.pc = "d_cover" /\ op'.on = op.on /\ op'.kind = op.kind
    BY <1>1, <1>2, GoesOnOp DEF Steps, Deleting
  <2>7. OpOK(op', t, r, journals[t], staged, disk')
    BY <1>1, <2>5, <2>6, OpOKBy DEF Deleting
  <2>8. FilesKeepTypes
    BY <1>1, <2>3 DEF FilesKeepTypes, IInv, Typed, DataTyped
  <2>9. Elsewhere(t, disk, disk')
    BY <2>2, <2>3, TrackFacts, WritesElsewhere
  <2> QED BY <1>1, <2>4, <2>6, <2>7, <2>8, <2>9, FilesGoOn
<1>3. ASSUME UNCHANGED disk, IF op.on = "request" THEN GoesOn("d_cancel") ELSE End(TRUE)
      PROVE  IInv'
  <2>1. NothingMoves
    BY <1>1, <1>3 DEF NothingMoves, IInv, Typed, DataTyped
  <2>2. CASE op.on = "request"
    <3>1. Continues /\ op'.pc = "d_cancel" /\ op'.on = op.on /\ op'.kind = op.kind
      BY <1>1, <1>3, <2>2, GoesOnOp DEF Steps, Deleting
    <3>2. DeletingOK(t, "d_cancel", op.on, r, disk)
      BY <1>1, <2>2 DEF DeletingOK
    <3>3. OpOK(op', t, r, journals[t], staged, disk)
      BY <1>1, <3>1, <3>2, OpOKBy DEF Deleting
    <3> QED BY <1>1, <2>1, <3>1, <3>3, OnlyGoesOn
  <2>3. CASE op.on # "request"
    BY <1>1, <1>3, <2>1, <2>3, OnlyEnds
  <2> QED BY <2>2, <2>3
<1> QED BY <1>2, <1>3 DEF RemoveAudio

LEMMA RemoveFinalCoverKeeps ==
  ASSUME IInv, NEW t \in Tracks, RemoveFinalCover(t)
  PROVE  IInv'
<1>1. /\ op \in Ops /\ op.of = t /\ op.kind = "delete" /\ OnlyFiles /\ UNCHANGED <<staged, disk>>
      /\ DeletingOK(t, "d_cover", op.on, rows[t], disk)
  BY AtDeleting DEF RemoveFinalCover, Deleting
<1>2. covers' = covers \/ covers' = [covers EXCEPT ![deletions[t].cover] = Absent]
  BY DEF RemoveFinalCover
<1>3. NothingMoves
  BY <1>1, <1>2, CoverSet DEF NothingMoves
<1>4. CASE GoesOn("d_finalize")
  <2>1. Continues /\ op'.pc = "d_finalize" /\ op'.on = op.on /\ op'.kind = op.kind
    BY <1>1, <1>4, GoesOnOp DEF Steps, Deleting
  <2>2. DeletingOK(t, "d_finalize", op.on, rows[t], disk)
    BY <1>1 DEF DeletingOK
  <2>3. OpOK(op', t, rows[t], journals[t], staged, disk)
    BY <1>1, <2>1, <2>2, OpOKBy DEF Deleting
  <2> QED BY <1>1, <1>3, <2>1, <2>3, OnlyGoesOn
<1>5. CASE End(TRUE)
  BY <1>1, <1>3, <1>5, OnlyEnds
<1> QED BY <1>4, <1>5 DEF RemoveFinalCover

LEMMA CancelDeletionKeeps ==
  ASSUME IInv, NEW t \in Tracks, CancelDeletion(t)
  PROVE  IInv'
<1>1. /\ op \in Ops /\ op.of = t /\ op.kind = "delete" /\ End(TRUE)
      /\ UNCHANGED <<ids, artwork, jobs, journals, files, made>>
      /\ DeletingOK(t, "d_cancel", op.on, rows[t], disk)
  BY AtDeleting DEF CancelDeletion, Deleting
<1>2. ASSUME rows' = [rows EXCEPT ![t].state = "here"],
             deletions' = [deletions EXCEPT ![t] = NoDeletion]
      PROVE  IInv'
  <2>1. rows[t].state = "hidden" /\ disk.audio[RowPathOf(t, rows[t])] = rows[t].version
    BY <1>1 DEF DeletingOK
  <2>2. PICK r2 \in Rows : /\ rows' = [rows EXCEPT ![t] = r2] /\ r2.state = "here"
                           /\ r2.album = rows[t].album /\ r2.version = rows[t].version
                           /\ r2.replaced = rows[t].replaced
    BY <1>2, RowSet
  <2>3. NoDeletion \in [cover : Int]
    BY DEF NoDeletion
  <2>4. /\ OthersStay(t) /\ DataTyped' /\ rows'[t] = r2 /\ deletions'[t] = NoDeletion
        /\ journals' = journals /\ staged' = staged /\ disk' = disk /\ jobs' = jobs
    <3>1. /\ ids' \in [Albums -> 0..MaxIds] /\ artwork' \subseteq 1..MaxIds
          /\ jobs' = jobs /\ jobs' \in [Jobs -> JobStates]
      BY <1>1 DEF IInv, Typed, DataTyped
    <3>2. RowBecomes(t, r2, NoDeletion)
      BY <1>2, <2>2 DEF RowBecomes
    <3> QED BY <1>1, <2>3, <3>1, <3>2, RowOthers
  <2>5. TrackOK(t, r2, journals[t], NoDeletion, jobs, staged, disk)
    BY <2>1, <2>2, TrackFacts, HidesOrShows
  <2> QED BY <1>1, <2>4, <2>5, EndStep
<1>3. ASSUME UNCHANGED <<rows, deletions>>
      PROVE  IInv'
  <2>1. NothingMoves
    BY <1>1, <1>3 DEF NothingMoves, OnlyFiles, files, rowVars, IInv, Typed, DataTyped
  <2> QED BY <1>1, <1>3, <2>1, OnlyEnds
<1> QED BY <1>2, <1>3 DEF CancelDeletion

LEMMA FinalizeDeletionKeeps ==
  ASSUME IInv, NEW t \in Tracks, FinalizeDeletion(t)
  PROVE  IInv'
<1>1. /\ op \in Ops /\ op.of = t /\ op.kind = "delete" /\ UNCHANGED <<journals, files, made>>
      /\ DeletingOK(t, "d_finalize", op.on, rows[t], disk)
  BY AtDeleting DEF FinalizeDeletion, Deleting
<1>2. ASSUME rows' = [rows EXCEPT ![t].state = "gone"],
             deletions' = [deletions EXCEPT ![t] = NoDeletion],
             jobs' = [j \in Jobs |-> IF jobs[j] = "committed" /\ Replaces[j] = t THEN "gone" ELSE jobs[j]],
             artwork' = ArtworkWithout(t), ids' = IdsWithout(t), End(FALSE)
      PROVE  IInv'
  <2>1. rows[t].state = "hidden" /\ disk.audio[RowPathOf(t, rows[t])] = Absent
    BY <1>1 DEF DeletingOK
  <2>2. PICK r2 \in Rows : /\ rows' = [rows EXCEPT ![t] = r2] /\ r2.state = "gone"
                           /\ r2.album = rows[t].album /\ r2.version = rows[t].version
    BY <1>2, RowSet
  <2>3. NoDeletion \in [cover : Int]
    BY DEF NoDeletion
  <2>4. /\ jobs' \in [Jobs -> JobStates]
        /\ \A j \in Jobs : jobs'[j] = jobs[j] \/ (jobs[j] = "committed" /\ jobs'[j] = "gone")
        /\ \A j \in Jobs : Replaces[j] # t => jobs'[j] = jobs[j]
    BY <1>2, TrackFacts DEF JobStates
  <2>5. /\ OthersStay(t) /\ DataTyped' /\ rows'[t] = r2 /\ deletions'[t] = NoDeletion
        /\ journals' = journals /\ staged' = staged /\ disk' = disk
    <3>1. ids' \in [Albums -> 0..MaxIds] /\ artwork' \subseteq 1..MaxIds
      BY <1>2, AlbumsWithout
    <3>2. RowBecomes(t, r2, NoDeletion)
      BY <1>2, <2>2 DEF RowBecomes
    <3> QED BY <1>1, <2>3, <2>4, <3>1, <3>2, RowOthers
  <2>6. TrackOK(t, r2, journals[t], NoDeletion, jobs', staged, disk)
    BY <2>1, <2>2, <2>4, TrackFacts, Goes
  <2> QED BY <1>1, <1>2, <2>5, <2>6, EndStep
<1>3. ASSUME End(TRUE), UNCHANGED <<rowVars, deletions, jobs>>
      PROVE  IInv'
  <2>1. NothingMoves
    BY <1>1, <1>3 DEF NothingMoves, OnlyFiles, files, rowVars, IInv, Typed, DataTyped
  <2> QED BY <1>1, <1>3, <2>1, OnlyEnds
<1> QED BY <1>2, <1>3 DEF FinalizeDeletion

-----------------------------------------------------------------------------
(* Requests *)

\* What the process does changes and nothing else.
LEMMA NothingKeeps ==
  ASSUME IInv, Nothing
  PROVE  /\ ConstantsOK' /\ DataTyped' /\ TracksOK'
         /\ rows' = rows /\ journals' = journals /\ deletions' = deletions
         /\ jobs' = jobs /\ staged' = staged /\ disk' = disk
<1>1. /\ rows' = rows /\ ids' = ids /\ artwork' = artwork /\ jobs' = jobs /\ journals' = journals
      /\ deletions' = deletions /\ made' = made /\ staged' = staged /\ disk' = disk /\ covers' = covers
  BY DEF Nothing, OnlyFiles, rowVars, files
<1>2. ConstantsOK'
  BY DEF IInv, ConstantsOK
<1>3. DataTyped'
  BY <1>1 DEF IInv, Typed, DataTyped
<1>4. TracksOK'
  BY <1>1 DEF IInv, TracksOK
<1> QED BY <1>1, <1>2, <1>3, <1>4

LEMMA RequestKeeps ==
  ASSUME IInv, NEW t \in Tracks, NEW kind \in {"confirm", "reconfirm", "delete"}, NEW pc \in Steps,
         Request(kind, t, pc),
         OpOK(Op("request", kind, t, pc), t, rows[t], journals[t], staged, disk)
  PROVE  IInv'
<1>1. /\ ConstantsOK' /\ DataTyped' /\ TracksOK' /\ rows' = rows /\ journals' = journals
      /\ staged' = staged /\ disk' = disk
  BY NothingKeeps DEF Request
<1>2. op' = Op("request", kind, t, pc) /\ server' = [server EXCEPT !.before = -1] /\ server.state = "up"
  BY DEF Request, IsUp
<1>3. /\ op' \in Ops /\ op'.of = t /\ op'.on = "request"
  BY <1>2 DEF Op, Ops
<1>4. server \in Servers /\ server.todo = {}
  BY <1>2 DEF IInv, Typed, ServerOK
<1>5. server' \in Servers /\ server'.state = "up" /\ server'.todo = {}
  BY <1>2, <1>4 DEF Servers
<1>6. AtWorkOK'
  BY <1>1, <1>2, <1>3 DEF AtWorkOK
<1>7. ServerOK'
  BY <1>3, <1>5 DEF ServerOK
<1> QED BY <1>1, <1>3, <1>5, <1>6, <1>7 DEF IInv, Typed

LEMMA ConfirmKeeps ==
  ASSUME IInv, NEW j \in Jobs, ConfirmReplacement(j)
  PROVE  IInv'
<1> DEFINE t == Replaces[j]
<1>1. t \in Tracks
  BY DEF IInv, ConstantsOK
<1> HIDE DEF t
<1>2. CASE ~JournalOf(j)
  <2>1. Request("confirm", t, "journal")
    BY <1>2 DEF ConfirmReplacement, t
  <2>2. OpOK(Op("request", "confirm", t, "journal"), t, rows[t], journals[t], staged, disk)
    BY OpOKBy DEF Op
  <2> QED BY <1>1, <2>1, <2>2, RequestKeeps DEF Steps
<1>3. CASE JournalOf(j) /\ journals[t].phase = "database_committed"
  <2>1. Request("reconfirm", t, "unretire") /\ journals[t] # NoJournal
    BY <1>3 DEF ConfirmReplacement, JournalOf, IsOpen, t
  <2>2. CompletingOK(t, "unretire", journals[t], disk)
    BY <1>3, <2>1 DEF CompletingOK, IsCommitted
  <2>3. OpOK(Op("request", "reconfirm", t, "unretire"), t, rows[t], journals[t], staged, disk)
    <3> DEFINE o == Op("request", "reconfirm", t, "unretire")
    <3>1. o.pc = "unretire"
      BY DEF Op
    <3> HIDE DEF o
    <3>2. OpOK(o, t, rows[t], journals[t], staged, disk)
      BY <2>2, <3>1, OpOKBy DEF Completing
    <3> QED BY <3>2 DEF o
  <2> QED BY <1>1, <2>1, <2>3, RequestKeeps DEF Steps, Completing
<1>4. CASE JournalOf(j) /\ journals[t].phase # "database_committed"
  <2>1. Request("reconfirm", t, "undo_swap") /\ journals[t] # NoJournal
    BY <1>4 DEF ConfirmReplacement, JournalOf, IsOpen, t
  <2>2. UndoingOK(t, "undo_swap", FALSE, journals[t], disk)
    BY <1>4, <2>1 DEF UndoingOK, IsPending
  <2>3. OpOK(Op("request", "reconfirm", t, "undo_swap"), t, rows[t], journals[t], staged, disk)
    <3> DEFINE o == Op("request", "reconfirm", t, "undo_swap")
    <3>1. o.pc = "undo_swap" /\ o.isBroken = FALSE
      BY DEF Op
    <3> HIDE DEF o
    <3>2. OpOK(o, t, rows[t], journals[t], staged, disk)
      BY <2>2, <3>1, OpOKBy DEF Undoing
    <3> QED BY <3>2 DEF o
  <2> QED BY <1>1, <2>1, <2>3, RequestKeeps DEF Steps, Undoing
<1> QED BY <1>2, <1>3, <1>4

LEMMA DeleteKeeps ==
  ASSUME IInv, NEW t \in Tracks, DeleteTrack(t)
  PROVE  IInv'
<1>1. Request("delete", t, "d_prepare")
  BY DEF DeleteTrack
<1>2. OpOK(Op("request", "delete", t, "d_prepare"), t, rows[t], journals[t], staged, disk)
  BY OpOKBy DEF Op
<1> QED BY <1>1, <1>2, RequestKeeps DEF Steps

\* The journal of a replacement is one, with a canonical path for the upload.
LEMMA NewJournal ==
  ASSUME IInv, NEW j \in Jobs, NEW t \in Tracks, Replaces[j] = t, AlbumId(j) <= MaxIds,
         NEW jr2,
         jr2 = [phase |-> "prepared", job |-> j, from |-> RowPath(t), to |-> PathOf(t, AlbumId(j), j),
                mode |-> ArtworkMode(j), isCoverCreated |-> FALSE, old |-> rows[t].version,
                oldCover |-> AbandonedCover(j)]
  PROVE  /\ jr2 \in Journals /\ IsPending(jr2) /\ jr2.job = j /\ jr2.from = RowPathOf(t, rows[t])
         /\ jr2.old = rows[t].version /\ jr2.to \in PathsOf(t) /\ jr2.to = PathOf(t, jr2.to[2], j)
<1>1. /\ ConstantsOK /\ rows[t] \in Rows /\ ids \in [Albums -> 0..MaxIds] /\ made \in Nat /\ MaxIds \in Nat
  BY DEF IInv, Typed, DataTyped, ConstantsOK
<1>2. AlbumId(j) \in 1..MaxIds
  <2>1. AlbumOf[j] \in Albums
    BY <1>1 DEF ConstantsOK
  <2> QED BY <1>1, <2>1 DEF AlbumId
<1>3. AbandonedCover(j) \in 0..MaxIds
  <2>1. rows[t].album \in 1..MaxIds
    BY <1>1 DEF Rows
  <2> QED BY <1>1, <2>1 DEF AbandonedCover
<1>4. ArtworkMode(j) \in {"existing", "create", "none"}
  BY DEF ArtworkMode
<1>5. RowPath(t) = RowPathOf(t, rows[t]) /\ RowPathOf(t, rows[t]) \in Paths
  BY <1>1, JournalPaths, RowPathIn
<1>6. /\ PathOf(t, AlbumId(j), j) \in Paths /\ PathOf(t, AlbumId(j), j) \in PathsOf(t)
      /\ PathOf(t, AlbumId(j), j)[2] = AlbumId(j)
  BY <1>1, <1>2 DEF PathOf, Paths, PathsOf, ConstantsOK
<1>7. rows[t].version \in Audio
  BY <1>1 DEF Rows
<1>8. jr2 \in Journals
  BY <1>3, <1>4, <1>5, <1>6, <1>7 DEF Journals, Phases
<1>9. IsPending(jr2)
  BY DEF IsPending, NoJournal
<1> QED BY <1>5, <1>6, <1>8, <1>9

LEMMA PrepareJournalKeeps ==
  ASSUME IInv, NEW j \in Jobs, PrepareJournal(j)
  PROVE  IInv'
<1> DEFINE t == Replaces[j]
<1>1. t \in Tracks
  BY DEF IInv, ConstantsOK
<1>2. /\ op \in Ops /\ op.of = t /\ jobs[j] = "awaiting" /\ UNCHANGED <<rowVars, jobs, deletions, files>>
  BY AtStep DEF PrepareJournal
<1>3. /\ rows' = rows /\ ids' = ids /\ artwork' = artwork /\ jobs' = jobs /\ deletions' = deletions
      /\ staged' = staged /\ disk' = disk /\ covers' = covers
  BY <1>2 DEF rowVars, files
<1>4. ASSUME staged[j], Resolves(t), ~IsOpen(t), AlbumId(j) <= MaxIds,
             made' = IF AlbumId(j) > made THEN AlbumId(j) ELSE made,
             journals' = [journals EXCEPT ![t] =
               [phase |-> "prepared", job |-> j, from |-> RowPath(t),
                to |-> PathOf(t, AlbumId(j), j), mode |-> ArtworkMode(j),
                isCoverCreated |-> FALSE, old |-> rows[t].version,
                oldCover |-> AbandonedCover(j)]],
             GoesOn("place")
      PROVE  IInv'
  <2> HIDE DEF t
  <2>1. PICK jr2 :
          /\ jr2 = [phase |-> "prepared", job |-> j, from |-> RowPath(t), to |-> PathOf(t, AlbumId(j), j),
                    mode |-> ArtworkMode(j), isCoverCreated |-> FALSE, old |-> rows[t].version,
                    oldCover |-> AbandonedCover(j)]
          /\ journals' = [journals EXCEPT ![t] = jr2]
    BY <1>4
  <2>2. /\ jr2 \in Journals /\ IsPending(jr2) /\ jr2.job = j /\ jr2.from = RowPathOf(t, rows[t])
        /\ jr2.old = rows[t].version /\ jr2.to \in PathsOf(t) /\ jr2.to = PathOf(t, jr2.to[2], j)
    <3>1. Replaces[j] = t /\ AlbumId(j) <= MaxIds
      BY <1>4 DEF t
    <3> QED BY <1>1, <2>1, <3>1, NewJournal
  <2>3. journals \in [Tracks -> Journals \cup {NoJournal}]
    BY DEF IInv, Typed, DataTyped
  <2>4. /\ journals'[t] = jr2 /\ \A u \in Tracks : u # t => journals'[u] = journals[u]
        /\ journals' \in [Tracks -> Journals \cup {NoJournal}]
    BY <1>1, <2>1, <2>2, <2>3
  <2>5. made' \in Nat
    <3>1. made \in Nat /\ ids \in [Albums -> 0..MaxIds] /\ MaxIds \in Nat /\ AlbumOf[j] \in Albums
      BY DEF IInv, Typed, DataTyped, ConstantsOK
    <3>2. AlbumId(j) \in Nat
      BY <3>1 DEF AlbumId
    <3> QED BY <1>4, <3>1, <3>2
  <2>6. DataTyped'
    BY <1>3, <2>4, <2>5 DEF IInv, Typed, DataTyped
  <2>7. OthersStay(t)
    BY <1>3, <2>4 DEF OthersStay, Elsewhere
  <2>8. journals[t] = NoJournal /\ rows[t].state = "here"
    BY <1>4 DEF IsOpen, Resolves
  <2>9. TrackOK(t, rows[t], jr2, deletions[t], jobs, staged, disk) /\ disk.retired[RetiredOf(t, jr2)] = Absent
    <3>1. staged[jr2.job] /\ jobs[jr2.job] = "awaiting" /\ Replaces[jr2.job] = t
      BY <1>2, <1>4, <2>2 DEF t
    <3>2. jr2.to = PathOf(t, jr2.to[2], jr2.job)
      BY <2>2
    <3> QED BY <1>1, <2>2, <2>8, <3>1, <3>2, TrackFacts, Opens
  <2>10. ReplacingOK(t, "place", rows[t], jr2, staged, disk)
    BY <1>4, <2>2, <2>8, <2>9 DEF ReplacingOK, Placing, Placed, Swapping
  <2>11. Continues /\ op'.pc = "place"
    BY <1>2, <1>4, GoesOnOp DEF Steps, Placing
  <2>12. OpOK(op', t, rows[t], jr2, staged, disk)
    BY <2>10, <2>11, OpOKBy DEF Placing
  <2>13. op.of = t
    BY <1>2
  <2> QED BY <1>1, <1>2, <1>3, <2>4, <2>6, <2>7, <2>9, <2>11, <2>12, <2>13, ContinueStep
<1>5. ASSUME End(TRUE), UNCHANGED <<made, journals>>
      PROVE  IInv'
  <2>1. NothingMoves
    BY <1>2, <1>5 DEF NothingMoves, OnlyFiles, files, rowVars, IInv, Typed, DataTyped
  <2> QED BY <1>1, <1>2, <1>5, <2>1, OnlyEnds
<1> QED BY <1>4, <1>5 DEF PrepareJournal

-----------------------------------------------------------------------------
(* Jobs that go, crashes and restarts *)

LEMMA JobsGo ==
  ASSUME IInv, UNCHANGED <<rowVars, journals, deletions, disk, covers, made>>,
         jobs' \in [Jobs -> JobStates], staged' \in [Jobs -> BOOLEAN],
         \A t \in Tracks : JobsStay(t, journals[t], jobs, staged, jobs', staged')
  PROVE  ConstantsOK' /\ DataTyped' /\ TracksOK' /\ journals' = journals /\ rows' = rows
<1>1. /\ rows' = rows /\ ids' = ids /\ artwork' = artwork /\ journals' = journals
      /\ deletions' = deletions /\ made' = made /\ disk' = disk /\ covers' = covers
  BY DEF rowVars
<1>2. ConstantsOK'
  BY DEF IInv, ConstantsOK
<1>3. DataTyped'
  BY <1>1 DEF IInv, Typed, DataTyped
<1>4. TracksOK'
  <2> SUFFICES ASSUME NEW t \in Tracks
               PROVE  TrackOK(t, rows[t], journals[t], deletions[t], jobs', staged', disk)
    BY <1>1 DEF TracksOK
  <2>1. FilesStay(t, disk, disk)
    BY DEF FilesStay
  <2> QED BY <2>1, TrackFacts, TrackStays
<1> QED BY <1>1, <1>2, <1>3, <1>4

\* Nothing is at work and the startup has nothing left to recover.
LEMMA QuietKeeps ==
  ASSUME ConstantsOK', DataTyped', TracksOK', op' = NoOp, server' \in Servers, server'.todo = {},
         server'.state \in {"up", "down", "cancel"}
  PROVE  IInv'
<1>1. AtWorkOK'
  BY DEF AtWorkOK
<1>2. ServerOK'
  BY DEF ServerOK
<1> QED BY <1>1, <1>2 DEF IInv, Typed

LEMMA CancelJobKeeps ==
  ASSUME IInv, NEW j \in Jobs, CancelJob(j)
  PROVE  IInv'
<1>1. /\ server.state = "up" /\ op = NoOp /\ op' = op /\ server' = [server EXCEPT !.before = -1]
      /\ jobs[j] = "awaiting" /\ staged' = [staged EXCEPT ![j] = FALSE] /\ jobs' = [jobs EXCEPT ![j] = "gone"]
      /\ UNCHANGED <<rowVars, journals, deletions, disk, covers, made>>
  BY DEF CancelJob, IsUp, IsIdle
<1>2. jobs \in [Jobs -> JobStates] /\ staged \in [Jobs -> BOOLEAN]
  BY DEF IInv, Typed, DataTyped
<1>3. jobs' \in [Jobs -> JobStates] /\ staged' \in [Jobs -> BOOLEAN]
  BY <1>1, <1>2 DEF JobStates
<1>4. ASSUME NEW t \in Tracks
      PROVE  JobsStay(t, journals[t], jobs, staged, jobs', staged')
  <2>1. journals[t] # NoJournal => journals[t].job \in Jobs /\ journals[t].job # j
    <3>1. journals[t] # NoJournal => Replaces[journals[t].job] = t /\ journals[t] \in Journals
      BY TrackFacts DEF TrackOK, JournalOK, OpenOK
    <3>2. ~JournalOf(j)
      BY DEF CancelJob
    <3> QED BY <3>1, <3>2 DEF JournalOf, IsOpen, Journals
  <2>2. \A i \in Jobs : i # j => jobs'[i] = jobs[i] /\ staged'[i] = staged[i]
    BY <1>1, <1>2
  <2>3. jobs'[j] = "gone" /\ ~staged'[j]
    BY <1>1, <1>2
  <2> QED BY <1>1, <2>1, <2>2, <2>3 DEF JobsStay, IsPending
<1>5. server' \in Servers /\ server'.todo = {} /\ server'.state = "up"
  <2>1. server \in Servers /\ server.todo = {}
    BY <1>1 DEF IInv, Typed, ServerOK
  <2> QED BY <1>1, <2>1 DEF Servers
<1>6. ConstantsOK' /\ DataTyped' /\ TracksOK'
  BY <1>1, <1>3, <1>4, JobsGo
<1> QED BY <1>1, <1>5, <1>6, QuietKeeps

LEMMA CrashKeeps ==
  ASSUME IInv, Crash
  PROVE  IInv'
<1>1. ConstantsOK' /\ DataTyped' /\ TracksOK' /\ op' = NoOp
  BY NothingKeeps DEF Crash
<1>2. server' \in Servers /\ server'.todo = {} /\ server'.state = "down"
  <2>1. server \in Servers /\ server' = [server EXCEPT !.state = "down", !.todo = {}]
    BY DEF IInv, Typed, Crash
  <2> QED BY <2>1 DEF Servers
<1> QED BY <1>1, <1>2, QuietKeeps

LEMMA RestartKeeps ==
  ASSUME IInv, faults \in Int, Restart
  PROVE  IInv'
<1>1. /\ ConstantsOK' /\ DataTyped' /\ TracksOK' /\ rows' = rows /\ deletions' = deletions
  BY NothingKeeps DEF Restart
<1>2. /\ server.state = "down" /\ op' = op
      /\ server' = [state |-> "deletions", todo |-> {t \in Tracks : deletions[t] # NoDeletion},
                    isFailed |-> FALSE, before |-> faults]
  BY DEF Restart
<1>3. op' = NoOp
  BY <1>2 DEF IInv, ServerOK
<1>4. /\ server' \in Servers /\ server'.state = "deletions"
      /\ server'.todo = {t \in Tracks : deletions[t] # NoDeletion}
  BY <1>2 DEF Servers
<1>5. \A t \in server'.todo : rows'[t].state = "hidden"
  BY <1>1, <1>4, TrackFacts DEF TrackOK, RowOK
<1>6. AtWorkOK' /\ ServerOK'
  BY <1>3, <1>4, <1>5 DEF AtWorkOK, ServerOK
<1> QED BY <1>1, <1>3, <1>4, <1>6 DEF IInv, Typed

LEMMA StartupRecoversKeeps ==
  ASSUME IInv, NEW t \in Tracks, StartupRecovers(t)
  PROVE  IInv'
<1>1. /\ ConstantsOK' /\ DataTyped' /\ TracksOK' /\ rows' = rows /\ journals' = journals
      /\ staged' = staged /\ disk' = disk
  BY NothingKeeps DEF StartupRecovers
<1>2. op = NoOp /\ t \in server.todo /\ server' = [server EXCEPT !.todo = server.todo \ {t}]
  BY DEF StartupRecovers, IsIdle
<1>3. server \in Servers /\ server.todo \subseteq Tracks /\ server.state \in {"deletions", "replacements"}
  BY <1>2 DEF IInv, Typed, ServerOK, Servers
<1>4. /\ server' \in Servers /\ server'.state = server.state /\ server'.todo = server.todo \ {t}
      /\ server'.isFailed = server.isFailed
  BY <1>2, <1>3 DEF Servers
<1>5. CASE server.state = "deletions"
  <2> DEFINE o == Op("startup", "delete", t, "d_audio")
  <2>1. op' = o /\ rows[t].state = "hidden"
    <3>1. op' = o
      BY <1>5 DEF StartupRecovers
    <3>2. rows[t].state = "hidden"
      BY <1>2, <1>5 DEF IInv, ServerOK
    <3> QED BY <3>1, <3>2
  <2>2. o \in Ops /\ o.of = t /\ o.on = "startup" /\ o.kind = "delete" /\ o.pc = "d_audio"
    BY DEF Op, Ops, Steps, Deleting
  <2> HIDE DEF o
  <2>3. DeletingOK(t, "d_audio", o.on, rows[t], disk)
    BY <2>1, <2>2 DEF DeletingOK
  <2>4. OpOK(o, t, rows[t], journals[t], staged, disk)
    BY <2>2, <2>3, OpOKBy DEF Deleting
  <2>5. AtWorkOK'
    BY <1>1, <2>1, <2>2, <2>4 DEF AtWorkOK
  <2>6. \A u \in server'.todo : rows'[u].state = "hidden"
    BY <1>1, <1>4, <1>5 DEF IInv, ServerOK
  <2>7. ServerOK'
    BY <1>4, <1>5, <2>1, <2>2, <2>6 DEF ServerOK
  <2> QED BY <1>1, <1>4, <2>1, <2>2, <2>5, <2>7 DEF IInv, Typed
<1>6. CASE server.state = "replacements"
  <2>1. PICK pc \in {"unretire", "undo_swap"} :
          /\ op' = Op("startup", "recover", t, pc)
          /\ pc = "unretire" <=> journals[t].phase = "database_committed"
    BY <1>6 DEF StartupRecovers
  <2>2. journals[t] # NoJournal
    BY <1>2, <1>6 DEF IInv, ServerOK
  <2> DEFINE o == Op("startup", "recover", t, pc)
  <2>3. /\ o \in Ops /\ o.of = t /\ o.on = "startup" /\ o.kind = "recover" /\ o.pc = pc
        /\ o.isBroken = FALSE
    BY DEF Op, Ops, Steps, Completing, Undoing
  <2>4. op' = o
    BY <2>1
  <2> HIDE DEF o
  <2>5. OpOK(o, t, rows[t], journals[t], staged, disk)
    <3>1. CASE pc = "unretire"
      <4>1. CompletingOK(t, "unretire", journals[t], disk)
        BY <2>1, <2>2, <3>1 DEF CompletingOK, IsCommitted
      <4> QED BY <2>3, <3>1, <4>1, OpOKBy DEF Completing
    <3>2. CASE pc = "undo_swap"
      <4>1. UndoingOK(t, "undo_swap", FALSE, journals[t], disk)
        BY <2>1, <2>2, <3>2 DEF UndoingOK, IsPending
      <4> QED BY <2>3, <3>2, <4>1, OpOKBy DEF Undoing
    <3> QED BY <3>1, <3>2
  <2>6. AtWorkOK'
    BY <1>1, <2>3, <2>4, <2>5 DEF AtWorkOK
  <2>7. \A u \in server'.todo : journals'[u] # NoJournal
    BY <1>1, <1>4, <1>6 DEF IInv, ServerOK
  <2>8. ~server'.isFailed => \A u \in Tracks : IsPending(journals'[u]) => u \in server'.todo \/ u = t
    BY <1>1, <1>2, <1>4, <1>6 DEF IInv, ServerOK
  <2>9. op' # NoOp
    BY <2>3, <2>4, OpIsNotNone
  <2>10. ServerOK'
    BY <1>4, <1>6, <2>3, <2>4, <2>7, <2>8, <2>9 DEF ServerOK
  <2> QED BY <1>1, <1>4, <2>3, <2>4, <2>6, <2>10 DEF IInv, Typed
<1> QED BY <1>3, <1>5, <1>6

LEMMA StartupGoesOnKeeps ==
  ASSUME IInv, StartupGoesOn
  PROVE  IInv'
<1>1. ConstantsOK' /\ DataTyped' /\ TracksOK' /\ journals' = journals
  BY NothingKeeps DEF StartupGoesOn
<1>2. op = NoOp /\ op' = NoOp /\ server.todo = {} /\ server \in Servers
  BY DEF StartupGoesOn, IsIdle, IInv, Typed
<1>3. AtWorkOK'
  BY <1>2 DEF AtWorkOK
<1>4. CASE server' = [server EXCEPT !.state = "replacements", !.todo = {t \in Tracks : IsOpen(t)}]
  <2>1. server' \in Servers /\ server'.state = "replacements" /\ server'.todo = {t \in Tracks : IsOpen(t)}
    BY <1>2, <1>4 DEF Servers
  <2>2. /\ \A t \in server'.todo : journals'[t] # NoJournal
        /\ \A t \in Tracks : IsPending(journals'[t]) => t \in server'.todo
    BY <1>1, <2>1 DEF IsOpen, IsPending
  <2>3. ServerOK'
    BY <1>2, <2>1, <2>2 DEF ServerOK
  <2> QED BY <1>1, <1>2, <1>3, <2>1, <2>3 DEF IInv, Typed
<1>5. CASE /\ server.state = "replacements"
           /\ server' = [server EXCEPT !.state = IF server.isFailed THEN "up" ELSE "cleanup"]
  <2>1. /\ server' \in Servers /\ server'.todo = {}
        /\ server'.state = IF server.isFailed THEN "up" ELSE "cleanup"
    BY <1>2, <1>5 DEF Servers
  <2>2. ~server.isFailed => \A t \in Tracks : ~IsPending(journals[t])
    BY <1>2, <1>5 DEF IInv, ServerOK
  <2>3. ServerOK'
    BY <1>1, <1>2, <2>1, <2>2 DEF ServerOK
  <2> QED BY <1>1, <1>2, <1>3, <2>1, <2>3 DEF IInv, Typed
<1> QED BY <1>4, <1>5 DEF StartupGoesOn

LEMMA RemoveAllStagedKeeps ==
  ASSUME IInv, RemoveAllStaged
  PROVE  IInv'
<1>1. /\ server.state = "cleanup" /\ jobs' = jobs /\ op' = op
      /\ UNCHANGED <<rowVars, journals, deletions, disk, covers, made>>
  BY DEF RemoveAllStaged, OnlyFiles
<1>2. /\ op = NoOp /\ server \in Servers /\ server.todo = {} /\ jobs \in [Jobs -> JobStates]
      /\ staged \in [Jobs -> BOOLEAN]
  BY <1>1 DEF IInv, Typed, DataTyped, ServerOK
<1>3. staged' = [j \in Jobs |-> FALSE] \/ staged' = staged
  BY DEF RemoveAllStaged
<1>4. staged' \in [Jobs -> BOOLEAN]
  BY <1>2, <1>3
<1>5. ASSUME NEW t \in Tracks
      PROVE  JobsStay(t, journals[t], jobs, staged, jobs', staged')
  <2>1. ~IsPending(journals[t])
    BY <1>1 DEF IInv, ServerOK
  <2> QED BY <1>1, <1>3, <2>1 DEF JobsStay
<1>6. ConstantsOK' /\ DataTyped' /\ TracksOK'
  BY <1>1, <1>2, <1>4, <1>5, JobsGo
<1>7. server' \in Servers /\ server'.todo = {} /\ server'.state = "cancel"
  BY <1>2 DEF RemoveAllStaged, Servers
<1> QED BY <1>1, <1>2, <1>6, <1>7, QuietKeeps

LEMMA CancelUncommittedKeeps ==
  ASSUME IInv, CancelUncommitted
  PROVE  IInv'
<1> DEFINE waiting == {j \in Jobs : jobs[j] = "awaiting" /\ ~JournalOf(j)}
<1>1. server.state = "cancel" /\ op' = op /\ UNCHANGED <<rowVars, journals, deletions, disk, covers, made>>
  BY DEF CancelUncommitted
<1>2. /\ op = NoOp /\ server \in Servers /\ server.todo = {} /\ jobs \in [Jobs -> JobStates]
      /\ staged \in [Jobs -> BOOLEAN]
  BY <1>1 DEF IInv, Typed, DataTyped, ServerOK
<1>3. PICK failed :
        /\ jobs' = [j \in Jobs |-> IF j \in waiting \ failed THEN "gone" ELSE jobs[j]]
        /\ staged' = [j \in Jobs |-> staged[j] /\ j \notin waiting \ failed]
        /\ server' = [server EXCEPT !.state = "up", !.isFailed = server.isFailed \/ failed # {}]
  BY DEF CancelUncommitted
<1>4. jobs' \in [Jobs -> JobStates] /\ staged' \in [Jobs -> BOOLEAN]
  BY <1>2, <1>3 DEF JobStates
<1>5. ASSUME NEW t \in Tracks
      PROVE  JobsStay(t, journals[t], jobs, staged, jobs', staged')
  <2>1. journals[t] # NoJournal => journals[t].job \in Jobs /\ journals[t].job \notin waiting
    <3>1. journals[t] # NoJournal => Replaces[journals[t].job] = t /\ journals[t] \in Journals
      BY TrackFacts DEF TrackOK, JournalOK, OpenOK
    <3> QED BY <3>1 DEF JournalOf, IsOpen, Journals
  <2>2. \A i \in Jobs : i \in waiting => jobs[i] = "awaiting"
    OBVIOUS
  <2> HIDE DEF waiting
  <2>3. \A i \in Jobs : jobs'[i] = jobs[i] \/ (i \in waiting /\ jobs'[i] = "gone")
    BY <1>3
  <2>4. \A i \in Jobs : (staged'[i] => staged[i]) /\ (i \notin waiting => staged'[i] = staged[i])
    BY <1>2, <1>3
  <2>5. \A i \in Jobs : i \notin waiting => jobs'[i] = jobs[i]
    BY <1>3
  <2> QED BY <2>1, <2>2, <2>3, <2>4, <2>5 DEF JobsStay, IsPending
<1>6. ConstantsOK' /\ DataTyped' /\ TracksOK'
  BY <1>1, <1>4, <1>5, JobsGo
<1>7. server' \in Servers /\ server'.todo = {} /\ server'.state = "up"
  BY <1>2, <1>3 DEF Servers
<1> QED BY <1>1, <1>2, <1>6, <1>7, QuietKeeps

-----------------------------------------------------------------------------
(* The beginning *)

AlbumsUsed == {AlbumOf[t] : t \in Tracks}

LEMMA AlbumsAreFinite ==
  ASSUME ConstantsOK
  PROVE  IsFiniteSet(AlbumsUsed) /\ Cardinality(AlbumsUsed) \in Nat
<1>1. PICK g : g \in Surjection(Tracks, AlbumsUsed)
  <2>1. [t \in Tracks |-> AlbumOf[t]] \in Surjection(Tracks, AlbumsUsed)
    BY DEF Surjection, AlbumsUsed
  <2> QED BY <2>1
<1>2. IsFiniteSet(AlbumsUsed)
  BY <1>1, FS_Surjection DEF ConstantsOK
<1> QED BY <1>2, FS_CardinalityType

\* The Albums of the Tracks can be numbered.
LEMMA AlbumsAreNumbered ==
  ASSUME ConstantsOK
  PROVE  \E f \in [AlbumsUsed -> 1..Cardinality(AlbumsUsed)] : \A a, b \in AlbumsUsed : f[a] = f[b] => a = b
<1>1. ExistsBijection(AlbumsUsed, 1..Cardinality(AlbumsUsed))
  BY AlbumsAreFinite, FS_CardinalityType, Fun_ExistsBijSymmetric
<1>2. PICK f : f \in Bijection(AlbumsUsed, 1..Cardinality(AlbumsUsed))
  BY <1>1 DEF ExistsBijection
<1>3. f \in Injection(AlbumsUsed, 1..Cardinality(AlbumsUsed))
  BY <1>2 DEF Bijection
<1> QED BY <1>3 DEF Injection, IsInjective

\* The state of the beginning, with a number for every Album.
FirstState(f) ==
  /\ rows = [t \in Tracks |-> [state |-> "here", album |-> f[AlbumOf[t]], version |-> t, replaced |-> 0]]
  /\ ids = [a \in Albums |-> IF a \in AlbumsUsed THEN f[a] ELSE 0]
  /\ artwork = {f[a] : a \in CoveredAtFirst}
  /\ jobs = [j \in Jobs |-> "awaiting"]
  /\ journals = [t \in Tracks |-> NoJournal]
  /\ deletions = [t \in Tracks |-> NoDeletion]
  /\ staged = [j \in Jobs |-> TRUE]
  /\ disk = [audio |-> [p \in Paths |-> IF p = <<p[1], f[AlbumOf[p[1]]], NameOf[p[1]]>> THEN p[1] ELSE Absent],
             pending |-> [p \in SidePaths |-> Absent],
             retired |-> [p \in SidePaths |-> Absent]]
  /\ covers = [i \in 1..MaxIds |-> IF i \in {f[a] : a \in CoveredAtFirst} THEN "whole" ELSE Absent]
  /\ made = Cardinality(AlbumsUsed)
  /\ server = [state |-> "up", todo |-> {}, isFailed |-> FALSE, before |-> -1]
  /\ op = NoOp /\ crashes = 0 /\ faults = 0

LEMMA InitNumbers ==
  ASSUME ConstantsOK, Init
  PROVE  \E f \in [AlbumsUsed -> 1..MaxIds] : FirstState(f)
<1> DEFINE n == Cardinality(AlbumsUsed)
           number == CHOOSE f \in [AlbumsUsed -> 1..n] : \A a, b \in AlbumsUsed : f[a] = f[b] => a = b
<1>1. number \in [AlbumsUsed -> 1..n]
  BY AlbumsAreNumbered
<1>2. FirstState(number)
  BY DEF Init, FirstState, AlbumsUsed
<1> HIDE DEF number
<1>3. n <= MaxIds /\ MaxIds \in Nat
  BY DEF ConstantsOK, AlbumsUsed
<1>4. number \in [AlbumsUsed -> 1..MaxIds]
  <2>1. ASSUME NEW a \in AlbumsUsed PROVE number[a] \in 1..n
    BY <1>1
  <2>2. n \in Nat => 1..n \subseteq 1..MaxIds
    BY <1>3
  <2>3. n \in Nat
    BY AlbumsAreFinite
  <2> HIDE DEF n
  <2> QED BY <1>1, <2>2, <2>3
<1> QED BY <1>2, <1>4

LEMMA InitOK ==
  ASSUME ConstantsOK, Init
  PROVE  IInv
<1>1. PICK f \in [AlbumsUsed -> 1..MaxIds] : FirstState(f)
  BY InitNumbers
<1>2. \A t \in Tracks : AlbumOf[t] \in AlbumsUsed /\ f[AlbumOf[t]] \in 1..MaxIds
  BY DEF AlbumsUsed
<1>3. ASSUME NEW t \in Tracks
      PROVE  /\ rows[t] \in Rows /\ rows[t].state = "here" /\ rows[t].album = f[AlbumOf[t]]
             /\ rows[t].version = t /\ rows[t].replaced = 0
  BY <1>1, <1>2 DEF FirstState, Rows, Audio
<1>4. rows \in [Tracks -> Rows]
  BY <1>1, <1>3 DEF FirstState
<1>5. ids \in [Albums -> 0..MaxIds]
  BY <1>1 DEF FirstState, ConstantsOK
<1>6. artwork \subseteq 1..MaxIds
  BY <1>1 DEF FirstState, ConstantsOK, AlbumsUsed
<1>7. covers \in [1..MaxIds -> {"whole", "empty", Absent}]
  BY <1>1 DEF FirstState
<1>8. jobs \in [Jobs -> JobStates] /\ staged \in [Jobs -> BOOLEAN]
  BY <1>1 DEF FirstState, JobStates
<1>9. journals \in [Tracks -> Journals \cup {NoJournal}] /\ deletions \in [Tracks -> [cover : Int]]
  BY <1>1 DEF FirstState, NoDeletion
<1>10. /\ \A p \in Paths : p[1] \in Tracks
       /\ disk.audio = [p \in Paths |-> IF p = <<p[1], f[AlbumOf[p[1]]], NameOf[p[1]]>> THEN p[1] ELSE Absent]
       /\ disk.pending = [p \in SidePaths |-> Absent] /\ disk.retired = [p \in SidePaths |-> Absent]
  BY <1>1 DEF FirstState, Paths
<1>11. disk \in Disks
  <2>1. PICK au, pe, re : disk = [audio |-> au, pending |-> pe, retired |-> re]
    BY <1>1 DEF FirstState
  <2>2. au \in [Paths -> Audio \cup {Absent}]
    BY <1>10, <2>1 DEF Audio
  <2>3. pe \in [SidePaths -> Audio \cup {Absent}] /\ re \in [SidePaths -> Audio \cup {Absent}]
    BY <1>10, <2>1
  <2> QED BY <2>1, <2>2, <2>3 DEF Disks
<1>12. made \in Nat
  BY <1>1, AlbumsAreFinite DEF FirstState
<1>13. /\ server \in Servers /\ server.state = "up" /\ server.todo = {} /\ op = NoOp
  BY <1>1 DEF FirstState, Servers
<1>14. Typed
  BY <1>4, <1>5, <1>6, <1>7, <1>8, <1>9, <1>11, <1>12, <1>13 DEF Typed, DataTyped
<1>15. ASSUME NEW t \in Tracks
       PROVE  TrackOK(t, rows[t], journals[t], deletions[t], jobs, staged, disk)
  <2> DEFINE a == RowPathOf(t, rows[t])
  <2>1. a = <<t, f[AlbumOf[t]], NameOf[t]>> /\ a \in Paths
    BY <1>2, <1>3, RowPathIn DEF RowPathOf, PathOf
  <2>2. \A p \in PathsOf(t) : p \in Paths /\ p[1] = t
    BY DEF PathsOf
  <2>3. \A p \in PathsOf(t) : disk.audio[p] = IF p = a THEN t ELSE Absent
    BY <1>10, <2>1, <2>2
  <2>4. a \in PathsOf(t) /\ disk.audio[a] = t
    BY <1>3, <2>3, RowPathIn
  <2>5. \A p \in SidesOf(t) : disk.pending[p] = Absent /\ disk.retired[p] = Absent
    BY <1>10, OwnPaths
  <2>6. journals[t] = NoJournal /\ deletions[t] = NoDeletion /\ \A j \in Jobs : jobs[j] = "awaiting"
    BY <1>1 DEF FirstState
  <2>7. t \in FilesOf(t) /\ t \notin Jobs /\ t # Absent
    BY DEF FilesOf, ConstantsOK
  <2>8. ~IsPending(NoJournal) /\ ~IsCommitted(NoJournal)
    BY DEF IsPending, IsCommitted
  <2>9. OwnOK(t, rows[t], disk)
    BY <1>3, <2>3, <2>5, <2>7 DEF OwnOK
  <2>10. RowOK(t, rows[t], NoJournal, NoDeletion, jobs, disk)
    BY <1>3, <2>4, <2>7 DEF RowOK
  <2>11. StrayOK(t, rows[t], NoJournal, jobs, disk)
    BY <2>3, <2>5 DEF StrayOK
  <2>12. UploadsOK(t, jobs, staged, disk)
    <3>1. ASSUME NEW j \in Jobs PROVE /\ \A p \in PathsOf(t) : disk.audio[p] # j
                                      /\ \A p \in SidesOf(t) : disk.pending[p] # j
      BY <2>3, <2>5, <2>7 DEF ConstantsOK
    <3> QED BY <3>1 DEF UploadsOK, UploadOK
  <2>13. CountOK(t, rows[t], NoJournal, jobs)
    <3> DEFINE S == {j \in Jobs : Replaces[j] = t /\ jobs[j] = "committed"}
    <3>1. S = {}
      BY <2>6
    <3> HIDE DEF S
    <3>2. Cardinality(S) = 0
      BY <3>1, FS_EmptySet
    <3>3. rows[t].replaced = Cardinality(S) + 0
      BY <1>3, <3>2
    <3> QED BY <2>8, <3>3 DEF CountOK, S
  <2> QED BY <2>6, <2>8, <2>9, <2>10, <2>11, <2>12, <2>13 DEF TrackOK, JournalOK
<1>16. AtWorkOK /\ ServerOK
  BY <1>13 DEF AtWorkOK, ServerOK
<1> QED BY <1>14, <1>15, <1>16 DEF IInv, TracksOK

-----------------------------------------------------------------------------
(* The theorems *)

\* Failures are counted.
LEMMA FaultsAreCounted ==
  ASSUME faults \in Int, [Next]_vars
  PROVE  faults' \in Int
<1>1. CASE UNCHANGED vars
  BY <1>1 DEF vars
<1>2. ASSUME NEW j \in Jobs, ConfirmReplacement(j) \/ PrepareJournal(j) \/ CancelJob(j)
      PROVE  faults' \in Int
  BY <1>2 DEF ConfirmReplacement, PrepareJournal, CancelJob, Request, Unfailing
<1>3. ASSUME NEW t \in Tracks, ReplacementStep(t)
      PROVE  faults' \in Int
  <2>1. Unfailing \/ Fault
    <3>1. CASE Place(t) \/ PlaceArtwork(t) \/ MarkArtworkCreated(t) \/ WriteArtwork(t)
      BY <3>1 DEF Place, PlaceArtwork, MarkArtworkCreated, WriteArtwork
    <3>2. CASE RemoveArtwork(t) \/ Unplace(t) \/ GiveUp(t) \/ AdvancePlaced(t) \/ AdvanceVerified(t)
      BY <3>2 DEF RemoveArtwork, Unplace, GiveUp, AdvancePlaced, AdvanceVerified, Advance
    <3>3. CASE Retire(t) \/ Swap(t) \/ Unswap(t) \/ AdvanceSwapped(t) \/ StreamSwapped(t)
      BY <3>3 DEF Retire, Swap, Unswap, AdvanceSwapped, Advance, StreamSwapped
    <3>4. CASE CommitData(t) \/ UndoSwap(t) \/ UndoRetire(t) \/ UndoPlace(t) \/ UndoArtwork(t)
      BY <3>4 DEF CommitData, UndoSwap, UndoRetire, UndoPlace, UndoArtwork, Part
    <3>5. CASE Undone(t) \/ RemoveRetired(t) \/ RemoveOldCover(t) \/ FinalizeReplacement(t)
      BY <3>5 DEF Undone, RemoveRetired, RemoveOldCover, FinalizeReplacement
    <3> QED BY <1>3, <3>1, <3>2, <3>3, <3>4, <3>5 DEF ReplacementStep
  <2> QED BY <2>1 DEF Unfailing, Fault
<1>4. ASSUME NEW t \in Tracks, DeleteTrack(t) \/ DeletionStep(t) \/ StartupRecovers(t)
      PROVE  faults' \in Int
  <2>1. Unfailing \/ Fault
    BY <1>4 DEF DeleteTrack, Request, DeletionStep, PrepareDeletion, RemoveAudio, RemoveFinalCover,
                CancelDeletion, FinalizeDeletion, StartupRecovers
  <2> QED BY <2>1 DEF Unfailing, Fault
<1>5. ASSUME StartupGoesOn \/ RemoveAllStaged \/ CancelUncommitted \/ Crash \/ Restart
      PROVE  faults' \in Int
  <2>1. Unfailing \/ Fault \/ faults' = faults
    BY <1>5 DEF StartupGoesOn, RemoveAllStaged, CancelUncommitted, Crash, Restart
  <2> QED BY <2>1 DEF Unfailing, Fault
<1> QED BY <1>1, <1>2, <1>3, <1>4, <1>5 DEF Next

\* Every step keeps the invariant.
LEMMA StepKeeps ==
  ASSUME IInv, faults \in Int, [Next]_vars
  PROVE  IInv'
<1>1. CASE UNCHANGED vars
  <2>1. Nothing /\ op' = op /\ server' = server
    BY <1>1 DEF vars, Nothing, OnlyFiles
  <2>2. /\ ConstantsOK' /\ DataTyped' /\ TracksOK' /\ rows' = rows /\ journals' = journals
        /\ staged' = staged /\ disk' = disk
    BY <2>1, NothingKeeps
  <2>3. AtWorkOK' /\ ServerOK'
    BY <2>1, <2>2 DEF IInv, AtWorkOK, ServerOK
  <2> QED BY <2>1, <2>2, <2>3 DEF IInv, Typed
<1>2. ASSUME NEW j \in Jobs, ConfirmReplacement(j) \/ PrepareJournal(j) \/ CancelJob(j)
      PROVE  IInv'
  BY <1>2, ConfirmKeeps, PrepareJournalKeeps, CancelJobKeeps
<1>3. ASSUME NEW t \in Tracks, ReplacementStep(t)
      PROVE  IInv'
  BY <1>3, PlaceKeeps, ArtworkKeeps, MarkKeeps, UnplaceKeeps, GiveUpKeeps, AdvanceKeeps, RetireKeeps,
     SwapKeeps, UnswapKeeps, StreamKeeps, CommitKeeps, UndoSwapKeeps, UndoRetireKeeps, UndoPlaceKeeps,
     UndoArtworkKeeps, UndoneKeeps, RemoveRetiredKeeps, RemoveOldCoverKeeps, FinalizeReplacementKeeps
     DEF ReplacementStep
<1>4. ASSUME NEW t \in Tracks, DeleteTrack(t) \/ DeletionStep(t) \/ StartupRecovers(t)
      PROVE  IInv'
  BY <1>4, DeleteKeeps, PrepareDeletionKeeps, RemoveAudioKeeps, RemoveFinalCoverKeeps,
     CancelDeletionKeeps, FinalizeDeletionKeeps, StartupRecoversKeeps DEF DeletionStep
<1>5. ASSUME StartupGoesOn \/ RemoveAllStaged \/ CancelUncommitted \/ Crash \/ Restart
      PROVE  IInv'
  BY <1>5, StartupGoesOnKeeps, RemoveAllStagedKeeps, CancelUncommittedKeeps, CrashKeeps, RestartKeeps
<1> QED BY <1>1, <1>2, <1>3, <1>4, <1>5 DEF Next

\* The inductive invariant holds in every state: every file of a Track is where the
\* journal's phase and the step of the operation in progress say, whatever crashed
\* or failed before (replacement.rs, deletion.rs, ManagedImport::start).
THEOREM Invariant == ConstantsOK /\ Spec => []IInv
<1> DEFINE Both == IInv /\ faults \in Int
<1>1. ConstantsOK /\ Init => Both
  <2>1. Init => faults \in Int
    BY DEF Init
  <2> QED BY <2>1, InitOK
<1>2. Both /\ [Next]_vars => Both'
  BY StepKeeps, FaultsAreCounted
<1>3. Both => IInv
  OBVIOUS
<1> HIDE DEF Both
<1> QED BY <1>1, <1>2, <1>3, PTL DEF Spec

\* A Track that is shown has the file its row names at the path it names, or at the
\* retired path of an open replacement that has not committed, where a rollback
\* finds it: in every crash and failure of swap_replacement, rollback_replacement
\* and the deletion.
THEOREM VisibleTrackHasItsFile == ConstantsOK /\ Spec => []VisibleTrackKeepsItsFile
<1>1. IInv => VisibleTrackKeepsItsFile
  <2> SUFFICES ASSUME IInv, NEW t \in Tracks, rows[t].state = "here",
                      disk.audio[RowPath(t)] # rows[t].version
               PROVE  /\ IsOpen(t) /\ journals[t].phase \in {"verified", "swapped"}
                      /\ From(t) = RowPath(t) /\ disk.retired[Retired(t)] = rows[t].version
    BY DEF VisibleTrackKeepsItsFile
  <2> DEFINE jr == journals[t]
  <2>1. TrackOK(t, rows[t], jr, deletions[t], jobs, staged, disk) /\ jr \in Journals \cup {NoJournal}
    BY TrackFacts
  <2>2. jr # NoJournal /\ jr \in Journals
    BY <2>1, JournalPaths DEF TrackOK, RowOK
  <2>3. IsPending(jr)
    <3>1. IsCommitted(jr) => disk.audio[RowPathOf(t, rows[t])] = rows[t].version
      BY <2>1 DEF TrackOK, JournalOK, CommittedOK
    <3> QED BY <2>2, <3>1, JournalPaths DEF IsPending, IsCommitted
  <2>4. PendingOK(t, rows[t], jr, staged, disk) /\ OpenOK(t, jr, jobs, disk)
    BY <2>2, <2>3, TrackFacts, PendingFacts
  <2>5. jr.from = RowPathOf(t, rows[t]) /\ rows[t].version = jr.old
    BY <2>4 DEF PendingOK
  <2>6. disk.retired[RetiredOf(t, jr)] # Absent
    BY <2>4, <2>5, JournalPaths DEF PendingOK
  <2>7. disk.retired[RetiredOf(t, jr)] = jr.old /\ jr.phase \in {"verified", "swapped"}
    BY <2>4, <2>6 DEF PendingOK, OpenOK
  <2> QED BY <2>2, <2>5, <2>7, JournalPaths DEF IsOpen
<1> QED BY <1>1, Invariant, PTL

\* A file that a row gave up is not left in the library: a retired file belongs to an
\* open journal that names it, and what is at a canonical path is the file of the
\* row that names the path or the upload of a job that did not commit
\* (complete_replacement_files, finalize_track_deletion).
THEOREM NothingIsLeftBehind == ConstantsOK /\ Spec => []OldFilesAreRemoved
<1>1. IInv => OldFilesAreRemoved
  <2> SUFFICES ASSUME IInv PROVE OldFilesAreRemoved
    OBVIOUS
  <2>1. ASSUME NEW p \in Paths, disk.audio[p] # Absent
        PROVE  \/ rows[p[1]].state # "gone" /\ p = RowPath(p[1])
               \/ disk.audio[p] \in {j \in Jobs : jobs[j] # "committed"}
    <3> DEFINE t == p[1]
    <3>1. t \in Tracks /\ p \in PathsOf(t)
      BY DEF Paths, PathsOf
    <3> HIDE DEF t
    <3>2. TrackOK(t, rows[t], journals[t], deletions[t], jobs, staged, disk)
      BY <3>1, TrackFacts
    <3>3. CASE p = RowPathOf(t, rows[t])
      <4>1. rows[t].state # "gone"
        BY <2>1, <3>2, <3>3 DEF TrackOK, RowOK
      <4> QED BY <3>3, <4>1, JournalPaths DEF t
    <3>4. CASE p # RowPathOf(t, rows[t])
      BY <2>1, <3>1, <3>2, <3>4 DEF TrackOK, StrayOK
    <3> QED BY <3>3, <3>4
  <2>2. ASSUME NEW p \in SidePaths, disk.retired[p] # Absent
        PROVE  IsOpen(p[1]) /\ p = Retired(p[1])
    <3> DEFINE t == p[1]
    <3>1. t \in Tracks /\ p \in SidesOf(t)
      BY DEF SidePaths, SidesOf
    <3> HIDE DEF t
    <3>2. TrackOK(t, rows[t], journals[t], deletions[t], jobs, staged, disk)
      BY <3>1, TrackFacts
    <3>3. journals[t] # NoJournal /\ p = RetiredOf(t, journals[t])
      BY <2>2, <3>1, <3>2 DEF TrackOK, StrayOK
    <3> QED BY <3>3, JournalPaths DEF IsOpen, t
  <2> QED BY <2>1, <2>2 DEF OldFilesAreRemoved
<1> QED BY <1>1, Invariant, PTL

\* A Track is hidden exactly while its deletion is journaled, so a restart deletes
\* every hidden one (prepare_track_deletion, cancel_track_deletion).
THEOREM HiddenMeansDeleting == ConstantsOK /\ Spec => []HiddenIsBeingDeleted
<1>1. IInv => HiddenIsBeingDeleted
  BY TrackFacts DEF TrackOK, RowOK, HiddenIsBeingDeleted
<1> QED BY <1>1, Invariant, PTL

\* A Track is replaced once for every job that committed, however often the job was
\* confirmed, recovered or answered with an error after its transaction
\* (commit_replacement_data, finalize_replacement).
THEOREM ReplacementsCountOnce == ConstantsOK /\ Spec => []ReplacedOnce
<1>1. IInv => ReplacedOnce
  <2> SUFFICES ASSUME IInv, NEW t \in Tracks, rows[t].state # "gone"
               PROVE  rows[t].replaced
                        = Cardinality({j \in Jobs : Replaces[j] = t /\ jobs[j] = "committed"})
                          + (IF IsOpen(t) /\ journals[t].phase = "database_committed" THEN 1 ELSE 0)
    BY DEF ReplacedOnce
  <2>1. CountOK(t, rows[t], journals[t], jobs)
    BY TrackFacts DEF TrackOK
  <2> QED BY <2>1 DEF CountOK, IsCommitted, IsOpen
<1> QED BY <1>1, Invariant, PTL

\* The variables keep their types; a journal's paths are canonical paths of its Track
\* and its job is one that replaces it.
THEOREM TypesAreKept == ConstantsOK /\ Spec => []TypeOK
<1>1. IInv => TypeOK
  <2> SUFFICES ASSUME IInv PROVE TypeOK
    OBVIOUS
  <2>1. ASSUME NEW t \in Tracks
        PROVE  /\ rows[t].state \in {"here", "hidden", "gone"} /\ rows[t].album \in 1..MaxIds
               /\ rows[t].version \in {t} \cup {j \in Jobs : Replaces[j] = t}
               /\ IsOpen(t) => /\ From(t) \in Paths /\ To(t) \in Paths
                               /\ Replaces[JobOf(t)] = t
                               /\ journals[t].phase \in {"prepared", "placed", "verified", "swapped",
                                                         "database_committed"}
    <3>1. rows[t] \in Rows /\ rows[t].version \in FilesOf(t)
      BY TrackFacts DEF TrackOK, OwnOK
    <3>2. ASSUME IsOpen(t)
          PROVE  /\ From(t) \in Paths /\ To(t) \in Paths /\ Replaces[JobOf(t)] = t
                 /\ journals[t].phase \in Phases
      <4>1. journals[t] \in Journals
        BY <3>2, TrackFacts DEF IsOpen
      <4> QED BY <4>1, TrackFacts, OpenFacts, JournalPaths DEF Journals
    <3> QED BY <3>1, <3>2 DEF Rows, FilesOf, Phases
  <2>2. \A j \in Jobs : jobs[j] \in {"awaiting", "committed", "gone"}
    BY DEF IInv, Typed, DataTyped, JobStates
  <2>3. disk \in Disks
    BY DEF IInv, Typed, DataTyped
  <2>4. /\ \A p \in Paths : disk.audio[p] \in Tracks \cup Jobs \cup {Absent}
        /\ \A p \in SidePaths : {disk.pending[p], disk.retired[p]} \subseteq Tracks \cup Jobs \cup {Absent}
    BY <2>3 DEF Disks, Audio
  <2>5. /\ ids \in [Albums -> 0..MaxIds] /\ artwork \subseteq 1..MaxIds
        /\ \A i \in 1..MaxIds : covers[i] \in {"whole", "empty", Absent}
    BY DEF IInv, Typed, DataTyped
  <2> QED BY <2>1, <2>2, <2>4, <2>5 DEF TypeOK
<1> QED BY <1>1, Invariant, PTL

-----------------------------------------------------------------------------
(* Artwork: the invariant *)

\* A replacement that is about to commit finds the artwork as its plan says: without a
\* row unless the Album had one, and with a whole file unless there is none to make;
\* it makes what the plan says it makes.
ArtworkOK(t, pc) ==
  /\ pc \in {"mark_artwork", "write_artwork", "remove_artwork"} => journals[t].mode = "create"
  /\ pc \in (Placing \cup Swapping) \ {"give_up"} /\ journals[t].mode # "existing" => NewId(t) \notin artwork
  /\ pc \in {"placed", "verify", "retire"} \cup Swapping /\ journals[t].mode # "none" => covers[NewId(t)] = "whole"

CoverOK == op # NoOp => ArtworkOK(op.of, op.pc)

Awaited == (Placing \cup Swapping) \ {"give_up"}

LEMMA CoverIdle ==
  ASSUME op' = NoOp \/ op'.pc \notin Awaited
  PROVE  CoverOK'
<1>1. {"placed", "verify", "retire", "mark_artwork", "write_artwork", "remove_artwork"} \cup Swapping
        \subseteq Awaited
  BY DEF Awaited, Placing, Swapping
<1> QED BY <1>1 DEF CoverOK, ArtworkOK, Awaited

\* From step to step with the same artwork.
LEMMA CoverGoesOn ==
  ASSUME IInv, CoverOK, NEW t \in Tracks, op \in Ops, op.of = t, NEW pc \in Steps, GoesOn(pc),
         artwork' = artwork, covers' = covers, op.pc \in Awaited,
         journals'[t].mode = journals[t].mode, journals'[t].to = journals[t].to,
         \/ pc \notin {"placed", "verify", "retire"} \cup Swapping
         \/ op.pc \in {"placed", "verify", "retire"} \cup Swapping
         \/ journals[t].mode = "none" \/ covers[NewId(t)] = "whole",
         pc \in {"mark_artwork", "write_artwork", "remove_artwork"} =>
           op.pc \in {"mark_artwork", "write_artwork", "remove_artwork"}
  PROVE  CoverOK'
<1>1. op' # NoOp /\ op'.pc = pc /\ op'.of = t /\ op # NoOp
  BY GoesOnOp, OpIsNotNone DEF Continues
<1>2. ArtworkOK(t, op.pc)
  BY <1>1 DEF CoverOK
<1>3. NewId(t)' = NewId(t)
  BY JournalPaths DEF NewId, To
<1>4. ArtworkOK(t, pc)'
  BY <1>2, <1>3 DEF ArtworkOK, Awaited
<1> QED BY <1>1, <1>4 DEF CoverOK

LEMMA CoverKeeps ==
  ASSUME IInv, CoverOK, [Next]_vars
  PROVE  CoverOK'
<1>1. CASE UNCHANGED vars
  BY <1>1 DEF vars, rowVars, files, CoverOK, ArtworkOK, NewId, To
<1>2. ASSUME NEW j \in Jobs, ConfirmReplacement(j) \/ CancelJob(j)
      PROVE  CoverOK'
  <2>1. CASE ConfirmReplacement(j)
    <3>1. op'.pc \in {"journal", "unretire", "undo_swap"}
      BY <2>1 DEF ConfirmReplacement, Request, Op
    <3> QED BY <3>1, CoverIdle DEF Awaited, Placing, Swapping
  <2>2. CASE CancelJob(j)
    BY <2>2, CoverIdle DEF CancelJob, IsIdle
  <2> QED BY <1>2, <2>1, <2>2
<1>3. ASSUME NEW j \in Jobs, PrepareJournal(j)
      PROVE  CoverOK'
  <2> DEFINE t == Replaces[j]
  <2>1. op \in Ops /\ op.of = t /\ t \in Tracks /\ journals \in [Tracks -> Journals \cup {NoJournal}]
    BY <1>3, AtStep DEF PrepareJournal, IInv, ConstantsOK, Typed, DataTyped
  <2>2. CASE op' = NoOp
    BY <2>2, CoverIdle
  <2>3. ASSUME GoesOn("place"),
               journals' = [journals EXCEPT ![t] =
                 [phase |-> "prepared", job |-> j, from |-> RowPath(t),
                  to |-> PathOf(t, AlbumId(j), j), mode |-> ArtworkMode(j),
                  isCoverCreated |-> FALSE, old |-> rows[t].version,
                  oldCover |-> AbandonedCover(j)]],
               artwork' = artwork
        PROVE  CoverOK'
    <3>1. op' # NoOp /\ op'.pc = "place" /\ op'.of = t
      BY <2>1, <2>3, GoesOnOp, OpIsNotNone DEF Continues, Steps, Placing
    <3>2. journals'[t].mode = ArtworkMode(j) /\ journals'[t].to[2] = AlbumId(j)
      BY <2>1, <2>3 DEF PathOf
    <3>3. ArtworkMode(j) # "existing" => AlbumId(j) \notin artwork
      BY DEF ArtworkMode
    <3>4. ArtworkOK(t, "place")'
      BY <2>3, <3>2, <3>3 DEF ArtworkOK, NewId, To, Swapping
    <3> QED BY <3>1, <3>4 DEF CoverOK
  <2> QED BY <1>3, <2>2, <2>3 DEF PrepareJournal, End, rowVars
<1>4. ASSUME NEW t \in Tracks, IsOpen(t) /\ ReplacementStep(t)
      PROVE  CoverOK'
  <2>1. ASSUME NEW pc \in Placing \cup Swapping, At(pc), op.of = t
        PROVE  op \in Ops /\ op.of = t /\ op.pc = pc /\ IsOpen(t)
               /\ journals \in [Tracks -> Journals \cup {NoJournal}] /\ journals[t] \in Journals
    BY <1>4, <2>1, AtReplacing DEF IInv, Typed, DataTyped
  <2>2. ASSUME NEW pc, pc \notin Awaited, GoesOn(pc), op \in Ops
        PROVE  CoverOK'
    <3>1. op'.pc = pc
      BY <2>2 DEF GoesOn, Ops
    <3> QED BY <2>2, <3>1, CoverIdle
  <2>3. CASE Place(t)
    <3>1. op \in Ops /\ op.of = t /\ op.pc = "place"
      BY <2>1, <2>3 DEF Place, Placing
    <3>2. CASE GoesOn("give_up")
      BY <2>2, <3>1, <3>2 DEF Awaited
    <3>3. CASE GoesOn("artwork") /\ UNCHANGED covers
      BY <2>3, <3>1, <3>3, CoverGoesOn
         DEF Place, OnlyFiles, rowVars, Awaited, Placing, Swapping, Steps
    <3> QED BY <2>3, <3>2, <3>3 DEF Place
  <2>4. CASE PlaceArtwork(t)
    <3>1. /\ op \in Ops /\ op.of = t /\ op.pc = "artwork" /\ artwork' = artwork /\ journals' = journals
      BY <2>1, <2>4 DEF PlaceArtwork, Placing, OnlyFiles, rowVars
    <3>2. CASE GoesOn("mark_artwork") /\ journals[t].mode = "create"
      <4>1. op' # NoOp /\ op'.pc = "mark_artwork" /\ op'.of = t /\ op # NoOp
        BY <3>1, <3>2, GoesOnOp, OpIsNotNone DEF Continues, Steps, Placing
      <4>2. ArtworkOK(t, "artwork")
        BY <3>1, <4>1 DEF CoverOK
      <4>3. ArtworkOK(t, "mark_artwork")'
        BY <3>1, <3>2, <4>2 DEF ArtworkOK, NewId, To, Placing, Swapping
      <4> QED BY <4>1, <4>3 DEF CoverOK
    <3>3. CASE /\ GoesOn("placed") /\ UNCHANGED covers
               /\ journals[t].mode = "none" \/ covers[NewId(t)] = "whole"
      BY <3>1, <3>3, CoverGoesOn DEF Awaited, Placing, Steps
    <3>4. CASE GoesOn("unplace") /\ UNCHANGED covers
      BY <3>1, <3>4, CoverGoesOn DEF Awaited, Placing, Swapping, Steps
    <3> QED BY <2>4, <3>2, <3>3, <3>4 DEF PlaceArtwork
  <2>5. CASE MarkArtworkCreated(t)
    <3>1. /\ op \in Ops /\ op.of = t /\ op.pc = "mark_artwork" /\ artwork' = artwork /\ covers' = covers
          /\ journals \in [Tracks -> Journals \cup {NoJournal}] /\ journals[t] \in Journals
      BY <2>1, <2>5 DEF MarkArtworkCreated, Placing, OnlyJournals, rowVars, files
    <3>2. journals'[t].mode = journals[t].mode /\ journals'[t].to = journals[t].to
      <4>1. journals' = journals \/ journals' = [journals EXCEPT ![t].isCoverCreated = TRUE]
        BY <2>5 DEF MarkArtworkCreated
      <4> QED BY <3>1, <4>1 DEF Journals
    <3>3. GoesOn("write_artwork") \/ GoesOn("remove_artwork")
      BY <2>5 DEF MarkArtworkCreated
    <3> QED BY <3>1, <3>2, <3>3, CoverGoesOn DEF Awaited, Placing, Swapping, Steps
  <2>6. CASE WriteArtwork(t)
    <3>1. /\ op \in Ops /\ op.of = t /\ op.pc = "write_artwork" /\ artwork' = artwork
          /\ journals' = journals /\ journals[t] \in Journals
      BY <2>1, <2>6 DEF WriteArtwork, Placing, OnlyFiles, rowVars
    <3>2. CASE covers' = [covers EXCEPT ![NewId(t)] = "whole"] /\ GoesOn("placed")
      <4>1. op' # NoOp /\ op'.pc = "placed" /\ op'.of = t /\ op # NoOp
        BY <3>1, <3>2, GoesOnOp, OpIsNotNone DEF Continues, Steps, Placing
      <4>2. ArtworkOK(t, "write_artwork")
        BY <3>1, <4>1 DEF CoverOK
      <4>3. NewId(t) \in 1..MaxIds /\ covers \in [1..MaxIds -> {"whole", "empty", Absent}]
        BY <3>1 DEF Journals, Paths, NewId, To, IInv, Typed, DataTyped
      <4>4. covers'[NewId(t)] = "whole" /\ NewId(t)' = NewId(t)
        BY <3>1, <3>2, <4>3 DEF NewId, To
      <4>5. ArtworkOK(t, "placed")'
        BY <3>1, <4>2, <4>4 DEF ArtworkOK, Placing, Swapping
      <4> QED BY <4>1, <4>5 DEF CoverOK
    <3>3. CASE GoesOn("remove_artwork") /\ UNCHANGED covers
      BY <3>1, <3>3, CoverGoesOn DEF Awaited, Placing, Swapping, Steps
    <3> QED BY <2>6, <3>2, <3>3 DEF WriteArtwork
  <2>7. CASE RemoveArtwork(t)
    <3>1. /\ op \in Ops /\ op.of = t /\ op.pc = "remove_artwork" /\ artwork' = artwork
          /\ journals' = journals /\ GoesOn("unplace")
      BY <2>1, <2>7 DEF RemoveArtwork, Placing, OnlyFiles, rowVars
    <3>2. op' # NoOp /\ op'.pc = "unplace" /\ op'.of = t /\ op # NoOp
      BY <3>1, GoesOnOp, OpIsNotNone DEF Continues, Steps, Placing
    <3>3. ArtworkOK(t, "remove_artwork")
      BY <3>1, <3>2 DEF CoverOK
    <3>4. ArtworkOK(t, "unplace")'
      BY <3>1, <3>3 DEF ArtworkOK, NewId, To, Placing, Swapping
    <3> QED BY <3>2, <3>4 DEF CoverOK
  <2>8. CASE Unplace(t)
    BY <2>1, <2>2, <2>8 DEF Unplace, Placing, Awaited
  <2>9. CASE GiveUp(t)
    BY <2>9, CoverIdle DEF GiveUp, End
  <2>10. ASSUME NEW pc \in {"placed", "verify", "swapped"}, NEW phase,
                NEW next \in {"verify", "retire", "stream"}, Advance(t, pc, phase, next)
         PROVE  CoverOK'
    <3>1. /\ op \in Ops /\ op.of = t /\ op.pc = pc /\ artwork' = artwork /\ covers' = covers
          /\ journals \in [Tracks -> Journals \cup {NoJournal}] /\ journals[t] \in Journals
      BY <2>1, <2>10 DEF Advance, Placing, Swapping, OnlyJournals, rowVars, files
    <3>2. CASE GoesOn("undo_swap")
      BY <2>2, <3>1, <3>2 DEF Awaited, Placing, Swapping
    <3>3. CASE SetPhase(t, phase) /\ GoesOn(next)
      <4>1. journals'[t].mode = journals[t].mode /\ journals'[t].to = journals[t].to
        BY <3>1, <3>3 DEF SetPhase, Journals
      <4> QED BY <3>1, <3>3, <4>1, CoverGoesOn DEF Awaited, Placing, Swapping, Steps
    <3> QED BY <2>10, <3>2, <3>3 DEF Advance
  <2>11. CASE AdvancePlaced(t) \/ AdvanceVerified(t) \/ AdvanceSwapped(t)
    BY <2>10, <2>11 DEF AdvancePlaced, AdvanceVerified, AdvanceSwapped
  <2>12. CASE Retire(t) \/ Swap(t) \/ Unswap(t) \/ StreamSwapped(t)
    <3>1. PICK pc \in {"retire", "swap", "unswap", "stream"} : At(pc) /\ op.of = t
      BY <2>12 DEF Retire, Swap, Unswap, StreamSwapped
    <3>2. op \in Ops /\ op.of = t /\ op.pc = pc
      BY <2>1, <3>1 DEF Placing, Swapping
    <3>3. artwork' = artwork /\ covers' = covers /\ journals' = journals
      BY <2>12 DEF Retire, Swap, Unswap, StreamSwapped, Nothing, OnlyFiles, rowVars, files
    <3>4. PICK next \in {"swap", "swapped", "commit", "unswap", "undo_swap"} : GoesOn(next)
      BY <2>12 DEF Retire, Swap, Unswap, StreamSwapped
    <3> QED BY <2>2, <3>2, <3>3, <3>4, CoverGoesOn DEF Awaited, Placing, Swapping, Steps
  <2>13. CASE CommitData(t)
    <3>1. op \in Ops
      BY <2>1, <2>13 DEF CommitData, Swapping
    <3>2. op' = NoOp \/ GoesOn("unretire") \/ GoesOn("undo_swap")
      BY <2>13 DEF CommitData, End
    <3> QED BY <2>2, <3>1, <3>2, CoverIdle DEF Awaited, Placing, Swapping
  <2>14. CASE UndoSwap(t) \/ UndoRetire(t) \/ UndoPlace(t) \/ UndoArtwork(t)
    <3>1. PICK pc \in Undoing : At(pc) /\ op.of = t
      BY <2>14 DEF UndoSwap, UndoRetire, UndoPlace, UndoArtwork, Part, Undoing
    <3>2. op \in Ops
      BY <3>1, AtUndoing
    <3>3. PICK next \in Undoing : GoesOn(next) \/ Broken(next)
      BY <2>14 DEF UndoSwap, UndoRetire, UndoPlace, UndoArtwork, Part, Undoing
    <3>4. op'.pc = next
      BY <3>2, <3>3 DEF GoesOn, Broken, Ops
    <3> QED BY <3>4, CoverIdle DEF Awaited, Placing, Swapping, Undoing
  <2>15. CASE Undone(t)
    <3>1. op \in Ops
      BY <2>15, AtUndoing DEF Undone, Undoing
    <3>2. op' = NoOp \/ op'.pc = "journal"
      BY <2>15, <3>1 DEF Undone, Recovered, End, Ops
    <3> QED BY <3>2, CoverIdle DEF Awaited, Placing, Swapping
  <2>16. CASE RemoveRetired(t) \/ RemoveOldCover(t) \/ FinalizeReplacement(t)
    <3>1. PICK pc \in Completing : At(pc) /\ op.of = t
      BY <2>16 DEF RemoveRetired, RemoveOldCover, FinalizeReplacement, Completing
    <3>2. op \in Ops
      BY <3>1, AtCompleting
    <3>3. op' = NoOp \/ GoesOn("uncover") \/ GoesOn("finalize")
      BY <2>16 DEF RemoveRetired, RemoveOldCover, FinalizeReplacement, End
    <3> QED BY <2>2, <3>2, <3>3, CoverIdle DEF Awaited, Placing, Swapping
  <2> QED BY <1>4, <2>3, <2>4, <2>5, <2>6, <2>7, <2>8, <2>9, <2>11, <2>12, <2>13, <2>14, <2>15, <2>16
          DEF ReplacementStep
<1>5. ASSUME NEW t \in Tracks, DeleteTrack(t) \/ DeletionStep(t) \/ StartupRecovers(t)
      PROVE  CoverOK'
  <2>1. CASE DeleteTrack(t)
    BY <2>1, CoverIdle DEF DeleteTrack, Request, Op, Awaited, Placing, Swapping
  <2>2. CASE DeletionStep(t)
    <3>1. PICK pc \in Deleting \cup {"d_prepare"} : At(pc)
      BY <2>2 DEF DeletionStep, PrepareDeletion, RemoveAudio, RemoveFinalCover, CancelDeletion,
                  FinalizeDeletion, Deleting
    <3>2. op \in Ops
      BY <3>1, AtStep DEF Deleting
    <3>3. op' = NoOp \/ \E next \in Deleting : GoesOn(next)
      BY <2>2 DEF DeletionStep, PrepareDeletion, RemoveAudio, RemoveFinalCover, CancelDeletion,
                  FinalizeDeletion, Deleting, End
    <3>4. op' = NoOp \/ op'.pc \in Deleting
      BY <3>2, <3>3 DEF GoesOn, Ops
    <3> QED BY <3>4, CoverIdle DEF Awaited, Placing, Swapping, Deleting
  <2>3. CASE StartupRecovers(t)
    BY <2>3, CoverIdle DEF StartupRecovers, Op, Awaited, Placing, Swapping
  <2> QED BY <1>5, <2>1, <2>2, <2>3
<1>6. ASSUME StartupGoesOn \/ RemoveAllStaged \/ CancelUncommitted \/ Crash \/ Restart
      PROVE  CoverOK'
  <2>1. op' = NoOp
    <3>1. CASE StartupGoesOn \/ Crash
      BY <3>1 DEF StartupGoesOn, Crash, IsIdle
    <3>2. CASE RemoveAllStaged \/ CancelUncommitted \/ Restart
      <4>1. op' = op /\ server.state \in {"cleanup", "cancel", "down"}
        BY <3>2 DEF RemoveAllStaged, CancelUncommitted, Restart
      <4> QED BY <4>1 DEF IInv, ServerOK
    <3> QED BY <1>6, <3>1, <3>2
  <2> QED BY <2>1, CoverIdle
<1> QED BY <1>1, <1>2, <1>3, <1>4, <1>5, <1>6 DEF Next

\* An Album that is shown was shown, when no row changes and no deletion begins.
LEMMA ShownStays ==
  ASSUME rows' = rows,
         \/ op' = NoOp
         \/ op'.pc \notin {"d_audio", "d_cancel"}
         \/ op'.pc = "d_audio" /\ op'.on = "startup"
         \/ op'.of = op.of /\ op'.pc = op.pc /\ op'.on = op.on
         \/ op'.pc = "d_cancel" /\ op'.of = op.of /\ op.pc = "d_audio" /\ op.on = "request",
         NEW id, IsShown(id)'
  PROVE  IsShown(id)
<1>1. NoOp.pc = "none"
  BY DEF NoOp
<1>2. TracksOf(id)' = TracksOf(id)
  BY DEF TracksOf
<1>3. PICK t \in TracksOf(id) :
        \/ rows'[t].state = "here"
        \/ op'.pc = "d_cancel" /\ op'.of = t
        \/ op'.pc = "d_audio" /\ op'.of = t /\ op'.on = "request"
  BY <1>2 DEF IsShown, At
<1>4. CASE op' = NoOp
  BY <1>1, <1>3, <1>4 DEF IsShown
<1>5. CASE op' # NoOp
  <2>1. \/ rows[t].state = "here"
        \/ op.pc = "d_cancel" /\ op.of = t
        \/ op.pc = "d_audio" /\ op.of = t /\ op.on = "request"
    BY <1>3, <1>5
  <2> QED BY <2>1 DEF IsShown, At
<1> QED BY <1>4, <1>5

\* A step that keeps the rows loses no artwork, if it removes none that has a row.
LEMMA NoneIsLost ==
  ASSUME rows' = rows, artwork' = artwork, \A id \in artwork : covers[id] = "whole" => covers'[id] = "whole",
         \/ op' = NoOp
         \/ op'.pc \notin {"d_audio", "d_cancel"}
         \/ op'.pc = "d_audio" /\ op'.on = "startup"
         \/ op'.of = op.of /\ op'.pc = op.pc /\ op'.on = op.on
         \/ op'.pc = "d_cancel" /\ op'.of = op.of /\ op.pc = "d_audio" /\ op.on = "request"
  PROVE  CoversStayWhole
<1> SUFFICES ASSUME NEW id \in 1..MaxIds, IsCoverLost(id)'
             PROVE  IsCoverLost(id)
  BY DEF CoversStayWhole
<1>1. IsShown(id)
  BY ShownStays DEF IsCoverLost
<1> QED BY <1>1 DEF IsCoverLost

\* The artwork that a step removes is one its Track's journal or deletion claims.
LEMMA ClaimedIsLost ==
  ASSUME rows' = rows, artwork' = artwork, NEW c, covers' = [covers EXCEPT ![c] = Absent],
         covers \in [1..MaxIds -> {"whole", "empty", Absent}],
         op' = NoOp \/ op'.pc \notin {"d_audio", "d_cancel"},
         NEW t \in Tracks,
         \/ deletions[t].cover = c
         \/ IsOpen(t) /\ journals[t].phase = "database_committed" /\ journals[t].oldCover = c
         \/ IsOpen(t) /\ journals[t].phase # "database_committed" /\ journals[t].isCoverCreated /\ NewId(t) = c
  PROVE  CoversStayWhole
<1> SUFFICES ASSUME NEW id \in 1..MaxIds, IsCoverLost(id)', ~IsCoverLost(id)
             PROVE  IsCoverClaimed(id)
  BY DEF CoversStayWhole
<1>1. id \in artwork /\ IsShown(id)
  BY ShownStays DEF IsCoverLost
<1>2. covers[id] = "whole" /\ covers'[id] # "whole"
  BY <1>1 DEF IsCoverLost
<1>3. id = c
  BY <1>2
<1> QED BY <1>1, <1>3 DEF IsCoverClaimed

\* The transaction of a replacement: the artwork that gets a row is whole, and so is
\* that of the Album the Track joins.
LEMMA CommitLosesNone ==
  ASSUME IInv, CoverOK, NEW t \in Tracks, CommitData(t)
  PROVE  CoversStayWhole
<1> DEFINE jr == journals[t]
<1>1. op \in Ops /\ op.pc = "commit" /\ jr \in Journals /\ op.of = t /\ covers' = covers /\ op # NoOp
  BY AtReplacing, OpIsNotNone DEF CommitData, Swapping, files
<1>2. ArtworkOK(t, "commit")
  BY <1>1 DEF CoverOK
<1>3. /\ jr.mode # "existing" => NewId(t) \notin artwork
      /\ jr.mode # "none" => covers[NewId(t)] = "whole"
      /\ jr.mode \in {"existing", "create", "none"}
  BY <1>1, <1>2 DEF ArtworkOK, Swapping, Placing, Journals
<1>4. \A next \in {"unretire", "undo_swap"} : GoesOn(next) => op'.pc = next
  BY <1>1 DEF GoesOn, Ops
<1>5. op' = NoOp \/ op'.pc \notin {"d_audio", "d_cancel"}
  BY <1>4 DEF CommitData, End
<1>6. CASE UNCHANGED rowVars
  BY <1>1, <1>5, <1>6, NoneIsLost DEF rowVars
<1>7. CASE ReplacementData(t)
  <2> SUFFICES ASSUME NEW id \in 1..MaxIds, IsCoverLost(id)'
               PROVE  IsCoverLost(id)
    BY DEF CoversStayWhole
  <2>1. id \in artwork' /\ IsShown(id)' /\ covers[id] # "whole"
    BY <1>1 DEF IsCoverLost
  <2>2. artwork' \subseteq artwork \cup (IF jr.mode = "create" THEN {NewId(t)} ELSE {})
    BY <1>7 DEF ReplacementData, ArtworkWithout
  <2>3. id # NewId(t) /\ id \in artwork
    BY <1>3, <2>1, <2>2
  <2>4. rows \in [Tracks -> Rows] /\ rows' = ReplacedTrack(t)
    BY <1>7 DEF ReplacementData, IInv, Typed, DataTyped
  <2>5. rows'[t].album = NewId(t) /\ \A u \in Tracks : u # t => rows'[u] = rows[u]
    BY <2>4 DEF ReplacedTrack, Rows
  <2>6. PICK u \in Tracks : /\ rows'[u].state # "gone" /\ rows'[u].album = id
                            /\ \/ rows'[u].state = "here"
                               \/ op'.pc = "d_cancel" /\ op'.of = u
                               \/ op'.pc = "d_audio" /\ op'.of = u /\ op'.on = "request"
    BY <2>1 DEF IsShown, TracksOf, At
  <2>7. rows'[u].state = "here"
    BY <1>5, <2>6 DEF NoOp
  <2>8. rows[u].state = "here" /\ rows[u].album = id
    BY <2>3, <2>5, <2>6, <2>7
  <2>9. IsShown(id)
    BY <2>8 DEF IsShown, TracksOf
  <2> QED BY <2>1, <2>3, <2>9 DEF IsCoverLost
<1> QED BY <1>6, <1>7 DEF CommitData

LEMMA ReplacementLosesNone ==
  ASSUME IInv, CoverOK, NEW t \in Tracks, IsOpen(t), ReplacementStep(t)
  PROVE  CoversStayWhole
<1>1. covers \in [1..MaxIds -> {"whole", "empty", Absent}]
  BY DEF IInv, Typed, DataTyped
<1>2. ASSUME NEW pc \in Placing \cup Swapping \cup Undoing \cup Completing, At(pc), op.of = t
      PROVE  op \in Ops /\ op # NoOp /\ op.pc = pc /\ journals[t] \in Journals
    BY <1>2, AtReplacing, AtUndoing, AtCompleting, OpIsNotNone
<1>3. ASSUME NEW next \in Steps, op \in Ops, GoesOn(next) \/ Broken(next)
      PROVE  op'.pc = next
  BY <1>3 DEF GoesOn, Broken, Ops
<1>4. CASE Place(t) \/ MarkArtworkCreated(t) \/ Unplace(t) \/ GiveUp(t) \/ AdvancePlaced(t)
           \/ AdvanceVerified(t) \/ AdvanceSwapped(t)
  <2>1. rows' = rows /\ artwork' = artwork /\ covers' = covers
    BY <1>4 DEF Place, MarkArtworkCreated, Unplace, GiveUp, AdvancePlaced, AdvanceVerified,
                AdvanceSwapped, Advance, OnlyFiles, OnlyJournals, rowVars, files
  <2>2. PICK pc \in Placing \cup Swapping : At(pc) /\ op.of = t
    BY <1>4 DEF Place, MarkArtworkCreated, Unplace, GiveUp, AdvancePlaced, AdvanceVerified,
                AdvanceSwapped, Advance, Placing, Swapping
  <2>3. op' = NoOp \/ \E next \in Placing \cup Swapping \cup Undoing : GoesOn(next)
    BY <1>4 DEF Place, MarkArtworkCreated, Unplace, GiveUp, AdvancePlaced, AdvanceVerified,
                AdvanceSwapped, Advance, End, Placing, Swapping, Undoing
  <2>4. op' = NoOp \/ op'.pc \notin {"d_audio", "d_cancel"}
    BY <1>2, <1>3, <2>2, <2>3 DEF Steps, Placing, Swapping, Undoing
  <2> QED BY <2>1, <2>4, NoneIsLost
<1>5. CASE PlaceArtwork(t) \/ WriteArtwork(t) \/ RemoveArtwork(t)
  <2>1. rows' = rows /\ artwork' = artwork
    BY <1>5 DEF PlaceArtwork, WriteArtwork, RemoveArtwork, OnlyFiles, rowVars
  <2>2. PICK pc \in {"artwork", "write_artwork", "remove_artwork"} : At(pc) /\ op.of = t
    BY <1>5 DEF PlaceArtwork, WriteArtwork, RemoveArtwork
  <2>3. op \in Ops /\ op # NoOp /\ op.pc = pc
    BY <1>2, <2>2 DEF Placing
  <2>4. PICK next \in Placing : GoesOn(next)
    BY <1>5 DEF PlaceArtwork, WriteArtwork, RemoveArtwork, Placing
  <2>5. op'.pc \notin {"d_audio", "d_cancel"}
    BY <1>3, <2>3, <2>4 DEF Steps, Placing
  <2>6. CASE PlaceArtwork(t) \/ WriteArtwork(t)
    <3>1. \/ covers' = covers
          \/ covers[NewId(t)] = Absent /\ covers' = [covers EXCEPT ![NewId(t)] = "empty"]
          \/ covers' = [covers EXCEPT ![NewId(t)] = "whole"]
      BY <2>6 DEF PlaceArtwork, WriteArtwork
    <3>2. \A id \in 1..MaxIds : covers[id] = "whole" => covers'[id] = "whole"
      BY <1>1, <3>1 DEF Absent
    <3>3. artwork \subseteq 1..MaxIds
      BY DEF IInv, Typed, DataTyped
    <3> QED BY <2>1, <2>5, <3>2, <3>3, NoneIsLost
  <2>7. CASE RemoveArtwork(t)
    <3>1. covers' = covers \/ covers' = [covers EXCEPT ![NewId(t)] = Absent]
      BY <2>7 DEF RemoveArtwork
    <3>2. ArtworkOK(t, pc)
      BY <2>2, <2>3 DEF CoverOK
    <3>3. NewId(t) \notin artwork
      BY <2>3, <2>7, <3>2 DEF ArtworkOK, Placing, RemoveArtwork, At
    <3>4. artwork \subseteq 1..MaxIds
      BY DEF IInv, Typed, DataTyped
    <3>5. \A id \in artwork : covers[id] = "whole" => covers'[id] = "whole"
      BY <1>1, <3>1, <3>3, <3>4
    <3> QED BY <2>1, <2>5, <3>5, NoneIsLost
  <2> QED BY <1>5, <2>6, <2>7
<1>6. CASE Retire(t) \/ Swap(t) \/ Unswap(t) \/ StreamSwapped(t)
  <2>1. rows' = rows /\ artwork' = artwork /\ covers' = covers
    BY <1>6 DEF Retire, Swap, Unswap, StreamSwapped, Nothing, OnlyFiles, rowVars, files
  <2>2. PICK pc \in {"retire", "swap", "unswap", "stream"} : At(pc) /\ op.of = t
    BY <1>6 DEF Retire, Swap, Unswap, StreamSwapped
  <2>3. PICK next \in {"swap", "swapped", "commit", "unswap", "undo_swap"} : GoesOn(next)
    BY <1>6 DEF Retire, Swap, Unswap, StreamSwapped
  <2>4. op'.pc = next
    BY <1>2, <1>3, <2>2, <2>3 DEF Steps, Placing, Swapping, Undoing
  <2> QED BY <2>1, <2>4, NoneIsLost
<1>7. CASE CommitData(t)
  BY <1>7, CommitLosesNone
<1>8. CASE UndoSwap(t) \/ UndoRetire(t) \/ UndoPlace(t) \/ Undone(t)
  <2>1. rows' = rows /\ artwork' = artwork /\ covers' = covers
    BY <1>8 DEF UndoSwap, UndoRetire, UndoPlace, Part, Undone, OnlyFiles, OnlyJournals, rowVars, files
  <2>2. PICK pc \in Undoing : At(pc) /\ op.of = t
    BY <1>8 DEF UndoSwap, UndoRetire, UndoPlace, Part, Undone, Undoing
  <2>3. op \in Ops
    BY <1>2, <2>2
  <2>4. CASE Undone(t)
    <3>1. op' = NoOp \/ op'.pc = "journal"
      BY <2>3, <2>4 DEF Undone, Recovered, End, Ops
    <3> QED BY <2>1, <3>1, NoneIsLost
  <2>5. CASE ~Undone(t)
    <3>1. PICK next \in Undoing : GoesOn(next) \/ Broken(next)
      BY <1>8, <2>5 DEF UndoSwap, UndoRetire, UndoPlace, Part, Undoing
    <3>2. op'.pc = next
      BY <1>3, <2>3, <3>1 DEF Steps
    <3> QED BY <2>1, <3>2, NoneIsLost DEF Undoing
  <2> QED BY <2>4, <2>5
<1>9. CASE UndoArtwork(t)
  <2>1. /\ rows' = rows /\ artwork' = artwork /\ At("undo_artwork") /\ op.of = t
        /\ GoesOn("undone") \/ Broken("undone")
    BY <1>9 DEF UndoArtwork, Part, OnlyFiles, rowVars
  <2>2. op \in Ops /\ IsPending(journals[t])
    BY <2>1, AtUndoing DEF Undoing
  <2>3. op'.pc = "undone"
    BY <1>3, <2>1, <2>2 DEF Steps, Undoing
  <2>4. \/ covers' = covers
        \/ journals[t].isCoverCreated /\ covers' = [covers EXCEPT ![NewId(t)] = Absent]
    BY <1>9 DEF UndoArtwork, Part, files
  <2>5. CASE covers' = covers
    BY <2>1, <2>3, <2>5, NoneIsLost
  <2>6. CASE journals[t].isCoverCreated /\ covers' = [covers EXCEPT ![NewId(t)] = Absent]
    BY <1>1, <2>1, <2>2, <2>3, <2>6, ClaimedIsLost DEF IsPending
  <2> QED BY <2>4, <2>5, <2>6
<1>10. CASE RemoveRetired(t) \/ FinalizeReplacement(t)
  <2>1. rows' = rows /\ artwork' = artwork /\ covers' = covers
    BY <1>10 DEF RemoveRetired, FinalizeReplacement, OnlyFiles, rowVars, files
  <2>2. PICK pc \in Completing : At(pc) /\ op.of = t
    BY <1>10 DEF RemoveRetired, FinalizeReplacement, Completing
  <2>3. op' = NoOp \/ GoesOn("uncover")
    BY <1>10 DEF RemoveRetired, FinalizeReplacement, End
  <2>4. op' = NoOp \/ op'.pc = "uncover"
    BY <1>2, <1>3, <2>2, <2>3 DEF Steps, Completing
  <2> QED BY <2>1, <2>4, NoneIsLost
<1>11. CASE RemoveOldCover(t)
  <2>1. rows' = rows /\ artwork' = artwork /\ At("uncover") /\ op.of = t
    BY <1>11 DEF RemoveOldCover, OnlyFiles, rowVars
  <2>2. op \in Ops /\ IsCommitted(journals[t])
    BY <2>1, AtCompleting DEF Completing
  <2>3. op' = NoOp \/ GoesOn("finalize")
    BY <1>11 DEF RemoveOldCover, End
  <2>4. op' = NoOp \/ op'.pc = "finalize"
    BY <1>3, <2>2, <2>3 DEF Steps, Completing
  <2>5. covers' = covers \/ covers' = [covers EXCEPT ![journals[t].oldCover] = Absent]
    BY <1>11 DEF RemoveOldCover
  <2>6. CASE covers' = covers
    BY <2>1, <2>4, <2>6, NoneIsLost
  <2>7. CASE covers' = [covers EXCEPT ![journals[t].oldCover] = Absent]
    BY <1>1, <2>1, <2>2, <2>4, <2>7, ClaimedIsLost DEF IsCommitted
  <2> QED BY <2>5, <2>6, <2>7
<1> QED BY <1>4, <1>5, <1>6, <1>7, <1>8, <1>9, <1>10, <1>11 DEF ReplacementStep

LEMMA DeletionLosesNone ==
  ASSUME IInv, NEW t \in Tracks, DeletionStep(t)
  PROVE  CoversStayWhole
<1>0. covers \in [1..MaxIds -> {"whole", "empty", Absent}] /\ rows \in [Tracks -> Rows]
  BY DEF IInv, Typed, DataTyped
<1>1. PICK pc \in Deleting \cup {"d_prepare"} : At(pc) /\ op.of = t
  BY DEF DeletionStep, PrepareDeletion, RemoveAudio, RemoveFinalCover, CancelDeletion,
         FinalizeDeletion, Deleting
<1>2. op \in Ops /\ op # NoOp /\ op.pc = pc
  BY <1>1, AtStep DEF Deleting
<1>3. ASSUME NEW next \in Steps, GoesOn(next)
      PROVE  op'.pc = next /\ op'.of = t /\ op'.on = op.on
  BY <1>1, <1>2, <1>3 DEF GoesOn, Ops
<1>4. CASE PrepareDeletion(t) /\ rows' # rows
  <2> SUFFICES ASSUME NEW id \in 1..MaxIds, IsCoverLost(id)'
               PROVE  IsCoverLost(id)
    BY DEF CoversStayWhole
  <2>1. /\ rows' = [rows EXCEPT ![t].state = "hidden"] /\ artwork' = artwork /\ covers' = covers
        /\ GoesOn("d_audio") /\ rows[t].state = "here"
    BY <1>4 DEF PrepareDeletion, Resolves, files
  <2>2. op'.pc = "d_audio" /\ op'.of = t
    BY <1>3, <2>1 DEF Steps, Deleting
  <2>3. PICK u \in Tracks : rows'[u].state # "gone" /\ rows'[u].album = id
                            /\ (rows'[u].state = "here" \/ u = t)
    BY <2>2 DEF IsCoverLost, IsShown, TracksOf, At
  <2>4. rows[u].state = "here" /\ rows[u].album = id
    BY <1>0, <2>1, <2>3 DEF Rows
  <2>5. IsShown(id)
    BY <2>4 DEF IsShown, TracksOf
  <2> QED BY <2>1, <2>5 DEF IsCoverLost
<1>5. CASE PrepareDeletion(t) /\ rows' = rows
  <2>1. artwork' = artwork /\ covers' = covers
    BY <1>5 DEF PrepareDeletion, files
  <2>2. op' = NoOp \/ (rows' = [rows EXCEPT ![t].state = "hidden"] /\ rows[t].state = "here")
    BY <1>5 DEF PrepareDeletion, End, Resolves
  <2>3. op' = NoOp
    BY <1>0, <1>5, <2>2 DEF Rows
  <2> QED BY <1>5, <2>1, <2>3, NoneIsLost
<1>6. CASE RemoveAudio(t)
  <2>1. rows' = rows /\ artwork' = artwork /\ covers' = covers /\ op.pc = "d_audio"
    BY <1>2, <1>6 DEF RemoveAudio, OnlyFiles, rowVars, At
  <2>2. op' = NoOp \/ GoesOn("d_cover") \/ (GoesOn("d_cancel") /\ op.on = "request")
    BY <1>6 DEF RemoveAudio, End
  <2>3. op' = NoOp \/ op'.pc = "d_cover" \/ (op'.pc = "d_cancel" /\ op'.of = op.of /\ op.on = "request")
    BY <1>1, <1>3, <2>2 DEF Steps, Deleting
  <2> QED BY <2>1, <2>3, NoneIsLost
<1>7. CASE RemoveFinalCover(t)
  <2>1. rows' = rows /\ artwork' = artwork
    BY <1>7 DEF RemoveFinalCover, OnlyFiles, rowVars
  <2>2. op' = NoOp \/ GoesOn("d_finalize")
    BY <1>7 DEF RemoveFinalCover, End
  <2>3. op' = NoOp \/ op'.pc = "d_finalize"
    BY <1>3, <2>2 DEF Steps, Deleting
  <2>4. covers' = covers \/ covers' = [covers EXCEPT ![deletions[t].cover] = Absent]
    BY <1>7 DEF RemoveFinalCover
  <2>5. CASE covers' = covers
    BY <2>1, <2>3, <2>5, NoneIsLost
  <2>6. CASE covers' = [covers EXCEPT ![deletions[t].cover] = Absent]
    BY <1>0, <2>1, <2>3, <2>6, ClaimedIsLost
  <2> QED BY <2>4, <2>5, <2>6
<1>8. CASE CancelDeletion(t)
  <2> SUFFICES ASSUME NEW id \in 1..MaxIds, IsCoverLost(id)'
               PROVE  IsCoverLost(id)
    BY DEF CoversStayWhole
  <2>1. artwork' = artwork /\ covers' = covers /\ op' = NoOp /\ op.pc = "d_cancel" /\ op.of = t
    BY <1>2, <1>8 DEF CancelDeletion, files, End, At
  <2>2. PICK u \in Tracks : rows'[u].state = "here" /\ rows'[u].album = id
    BY <2>1 DEF IsCoverLost, IsShown, TracksOf, At, NoOp
  <2>3. rows' = rows \/ rows' = [rows EXCEPT ![t].state = "here"]
    BY <1>8 DEF CancelDeletion
  <2>4. rows[t].state = "hidden"
    BY <1>1, <2>1, AtDeleting DEF DeletingOK, Deleting, At
  <2>5. rows[u].album = id /\ (rows[u].state = "here" \/ u = t)
    BY <1>0, <2>2, <2>3 DEF Rows
  <2>6. IsShown(id)
    BY <2>1, <2>4, <2>5 DEF IsShown, TracksOf, At
  <2> QED BY <2>1, <2>6 DEF IsCoverLost
<1>9. CASE FinalizeDeletion(t)
  <2> SUFFICES ASSUME NEW id \in 1..MaxIds, IsCoverLost(id)'
               PROVE  IsCoverLost(id)
    BY DEF CoversStayWhole
  <2>1. covers' = covers /\ op' = NoOp /\ artwork' \subseteq artwork
    BY <1>9 DEF FinalizeDeletion, files, End, ArtworkWithout, rowVars
  <2>2. PICK u \in Tracks : rows'[u].state = "here" /\ rows'[u].album = id
    BY <2>1 DEF IsCoverLost, IsShown, TracksOf, At, NoOp
  <2>3. rows' = rows \/ rows' = [rows EXCEPT ![t].state = "gone"]
    BY <1>9 DEF FinalizeDeletion, rowVars
  <2>4. rows[u].album = id /\ rows[u].state = "here"
    BY <1>0, <2>2, <2>3 DEF Rows
  <2>5. IsShown(id)
    BY <2>4 DEF IsShown, TracksOf
  <2> QED BY <2>1, <2>5 DEF IsCoverLost
<1> QED BY <1>4, <1>5, <1>6, <1>7, <1>8, <1>9 DEF DeletionStep

LEMMA StepLosesNone ==
  ASSUME IInv, CoverOK, [Next]_vars
  PROVE  [CoversStayWhole]_vars
<1>1. ASSUME NEW j \in Jobs, ConfirmReplacement(j) \/ PrepareJournal(j) \/ CancelJob(j)
      PROVE  CoversStayWhole
  <2>1. rows' = rows /\ artwork' = artwork /\ covers' = covers
    BY <1>1 DEF ConfirmReplacement, Request, Nothing, OnlyFiles, PrepareJournal, CancelJob, rowVars, files
  <2>2. op' = NoOp \/ op'.pc \notin {"d_audio", "d_cancel"}
    <3>1. CASE ConfirmReplacement(j)
      BY <3>1 DEF ConfirmReplacement, Request, Op
    <3>2. CASE PrepareJournal(j)
      <4>1. op \in Ops
        BY <3>2, AtStep DEF PrepareJournal
      <4>2. op' = NoOp \/ GoesOn("place")
        BY <3>2 DEF PrepareJournal, End
      <4> QED BY <4>1, <4>2 DEF GoesOn, Ops
    <3>3. CASE CancelJob(j)
      BY <3>3 DEF CancelJob, IsIdle
    <3> QED BY <1>1, <3>1, <3>2, <3>3
  <2> QED BY <2>1, <2>2, NoneIsLost
<1>2. ASSUME NEW t \in Tracks, IsOpen(t) /\ ReplacementStep(t)
      PROVE  CoversStayWhole
  BY <1>2, ReplacementLosesNone
<1>3. ASSUME NEW t \in Tracks, DeleteTrack(t) \/ StartupRecovers(t)
      PROVE  CoversStayWhole
  <2>1. rows' = rows /\ artwork' = artwork /\ covers' = covers
    BY <1>3 DEF DeleteTrack, Request, StartupRecovers, Nothing, OnlyFiles, rowVars, files
  <2>2. op'.pc \notin {"d_audio", "d_cancel"} \/ (op'.pc = "d_audio" /\ op'.on = "startup")
    BY <1>3 DEF DeleteTrack, Request, StartupRecovers, Op
  <2> QED BY <2>1, <2>2, NoneIsLost
<1>4. ASSUME NEW t \in Tracks, DeletionStep(t)
      PROVE  CoversStayWhole
  BY <1>4, DeletionLosesNone
<1>5. ASSUME StartupGoesOn \/ RemoveAllStaged \/ CancelUncommitted \/ Crash \/ Restart
      PROVE  CoversStayWhole
  <2>1. rows' = rows /\ artwork' = artwork /\ covers' = covers
    BY <1>5 DEF StartupGoesOn, RemoveAllStaged, CancelUncommitted, Crash, Restart, Nothing, OnlyFiles,
                rowVars, files
  <2>2. op' = NoOp \/ op' = op
    BY <1>5 DEF StartupGoesOn, RemoveAllStaged, CancelUncommitted, Crash, Restart
  <2> QED BY <2>1, <2>2, NoneIsLost
<1> QED BY <1>1, <1>2, <1>3, <1>4, <1>5 DEF Next

\* The artwork of a shown Album is lost only to an operation that was cut short and
\* overtaken, whose journal names it as its own to remove; every other step of every
\* replacement and deletion, and every crash, leaves it whole (place_replacement,
\* write_rooted_artwork, rollback_replacement, remove_prepared_deletion_files).
THEOREM ArtworkStaysWhole == ConstantsOK /\ Spec => [][CoversStayWhole]_vars
<1>1. IInv /\ CoverOK /\ [Next]_vars => CoverOK'
  BY CoverKeeps
<1>2. Init => CoverOK
  BY DEF Init, CoverOK
<1>3. IInv /\ CoverOK /\ [Next]_vars => [CoversStayWhole]_vars
  BY StepLosesNone
<1> QED BY <1>1, <1>2, <1>3, Invariant, PTL DEF Spec

-----------------------------------------------------------------------------
(* What a startup leaves: the invariant *)

\* Nothing has failed since the startup began, and no request came.
IsFresh == server.before = faults

\* The Track the operation in progress is about.
IsWorkedOn(t) == op # NoOp /\ op.of = t

\* A replacement that a startup without a failure leaves open.
IsStuck(t) == IF IsCommitted(journals[t]) THEN rows[t].state = "gone" ELSE IsObstructed(t)

\* The file of a hidden Track is the one its row names, or it is gone.
HiddenOK ==
  \A t \in Tracks : rows[t].state = "hidden" => disk.audio[RowPathOf(t, rows[t])] \in {Absent, rows[t].version}

\* A request makes the startup old news; a startup takes up what was cut short and
\* begins nothing.
StartedOK ==
  /\ faults \in Nat /\ server.before <= faults
  /\ op # NoOp /\ op.on = "request" => server.before = -1
  /\ op # NoOp /\ op.on = "startup" =>
       op.pc \in IF server.state = "deletions" THEN Deleting \ {"d_cancel"} ELSE Undoing \cup Completing

\* The rollback a startup has in progress was broken by an upload in its way only.
RollbackOK(t) ==
  /\ op.isBroken => op.pc \in Undoing /\ IsObstructed(t)
  /\ op.pc = "undo_retire" /\ ~op.isBroken /\ IsSwapBegun(t) => disk.audio[To(t)] = Absent

\* What is settled while nothing fails: the deletions, then the replacements but for
\* those that are stuck, then the uploads.
DeletionsFresh ==
  /\ server.state = "deletions" =>
       ~server.isFailed /\ \A t \in Tracks : rows[t].state = "hidden" => t \in server.todo \/ IsWorkedOn(t)
  /\ server.state \in {"replacements", "cleanup", "cancel", "up"} => \A t \in Tracks : rows[t].state # "hidden"

ReplacementsFresh ==
  /\ server.state = "replacements" =>
       /\ \A t \in Tracks : IsOpen(t) => t \in server.todo \/ IsWorkedOn(t) \/ (server.isFailed /\ IsStuck(t))
       /\ server.isFailed => \E t \in Tracks : IsOpen(t) /\ t \notin server.todo /\ ~IsWorkedOn(t)
       /\ op # NoOp => RollbackOK(op.of)
  /\ server.state \in {"cleanup", "cancel"} => ~server.isFailed /\ \A t \in Tracks : ~IsOpen(t)
  /\ server.state = "up" => \A t \in Tracks : IsOpen(t) => IsStuck(t)

UploadsFresh ==
  /\ server.state = "cancel" => \A j \in Jobs : ~staged[j]
  /\ server.state = "up" /\ (\A t \in Tracks : ~IsOpen(t)) => \A j \in Jobs : jobs[j] # "awaiting" /\ ~staged[j]

SettledOK ==
  /\ HiddenOK /\ StartedOK
  /\ IsFresh => DeletionsFresh /\ ReplacementsFresh /\ UploadsFresh

-----------------------------------------------------------------------------
(* What a startup leaves: how the steps look *)

LEMMA EndServer ==
  ASSUME IInv, op \in Ops, NEW isFailed \in BOOLEAN, End(isFailed)
  PROVE  /\ op' = NoOp /\ server' \in Servers /\ server'.before = server.before
         /\ op.on = "request" => server' = server
         /\ op.on = "startup" /\ (~isFailed \/ op.kind # "delete") =>
              /\ server'.state = server.state /\ server'.todo = server.todo
              /\ server'.isFailed = (server.isFailed \/ isFailed)
<1>1. server \in Servers
  BY DEF IInv, Typed
<1>2. op.on = "request" \/ op.on = "startup"
  BY DEF Ops
<1>3. CASE op.on = "request"
  BY <1>1, <1>3 DEF End
<1>4. CASE op.on = "startup" /\ isFailed /\ op.kind = "delete"
  BY <1>1, <1>4 DEF End, Servers
<1>5. CASE op.on = "startup" /\ ~(isFailed /\ op.kind = "delete")
  <2>1. server' = [server EXCEPT !.isFailed = server.isFailed \/ isFailed] /\ op' = NoOp
    BY <1>5 DEF End
  <2> QED BY <1>1, <1>5, <2>1 DEF Servers
<1> QED BY <1>2, <1>3, <1>4, <1>5

\* A step of an operation is a step of its Track, goes on or ends, and keeps what the
\* server remembers of its start.
OpSteps(t, pcs) ==
  /\ op \in Ops /\ op # NoOp /\ op.of = t /\ op.pc \in pcs
  /\ server' \in Servers /\ server'.before = server.before
  /\ Unfailing \/ Fault
  /\ \/ op' = NoOp
     \/ op' \in Ops /\ op'.of = t /\ op'.on = op.on /\ server' = server

LEMMA OpGoesOn ==
  ASSUME IInv, NEW t \in Tracks, op \in Ops, op.of = t, NEW pcs, op.pc \in pcs, Unfailing \/ Fault,
         \/ \E isFailed \in BOOLEAN : End(isFailed)
         \/ \E pc \in Steps : GoesOn(pc) \/ Broken(pc)
  PROVE  OpSteps(t, pcs)
<1>1. server \in Servers /\ op # NoOp
  BY OpIsNotNone DEF IInv, Typed
<1>2. CASE \E isFailed \in BOOLEAN : End(isFailed)
  BY <1>1, <1>2, EndServer DEF OpSteps
<1>3. CASE \E pc \in Steps : GoesOn(pc) \/ Broken(pc)
  <2>1. PICK pc \in Steps : GoesOn(pc) \/ Broken(pc)
    BY <1>3
  <2>2. Continues /\ server' = server
    BY <2>1, GoesOnOp, BrokenOp DEF Continues
  <2> QED BY <1>1, <2>2 DEF Continues, OpSteps
<1> QED BY <1>2, <1>3

LEMMA ReplacingOp ==
  ASSUME IInv, NEW t \in Tracks,
         \/ Place(t) \/ PlaceArtwork(t) \/ MarkArtworkCreated(t) \/ WriteArtwork(t)
         \/ RemoveArtwork(t) \/ Unplace(t) \/ GiveUp(t) \/ AdvancePlaced(t) \/ AdvanceVerified(t)
         \/ Retire(t) \/ Swap(t) \/ Unswap(t) \/ AdvanceSwapped(t) \/ StreamSwapped(t) \/ CommitData(t)
  PROVE  OpSteps(t, Placing \cup Swapping)
<1>1. PICK pc \in Placing \cup Swapping : At(pc) /\ op.of = t
  BY DEF Place, PlaceArtwork, MarkArtworkCreated, WriteArtwork, RemoveArtwork, Unplace, GiveUp,
         AdvancePlaced, AdvanceVerified, AdvanceSwapped, Advance, Retire, Swap, Unswap, StreamSwapped,
         CommitData, Placing, Swapping
<1>2. op \in Ops /\ op.pc = pc
  BY <1>1, AtReplacing
<1>3. Unfailing \/ Fault
  BY DEF Place, PlaceArtwork, MarkArtworkCreated, WriteArtwork, RemoveArtwork, Unplace, GiveUp,
         AdvancePlaced, AdvanceVerified, AdvanceSwapped, Advance, Retire, Swap, Unswap, StreamSwapped,
         CommitData
<1>4. \/ End(TRUE)
      \/ \E next \in Steps : GoesOn(next)
  BY DEF Place, PlaceArtwork, MarkArtworkCreated, WriteArtwork, RemoveArtwork, Unplace, GiveUp,
         AdvancePlaced, AdvanceVerified, AdvanceSwapped, Advance, Retire, Swap, Unswap, StreamSwapped,
         CommitData, Steps, Placing, Swapping, Undoing, Completing
<1> QED BY <1>1, <1>2, <1>3, <1>4, OpGoesOn

LEMMA UndoingOp ==
  ASSUME IInv, NEW t \in Tracks,
         UndoSwap(t) \/ UndoRetire(t) \/ UndoPlace(t) \/ UndoArtwork(t) \/ Undone(t)
  PROVE  OpSteps(t, Undoing)
<1>1. PICK pc \in Undoing : At(pc) /\ op.of = t
  BY DEF UndoSwap, UndoRetire, UndoPlace, UndoArtwork, Undone, Part, Undoing
<1>2. op \in Ops /\ op.pc = pc
  BY <1>1, AtUndoing
<1>3. Unfailing \/ Fault
  BY DEF UndoSwap, UndoRetire, UndoPlace, UndoArtwork, Undone, Part
<1>4. CASE ~Undone(t)
  <2>1. \E next \in Steps : GoesOn(next) \/ Broken(next)
    BY <1>4 DEF UndoSwap, UndoRetire, UndoPlace, UndoArtwork, Part, Steps, Undoing
  <2> QED BY <1>1, <1>2, <1>3, <2>1, OpGoesOn
<1>5. CASE Undone(t)
  <2>1. CASE \E isFailed \in BOOLEAN : End(isFailed)
    BY <1>1, <1>2, <1>3, <2>1, OpGoesOn
  <2>2. CASE op' = [op EXCEPT !.kind = "confirm", !.pc = "journal"] /\ UNCHANGED server
    <3>1. op' \in Ops /\ op'.of = op.of /\ op'.on = op.on
      BY <1>2, <2>2 DEF Ops, Steps
    <3> QED BY <1>1, <1>2, <1>3, <2>2, <3>1, OpIsNotNone DEF OpSteps, IInv, Typed
  <2>3. \/ \E isFailed \in BOOLEAN : End(isFailed)
        \/ op' = [op EXCEPT !.kind = "confirm", !.pc = "journal"] /\ UNCHANGED server
    <3>1. (op.kind # "recover") \in BOOLEAN
      OBVIOUS
    <3> QED BY <1>5, <3>1 DEF Undone, Recovered
  <2> QED BY <2>1, <2>2, <2>3
<1> QED BY <1>4, <1>5

LEMMA CompletingOp ==
  ASSUME IInv, NEW t \in Tracks, RemoveRetired(t) \/ RemoveOldCover(t) \/ FinalizeReplacement(t)
  PROVE  OpSteps(t, Completing)
<1>1. PICK pc \in Completing : At(pc) /\ op.of = t
  BY DEF RemoveRetired, RemoveOldCover, FinalizeReplacement, Completing
<1>2. op \in Ops /\ op.pc = pc
  BY <1>1, AtCompleting
<1>3. Unfailing \/ Fault
  BY DEF RemoveRetired, RemoveOldCover, FinalizeReplacement
<1>4. \/ \E isFailed \in BOOLEAN : End(isFailed)
      \/ \E next \in Steps : GoesOn(next)
  BY DEF RemoveRetired, RemoveOldCover, FinalizeReplacement, Steps, Completing
<1> QED BY <1>1, <1>2, <1>3, <1>4, OpGoesOn

LEMMA DeletingOp ==
  ASSUME IInv, NEW t \in Tracks, DeletionStep(t)
  PROVE  OpSteps(t, Deleting \cup {"d_prepare"})
<1>1. PICK pc \in Deleting \cup {"d_prepare"} : At(pc) /\ op.of = t
  BY DEF DeletionStep, PrepareDeletion, RemoveAudio, RemoveFinalCover, CancelDeletion, FinalizeDeletion,
         Deleting
<1>2. op \in Ops /\ op.pc = pc
  BY <1>1, AtStep DEF Deleting
<1>3. Unfailing \/ Fault
  BY DEF DeletionStep, PrepareDeletion, RemoveAudio, RemoveFinalCover, CancelDeletion, FinalizeDeletion
<1>4. \/ \E isFailed \in BOOLEAN : End(isFailed)
      \/ \E next \in Steps : GoesOn(next)
  BY DEF DeletionStep, PrepareDeletion, RemoveAudio, RemoveFinalCover, CancelDeletion, FinalizeDeletion,
         Steps, Deleting
<1> QED BY <1>1, <1>2, <1>3, <1>4, OpGoesOn

LEMMA JournalOp ==
  ASSUME IInv, NEW j \in Jobs, PrepareJournal(j)
  PROVE  OpSteps(op.of, {"journal"}) /\ op.of \in Tracks
<1>1. At("journal") /\ Unfailing /\ (GoesOn("place") \/ End(TRUE))
  BY DEF PrepareJournal
<1>2. op \in Ops /\ op.pc = "journal" /\ op.of \in Tracks
  BY <1>1, AtStep
<1>3. \/ \E isFailed \in BOOLEAN : End(isFailed)
      \/ \E next \in Steps : GoesOn(next)
  BY <1>1 DEF Steps, Placing
<1> QED BY <1>1, <1>2, <1>3, OpGoesOn

-----------------------------------------------------------------------------
(* A startup begins nothing *)

\* A step that goes on stays in its class of steps.
LEMMA GoesOnStarted ==
  ASSUME IInv, StartedOK, NEW t \in Tracks, NEW pcs, OpSteps(t, pcs),
         op.on = "startup" /\ op' # NoOp =>
           \/ op.pc \in Undoing \cup Completing /\ op'.pc \in Undoing \cup Completing
           \/ op.pc \in Deleting /\ op'.pc \in Deleting \ {"d_cancel"}
  PROVE  StartedOK'
<1>1. /\ server \in Servers /\ server'.before = server.before /\ faults \in Nat /\ server.before \in Int
      /\ server.before <= faults
  BY DEF IInv, Typed, Servers, StartedOK, OpSteps
<1>2. faults' \in Nat /\ server'.before <= faults'
  <2>1. faults' = faults \/ faults' = faults + 1
    BY DEF OpSteps, Unfailing, Fault
  <2> QED BY <1>1, <2>1
<1>3. op' # NoOp /\ op'.on = "request" => server'.before = -1
  BY <1>1 DEF StartedOK, OpSteps
<1>4. ASSUME op' # NoOp, op'.on = "startup"
      PROVE  op'.pc \in IF server'.state = "deletions" THEN Deleting \ {"d_cancel"} ELSE Undoing \cup Completing
  <2>1. op # NoOp /\ op.on = "startup" /\ server' = server
    BY <1>4 DEF OpSteps
  <2>2. op.pc \in IF server.state = "deletions" THEN Deleting \ {"d_cancel"} ELSE Undoing \cup Completing
    BY <2>1 DEF StartedOK
  <2> QED BY <1>4, <2>1, <2>2 DEF Deleting, Undoing, Completing
<1> QED BY <1>2, <1>3, <1>4 DEF StartedOK

\* What begins with a request is not the startup's.
LEMMA RequestsOnly ==
  ASSUME IInv, StartedOK, NEW t, NEW pcs, OpSteps(t, pcs),
         pcs \cap (Undoing \cup Completing \cup (Deleting \ {"d_cancel"})) = {}
  PROVE  op.on = "request" /\ server.before = -1
<1>1. op.on # "startup"
  BY DEF StartedOK, OpSteps
<1> QED BY <1>1 DEF OpSteps, Ops, StartedOK

LEMMA OtherSteps ==
  /\ (Placing \cup Swapping) \cap (Undoing \cup Completing \cup (Deleting \ {"d_cancel"})) = {}
  /\ {"journal"} \cap (Undoing \cup Completing \cup (Deleting \ {"d_cancel"})) = {}
  /\ {"d_prepare", "d_cancel"} \cap (Undoing \cup Completing \cup (Deleting \ {"d_cancel"})) = {}
BY DEF Placing, Swapping, Undoing, Completing, Deleting

LEMMA ReplacementStarted ==
  ASSUME IInv, StartedOK, NEW t \in Tracks, ReplacementStep(t)
  PROVE  StartedOK'
<1>1. CASE OpSteps(t, Placing \cup Swapping)
  <2>1. op.on = "request"
    BY <1>1, OtherSteps, RequestsOnly
  <2> QED BY <1>1, <2>1, GoesOnStarted
<1>2. CASE UndoSwap(t) \/ UndoRetire(t) \/ UndoPlace(t) \/ UndoArtwork(t) \/ Undone(t)
  <2>1. OpSteps(t, Undoing)
    BY <1>2, UndoingOp
  <2>2. ASSUME op.on = "startup", op' # NoOp
        PROVE  op'.pc \in Undoing
    <3>1. op \in Ops /\ op # NoOp
      BY <2>1 DEF OpSteps
    <3>2. op.kind # "reconfirm"
      BY <2>2, <3>1 DEF IInv, ServerOK
    <3>3. ~Undone(t)
      BY <2>2, <3>2 DEF Undone, Recovered, End
    <3>4. PICK next \in Undoing : GoesOn(next) \/ Broken(next)
      BY <1>2, <3>3 DEF UndoSwap, UndoRetire, UndoPlace, UndoArtwork, Part, Undoing
    <3> QED BY <3>1, <3>4, GoesOnOp, BrokenOp DEF Steps
  <2> QED BY <2>1, <2>2, GoesOnStarted DEF OpSteps
<1>3. CASE RemoveRetired(t) \/ RemoveOldCover(t) \/ FinalizeReplacement(t)
  <2>1. OpSteps(t, Completing)
    BY <1>3, CompletingOp
  <2>2. ASSUME op' # NoOp
        PROVE  op'.pc \in Completing
    <3>1. PICK next \in Completing : GoesOn(next)
      BY <1>3, <2>2 DEF RemoveRetired, RemoveOldCover, FinalizeReplacement, End, Completing
    <3> QED BY <2>1, <3>1, GoesOnOp DEF Steps, OpSteps
  <2> QED BY <2>1, <2>2, GoesOnStarted DEF OpSteps
<1> QED BY <1>1, <1>2, <1>3, ReplacingOp DEF ReplacementStep

LEMMA DeletionStarted ==
  ASSUME IInv, StartedOK, NEW t \in Tracks, DeletionStep(t)
  PROVE  StartedOK'
<1>1. OpSteps(t, Deleting \cup {"d_prepare"})
  BY DeletingOp
<1>2. ASSUME op.on = "startup", op' # NoOp
      PROVE  op.pc \in Deleting /\ op'.pc \in Deleting \ {"d_cancel"}
  <2>1. op \in Ops /\ op # NoOp
    BY <1>1 DEF OpSteps
  <2>2. op.pc \in Undoing \cup Completing \cup (Deleting \ {"d_cancel"})
    BY <1>2, <2>1 DEF StartedOK
  <2>3. op.pc \in Deleting \ {"d_cancel"}
    BY <1>1, <2>2 DEF OpSteps, Undoing, Completing, Deleting
  <2>4. ~PrepareDeletion(t)
    BY <2>3 DEF PrepareDeletion, At, Deleting
  <2>5. GoesOn("d_cover") \/ GoesOn("d_finalize")
    BY <1>2, <2>4 DEF DeletionStep, RemoveAudio, RemoveFinalCover, CancelDeletion, FinalizeDeletion, End
  <2> QED BY <2>1, <2>3, <2>5, GoesOnOp DEF Steps, Deleting
<1> QED BY <1>1, <1>2, GoesOnStarted

LEMMA StartedKeeps ==
  ASSUME IInv, StartedOK, [Next]_vars
  PROVE  StartedOK'
<1>0. server \in Servers /\ faults \in Nat
  BY DEF IInv, Typed, StartedOK
<1>1. ASSUME NEW kind, NEW x, NEW pc, Request(kind, x, pc)
      PROVE  StartedOK'
  BY <1>0, <1>1 DEF Request, Op, Unfailing, StartedOK, Servers
<1>2. ASSUME NEW j \in Jobs, ConfirmReplacement(j) \/ PrepareJournal(j) \/ CancelJob(j)
      PROVE  StartedOK'
  <2>1. CASE ConfirmReplacement(j)
    BY <1>1, <2>1 DEF ConfirmReplacement
  <2>2. CASE PrepareJournal(j)
    <3>1. OpSteps(op.of, {"journal"}) /\ op.of \in Tracks
      BY <2>2, JournalOp
    <3>2. op.on = "request"
      BY <3>1, OtherSteps, RequestsOnly
    <3> QED BY <3>1, <3>2, GoesOnStarted
  <2>3. CASE CancelJob(j)
    BY <1>0, <2>3 DEF CancelJob, IsIdle, StartedOK, Servers
  <2> QED BY <1>2, <2>1, <2>2, <2>3
<1>3. ASSUME NEW t \in Tracks, StartupRecovers(t)
      PROVE  StartedOK'
  <2>1. server'.state = server.state /\ server'.before = server.before /\ faults' = faults
    BY <1>0, <1>3 DEF StartupRecovers, Unfailing, Servers
  <2>2. /\ op'.on = "startup"
        /\ op'.pc \in IF server.state = "deletions" THEN {"d_audio"} ELSE {"unretire", "undo_swap"}
    BY <1>3 DEF StartupRecovers, Op
  <2> QED BY <2>1, <2>2 DEF StartedOK, Undoing, Completing, Deleting
<1>4. CASE StartupGoesOn
  <2>1. server'.before = server.before /\ op' = NoOp /\ faults' = faults
    BY <1>0, <1>4 DEF StartupGoesOn, IsIdle, Unfailing, Servers
  <2> QED BY <2>1 DEF StartedOK
<1>5. CASE RemoveAllStaged \/ CancelUncommitted
  <2>1. server.state \in {"cleanup", "cancel"} /\ op' = op
    BY <1>5 DEF RemoveAllStaged, CancelUncommitted
  <2>2. op = NoOp
    BY <2>1 DEF IInv, ServerOK
  <2>3. server'.before = server.before
    BY <1>0, <1>5 DEF RemoveAllStaged, CancelUncommitted, Servers
  <2>4. faults' = faults \/ faults' = faults + 1
    BY <1>5 DEF RemoveAllStaged, CancelUncommitted, Unfailing, Fault
  <2> QED BY <1>0, <2>1, <2>2, <2>3, <2>4 DEF StartedOK, Servers
<1>6. CASE Crash
  <2>1. server'.before = server.before /\ op' = NoOp /\ faults' = faults
    BY <1>0, <1>6 DEF Crash, Servers
  <2> QED BY <2>1 DEF StartedOK
<1>7. CASE Restart
  <2>1. server.state = "down" /\ op' = op /\ faults' = faults /\ server'.before = faults
    BY <1>7 DEF Restart, Unfailing
  <2>2. op = NoOp
    BY <2>1 DEF IInv, ServerOK
  <2> QED BY <1>0, <2>1, <2>2 DEF StartedOK
<1>8. CASE UNCHANGED vars
  BY <1>8 DEF vars, StartedOK
<1>9. ASSUME NEW t \in Tracks, DeleteTrack(t)
      PROVE  StartedOK'
  BY <1>1, <1>9 DEF DeleteTrack
<1> QED BY <1>2, <1>3, <1>4, <1>5, <1>6, <1>7, <1>8, <1>9, ReplacementStarted, DeletionStarted DEF Next

-----------------------------------------------------------------------------
(* The file of a hidden Track *)

\* The steps of a replacement leave every other Track as it is.
LEMMA ReplacementElsewhere ==
  ASSUME IInv, NEW t \in Tracks, IsOpen(t), ReplacementStep(t)
  PROVE  /\ \A u \in Tracks : u # t => rows'[u] = rows[u] /\ journals'[u] = journals[u]
         /\ Elsewhere(t, disk, disk')
<1> DEFINE jr == journals[t]
<1>0. /\ rows \in [Tracks -> Rows] /\ journals \in [Tracks -> Journals \cup {NoJournal}] /\ disk \in Disks
      /\ jr \in Journals
  BY DEF IInv, Typed, DataTyped, IsOpen
<1>1. \A u \in Tracks : u # t => rows'[u] = rows[u]
  <2>1. rows' = rows \/ rows' = ReplacedTrack(t)
    BY DEF ReplacementStep, Place, PlaceArtwork, MarkArtworkCreated, WriteArtwork, RemoveArtwork, Unplace,
           GiveUp, AdvancePlaced, AdvanceVerified, AdvanceSwapped, Advance, Retire, Swap, Unswap,
           StreamSwapped, CommitData, ReplacementData, UndoSwap, UndoRetire, UndoPlace, UndoArtwork, Undone,
           Part, RemoveRetired, RemoveOldCover, FinalizeReplacement, Nothing, OnlyFiles, OnlyJournals, rowVars
  <2> QED BY <1>0, <2>1 DEF ReplacedTrack
<1>2. \A u \in Tracks : u # t => journals'[u] = journals[u]
  <2>1. journals' = journals \/ \E jr2 : journals' = [journals EXCEPT ![t] = jr2]
    BY DEF ReplacementStep, Place, PlaceArtwork, MarkArtworkCreated, WriteArtwork, RemoveArtwork, Unplace,
           GiveUp, AdvancePlaced, AdvanceVerified, AdvanceSwapped, Advance, Retire, Swap, Unswap,
           StreamSwapped, CommitData, UndoSwap, UndoRetire, UndoPlace, UndoArtwork, Undone,
           Part, RemoveRetired, RemoveOldCover, FinalizeReplacement, Nothing, OnlyFiles, SetPhase, Close
  <2> QED BY <1>0, <2>1
<1>3. Elsewhere(t, disk, disk')
  <2>1. /\ From(t) \in PathsOf(t) /\ To(t) \in PathsOf(t) /\ Pending(t) \in SidesOf(t)
        /\ Retired(t) \in SidesOf(t) /\ JobOf(t) \in Audio
    BY <1>0, TrackFacts, OpenFacts, JournalPaths
  <2>2. /\ \A a \in PathsOf(t) : disk.audio[a] \in Audio \cup {Absent}
        /\ \A b \in SidesOf(t) : disk.pending[b] \in Audio \cup {Absent} /\ disk.retired[b] \in Audio \cup {Absent}
    BY <1>0, OwnPaths DEF Disks
  <2>3. CASE disk' = disk
    BY <1>0, <2>3, WritesElsewhere
  <2>4. CASE Place(t) \/ Unplace(t) \/ UndoPlace(t)
    <3>1. disk' = disk \/ \E x \in {JobOf(t), Absent} : disk' = [disk EXCEPT !.pending[Pending(t)] = x]
      BY <2>4 DEF Place, Unplace, UndoPlace, Part, files
    <3>2. CASE \E x \in {JobOf(t), Absent} : disk' = [disk EXCEPT !.pending[Pending(t)] = x]
      <4>1. PICK x \in {JobOf(t), Absent} : disk' = [disk EXCEPT !.pending[Pending(t)] = x]
        BY <3>2
      <4>2. /\ disk'.audio = disk.audio /\ disk'.retired = disk.retired
            /\ disk'.pending = [disk.pending EXCEPT ![Pending(t)] = x]
        BY <1>0, <4>1 DEF Disks
      <4> QED BY <1>0, <2>1, <4>2 DEF Elsewhere, Disks
    <3> QED BY <2>3, <3>1, <3>2
  <2>5. CASE Retire(t) \/ Unswap(t) \/ UndoRetire(t)
    <3>1. \/ disk' = disk
          \/ disk' = [disk EXCEPT !.audio[From(t)] = Absent, !.retired[Retired(t)] = disk.audio[From(t)]]
          \/ disk' = [disk EXCEPT !.retired[Retired(t)] = Absent, !.audio[From(t)] = disk.retired[Retired(t)]]
      BY <2>5 DEF Retire, Unswap, UndoRetire, Part, files
    <3>2. CASE disk' = [disk EXCEPT !.audio[From(t)] = Absent, !.retired[Retired(t)] = disk.audio[From(t)]]
      <4>1. /\ disk'.audio = [disk.audio EXCEPT ![From(t)] = Absent] /\ disk'.pending = disk.pending
            /\ disk'.retired = [disk.retired EXCEPT ![Retired(t)] = disk.audio[From(t)]]
        BY <1>0, <3>2 DEF Disks
      <4> QED BY <1>0, <2>1, <2>2, <4>1 DEF Elsewhere, Disks
    <3>3. CASE disk' = [disk EXCEPT !.retired[Retired(t)] = Absent, !.audio[From(t)] = disk.retired[Retired(t)]]
      <4>1. /\ disk'.audio = [disk.audio EXCEPT ![From(t)] = disk.retired[Retired(t)]]
            /\ disk'.pending = disk.pending /\ disk'.retired = [disk.retired EXCEPT ![Retired(t)] = Absent]
        BY <1>0, <3>3 DEF Disks
      <4> QED BY <1>0, <2>1, <2>2, <4>1 DEF Elsewhere, Disks
    <3> QED BY <2>3, <3>1, <3>2, <3>3
  <2>6. CASE Swap(t) \/ UndoSwap(t)
    <3>1. \/ disk' = disk
          \/ disk' = [disk EXCEPT !.pending[Pending(t)] = Absent, !.audio[To(t)] = disk.pending[Pending(t)]]
          \/ disk' = [disk EXCEPT !.audio[To(t)] = Absent, !.pending[Pending(t)] = disk.audio[To(t)]]
      BY <2>6 DEF Swap, UndoSwap, Part, files
    <3>2. CASE disk' = [disk EXCEPT !.pending[Pending(t)] = Absent, !.audio[To(t)] = disk.pending[Pending(t)]]
      <4>1. /\ disk'.audio = [disk.audio EXCEPT ![To(t)] = disk.pending[Pending(t)]]
            /\ disk'.pending = [disk.pending EXCEPT ![Pending(t)] = Absent] /\ disk'.retired = disk.retired
        BY <1>0, <3>2 DEF Disks
      <4> QED BY <1>0, <2>1, <2>2, <4>1 DEF Elsewhere, Disks
    <3>3. CASE disk' = [disk EXCEPT !.audio[To(t)] = Absent, !.pending[Pending(t)] = disk.audio[To(t)]]
      <4>1. /\ disk'.audio = [disk.audio EXCEPT ![To(t)] = Absent]
            /\ disk'.pending = [disk.pending EXCEPT ![Pending(t)] = disk.audio[To(t)]]
            /\ disk'.retired = disk.retired
        BY <1>0, <3>3 DEF Disks
      <4> QED BY <1>0, <2>1, <2>2, <4>1 DEF Elsewhere, Disks
    <3> QED BY <2>3, <3>1, <3>2, <3>3
  <2>7. CASE RemoveRetired(t)
    <3>1. disk' = disk \/ disk' = [disk EXCEPT !.retired[Retired(t)] = Absent]
      BY <2>7 DEF RemoveRetired
    <3>2. CASE disk' = [disk EXCEPT !.retired[Retired(t)] = Absent]
      <4>1. /\ disk'.audio = disk.audio /\ disk'.pending = disk.pending
            /\ disk'.retired = [disk.retired EXCEPT ![Retired(t)] = Absent]
        BY <1>0, <3>2 DEF Disks
      <4> QED BY <1>0, <2>1, <4>1 DEF Elsewhere, Disks
    <3> QED BY <2>3, <3>1, <3>2
  <2>8. CASE ~(\/ Place(t) \/ Unplace(t) \/ UndoPlace(t) \/ Retire(t) \/ Unswap(t) \/ UndoRetire(t)
               \/ Swap(t) \/ UndoSwap(t) \/ RemoveRetired(t))
    <3>1. disk' = disk
      BY <2>8 DEF ReplacementStep, PlaceArtwork, MarkArtworkCreated, WriteArtwork, RemoveArtwork, GiveUp,
           AdvancePlaced, AdvanceVerified, AdvanceSwapped, Advance, StreamSwapped, CommitData,
           UndoArtwork, Undone, Part, RemoveOldCover, FinalizeReplacement, Nothing, OnlyJournals, files
    <3> QED BY <2>3, <3>1
  <2> QED BY <2>4, <2>5, <2>6, <2>7, <2>8
<1> QED BY <1>1, <1>2, <1>3

\* Those that move a canonical file find the Track shown.
LEMMA HiddenStays ==
  ASSUME IInv, NEW t \in Tracks, IsOpen(t), ReplacementStep(t), rows'[t].state = "hidden"
  PROVE  rows'[t] = rows[t] /\ disk'.audio = disk.audio
<1> DEFINE jr == journals[t]
<1>0. rows \in [Tracks -> Rows] /\ jr \in Journals /\ disk \in Disks
  BY DEF IInv, Typed, DataTyped, IsOpen
<1>1. ASSUME NEW pc \in Placing \cup Swapping, At(pc), op.of = t
      PROVE  rows[t].state = "here"
  BY <1>1, AtReplacing DEF ReplacingOK
<1>2. rows'[t].state = rows[t].state /\ (rows' # rows => rows[t].state = "here")
  <2>1. CASE rows' = rows
    BY <2>1
  <2>2. CASE CommitData(t)
    <3>1. rows[t].state = "here" /\ (rows' = rows \/ rows' = ReplacedTrack(t))
      BY <2>2 DEF CommitData, ReplacementData, rowVars
    <3> QED BY <1>0, <3>1 DEF ReplacedTrack, Rows
  <2>3. rows' = rows \/ CommitData(t)
    BY DEF ReplacementStep, Place, PlaceArtwork, MarkArtworkCreated, WriteArtwork, RemoveArtwork, Unplace,
           GiveUp, AdvancePlaced, AdvanceVerified, AdvanceSwapped, Advance, Retire, Swap, Unswap,
           StreamSwapped, UndoSwap, UndoRetire, UndoPlace, UndoArtwork, Undone,
           Part, RemoveRetired, RemoveOldCover, FinalizeReplacement, Nothing, OnlyFiles, OnlyJournals, rowVars
  <2> QED BY <2>1, <2>2, <2>3
<1>3. rows' = rows /\ rows[t].state = "hidden"
  BY <1>2
<1>4. ~Retire(t) /\ ~Swap(t) /\ ~Unswap(t)
  BY <1>1, <1>3 DEF Retire, Swap, Unswap, Placing, Swapping
<1>5. CASE UndoSwap(t) \/ UndoRetire(t)
  <2>1. CASE IsSwapBegun(t)
    <3>1. PICK pc \in Undoing : At(pc) /\ op.of = t
      BY <1>5 DEF UndoSwap, UndoRetire, Part, Undoing
    <3>2. IsPending(jr)
      BY <3>1, AtUndoing
    <3>3. PendingOK(t, rows[t], jr, staged, disk)
      BY <1>0, <3>2, TrackFacts, PendingFacts
    <3> QED BY <1>3, <2>1, <3>3, JournalPaths DEF PendingOK, IsSwapBegun
  <2>2. CASE ~IsSwapBegun(t)
    BY <1>3, <1>5, <2>2 DEF UndoSwap, UndoRetire, Part, files
  <2> QED BY <2>1, <2>2
<1>6. CASE Place(t) \/ Unplace(t) \/ UndoPlace(t) \/ RemoveRetired(t)
  <2>1. \/ disk' = disk
        \/ \E x : disk' = [disk EXCEPT !.pending[Pending(t)] = x]
        \/ disk' = [disk EXCEPT !.retired[Retired(t)] = Absent]
    BY <1>6 DEF Place, Unplace, UndoPlace, Part, RemoveRetired, files
  <2> QED BY <1>0, <1>3, <2>1 DEF Disks
<1>7. CASE ~(\/ Place(t) \/ Unplace(t) \/ UndoPlace(t) \/ Retire(t) \/ Unswap(t) \/ UndoRetire(t)
             \/ Swap(t) \/ UndoSwap(t) \/ RemoveRetired(t))
  BY <1>3, <1>7 DEF ReplacementStep, PlaceArtwork, MarkArtworkCreated, WriteArtwork, RemoveArtwork, GiveUp,
           AdvancePlaced, AdvanceVerified, AdvanceSwapped, Advance, StreamSwapped, CommitData,
           UndoArtwork, Undone, Part, RemoveOldCover, FinalizeReplacement, Nothing, OnlyJournals, files
<1> QED BY <1>4, <1>5, <1>6, <1>7

\* A Track whose row and paths are as they were is hidden with the same file.
LEMMA HiddenOthers ==
  ASSUME IInv, HiddenOK, NEW t \in Tracks, \A u \in Tracks : u # t => rows'[u] = rows[u],
         Elsewhere(t, disk, disk'),
         rows'[t].state = "hidden" => disk'.audio[RowPathOf(t, rows'[t])] \in {Absent, rows'[t].version}
  PROVE  HiddenOK'
<1> SUFFICES ASSUME NEW u \in Tracks, u # t, rows[u].state = "hidden", rows'[u] = rows[u]
             PROVE  disk'.audio[RowPathOf(u, rows[u])] \in {Absent, rows[u].version}
  BY DEF HiddenOK
<1>1. RowPathOf(u, rows[u]) \in PathsOf(u) /\ RowPathOf(u, rows[u]) \in Paths
  BY TrackFacts, RowPathIn
<1>2. RowPathOf(u, rows[u]) \notin PathsOf(t)
  BY <1>1, PathsApart
<1>3. disk'.audio[RowPathOf(u, rows[u])] = disk.audio[RowPathOf(u, rows[u])]
  BY <1>1, <1>2 DEF Elsewhere
<1> QED BY <1>3 DEF HiddenOK

LEMMA HiddenSame ==
  ASSUME HiddenOK, rows' = rows, disk' = disk
  PROVE  HiddenOK'
BY DEF HiddenOK

LEMMA HiddenDeletion ==
  ASSUME IInv, HiddenOK, NEW t \in Tracks, DeletionStep(t)
  PROVE  HiddenOK'
<1>0. /\ rows \in [Tracks -> Rows] /\ disk \in Disks /\ RowPath(t) = RowPathOf(t, rows[t])
      /\ RowPathOf(t, rows[t]) \in PathsOf(t) /\ PathsOf(t) \subseteq Paths
  BY JournalPaths, TrackFacts, RowPathIn, OwnPaths DEF IInv, Typed, DataTyped
<1>1. Elsewhere(t, disk, disk)
  BY <1>0, WritesElsewhere
<1>2. CASE PrepareDeletion(t)
  <2>1. disk' = disk
    BY <1>2 DEF PrepareDeletion, files
  <2>2. CASE rows' = rows
    BY <2>1, <2>2, HiddenSame
  <2>3. CASE rows' = [rows EXCEPT ![t].state = "hidden"] /\ Resolves(t)
    <3>1. /\ rows'[t].album = rows[t].album /\ rows'[t].version = rows[t].version
          /\ \A u \in Tracks : u # t => rows'[u] = rows[u]
      BY <1>0, <2>3 DEF Rows
    <3>2. disk.audio[RowPathOf(t, rows'[t])] = rows'[t].version
      BY <1>0, <2>3, <3>1 DEF Resolves, RowPathOf
    <3> QED BY <1>1, <2>1, <3>1, <3>2, HiddenOthers
  <2> QED BY <1>2, <2>2, <2>3 DEF PrepareDeletion
<1>3. CASE RemoveAudio(t)
  <2>1. rows' = rows
    BY <1>3 DEF RemoveAudio, OnlyFiles, rowVars
  <2>2. CASE disk' = disk
    BY <2>1, <2>2, HiddenSame
  <2>3. CASE disk' = [disk EXCEPT !.audio[RowPath(t)] = Absent]
    <3>1. /\ disk'.audio = [disk.audio EXCEPT ![RowPathOf(t, rows[t])] = Absent]
          /\ disk'.pending = disk.pending /\ disk'.retired = disk.retired
      BY <1>0, <2>3 DEF Disks
    <3>2. Elsewhere(t, disk, disk')
      BY <1>0, <3>1, WritesElsewhere
    <3>3. disk'.audio[RowPathOf(t, rows[t])] = Absent
      BY <1>0, <3>1 DEF Disks
    <3> QED BY <2>1, <3>2, <3>3, HiddenOthers
  <2> QED BY <1>3, <2>2, <2>3 DEF RemoveAudio
<1>4. CASE RemoveFinalCover(t)
  BY <1>4, HiddenSame DEF RemoveFinalCover, OnlyFiles, rowVars
<1>5. CASE CancelDeletion(t) \/ FinalizeDeletion(t)
  <2>1. disk' = disk /\ (rows' = rows \/ \E s \in {"here", "gone"} : rows' = [rows EXCEPT ![t].state = s])
    BY <1>5 DEF CancelDeletion, FinalizeDeletion, files, rowVars
  <2>2. CASE rows' = rows
    BY <2>1, <2>2, HiddenSame
  <2>3. CASE \E s \in {"here", "gone"} : rows' = [rows EXCEPT ![t].state = s]
    <3>1. rows'[t].state # "hidden" /\ \A u \in Tracks : u # t => rows'[u] = rows[u]
      BY <1>0, <2>3 DEF Rows
    <3> QED BY <1>1, <2>1, <3>1, HiddenOthers
  <2> QED BY <2>1, <2>2, <2>3
<1> QED BY <1>2, <1>3, <1>4, <1>5 DEF DeletionStep

LEMMA HiddenKeeps ==
  ASSUME IInv, HiddenOK, [Next]_vars
  PROVE  HiddenOK'
<1>1. ASSUME NEW t \in Tracks, IsOpen(t), ReplacementStep(t)
      PROVE  HiddenOK'
  <2>1. /\ \A u \in Tracks : u # t => rows'[u] = rows[u]
        /\ Elsewhere(t, disk, disk')
    BY <1>1, ReplacementElsewhere
  <2>2. rows'[t].state = "hidden" => disk'.audio[RowPathOf(t, rows'[t])] \in {Absent, rows'[t].version}
    BY <1>1, HiddenStays DEF HiddenOK
  <2> QED BY <2>1, <2>2, HiddenOthers
<1>2. ASSUME NEW j \in Jobs, ConfirmReplacement(j) \/ PrepareJournal(j) \/ CancelJob(j)
      PROVE  HiddenOK'
  BY <1>2, HiddenSame DEF ConfirmReplacement, Request, PrepareJournal, CancelJob, Nothing, OnlyFiles, rowVars, files
<1>3. ASSUME NEW t \in Tracks, DeleteTrack(t) \/ StartupRecovers(t)
      PROVE  HiddenOK'
  BY <1>3, HiddenSame DEF DeleteTrack, Request, StartupRecovers, Nothing, OnlyFiles, rowVars, files
<1>4. ASSUME StartupGoesOn \/ RemoveAllStaged \/ CancelUncommitted \/ Crash \/ Restart \/ UNCHANGED vars
      PROVE  HiddenOK'
  BY <1>4, HiddenSame DEF StartupGoesOn, RemoveAllStaged, CancelUncommitted, Crash, Restart, vars,
                          Nothing, OnlyFiles, rowVars, files
<1> QED BY <1>1, <1>2, <1>3, <1>4, HiddenDeletion DEF Next

-----------------------------------------------------------------------------
(* What a startup without a failure has settled *)

FreshOK == DeletionsFresh /\ ReplacementsFresh /\ UploadsFresh

\* A failure, and a request, make the startup old news.
LEMMA NotFresh ==
  ASSUME IInv, StartedOK, server'.before = server.before,
         Fault \/ ((Unfailing \/ Fault) /\ server.before = -1)
  PROVE  ~IsFresh'
<1>1. server.before \in Int /\ faults \in Nat /\ server.before <= faults
  BY DEF IInv, Typed, Servers, StartedOK
<1>2. CASE Fault
  <2>1. faults' = faults + 1
    BY <1>2 DEF Fault
  <2> QED BY <1>1, <2>1 DEF IsFresh
<1>3. CASE Unfailing /\ server.before = -1
  <2>1. faults' = faults
    BY <1>3 DEF Unfailing
  <2> QED BY <1>1, <1>3, <2>1 DEF IsFresh
<1> QED BY <1>2, <1>3

LEMMA NotFreshRequest ==
  ASSUME StartedOK, server'.before = -1, faults' = faults
  PROVE  ~IsFresh'
BY DEF IsFresh, StartedOK

\* A replacement of a Track whose row, journal and paths are as they were is stuck as
\* before.
LEMMA StuckStays ==
  ASSUME IInv, NEW t, NEW u \in Tracks, u # t, IsOpen(u), IsStuck(u),
         rows'[u] = rows[u], journals'[u] = journals[u], Elsewhere(t, disk, disk')
  PROVE  IsStuck(u)'
<1>1. journals[u] \in Journals
  BY TrackFacts DEF IsOpen
<1>2. To(u) \in PathsOf(u) /\ To(u) \in Paths /\ Pending(u) \in SidesOf(u) /\ Pending(u) \in SidePaths
  BY <1>1, TrackFacts, OpenFacts, JournalPaths
<1>3. To(u) \notin PathsOf(t) /\ Pending(u) \notin SidesOf(t)
  BY <1>2, PathsApart
<1>4. disk'.audio[To(u)] = disk.audio[To(u)] /\ disk'.pending[Pending(u)] = disk.pending[Pending(u)]
  BY <1>2, <1>3 DEF Elsewhere
<1>5. /\ To(u)' = To(u) /\ Pending(u)' = Pending(u) /\ From(u)' = From(u) /\ JobOf(u)' = JobOf(u)
  BY DEF To, Pending, From, JobOf, NewId
<1>6. IsObstructed(u)' = IsObstructed(u)
  BY <1>4, <1>5 DEF IsObstructed
<1> QED BY <1>6 DEF IsStuck

LEMMA StuckSame ==
  ASSUME NEW u, rows' = rows, journals' = journals, disk' = disk
  PROVE  IsStuck(u)' = IsStuck(u)
BY DEF IsStuck, IsObstructed, To, Pending, From, JobOf, NewId

\* The recovery of a replacement goes on.
LEMMA RecoveryGoesOn ==
  ASSUME IInv, FreshOK, NEW t \in Tracks, op # NoOp, op.of = t, server.state = "replacements",
         op' # NoOp, op'.of = t, server' = server,
         \A u \in Tracks : rows'[u].state = rows[u].state,
         \A u \in Tracks : u # t => rows'[u] = rows[u] /\ journals'[u] = journals[u],
         Elsewhere(t, disk, disk'), RollbackOK(t)'
  PROVE  FreshOK'
<1>1. DeletionsFresh'
  BY DEF FreshOK, DeletionsFresh
<1>2. UploadsFresh'
  BY DEF UploadsFresh
<1>3. ASSUME NEW u \in Tracks, IsOpen(u)'
      PROVE  u \in server'.todo \/ IsWorkedOn(u)' \/ (server'.isFailed /\ IsStuck(u)')
  <2>1. CASE u = t
    BY <2>1 DEF IsWorkedOn
  <2>2. CASE u # t
    <3>1. IsOpen(u)
      BY <1>3, <2>2 DEF IsOpen
    <3>2. u \in server.todo \/ (server.isFailed /\ IsStuck(u))
      BY <2>2, <3>1 DEF FreshOK, ReplacementsFresh, IsWorkedOn
    <3> QED BY <2>2, <3>1, <3>2, StuckStays
  <2> QED BY <2>1, <2>2
<1>4. ASSUME server'.isFailed
      PROVE  \E u \in Tracks : IsOpen(u)' /\ u \notin server'.todo /\ ~IsWorkedOn(u)'
  <2>1. PICK u \in Tracks : IsOpen(u) /\ u \notin server.todo /\ ~IsWorkedOn(u)
    BY <1>4 DEF FreshOK, ReplacementsFresh
  <2>2. u # t
    BY <2>1 DEF IsWorkedOn
  <2> QED BY <2>1, <2>2 DEF IsOpen, IsWorkedOn
<1>5. ReplacementsFresh'
  BY <1>3, <1>4 DEF ReplacementsFresh
<1> QED BY <1>1, <1>2, <1>5 DEF FreshOK

\* It ends, with the journal closed or with a replacement that is stuck.
LEMMA RecoveryEnds ==
  ASSUME IInv, FreshOK, NEW t \in Tracks, op \in Ops, op.of = t, server.state = "replacements",
         op.on = "startup", NEW isFailed \in BOOLEAN, End(isFailed),
         \A u \in Tracks : rows'[u].state = rows[u].state,
         \A u \in Tracks : u # t => rows'[u] = rows[u] /\ journals'[u] = journals[u],
         Elsewhere(t, disk, disk'),
         IF isFailed THEN IsOpen(t)' /\ IsStuck(t)' ELSE ~IsOpen(t)'
  PROVE  FreshOK'
<1>1. op # NoOp
  BY OpIsNotNone
<1>2. op.kind = "recover" /\ t \notin server.todo
  BY <1>1 DEF IInv, ServerOK
<1>3. /\ op' = NoOp /\ server'.state = server.state /\ server'.todo = server.todo
      /\ server'.isFailed = (server.isFailed \/ isFailed)
  BY <1>2, EndServer
<1>4. DeletionsFresh'
  BY <1>3 DEF FreshOK, DeletionsFresh
<1>5. UploadsFresh'
  BY <1>3 DEF UploadsFresh
<1>6. ASSUME NEW u \in Tracks, IsOpen(u)'
      PROVE  u \in server'.todo \/ (server'.isFailed /\ IsStuck(u)')
  <2>1. CASE u = t
    BY <1>3, <1>6, <2>1
  <2>2. CASE u # t
    <3>1. IsOpen(u)
      BY <1>6, <2>2 DEF IsOpen
    <3>2. u \in server.todo \/ (server.isFailed /\ IsStuck(u))
      BY <2>2, <3>1 DEF FreshOK, ReplacementsFresh, IsWorkedOn
    <3> QED BY <1>3, <2>2, <3>1, <3>2, StuckStays
  <2> QED BY <2>1, <2>2
<1>7. ASSUME server'.isFailed
      PROVE  \E u \in Tracks : IsOpen(u)' /\ u \notin server'.todo /\ ~IsWorkedOn(u)'
  <2>1. CASE isFailed
    BY <1>2, <1>3, <2>1 DEF IsWorkedOn
  <2>2. CASE server.isFailed
    <3>1. PICK u \in Tracks : IsOpen(u) /\ u \notin server.todo /\ ~IsWorkedOn(u)
      BY <2>2 DEF FreshOK, ReplacementsFresh
    <3>2. u # t
      BY <1>1, <3>1 DEF IsWorkedOn
    <3> QED BY <1>3, <3>1, <3>2 DEF IsOpen, IsWorkedOn
  <2> QED BY <1>3, <1>7, <2>1, <2>2
<1>8. ReplacementsFresh'
  BY <1>3, <1>6, <1>7 DEF ReplacementsFresh
<1> QED BY <1>4, <1>5, <1>8 DEF FreshOK

-----------------------------------------------------------------------------
(* The recovery of a replacement at startup *)

\* Where the upload is while its replacement is taken back.
LEMMA UploadFacts ==
  ASSUME IInv, NEW t \in Tracks, NEW pc \in Undoing, At(pc), op.of = t
  PROVE  /\ op \in Ops /\ op # NoOp /\ op.pc = pc /\ IsPending(journals[t]) /\ disk \in Disks
         /\ From(t) \in Paths /\ To(t) \in Paths /\ Pending(t) \in SidePaths /\ Retired(t) \in SidePaths
         /\ JobOf(t) # Absent
         /\ disk.pending[Pending(t)] = JobOf(t) => JobOf(t) \notin {disk.audio[To(t)], disk.audio[From(t)]}
         /\ staged[JobOf(t)] => JobOf(t) \notin {disk.audio[To(t)], disk.audio[From(t)], disk.pending[Pending(t)]}
         /\ ~staged[JobOf(t)] => \/ disk.pending[Pending(t)] = JobOf(t)
                                 \/ disk.pending[Pending(t)] = Absent /\ disk.audio[To(t)] = JobOf(t)
         /\ IsSwapBegun(t) => disk.audio[From(t)] \in {Absent, JobOf(t)}
<1> DEFINE jr == journals[t]
<1>1. op \in Ops /\ op # NoOp /\ op.pc = pc /\ jr \in Journals /\ IsPending(jr) /\ disk \in Disks
  BY AtUndoing, OpIsNotNone, TrackFacts
<1>2. /\ UploadOK(t, jr.job, staged, disk) /\ jr.from \in PathsOf(t) /\ jr.to \in PathsOf(t)
      /\ PendingOf(t, jr) \in SidesOf(t) /\ RetiredOf(t, jr) \in SidesOf(t) /\ jr.job # Absent
      /\ jr.from \in Paths /\ jr.to \in Paths /\ PendingOf(t, jr) \in SidePaths /\ RetiredOf(t, jr) \in SidePaths
  BY <1>1, TrackFacts, OpenFacts
<1>3. PendingOK(t, rows[t], jr, staged, disk)
  BY <1>1, TrackFacts, PendingFacts
<1>4. /\ disk.pending[PendingOf(t, jr)] = jr.job => jr.job \notin {disk.audio[jr.to], disk.audio[jr.from]}
      /\ staged[jr.job] => jr.job \notin {disk.audio[jr.to], disk.audio[jr.from], disk.pending[PendingOf(t, jr)]}
  BY <1>2 DEF UploadOK
<1>5. /\ ~staged[jr.job] => \/ disk.pending[PendingOf(t, jr)] = jr.job
                            \/ disk.pending[PendingOf(t, jr)] = Absent /\ disk.audio[jr.to] = jr.job
      /\ disk.retired[RetiredOf(t, jr)] # Absent => disk.audio[jr.from] \in {Absent, jr.job}
  BY <1>3 DEF PendingOK
<1> QED BY <1>1, <1>2, <1>4, <1>5, JournalPaths DEF IsSwapBegun

\* What the paths of the rollback are stays as it is.
LEMMA ObstructedBy ==
  ASSUME NEW t, journals' = journals
  PROVE  /\ To(t)' = To(t) /\ From(t)' = From(t) /\ JobOf(t)' = JobOf(t) /\ Pending(t)' = Pending(t)
         /\ IsObstructed(t)' <=>
              \/ disk'.pending[Pending(t)] \notin {Absent, JobOf(t)}
              \/ To(t) # From(t) /\ disk'.audio[To(t)] \notin {Absent, JobOf(t)}
         /\ IsSwapBegun(t)' <=> disk'.retired[Retired(t)] # Absent
BY DEF To, From, JobOf, Pending, NewId, IsObstructed, IsSwapBegun, Retired

\* A part of the rollback that does not fail: not needed, done, or blocked.
LEMMA PartGoesOn ==
  ASSUME NEW t \in Tracks, op \in Ops, NEW pc, NEW next \in Undoing, NEW isNeeded,
         NEW isBlocked, NEW Effect, Part(t, pc, next, isNeeded, isBlocked, Effect), ~Fault
  PROVE  /\ journals' = journals /\ op'.pc = next /\ op'.of = t
         /\ \/ ~isNeeded /\ disk' = disk /\ op'.isBroken = op.isBroken
            \/ isNeeded /\ ~isBlocked /\ Effect /\ op'.isBroken = op.isBroken
            \/ isNeeded /\ isBlocked /\ disk' = disk /\ op'.isBroken = TRUE
<1>1. op'.pc = next /\ op'.of = op.of /\ (GoesOn(next) => op'.isBroken = op.isBroken)
      /\ (Broken(next) => op'.isBroken = TRUE)
  <2>1. GoesOn(next) \/ Broken(next)
    BY DEF Part
  <2> QED BY <2>1, GoesOnOp, BrokenOp DEF Steps, Continues
<1> QED BY <1>1 DEF Part, OnlyFiles, files

LEMMA UndoSwapRollback ==
  ASSUME IInv, NEW t \in Tracks, UndoSwap(t), ~Fault, RollbackOK(t)
  PROVE  RollbackOK(t)'
<1> DEFINE b == Pending(t)
           job == JobOf(t)
<1>0. "undo_swap" \in Undoing /\ "undo_retire" \in Undoing
  BY DEF Undoing
<1>1. At("undo_swap") /\ op.of = t
  BY DEF UndoSwap, Part
<1>2. /\ op \in Ops /\ op.pc = "undo_swap" /\ disk \in Disks /\ To(t) \in Paths /\ b \in SidePaths
      /\ disk.pending[b] = job => job # disk.audio[To(t)]
      /\ IsSwapBegun(t) => disk.audio[From(t)] \in {Absent, job}
  BY <1>0, <1>1, UploadFacts
<1>3. /\ journals' = journals /\ op'.pc = "undo_retire"
      /\ \/ ~(IsSwapBegun(t) /\ disk.audio[To(t)] # Absent) /\ disk' = disk /\ op'.isBroken = op.isBroken
         \/ /\ disk.pending[b] = Absent /\ op'.isBroken = op.isBroken
            /\ disk' = [disk EXCEPT !.audio[To(t)] = Absent, !.pending[Pending(t)] = disk.audio[To(t)]]
         \/ /\ IsSwapBegun(t) /\ disk.audio[To(t)] # Absent /\ disk.pending[b] # Absent
            /\ disk' = disk /\ op'.isBroken = TRUE
  BY <1>0, <1>2, PartGoesOn DEF UndoSwap
<1>4. op.isBroken => IsObstructed(t)
  BY DEF RollbackOK
<1>5. CASE ~(IsSwapBegun(t) /\ disk.audio[To(t)] # Absent) /\ disk' = disk /\ op'.isBroken = op.isBroken
  BY <1>0, <1>3, <1>4, <1>5, ObstructedBy DEF RollbackOK, IsObstructed, IsSwapBegun
<1>6. CASE /\ disk.pending[b] = Absent /\ op'.isBroken = op.isBroken
           /\ disk' = [disk EXCEPT !.audio[To(t)] = Absent, !.pending[Pending(t)] = disk.audio[To(t)]]
  <2>1. disk'.audio[To(t)] = Absent /\ disk'.pending[b] = disk.audio[To(t)]
    BY <1>2, <1>6 DEF Disks
  <2>2. op'.isBroken => IsObstructed(t)'
    BY <1>3, <1>4, <1>6, <2>1, ObstructedBy DEF IsObstructed
  <2> QED BY <1>0, <1>3, <2>1, <2>2, ObstructedBy DEF RollbackOK
<1>7. CASE /\ IsSwapBegun(t) /\ disk.audio[To(t)] # Absent /\ disk.pending[b] # Absent
           /\ disk' = disk /\ op'.isBroken = TRUE
  <2>1. IsObstructed(t)
    BY <1>2, <1>7 DEF IsObstructed
  <2>2. IsObstructed(t)'
    BY <1>3, <1>7, <2>1, ObstructedBy DEF IsObstructed
  <2> QED BY <1>0, <1>3, <1>7, <2>2 DEF RollbackOK
<1> QED BY <1>3, <1>5, <1>6, <1>7

LEMMA UndoRetireRollback ==
  ASSUME IInv, NEW t \in Tracks, UndoRetire(t), ~Fault, RollbackOK(t)
  PROVE  RollbackOK(t)'
<1> DEFINE b == Pending(t)
           job == JobOf(t)
<1>0. "undo_retire" \in Undoing /\ "undo_place" \in Undoing
  BY DEF Undoing
<1>1. At("undo_retire") /\ op.of = t
  BY DEF UndoRetire, Part
<1>2. /\ op \in Ops /\ op.pc = "undo_retire" /\ disk \in Disks /\ To(t) \in Paths /\ From(t) \in Paths
      /\ disk.pending[b] = job => job # disk.audio[From(t)]
      /\ staged[job] => job # disk.audio[From(t)]
      /\ ~staged[job] => disk.pending[b] = job \/ disk.audio[To(t)] = job
      /\ IsSwapBegun(t) => disk.audio[From(t)] \in {Absent, job}
      /\ job # Absent
  BY <1>0, <1>1, UploadFacts
<1>3. /\ journals' = journals /\ op'.pc = "undo_place"
      /\ \/ disk' = disk /\ op'.isBroken = op.isBroken
         \/ /\ op'.isBroken = op.isBroken
            /\ disk' = [disk EXCEPT !.retired[Retired(t)] = Absent,
                                    !.audio[From(t)] = disk.retired[Retired(t)]]
         \/ IsSwapBegun(t) /\ disk.audio[From(t)] # Absent /\ disk' = disk /\ op'.isBroken = TRUE
  BY <1>0, <1>2, PartGoesOn DEF UndoRetire, IsSwapBegun
<1>4. /\ op.isBroken => IsObstructed(t)
      /\ ~op.isBroken /\ IsSwapBegun(t) => disk.audio[To(t)] = Absent
  BY <1>2 DEF RollbackOK
<1>5. op'.isBroken => IsObstructed(t)'
  <2>1. CASE disk' = disk /\ op'.isBroken = op.isBroken
    BY <1>3, <1>4, <2>1, ObstructedBy DEF IsObstructed
  <2>2. CASE /\ op'.isBroken = op.isBroken
             /\ disk' = [disk EXCEPT !.retired[Retired(t)] = Absent,
                                     !.audio[From(t)] = disk.retired[Retired(t)]]
    <3>1. disk'.pending = disk.pending /\ (To(t) # From(t) => disk'.audio[To(t)] = disk.audio[To(t)])
      BY <1>2, <2>2 DEF Disks
    <3> QED BY <1>3, <1>4, <2>2, <3>1, ObstructedBy DEF IsObstructed
  <2>3. CASE IsSwapBegun(t) /\ disk.audio[From(t)] # Absent /\ disk' = disk /\ op'.isBroken = TRUE
    <3>1. op.isBroken
      BY <1>2, <1>4, <2>3
    <3> QED BY <1>3, <1>4, <2>3, <3>1, ObstructedBy DEF IsObstructed
  <2> QED BY <1>3, <2>1, <2>2, <2>3
<1> QED BY <1>0, <1>3, <1>5 DEF RollbackOK

LEMMA UndoPlaceRollback ==
  ASSUME IInv, NEW t \in Tracks, UndoPlace(t) \/ UndoArtwork(t), ~Fault, RollbackOK(t)
  PROVE  RollbackOK(t)'
<1> DEFINE b == Pending(t)
           job == JobOf(t)
<1>0. {"undo_place", "undo_artwork", "undone"} \subseteq Undoing
  BY DEF Undoing
<1>1. PICK pc \in {"undo_place", "undo_artwork"} : At(pc) /\ op.of = t
  BY DEF UndoPlace, UndoArtwork, Part
<1>2. /\ op \in Ops /\ disk \in Disks /\ b \in SidePaths
      /\ staged[job] => job # disk.pending[b]
      /\ ~staged[job] => disk.pending[b] \in {job, Absent}
  BY <1>0, <1>1, UploadFacts
<1>3. op.isBroken => IsObstructed(t)
  BY DEF RollbackOK
<1>4. CASE UndoPlace(t)
  <2>1. /\ journals' = journals /\ op'.pc = "undo_artwork"
        /\ \/ disk' = disk /\ op'.isBroken = op.isBroken
           \/ /\ ~staged[job] /\ op'.isBroken = op.isBroken
              /\ disk' = [disk EXCEPT !.pending[Pending(t)] = Absent]
           \/ disk.pending[b] # Absent /\ staged[job] /\ disk' = disk /\ op'.isBroken = TRUE
    <3>1. staged[job] \in BOOLEAN
      <4>1. job \in Jobs
        BY <1>0, <1>1, AtUndoing, TrackFacts, OpenFacts, JournalPaths
      <4> QED BY <4>1 DEF IInv, Typed, DataTyped
    <3>2. Part(t, "undo_place", "undo_artwork", disk.pending[b] # Absent, staged[job],
               /\ disk' = [disk EXCEPT !.pending[Pending(t)] = Absent]
               /\ staged' = [staged EXCEPT ![JobOf(t)] = TRUE] /\ UNCHANGED covers)
      BY <1>4 DEF UndoPlace
    <3>3. /\ journals' = journals
          /\ \/ disk' = disk /\ GoesOn("undo_artwork")
             \/ /\ ~staged[job] /\ GoesOn("undo_artwork")
                /\ disk' = [disk EXCEPT !.pending[Pending(t)] = Absent]
             \/ disk.pending[b] # Absent /\ staged[job] /\ disk' = disk /\ Broken("undo_artwork")
      BY <3>1, <3>2 DEF Part, OnlyFiles, files
    <3> QED BY <1>0, <1>2, <3>3, GoesOnOp, BrokenOp DEF Steps
  <2>2. op'.isBroken => IsObstructed(t)'
    <3>1. CASE disk' = disk /\ op'.isBroken = op.isBroken
      BY <1>3, <2>1, <3>1, ObstructedBy DEF IsObstructed
    <3>2. CASE /\ ~staged[job] /\ op'.isBroken = op.isBroken
               /\ disk' = [disk EXCEPT !.pending[Pending(t)] = Absent]
      <4>1. disk'.audio = disk.audio
        BY <1>2, <3>2 DEF Disks
      <4> QED BY <1>2, <1>3, <2>1, <3>2, <4>1, ObstructedBy DEF IsObstructed
    <3>3. CASE disk.pending[b] # Absent /\ staged[job] /\ disk' = disk /\ op'.isBroken = TRUE
      BY <1>2, <2>1, <3>3, ObstructedBy
    <3> QED BY <2>1, <3>1, <3>2, <3>3
  <2> QED BY <1>0, <2>1, <2>2 DEF RollbackOK
<1>5. CASE UndoArtwork(t)
  <2>1. op'.pc = "undone" /\ op'.isBroken = op.isBroken /\ journals' = journals /\ disk' = disk
    <3>1. GoesOn("undone") /\ journals' = journals /\ disk' = disk
      BY <1>5 DEF UndoArtwork, Part, OnlyFiles, files
    <3> QED BY <1>0, <1>2, <3>1, GoesOnOp DEF Steps
  <2> QED BY <1>0, <1>3, <2>1, ObstructedBy DEF RollbackOK, IsObstructed
<1> QED BY <1>4, <1>5

\* The steps of a recovery that nothing fails in.
LEMMA ReplacementFresh ==
  ASSUME IInv, SettledOK, NEW t \in Tracks, IsOpen(t), ReplacementStep(t), IsFresh'
  PROVE  FreshOK'
<1>1. PICK pcs \in {Placing \cup Swapping, Undoing, Completing} : OpSteps(t, pcs)
  BY ReplacingOp, UndoingOp, CompletingOp DEF ReplacementStep
<1>2. ~Fault /\ server.before # -1
  BY <1>1, NotFresh DEF OpSteps, SettledOK
<1>3. op.on = "startup" /\ op \in Ops /\ op # NoOp /\ op.of = t /\ faults' = faults
  BY <1>1, <1>2 DEF OpSteps, SettledOK, StartedOK, Ops, Unfailing
<1>4. FreshOK
  BY <1>1, <1>3 DEF SettledOK, FreshOK, IsFresh, OpSteps
<1>5. pcs # Placing \cup Swapping
  BY <1>1, <1>2, OtherSteps, RequestsOnly DEF SettledOK
<1>6. server.state = "replacements" /\ op.kind = "recover"
  <2>1. op.pc \in Undoing \cup Completing
    BY <1>1, <1>5 DEF OpSteps
  <2>2. server.state # "deletions"
    BY <1>3, <2>1 DEF SettledOK, StartedOK, Undoing, Completing, Deleting
  <2> QED BY <1>3, <2>2 DEF IInv, ServerOK
<1>7. RollbackOK(t)
  BY <1>3, <1>4, <1>6 DEF FreshOK, ReplacementsFresh
<1>8. /\ \A u \in Tracks : u # t => rows'[u] = rows[u] /\ journals'[u] = journals[u]
      /\ Elsewhere(t, disk, disk')
  BY ReplacementElsewhere
<1>9. CASE UndoSwap(t) \/ UndoRetire(t) \/ UndoPlace(t) \/ UndoArtwork(t)
  <2>1. RollbackOK(t)'
    BY <1>2, <1>7, <1>9, UndoSwapRollback, UndoRetireRollback, UndoPlaceRollback
  <2>2. rows' = rows
    BY <1>9 DEF UndoSwap, UndoRetire, UndoPlace, UndoArtwork, Part, OnlyFiles, rowVars
  <2>3. PICK next \in Undoing : GoesOn(next) \/ Broken(next)
    BY <1>9 DEF UndoSwap, UndoRetire, UndoPlace, UndoArtwork, Part, Undoing
  <2>4. op' # NoOp /\ op'.of = t /\ server' = server
    BY <1>3, <2>3, GoesOnOp, BrokenOp, OpIsNotNone DEF Steps, Continues
  <2> QED BY <1>3, <1>4, <1>6, <1>8, <2>1, <2>2, <2>4, RecoveryGoesOn
<1>10. CASE Undone(t)
  <2>1. rows' = rows /\ disk' = disk
    BY <1>10 DEF Undone, OnlyJournals, rowVars, files
  <2>2. CASE ~op.isBroken /\ Close(t) /\ Recovered
    <3>1. End(FALSE)
      <4>1. (op.kind # "recover") = FALSE
        BY <1>6
      <4> QED BY <1>6, <2>2, <4>1 DEF Recovered
    <3>2. journals'[t] = NoJournal
      BY <2>2 DEF Close, IInv, Typed, DataTyped
    <3> QED BY <1>3, <1>4, <1>6, <1>8, <2>1, <3>1, <3>2, RecoveryEnds DEF IsOpen
  <2>3. CASE op.isBroken /\ End(TRUE) /\ journals' = journals
    <3>1. IsObstructed(t) /\ IsPending(journals[t])
      <4>1. At("undone") /\ "undone" \in Undoing
        BY <1>10 DEF Undone, Undoing
      <4> QED BY <1>3, <1>7, <2>3, <4>1, AtUndoing DEF RollbackOK
    <3>2. IsStuck(t) /\ IsOpen(t)'
      BY <2>3, <3>1 DEF IsStuck, IsPending, IsCommitted, IsOpen
    <3>3. IsStuck(t)'
      BY <2>1, <2>3, <3>2, StuckSame
    <3> QED BY <1>3, <1>4, <1>6, <1>8, <2>1, <2>3, <3>2, <3>3, RecoveryEnds
  <2> QED BY <1>2, <1>10, <2>2, <2>3 DEF Undone
<1>11. CASE RemoveRetired(t) \/ RemoveOldCover(t)
  <2>1. rows' = rows
    BY <1>11 DEF RemoveRetired, RemoveOldCover, OnlyFiles, rowVars
  <2>2. PICK next \in {"uncover", "finalize"} : GoesOn(next)
    BY <1>2, <1>11 DEF RemoveRetired, RemoveOldCover
  <2>3. next \in Steps /\ next \notin Undoing
    BY DEF Steps, Undoing, Completing
  <2>4. op.pc \in Completing
    BY <1>11 DEF RemoveRetired, RemoveOldCover, At, Completing
  <2>5. op' # NoOp /\ op'.of = t /\ server' = server /\ op'.pc = next /\ op'.isBroken = op.isBroken
    BY <1>3, <2>2, <2>3, GoesOnOp, OpIsNotNone DEF Continues
  <2>6. ~op.isBroken
    BY <1>7, <2>4 DEF RollbackOK, Undoing, Completing
  <2>7. RollbackOK(t)'
    BY <2>2, <2>5, <2>6 DEF RollbackOK
  <2> QED BY <1>3, <1>4, <1>6, <1>8, <2>1, <2>5, <2>7, RecoveryGoesOn
<1>12. CASE FinalizeReplacement(t)
  <2>1. rows' = rows /\ disk' = disk
    BY <1>12 DEF FinalizeReplacement, rowVars, files
  <2>2. CASE Close(t) /\ End(FALSE)
    <3>1. journals'[t] = NoJournal
      BY <2>2 DEF Close, IInv, Typed, DataTyped
    <3> QED BY <1>3, <1>4, <1>6, <1>8, <2>1, <2>2, <3>1, RecoveryEnds DEF IsOpen
  <2>3. CASE End(TRUE) /\ journals' = journals /\ rows[t].state = "gone"
    <3>1. IsCommitted(journals[t])
      <4>1. At("finalize") /\ "finalize" \in Completing
        BY <1>12 DEF FinalizeReplacement, Completing
      <4> QED BY <1>3, <4>1, AtCompleting
    <3>2. IsStuck(t) /\ IsOpen(t)'
      BY <2>3, <3>1 DEF IsStuck, IsOpen
    <3>3. IsStuck(t)'
      BY <2>1, <2>3, <3>2, StuckSame
    <3> QED BY <1>3, <1>4, <1>6, <1>8, <2>1, <2>3, <3>2, <3>3, RecoveryEnds
  <2> QED BY <1>2, <1>12, <2>2, <2>3 DEF FinalizeReplacement
<1>13. UndoSwap(t) \/ UndoRetire(t) \/ UndoPlace(t) \/ UndoArtwork(t) \/ Undone(t)
       \/ RemoveRetired(t) \/ RemoveOldCover(t) \/ FinalizeReplacement(t)
  <2>1. op.pc \notin Placing \cup Swapping
    BY <1>1, <1>5 DEF OpSteps, Placing, Swapping, Undoing, Completing
  <2>2. ~OpSteps(t, Placing \cup Swapping)
    BY <2>1 DEF OpSteps
  <2> QED BY <2>2, ReplacingOp DEF ReplacementStep
<1> QED BY <1>9, <1>10, <1>11, <1>12, <1>13

-----------------------------------------------------------------------------
(* The deletions at startup *)

LEMMA DeletionGoesOn ==
  ASSUME FreshOK, server.state = "deletions", server' = server, op # NoOp, op' # NoOp, op'.of = op.of,
         rows' = rows
  PROVE  FreshOK'
BY DEF FreshOK, DeletionsFresh, ReplacementsFresh, UploadsFresh, IsWorkedOn

LEMMA DeletionFresh ==
  ASSUME IInv, SettledOK, NEW t \in Tracks, DeletionStep(t), IsFresh'
  PROVE  FreshOK'
<1>1. OpSteps(t, Deleting \cup {"d_prepare"})
  BY DeletingOp
<1>2. ~Fault /\ server.before # -1
  BY <1>1, NotFresh DEF OpSteps, SettledOK
<1>3. op.on = "startup" /\ op \in Ops /\ op # NoOp /\ op.of = t /\ faults' = faults
  BY <1>1, <1>2 DEF OpSteps, SettledOK, StartedOK, Ops, Unfailing
<1>4. FreshOK
  BY <1>1, <1>3 DEF SettledOK, FreshOK, IsFresh, OpSteps
<1>5. server.state = "deletions" /\ op.pc \in Deleting \ {"d_cancel"}
  BY <1>1, <1>3 DEF SettledOK, StartedOK, OpSteps, Undoing, Completing, Deleting
<1>6. op.kind = "delete" /\ t \notin server.todo
  BY <1>3, <1>5 DEF IInv, ServerOK
<1>7. rows[t].state = "hidden"
  BY <1>3, <1>5, AtDeleting DEF At, DeletingOK
<1>8. CASE RemoveAudio(t)
  <2>1. rows' = rows
    BY <1>8 DEF RemoveAudio, OnlyFiles, rowVars
  <2>2. disk.audio[RowPath(t)] \in {Absent, rows[t].version}
    BY <1>7, JournalPaths DEF SettledOK, HiddenOK
  <2>3. GoesOn("d_cover")
    BY <1>2, <1>8, <2>2 DEF RemoveAudio
  <2>4. op' # NoOp /\ op'.of = t /\ server' = server
    BY <1>3, <2>3, GoesOnOp, OpIsNotNone DEF Continues, Steps, Deleting
  <2> QED BY <1>3, <1>4, <1>5, <2>1, <2>4, DeletionGoesOn
<1>9. CASE RemoveFinalCover(t)
  <2>1. rows' = rows /\ GoesOn("d_finalize")
    BY <1>2, <1>9 DEF RemoveFinalCover, OnlyFiles, rowVars
  <2>2. op' # NoOp /\ op'.of = t /\ server' = server
    BY <1>3, <2>1, GoesOnOp, OpIsNotNone DEF Continues, Steps, Deleting
  <2> QED BY <1>3, <1>4, <1>5, <2>1, <2>2, DeletionGoesOn
<1>10. CASE FinalizeDeletion(t)
  <2>1. rows' = [rows EXCEPT ![t].state = "gone"] /\ End(FALSE)
    BY <1>2, <1>10 DEF FinalizeDeletion
  <2>2. rows'[t].state = "gone" /\ \A u \in Tracks : u # t => rows'[u] = rows[u]
    BY <2>1 DEF IInv, Typed, DataTyped, Rows
  <2>3. server'.state = "deletions" /\ server'.todo = server.todo /\ server'.isFailed = server.isFailed
    <3>1. /\ server'.state = server.state /\ server'.todo = server.todo
          /\ server'.isFailed = (server.isFailed \/ FALSE)
      BY <1>3, <2>1, EndServer
    <3>2. server.isFailed \in BOOLEAN
      BY DEF IInv, Typed, Servers
    <3> QED BY <1>5, <3>1, <3>2
  <2>4. \A u \in Tracks : rows'[u].state = "hidden" => u \in server.todo
    BY <1>3, <1>4, <1>5, <2>2 DEF FreshOK, DeletionsFresh, IsWorkedOn
  <2>5. DeletionsFresh'
    BY <1>4, <1>5, <2>3, <2>4 DEF FreshOK, DeletionsFresh
  <2> QED BY <2>3, <2>5 DEF FreshOK, ReplacementsFresh, UploadsFresh
<1>11. ~PrepareDeletion(t) /\ ~CancelDeletion(t)
  BY <1>5 DEF PrepareDeletion, CancelDeletion, At, Deleting
<1> QED BY <1>8, <1>9, <1>10, <1>11 DEF DeletionStep

-----------------------------------------------------------------------------
(* The startup's own steps *)

LEMMA StartupRecoversFresh ==
  ASSUME IInv, FreshOK, NEW t \in Tracks, StartupRecovers(t)
  PROVE  FreshOK'
<1>1. /\ op = NoOp /\ t \in server.todo /\ rows' = rows /\ journals' = journals /\ disk' = disk
      /\ server' = [server EXCEPT !.todo = @ \ {t}]
  BY DEF StartupRecovers, IsIdle, Nothing, OnlyFiles, rowVars, files
<1>2. /\ server'.state = server.state /\ server'.todo = server.todo \ {t}
      /\ server'.isFailed = server.isFailed
  BY <1>1 DEF IInv, Typed, Servers
<1>3. server.state \in {"deletions", "replacements"}
  BY <1>1 DEF IInv, ServerOK
<1>4. op'.of = t /\ op'.isBroken = FALSE /\ op'.pc \in {"d_audio", "unretire", "undo_swap"}
  BY DEF StartupRecovers, Op
<1>5. op' # NoOp
  BY <1>4 DEF NoOp
<1>6. CASE server.state = "deletions"
  <2>1. \A u \in Tracks : rows[u].state = "hidden" => u \in server'.todo \/ u = t
    BY <1>1, <1>2, <1>6 DEF FreshOK, DeletionsFresh, IsWorkedOn
  <2>2. DeletionsFresh'
    BY <1>1, <1>2, <1>4, <1>5, <1>6, <2>1 DEF FreshOK, DeletionsFresh, IsWorkedOn
  <2> QED BY <1>2, <1>6, <2>2 DEF FreshOK, ReplacementsFresh, UploadsFresh
<1>7. CASE server.state = "replacements"
  <2>1. DeletionsFresh'
    BY <1>1, <1>2, <1>7 DEF FreshOK, DeletionsFresh
  <2>2. ASSUME NEW u \in Tracks, IsOpen(u)'
        PROVE  u \in server'.todo \/ IsWorkedOn(u)' \/ (server'.isFailed /\ IsStuck(u)')
    <3>1. IsOpen(u)
      BY <1>1, <2>2 DEF IsOpen
    <3>2. u \in server.todo \/ (server.isFailed /\ IsStuck(u))
      BY <1>1, <1>7, <3>1 DEF FreshOK, ReplacementsFresh, IsWorkedOn
    <3>3. IsStuck(u)' = IsStuck(u)
      BY <1>1, StuckSame
    <3> QED BY <1>2, <1>4, <1>5, <3>2, <3>3 DEF IsWorkedOn
  <2>3. ASSUME server'.isFailed
        PROVE  \E u \in Tracks : IsOpen(u)' /\ u \notin server'.todo /\ ~IsWorkedOn(u)'
    <3>1. PICK u \in Tracks : IsOpen(u) /\ u \notin server.todo
      BY <1>2, <1>7, <2>3 DEF FreshOK, ReplacementsFresh
    <3> QED BY <1>1, <1>2, <1>4, <3>1 DEF IsOpen, IsWorkedOn
  <2>4. RollbackOK(op.of)'
    BY <1>4 DEF RollbackOK
  <2>5. ReplacementsFresh'
    BY <1>2, <1>7, <2>2, <2>3, <2>4 DEF ReplacementsFresh
  <2> QED BY <1>2, <1>7, <2>1, <2>5 DEF FreshOK, UploadsFresh
<1> QED BY <1>3, <1>6, <1>7

LEMMA StartupGoesOnFresh ==
  ASSUME IInv, FreshOK, StartupGoesOn
  PROVE  FreshOK'
<1>1. /\ op = NoOp /\ op' = NoOp /\ server.todo = {} /\ rows' = rows /\ journals' = journals /\ disk' = disk
      /\ server \in Servers
  BY DEF StartupGoesOn, IsIdle, Nothing, OnlyFiles, rowVars, files, IInv, Typed
<1>2. CASE /\ server.state = "deletions"
           /\ server' = [server EXCEPT !.state = "replacements", !.todo = {t \in Tracks : IsOpen(t)}]
  <2>1. /\ server'.state = "replacements" /\ server'.todo = {t \in Tracks : IsOpen(t)}
        /\ server'.isFailed = server.isFailed
    BY <1>1, <1>2 DEF Servers
  <2>2. ~server.isFailed /\ \A t \in Tracks : rows[t].state # "hidden"
    BY <1>1, <1>2 DEF FreshOK, DeletionsFresh, IsWorkedOn
  <2>3. \A t \in Tracks : IsOpen(t)' = IsOpen(t)
    BY <1>1 DEF IsOpen
  <2>4. DeletionsFresh'
    BY <1>1, <2>1, <2>2 DEF DeletionsFresh
  <2>5. ReplacementsFresh'
    BY <1>1, <2>1, <2>2, <2>3 DEF ReplacementsFresh
  <2> QED BY <2>1, <2>4, <2>5 DEF FreshOK, UploadsFresh
<1>3. CASE /\ server.state = "replacements"
           /\ server' = [server EXCEPT !.state = IF server.isFailed THEN "up" ELSE "cleanup"]
  <2>1. /\ server'.state = (IF server.isFailed THEN "up" ELSE "cleanup")
        /\ server'.isFailed = server.isFailed
    BY <1>1, <1>3 DEF Servers
  <2>2. DeletionsFresh'
    BY <1>1, <1>3, <2>1 DEF FreshOK, DeletionsFresh
  <2>3. \A t \in Tracks : IsOpen(t)' = IsOpen(t) /\ IsStuck(t)' = IsStuck(t)
    BY <1>1, StuckSame DEF IsOpen
  <2>4. \A t \in Tracks : IsOpen(t) => server.isFailed /\ IsStuck(t)
    BY <1>1, <1>3 DEF FreshOK, ReplacementsFresh, IsWorkedOn
  <2>5. server.isFailed => \E t \in Tracks : IsOpen(t)
    BY <1>3 DEF FreshOK, ReplacementsFresh
  <2>6. ReplacementsFresh'
    BY <2>1, <2>3, <2>4 DEF ReplacementsFresh
  <2>7. UploadsFresh'
    BY <2>1, <2>3, <2>5 DEF UploadsFresh
  <2> QED BY <2>2, <2>6, <2>7 DEF FreshOK
<1> QED BY <1>2, <1>3 DEF StartupGoesOn

LEMMA CleanupFresh ==
  ASSUME IInv, FreshOK, RemoveAllStaged \/ CancelUncommitted, ~Fault
  PROVE  FreshOK'
<1>1. rows' = rows /\ journals' = journals /\ server \in Servers
  BY DEF RemoveAllStaged, CancelUncommitted, OnlyFiles, rowVars, IInv, Typed
<1>2. \A t \in Tracks : IsOpen(t)' = IsOpen(t)
  BY <1>1 DEF IsOpen
<1>3. CASE RemoveAllStaged
  <2>1. server.state = "cleanup" /\ staged' = [j \in Jobs |-> FALSE] /\ server' = [server EXCEPT !.state = "cancel"]
    BY <1>3 DEF RemoveAllStaged
  <2>2. server'.state = "cancel" /\ server'.isFailed = server.isFailed
    BY <1>1, <2>1 DEF Servers
  <2>3. DeletionsFresh'
    BY <1>1, <2>1, <2>2 DEF FreshOK, DeletionsFresh
  <2>4. ReplacementsFresh'
    BY <1>2, <2>1, <2>2 DEF FreshOK, ReplacementsFresh
  <2>5. UploadsFresh'
    BY <2>1, <2>2 DEF UploadsFresh
  <2> QED BY <2>3, <2>4, <2>5 DEF FreshOK
<1>4. CASE CancelUncommitted
  <2>1. server.state = "cancel" /\ server'.state = "up"
    BY <1>1, <1>4 DEF CancelUncommitted, Servers
  <2>2. \A t \in Tracks : ~IsOpen(t)
    BY <2>1 DEF FreshOK, ReplacementsFresh
  <2>3. \A j \in Jobs : ~JournalOf(j)
    BY <2>2 DEF JournalOf, IInv, ConstantsOK
  <2>4. /\ jobs' = [j \in Jobs |-> IF jobs[j] = "awaiting" THEN "gone" ELSE jobs[j]]
        /\ staged' = [j \in Jobs |-> staged[j] /\ jobs[j] # "awaiting"]
    <3> DEFINE waiting == {j \in Jobs : jobs[j] = "awaiting" /\ ~JournalOf(j)}
    <3>1. PICK failed \in {{}} \cup {{j} : j \in waiting} :
            /\ IF failed = {} THEN Unfailing ELSE Fault
            /\ jobs' = [j \in Jobs |-> IF j \in waiting \ failed THEN "gone" ELSE jobs[j]]
            /\ staged' = [j \in Jobs |-> staged[j] /\ j \notin waiting \ failed]
      BY <1>4 DEF CancelUncommitted
    <3>2. failed = {}
      BY <3>1
    <3>3. \A j \in Jobs : j \in waiting \ failed <=> jobs[j] = "awaiting"
      BY <2>3, <3>2
    <3> HIDE DEF waiting
    <3> QED BY <3>1, <3>3
  <2>5. \A j \in Jobs : jobs'[j] # "awaiting" /\ ~staged'[j]
    BY <2>1, <2>4 DEF FreshOK, UploadsFresh
  <2>6. DeletionsFresh'
    BY <1>1, <2>1 DEF FreshOK, DeletionsFresh
  <2>7. ReplacementsFresh'
    BY <1>2, <2>1, <2>2 DEF ReplacementsFresh
  <2>8. UploadsFresh'
    BY <2>1, <2>5 DEF UploadsFresh
  <2> QED BY <2>6, <2>7, <2>8 DEF FreshOK
<1> QED BY <1>3, <1>4

LEMMA RestartFresh ==
  ASSUME IInv, Restart
  PROVE  FreshOK'
<1>1. /\ rows' = rows /\ server'.state = "deletions" /\ ~server'.isFailed
      /\ server'.todo = {t \in Tracks : deletions[t] # NoDeletion}
  BY DEF Restart, Nothing, OnlyFiles, rowVars
<1>2. \A t \in Tracks : rows[t].state = "hidden" => deletions[t] # NoDeletion
  BY TrackFacts DEF TrackOK, RowOK
<1>3. DeletionsFresh'
  BY <1>1, <1>2 DEF DeletionsFresh
<1> QED BY <1>1, <1>3 DEF FreshOK, ReplacementsFresh, UploadsFresh

LEMMA FreshSame ==
  ASSUME FreshOK, UNCHANGED vars
  PROVE  FreshOK'
<1>1. /\ rows' = rows /\ journals' = journals /\ disk' = disk /\ staged' = staged /\ jobs' = jobs
      /\ server' = server /\ op' = op
  BY DEF vars, rowVars, files
<1>2. \A t \in Tracks : IsOpen(t)' = IsOpen(t) /\ IsStuck(t)' = IsStuck(t) /\ IsWorkedOn(t)' = IsWorkedOn(t)
  BY <1>1, StuckSame DEF IsOpen, IsWorkedOn
<1>3. op # NoOp /\ RollbackOK(op.of) => RollbackOK(op.of)'
  BY <1>1, ObstructedBy DEF RollbackOK, IsObstructed, IsSwapBegun
<1>4. DeletionsFresh'
  BY <1>1, <1>2 DEF FreshOK, DeletionsFresh
<1>5. ReplacementsFresh'
  BY <1>1, <1>2, <1>3 DEF FreshOK, ReplacementsFresh
<1>6. UploadsFresh'
  BY <1>1, <1>2 DEF FreshOK, UploadsFresh
<1> QED BY <1>4, <1>5, <1>6 DEF FreshOK

LEMMA FreshKeeps ==
  ASSUME IInv, SettledOK, [Next]_vars, IsFresh'
  PROVE  FreshOK'
<1>0. server \in Servers /\ StartedOK /\ (IsFresh => FreshOK)
  BY DEF IInv, Typed, SettledOK, FreshOK
<1>1. ASSUME NEW kind, NEW x, NEW pc, Request(kind, x, pc)
      PROVE  FALSE
  <2>1. server'.before = -1 /\ faults' = faults
    BY <1>0, <1>1 DEF Request, Unfailing, Servers
  <2> QED BY <1>0, <2>1, NotFreshRequest
<1>2. ASSUME NEW j \in Jobs, ConfirmReplacement(j) \/ PrepareJournal(j) \/ CancelJob(j)
      PROVE  FreshOK'
  <2>1. CASE ConfirmReplacement(j)
    BY <1>1, <2>1 DEF ConfirmReplacement
  <2>2. CASE PrepareJournal(j)
    <3>1. OpSteps(op.of, {"journal"})
      BY <2>2, JournalOp
    <3>2. server.before = -1
      BY <1>0, <3>1, OtherSteps, RequestsOnly
    <3> QED BY <1>0, <3>1, <3>2, NotFresh DEF OpSteps
  <2>3. CASE CancelJob(j)
    <3>1. server'.before = -1 /\ faults' = faults
      BY <1>0, <2>3 DEF CancelJob, Servers
    <3> QED BY <1>0, <3>1, NotFreshRequest
  <2> QED BY <1>2, <2>1, <2>2, <2>3
<1>3. ASSUME NEW t \in Tracks, DeleteTrack(t) \/ StartupRecovers(t)
      PROVE  FreshOK'
  <2>1. CASE DeleteTrack(t)
    BY <1>1, <2>1 DEF DeleteTrack
  <2>2. CASE StartupRecovers(t)
    <3>1. server'.before = server.before /\ faults' = faults
      BY <1>0, <2>2 DEF StartupRecovers, Unfailing, Servers
    <3> QED BY <1>0, <2>2, <3>1, StartupRecoversFresh DEF IsFresh
  <2> QED BY <1>3, <2>1, <2>2
<1>4. CASE StartupGoesOn
  <2>1. server'.before = server.before /\ faults' = faults
    BY <1>0, <1>4 DEF StartupGoesOn, Unfailing, Servers
  <2> QED BY <1>0, <1>4, <2>1, StartupGoesOnFresh DEF IsFresh
<1>5. CASE RemoveAllStaged \/ CancelUncommitted
  <2>1. server'.before = server.before
    BY <1>0, <1>5 DEF RemoveAllStaged, CancelUncommitted, Servers
  <2>2. ~Fault
    BY <1>0, <2>1, NotFresh
  <2>3. faults' = faults
    BY <1>5, <2>2 DEF RemoveAllStaged, CancelUncommitted, Unfailing
  <2> QED BY <1>0, <1>5, <2>1, <2>2, <2>3, CleanupFresh DEF IsFresh
<1>6. CASE Crash
  <2>1. server'.state = "down"
    BY <1>0, <1>6 DEF Crash, Servers
  <2> QED BY <2>1 DEF FreshOK, DeletionsFresh, ReplacementsFresh, UploadsFresh
<1>7. CASE UNCHANGED vars
  <2>1. IsFresh
    BY <1>7 DEF IsFresh, vars
  <2> QED BY <1>0, <1>7, <2>1, FreshSame
<1> QED BY <1>2, <1>3, <1>4, <1>5, <1>6, <1>7, RestartFresh, ReplacementFresh, DeletionFresh DEF Next

\* A startup in which nothing fails leaves no deletion and no replacement half done,
\* but for a replacement whose Track was deleted before its old file was removed and
\* one with another job's upload in its way; when it leaves none, no upload stays
\* either (ManagedImport::start, recover_pending_track_deletions,
\* recover_pending_track_replacements, cleanup_uncommitted).
THEOREM StartupsSettle == ConstantsOK /\ Spec => []StartupSettles
<1>1. Init => SettledOK
  <2> SUFFICES ASSUME Init PROVE SettledOK
    OBVIOUS
  <2>1. /\ server = [state |-> "up", todo |-> {}, isFailed |-> FALSE, before |-> -1] /\ op = NoOp /\ faults = 0
        /\ \A t \in Tracks : rows[t].state = "here"
    BY DEF Init
  <2> QED BY <2>1 DEF SettledOK, HiddenOK, StartedOK, IsFresh
<1>2. IInv /\ SettledOK /\ [Next]_vars => SettledOK'
  BY StartedKeeps, HiddenKeeps, FreshKeeps DEF SettledOK, FreshOK
<1>3. IInv /\ SettledOK => StartupSettles
  <2> SUFFICES ASSUME IInv, SettledOK, IsUp, server.before = faults
               PROVE  /\ \A t \in Tracks :
                           /\ deletions[t] = NoDeletion
                           /\ IsOpen(t) => IF journals[t].phase = "database_committed" THEN rows[t].state = "gone"
                                           ELSE IsObstructed(t)
                      /\ (\A t \in Tracks : ~IsOpen(t)) =>
                           \A j \in Jobs : jobs[j] # "awaiting" /\ ~staged[j]
    BY DEF StartupSettles
  <2>1. FreshOK /\ server.state = "up"
    BY DEF SettledOK, FreshOK, IsFresh, IsUp
  <2>2. \A t \in Tracks : rows[t].state # "hidden"
    BY <2>1 DEF FreshOK, DeletionsFresh
  <2>3. \A t \in Tracks : deletions[t] = NoDeletion
    BY <2>2, TrackFacts DEF TrackOK, RowOK
  <2>4. \A t \in Tracks : IsOpen(t) => IsStuck(t)
    BY <2>1 DEF FreshOK, ReplacementsFresh
  <2>5. \A t \in Tracks : IsOpen(t) => IF journals[t].phase = "database_committed" THEN rows[t].state = "gone"
                                       ELSE IsObstructed(t)
    BY <2>4 DEF IsStuck, IsCommitted, IsOpen
  <2> QED BY <2>1, <2>3, <2>5 DEF FreshOK, UploadsFresh
<1> QED BY <1>1, <1>2, <1>3, Invariant, PTL DEF Spec

\* All that the model checker sees of the files of Managed Tracks on one instance holds
\* of every one: a shown Track has its file, nothing given up is left behind, hidden is
\* being deleted, a replacement counts once, a startup settles what was cut short, and
\* no step loses a shown Album's artwork but to an operation that was overtaken
\* (replacement.rs, deletion.rs, ManagedImport::start).
THEOREM FilesAreKept == ConstantsOK /\ Spec => TracksKeepTheirFiles
BY TypesAreKept, VisibleTrackHasItsFile, NothingIsLeftBehind, HiddenMeansDeleting,
   ReplacementsCountOnce, StartupsSettle, ArtworkStaysWhole, PTL DEF TracksKeepTheirFiles
=============================================================================
