------------------------- MODULE ImportCommitProofs -------------------------
(***************************************************************************)
(* Proofs about the commit of Managed Import, for any set of jobs and any  *)
(* number of crashes and of failed steps: what the library shows is whole  *)
(* and shown once, no orphan stays after one failure, a restart settles    *)
(* what was cut short, and no rollback costs the upload.  About the        *)
(* uploads of the import page, for any number of files, places, retries    *)
(* and failures.  And about an Import Batch.  MCManagedImport takes these and the other parts of       *)
(* Managed Import side by side, which is why their state has names of its  *)
(* own here and the properties name the part that runs.                    *)
(***************************************************************************)
EXTENDS Integers, FiniteSets, Sequences, FiniteSetTheorems, TLAPS

CONSTANTS
  Imports, Illustrated, MaxDirs, MaxKills, MaxFailures,
  Picked, MaxActive, Retries, MaxBreaks, MaxRetries, MaxSessions,
  BatchFiles, Sizes, BatchLimit, MaxUploads, MaxLosses, MaxUpsets, MaxCancels

VARIABLES
  part,     \* the part that runs
  uploads, commits, tracks, album, cover, waits, audio, art, dirs, host, doing, kills, failures,
  handler, busy, entry, worker, active, waiting, aborted, lingering, known, sent, counts,
  batch, batchJob, staging, batchUpload, canceling, task, client, confirmed, overtaken, batchCounts

Commit == INSTANCE ImportCommit WITH Jobs <- Imports, HasCover <- Illustrated,
  MaxCrashes <- MaxKills, MaxFaults <- MaxFailures, jobs <- uploads, journals <- commits,
  staged <- waits, server <- host, op <- doing, crashes <- kills, faults <- failures

Page == INSTANCE ImportUploads WITH Files <- Picked, MaxFaults <- MaxBreaks, server <- known

Batch == INSTANCE ImportBatch WITH Files <- BatchFiles, MaxFaults <- MaxUpsets, disk <- staging,
  job <- batchJob, upload <- batchUpload, counts <- batchCounts

ASSUME CommitAssumption == Commit!ConstantsOK
ASSUME PageAssumption == Page!ConstantsOK
ASSUME BatchAssumption == Batch!ConstantsOK

commitVars == <<uploads, commits, tracks, album, cover, waits, audio, art, dirs, host, doing,
    kills, failures>>
pageVars == <<handler, busy, entry, worker, active, waiting, aborted, lingering, known, sent,
    counts>>
batchVars == <<batch, batchJob, staging, batchUpload, canceling, task, client, confirmed,
    overtaken, batchCounts>>

\* A commit is all or nothing to whoever looks at the library, and to its own retry:
\* only whole files are shown, once each, no orphan stays after one failure, a restart
\* settles what was cut short, and no rollback costs the upload (service.rs, commit,
\* recover_commit, Storage::rollback).
CommitIsSafe ==
  /\ [](part = "commit" => Commit!TypeOK /\ Commit!PublishedIsWhole /\ Commit!ImportedOnce
        /\ Commit!CanonicalAccountedFor /\ Commit!RestartSettlesJobs)
  /\ [][part = "commit" => Commit!UploadIsKept]_commitVars

\* The import page counts its places right, leaves no file in a state from which
\* nothing leads on, and does not send a file the server still works on (-import-
\* upload-queue.ts, -managed-import-workflow.ts).
UploadsMoveOn ==
  /\ [](part = "uploads" => Page!TypeOK /\ Page!PlacesAreCounted /\ Page!NoDeadEnd)
  /\ [][part = "uploads" => Page!SentOnce]_pageVars

\* An Import Batch stays within its limit, owns every file in staging, is completed
\* only with every file decided, and its confirmation is recognised when it is
\* repeated; clean-up takes no Batch that came back to life (repository.rs,
\* service.rs).
BatchIsAccountedFor ==
  /\ [](part = "batch" => Batch!TypeOK /\ Batch!StagingIsOwned /\ Batch!CompletedIsSettled
        /\ Batch!BatchStaysWithinLimit /\ Batch!ConfirmationKeepsItsRevision)
  /\ [][part = "batch" => Batch!LiveWorkIsKept]_batchVars

\* What is assumed of the constants.
LEMMA CommitConstants ==
  /\ Illustrated \subseteq Imports
  /\ "none" \notin Imports
  /\ MaxDirs \in Nat \ {0} /\ MaxKills \in Nat /\ MaxFailures \in Nat
BY CommitAssumption DEF Commit!ConstantsOK

----------------------------------------------------------------------------
(* Shapes *)

Phases == {"prepared", "placed", "verified", "database_committed", "cleaned"}
JobStates == {"awaiting", "committed", "gone"}

Moves == {"place", "cover", "mark", "write", "drop", "unplace", "placed", "verify",
          "verified", "persist", "undo", "restore", "undoPrepared", "close"}
Completes == {"clean", "cleaned", "finalize", "unpersist"}
Cancels == {"unstage", "delete"}
Steps == {"create", "recover"} \cup Moves \cup Completes \cup Cancels

\* The steps a startup takes to recover a journal.
RecoverySteps == {"recover", "undo", "restore", "undoPrepared", "close"} \cup Completes

Ops == [on : {"request", "startup"}, job : Imports, isRecovery : BOOLEAN, isBroken : BOOLEAN,
        pc : Steps]

Servers == [state : {"up", "down", "recovering", "cancelling"}, todo : SUBSET Imports,
            isFailed : BOOLEAN, before : Nat]

DataTypes ==
  /\ uploads \in [Imports -> JobStates]
  /\ commits \in [Imports -> Commit!Journals]
  /\ tracks \in [Imports -> [pending : Int, visible : Int]]
  /\ album \in 0..MaxDirs /\ dirs \in 0..MaxDirs
  /\ cover \in Imports \cup {Commit!NoJob}
  /\ waits \in [Imports -> Commit!FileStates] /\ audio \in [Imports -> Commit!FileStates]
  /\ art \in [1..MaxDirs -> {"whole", "empty", "absent"}]
  /\ kills \in 0..MaxKills /\ failures \in 0..MaxFailures

Types == DataTypes /\ host \in Servers /\ doing \in Ops \cup {Commit!NoOp}

----------------------------------------------------------------------------
(* The inductive invariant.  Its parts name the values of one job, so that   *)
(* a step only has to be followed where it changes them.                     *)

\* A journal that is open, and one whose Track is in the database.
Opened(journal) == journal # Commit!NoJournal
Stored(journal) == journal.phase \in {"database_committed", "cleaned"}

\* The journal counts the job's hidden Track, its row the shown one; what the
\* database knows of is in the library, and what is in the library is known.
JobOK(job, journal, track, file, fault) ==
  /\ track.pending = IF Stored(journal) THEN 1 ELSE 0
  /\ track.visible = IF job = "committed" THEN 1 ELSE 0
  /\ job = "committed" => ~Opened(journal) /\ file = "good"
  /\ Stored(journal) => file # "absent"
  /\ fault <= 1 /\ file # "absent" => job = "committed" \/ Opened(journal)

\* What an operation at `pc` knows of its job.
StepOK(pc, job, journal, upload, file, fault) ==
  /\ job # "committed"
  /\ pc = "create" => ~Opened(journal)
  /\ pc \in Moves => Opened(journal) /\ ~Stored(journal)
  /\ pc \in Completes => Opened(journal) /\ Stored(journal)
  /\ pc = "recover" => Opened(journal)
  /\ pc \in Cancels \cup {"create"} => job = "awaiting"
  /\ pc = "place" => upload = "good"
  /\ pc \in {"verified", "persist", "clean", "cleaned", "finalize"} => file = "good"
  /\ pc \in {"cover", "mark", "write", "drop", "unplace", "placed", "verify", "undo", "restore"}
       => file # "absent"
  /\ pc \in {"place", "close", "undoPrepared"} => file = "absent" \/ fault >= 2
  /\ pc \in {"drop", "unplace"} => fault >= 1

\* Whom an operation runs for.
ForWhom(o, s, job, fault) ==
  /\ o.on = "request" => s.state = "up" /\ job = "awaiting"
  /\ o.on = "startup" =>
       /\ o.job \notin s.todo
       /\ \/ s.state = "recovering" /\ o.pc \in RecoverySteps
          \/ s.state = "cancelling" /\ o.pc \in Cancels
  /\ o.isBroken => fault > s.before

OpOK ==
  doing # Commit!NoOp =>
    /\ StepOK(doing.pc, uploads[doing.job], commits[doing.job], waits[doing.job], audio[doing.job],
              failures)
    /\ ForWhom(doing, host, uploads[doing.job], failures)

\* A startup has yet to recover an open journal, is at it, or cannot: the job is
\* gone and its Track was in the database.
IsSettling(j) ==
  \/ j \in host.todo
  \/ doing # Commit!NoOp /\ doing.job = j
  \/ uploads[j] = "gone" /\ Stored(commits[j])

ServerOK ==
  /\ host.before <= failures
  /\ host.state = "down" => doing = Commit!NoOp
  /\ host.state = "recovering" => \A j \in host.todo : Opened(commits[j])
  /\ host.state = "cancelling" => \A j \in host.todo : uploads[j] = "awaiting"
  /\ host.state = "recovering" /\ failures = host.before =>
       \A j \in Imports : Opened(commits[j]) => IsSettling(j)

IInv ==
  /\ Types
  /\ \A j \in Imports : JobOK(uploads[j], commits[j], tracks[j], audio[j], failures)
  /\ OpOK
  /\ ServerOK

----------------------------------------------------------------------------
(* Steps of an operation *)

LEMMA OpIs ==
  ASSUME IInv, doing # Commit!NoOp
  PROVE  /\ doing \in Ops /\ doing.job \in Imports /\ doing.pc \in Steps
         /\ uploads[doing.job] \in JobStates /\ commits[doing.job] \in Commit!Journals
         /\ tracks[doing.job] \in [pending : Int, visible : Int]
         /\ waits[doing.job] \in Commit!FileStates /\ audio[doing.job] \in Commit!FileStates
         /\ failures \in Nat
         /\ JobOK(uploads[doing.job], commits[doing.job], tracks[doing.job], audio[doing.job],
                   failures)
         /\ StepOK(doing.pc, uploads[doing.job], commits[doing.job], waits[doing.job],
                   audio[doing.job], failures)
         /\ ForWhom(doing, host, uploads[doing.job], failures)
<1>1. doing \in Ops
  BY DEF IInv, Types
<1>2. doing.job \in Imports /\ doing.pc \in Steps
  BY <1>1 DEF Ops
<1> QED BY <1>1, <1>2, CommitConstants DEF IInv, Types, DataTypes, OpOK

\* The other jobs are left alone.
Frame(j) ==
  \A k \in Imports : k # j =>
    /\ uploads'[k] = uploads[k] /\ commits'[k] = commits[k] /\ tracks'[k] = tracks[k]
    /\ audio'[k] = audio[k]

LEMMA JobLater ==
  ASSUME NEW job, NEW journal, NEW track, NEW file, NEW f \in Nat, NEW g \in Nat, f <= g,
         JobOK(job, journal, track, file, f)
  PROVE  JobOK(job, journal, track, file, g)
BY DEF JobOK

\* The operation goes on with its job.
LEMMA GoesOnKeeps ==
  ASSUME IInv, doing # Commit!NoOp, DataTypes', Frame(doing.job), failures <= failures',
         NEW o \in Ops, doing' = o, o.job = doing.job, o.on = doing.on, host' = host,
         o.isBroken => doing.isBroken \/ failures < failures',
         JobOK(uploads'[doing.job], commits'[doing.job], tracks'[doing.job], audio'[doing.job],
               failures'),
         StepOK(o.pc, uploads'[doing.job], commits'[doing.job], waits'[doing.job],
                audio'[doing.job], failures'),
         uploads'[doing.job] = uploads[doing.job],
         doing.on = "startup" =>
           /\ doing.pc \in RecoverySteps => o.pc \in RecoverySteps
           /\ doing.pc \in Cancels => o.pc \in Cancels
  PROVE  IInv'
<1> DEFINE j == doing.job
<1>1. /\ doing \in Ops /\ j \in Imports /\ failures \in Nat /\ failures' \in Nat
      /\ ForWhom(doing, host, uploads[j], failures) /\ host \in Servers /\ host.before \in Nat
      /\ host.before <= failures
  BY OpIs, CommitConstants DEF DataTypes, IInv, Types, Servers, ServerOK
<1>2. /\ doing' \in Ops /\ doing'.pc = o.pc /\ doing'.job = j /\ doing'.on = doing.on
      /\ doing'.isBroken = o.isBroken /\ doing' # Commit!NoOp
  BY <1>1 DEF Ops, Commit!NoOp
<1>3. \A k \in Imports : JobOK(uploads'[k], commits'[k], tracks'[k], audio'[k], failures')
  <2> SUFFICES ASSUME NEW k \in Imports
               PROVE  JobOK(uploads'[k], commits'[k], tracks'[k], audio'[k], failures')
    OBVIOUS
  <2>1. CASE k = j
    BY <2>1
  <2>2. CASE k # j
    <3>1. JobOK(uploads[k], commits[k], tracks[k], audio[k], failures)
      BY DEF IInv
    <3>2. JobOK(uploads[k], commits[k], tracks[k], audio[k], failures')
      BY <1>1, <3>1, JobLater
    <3> QED BY <2>2, <3>2 DEF Frame
  <2> QED BY <2>1, <2>2
<1>4. ForWhom(doing', host', uploads'[j], failures')
  <2>1. doing'.isBroken => failures' > host.before
    BY <1>1, <1>2 DEF ForWhom
  <2>2. doing'.on = "startup" => \/ host.state = "recovering" /\ doing'.pc \in RecoverySteps
                                 \/ host.state = "cancelling" /\ doing'.pc \in Cancels
    BY <1>1, <1>2 DEF ForWhom
  <2> QED BY <1>1, <1>2, <2>1, <2>2 DEF ForWhom
<1>5. OpOK'
  BY <1>2, <1>4 DEF OpOK
<1>6. ServerOK'
  <2>1. host'.before <= failures' /\ host'.state # "down"
    BY <1>1 DEF IInv, ServerOK
  <2>2. ASSUME host'.state = "recovering", NEW k \in host'.todo
        PROVE  Opened(commits'[k])
    <3>1. k \in Imports /\ k # j
      BY <1>1, <2>2 DEF ForWhom, Servers, Ops
    <3> QED BY <2>2, <3>1 DEF IInv, ServerOK, Frame
  <2>3. ASSUME host'.state = "cancelling", NEW k \in host'.todo
        PROVE  uploads'[k] = "awaiting"
    <3>1. k \in Imports
      BY <1>1, <2>3 DEF Servers
    <3> QED BY <2>3, <3>1 DEF IInv, ServerOK, Frame
  <2>4. ASSUME host'.state = "recovering", failures' = host'.before, NEW k \in Imports,
               Opened(commits'[k])
        PROVE  IsSettling(k)'
    <3>1. failures = host.before
      BY <1>1, <2>4
    <3>2. CASE k = j
      BY <1>2, <3>2 DEF IsSettling
    <3>3. CASE k # j
      <4>1. IsSettling(k)
        BY <2>4, <3>1, <3>3 DEF IInv, ServerOK, Frame
      <4> QED BY <1>2, <3>3, <4>1 DEF IsSettling, Frame
    <3> QED BY <3>2, <3>3
  <2> QED BY <2>1, <2>2, <2>3, <2>4 DEF ServerOK
<1>7. Types'
  BY <1>1, <1>2 DEF Types
<1> QED BY <1>3, <1>5, <1>6, <1>7 DEF IInv

\* The operation ends, and leaves its job as it is to be found.
LEMMA EndKeeps ==
  ASSUME IInv, doing # Commit!NoOp, DataTypes', Frame(doing.job), failures <= failures',
         NEW failed \in BOOLEAN, Commit!End(failed),
         JobOK(uploads'[doing.job], commits'[doing.job], tracks'[doing.job], audio'[doing.job],
               failures'),
         doing.pc \in RecoverySteps /\ failures' = failures /\ Opened(commits'[doing.job])
           /\ (doing.isBroken => failures > host.before) /\ failures = host.before
         => uploads'[doing.job] = "gone" /\ Stored(commits'[doing.job])
  PROVE  IInv'
<1> DEFINE j == doing.job
<1>1. /\ doing \in Ops /\ j \in Imports /\ failures \in Nat /\ failures' \in Nat
      /\ ForWhom(doing, host, uploads[j], failures) /\ host \in Servers /\ host.before \in Nat
      /\ host.before <= failures
  BY OpIs, CommitConstants DEF DataTypes, IInv, Types, Servers, ServerOK
<1>2. /\ doing' = Commit!NoOp /\ host' \in Servers /\ host'.state = host.state
      /\ host'.todo = host.todo /\ host'.before = host.before
  <2>1. CASE doing.on = "startup"
    <3>1. PICK f \in BOOLEAN : host' = [host EXCEPT !.isFailed = f]
      BY <1>1, <2>1 DEF Commit!End, Servers
    <3> QED BY <1>1, <2>1, <3>1 DEF Commit!End, Servers
  <2>2. CASE doing.on # "startup"
    BY <1>1, <2>2 DEF Commit!End
  <2> QED BY <2>1, <2>2
<1>3. \A k \in Imports : JobOK(uploads'[k], commits'[k], tracks'[k], audio'[k], failures')
  <2> SUFFICES ASSUME NEW k \in Imports
               PROVE  JobOK(uploads'[k], commits'[k], tracks'[k], audio'[k], failures')
    OBVIOUS
  <2>1. CASE k = j
    BY <2>1
  <2>2. CASE k # j
    <3>1. JobOK(uploads[k], commits[k], tracks[k], audio[k], failures)
      BY DEF IInv
    <3>2. JobOK(uploads[k], commits[k], tracks[k], audio[k], failures')
      BY <1>1, <3>1, JobLater
    <3> QED BY <2>2, <3>2 DEF Frame
  <2> QED BY <2>1, <2>2
<1>4. OpOK'
  BY <1>2 DEF OpOK
<1>5. ServerOK'
  <2>1. host'.before <= failures'
    BY <1>1, <1>2
  <2>2. ASSUME host'.state = "recovering", NEW k \in host'.todo
        PROVE  Opened(commits'[k])
    <3>1. k \in Imports /\ k # j
      BY <1>1, <1>2, <2>2 DEF ForWhom, Servers, Ops
    <3> QED BY <1>2, <2>2, <3>1 DEF IInv, ServerOK, Frame
  <2>3. ASSUME host'.state = "cancelling", NEW k \in host'.todo
        PROVE  uploads'[k] = "awaiting"
    <3>1. k \in Imports /\ k # j
      BY <1>1, <1>2, <2>3 DEF ForWhom, Servers, Ops
    <3> QED BY <1>2, <2>3, <3>1 DEF IInv, ServerOK, Frame
  <2>4. ASSUME host'.state = "recovering", failures' = host'.before, NEW k \in Imports,
               Opened(commits'[k])
        PROVE  IsSettling(k)'
    <3>1. failures = host.before /\ failures' = failures
      BY <1>1, <1>2, <2>4
    <3>2. CASE k = j
      <4>0. doing.on \in {"request", "startup"}
        BY <1>1 DEF Ops
      <4>1. doing.pc \in RecoverySteps /\ (doing.isBroken => failures > host.before)
        BY <1>1, <1>2, <2>4, <4>0 DEF ForWhom
      <4>2. uploads'[j] = "gone" /\ Stored(commits'[j])
        BY <2>4, <3>1, <3>2, <4>1
      <4> QED BY <3>2, <4>2 DEF IsSettling
    <3>3. CASE k # j
      <4>1. IsSettling(k)
        BY <1>2, <2>4, <3>1, <3>3 DEF IInv, ServerOK, Frame
      <4> QED BY <1>2, <3>3, <4>1 DEF IsSettling, Frame
    <3> QED BY <3>2, <3>3
  <2> QED BY <1>2, <2>1, <2>2, <2>3, <2>4 DEF ServerOK
<1>6. Types'
  BY <1>2 DEF Types
<1> QED BY <1>3, <1>4, <1>5, <1>6 DEF IInv

\* A step that nothing failed in.
LEMMA GoesOnStep ==
  ASSUME IInv, doing # Commit!NoOp, NEW pc \in Steps, Commit!GoesOn(pc), failures' = failures,
         DataTypes', Frame(doing.job),
         JobOK(uploads'[doing.job], commits'[doing.job], tracks'[doing.job], audio'[doing.job],
               failures'),
         StepOK(pc, uploads'[doing.job], commits'[doing.job], waits'[doing.job], audio'[doing.job],
                failures'),
         uploads'[doing.job] = uploads[doing.job],
         doing.pc \in RecoverySteps => pc \in RecoverySteps, doing.pc \in Cancels => pc \in Cancels
  PROVE  IInv'
<1>1. doing \in Ops /\ failures \in Nat
  BY OpIs
<1>2. PICK o : o = [doing EXCEPT !.pc = pc]
  OBVIOUS
<1>3. /\ o \in Ops /\ o.job = doing.job /\ o.on = doing.on /\ o.isBroken = doing.isBroken
      /\ o.pc = pc
      /\ doing' = o /\ host' = host
  BY <1>1, <1>2 DEF Commit!GoesOn, Ops
<1>4. failures <= failures'
  BY <1>1
<1> QED BY <1>2, <1>3, <1>4, GoesOnKeeps

\* The staged file and the canonical one of the job are now u and f.
FilesBecome(j, u, f) ==
  /\ waits' = [waits EXCEPT ![j] = u] /\ audio' = [audio EXCEPT ![j] = f]
  /\ u \in Commit!FileStates /\ f \in Commit!FileStates
  /\ art' \in [1..MaxDirs -> {"whole", "empty", "absent"}]
  /\ Commit!FilesOnly

LEMMA FilesStep ==
  ASSUME IInv, doing # Commit!NoOp, NEW u, NEW f, FilesBecome(doing.job, u, f),
         Stored(commits[doing.job]) => f # "absent",
         f # "absent" /\ failures <= 1 => Opened(commits[doing.job])
  PROVE  /\ DataTypes' /\ Frame(doing.job) /\ failures' = failures
         /\ JobOK(uploads'[doing.job], commits'[doing.job], tracks'[doing.job], audio'[doing.job],
                  failures')
         /\ uploads'[doing.job] = uploads[doing.job] /\ commits'[doing.job] = commits[doing.job]
         /\ waits'[doing.job] = u /\ audio'[doing.job] = f
<1>1. doing.job \in Imports
  BY OpIs
<1>2. UNCHANGED <<uploads, commits, tracks, album, cover, dirs, kills, failures>>
  BY DEF FilesBecome, Commit!FilesOnly, Commit!Unfailing
<1>3. DataTypes
  BY DEF IInv, Types
<1>4. DataTypes'
  BY <1>2, <1>3 DEF DataTypes, FilesBecome
<1>5. /\ waits'[doing.job] = u /\ audio'[doing.job] = f
      /\ \A k \in Imports : k # doing.job => audio'[k] = audio[k]
  BY <1>1, <1>3 DEF DataTypes, FilesBecome
<1>6. Frame(doing.job)
  BY <1>2, <1>5 DEF Frame
<1>7. /\ JobOK(uploads[doing.job], commits[doing.job], tracks[doing.job], audio[doing.job],
               failures)
      /\ uploads[doing.job] # "committed"
  BY OpIs DEF StepOK
<1>8. JobOK(uploads[doing.job], commits[doing.job], tracks[doing.job], f, failures)
  BY <1>7 DEF JobOK
<1> QED BY <1>2, <1>4, <1>5, <1>6, <1>8

\* A new state of artwork is one.
LEMMA ArtType ==
  ASSUME DataTypes, NEW d, NEW a \in {"whole", "empty", "absent"}
  PROVE  [art EXCEPT ![d] = a] \in [1..MaxDirs -> {"whole", "empty", "absent"}]
BY DEF DataTypes

LEMMA SameFiles ==
  ASSUME DataTypes, NEW j \in Imports
  PROVE  /\ waits = [waits EXCEPT ![j] = waits[j]] /\ audio = [audio EXCEPT ![j] = audio[j]]
         /\ waits[j] \in Commit!FileStates /\ audio[j] \in Commit!FileStates
         /\ art \in [1..MaxDirs -> {"whole", "empty", "absent"}]
BY DEF DataTypes

\* The pcs a step at `from` may go on to, as far as it matters whom it runs for.
MayFollow(from, pc) ==
  /\ pc \in Steps
  /\ from \in RecoverySteps => pc \in RecoverySteps
  /\ from \in Cancels => pc \in Cancels

LEMMA FilesGoOn ==
  ASSUME IInv, doing # Commit!NoOp, NEW pc, MayFollow(doing.pc, pc), Commit!GoesOn(pc),
         NEW u, NEW f, FilesBecome(doing.job, u, f),
         Stored(commits[doing.job]) => f # "absent",
         f # "absent" /\ failures <= 1 => Opened(commits[doing.job]),
         StepOK(pc, uploads[doing.job], commits[doing.job], u, f, failures)
  PROVE  IInv'
<1>1. /\ DataTypes' /\ Frame(doing.job) /\ failures' = failures
      /\ JobOK(uploads'[doing.job], commits'[doing.job], tracks'[doing.job], audio'[doing.job],
               failures')
      /\ uploads'[doing.job] = uploads[doing.job] /\ commits'[doing.job] = commits[doing.job]
      /\ waits'[doing.job] = u /\ audio'[doing.job] = f
  BY FilesStep
<1> QED BY <1>1, GoesOnStep DEF MayFollow

LEMMA PlaceIInv ==
  ASSUME IInv, doing # Commit!NoOp, Commit!Place(doing.job)
  PROVE  IInv'
<1> DEFINE j == doing.job
<1>1. /\ j \in Imports /\ StepOK("place", uploads[j], commits[j], waits[j], audio[j], failures)
      /\ doing.pc = "place" /\ DataTypes
  BY OpIs DEF Commit!Place, Commit!At, IInv, Types
<1>2. waits[j] = "good" /\ Opened(commits[j]) /\ ~Stored(commits[j])
  BY <1>1 DEF StepOK, Moves
<1>3. CASE Commit!CoverMatches(j)
  <2>1. PICK pc \in {"cover", "placed"} : Commit!GoesOn(pc)
    BY <1>3 DEF Commit!Place
  <2>2. FilesBecome(j, "absent", "good")
    BY <1>1, <1>2, <1>3, SameFiles DEF Commit!Place, FilesBecome, Commit!FileStates
  <2>3. StepOK(pc, uploads[j], commits[j], "absent", "good", failures)
    BY <1>1, <2>1 DEF StepOK, Moves, Completes, Cancels
  <2>4. MayFollow(doing.pc, pc)
    BY <1>1, <2>1 DEF MayFollow, Steps, RecoverySteps, Moves, Completes, Cancels
  <2> QED BY <1>2, <2>1, <2>2, <2>3, <2>4, FilesGoOn
<1>4. CASE ~Commit!CoverMatches(j)
  <2>1. Commit!GoesOn("close") /\ UNCHANGED Commit!files
    BY <1>4 DEF Commit!Place, Commit!files
  <2>2. FilesBecome(j, waits[j], audio[j])
    BY <1>1, <2>1, SameFiles DEF Commit!Place, FilesBecome, Commit!files
  <2>3. StepOK("close", uploads[j], commits[j], waits[j], audio[j], failures)
    BY <1>1 DEF StepOK, Moves, Completes, Cancels
  <2>4. MayFollow(doing.pc, "close")
    BY <1>1 DEF MayFollow, Steps, RecoverySteps, Moves, Completes, Cancels
  <2> QED BY <1>2, <2>1, <2>2, <2>3, <2>4, FilesGoOn
<1> QED BY <1>3, <1>4

\* Artwork is made, written or removed.
LEMMA CoverIInv ==
  ASSUME IInv, doing # Commit!NoOp,
         \/ Commit!CreateCover(doing.job) \/ Commit!WriteCover(doing.job)
         \/ Commit!DropCover(doing.job)
         \/ Commit!UndoCover(doing.job) \/ Commit!UndoPrepared(doing.job)
  PROVE  IInv'
<1> DEFINE j == doing.job
<1>1. /\ j \in Imports /\ StepOK(doing.pc, uploads[j], commits[j], waits[j], audio[j], failures)
      /\ DataTypes /\ JobOK(uploads[j], commits[j], tracks[j], audio[j], failures)
  BY OpIs DEF IInv, Types
<1>2. PICK pc \in {"mark", "placed", "unplace", "restore", "close"} :
        /\ Commit!GoesOn(pc) /\ Commit!FilesOnly /\ UNCHANGED <<waits, audio>>
        /\ pc = "mark" => doing.pc = "cover"
        /\ pc = "placed" => doing.pc = "write"
        /\ pc = "unplace" => doing.pc = "drop"
        /\ pc = "restore" => doing.pc = "undo"
        /\ pc = "close" => doing.pc = "undoPrepared"
  BY DEF Commit!CreateCover, Commit!WriteCover, Commit!DropCover, Commit!UndoCover,
         Commit!UndoPrepared, Commit!At
<1>3. art' \in [1..MaxDirs -> {"whole", "empty", "absent"}]
  <2>1. \/ \E d, a : a \in {"whole", "empty", "absent"} /\ art' = [art EXCEPT ![d] = a]
        \/ art' = art
    BY DEF Commit!CreateCover, Commit!WriteCover, Commit!DropCover, Commit!UndoCover,
           Commit!UndoPrepared, Commit!CoverRemoved
  <2> QED BY <1>1, <2>1, ArtType DEF DataTypes
<1>4. FilesBecome(j, waits[j], audio[j])
  BY <1>1, <1>2, <1>3, SameFiles DEF FilesBecome
<1>5. StepOK(pc, uploads[j], commits[j], waits[j], audio[j], failures)
  BY <1>1, <1>2 DEF StepOK, Moves, Completes, Cancels
<1>6. MayFollow(doing.pc, pc)
  BY <1>2 DEF MayFollow, Steps, RecoverySteps, Moves, Completes, Cancels
<1>7. Stored(commits[j]) => audio[j] # "absent"
  BY <1>1 DEF JobOK
<1>8. Opened(commits[j])
  BY <1>1, <1>2 DEF StepOK, Moves
<1> QED BY <1>2, <1>4, <1>5, <1>6, <1>7, <1>8, FilesGoOn

LEMMA UnplaceIInv ==
  ASSUME IInv, doing # Commit!NoOp, Commit!Unplace(doing.job)
  PROVE  IInv'
<1> DEFINE j == doing.job
<1>1. /\ j \in Imports /\ StepOK("unplace", uploads[j], commits[j], waits[j], audio[j], failures)
      /\ doing.pc = "unplace" /\ DataTypes /\ audio[j] \in Commit!FileStates
  BY OpIs DEF Commit!Unplace, Commit!At, IInv, Types
<1>2. FilesBecome(j, audio[j], "absent") /\ Commit!GoesOn("close")
  BY <1>1 DEF Commit!Unplace, FilesBecome, Commit!Restored, Commit!FileStates, DataTypes
<1>3. StepOK("close", uploads[j], commits[j], audio[j], "absent", failures)
  BY <1>1 DEF StepOK, Moves, Completes, Cancels
<1>4. MayFollow(doing.pc, "close")
  BY <1>1 DEF MayFollow, Steps, RecoverySteps, Moves, Completes, Cancels
<1>5. ~Stored(commits[j])
  BY <1>1 DEF StepOK, Moves
<1> QED BY <1>2, <1>3, <1>4, <1>5, FilesGoOn

LEMMA CleanIInv ==
  ASSUME IInv, doing # Commit!NoOp, Commit!Clean(doing.job) \/ Commit!DropStaged(doing.job)
  PROVE  IInv'
<1> DEFINE j == doing.job
<1>1. /\ j \in Imports /\ StepOK(doing.pc, uploads[j], commits[j], waits[j], audio[j], failures)
      /\ DataTypes /\ JobOK(uploads[j], commits[j], tracks[j], audio[j], failures)
  BY OpIs DEF IInv, Types
<1>2. PICK pc \in {"cleaned", "delete"} :
        /\ Commit!GoesOn(pc) /\ waits' = [waits EXCEPT ![j] = "absent"] /\ Commit!FilesOnly
        /\ UNCHANGED <<audio, art>>
        /\ pc = "cleaned" => doing.pc = "clean"
        /\ pc = "delete" => doing.pc = "unstage"
  BY DEF Commit!Clean, Commit!DropStaged, Commit!At
<1>3. FilesBecome(j, "absent", audio[j])
  BY <1>1, <1>2, SameFiles DEF FilesBecome, Commit!FileStates
<1>4. StepOK(pc, uploads[j], commits[j], "absent", audio[j], failures)
  BY <1>1, <1>2 DEF StepOK, Moves, Completes, Cancels
<1>5. MayFollow(doing.pc, pc)
  BY <1>2 DEF MayFollow, Steps, RecoverySteps, Moves, Completes, Cancels
<1>6. /\ Stored(commits[j]) => audio[j] # "absent"
      /\ audio[j] # "absent" /\ failures <= 1 => Opened(commits[j])
  BY <1>1 DEF JobOK, StepOK
<1> QED BY <1>2, <1>3, <1>4, <1>5, <1>6, FilesGoOn

LEMMA UndoMoveIInv ==
  ASSUME IInv, doing # Commit!NoOp, Commit!UndoMove(doing.job)
  PROVE  IInv'
<1> DEFINE j == doing.job
<1>1. /\ j \in Imports /\ StepOK("restore", uploads[j], commits[j], waits[j], audio[j], failures)
      /\ doing.pc = "restore" /\ DataTypes /\ audio[j] \in Commit!FileStates /\ doing \in Ops
      /\ ForWhom(doing, host, uploads[j], failures) /\ failures \in Nat /\ host.before \in Nat
  BY OpIs DEF Commit!UndoMove, Commit!At, IInv, Types, Servers
<1>2. audio[j] # "absent" /\ ~Stored(commits[j]) /\ Opened(commits[j])
  BY <1>1 DEF StepOK, Moves
<1>3. FilesBecome(j, audio[j], "absent")
  BY <1>1, <1>2 DEF Commit!UndoMove, FilesBecome, Commit!Restored, Commit!FileStates, DataTypes
<1>4. CASE ~doing.isBroken
  <2>1. Commit!GoesOn("close")
    BY <1>2, <1>4 DEF Commit!UndoMove
  <2>2. StepOK("close", uploads[j], commits[j], audio[j], "absent", failures)
    BY <1>1 DEF StepOK, Moves, Completes, Cancels
  <2>3. MayFollow(doing.pc, "close")
    BY <1>1 DEF MayFollow, Steps, RecoverySteps, Moves, Completes, Cancels
  <2> QED BY <1>2, <1>3, <2>1, <2>2, <2>3, FilesGoOn
<1>5. CASE doing.isBroken
  <2>1. Commit!End(TRUE)
    BY <1>2, <1>5 DEF Commit!UndoMove
  <2>2. /\ DataTypes' /\ Frame(doing.job) /\ failures' = failures
        /\ JobOK(uploads'[doing.job], commits'[doing.job], tracks'[doing.job], audio'[doing.job],
                 failures')
    BY <1>2, <1>3, FilesStep
  <2>3. failures <= failures' /\ failures # host.before
    BY <1>1, <1>5, <2>2 DEF ForWhom
  <2> QED BY <2>1, <2>2, <2>3, EndKeeps
<1> QED BY <1>4, <1>5

\* Nothing but the place in the operation changes.
LEMMA LooksIInv ==
  ASSUME IInv, doing # Commit!NoOp, Commit!Verify(doing.job) \/ Commit!Recover(doing.job)
  PROVE  IInv'
<1> DEFINE j == doing.job
<1>1. /\ j \in Imports /\ StepOK(doing.pc, uploads[j], commits[j], waits[j], audio[j], failures)
      /\ DataTypes /\ JobOK(uploads[j], commits[j], tracks[j], audio[j], failures)
  BY OpIs DEF IInv, Types
<1>2. FilesBecome(j, waits[j], audio[j])
  BY <1>1, SameFiles DEF FilesBecome, Commit!Verify, Commit!Recover, Commit!files
<1>3. /\ Stored(commits[j]) => audio[j] # "absent"
      /\ audio[j] # "absent" /\ failures <= 1 => Opened(commits[j])
  BY <1>1 DEF JobOK, StepOK
<1>4. CASE Commit!Verify(j)
  <2>1. PICK pc \in {"verified",
  "undo"} : Commit!GoesOn(pc) /\ (pc = "verified" => audio[j] = "good")
    BY <1>4 DEF Commit!Verify, Commit!IsWhole
  <2>2. doing.pc = "verify"
    BY <1>4 DEF Commit!Verify, Commit!At
  <2>3. StepOK(pc, uploads[j], commits[j], waits[j], audio[j], failures)
    BY <1>1, <2>1, <2>2 DEF StepOK, Moves, Completes, Cancels
  <2>4. MayFollow(doing.pc, pc)
    BY <2>1, <2>2 DEF MayFollow, Steps, RecoverySteps, Moves, Completes, Cancels
  <2> QED BY <1>2, <1>3, <2>1, <2>3, <2>4, FilesGoOn
<1>5. CASE Commit!Recover(j)
  <2>1. PICK pc \in {"unpersist", "finalize", "clean", "undo", "undoPrepared"} :
          /\ Commit!GoesOn(pc)
          /\ pc \in {"unpersist", "finalize", "clean"} <=> Stored(commits[j])
          /\ pc \in {"finalize", "clean"} => audio[j] = "good"
          /\ pc = "undo" => audio[j] # "absent"
          /\ pc = "undoPrepared" => audio[j] = "absent"
    <3>1. CASE Commit!HasDatabase(j)
      <4>1. Commit!GoesOn(Commit!Completion(j)) /\ Stored(commits[j])
        BY <1>5, <3>1 DEF Commit!Recover, Commit!HasDatabase, Stored
      <4>2. CASE ~Commit!IsWhole(j)
        BY <4>1, <4>2 DEF Commit!Completion
      <4>3. CASE Commit!IsWhole(j)
        <5>1. Commit!Completion(j) \in {"finalize", "clean"} /\ audio[j] = "good"
          BY <4>3 DEF Commit!Completion, Commit!IsWhole
        <5> QED BY <4>1, <5>1
      <4> QED BY <4>2, <4>3
    <3>2. CASE ~Commit!HasDatabase(j)
      <4>1. Commit!GoesOn(Commit!Rollback(j)) /\ ~Stored(commits[j])
        BY <1>5, <3>2 DEF Commit!Recover, Commit!HasDatabase, Stored
      <4> QED BY <4>1 DEF Commit!Rollback
    <3> QED BY <3>1, <3>2
  <2>2. doing.pc = "recover"
    BY <1>5 DEF Commit!Recover, Commit!At
  <2>3. StepOK(pc, uploads[j], commits[j], waits[j], audio[j], failures)
    BY <1>1, <2>1, <2>2 DEF StepOK, Moves, Completes, Cancels
  <2>4. MayFollow(doing.pc, pc)
    BY <2>1, <2>2 DEF MayFollow, Steps, RecoverySteps, Moves, Completes, Cancels
  <2> QED BY <1>2, <1>3, <2>1, <2>3, <2>4, FilesGoOn
<1> QED BY <1>4, <1>5

\* The job's journal becomes `new`, and only that.
JournalBecomes(j, new) ==
  /\ commits' = [commits EXCEPT ![j] = new] /\ new \in Commit!Journals
  /\ UNCHANGED <<uploads, tracks, album, cover, Commit!files, kills, failures>>
  /\ dirs' \in 0..MaxDirs

LEMMA JournalStep ==
  ASSUME IInv, doing # Commit!NoOp, NEW new, JournalBecomes(doing.job, new),
         Stored(new) <=> Stored(commits[doing.job]),
         Opened(new) \/ audio[doing.job] = "absent" \/ failures > 1
  PROVE  /\ DataTypes' /\ Frame(doing.job) /\ failures' = failures
         /\ JobOK(uploads'[doing.job], commits'[doing.job], tracks'[doing.job], audio'[doing.job],
                  failures')
         /\ uploads'[doing.job] = uploads[doing.job] /\ commits'[doing.job] = new
         /\ waits'[doing.job] = waits[doing.job] /\ audio'[doing.job] = audio[doing.job]
<1>1. doing.job \in Imports /\ failures \in Nat
  BY OpIs
<1>2. UNCHANGED <<uploads, tracks, album, cover, waits, audio, art, kills, failures>>
  BY DEF JournalBecomes, Commit!files
<1>3. DataTypes
  BY DEF IInv, Types
<1>4. DataTypes'
  BY <1>2, <1>3 DEF DataTypes, JournalBecomes
<1>5. /\ commits'[doing.job] = new
      /\ \A k \in Imports : k # doing.job => commits'[k] = commits[k]
  BY <1>1, <1>3 DEF DataTypes, JournalBecomes
<1>6. Frame(doing.job)
  BY <1>2, <1>5 DEF Frame
<1>7. /\ JobOK(uploads[doing.job], commits[doing.job], tracks[doing.job], audio[doing.job],
               failures)
      /\ uploads[doing.job] # "committed"
  BY OpIs DEF StepOK
<1>8. JobOK(uploads[doing.job], new, tracks[doing.job], audio[doing.job], failures)
  BY <1>1, <1>7 DEF JobOK
<1> QED BY <1>2, <1>4, <1>5, <1>6, <1>8

LEMMA JournalGoesOn ==
  ASSUME IInv, doing # Commit!NoOp, NEW pc, MayFollow(doing.pc, pc), Commit!GoesOn(pc),
         NEW new, JournalBecomes(doing.job, new),
         Stored(new) <=> Stored(commits[doing.job]),
         Opened(new) \/ audio[doing.job] = "absent" \/ failures > 1,
         StepOK(pc, uploads[doing.job], new, waits[doing.job], audio[doing.job], failures)
  PROVE  IInv'
<1>1. /\ DataTypes' /\ Frame(doing.job) /\ failures' = failures
      /\ JobOK(uploads'[doing.job], commits'[doing.job], tracks'[doing.job], audio'[doing.job],
               failures')
      /\ uploads'[doing.job] = uploads[doing.job] /\ commits'[doing.job] = new
      /\ waits'[doing.job] = waits[doing.job] /\ audio'[doing.job] = audio[doing.job]
  BY JournalStep
<1> QED BY <1>1, GoesOnStep DEF MayFollow

\* The fields of an open journal.
LEMMA PhaseField ==
  ASSUME NEW journal \in Commit!Journals, Opened(journal), NEW phase \in Phases
  PROVE  LET new == [journal EXCEPT !.phase = phase]
         IN  new \in Commit!Journals /\ Opened(new) /\ new.phase = phase
BY DEF Commit!Journals, Opened, Commit!NoJournal, Phases

LEMMA CreatedField ==
  ASSUME NEW journal \in Commit!Journals, Opened(journal)
  PROVE  LET new == [journal EXCEPT !.isCoverCreated = TRUE]
         IN  new \in Commit!Journals /\ Opened(new) /\ new.phase = journal.phase
BY DEF Commit!Journals, Opened, Commit!NoJournal

LEMMA ClosedJournal ==
  Commit!NoJournal \in Commit!Journals /\ ~Opened(Commit!NoJournal) /\ ~Stored(Commit!NoJournal)
BY DEF Commit!Journals, Opened, Commit!NoJournal, Stored

LEMMA MarkIInv ==
  ASSUME IInv, doing # Commit!NoOp,
         Commit!MarkCover(doing.job) \/ Commit!MarkPlaced(doing.job)
          \/ Commit!MarkVerified(doing.job) \/ Commit!MarkCleaned(doing.job)
  PROVE  IInv'
<1> DEFINE j == doing.job
<1>1. /\ j \in Imports /\ StepOK(doing.pc, uploads[j], commits[j], waits[j], audio[j], failures)
      /\ DataTypes /\ commits[j] \in Commit!Journals /\ dirs' = dirs
      /\ UNCHANGED <<uploads, tracks, album, cover, Commit!files, kills, failures>>
  BY OpIs DEF IInv, Types, Commit!MarkCover, Commit!MarkPlaced, Commit!MarkVerified,
              Commit!MarkCleaned, Commit!JournalOnly, Commit!Unfailing
<1>2. doing.pc \in {"mark", "placed", "verified", "cleaned"} /\ Opened(commits[j])
  BY <1>1 DEF Commit!MarkCover, Commit!MarkPlaced, Commit!MarkVerified, Commit!MarkCleaned,
              Commit!At, StepOK, Moves, Completes
<1>3. PICK pc \in {"write", "verify", "persist", "finalize"}, new \in Commit!Journals :
        /\ Commit!GoesOn(pc) /\ commits' = [commits EXCEPT ![j] = new] /\ Opened(new)
        /\ pc = "write" => doing.pc = "mark" /\ new.phase = commits[j].phase
        /\ pc = "verify" => doing.pc = "placed" /\ new.phase = "placed"
        /\ pc = "persist" => doing.pc = "verified" /\ new.phase = "verified"
        /\ pc = "finalize" => doing.pc = "cleaned" /\ new.phase = "cleaned"
  <2>1. CASE Commit!MarkCover(j)
    <3>1. PICK new : new = [commits[j] EXCEPT !.isCoverCreated = TRUE]
      OBVIOUS
    <3>2. commits' = [commits EXCEPT ![j] = new] /\ Commit!GoesOn("write") /\ doing.pc = "mark"
      BY <1>1, <2>1, <3>1 DEF Commit!MarkCover, Commit!At, DataTypes
    <3>3. new \in Commit!Journals /\ Opened(new) /\ new.phase = commits[j].phase
      BY <1>1, <1>2, <3>1, CreatedField
    <3> QED BY <3>2, <3>3
  <2>2. ASSUME NEW phase \in Phases, Commit!SetPhase(j, phase)
        PROVE  \E new \in Commit!Journals : /\ commits' = [commits EXCEPT ![j] = new]
                                            /\ Opened(new) /\ new.phase = phase
    <3>1. PICK new : new = [commits[j] EXCEPT !.phase = phase]
      OBVIOUS
    <3>2. commits' = [commits EXCEPT ![j] = new]
      BY <1>1, <2>2, <3>1 DEF Commit!SetPhase, DataTypes
    <3>3. new \in Commit!Journals /\ Opened(new) /\ new.phase = phase
      BY <1>1, <1>2, <3>1, PhaseField
    <3> QED BY <3>2, <3>3
  <2>3. CASE Commit!MarkPlaced(j)
    <3>1. Commit!SetPhase(j, "placed") /\ Commit!GoesOn("verify") /\ doing.pc = "placed"
      BY <2>3 DEF Commit!MarkPlaced, Commit!At
    <3> QED BY <2>2, <3>1 DEF Phases
  <2>4. CASE Commit!MarkVerified(j)
    <3>1. Commit!SetPhase(j, "verified") /\ Commit!GoesOn("persist") /\ doing.pc = "verified"
      BY <2>4 DEF Commit!MarkVerified, Commit!At
    <3> QED BY <2>2, <3>1 DEF Phases
  <2>5. CASE Commit!MarkCleaned(j)
    <3>1. Commit!SetPhase(j, "cleaned") /\ Commit!GoesOn("finalize") /\ doing.pc = "cleaned"
      BY <2>5 DEF Commit!MarkCleaned, Commit!At
    <3> QED BY <2>2, <3>1 DEF Phases
  <2> QED BY <2>1, <2>3, <2>4, <2>5
<1>4. Stored(new) <=> Stored(commits[j])
  <2>1. doing.pc \in {"mark", "placed", "verified"} => ~Stored(commits[j])
    BY <1>1 DEF StepOK, Moves
  <2>2. doing.pc = "cleaned" => Stored(commits[j])
    BY <1>1 DEF StepOK, Completes
  <2>3. pc \in {"verify", "persist"} => ~Stored(new)
    BY <1>3 DEF Stored
  <2>4. pc = "finalize" => Stored(new)
    BY <1>3 DEF Stored
  <2>5. pc = "write" => (Stored(new) <=> Stored(commits[j]))
    BY <1>3 DEF Stored
  <2> QED BY <1>3, <2>1, <2>2, <2>3, <2>4, <2>5
<1>5. JournalBecomes(j, new)
  BY <1>1, <1>3 DEF JournalBecomes, DataTypes
<1>6. StepOK(pc, uploads[j], new, waits[j], audio[j], failures)
  BY <1>1, <1>3, <1>4 DEF StepOK, Moves, Completes, Cancels
<1>7. MayFollow(doing.pc, pc)
  BY <1>3 DEF MayFollow, Steps, RecoverySteps, Moves, Completes, Cancels
<1> QED BY <1>3, <1>4, <1>5, <1>6, <1>7, JournalGoesOn

LEMMA CreateJournalIInv ==
  ASSUME IInv, doing # Commit!NoOp, Commit!CreateJournal(doing.job)
  PROVE  IInv'
<1> DEFINE j == doing.job
<1>1. /\ j \in Imports /\ StepOK("create", uploads[j], commits[j], waits[j], audio[j], failures)
      /\ doing.pc = "create" /\ DataTypes /\ failures \in Nat
      /\ JobOK(uploads[j], commits[j], tracks[j], audio[j], failures)
      /\ UNCHANGED <<uploads, tracks, album, cover, Commit!files, kills, failures>>
  BY OpIs DEF IInv, Types, Commit!CreateJournal, Commit!At, Commit!Unfailing
<1>2. /\ ~Opened(commits[j]) /\ commits[j] = Commit!NoJournal /\ uploads[j] = "awaiting"
      /\ audio[j] = "absent" \/ failures > 1
  BY <1>1 DEF StepOK, Opened, JobOK, Cancels
<1>3. CASE Commit!IsAsPreviewed(j) /\ ~Commit!IsOpen(j) /\ Commit!ResolvedDir <= MaxDirs
  <2>1. PICK new :
          new = [phase |-> "prepared", isCoverCreated |-> FALSE, dir |-> Commit!ResolvedDir,
                 hasArt |-> j \in Illustrated \/ cover # Commit!NoJob]
    OBVIOUS
  <2>2. Commit!ResolvedDir \in 1..MaxDirs
    BY <1>1, <1>3, CommitConstants DEF Commit!ResolvedDir, DataTypes
  <2>3. new \in Commit!Journals /\ Opened(new) /\ ~Stored(new)
    <3>1. PICK b \in BOOLEAN : b = (j \in Illustrated \/ cover # Commit!NoJob)
      OBVIOUS
    <3>2. new = [phase |-> "prepared", isCoverCreated |-> FALSE, dir |-> Commit!ResolvedDir,
    hasArt |-> b]
      BY <2>1, <3>1
    <3> QED BY <2>2, <3>2 DEF Commit!Journals, Opened, Commit!NoJournal, Stored
  <2>4. commits' = [commits EXCEPT ![j] = new] /\ Commit!GoesOn("place")
    BY <1>3, <2>1 DEF Commit!CreateJournal
  <2>5. dirs' \in 0..MaxDirs
    <3>1. dirs' = Commit!ResolvedDir \/ dirs' = dirs
      BY <1>3 DEF Commit!CreateJournal
    <3>2. 1..MaxDirs \subseteq 0..MaxDirs
      BY CommitConstants
    <3> QED BY <1>1, <2>2, <3>1, <3>2 DEF DataTypes
  <2>6. JournalBecomes(j, new)
    BY <1>1, <2>3, <2>4, <2>5 DEF JournalBecomes
  <2>7. StepOK("place", uploads[j], new, waits[j], audio[j], failures)
    <3>1. waits[j] = "good"
      BY <1>3 DEF Commit!IsAsPreviewed
    <3>2. audio[j] = "absent" \/ failures >= 2
      BY <1>1, <1>2
    <3> QED BY <1>2, <2>3, <3>1, <3>2 DEF StepOK, Moves, Completes, Cancels
  <2>8. MayFollow(doing.pc, "place")
    BY <1>1 DEF MayFollow, Steps, RecoverySteps, Moves, Completes, Cancels
  <2>9. ~Stored(commits[j])
    BY <1>2, ClosedJournal
  <2> QED BY <2>3, <2>4, <2>6, <2>7, <2>8, <2>9, JournalGoesOn
<1>4. CASE ~(Commit!IsAsPreviewed(j) /\ ~Commit!IsOpen(j) /\ Commit!ResolvedDir <= MaxDirs)
  <2>1. Commit!End(TRUE) /\ UNCHANGED <<dirs, commits>>
    BY <1>4 DEF Commit!CreateJournal
  <2>2. DataTypes' /\ Frame(j)
    BY <1>1, <2>1 DEF DataTypes, Frame, Commit!files
  <2>3. JobOK(uploads'[j], commits'[j], tracks'[j], audio'[j], failures') /\ failures <= failures'
    BY <1>1, <2>1 DEF Commit!files
  <2>4. doing.pc \notin RecoverySteps
    BY <1>1 DEF RecoverySteps, Completes
  <2> QED BY <2>1, <2>2, <2>3, <2>4, EndKeeps
<1> QED BY <1>3, <1>4

LEMMA CloseJournalIInv ==
  ASSUME IInv, doing # Commit!NoOp, Commit!CloseJournal(doing.job)
  PROVE  IInv'
<1> DEFINE j == doing.job
<1>1. /\ j \in Imports /\ StepOK("close", uploads[j], commits[j], waits[j], audio[j], failures)
      /\ doing.pc = "close" /\ DataTypes /\ failures \in Nat /\ doing \in Ops
      /\ ForWhom(doing, host, uploads[j], failures)
  BY OpIs DEF IInv, Types, Commit!CloseJournal, Commit!At
<1>2. JournalBecomes(j, Commit!NoJournal)
  BY <1>1, ClosedJournal DEF JournalBecomes, Commit!CloseJournal, Commit!Close, Commit!JournalOnly,
                             Commit!Unfailing, DataTypes
<1>3. ~Stored(commits[j]) /\ (audio[j] = "absent" \/ failures > 1)
  BY <1>1 DEF StepOK, Moves
<1>4. /\ DataTypes' /\ Frame(j) /\ failures' = failures
      /\ JobOK(uploads'[j], commits'[j], tracks'[j], audio'[j], failures')
      /\ uploads'[j] = uploads[j] /\ commits'[j] = Commit!NoJournal
      /\ waits'[j] = waits[j] /\ audio'[j] = audio[j]
  BY <1>2, <1>3, JournalStep, ClosedJournal
<1>5. CASE doing.on = "request" /\ doing.isRecovery
  <2>1. PICK o : o = Commit!Op("request", j, FALSE, "create")
    OBVIOUS
  <2>2. /\ o \in Ops /\ o.job = j /\ o.on = doing.on /\ o.isBroken = FALSE /\ o.pc = "create"
        /\ doing' = o /\ host' = host
    BY <1>1, <1>5, <2>1 DEF Commit!CloseJournal, Commit!Op, Ops, Steps
  <2>3. uploads[j] = "awaiting"
    BY <1>1, <1>5 DEF ForWhom
  <2>4. StepOK("create", uploads[j], Commit!NoJournal, waits[j], audio[j], failures)
    BY <2>3, ClosedJournal DEF StepOK, Moves, Completes, Cancels
  <2>5. doing.on # "startup" /\ failures <= failures'
    BY <1>1, <1>4, <1>5
  <2> QED BY <1>4, <2>2, <2>4, <2>5, GoesOnKeeps
<1>6. CASE ~(doing.on = "request" /\ doing.isRecovery)
  <2>1. Commit!End(FALSE)
    BY <1>6 DEF Commit!CloseJournal
  <2>2. failures <= failures' /\ ~Opened(commits'[j])
    BY <1>1, <1>4, ClosedJournal
  <2> QED BY <1>4, <2>1, <2>2, EndKeeps
<1> QED BY <1>5, <1>6

\* The Track, hidden, is in the database.
LEMMA PersistedStep ==
  ASSUME IInv, doing # Commit!NoOp, doing.pc = "persist", Commit!Persisted(doing.job),
         kills' = kills, failures' \in 0..MaxFailures, failures <= failures'
  PROVE  /\ DataTypes' /\ Frame(doing.job) /\ Stored(commits'[doing.job])
         /\ Opened(commits'[doing.job])
         /\ JobOK(uploads'[doing.job], commits'[doing.job], tracks'[doing.job], audio'[doing.job],
                  failures')
         /\ uploads'[doing.job] = uploads[doing.job] /\ audio'[doing.job] = audio[doing.job]
<1> DEFINE j == doing.job
<1>1. /\ j \in Imports /\ StepOK("persist", uploads[j], commits[j], waits[j], audio[j], failures)
      /\ DataTypes /\ failures \in Nat /\ commits[j] \in Commit!Journals
      /\ tracks[j] \in [pending : Int, visible : Int]
      /\ JobOK(uploads[j], commits[j], tracks[j], audio[j], failures)
  BY OpIs DEF IInv, Types
<1>2. Opened(commits[j]) /\ ~Stored(commits[j]) /\ audio[j] = "good" /\ uploads[j] # "committed"
  BY <1>1 DEF StepOK, Moves
<1>3. PICK new : new = [commits[j] EXCEPT !.phase = "database_committed"]
  OBVIOUS
<1>4. commits' = [commits EXCEPT ![j] = new]
  BY <1>1, <1>3 DEF Commit!Persisted, Commit!SetPhase, DataTypes
<1>5. new \in Commit!Journals /\ Opened(new) /\ Stored(new)
  BY <1>1, <1>2, <1>3, PhaseField DEF Phases, Stored
<1>6. PICK t : t = [tracks[j] EXCEPT !.pending = @ + 1]
  OBVIOUS
<1>7. tracks' = [tracks EXCEPT ![j] = t]
  BY <1>1, <1>6 DEF Commit!Persisted, DataTypes
<1>8. tracks[j].pending = 0
  BY <1>1, <1>2 DEF JobOK
<1>9. /\ t \in [pending : Int, visible : Int] /\ t.pending = 1 /\ t.visible = tracks[j].visible
  BY <1>1, <1>6, <1>8
<1>10. Commit!Dir(j) \in 1..MaxDirs
  BY <1>1, <1>2 DEF Commit!Dir, Commit!Journals, Opened
<1>11. album' \in 0..MaxDirs /\ cover' \in Imports \cup {Commit!NoJob}
  <2>1. 1..MaxDirs \subseteq 0..MaxDirs
    BY CommitConstants
  <2>2. album' \in 0..MaxDirs
    BY <1>10, <2>1 DEF Commit!Persisted
  <2>3. cover' \in Imports \cup {Commit!NoJob}
    BY <1>1 DEF Commit!Persisted, DataTypes
  <2> QED BY <2>2, <2>3
<1>12. UNCHANGED <<uploads, waits, audio, art, dirs>>
  BY DEF Commit!Persisted, Commit!files
<1>13. commits' \in [Imports -> Commit!Journals] /\ tracks' \in [Imports -> [pending : Int,
visible : Int]]
  BY <1>1, <1>4, <1>5, <1>7, <1>9 DEF DataTypes
<1>14. DataTypes'
  BY <1>1, <1>11, <1>12, <1>13 DEF DataTypes
<1>15. /\ commits'[j] = new /\ tracks'[j] = t
       /\ \A k \in Imports : k # j => commits'[k] = commits[k] /\ tracks'[k] = tracks[k]
  BY <1>1, <1>4, <1>7 DEF DataTypes
<1>16. Frame(j)
  BY <1>12, <1>15 DEF Frame
<1>17. JobOK(uploads[j], new, t, audio[j], failures')
  BY <1>1, <1>2, <1>5, <1>9 DEF JobOK
<1> QED BY <1>5, <1>12, <1>14, <1>15, <1>16, <1>17

LEMMA PersistIInv ==
  ASSUME IInv, doing # Commit!NoOp, Commit!Persist(doing.job) \/ Commit!PersistUnanswered(doing.job)
  PROVE  IInv'
<1> DEFINE j == doing.job
<1>1. /\ j \in Imports /\ StepOK("persist", uploads[j], commits[j], waits[j], audio[j], failures)
      /\ doing.pc = "persist" /\ DataTypes /\ failures \in Nat /\ Commit!Persisted(j)
      /\ doing \in Ops
  BY OpIs DEF IInv, Types, Commit!Persist, Commit!PersistUnanswered, Commit!At
<1>2. CASE Commit!Persist(j)
  <2>1. Commit!GoesOn("clean") /\ kills' = kills /\ failures' = failures
         /\ failures' \in 0..MaxFailures
        /\ failures <= failures'
    BY <1>1, <1>2 DEF Commit!Persist, Commit!Unfailing, DataTypes
  <2>2. /\ DataTypes' /\ Frame(j) /\ Stored(commits'[j]) /\ Opened(commits'[j])
        /\ JobOK(uploads'[j], commits'[j], tracks'[j], audio'[j], failures')
        /\ uploads'[j] = uploads[j] /\ audio'[j] = audio[j]
    BY <1>1, <2>1, PersistedStep
  <2>3. uploads[j] # "committed" /\ audio[j] = "good"
    BY <1>1 DEF StepOK
  <2>4. StepOK("clean", uploads'[j], commits'[j], waits'[j], audio'[j], failures')
    BY <2>2, <2>3 DEF StepOK, Moves, Completes, Cancels
  <2>5. MayFollow("persist", "clean")
    BY DEF MayFollow, Steps, RecoverySteps, Moves, Completes, Cancels
  <2> QED BY <1>1, <2>1, <2>2, <2>4, <2>5, GoesOnStep DEF MayFollow
<1>3. CASE Commit!PersistUnanswered(j)
  <2>1. Commit!End(TRUE) /\ kills' = kills /\ failures' = failures + 1 /\ failures < MaxFailures
    BY <1>3 DEF Commit!PersistUnanswered, Commit!Fault
  <2>2. failures' \in 0..MaxFailures /\ failures <= failures'
    BY <1>1, <2>1, CommitConstants
  <2>3. /\ DataTypes' /\ Frame(j) /\ JobOK(uploads'[j], commits'[j], tracks'[j], audio'[j],
                                           failures')
    BY <1>1, <2>1, <2>2, PersistedStep
  <2>4. failures' # failures
    BY <1>1, <2>1
  <2> QED BY <2>1, <2>2, <2>3, <2>4, EndKeeps
<1> QED BY <1>2, <1>3

LEMMA UnpersistIInv ==
  ASSUME IInv, doing # Commit!NoOp, Commit!Unpersist(doing.job)
  PROVE  IInv'
<1> DEFINE j == doing.job
<1>1. /\ j \in Imports /\ StepOK("unpersist", uploads[j], commits[j], waits[j], audio[j], failures)
      /\ doing.pc = "unpersist" /\ DataTypes /\ failures \in Nat /\ commits[j] \in Commit!Journals
      /\ tracks[j] \in [pending : Int, visible : Int]
      /\ JobOK(uploads[j], commits[j], tracks[j], audio[j], failures)
  BY OpIs DEF IInv, Types, Commit!Unpersist, Commit!At
<1>2. Opened(commits[j]) /\ Stored(commits[j]) /\ audio[j] # "absent" /\ uploads[j] # "committed"
  BY <1>1 DEF StepOK, Completes, JobOK
<1>3. PICK new : new = [commits[j] EXCEPT !.phase = "verified"]
  OBVIOUS
<1>4. commits' = [commits EXCEPT ![j] = new]
  BY <1>1, <1>3 DEF Commit!Unpersist, Commit!SetPhase, DataTypes
<1>5. new \in Commit!Journals /\ Opened(new) /\ ~Stored(new)
  BY <1>1, <1>2, <1>3, PhaseField DEF Phases, Stored
<1>6. PICK t : t = [tracks[j] EXCEPT !.pending = 0]
  OBVIOUS
<1>7. tracks' = [tracks EXCEPT ![j] = t]
  BY <1>1, <1>6 DEF Commit!Unpersist, DataTypes
<1>8. t \in [pending : Int, visible : Int] /\ t.pending = 0 /\ t.visible = tracks[j].visible
  BY <1>1, <1>6
<1>9. UNCHANGED <<uploads, album, waits, audio, art, dirs, kills,
failures>> /\ Commit!GoesOn("undo")
  BY DEF Commit!Unpersist, Commit!Unfailing, Commit!files
<1>10. cover' \in Imports \cup {Commit!NoJob}
  BY <1>1 DEF Commit!Unpersist, DataTypes
<1>11. commits' \in [Imports -> Commit!Journals] /\ tracks' \in [Imports -> [pending : Int,
visible : Int]]
  BY <1>1, <1>4, <1>5, <1>7, <1>8 DEF DataTypes
<1>12. DataTypes'
  BY <1>1, <1>9, <1>10, <1>11 DEF DataTypes
<1>13. /\ commits'[j] = new /\ tracks'[j] = t
       /\ \A k \in Imports : k # j => commits'[k] = commits[k] /\ tracks'[k] = tracks[k]
  BY <1>1, <1>4, <1>7 DEF DataTypes
<1>14. Frame(j)
  BY <1>9, <1>13 DEF Frame
<1>15. JobOK(uploads[j], new, t, audio[j], failures)
  BY <1>1, <1>2, <1>5, <1>8 DEF JobOK
<1>16. StepOK("undo", uploads[j], new, waits[j], audio[j], failures)
  BY <1>2, <1>5 DEF StepOK, Moves, Completes, Cancels
<1>17. MayFollow("unpersist", "undo")
  BY DEF MayFollow, Steps, RecoverySteps, Moves, Completes, Cancels
<1> QED BY <1>1, <1>9, <1>12, <1>13, <1>14, <1>15, <1>16, <1>17, GoesOnStep DEF MayFollow

LEMMA FinalizeIInv ==
  ASSUME IInv, doing # Commit!NoOp, Commit!Finalize(doing.job)
  PROVE  IInv'
<1> DEFINE j == doing.job
<1>1. /\ j \in Imports /\ StepOK("finalize", uploads[j], commits[j], waits[j], audio[j], failures)
      /\ doing.pc = "finalize" /\ DataTypes /\ failures \in Nat /\ uploads[j] \in JobStates
      /\ tracks[j] \in [pending : Int, visible : Int]
      /\ JobOK(uploads[j], commits[j], tracks[j], audio[j], failures)
  BY OpIs DEF IInv, Types, Commit!Finalize, Commit!At
<1>2. /\ Stored(commits[j]) /\ audio[j] = "good" /\ uploads[j] # "committed"
      /\ tracks[j].pending = 1 /\ tracks[j].visible = 0 /\ tracks[j].pending > 0
  BY <1>1 DEF StepOK, Completes, JobOK
<1>3. UNCHANGED <<album, cover, waits, audio, art, dirs, kills, failures>> /\ failures <= failures'
  BY <1>1 DEF Commit!Finalize, Commit!Unfailing, Commit!files
<1>4. CASE uploads[j] = "awaiting"
  <2>1. /\ tracks' = [tracks EXCEPT ![j] = [pending |-> @.pending - 1, visible |-> @.visible + 1]]
        /\ uploads' = [uploads EXCEPT ![j] = "committed"]
        /\ commits' = [commits EXCEPT ![j] = Commit!NoJournal]
        /\ Commit!End(FALSE)
    BY <1>2, <1>4 DEF Commit!Finalize, Commit!Close
  <2>2. PICK t : t = [pending |-> tracks[j].pending - 1, visible |-> tracks[j].visible + 1]
    OBVIOUS
  <2>3. tracks' = [tracks EXCEPT ![j] = t]
    BY <1>1, <2>1, <2>2 DEF DataTypes
  <2>4. t \in [pending : Int, visible : Int] /\ t.pending = 0 /\ t.visible = 1
    BY <1>2, <2>2
  <2>5. DataTypes'
    <3>1. uploads' \in [Imports -> JobStates]
      BY <1>1, <2>1 DEF DataTypes, JobStates
    <3>2. commits' \in [Imports -> Commit!Journals]
      BY <1>1, <2>1, ClosedJournal DEF DataTypes
    <3>3. tracks' \in [Imports -> [pending : Int, visible : Int]]
      BY <1>1, <2>3, <2>4 DEF DataTypes
    <3> QED BY <1>1, <1>3, <3>1, <3>2, <3>3 DEF DataTypes
  <2>6. /\ commits'[j] = Commit!NoJournal /\ tracks'[j] = t /\ uploads'[j] = "committed"
        /\ \A k \in Imports : k # j => /\ commits'[k] = commits[k] /\ tracks'[k] = tracks[k]
                                       /\ uploads'[k] = uploads[k]
    BY <1>1, <2>1, <2>3 DEF DataTypes
  <2>7. Frame(j)
    BY <1>3, <2>6 DEF Frame
  <2>8. JobOK("committed", Commit!NoJournal, t, "good", failures)
    BY <2>4, ClosedJournal DEF JobOK
  <2>9. JobOK(uploads'[j], commits'[j], tracks'[j], audio'[j], failures') /\ ~Opened(commits'[j])
    BY <1>2, <1>3, <2>6, <2>8, ClosedJournal
  <2> QED BY <1>3, <2>1, <2>5, <2>7, <2>9, EndKeeps
<1>5. CASE uploads[j] # "awaiting"
  <2>1. Commit!End(TRUE) /\ UNCHANGED <<tracks, uploads, commits>>
    BY <1>5 DEF Commit!Finalize
  <2>2. DataTypes' /\ Frame(j) /\ JobOK(uploads'[j], commits'[j], tracks'[j], audio'[j], failures')
    BY <1>1, <1>3, <2>1 DEF DataTypes, Frame
  <2>3. uploads'[j] = "gone" /\ Stored(commits'[j])
    BY <1>1, <1>2, <1>5, <2>1 DEF JobStates
  <2> QED BY <1>3, <2>1, <2>2, <2>3, EndKeeps
<1> QED BY <1>4, <1>5

LEMMA DeleteJobIInv ==
  ASSUME IInv, doing # Commit!NoOp, Commit!DeleteJob(doing.job)
  PROVE  IInv'
<1> DEFINE j == doing.job
<1>1. /\ j \in Imports /\ StepOK("delete", uploads[j], commits[j], waits[j], audio[j], failures)
      /\ doing.pc = "delete" /\ DataTypes /\ failures \in Nat
      /\ JobOK(uploads[j], commits[j], tracks[j], audio[j], failures)
  BY OpIs DEF IInv, Types, Commit!DeleteJob, Commit!At
<1>2. /\ UNCHANGED <<commits, tracks, album, cover, waits, audio, art, dirs, kills, failures>>
      /\ failures <= failures'
  BY <1>1 DEF Commit!DeleteJob, Commit!Unfailing, Commit!files
<1>3. /\ uploads' \in [Imports -> JobStates] /\ uploads'[j] = "gone"
      /\ \A k \in Imports : k # j => uploads'[k] = uploads[k]
  BY <1>1 DEF Commit!DeleteJob, DataTypes, JobStates
<1>4. DataTypes' /\ Frame(j)
  BY <1>1, <1>2, <1>3 DEF DataTypes, Frame
<1>5. JobOK("gone", commits[j], tracks[j], audio[j], failures)
  BY <1>1 DEF JobOK, StepOK
<1>6. doing.pc \notin RecoverySteps
  BY <1>1 DEF RecoverySteps, Completes
<1>7. Commit!End(FALSE)
  BY DEF Commit!DeleteJob
<1> QED BY <1>2, <1>3, <1>4, <1>5, <1>6, <1>7, EndKeeps

\* A step fails: one more fault, and nothing done.
LEMMA FaultStep ==
  ASSUME IInv, doing # Commit!NoOp, Commit!Fault,
         UNCHANGED <<uploads, commits, tracks, album, cover, Commit!files, dirs, kills>>
  PROVE  /\ DataTypes' /\ Frame(doing.job) /\ failures <= failures' /\ failures' = failures + 1
         /\ failures \in Nat /\ failures' \in Nat
         /\ JobOK(uploads'[doing.job], commits'[doing.job], tracks'[doing.job], audio'[doing.job],
                  failures')
<1>1. /\ doing.job \in Imports /\ failures \in Nat /\ failures \in 0..MaxFailures /\ DataTypes
      /\ JobOK(uploads[doing.job], commits[doing.job], tracks[doing.job], audio[doing.job],
               failures)
  BY OpIs DEF IInv, Types, DataTypes
<1>2. failures' = failures + 1 /\ failures' \in 0..MaxFailures /\ failures' \in Nat
       /\ failures <= failures'
  BY <1>1, CommitConstants DEF Commit!Fault
<1>3. DataTypes' /\ Frame(doing.job)
  BY <1>1, <1>2 DEF DataTypes, Frame, Commit!files
<1>4. JobOK(uploads[doing.job], commits[doing.job], tracks[doing.job], audio[doing.job], failures')
  BY <1>1, <1>2, JobLater
<1> QED BY <1>1, <1>2, <1>3, <1>4 DEF Commit!files

LEMMA OpFailsIInv ==
  ASSUME IInv, doing # Commit!NoOp, Commit!OpFails
  PROVE  IInv'
<1>1. /\ DataTypes' /\ Frame(doing.job) /\ failures <= failures' /\ failures' = failures + 1
      /\ failures \in Nat /\ failures' \in Nat
      /\ JobOK(uploads'[doing.job], commits'[doing.job], tracks'[doing.job], audio'[doing.job],
               failures')
  BY FaultStep DEF Commit!OpFails
<1>2. Commit!End(TRUE)
  BY DEF Commit!OpFails
<1>3. failures' # failures
  BY <1>1
<1> QED BY <1>1, <1>2, <1>3, EndKeeps

LEMMA FaultToIInv ==
  ASSUME IInv, doing # Commit!NoOp, NEW from, NEW to \in Steps, Commit!FaultTo(from, to),
         from \in RecoverySteps => to \in RecoverySteps, from \notin Cancels,
         StepOK(to, uploads[doing.job], commits[doing.job], waits[doing.job], audio[doing.job],
                failures + 1)
  PROVE  IInv'
<1> DEFINE j == doing.job
<1>1. /\ DataTypes' /\ Frame(j) /\ failures <= failures' /\ failures' = failures + 1
      /\ failures \in Nat /\ failures' \in Nat
      /\ JobOK(uploads'[j], commits'[j], tracks'[j], audio'[j], failures')
  BY FaultStep DEF Commit!FaultTo
<1>2. doing \in Ops /\ doing.pc = from
  BY OpIs DEF Commit!FaultTo, Commit!At
<1>3. PICK b \in BOOLEAN : b = (from = "undo")
  OBVIOUS
<1>4. PICK o : o = [doing EXCEPT !.pc = to, !.isBroken = b]
  OBVIOUS
<1>5. doing' = o /\ host' = host
  BY <1>3, <1>4 DEF Commit!FaultTo
<1>6. o \in Ops /\ o.job = j /\ o.on = doing.on /\ o.pc = to
  BY <1>2, <1>4 DEF Ops
<1>7. StepOK(to, uploads'[j], commits'[j], waits'[j], audio'[j],
             failures') /\ uploads'[j] = uploads[j]
  BY <1>1 DEF Commit!FaultTo, Commit!files
<1>8. failures < failures'
  BY <1>1
<1> QED BY <1>1, <1>2, <1>5, <1>6, <1>7, <1>8, GoesOnKeeps

LEMMA StepFailsIInv ==
  ASSUME IInv, doing # Commit!NoOp, Commit!StepFails
  PROVE  IInv'
<1> DEFINE j == doing.job
<1>1. /\ j \in Imports /\ StepOK(doing.pc, uploads[j], commits[j], waits[j], audio[j], failures)
      /\ failures \in Nat /\ JobOK(uploads[j], commits[j], tracks[j], audio[j], failures)
  BY OpIs
<1>2. PICK from \in Steps, to \in Steps :
        /\ Commit!FaultTo(from, to)
        /\ <<from, to>> \in
             {<<"place", "close">>, <<"cover", "unplace">>, <<"mark", "drop">>,
              <<"write", "drop">>, <<"drop", "unplace">>, <<"unplace", "close">>,
              <<"verify", "undo">>, <<"persist", "undo">>, <<"undo", "restore">>,
              <<"recover", "unpersist">>}
        /\ from = "recover" => Stored(commits[j])
  BY DEF Commit!StepFails, Steps, Moves, Completes, Commit!HasDatabase, Stored
<1>3. doing.pc = from
  BY <1>2 DEF Commit!FaultTo, Commit!At
<1>4. /\ from \in RecoverySteps => to \in RecoverySteps
      /\ from \notin Cancels
  BY <1>2 DEF RecoverySteps, Completes, Cancels
<1>5. StepOK(to, uploads[j], commits[j], waits[j], audio[j], failures + 1)
  <2>1. CASE from \in {"place", "unplace"}
    BY <1>1, <1>2, <1>3, <2>1 DEF StepOK, Moves, Completes, Cancels
  <2>2. CASE from \in {"cover", "mark", "write", "drop"}
    BY <1>1, <1>2, <1>3, <2>2 DEF StepOK, Moves, Completes, Cancels
  <2>3. CASE from \in {"verify", "persist", "undo", "recover"}
    BY <1>1, <1>2, <1>3, <2>3 DEF StepOK, Moves, Completes, Cancels
  <2> QED BY <1>2, <2>1, <2>2, <2>3
<1> QED BY <1>2, <1>4, <1>5, FaultToIInv

----------------------------------------------------------------------------
(* Steps between operations *)

AllJobsOK == \A j \in Imports : JobOK(uploads[j], commits[j], tracks[j], audio[j], failures)

\* No row and no file changes.
LEMMA SameData ==
  ASSUME IInv, UNCHANGED <<uploads, commits, tracks, album, cover, dirs, kills, failures>>,
         UNCHANGED Commit!files
  PROVE  /\ DataTypes' /\ AllJobsOK' /\ failures \in Nat /\ failures' = failures
         /\ UNCHANGED <<uploads, commits, waits, audio>>
<1>1. DataTypes /\ AllJobsOK
  BY DEF IInv, Types, AllJobsOK
<1>2. DataTypes' /\ failures \in Nat
  BY <1>1 DEF DataTypes, Commit!files
<1>3. AllJobsOK'
  BY <1>1 DEF AllJobsOK, Commit!files
<1> QED BY <1>2, <1>3 DEF Commit!files

LEMMA RequestIInv ==
  ASSUME IInv, NEW j \in Imports, Commit!Confirm(j) \/ Commit!Cancel(j)
  PROVE  IInv'
<1>1. /\ DataTypes' /\ AllJobsOK' /\ failures \in Nat /\ failures' = failures
      /\ UNCHANGED <<uploads, commits, waits, audio>>
  BY SameData DEF Commit!Confirm, Commit!Cancel, Commit!FilesOnly, Commit!Unfailing
<1>2. /\ host.state = "up" /\ doing = Commit!NoOp /\ uploads[j] = "awaiting" /\ host' = host
      /\ host \in Servers /\ host.before <= failures
  BY DEF Commit!Confirm, Commit!Cancel, Commit!IsUp, Commit!IsIdle, IInv, Types, ServerOK
<1>3. PICK pc \in {"recover", "create", "unstage"}, r \in BOOLEAN :
        /\ doing' = Commit!Op("request", j, r, pc)
        /\ pc = "recover" => Opened(commits[j])
        /\ pc = "create" => ~Opened(commits[j])
  BY DEF Commit!Confirm, Commit!Cancel, Commit!IsOpen, Opened
<1>4. PICK o : o = Commit!Op("request", j, r, pc)
  OBVIOUS
<1>5. pc \in Steps
  BY DEF Steps, Cancels
<1>6. o \in Ops /\ o # Commit!NoOp /\ o.on = "request" /\ o.job = j /\ o.pc = pc
       /\ o.isBroken = FALSE
  BY <1>4, <1>5 DEF Commit!Op, Ops, Commit!NoOp
<1>7. doing' = o
  BY <1>3, <1>4
<1>8. StepOK(pc, uploads[j], commits[j], waits[j], audio[j], failures)
  BY <1>2, <1>3 DEF StepOK, Moves, Completes, Cancels
<1>9. ForWhom(o, host, uploads[j], failures)
  BY <1>2, <1>6 DEF ForWhom
<1>10. OpOK'
  BY <1>1, <1>2, <1>6, <1>7, <1>8, <1>9 DEF OpOK
<1>11. ServerOK'
  BY <1>1, <1>2 DEF ServerOK
<1>12. Types'
  BY <1>1, <1>2, <1>6, <1>7 DEF Types
<1> QED BY <1>1, <1>10, <1>11, <1>12 DEF IInv, AllJobsOK

LEMMA StartupNextIInv ==
  ASSUME IInv, NEW j \in Imports, Commit!RecoverNext(j) \/ Commit!CancelNext(j)
  PROVE  IInv'
<1>1. /\ DataTypes' /\ AllJobsOK' /\ failures \in Nat /\ failures' = failures
      /\ UNCHANGED <<uploads, commits, waits, audio>>
  BY SameData DEF Commit!RecoverNext, Commit!CancelNext, Commit!OnlyServer
<1>2. /\ doing = Commit!NoOp /\ j \in host.todo /\ host' = [host EXCEPT !.todo = @ \ {j}]
      /\ host \in Servers /\ host.before <= failures
  BY DEF Commit!RecoverNext, Commit!CancelNext, Commit!IsIdle, IInv, Types, ServerOK
<1>3. PICK pc \in {"recover", "unstage"}, r \in BOOLEAN :
        /\ doing' = Commit!Op("startup", j, r, pc)
        /\ pc = "recover" => host.state = "recovering"
        /\ pc = "unstage" => host.state = "cancelling"
  BY DEF Commit!RecoverNext, Commit!CancelNext
<1>4. PICK o : o = Commit!Op("startup", j, r, pc)
  OBVIOUS
<1>5. pc \in Steps
  BY DEF Steps, Cancels
<1>6. o \in Ops /\ o # Commit!NoOp /\ o.on = "startup" /\ o.job = j /\ o.pc = pc
       /\ o.isBroken = FALSE
  BY <1>4, <1>5 DEF Commit!Op, Ops, Commit!NoOp
<1>7. doing' = o
  BY <1>3, <1>4
<1>8. /\ host' \in Servers /\ host'.state = host.state /\ host'.before = host.before
      /\ host'.todo = host.todo \ {j}
  <2>1. PICK rest \in SUBSET Imports : rest = host.todo \ {j}
    BY <1>2 DEF Servers
  <2>2. host' = [host EXCEPT !.todo = rest]
    BY <1>2, <2>1 DEF Servers
  <2> QED BY <1>2, <2>1, <2>2 DEF Servers
<1>9. /\ pc = "recover" => Opened(commits[j]) /\ uploads[j] # "committed"
      /\ pc = "unstage" => uploads[j] = "awaiting"
  <2>1. JobOK(uploads[j], commits[j], tracks[j], audio[j], failures)
    BY DEF IInv
  <2>2. pc = "recover" => Opened(commits[j])
    BY <1>2, <1>3 DEF IInv, ServerOK
  <2>3. pc = "unstage" => uploads[j] = "awaiting"
    BY <1>2, <1>3 DEF IInv, ServerOK
  <2> QED BY <2>1, <2>2, <2>3 DEF JobOK
<1>10. StepOK(pc, uploads[j], commits[j], waits[j], audio[j], failures)
  BY <1>9 DEF StepOK, Moves, Completes, Cancels
<1>11. ForWhom(o, host', uploads[j], failures)
  BY <1>3, <1>6, <1>8 DEF ForWhom, RecoverySteps, Cancels
<1>12. OpOK'
  BY <1>1, <1>6, <1>7, <1>10, <1>11 DEF OpOK
<1>13. ServerOK'
  <2>1. host'.before <= failures' /\ host'.state # "down"
    BY <1>1, <1>2, <1>3, <1>8
  <2>2. /\ host'.state = "recovering" => \A k \in host'.todo : Opened(commits'[k])
        /\ host'.state = "cancelling" => \A k \in host'.todo : uploads'[k] = "awaiting"
    BY <1>1, <1>8 DEF IInv, ServerOK
  <2>3. ASSUME host'.state = "recovering", failures' = host'.before, NEW k \in Imports,
               Opened(commits'[k])
        PROVE  IsSettling(k)'
    <3>1. IsSettling(k)
      BY <1>1, <1>8, <2>3 DEF IInv, ServerOK
    <3>2. CASE k = j
      BY <1>6, <1>7, <3>2 DEF IsSettling
    <3>3. CASE k # j
      BY <1>1, <1>2, <1>8, <3>1, <3>3 DEF IsSettling
    <3> QED BY <3>2, <3>3
  <2> QED BY <2>1, <2>2, <2>3 DEF ServerOK
<1>14. Types'
  BY <1>1, <1>6, <1>7, <1>8 DEF Types
<1> QED BY <1>1, <1>12, <1>13, <1>14 DEF IInv, AllJobsOK

LEMMA CrashIInv ==
  ASSUME IInv, Commit!Crash
  PROVE  IInv'
<1>1. DataTypes /\ AllJobsOK
  BY DEF IInv, Types, AllJobsOK
<1>2. /\ UNCHANGED <<uploads, commits, tracks, album, cover, waits, art, dirs, failures>>
      /\ doing' = Commit!NoOp /\ host' = Commit!Server("down", {}, FALSE, 0)
  BY DEF Commit!Crash
<1>3. kills' \in 0..MaxKills
  BY <1>1, CommitConstants DEF Commit!Crash, DataTypes
<1>4. PICK torn \in SUBSET {j \in Imports : Commit!IsOpen(j) /\ audio[j] # "absent"} :
        audio' = [j \in Imports |-> IF j \in torn THEN "bad" ELSE audio[j]]
  BY DEF Commit!Crash
<1>5. audio' \in [Imports -> Commit!FileStates]
  BY <1>1, <1>4 DEF DataTypes, Commit!FileStates
<1>6. DataTypes' /\ failures \in Nat
  BY <1>1, <1>2, <1>3, <1>5 DEF DataTypes
<1>7. AllJobsOK'
  <2> SUFFICES ASSUME NEW j \in Imports
               PROVE  JobOK(uploads[j], commits[j], tracks[j], audio'[j], failures)
    BY <1>2 DEF AllJobsOK
  <2>1. JobOK(uploads[j], commits[j], tracks[j], audio[j], failures)
    BY <1>1 DEF AllJobsOK
  <2>2. CASE j \in torn
    <3>1. Opened(commits[j]) /\ audio[j] # "absent" /\ audio'[j] = "bad"
      BY <1>4, <2>2 DEF Commit!IsOpen, Opened
    <3> QED BY <2>1, <3>1 DEF JobOK
  <2>3. CASE j \notin torn
    BY <1>4, <2>1, <2>3
  <2> QED BY <2>2, <2>3
<1>8. host' \in Servers /\ host'.state = "down" /\ host'.todo = {} /\ host'.before = 0
  BY <1>2 DEF Commit!Server, Servers
<1>9. ServerOK'
  <2>1. 0 <= failures
    BY <1>6
  <2>2. failures' = failures
    BY <1>2
  <2> QED BY <1>2, <1>8, <2>1, <2>2 DEF ServerOK
<1>10. OpOK' /\ Types'
  BY <1>2, <1>6, <1>8 DEF OpOK, Types
<1> QED BY <1>7, <1>9, <1>10 DEF IInv, AllJobsOK

LEMMA RestartIInv ==
  ASSUME IInv, Commit!Restart
  PROVE  IInv'
<1>1. /\ DataTypes' /\ AllJobsOK' /\ failures \in Nat /\ failures' = failures
      /\ UNCHANGED <<uploads, commits, waits, audio>>
  BY SameData DEF Commit!Restart, Commit!OnlyServer
<1>2. doing' = Commit!NoOp
  BY DEF Commit!Restart, IInv, ServerOK
<1>3. PICK todo \in SUBSET Imports : todo = {j \in Imports : Commit!IsOpen(j)}
  OBVIOUS
<1>4. host' = Commit!Server("recovering", todo, FALSE, failures)
  BY <1>3 DEF Commit!Restart
<1>5. /\ host' \in Servers /\ host'.state = "recovering" /\ host'.todo = todo
      /\ host'.before = failures
  BY <1>1, <1>4 DEF Commit!Server, Servers
<1>6. \A j \in Imports : j \in todo <=> Opened(commits'[j])
  BY <1>1, <1>3 DEF Commit!IsOpen, Opened
<1>7. ServerOK'
  BY <1>1, <1>5, <1>6 DEF ServerOK, IsSettling
<1>8. OpOK' /\ Types'
  BY <1>1, <1>2, <1>5 DEF OpOK, Types
<1> QED BY <1>1, <1>7, <1>8 DEF IInv, AllJobsOK

LEMMA ListenIInv ==
  ASSUME IInv, Commit!SweepStaging \/ Commit!Listen
  PROVE  IInv'
<1>1. DataTypes /\ AllJobsOK /\ failures \in Nat
  BY DEF IInv, Types, AllJobsOK, DataTypes
<1>2. /\ UNCHANGED <<uploads, commits, tracks, album, cover, dirs, kills, failures, audio, art>>
      /\ doing' = Commit!NoOp
  BY DEF Commit!SweepStaging, Commit!Listen, Commit!OnlyServer, Commit!files, Commit!IsIdle,
         Commit!IsRecovered
<1>3. waits' \in [Imports -> Commit!FileStates]
  BY <1>1 DEF Commit!SweepStaging, Commit!Listen, Commit!files, DataTypes, Commit!FileStates
<1>4. DataTypes' /\ AllJobsOK'
  BY <1>1, <1>2, <1>3 DEF DataTypes, AllJobsOK
<1>5. /\ host' \in Servers
      /\ \/ host'.state = "up" /\ host'.before = 0
         \/ /\ host'.state = "cancelling" /\ host'.before = host.before
            /\ host'.todo = {j \in Imports : uploads[j] = "awaiting"}
  <2>1. CASE host' = Commit!Server("up", {}, FALSE, 0)
    BY <2>1 DEF Commit!Server, Servers
  <2>2. CASE Commit!SweepStaging /\ ~host.isFailed
    <3>1. PICK todo \in SUBSET Imports : todo = {j \in Imports : uploads[j] = "awaiting"}
      OBVIOUS
    <3>2. host' = [host EXCEPT !.state = "cancelling", !.todo = todo] /\ host \in Servers
      BY <2>2, <3>1 DEF Commit!SweepStaging, IInv, Types
    <3>3. /\ host' \in Servers /\ host'.state = "cancelling" /\ host'.todo = todo
          /\ host'.before = host.before
      BY <3>2 DEF Servers
    <3> QED BY <3>1, <3>3
  <2> QED BY <2>1, <2>2 DEF Commit!SweepStaging, Commit!Listen
<1>6. host.before <= failures
  BY DEF IInv, ServerOK
<1>7. ServerOK'
  BY <1>1, <1>2, <1>5, <1>6 DEF ServerOK
<1>8. OpOK' /\ Types'
  BY <1>2, <1>4, <1>5 DEF OpOK, Types
<1> QED BY <1>4, <1>7, <1>8 DEF IInv, AllJobsOK

----------------------------------------------------------------------------
(* The invariant *)

LEMMA InitIInv == Commit!Init => IInv
<1> SUFFICES ASSUME Commit!Init PROVE IInv
  OBVIOUS
<1>1. 1..MaxDirs # {} /\ {0, 1} \subseteq 0..MaxDirs
  BY CommitConstants
<1>2. DataTypes
  <2>1. uploads \in [Imports -> JobStates] /\ commits \in [Imports -> Commit!Journals]
    BY ClosedJournal DEF Commit!Init, JobStates
  <2>2. tracks \in [Imports -> [pending : Int, visible : Int]]
    BY DEF Commit!Init
  <2>3. album \in 0..MaxDirs /\ dirs \in 0..MaxDirs
    BY <1>1 DEF Commit!Init
  <2>4. /\ waits \in [Imports -> Commit!FileStates] /\ audio \in [Imports -> Commit!FileStates]
        /\ art \in [1..MaxDirs -> {"whole", "empty", "absent"}]
    BY DEF Commit!Init, Commit!FileStates
  <2>5. cover \in Imports \cup {Commit!NoJob} /\ kills \in 0..MaxKills
         /\ failures \in 0..MaxFailures
    BY CommitConstants DEF Commit!Init
  <2> QED BY <2>1, <2>2, <2>3, <2>4, <2>5 DEF DataTypes
<1>3. host \in Servers /\ host.state = "up" /\ host.before = 0
  BY DEF Commit!Init, Commit!Server, Servers
<1>4. Types
  BY <1>2, <1>3 DEF Types, Commit!Init
<1>5. \A j \in Imports : JobOK(uploads[j], commits[j], tracks[j], audio[j], failures)
  BY ClosedJournal DEF Commit!Init, JobOK
<1>6. OpOK
  BY DEF OpOK, Commit!Init
<1>7. ServerOK
  <2>1. failures = 0
    BY DEF Commit!Init
  <2> QED BY <1>3, <2>1 DEF ServerOK
<1> QED BY <1>4, <1>5, <1>6, <1>7 DEF IInv

LEMMA OpStepIInv ==
  ASSUME IInv, Commit!OpStep
  PROVE  IInv'
<1>1. doing # Commit!NoOp
  BY DEF Commit!OpStep, Commit!IsIdle
<1>2. CASE Commit!Commits(doing.job)
  <2>1. CASE \/ Commit!CreateCover(doing.job) \/ Commit!WriteCover(doing.job)
             \/ Commit!DropCover(doing.job)
    BY <1>1, <2>1, CoverIInv
  <2>2. CASE \/ Commit!MarkCover(doing.job) \/ Commit!MarkPlaced(doing.job)
             \/ Commit!MarkVerified(doing.job) \/ Commit!MarkCleaned(doing.job)
    BY <1>1, <2>2, MarkIInv
  <2>3. CASE Commit!Persist(doing.job) \/ Commit!PersistUnanswered(doing.job)
    BY <1>1, <2>3, PersistIInv
  <2> QED
    BY <1>1, <1>2, <2>1, <2>2, <2>3, CreateJournalIInv, PlaceIInv, UnplaceIInv, CloseJournalIInv,
       LooksIInv, CleanIInv, FinalizeIInv
    DEF Commit!Commits
<1>3. CASE Commit!Recovers(doing.job)
  BY <1>1, <1>3, LooksIInv, UnpersistIInv, CoverIInv, UndoMoveIInv DEF Commit!Recovers
<1>4. CASE Commit!DropStaged(doing.job) \/ Commit!DeleteJob(doing.job) \/ Commit!StepFails
            \/ Commit!OpFails
  BY <1>1, <1>4, CleanIInv, DeleteJobIInv, StepFailsIInv, OpFailsIInv
<1> QED BY <1>2, <1>3, <1>4 DEF Commit!OpStep

LEMMA NextIInv ==
  ASSUME IInv, [Commit!Next]_(Commit!vars)
  PROVE  IInv'
<1>1. CASE \E j \in Imports : Commit!Confirm(j) \/ Commit!Cancel(j) \/ Commit!RecoverNext(j)
                               \/ Commit!CancelNext(j)
  BY <1>1, RequestIInv, StartupNextIInv
<1>2. CASE Commit!OpStep
  BY <1>2, OpStepIInv
<1>3. CASE Commit!Crash \/ Commit!Restart \/ Commit!SweepStaging \/ Commit!Listen
  BY <1>3, CrashIInv, RestartIInv, ListenIInv
<1>4. CASE UNCHANGED Commit!vars
  <2>1. UNCHANGED <<uploads, commits, tracks, album, cover, dirs, kills, failures>>
        /\ UNCHANGED Commit!files /\ UNCHANGED <<host, doing>>
    BY <1>4 DEF Commit!vars, Commit!files
  <2>2. /\ DataTypes' /\ AllJobsOK' /\ failures' = failures
        /\ UNCHANGED <<uploads, commits, waits, audio>>
    BY <2>1, SameData
  <2>3. OpOK' /\ ServerOK'
    BY <2>1, <2>2 DEF IInv, OpOK, ServerOK, IsSettling
  <2> QED BY <2>1, <2>2, <2>3 DEF IInv, Types, AllJobsOK
<1> QED BY <1>1, <1>2, <1>3, <1>4 DEF Commit!Next

LEMMA SpecIInv == Commit!Spec => []IInv
<1>1. IInv /\ [Commit!Next]_(Commit!vars) => IInv'
  BY NextIInv
<1> QED BY <1>1, InitIInv, PTL DEF Commit!Spec

----------------------------------------------------------------------------
(* What it means *)

LEMMA JobsOfIInv ==
  ASSUME IInv, NEW j \in Imports
  PROVE  /\ JobOK(uploads[j], commits[j], tracks[j], audio[j], failures)
         /\ uploads[j] \in JobStates /\ commits[j] \in Commit!Journals
         /\ tracks[j] \in [pending : Int, visible : Int]
BY DEF IInv, Types, DataTypes

LEMMA TypesMean == IInv => Commit!TypeOK
<1> SUFFICES ASSUME IInv PROVE Commit!TypeOK
  OBVIOUS
<1>1. DataTypes
  BY DEF IInv, Types
<1>2. tracks \in [Imports -> [pending : 0..1, visible : 0..1]]
  <2>1. ASSUME NEW j \in Imports PROVE tracks[j] \in [pending : 0..1, visible : 0..1]
    BY <2>1, JobsOfIInv DEF JobOK
  <2> QED BY <1>1, <2>1 DEF DataTypes
<1> QED BY <1>1, <1>2 DEF Commit!TypeOK, DataTypes, JobStates

LEMMA WholeMeans == IInv => Commit!PublishedIsWhole
<1> SUFFICES ASSUME IInv, NEW j \in Imports, tracks[j].visible > 0 PROVE audio[j] = "good"
  BY DEF Commit!PublishedIsWhole
<1> QED BY JobsOfIInv DEF JobOK

LEMMA OnceMeans == IInv => Commit!ImportedOnce
<1> SUFFICES ASSUME IInv, NEW j \in Imports
             PROVE  /\ tracks[j].pending + tracks[j].visible <= 1
                    /\ tracks[j].visible = 1 <=> uploads[j] = "committed"
  BY DEF Commit!ImportedOnce
<1>1. JobOK(uploads[j], commits[j], tracks[j], audio[j], failures)
  BY JobsOfIInv
<1>2. uploads[j] = "committed" => ~Stored(commits[j])
  BY <1>1, ClosedJournal DEF JobOK, Opened
<1> QED BY <1>1, <1>2 DEF JobOK

LEMMA AccountedMeans == IInv => Commit!CanonicalAccountedFor
<1> SUFFICES ASSUME IInv, failures <= 1, NEW j \in Imports, audio[j] # "absent"
             PROVE  tracks[j].visible > 0 \/ Commit!IsOpen(j)
  BY DEF Commit!CanonicalAccountedFor
<1> QED BY JobsOfIInv DEF JobOK, Commit!IsOpen, Opened

LEMMA SettledMeans == IInv => Commit!RestartSettlesJobs
<1> SUFFICES ASSUME IInv, Commit!IsRecovered, failures = host.before, NEW j \in Imports,
                    Commit!IsOpen(j)
             PROVE  uploads[j] = "gone" /\ tracks[j].pending = 1
  BY DEF Commit!RestartSettlesJobs
<1>1. IsSettling(j)
  BY DEF IInv, ServerOK, Commit!IsRecovered, Commit!IsOpen, Opened
<1>2. uploads[j] = "gone" /\ Stored(commits[j])
  BY <1>1 DEF IsSettling, Commit!IsRecovered, Commit!IsIdle
<1> QED BY <1>2, JobsOfIInv DEF JobOK

----------------------------------------------------------------------------
(* The upload *)

\* Where the upload of the job is, if it is anywhere.
IsSomewhere(j) == waits[j] # "absent" \/ audio[j] # "absent"

\* A step of an operation that is not a cancellation loses no upload.
LEMMA OpStepKeepsUpload ==
  ASSUME IInv, Commit!OpStep, ~Commit!At("unstage"), NEW k \in Imports, IsSomewhere(k)
  PROVE  IsSomewhere(k)'
<1> DEFINE j == doing.job
<1>1. doing # Commit!NoOp
  BY DEF Commit!OpStep, Commit!IsIdle
<1>2. /\ j \in Imports /\ StepOK(doing.pc, uploads[j], commits[j], waits[j], audio[j], failures)
      /\ DataTypes
  BY <1>1, OpIs DEF IInv, Types
<1>3. CASE UNCHANGED <<waits, audio>>
  BY <1>3 DEF IsSomewhere
<1>4. CASE Commit!Place(j)
  <2>1. waits[j] = "good"
    BY <1>2, <1>4 DEF Commit!Place, Commit!At, StepOK
  <2>2. CASE Commit!CoverMatches(j)
    <3>1. audio' = [audio EXCEPT ![j] = waits[j]] /\ waits' = [waits EXCEPT ![j] = "absent"]
      BY <1>4, <2>2 DEF Commit!Place
    <3> QED BY <1>2, <2>1, <3>1 DEF IsSomewhere, DataTypes
  <2>3. CASE ~Commit!CoverMatches(j)
    BY <1>3, <1>4, <2>3 DEF Commit!Place
  <2> QED BY <2>2, <2>3
<1>5. CASE Commit!Restored(j) /\ audio[j] # "absent"
  BY <1>2, <1>5 DEF Commit!Restored, IsSomewhere, DataTypes
<1>6. CASE Commit!Unplace(j)
  BY <1>2, <1>5, <1>6 DEF Commit!Unplace, Commit!At, StepOK
<1>7. CASE Commit!UndoMove(j)
  BY <1>2, <1>5, <1>7 DEF Commit!UndoMove, Commit!At, StepOK
<1>8. CASE Commit!Clean(j)
  <2>1. audio[j] = "good" /\ audio' = audio /\ waits' = [waits EXCEPT ![j] = "absent"]
    BY <1>2, <1>8 DEF Commit!Clean, Commit!At, StepOK
  <2> QED BY <1>2, <2>1 DEF IsSomewhere, DataTypes
<1>9. CASE Commit!Commits(j) /\ ~Commit!Place(j) /\ ~Commit!Unplace(j) /\ ~Commit!Clean(j)
  <2>1. UNCHANGED <<waits, audio>>
    BY <1>9 DEF Commit!Commits, Commit!CreateJournal, Commit!CreateCover, Commit!MarkCover,
                Commit!WriteCover, Commit!DropCover,
                Commit!CloseJournal, Commit!MarkPlaced, Commit!Verify, Commit!MarkVerified,
                Commit!Persist, Commit!PersistUnanswered,
                Commit!Persisted, Commit!MarkCleaned, Commit!Finalize, Commit!JournalOnly,
                Commit!files
  <2> QED BY <1>3, <2>1
<1>10. CASE Commit!Recovers(j) /\ ~Commit!UndoMove(j)
  <2>1. UNCHANGED <<waits, audio>>
    BY <1>10 DEF Commit!Recovers, Commit!Recover, Commit!Unpersist, Commit!UndoCover,
                 Commit!UndoPrepared, Commit!files
  <2> QED BY <1>3, <2>1
<1>11. CASE Commit!DropStaged(j)
  BY <1>11 DEF Commit!DropStaged
<1>12. CASE Commit!DeleteJob(j) \/ Commit!StepFails \/ Commit!OpFails
  <2>1. UNCHANGED <<waits, audio>>
    BY <1>12 DEF Commit!DeleteJob, Commit!StepFails, Commit!FaultTo, Commit!OpFails, Commit!files
  <2> QED BY <1>3, <2>1
<1> QED BY <1>4, <1>6, <1>7, <1>8, <1>9, <1>10, <1>11, <1>12 DEF Commit!OpStep

LEMMA NextKeepsUpload ==
  ASSUME IInv, [Commit!Next]_(Commit!vars), NEW k \in Imports, IsSomewhere(k),
         ~Commit!At("unstage"), ~Commit!IsRecovered
  PROVE  IsSomewhere(k)'
<1>1. CASE \E j \in Imports : Commit!Confirm(j) \/ Commit!Cancel(j) \/ Commit!RecoverNext(j)
                               \/ Commit!CancelNext(j)
  BY <1>1 DEF Commit!Confirm, Commit!Cancel, Commit!RecoverNext, Commit!CancelNext, Commit!files,
              IsSomewhere
<1>2. CASE Commit!OpStep
  BY <1>2, OpStepKeepsUpload
<1>3. CASE Commit!Crash
  <2>1. PICK torn \in SUBSET {j \in Imports : Commit!IsOpen(j) /\ audio[j] # "absent"} :
          audio' = [j \in Imports |-> IF j \in torn THEN "bad" ELSE audio[j]]
    BY <1>3 DEF Commit!Crash
  <2>2. waits' = waits /\ (audio'[k] = "bad" \/ audio'[k] = audio[k])
    BY <1>3, <2>1 DEF Commit!Crash
  <2> QED BY <2>2 DEF IsSomewhere
<1>4. CASE Commit!Restart \/ Commit!Listen \/ UNCHANGED Commit!vars
  BY <1>4 DEF Commit!Restart, Commit!Listen, Commit!vars, Commit!files, IsSomewhere
<1>5. CASE Commit!SweepStaging
  BY <1>5 DEF Commit!SweepStaging
<1> QED BY <1>1, <1>2, <1>3, <1>4, <1>5 DEF Commit!Next

LEMMA UploadStep ==
  ASSUME IInv, [Commit!Next]_(Commit!vars), NEW k \in Imports,
         waits[k] # "absent" \/ audio[k] # "absent", waits'[k] = "absent", audio'[k] = "absent"
  PROVE  Commit!At("unstage") \/ Commit!IsRecovered
BY NextKeepsUpload DEF IsSomewhere

----------------------------------------------------------------------------

\* Every row and file of Managed Import stays in a state the code knows, whatever
\* crashes or fails (service.rs, commit; commit.rs).
THEOREM CommitTypeCorrect == Commit!Spec => []Commit!TypeOK
BY SpecIInv, TypesMean, PTL

\* However many crashes and failed steps there are: only whole files are shown, once
\* each; no orphan stays after one failure; a startup in which nothing fails settles
\* every journal of a job that exists; and no step but a cancellation and the startup's
\* sweep costs the upload (service.rs, commit, recover_commit, Storage::rollback).
THEOREM CommitSafe ==
  /\ Commit!Spec => [](/\ Commit!TypeOK /\ Commit!PublishedIsWhole /\ Commit!ImportedOnce
                       /\ Commit!CanonicalAccountedFor /\ Commit!RestartSettlesJobs)
  /\ Commit!Spec => [][Commit!UploadIsKept]_(Commit!vars)
  /\ Commit!Spec => CommitIsSafe
<1> DEFINE Sound == /\ Commit!TypeOK /\ Commit!PublishedIsWhole /\ Commit!ImportedOnce
                    /\ Commit!CanonicalAccountedFor /\ Commit!RestartSettlesJobs
<1>1. IInv => Sound
  BY TypesMean, WholeMeans, OnceMeans, AccountedMeans, SettledMeans
<1>2. IInv /\ [Commit!Next]_(Commit!vars) => Commit!UploadIsKept
  <2> SUFFICES ASSUME IInv, [Commit!Next]_(Commit!vars) PROVE Commit!UploadIsKept
    OBVIOUS
  <2> QED BY UploadStep DEF Commit!UploadIsKept
<1>3. Commit!Spec => []Sound
  BY <1>1, SpecIInv, PTL
<1>4. Sound => (part = "commit" => Sound)
  OBVIOUS
<1>5. Commit!Spec => [](part = "commit" => Sound)
  BY <1>3, <1>4, PTL
<1>6. Commit!Spec => [][Commit!UploadIsKept]_(Commit!vars)
  BY <1>2, SpecIInv, PTL DEF Commit!Spec
<1>7. IInv /\ [Commit!Next]_(Commit!vars) => [part = "commit" => Commit!UploadIsKept]_commitVars
  BY <1>2
<1>8. Commit!Spec => [][part = "commit" => Commit!UploadIsKept]_commitVars
  BY <1>7, SpecIInv, PTL DEF Commit!Spec
<1> QED BY <1>3, <1>5, <1>6, <1>8, PTL DEF CommitIsSafe

-----------------------------------------------------------------------------
(***************************************************************************)
(* The uploads of the import page, for any number of files, of places, of  *)
(* retries and of failures.  The inductive invariant has the places        *)
(* (PlacesOK: the files in line wait, and each once) and, of every file by *)
(* itself (FileOK), what its entry may be at each step of its upload.      *)
(***************************************************************************)

WorkerSteps == {"none", "slot", "waiting", "granted", "before", "send", "sending", "after",
                "delay", "done"}
HoldingSteps == {"granted", "before", "send", "sending", "after"}
Entries == [hasJob : BOOLEAN, state : {"unresolved", "accepted", "rejected"},
            phase : {"queued", "uploading", "retry_wait", "failed", "ready"}, canRetry : BOOLEAN]
Workers == [step : WorkerSteps, attempt : 0..Retries]
Known == {"none", "queued", "busy", "accepted", "failed"}

PageTypes ==
  /\ handler \in {"none", "creating", "uploading"} /\ busy \in BOOLEAN
  /\ aborted \in BOOLEAN /\ lingering \in BOOLEAN
  /\ entry \in [Picked -> Entries] /\ worker \in [Picked -> Workers]
  /\ known \in [Picked -> Known]
  /\ sent \subseteq Picked
  /\ counts \in [faults : Nat, retries : Nat, sessions : Nat, stopped : Nat]

PlacesOK ==
  /\ active \in Nat /\ waiting \in Seq(Picked)
  /\ active = Cardinality(Page!Holders) /\ active <= MaxActive
  /\ waiting # <<>> => active = MaxActive
  /\ \A i \in 1..Len(waiting) : worker[waiting[i]].step = "waiting"
  /\ \A i, j \in 1..Len(waiting) : i # j => waiting[i] # waiting[j]

\* A file: what the handler does, its entry and its worker, what the server knows of it,
\* whether a request is on its way, and how often a cancellation has failed.
FileOK(h, e, w, s, isSent, stopped) ==
  /\ e.hasJob => s # "none"
  /\ w.step \notin {"none", "done"} => h = "uploading" /\ e.hasJob
  /\ w.step = "after" => e.canRetry
  /\ w.step = "delay" => w.attempt > 0
  /\ e.state = "accepted" => s = "accepted"
  /\ isSent => w.step = "sending"
  /\ w.step = "send" => s # "busy"
  /\ w.attempt = 0 /\ w.step \in {"slot", "waiting", "granted"} => s # "busy"
  /\ h = "creating" /\ e.hasJob => s = "queued"
  /\ stopped = 0 /\ h # "creating" /\ w.step \in {"none", "done"} /\ e.hasJob /\ s # "failed"
       => e.state = "accepted" \/ e.canRetry

FileIsOK(f) == FileOK(handler, entry[f], worker[f], known[f], f \in sent, counts.stopped)

PageInv ==
  /\ PageTypes /\ PlacesOK
  /\ \A f \in Picked : FileIsOK(f)
  /\ aborted => counts.stopped > 0

\* A fault leaves the number of cancellations that failed.
LEMMA Counted ==
  ASSUME PageTypes, NEW what \in {"faults", "retries", "sessions"}, Page!Count(what)
  PROVE  /\ counts' \in [faults : Nat, retries : Nat, sessions : Nat, stopped : Nat]
         /\ counts'.stopped = counts.stopped
BY DEF PageTypes, Page!Count

LEMMA FilesAreFinite ==
  /\ IsFiniteSet(Picked)
  /\ \A S \in SUBSET Picked : IsFiniteSet(S) /\ Page!Cardinality(S) = Cardinality(S)
                              /\ Cardinality(S) \in Nat
<1>1. (Page!IsFiniteSet(Picked) <=> IsFiniteSet(Picked))
      /\ \A S : Page!Cardinality(S) = Cardinality(S)
  BY Zenon DEF Page!IsFiniteSet, IsFiniteSet, Page!Cardinality, Cardinality
<1>2. IsFiniteSet(Picked)
  BY <1>1, PageAssumption DEF Page!ConstantsOK
<1> QED BY <1>1, <1>2, FS_Subset, FS_CardinalityType

LEMMA HoldersFinite ==
  Page!Holders \subseteq Picked /\ IsFiniteSet(Page!Holders) /\ Cardinality(Page!Holders) \in Nat
BY FilesAreFinite DEF Page!Holders

\* A file that keeps its place, or goes on having none.
LEMMA GoesKeeps ==
  ASSUME PageTypes, PlacesOK, NEW f \in Picked, NEW w \in Workers,
         worker' = [worker EXCEPT ![f] = w], UNCHANGED <<active, waiting>>,
         worker[f].step # "waiting", w.step # "waiting",
         worker[f].step \in HoldingSteps <=> w.step \in HoldingSteps
  PROVE  PlacesOK'
<1>1. \A g \in Picked : worker'[g] = IF g = f THEN w ELSE worker[g]
  BY DEF PageTypes
<1>2. Page!Holders' = Page!Holders
  BY <1>1 DEF Page!Holders, HoldingSteps
<1>3. \A i \in 1..Len(waiting) : waiting[i] \in Picked /\ waiting[i] # f
  BY DEF PlacesOK
<1> QED BY <1>1, <1>2, <1>3 DEF PlacesOK

\* A place that is given up goes to the first in line, who was waiting, or is free.
LEMMA ReleaseKeeps ==
  ASSUME PageTypes, PlacesOK, NEW f \in Picked, NEW w \in Workers,
         worker[f].step \in HoldingSteps, w.step \notin HoldingSteps \cup {"waiting"},
         Page!Release(f, w)
  PROVE  /\ PlacesOK'
         /\ worker' \in [Picked -> Workers]
         /\ worker'[f] = w
         /\ \A g \in Picked \ {f} :
              \/ worker'[g] = worker[g]
              \/ worker[g].step = "waiting" /\ worker'[g] = [worker[g] EXCEPT !.step = "granted"]
<1>1. f \in Page!Holders
  BY DEF Page!Holders, HoldingSteps
<1>2. CASE waiting # <<>>
  <2> DEFINE g == Head(waiting)
  <2>1. waiting \in Seq(Picked) /\ Len(waiting) \in Nat /\ Len(waiting) >= 1 /\ g = waiting[1]
    BY <1>2 DEF PlacesOK
  <2>2. g \in Picked /\ worker[g].step = "waiting" /\ g # f
    BY <2>1 DEF PlacesOK, HoldingSteps
  <2>3. /\ waiting' = Tail(waiting) /\ active' = active
        /\ worker' = [worker EXCEPT ![f] = w, ![g].step = "granted"]
    BY <1>2 DEF Page!Release
  <2> HIDE DEF g
  <2>4. \A h \in Picked : worker'[h] = IF h = f THEN w
                                       ELSE IF h = g THEN [worker[g] EXCEPT !.step = "granted"]
                                       ELSE worker[h]
    BY <2>2, <2>3 DEF PageTypes
  <2>5. worker' \in [Picked -> Workers]
    BY <2>2, <2>3 DEF PageTypes, Workers, WorkerSteps
  <2>6. worker'[g].step = "granted"
    BY <2>2, <2>4 DEF PageTypes, Workers
  <2>7. Page!Holders' = (Page!Holders \ {f}) \cup {g} /\ g \notin Page!Holders \ {f}
    BY <2>2, <2>4, <2>6 DEF Page!Holders, HoldingSteps
  <2>8. Cardinality(Page!Holders') = Cardinality(Page!Holders)
    <3> DEFINE S == Page!Holders \ {f}
    <3>1. IsFiniteSet(S) /\ Cardinality(S) = Cardinality(Page!Holders) - 1
      BY <1>1, HoldersFinite, FS_RemoveElement
    <3>2. g \notin S /\ Page!Holders' = S \cup {g}
      BY <2>7
    <3> HIDE DEF S
    <3>3. Cardinality(S \cup {g}) = Cardinality(S) + 1
      BY <3>1, <3>2, FS_AddElement
    <3> QED BY <3>1, <3>2, <3>3, HoldersFinite
  <2>9. /\ waiting' \in Seq(Picked) /\ Len(waiting') = Len(waiting) - 1
        /\ \A i \in 1..Len(waiting') : waiting'[i] = waiting[i + 1]
    BY <1>2, <2>1, <2>3
  <2>10. \A i \in 1..Len(waiting') :
           waiting'[i] \in Picked /\ waiting'[i] # f /\ waiting'[i] # g
           /\ worker[waiting'[i]].step = "waiting"
    BY <2>1, <2>9 DEF PlacesOK, HoldingSteps
  <2>11. \A i \in 1..Len(waiting') : worker'[waiting'[i]].step = "waiting"
    BY <2>4, <2>10
  <2>12. \A i, j \in 1..Len(waiting') : i # j => waiting'[i] # waiting'[j]
    BY <2>1, <2>9 DEF PlacesOK
  <2>13. active = MaxActive
    BY <1>2 DEF PlacesOK
  <2>14. PlacesOK'
    BY <2>3, <2>8, <2>9, <2>11, <2>12, <2>13 DEF PlacesOK
  <2> QED BY <2>2, <2>4, <2>5, <2>14
<1>3. CASE waiting = <<>>
  <2>1. waiting' = <<>> /\ active' = active - 1 /\ worker' = [worker EXCEPT ![f] = w]
    BY <1>3 DEF Page!Release
  <2>2. \A g \in Picked : worker'[g] = IF g = f THEN w ELSE worker[g]
    BY <2>1 DEF PageTypes
  <2>3. Page!Holders' = Page!Holders \ {f}
    BY <2>2 DEF Page!Holders, HoldingSteps
  <2>4. Cardinality(Page!Holders') = Cardinality(Page!Holders) - 1
    BY <1>1, <2>3, HoldersFinite, FS_RemoveElement
  <2>5. Cardinality(Page!Holders') \in Nat
    BY <2>3, HoldersFinite, FilesAreFinite
  <2>6. waiting' \in Seq(Picked) /\ Len(waiting') = 0
    BY <2>1
  <2>7. MaxActive \in Nat
    BY PageAssumption DEF Page!ConstantsOK
  <2>8. PlacesOK'
    BY <2>1, <2>4, <2>5, <2>6, <2>7 DEF PlacesOK
  <2>9. worker' \in [Picked -> Workers]
    BY <2>1 DEF PageTypes
  <2> QED BY <2>2, <2>8, <2>9
<1> QED BY <1>2, <1>3

\* What the file that is granted a place while another gives one up has to show.
LEMMA GrantedIsOK ==
  ASSUME NEW h, NEW e, NEW w \in Workers, NEW s, NEW m, NEW stopped,
         FileOK(h, e, w, s, m, stopped), w.step = "waiting"
  PROVE  FileOK(h, e, [w EXCEPT !.step = "granted"], s, m, stopped)
BY DEF FileOK, Workers

\* A step of one file's upload: another file may at most be granted the place it waits for.
LEMMA FileStepKeeps ==
  ASSUME PageInv, NEW f \in Picked, UNCHANGED <<handler, busy, aborted, lingering>>,
         counts' = counts \/ Page!Count("faults"),
         entry' \in [Picked -> Entries], known' \in [Picked -> Known], sent' \subseteq Picked,
         worker' \in [Picked -> Workers], PlacesOK',
         \A g \in Picked \ {f} :
           /\ entry'[g] = entry[g] /\ known'[g] = known[g] /\ (g \in sent' <=> g \in sent)
           /\ \/ worker'[g] = worker[g]
              \/ worker[g].step = "waiting" /\ worker'[g] = [worker[g] EXCEPT !.step = "granted"],
         FileOK(handler, entry'[f], worker'[f], known'[f], f \in sent', counts.stopped)
  PROVE  PageInv'
<1>1. /\ counts' \in [faults : Nat, retries : Nat, sessions : Nat, stopped : Nat]
      /\ counts'.stopped = counts.stopped
  BY Counted DEF PageInv, PageTypes
<1>2. PageTypes'
  BY <1>1 DEF PageInv, PageTypes
<1>3. \A g \in Picked : FileIsOK(g)'
  <2> TAKE g \in Picked
  <2>1. CASE g = f
    BY <1>1, <2>1 DEF FileIsOK
  <2>2. CASE g # f
    <3>1. FileOK(handler, entry[g], worker[g], known[g], g \in sent, counts.stopped)
      BY DEF PageInv, FileIsOK
    <3>2. worker[g] \in Workers
      BY DEF PageInv, PageTypes
    <3>3. FileOK(handler, entry[g], worker'[g], known[g], g \in sent, counts.stopped)
      BY <2>2, <3>1, <3>2, GrantedIsOK
    <3>4. (g \in sent') = (g \in sent)
      BY <2>2
    <3> QED BY <1>1, <2>2, <3>3, <3>4 DEF FileIsOK
  <2> QED BY <2>1, <2>2
<1> QED BY <1>1, <1>2, <1>3 DEF PageInv

\* What is known of the file that goes on.
LEMMA FileKnown ==
  ASSUME PageInv, NEW f \in Picked
  PROVE  /\ PageTypes /\ PlacesOK
         /\ entry[f] \in Entries /\ worker[f] \in Workers /\ known[f] \in Known
         /\ worker[f].step \in WorkerSteps /\ worker[f].attempt \in 0..Retries
         /\ FileOK(handler, entry[f], worker[f], known[f], f \in sent, counts.stopped)
BY DEF PageInv, PageTypes, Workers, FileIsOK

\* An entry as the server's answer leaves it, or as failed.
LEMMA EntryChanges ==
  ASSUME PageInv, NEW f \in Picked
  PROVE  /\ Page!Merged(f) \in Entries /\ Page!Merged(f).hasJob = entry[f].hasJob
         /\ known[f] = "accepted" <=> Page!Merged(f).state = "accepted"
         /\ known[f] \notin {"accepted", "failed"} => Page!Merged(f).canRetry = entry[f].canRetry
         /\ \A b \in BOOLEAN :
              /\ Page!FailedEntry(f, b) \in Entries
              /\ Page!FailedEntry(f, b).hasJob = entry[f].hasJob
              /\ Page!FailedEntry(f, b).state = "rejected"
              /\ Page!FailedEntry(f, b).canRetry = b
<1>1. entry[f] \in Entries /\ known[f] \in Known /\ (entry[f].state = "accepted" => known[f] = "accepted")
  BY FileKnown DEF FileOK
<1>2. \A b \in BOOLEAN : Page!FailedEntry(f, b) = [entry[f] EXCEPT !.state = "rejected", !.phase = "failed", !.canRetry = b]
  BY DEF Page!FailedEntry
<1>3. CASE known[f] = "accepted"
  BY <1>1, <1>2, <1>3 DEF Page!Merged, Entries
<1>4. CASE known[f] = "failed"
  BY <1>1, <1>2, <1>4 DEF Page!Merged, Entries
<1>5. CASE known[f] \in {"queued", "busy"}
  BY <1>1, <1>2, <1>5 DEF Page!Merged, Entries
<1>6. CASE known[f] = "none"
  BY <1>1, <1>2, <1>6 DEF Page!Merged, Entries
<1> QED BY <1>1, <1>3, <1>4, <1>5, <1>6 DEF Known

LEMMA WorkerStepKeeps ==
  ASSUME PageInv, NEW f \in Picked, Page!WorkerStep(f)
  PROVE  PageInv'
<1> DEFINE w == worker[f]
<1>1. /\ PageTypes /\ PlacesOK /\ entry[f] \in Entries /\ known[f] \in Known
      /\ w \in Workers /\ w.step \in WorkerSteps /\ w.attempt \in 0..Retries /\ Retries \in Nat
      /\ FileOK(handler, entry[f], w, known[f], f \in sent, counts.stopped)
  BY FileKnown, PageAssumption DEF Page!ConstantsOK
<1>2. /\ entry \in [Picked -> Entries] /\ known \in [Picked -> Known] /\ sent \subseteq Picked
      /\ worker \in [Picked -> Workers]
  BY <1>1 DEF PageTypes
\* Its worker goes to the next step, and places are left alone.
<1>3. ASSUME NEW s \in WorkerSteps, Page!Goes(f, s), w.step # "waiting", s # "waiting",
             w.step \in HoldingSteps <=> s \in HoldingSteps, UNCHANGED <<active, waiting>>
      PROVE  /\ PlacesOK' /\ worker' \in [Picked -> Workers]
             /\ worker'[f] = [w EXCEPT !.step = s]
             /\ worker'[f].step = s /\ worker'[f].attempt = w.attempt
             /\ \A g \in Picked \ {f} : worker'[g] = worker[g]
  <2>1. worker' = [worker EXCEPT ![f] = [w EXCEPT !.step = s]]
    BY <1>2, <1>3 DEF Page!Goes
  <2>2. [w EXCEPT !.step = s] \in Workers /\ [w EXCEPT !.step = s].step = s
        /\ [w EXCEPT !.step = s].attempt = w.attempt
    BY <1>1 DEF Workers
  <2> HIDE DEF w
  <2>3. PlacesOK'
    BY <1>1, <1>3, <2>1, <2>2, GoesKeeps DEF w
  <2> QED BY <1>2, <2>1, <2>2, <2>3
\* Its place is given up, after the last attempt or for the time of a delay.
<1>4. ASSUME Page!Done(f), w.step \in HoldingSteps
      PROVE  /\ PlacesOK' /\ worker' \in [Picked -> Workers]
             /\ worker'[f].step = "done"
             /\ \A g \in Picked \ {f} :
                  \/ worker'[g] = worker[g]
                  \/ worker[g].step = "waiting" /\ worker'[g] = [worker[g] EXCEPT !.step = "granted"]
  <2>1. [w EXCEPT !.step = "done"] \in Workers /\ [w EXCEPT !.step = "done"].step = "done"
    BY <1>1 DEF Workers, WorkerSteps
  <2>2. Page!Release(f, [w EXCEPT !.step = "done"])
    BY <1>4 DEF Page!Done
  <2> HIDE DEF w
  <2>3. [w EXCEPT !.step = "done"].step \notin HoldingSteps \cup {"waiting"}
    BY <2>1 DEF HoldingSteps
  <2> QED BY <1>1, <1>4, <2>1, <2>2, <2>3, ReleaseKeeps DEF w
<1>5. ASSUME Page!Again(f), w.step \in HoldingSteps
      PROVE  /\ PlacesOK' /\ worker' \in [Picked -> Workers]
             /\ \/ worker'[f].step = "done"
                \/ worker'[f].step = "delay" /\ worker'[f].attempt > 0
             /\ \A g \in Picked \ {f} :
                  \/ worker'[g] = worker[g]
                  \/ worker[g].step = "waiting" /\ worker'[g] = [worker[g] EXCEPT !.step = "granted"]
  <2> DEFINE n == [step |-> "delay", attempt |-> w.attempt + 1]
  <2>1. CASE w.attempt = Retries
    <3>1. Page!Done(f)
      BY <1>5, <2>1 DEF Page!Again
    <3> HIDE DEF w
    <3> QED BY <1>4, <1>5, <3>1
  <2>2. CASE w.attempt # Retries
    <3>1. n \in Workers /\ n.step = "delay" /\ n.attempt > 0
      BY <1>1, <2>2 DEF Workers, WorkerSteps
    <3>2. Page!Release(f, n)
      BY <1>5, <2>2 DEF Page!Again
    <3>3. n.step \notin HoldingSteps \cup {"waiting"}
      BY <3>1 DEF HoldingSteps
    <3> HIDE DEF w, n
    <3> QED BY <1>1, <1>5, <3>1, <3>2, <3>3, ReleaseKeeps DEF w
  <2> QED BY <2>1, <2>2
<1> HIDE DEF w
\* What it takes to show of the step, once the places are.
<1>6. ASSUME PlacesOK', worker' \in [Picked -> Workers],
             \A g \in Picked \ {f} :
               \/ worker'[g] = worker[g]
               \/ worker[g].step = "waiting" /\ worker'[g] = [worker[g] EXCEPT !.step = "granted"],
             UNCHANGED <<handler, busy, aborted, lingering>>,
             counts' = counts \/ Page!Count("faults"),
             NEW e \in Entries, entry' = [entry EXCEPT ![f] = e],
             NEW s \in Known, known' = [known EXCEPT ![f] = s],
             sent' \subseteq Picked, \A g \in Picked \ {f} : g \in sent' <=> g \in sent,
             FileOK(handler, e, worker'[f], s, f \in sent', counts.stopped)
      PROVE  PageInv'
  <2>1. /\ entry' \in [Picked -> Entries] /\ known' \in [Picked -> Known]
        /\ entry'[f] = e /\ known'[f] = s
        /\ \A g \in Picked \ {f} : entry'[g] = entry[g] /\ known'[g] = known[g]
    BY <1>2, <1>6
  <2> QED BY <1>6, <2>1, FileStepKeeps
<1>7. entry = [entry EXCEPT ![f] = entry[f]] /\ known = [known EXCEPT ![f] = known[f]]
  BY <1>2
<1>10. CASE Page!TakePlace(f)
  <2>1. w.step = "slot" /\ UNCHANGED <<handler, busy, entry, aborted, lingering, known, sent, counts>>
    BY <1>10 DEF Page!TakePlace, Page!At, w
  <2>2. \A s \in WorkerSteps : [w EXCEPT !.step = s] \in Workers
          /\ [w EXCEPT !.step = s].step = s /\ [w EXCEPT !.step = s].attempt = w.attempt
    BY <1>1 DEF Workers
  <2>3. ASSUME NEW s \in {"waiting", "granted"}, Page!Goes(f, s)
        PROVE  /\ worker' \in [Picked -> Workers] /\ worker'[f].step = s
               /\ worker'[f].attempt = w.attempt
               /\ \A g \in Picked \ {f} : worker'[g] = worker[g]
               /\ FileOK(handler, entry[f], worker'[f], known[f], f \in sent', counts.stopped)
    <3>1. worker' = [worker EXCEPT ![f] = [w EXCEPT !.step = s]] /\ s \in WorkerSteps
      BY <1>2, <2>3 DEF Page!Goes, w, WorkerSteps
    <3>2. /\ worker' \in [Picked -> Workers] /\ worker'[f].step = s
          /\ worker'[f].attempt = w.attempt
          /\ \A g \in Picked \ {f} : worker'[g] = worker[g]
      BY <1>2, <2>2, <3>1
    <3> QED BY <1>1, <2>1, <2>3, <3>2 DEF FileOK
  <2>4. CASE active >= MaxActive
    <3>1. waiting' = Append(waiting, f) /\ Page!Goes(f, "waiting") /\ active' = active
      BY <1>10, <2>4 DEF Page!TakePlace
    <3>2. PlacesOK'
      <4>1. /\ waiting \in Seq(Picked) /\ waiting' \in Seq(Picked)
            /\ Len(waiting) \in Nat /\ Len(waiting') = Len(waiting) + 1
            /\ waiting'[Len(waiting) + 1] = f
            /\ \A i \in 1..Len(waiting) : waiting'[i] = waiting[i]
        BY <1>1, <3>1 DEF PlacesOK
      <4>2. \A i \in 1..Len(waiting) : waiting[i] \in Picked /\ waiting[i] # f
        BY <1>1, <2>1, <4>1 DEF PlacesOK, w
      <4>3. Page!Holders' = Page!Holders
        BY <2>1, <2>3, <3>1 DEF Page!Holders, w
      <4>4. active = MaxActive
        BY <1>1, <2>4, PageAssumption DEF PlacesOK, Page!ConstantsOK
      <4>5. \A i \in 1..Len(waiting') : worker'[waiting'[i]].step = "waiting"
        <5>1. \A i \in 1..Len(waiting) : worker'[waiting'[i]].step = "waiting"
          BY <1>1, <2>3, <3>1, <4>1, <4>2 DEF PlacesOK
        <5> QED BY <2>3, <3>1, <4>1, <5>1
      <4>6. \A i, j \in 1..Len(waiting') : i # j => waiting'[i] # waiting'[j]
        <5>1. \A i, j \in 1..Len(waiting) : i # j => waiting'[i] # waiting'[j]
          BY <1>1, <4>1 DEF PlacesOK
        <5> QED BY <4>1, <4>2, <5>1
      <4> QED BY <1>1, <3>1, <4>1, <4>3, <4>4, <4>5, <4>6 DEF PlacesOK
    <3> QED BY <1>1, <1>2, <1>6, <1>7, <2>1, <2>3, <3>1, <3>2
  <2>5. CASE ~(active >= MaxActive)
    <3>1. waiting' = waiting /\ Page!Goes(f, "granted") /\ active' = active + 1
      BY <1>10, <2>5 DEF Page!TakePlace
    <3>2. PlacesOK'
      <4>1. waiting = <<>> /\ active \in Nat /\ active < MaxActive /\ MaxActive \in Nat
        BY <1>1, <2>5, PageAssumption DEF PlacesOK, Page!ConstantsOK
      <4>2. Page!Holders' = Page!Holders \cup {f} /\ f \notin Page!Holders
        BY <2>1, <2>3, <3>1 DEF Page!Holders, w
      <4>3. Cardinality(Page!Holders') = Cardinality(Page!Holders) + 1
        BY <4>2, HoldersFinite, FS_AddElement
      <4>4. waiting' \in Seq(Picked) /\ Len(waiting') = 0
        BY <3>1, <4>1
      <4> QED BY <1>1, <3>1, <4>1, <4>3, <4>4 DEF PlacesOK
    <3> QED BY <1>1, <1>2, <1>6, <1>7, <2>1, <2>3, <3>1, <3>2
  <2> QED BY <2>4, <2>5
<1>11. CASE Page!StartAttempt(f)
  <2> DEFINE s == IF w.attempt > 0 THEN "before" ELSE "send"
  <2>1. /\ w.step = "granted" /\ Page!Goes(f, s)
        /\ UNCHANGED <<handler, busy, entry, active, waiting, aborted, lingering, known, sent, counts>>
    BY <1>11 DEF Page!StartAttempt, Page!At, w
  <2>2. /\ s \in WorkerSteps \cap HoldingSteps /\ s # "waiting" /\ w.step \in HoldingSteps
        /\ s = "send" => w.attempt = 0
        /\ s \in {"before", "send"}
    BY <1>1, <2>1 DEF WorkerSteps, HoldingSteps
  <2> HIDE DEF s
  <2>3. /\ PlacesOK' /\ worker' \in [Picked -> Workers]
        /\ worker'[f].step = s /\ worker'[f].attempt = w.attempt
        /\ \A g \in Picked \ {f} : worker'[g] = worker[g]
    BY <1>3, <2>1, <2>2
  <2>4. FileOK(handler, entry[f], worker'[f], known[f], f \in sent', counts.stopped)
    BY <1>1, <2>1, <2>2, <2>3 DEF FileOK
  <2> QED BY <1>1, <1>2, <1>6, <1>7, <2>1, <2>3, <2>4
<1>12. CASE Page!Send(f)
  <2> DEFINE e == [entry[f] EXCEPT !.state = "unresolved", !.phase = "uploading"]
  <2>1. /\ w.step = "send" /\ Page!Goes(f, "sending") /\ entry' = [entry EXCEPT ![f] = e]
        /\ sent' = sent \cup {f}
        /\ UNCHANGED <<handler, busy, active, waiting, aborted, lingering, known, counts>>
    BY <1>12 DEF Page!Send, Page!At, Page!Set, w
  <2>2. /\ PlacesOK' /\ worker' \in [Picked -> Workers]
        /\ worker'[f].step = "sending" /\ worker'[f].attempt = w.attempt
        /\ \A g \in Picked \ {f} : worker'[g] = worker[g]
    BY <1>3, <2>1 DEF WorkerSteps, HoldingSteps
  <2>3. e \in Entries /\ e.hasJob = entry[f].hasJob /\ e.state = "unresolved"
        /\ e.canRetry = entry[f].canRetry
    BY <1>1 DEF Entries
  <2> HIDE DEF e
  <2>4. FileOK(handler, e, worker'[f], known[f], f \in sent', counts.stopped)
    BY <1>1, <2>1, <2>2, <2>3 DEF FileOK
  <2> QED BY <1>1, <1>2, <1>6, <1>7, <2>1, <2>2, <2>3, <2>4
<1>13. CASE Page!Broken(f)
  <2> DEFINE e == Page!FailedEntry(f, TRUE)
  <2>1. /\ w.step = "sending" /\ Page!Goes(f, "after") /\ entry' = [entry EXCEPT ![f] = e]
        /\ sent' = sent \ {f} /\ (counts' = counts \/ Page!Count("faults"))
        /\ UNCHANGED <<handler, busy, active, waiting, aborted, lingering, known>>
    BY <1>13 DEF Page!Broken, Page!At, Page!Set, Page!Fault, w
  <2>2. /\ PlacesOK' /\ worker' \in [Picked -> Workers]
        /\ worker'[f].step = "after" /\ worker'[f].attempt = w.attempt
        /\ \A g \in Picked \ {f} : worker'[g] = worker[g]
    BY <1>3, <2>1 DEF WorkerSteps, HoldingSteps
  <2>3. e \in Entries /\ e.hasJob = entry[f].hasJob /\ e.state = "rejected" /\ e.canRetry = TRUE
    BY EntryChanges
  <2> HIDE DEF e
  <2>4. FileOK(handler, e, worker'[f], known[f], f \in sent', counts.stopped)
    BY <1>1, <2>1, <2>2, <2>3 DEF FileOK
  <2> QED BY <1>1, <1>2, <1>6, <1>7, <2>1, <2>2, <2>3, <2>4
<1>14. CASE Page!Delayed(f)
  <2> DEFINE e == [entry[f] EXCEPT !.state = "unresolved", !.phase = "retry_wait"]
  <2>1. /\ w.step = "delay" /\ Page!Goes(f, "slot") /\ entry' = [entry EXCEPT ![f] = e]
        /\ UNCHANGED <<handler, busy, active, waiting, aborted, lingering, known, sent, counts>>
    BY <1>14 DEF Page!Delayed, Page!At, Page!Set, w
  <2>2. /\ PlacesOK' /\ worker' \in [Picked -> Workers]
        /\ worker'[f].step = "slot" /\ worker'[f].attempt = w.attempt
        /\ \A g \in Picked \ {f} : worker'[g] = worker[g]
    BY <1>3, <2>1 DEF WorkerSteps, HoldingSteps
  <2>3. e \in Entries /\ e.hasJob = entry[f].hasJob /\ e.state = "unresolved"
        /\ e.canRetry = entry[f].canRetry
    BY <1>1 DEF Entries
  <2> HIDE DEF e
  <2>4. FileOK(handler, e, worker'[f], known[f], f \in sent', counts.stopped)
    BY <1>1, <2>1, <2>2, <2>3 DEF FileOK
  <2> QED BY <1>1, <1>2, <1>6, <1>7, <2>1, <2>2, <2>3, <2>4
<1>15. CASE Page!Answered(f)
  <2>1. PICK e \in Entries :
          /\ entry' = [entry EXCEPT ![f] = e] /\ e.hasJob = entry[f].hasJob
          /\ e.state = "accepted" <=> known[f] = "accepted"
          /\ known[f] \in {"accepted", "failed", "none"}
    <3>1. CASE known[f] = "accepted"
      BY <1>1, <1>15, <3>1 DEF Page!Answered, Page!Set, Entries
    <3>2. CASE known[f] # "accepted"
      BY <1>15, <3>2, EntryChanges DEF Page!Answered, Page!Set
    <3> QED BY <3>1, <3>2
  <2>2. /\ w.step = "sending" /\ Page!Done(f) /\ f \notin sent
        /\ UNCHANGED <<handler, busy, aborted, lingering, known, sent, counts>>
    BY <1>15 DEF Page!Answered, Page!At, w
  <2>3. w.step \in HoldingSteps
    BY <2>2 DEF HoldingSteps
  <2>4. FileOK(handler, e, worker'[f], known[f], f \in sent', counts.stopped)
    BY <1>1, <1>4, <2>1, <2>2, <2>3 DEF FileOK
  <2> QED BY <1>1, <1>2, <1>4, <1>6, <1>7, <2>1, <2>2, <2>3, <2>4
<1>16. CASE Page!Reconcile(f)
  <2>1. /\ w.step \in {"before", "after"} /\ w.step \in HoldingSteps
        /\ UNCHANGED <<handler, busy, aborted, lingering, known, sent>>
    BY <1>16 DEF Page!Reconcile, HoldingSteps, w
  <2>2. CASE Page!Decided(f) /\ Page!Set(f, Page!Merged(f)) /\ Page!Done(f) /\ UNCHANGED counts
    <3>1. entry' = [entry EXCEPT ![f] = Page!Merged(f)] /\ known[f] \in {"accepted", "failed"}
      BY <2>2 DEF Page!Set, Page!Decided
    <3>2. FileOK(handler, Page!Merged(f), worker'[f], known[f], f \in sent', counts.stopped)
      BY <1>1, <1>4, <2>1, <2>2, <3>1, EntryChanges DEF FileOK
    <3> QED BY <1>1, <1>2, <1>4, <1>6, <1>7, <2>1, <2>2, <3>1, <3>2, EntryChanges
  <2>3. CASE /\ known[f] \notin {"none", "busy", "accepted", "failed"}
             /\ w.step = "before" /\ Page!Goes(f, "send")
             /\ UNCHANGED <<active, waiting, entry, counts>>
    <3>1. /\ PlacesOK' /\ worker' \in [Picked -> Workers]
          /\ worker'[f].step = "send" /\ worker'[f].attempt = w.attempt
          /\ \A g \in Picked \ {f} : worker'[g] = worker[g]
      BY <1>3, <2>3 DEF WorkerSteps, HoldingSteps
    <3>2. FileOK(handler, entry[f], worker'[f], known[f], f \in sent', counts.stopped)
      BY <1>1, <2>1, <2>3, <3>1 DEF FileOK
    <3> QED BY <1>1, <1>2, <1>6, <1>7, <2>1, <2>3, <3>1, <3>2
  <2>4. CASE w.step = "after" /\ Page!Again(f) /\ UNCHANGED <<entry, counts>>
    <3>1. FileOK(handler, entry[f], worker'[f], known[f], f \in sent', counts.stopped)
      BY <1>1, <1>5, <2>1, <2>4 DEF FileOK
    <3> QED BY <1>1, <1>2, <1>5, <1>6, <1>7, <2>1, <2>4, <3>1
  <2>5. CASE /\ Page!Set(f, Page!FailedEntry(f, TRUE)) /\ Page!Again(f)
             /\ counts' = counts \/ Page!Count("faults")
    <3> DEFINE e == Page!FailedEntry(f, TRUE)
    <3>1. /\ entry' = [entry EXCEPT ![f] = e]
          /\ e \in Entries /\ e.hasJob = entry[f].hasJob /\ e.state = "rejected"
          /\ e.canRetry = TRUE
      BY <2>5, EntryChanges DEF Page!Set
    <3> HIDE DEF e
    <3>2. FileOK(handler, e, worker'[f], known[f], f \in sent', counts.stopped)
      BY <1>1, <1>5, <2>1, <2>5, <3>1 DEF FileOK
    <3> QED BY <1>1, <1>2, <1>5, <1>6, <1>7, <2>1, <2>5, <3>1, <3>2
  <2>6. \/ Page!Decided(f) /\ Page!Set(f, Page!Merged(f)) /\ Page!Done(f) /\ UNCHANGED counts
        \/ /\ known[f] \notin {"none", "busy", "accepted", "failed"}
           /\ w.step = "before" /\ Page!Goes(f, "send")
           /\ UNCHANGED <<active, waiting, entry, counts>>
        \/ w.step = "after" /\ Page!Again(f) /\ UNCHANGED <<entry, counts>>
        \/ /\ Page!Set(f, Page!FailedEntry(f, TRUE)) /\ Page!Again(f)
           /\ counts' = counts \/ Page!Count("faults")
    BY <1>16, <2>1 DEF Page!Reconcile, Page!Reconciled, Page!Decided, Page!At, Page!Fault, w
  <2> QED BY <2>2, <2>3, <2>4, <2>5, <2>6
<1>17. CASE Page!Abort(f)
  <2>1. /\ w.step \in {"granted", "before", "send", "sending", "after", "delay"}
        /\ counts.stopped > 0 /\ counts.stopped \in Nat /\ sent' = sent \ {f}
        /\ UNCHANGED <<handler, busy, entry, aborted, lingering, known, counts>>
    BY <1>1, <1>17 DEF Page!Abort, PageInv, PageTypes, WorkerSteps, w
  <2>2. /\ PlacesOK' /\ worker' \in [Picked -> Workers] /\ worker'[f].step = "done"
        /\ \A g \in Picked \ {f} :
             \/ worker'[g] = worker[g]
             \/ worker[g].step = "waiting" /\ worker'[g] = [worker[g] EXCEPT !.step = "granted"]
    <3>1. CASE w.step \in HoldingSteps
      <4>1. Page!Done(f)
        BY <1>17, <3>1 DEF Page!Abort, Page!Holders, HoldingSteps, w
      <4> QED BY <1>4, <3>1, <4>1
    <3>2. CASE w.step \notin HoldingSteps
      <4>1. Page!Goes(f, "done") /\ UNCHANGED <<active, waiting>>
        BY <1>17, <3>2 DEF Page!Abort, Page!Holders, HoldingSteps, w
      <4>2. w.step # "waiting" /\ "done" \in WorkerSteps /\ "done" \notin HoldingSteps
        BY <2>1 DEF WorkerSteps, HoldingSteps
      <4> QED BY <1>3, <3>2, <4>1, <4>2
    <3> QED BY <3>1, <3>2
  <2>3. FileOK(handler, entry[f], worker'[f], known[f], f \in sent', counts.stopped)
    BY <1>1, <2>1, <2>2 DEF FileOK
  <2> QED BY <1>1, <1>2, <1>6, <1>7, <2>1, <2>2, <2>3
<1>18. CASE Page!ServerTakes(f) \/ Page!ServerEnds(f)
  <2>1. PICK s \in Known :
          /\ known' = [known EXCEPT ![f] = s]
          /\ \/ f \in sent /\ s = (IF known[f] = "queued" THEN "busy" ELSE known[f])
                /\ sent' = sent \ {f}
             \/ known[f] = "busy" /\ s \in {"accepted", "failed", "queued"} /\ sent' = sent
    BY <1>1, <1>2, <1>18 DEF Page!ServerTakes, Page!ServerEnds, Known
  <2>2. UNCHANGED <<handler, busy, entry, worker, active, waiting, aborted, lingering, counts>>
    BY <1>18 DEF Page!ServerTakes, Page!ServerEnds
  <2>3. PlacesOK'
    BY <1>1, <2>2 DEF PlacesOK, Page!Holders
  <2>4. FileOK(handler, entry[f], worker'[f], s, f \in sent', counts.stopped)
    BY <1>1, <2>1, <2>2 DEF FileOK, w
  <2> QED BY <1>1, <1>2, <1>6, <1>7, <2>1, <2>2, <2>3, <2>4
<1> QED BY <1>10, <1>11, <1>12, <1>13, <1>14, <1>15, <1>16, <1>17, <1>18 DEF Page!WorkerStep

\* Without a file at work no place is taken, and nobody waits.
LEMMA NobodyAtWork ==
  ASSUME PageInv, handler # "uploading" \/ Page!Ended
  PROVE  /\ active = 0 /\ waiting = <<>> /\ sent = {}
         /\ \A f \in Picked : worker[f].step \in {"none", "done"}
<1>1. \A f \in Picked : worker[f].step \in {"none", "done"}
  BY FileKnown DEF Page!Ended, FileOK
<1>2. Page!Holders = {}
  BY <1>1 DEF Page!Holders
<1>3. sent = {}
  BY <1>1, FileKnown DEF PageInv, PageTypes, FileOK
<1>4. PlacesOK
  BY DEF PageInv
<1>5. waiting = <<>>
  <2>1. waiting \in Seq(Picked) /\ \A i \in 1..Len(waiting) : worker[waiting[i]].step = "waiting"
    BY <1>4 DEF PlacesOK
  <2>2. \A i \in 1..Len(waiting) : waiting[i] \in Picked
    BY <2>1
  <2>3. ~(1 \in 1..Len(waiting))
    BY <1>1, <2>1, <2>2
  <2>4. Len(waiting) = 0
    BY <2>1, <2>3
  <2> QED BY <2>1, <2>4
<1> QED BY <1>1, <1>2, <1>3, <1>4, <1>5, FS_EmptySet DEF PlacesOK

\* Workers that begin, or none at all: no place is taken yet.
LEMMA NoPlaces ==
  ASSUME worker' \in [Picked -> Workers],
         \A f \in Picked : worker'[f].step \in {"none", "slot", "done"},
         active' = 0, waiting' = <<>>
  PROVE  PlacesOK'
<1>1. Page!Holders' = {}
  BY DEF Page!Holders
<1>2. waiting' \in Seq(Picked) /\ Len(waiting') = 0
  OBVIOUS
<1>3. MaxActive \in Nat
  BY PageAssumption DEF Page!ConstantsOK
<1> QED BY <1>1, <1>2, <1>3, FS_EmptySet DEF PlacesOK

LEMMA WorkersBegin ==
  ASSUME NEW files \in SUBSET Picked
  PROVE  /\ Page!Workers(files) \in [Picked -> Workers]
         /\ \A f \in Picked : /\ Page!Workers(files)[f].attempt = 0
                              /\ f \in files => Page!Workers(files)[f].step = "slot"
                              /\ f \notin files => Page!Workers(files)[f].step = "none"
<1>1. \A s \in WorkerSteps : /\ [Page!NoWorker EXCEPT !.step = s] \in Workers
                             /\ [Page!NoWorker EXCEPT !.step = s].step = s
                             /\ [Page!NoWorker EXCEPT !.step = s].attempt = 0
  BY PageAssumption DEF Page!NoWorker, Workers, Page!ConstantsOK
<1>2. "slot" \in WorkerSteps /\ "none" \in WorkerSteps
  BY DEF WorkerSteps
<1>3. Page!Workers(files) = [f \in Picked |-> [Page!NoWorker EXCEPT !.step = IF f \in files THEN "slot" ELSE "none"]]
  BY DEF Page!Workers
<1> HIDE DEF Page!NoWorker
<1> QED BY <1>1, <1>2, <1>3

LEMMA FreshEntry == Page!NewEntry \in Entries /\ ~Page!NewEntry.hasJob /\ Page!NewEntry.state = "unresolved"
BY DEF Page!NewEntry, Entries

LEMMA FreshWorker == Page!NoWorker \in Workers /\ Page!NoWorker.step = "none" /\ Page!NoWorker.attempt = 0
BY PageAssumption DEF Page!NoWorker, Workers, WorkerSteps, Page!ConstantsOK

LEMMA PageInit ==
  ASSUME Page!Init
  PROVE  PageInv
<1>1. /\ handler = "none" /\ busy = FALSE /\ entry = [f \in Picked |-> Page!NewEntry]
      /\ worker = [f \in Picked |-> Page!NoWorker] /\ active = 0 /\ waiting = <<>>
      /\ aborted = FALSE /\ lingering = FALSE
      /\ known = [f \in Picked |-> "none"] /\ sent = {}
      /\ counts = [faults |-> 0, retries |-> 0, sessions |-> 0, stopped |-> 0]
  BY DEF Page!Init
<1>2. PageTypes
  BY <1>1, FreshEntry, FreshWorker DEF PageTypes, Known
<1>3. \A f \in Picked : entry[f] = Page!NewEntry /\ worker[f] = Page!NoWorker /\ known[f] = "none" /\ f \notin sent
  BY <1>1
<1>4. PlacesOK
  <2>1. Page!Holders = {}
    BY <1>3, FreshWorker DEF Page!Holders
  <2>2. waiting \in Seq(Picked) /\ Len(waiting) = 0
    BY <1>1
  <2>3. MaxActive \in Nat
    BY PageAssumption DEF Page!ConstantsOK
  <2> QED BY <1>1, <2>1, <2>2, <2>3, FS_EmptySet DEF PlacesOK
<1>5. \A f \in Picked : FileIsOK(f)
  BY <1>1, <1>3, FreshEntry, FreshWorker DEF FileIsOK, FileOK
<1> QED BY <1>1, <1>2, <1>4, <1>5 DEF PageInv

LEMMA HandlerKeeps ==
  ASSUME PageInv,
         \/ Page!HandlerStep \/ Page!PickFiles \/ Page!Retry \/ Page!Cancel
         \/ Page!CancelFails \/ Page!LingeringEnds
  PROVE  PageInv'
<1>1. /\ PageTypes /\ PlacesOK /\ (aborted => counts.stopped > 0)
      /\ \A f \in Picked : FileOK(handler, entry[f], worker[f], known[f], f \in sent, counts.stopped)
      /\ handler \in {"none", "creating", "uploading"}
      /\ counts.stopped \in Nat
  BY DEF PageInv, PageTypes, FileIsOK
<1>2. /\ entry \in [Picked -> Entries] /\ worker \in [Picked -> Workers]
      /\ known \in [Picked -> Known] /\ sent \subseteq Picked
  BY <1>1 DEF PageTypes
<1>3. ASSUME UNCHANGED <<worker, active, waiting>>
      PROVE  PlacesOK'
  BY <1>1, <1>3 DEF PlacesOK, Page!Holders
<1>4. CASE Page!PickFiles
  <2>1. /\ handler = "none" /\ handler' = "creating" /\ busy' = TRUE /\ aborted' = FALSE
        /\ Page!Count("sessions") /\ \A f \in Picked : ~entry[f].hasJob
        /\ UNCHANGED <<entry, worker, active, waiting, lingering, known, sent>>
    BY <1>4 DEF Page!PickFiles
  <2>2. PageTypes'
    BY <1>1, <2>1, Counted DEF PageTypes
  <2>3. \A f \in Picked : FileIsOK(f)'
    BY <1>1, <2>1 DEF FileIsOK, FileOK
  <2> QED BY <1>3, <2>1, <2>2, <2>3 DEF PageInv
<1>5. ASSUME NEW f \in Picked, Page!CreateJob(f)
      PROVE  PageInv'
  <2>1. /\ handler = "creating" /\ ~entry[f].hasJob /\ entry[f].state = "unresolved"
        /\ UNCHANGED <<handler, busy, worker, active, waiting, aborted, lingering, sent>>
    BY <1>5 DEF Page!CreateJob
  <2>2. worker[f].step \in {"none", "done"}
    BY <2>1, NobodyAtWork
  <2>3. PICK e \in Entries, s \in Known :
          /\ entry' = [entry EXCEPT ![f] = e] /\ known' = [known EXCEPT ![f] = s]
          /\ \/ e.hasJob /\ e.state = "unresolved" /\ s = "queued"
             \/ ~e.hasJob /\ e.state = "rejected" /\ s = known[f]
          /\ counts' = counts \/ Page!Count("faults")
    <3>1. CASE /\ known' = [known EXCEPT ![f] = "queued"] /\ UNCHANGED counts
               /\ Page!Set(f, [entry[f] EXCEPT !.hasJob = TRUE])
      <4>1. entry[f] \in Entries
        BY <1>2
      <4>2. /\ [entry[f] EXCEPT !.hasJob = TRUE] \in Entries
            /\ [entry[f] EXCEPT !.hasJob = TRUE].hasJob
            /\ [entry[f] EXCEPT !.hasJob = TRUE].state = "unresolved"
        BY <2>1, <4>1 DEF Entries
      <4> QED BY <3>1, <4>2 DEF Page!Set, Known
    <3>2. CASE Page!Fault /\ Page!Set(f, Page!FailedEntry(f, FALSE)) /\ UNCHANGED known
      <4>1. known' = [known EXCEPT ![f] = known[f]] /\ known[f] \in Known
        BY <1>2, <3>2
      <4>2. Page!Count("faults")
        BY <3>2 DEF Page!Fault
      <4> DEFINE e == Page!FailedEntry(f, FALSE)
      <4>3. e \in Entries /\ e.state = "rejected" /\ (e.hasJob <=> entry[f].hasJob)
        BY EntryChanges
      <4>4. entry' = [entry EXCEPT ![f] = e]
        BY <3>2 DEF Page!Set
      <4> HIDE DEF e
      <4> QED BY <2>1, <4>1, <4>2, <4>3, <4>4
    <3> QED BY <1>5, <3>1, <3>2 DEF Page!CreateJob
  <2>4. PlacesOK' /\ worker' \in [Picked -> Workers]
    BY <1>2, <1>3, <2>1
  <2>5. /\ entry' \in [Picked -> Entries] /\ known' \in [Picked -> Known]
        /\ entry'[f] = e /\ known'[f] = s
        /\ \A g \in Picked \ {f} : entry'[g] = entry[g] /\ known'[g] = known[g]
    BY <1>2, <2>3
  <2>6. FileOK(handler, e, worker'[f], s, f \in sent', counts.stopped)
    BY <1>1, <2>1, <2>2, <2>3 DEF FileOK
  <2> QED BY <1>2, <2>1, <2>3, <2>4, <2>5, <2>6, FileStepKeeps
<1>6. CASE Page!JobsCreated
  <2> DEFINE files == {f \in Picked : entry[f].hasJob}
  <2>1. /\ handler = "creating" /\ ~aborted
        /\ handler' = "uploading" /\ worker' = Page!Workers(files)
        /\ UNCHANGED <<busy, entry, active, waiting, aborted, lingering, known, sent, counts>>
    BY <1>6 DEF Page!JobsCreated
  <2>2. files \in SUBSET Picked /\ \A f \in Picked : f \in files <=> entry[f].hasJob
    OBVIOUS
  <2> HIDE DEF files
  <2>3. /\ worker' \in [Picked -> Workers]
        /\ \A f \in Picked : /\ worker'[f].attempt = 0
                             /\ entry[f].hasJob => worker'[f].step = "slot"
                             /\ ~entry[f].hasJob => worker'[f].step = "none"
    BY <2>1, <2>2, WorkersBegin
  <2>4. active = 0 /\ waiting = <<>> /\ sent = {}
    BY <2>1, NobodyAtWork
  <2>5. PlacesOK'
    BY <2>1, <2>3, <2>4, NoPlaces
  <2>6. PageTypes'
    BY <1>1, <2>1, <2>3 DEF PageTypes
  <2>7. \A f \in Picked : FileIsOK(f)'
    BY <1>1, <2>1, <2>3, <2>4 DEF FileIsOK, FileOK
  <2> QED BY <1>1, <2>1, <2>5, <2>6, <2>7 DEF PageInv
<1>7. CASE Page!Retry
  <2> DEFINE some == {f \in Picked : entry[f].canRetry /\ entry[f].hasJob}
             left == {f \in some : ~Page!Decided(f)}
  <2>1. /\ handler = "none" /\ handler' = "uploading" /\ busy' = TRUE /\ aborted' = FALSE
        /\ \A f \in some : known[f] \notin {"none", "busy"}
        /\ entry' = [f \in Picked |-> IF f \in left THEN [entry[f] EXCEPT !.phase = "queued"]
                                      ELSE IF f \in some THEN Page!Merged(f) ELSE entry[f]]
        /\ worker' = Page!Workers(left) /\ Page!Count("retries")
        /\ UNCHANGED <<active, waiting, lingering, known, sent>>
    BY <1>7 DEF Page!Retry
  <2>2. left \in SUBSET Picked
    OBVIOUS
  <2>3. active = 0 /\ waiting = <<>> /\ sent = {}
        /\ \A f \in Picked : worker[f].step \in {"none", "done"}
    BY <2>1, NobodyAtWork
  <2>4. /\ worker' \in [Picked -> Workers]
        /\ \A f \in Picked : /\ worker'[f].attempt = 0
                             /\ f \in left => worker'[f].step = "slot"
                             /\ f \notin left => worker'[f].step = "none"
    BY <2>1, <2>2, WorkersBegin
  <2>5. PlacesOK'
    BY <2>1, <2>3, <2>4, NoPlaces
  <2>6. \A f \in Picked : FileIsOK(f)' /\ entry'[f] \in Entries
    <3> TAKE f \in Picked
    <3>1. entry[f] \in Entries /\ known[f] \in Known
      BY <1>2
    <3>2. counts'.stopped = counts.stopped
      BY <1>1, <2>1, Counted
    <3>3. CASE f \in left
      <4>1. entry'[f] = [entry[f] EXCEPT !.phase = "queued"]
        BY <2>1, <3>3
      <4>2. /\ entry'[f] \in Entries /\ entry'[f].hasJob = entry[f].hasJob
            /\ entry'[f].state = entry[f].state /\ entry'[f].canRetry = entry[f].canRetry
        BY <3>1, <4>1 DEF Entries
      <4>3. entry[f].hasJob /\ known[f] # "busy" /\ f \in Picked
        BY <2>1, <3>3
      <4> QED BY <1>1, <2>1, <2>3, <2>4, <3>2, <3>3, <4>2, <4>3 DEF FileIsOK, FileOK
    <3>4. CASE f \in some \ left
      <4>1. entry'[f] = Page!Merged(f) /\ known[f] \in {"accepted", "failed"}
        BY <2>1, <3>4 DEF Page!Decided
      <4> QED BY <1>1, <2>1, <2>3, <2>4, <3>2, <3>4, <4>1, EntryChanges DEF FileIsOK, FileOK
    <3>5. CASE f \notin some
      <4>1. entry'[f] = entry[f] /\ f \notin left
        BY <2>1, <3>5
      <4> QED BY <1>1, <2>1, <2>3, <2>4, <3>1, <3>2, <4>1 DEF FileIsOK, FileOK
    <3> QED BY <3>3, <3>4, <3>5
  <2>7. entry' \in [Picked -> Entries]
    BY <2>1, <2>6
  <2>8. PageTypes'
    BY <1>1, <2>1, <2>4, <2>7, Counted DEF PageTypes
  <2> QED BY <2>1, <2>5, <2>6, <2>8 DEF PageInv
<1>8. CASE Page!UploadsEnd
  <2>1. /\ handler = "uploading" /\ Page!Ended /\ handler' = "none" /\ busy' = FALSE
        /\ UNCHANGED <<worker, active, waiting, aborted, lingering, known, sent>>
    BY <1>8 DEF Page!UploadsEnd
  <2>2. /\ counts' \in [faults : Nat, retries : Nat, sessions : Nat, stopped : Nat]
        /\ counts'.stopped = counts.stopped
    BY <1>1, <1>8, Counted DEF Page!UploadsEnd, Page!Fault, PageTypes
  <2>3. sent = {} /\ \A f \in Picked : worker[f].step \in {"none", "done"}
    BY <2>1, NobodyAtWork
  <2>4. CASE entry' = [f \in Picked |-> IF entry[f].hasJob THEN Page!Merged(f) ELSE entry[f]]
    <3>1. \A f \in Picked : FileIsOK(f)' /\ entry'[f] \in Entries
      <4> TAKE f \in Picked
      <4>1. CASE entry[f].hasJob
        BY <1>1, <2>1, <2>2, <2>3, <2>4, <4>1, EntryChanges DEF FileIsOK, FileOK
      <4>2. CASE ~entry[f].hasJob
        BY <1>1, <1>2, <2>1, <2>2, <2>3, <2>4, <4>2 DEF FileIsOK, FileOK
      <4> QED BY <4>1, <4>2
    <3>2. entry' \in [Picked -> Entries]
      BY <2>4, <3>1
    <3>3. PageTypes'
      BY <1>1, <2>1, <2>2, <3>2 DEF PageTypes
    <3> QED BY <1>1, <1>3, <2>1, <2>2, <3>1, <3>3 DEF PageInv
  <2>5. CASE entry' = entry
    <3>1. \A f \in Picked : FileIsOK(f)'
      BY <1>1, <2>1, <2>2, <2>3, <2>5 DEF FileIsOK, FileOK
    <3>2. PageTypes'
      BY <1>1, <2>1, <2>2, <2>5 DEF PageTypes
    <3> QED BY <1>1, <1>3, <2>1, <2>2, <3>1, <3>2 DEF PageInv
  <2> QED BY <1>8, <2>4, <2>5 DEF Page!UploadsEnd
<1>9. CASE Page!Cancel
  <2>1. /\ known' = [f \in Picked |-> "none"] /\ entry' = [f \in Picked |-> Page!NewEntry]
        /\ sent' = {} /\ worker' = [f \in Picked |-> Page!NoWorker] /\ active' = 0
        /\ waiting' = <<>> /\ aborted' = FALSE /\ handler' = "none" /\ busy' = FALSE
        /\ lingering' = (lingering \/ handler # "none") /\ UNCHANGED counts
    BY <1>9 DEF Page!Cancel
  <2>2. /\ entry' \in [Picked -> Entries] /\ worker' \in [Picked -> Workers]
        /\ known' \in [Picked -> Known]
        /\ \A f \in Picked : /\ entry'[f] = Page!NewEntry /\ worker'[f] = Page!NoWorker
                             /\ known'[f] = "none" /\ f \notin sent'
    BY <2>1, FreshEntry, FreshWorker DEF Known
  <2>3. PageTypes'
    BY <1>1, <2>1, <2>2 DEF PageTypes
  <2>4. PlacesOK'
    BY <2>1, <2>2, FreshWorker, NoPlaces
  <2>5. \A f \in Picked : FileIsOK(f)'
    BY <2>1, <2>2, FreshEntry, FreshWorker DEF FileIsOK, FileOK
  <2> QED BY <2>1, <2>3, <2>4, <2>5 DEF PageInv
<1>10. CASE Page!CancelFails
  <2>1. /\ counts' = [counts EXCEPT !.faults = @ + 1, !.stopped = @ + 1] /\ aborted' = TRUE
        /\ UNCHANGED <<handler, busy, entry, worker, active, waiting, lingering, known, sent>>
    BY <1>10 DEF Page!CancelFails
  <2>2. /\ counts' \in [faults : Nat, retries : Nat, sessions : Nat, stopped : Nat]
        /\ counts'.stopped = counts.stopped + 1
    <3>1. counts \in [faults : Nat, retries : Nat, sessions : Nat, stopped : Nat]
      BY <1>1 DEF PageTypes
    <3> DEFINE once == [counts EXCEPT !.faults = @ + 1]
    <3>2. once \in [faults : Nat, retries : Nat, sessions : Nat, stopped : Nat]
          /\ once.stopped = counts.stopped
      BY <3>1
    <3>3. counts' = [once EXCEPT !.stopped = once.stopped + 1]
      BY <2>1, <3>2
    <3> HIDE DEF once
    <3> QED BY <3>2, <3>3
  <2>3. PageTypes'
    BY <1>1, <2>1, <2>2 DEF PageTypes
  <2>4. \A f \in Picked : FileIsOK(f)'
    BY <1>1, <2>1, <2>2 DEF FileIsOK, FileOK
  <2> QED BY <1>1, <1>3, <2>1, <2>2, <2>3, <2>4 DEF PageInv
<1>11. CASE Page!AbortedEnds
  <2>1. /\ Page!Ended /\ handler' = "none" /\ busy' = FALSE /\ aborted' = FALSE
        /\ aborted
        /\ UNCHANGED <<entry, worker, active, waiting, lingering, known, sent, counts>>
    BY <1>11 DEF Page!AbortedEnds
  <2>2. PageTypes'
    BY <1>1, <2>1 DEF PageTypes
  <2>3. \A f \in Picked : FileIsOK(f)'
    BY <1>1, <2>1, NobodyAtWork DEF FileIsOK, FileOK
  <2> QED BY <1>3, <2>1, <2>2, <2>3 DEF PageInv
<1>12. CASE Page!LingeringEnds
  <2>1. /\ lingering' = FALSE /\ busy' = FALSE
        /\ UNCHANGED <<handler, entry, worker, active, waiting, aborted, known, sent, counts>>
    BY <1>12 DEF Page!LingeringEnds
  <2>2. PageTypes'
    BY <1>1, <2>1 DEF PageTypes
  <2>3. \A f \in Picked : FileIsOK(f)'
    BY <1>1, <2>1 DEF FileIsOK
  <2> QED BY <1>1, <1>3, <2>1, <2>2, <2>3 DEF PageInv
<1> QED BY <1>4, <1>5, <1>6, <1>7, <1>8, <1>9, <1>10, <1>11, <1>12 DEF Page!HandlerStep

LEMMA PageNext ==
  ASSUME PageInv, [Page!Next]_(Page!vars)
  PROVE  PageInv'
<1>1. CASE Page!Next
  BY <1>1, WorkerStepKeeps, HandlerKeeps DEF Page!Next
<1>2. CASE UNCHANGED Page!vars
  BY <1>2 DEF Page!vars, PageInv, PageTypes, PlacesOK, Page!Holders, FileIsOK
<1> QED BY <1>1, <1>2

LEMMA PageImplied ==
  ASSUME PageInv
  PROVE  Page!TypeOK /\ Page!PlacesAreCounted /\ Page!NoDeadEnd
<1>1. Page!TypeOK
  BY FileKnown DEF Page!TypeOK, PageInv, PageTypes, PlacesOK, Entries, Known, WorkerSteps
<1>2. Page!PlacesAreCounted
  <2>1. Page!Cardinality(Page!Holders) = Cardinality(Page!Holders)
    BY HoldersFinite, FilesAreFinite
  <2> QED BY <2>1 DEF PageInv, PlacesOK, Page!PlacesAreCounted
<1>3. Page!NoDeadEnd
  BY NobodyAtWork, FileKnown DEF Page!NoDeadEnd, FileOK
<1> QED BY <1>1, <1>2, <1>3

\* Only Send puts a request on its way, and not while the server is busy with the file.
LEMMA SentWhenFree ==
  ASSUME PageInv, [Page!Next]_(Page!vars)
  PROVE  Page!SentOnce
<1> SUFFICES ASSUME NEW g \in Picked, g \in sent' \ sent
             PROVE  known[g] # "busy"
  BY DEF Page!SentOnce
<1>1. PICK f \in Picked : Page!Send(f)
  <2>1. CASE UNCHANGED Page!vars
    BY <2>1 DEF Page!vars
  <2>2. CASE \E f \in Picked : Page!WorkerStep(f)
    BY <2>2 DEF Page!WorkerStep, Page!TakePlace, Page!StartAttempt, Page!Reconcile, Page!Answered,
                Page!Broken, Page!Delayed, Page!Abort, Page!ServerTakes, Page!ServerEnds
  <2>3. CASE \/ Page!HandlerStep \/ Page!PickFiles \/ Page!Retry \/ Page!Cancel
             \/ Page!CancelFails \/ Page!LingeringEnds
    BY <2>3 DEF Page!HandlerStep, Page!JobsCreated, Page!UploadsEnd, Page!AbortedEnds,
                Page!CreateJob, Page!PickFiles, Page!Retry, Page!Cancel, Page!CancelFails,
                Page!LingeringEnds
  <2> QED BY <2>1, <2>2, <2>3 DEF Page!Next
<1>2. g = f /\ worker[g].step = "send"
  BY <1>1 DEF Page!Send, Page!At
<1> QED BY <1>2, FileKnown DEF FileOK

\* UploadsMoveOn for any number of files, of places, of retries and of failures: places
\* are counted right and never exceeded, no file the server waits for or has accepted
\* is left without a way on, and none is sent while the server works on it
\* (-import-upload-queue.ts, runAttempt; -managed-import-workflow.ts).
THEOREM UploadsGoOn ==
  /\ Page!Spec => [](Page!TypeOK /\ Page!PlacesAreCounted /\ Page!NoDeadEnd)
  /\ Page!Spec => [][Page!SentOnce]_(Page!vars)
  /\ Page!Spec => UploadsMoveOn
<1>1. Page!Init => PageInv
  BY PageInit
<1>2. PageInv /\ [Page!Next]_(Page!vars) => PageInv'
  BY PageNext
<1>3. PageInv => Page!TypeOK /\ Page!PlacesAreCounted /\ Page!NoDeadEnd
  BY PageImplied
<1>4. PageInv /\ [Page!Next]_(Page!vars) => Page!SentOnce
  BY SentWhenFree
<1>5. Page!Spec => []PageInv
  BY <1>1, <1>2, PTL DEF Page!Spec
<1>6. Page!Spec => [](Page!TypeOK /\ Page!PlacesAreCounted /\ Page!NoDeadEnd)
  BY <1>3, <1>5, PTL
<1>7. Page!Spec => [][Page!SentOnce]_(Page!vars)
  BY <1>4, <1>5, PTL DEF Page!Spec
<1>8. PageInv /\ [Page!Next]_(Page!vars) => [part = "uploads" => Page!SentOnce]_pageVars
  BY <1>4
<1>9. Page!Spec => [][part = "uploads" => Page!SentOnce]_pageVars
  BY <1>5, <1>8, PTL DEF Page!Spec
<1>10. Page!Spec => [](part = "uploads" => Page!TypeOK /\ Page!PlacesAreCounted /\ Page!NoDeadEnd)
  BY <1>6, PTL
<1> QED BY <1>6, <1>7, <1>9, <1>10, PTL DEF UploadsMoveOn

-----------------------------------------------------------------------------
(***************************************************************************)
(* An Import Batch, for any number of files and of uploads, failures and   *)
(* requests that are lost.  The inductive invariant says what a file's row *)
(* may be while its upload is where it is (BatchFileOK), what the holder   *)
(* of batch_lock has still before it (TaskFileOK), in which status of the  *)
(* Batch (TaskOK), and at which revision (RevisionOK).                     *)
(***************************************************************************)

JobRows == [status : {"uploading", "awaiting", "failed", "committed", "gone"},
            error : {"none", "interrupted", "duplicate"},
            outcome : {"none", "imported", "rejected", "failed", "not_attempted"},
            selected : BOOLEAN, size : 0..BatchLimit, staged : BOOLEAN]
Uploads == [stage : {"none", "started", "checked", "receiving", "staged"},
            cancelled : BOOLEAN, fresh : BOOLEAN, size : 0..BatchLimit]
CancelKinds == {"batch", "file", "cleanup", "exit"}
Tasks == [kind : CancelKinds \cup {"none", "confirm"}, step : {"none", "waiting", "locked", "file"},
          scope : SUBSET BatchFiles, waits : SUBSET BatchFiles, cancelled : BOOLEAN,
          chosen : SUBSET BatchFiles, staged : SUBSET BatchFiles]
BatchRows == [status : {"uploading", "confirming", "completed", "gone"}, revision : Nat, stale : BOOLEAN]

BatchTypes ==
  /\ batch \in BatchRows
  /\ batchJob \in [BatchFiles -> JobRows] /\ batchUpload \in [BatchFiles -> Uploads]
  /\ staging \subseteq BatchFiles /\ canceling \subseteq BatchFiles /\ task \in Tasks
  /\ client \in [here : BOOLEAN, locked : BOOLEAN, exits : BOOLEAN, seen : Nat]
  /\ confirmed \in Nat /\ overtaken \in BOOLEAN

\* A file: its row, its upload, whether it is in staging, in a Batch with this status.
BatchFileOK(j, u, isStaged, status, late) ==
  /\ j.staged => j.status \notin {"uploading", "committed", "gone"}
  /\ j.staged => j.outcome = "none" \/ j.error = "duplicate"
  /\ ~late =>
       /\ u.stage \in {"checked", "receiving", "staged"} => status = "uploading" /\ j.status = "uploading"
       /\ u.stage \in {"receiving", "staged"} => j.error = "none"
       /\ isStaged => j.staged \/ u.stage = "staged"
       /\ status = "completed" /\ j.status # "gone" => j.outcome # "none"

\* The same file to whoever holds batch_lock.
TaskFileOK(f, j, u, t, late) ==
  /\ t.kind \in {"batch", "cleanup", "exit"} /\ j.status # "gone" => f \in t.scope
  /\ t.step = "locked" /\ f \in t.scope => u.stage = "none"
  /\ t.kind = "confirm" /\ ~late =>
       /\ j.staged => f \in t.staged
       /\ j.status # "gone" /\ f \notin t.scope => j.outcome # "none"

BatchFilesOK ==
  \A f \in BatchFiles :
    /\ BatchFileOK(batchJob[f], batchUpload[f], f \in staging, batch.status, overtaken)
    /\ TaskFileOK(f, batchJob[f], batchUpload[f], task, overtaken)

TaskOK ==
  /\ batch.status = "uploading" => ~overtaken
  /\ task.kind \in CancelKinds => batch.status \in {"uploading", "confirming"}
  /\ task.kind = "file" => batch.status = "uploading"
  /\ task.kind = "confirm" => batch.status = "confirming"

RevisionOK ==
  ~overtaken => /\ batch.status = "confirming" => batch.revision = confirmed + 1
                /\ batch.status = "completed" => batch.revision = confirmed + 2

BatchInv == BatchTypes /\ BatchFilesOK /\ TaskOK /\ RevisionOK /\ Batch!BatchStaysWithinLimit

----------------------------------------------------------------------------
(* The limit: the units of several files together *)

LEMMA BatchConstants ==
  /\ IsFiniteSet(BatchFiles) /\ BatchLimit \in Nat /\ Sizes \subseteq Nat
  /\ \A S : Batch!Cardinality(S) = Cardinality(S)
<1>1. (Batch!IsFiniteSet(BatchFiles) <=> IsFiniteSet(BatchFiles))
      /\ \A S : Batch!Cardinality(S) = Cardinality(S)
  BY Zenon DEF Batch!IsFiniteSet, IsFiniteSet, Batch!Cardinality, Cardinality
<1> QED BY <1>1, BatchAssumption DEF Batch!ConstantsOK

Units(rows, S) == UNION {{f} \X (1..rows[f].size) : f \in S}

LEMMA UnitsAre ==
  ASSUME NEW rows, NEW S
  PROVE  \A u : u \in Units(rows, S) <=> \E f \in S : u \in {f} \X (1..rows[f].size)
BY DEF Units

LEMMA UnitsFinite ==
  ASSUME NEW rows \in [BatchFiles -> JobRows], NEW S \in SUBSET BatchFiles
  PROVE  IsFiniteSet(Units(rows, S)) /\ Cardinality(Units(rows, S)) \in Nat
<1>1. IsFiniteSet(BatchFiles \X (1..BatchLimit))
  <2>1. IsFiniteSet(1..BatchLimit)
    BY BatchConstants, FS_Interval
  <2> QED BY <2>1, BatchConstants, FS_Product, Zenon
<1>2. \A f \in S : rows[f].size \in 0..BatchLimit
  BY DEF JobRows
<1>3. Units(rows, S) \in SUBSET (BatchFiles \X (1..BatchLimit))
  BY <1>2, UnitsAre, BatchConstants
<1> QED BY <1>1, <1>3, FS_Subset, FS_CardinalityType

LEMMA UnitsShrink ==
  ASSUME NEW rows \in [BatchFiles -> JobRows], NEW next \in [BatchFiles -> JobRows],
         NEW S \in SUBSET BatchFiles, NEW T \in SUBSET S,
         \A f \in T : next[f].size <= rows[f].size
  PROVE  Cardinality(Units(next, T)) <= Cardinality(Units(rows, S))
<1>1. \A f \in T : next[f].size \in Nat /\ rows[f].size \in Nat
  BY BatchConstants DEF JobRows
<1>2. \A f \in T : {f} \X (1..next[f].size) \subseteq {f} \X (1..rows[f].size)
  BY <1>1
<1>3. Units(next, T) \in SUBSET Units(rows, S)
  BY <1>2, UnitsAre
<1> QED BY <1>3, UnitsFinite, FS_Subset

LEMMA UnitsAdded ==
  ASSUME NEW rows \in [BatchFiles -> JobRows], NEW next \in [BatchFiles -> JobRows],
         NEW f \in BatchFiles, NEW T \in SUBSET BatchFiles,
         \A g \in BatchFiles \ {f} : next[g].size = rows[g].size
  PROVE  Cardinality(Units(next, T)) <= next[f].size + Cardinality(Units(rows, BatchFiles \ {f}))
<1> DEFINE own == {f} \X (1..next[f].size)
           rest == Units(rows, BatchFiles \ {f})
<1>1. next[f].size \in Nat
  BY BatchConstants DEF JobRows
<1>2. IsFiniteSet(own) /\ Cardinality(own) = next[f].size
  <2>1. IsFiniteSet(1..next[f].size) /\ Cardinality(1..next[f].size) = next[f].size
    BY <1>1, FS_Interval
  <2>2. IsFiniteSet({f}) /\ Cardinality({f}) = 1
    BY FS_Singleton
  <2>3. IsFiniteSet(own) /\ Cardinality(own) = Cardinality({f}) * Cardinality(1..next[f].size)
    BY <2>1, <2>2, FS_Product, Zenon
  <2> QED BY <1>1, <2>1, <2>2, <2>3
<1>3. IsFiniteSet(rest) /\ Cardinality(rest) \in Nat
  BY UnitsFinite
<1>4. Units(next, T) \in SUBSET (own \cup rest)
  <2> SUFFICES ASSUME NEW u \in Units(next, T) PROVE u \in own \cup rest
    OBVIOUS
  <2>1. PICK g \in T : u \in {g} \X (1..next[g].size)
    BY UnitsAre
  <2>2. CASE g = f
    BY <2>1, <2>2
  <2>3. CASE g # f
    <3>1. u \in {g} \X (1..rows[g].size) /\ g \in BatchFiles \ {f}
      BY <2>1, <2>3
    <3> QED BY <3>1, UnitsAre
  <2> QED BY <2>2, <2>3
<1> HIDE DEF own, rest
<1>5. /\ IsFiniteSet(own \cup rest)
      /\ Cardinality(own \cup rest) = Cardinality(own) + Cardinality(rest) - Cardinality(own \cap rest)
  BY <1>2, <1>3, FS_Union
<1>6. Cardinality(own \cap rest) \in Nat
  BY <1>2, FS_Subset, FS_CardinalityType
<1>7. Cardinality(Units(next, T)) <= Cardinality(own \cup rest)
  BY <1>4, <1>5, FS_Subset
<1>8. Cardinality(Units(next, T)) \in Nat
  BY UnitsFinite
<1> QED BY <1>1, <1>2, <1>3, <1>5, <1>6, <1>7, <1>8 DEF rest

OpenStates == {"uploading", "awaiting"}
WithinLimit(rows) == Cardinality(Units(rows, {f \in BatchFiles : rows[f].status \in OpenStates})) <= BatchLimit

LEMMA LimitIs ==
  /\ Batch!BatchStaysWithinLimit <=> WithinLimit(batchJob)
  /\ (Batch!BatchStaysWithinLimit)' <=> WithinLimit(batchJob')
  /\ \A S : Batch!SizeOf(S) = Cardinality(Units(batchJob, S))
BY BatchConstants DEF Batch!BatchStaysWithinLimit, Batch!SizeOf, WithinLimit, Units, OpenStates

\* No open file is new, and none has grown.
LEMMA LimitKept ==
  ASSUME NEW rows \in [BatchFiles -> JobRows], NEW next \in [BatchFiles -> JobRows],
         WithinLimit(rows),
         \A f \in BatchFiles : next[f].status \in OpenStates =>
           rows[f].status \in OpenStates /\ next[f].size <= rows[f].size
  PROVE  WithinLimit(next)
<1> DEFINE S == {f \in BatchFiles : rows[f].status \in OpenStates}
           T == {f \in BatchFiles : next[f].status \in OpenStates}
<1>1. Cardinality(Units(next, T)) <= Cardinality(Units(rows, S))
  <2>1. S \in SUBSET BatchFiles /\ T \in SUBSET S /\ \A f \in T : next[f].size <= rows[f].size
    OBVIOUS
  <2> HIDE DEF S, T
  <2> QED BY <2>1, UnitsShrink
<1>2. Cardinality(Units(next, T)) \in Nat /\ Cardinality(Units(rows, S)) \in Nat
  BY UnitsFinite
<1> QED BY <1>1, <1>2, BatchConstants DEF WithinLimit

\* One file has another size, which fits with what all the others have reserved.
LEMMA LimitFits ==
  ASSUME BatchTypes, NEW next \in [BatchFiles -> JobRows], NEW f \in BatchFiles,
         \A g \in BatchFiles \ {f} : next[g].size = batchJob[g].size,
         Batch!Fits(f, next[f].size)
  PROVE  WithinLimit(next)
<1> DEFINE T == {g \in BatchFiles : next[g].status \in OpenStates}
<1>1. batchJob \in [BatchFiles -> JobRows]
  BY DEF BatchTypes
<1>2. Cardinality(Units(next, T)) <= next[f].size + Cardinality(Units(batchJob, BatchFiles \ {f}))
  BY <1>1, UnitsAdded
<1>3. next[f].size + Cardinality(Units(batchJob, BatchFiles \ {f})) <= BatchLimit
  BY LimitIs DEF Batch!Fits
<1>4. next[f].size \in Nat /\ Cardinality(Units(next, T)) \in Nat
      /\ Cardinality(Units(batchJob, BatchFiles \ {f})) \in Nat
  BY <1>1, UnitsFinite, BatchConstants DEF JobRows
<1> QED BY <1>2, <1>3, <1>4, BatchConstants DEF WithinLimit

LEMMA FittingSize ==
  ASSUME BatchTypes, NEW f \in BatchFiles, NEW size \in Nat, Batch!Fits(f, size)
  PROVE  size \in 0..BatchLimit
<1>1. Cardinality(Units(batchJob, BatchFiles \ {f})) \in Nat
  BY UnitsFinite DEF BatchTypes
<1> QED BY <1>1, LimitIs, BatchConstants DEF Batch!Fits

----------------------------------------------------------------------------
(* Uploads *)

\* What is known of a file.
LEMMA BatchKnown ==
  ASSUME BatchInv, NEW f \in BatchFiles
  PROVE  /\ BatchTypes /\ TaskOK /\ RevisionOK /\ WithinLimit(batchJob)
         /\ batchJob[f] \in JobRows /\ batchUpload[f] \in Uploads
         /\ BatchFileOK(batchJob[f], batchUpload[f], f \in staging, batch.status, overtaken)
         /\ TaskFileOK(f, batchJob[f], batchUpload[f], task, overtaken)
BY LimitIs DEF BatchInv, BatchTypes, BatchFilesOK

LEMMA RevisedRow ==
  ASSUME BatchTypes
  PROVE  /\ batch \in BatchRows /\ Batch!Revised \in BatchRows
         /\ Batch!Revised.status = batch.status /\ Batch!Revised.revision = batch.revision + 1
         /\ Batch!RevisedWhileUploading \in BatchRows
         /\ Batch!RevisedWhileUploading.status = batch.status
         /\ \/ batch.status = "uploading"
            \/ Batch!RevisedWhileUploading.revision = batch.revision
<1>1. batch \in BatchRows
  BY DEF BatchTypes
<1>2. /\ Batch!Revised = [batch EXCEPT !.revision = batch.revision + 1, !.stale = FALSE]
      /\ Batch!RevisedWhileUploading = IF batch.status = "uploading" THEN Batch!Revised ELSE batch
  BY DEF Batch!Revised, Batch!RevisedWhileUploading
<1>3. /\ Batch!Revised \in BatchRows /\ Batch!Revised.status = batch.status
      /\ Batch!Revised.revision = batch.revision + 1
  <2>1. batch.revision + 1 \in Nat
    BY <1>1 DEF BatchRows
  <2>2. \A n \in Nat :
          /\ [batch EXCEPT !.revision = n, !.stale = FALSE] \in BatchRows
          /\ [batch EXCEPT !.revision = n, !.stale = FALSE].status = batch.status
          /\ [batch EXCEPT !.revision = n, !.stale = FALSE].revision = n
    BY <1>1 DEF BatchRows
  <2> QED BY <1>2, <2>1, <2>2
<1> QED BY <1>1, <1>2, <1>3

\* A step of one file's upload, whose Batch may be revised while it is uploading.
LEMMA UploadKeeps ==
  ASSUME BatchInv, NEW f \in BatchFiles,
         UNCHANGED <<canceling, task, client, confirmed, overtaken>>,
         batch' \in BatchRows, batch'.status = batch.status,
         overtaken \/ batch.status = "uploading" \/ batch'.revision = batch.revision,
         NEW j \in JobRows, batchJob' = [batchJob EXCEPT ![f] = j],
         NEW u \in Uploads, batchUpload' = [batchUpload EXCEPT ![f] = u],
         staging' \subseteq BatchFiles, \A g \in BatchFiles \ {f} : g \in staging' <=> g \in staging,
         BatchFileOK(j, u, f \in staging', batch.status, overtaken),
         TaskFileOK(f, j, u, task, overtaken),
         WithinLimit(batchJob')
  PROVE  BatchInv'
<1>1. /\ batchJob \in [BatchFiles -> JobRows] /\ batchUpload \in [BatchFiles -> Uploads]
      /\ BatchTypes /\ TaskOK /\ RevisionOK
  BY DEF BatchInv, BatchTypes
<1>2. /\ batchJob' \in [BatchFiles -> JobRows] /\ batchUpload' \in [BatchFiles -> Uploads]
      /\ batchJob'[f] = j /\ batchUpload'[f] = u
      /\ \A g \in BatchFiles \ {f} : batchJob'[g] = batchJob[g] /\ batchUpload'[g] = batchUpload[g]
  BY <1>1
<1>3. BatchTypes'
  BY <1>1, <1>2 DEF BatchTypes
<1>4. BatchFilesOK'
  <2> SUFFICES ASSUME NEW g \in BatchFiles
               PROVE  /\ BatchFileOK(batchJob'[g], batchUpload'[g], g \in staging', batch'.status, overtaken')
                      /\ TaskFileOK(g, batchJob'[g], batchUpload'[g], task', overtaken')
    BY DEF BatchFilesOK
  <2>1. CASE g = f
    BY <1>2, <2>1
  <2>2. CASE g # f
    <3>1. (g \in staging') = (g \in staging)
      BY <2>2
    <3> QED BY <1>2, <2>2, <3>1, BatchKnown
  <2> QED BY <2>1, <2>2
<1>5. TaskOK' /\ RevisionOK'
  BY <1>1 DEF TaskOK, RevisionOK
<1>6. (Batch!BatchStaysWithinLimit)'
  BY LimitIs
<1> QED BY <1>3, <1>4, <1>5, <1>6 DEF BatchInv

LEMMA UploadRecords ==
  /\ Batch!NoUpload \in Uploads /\ Batch!NoUpload.stage = "none"
  /\ Batch!NewJob \in JobRows /\ ~Batch!NewJob.staged /\ Batch!NewJob.status = "uploading"
  /\ Batch!NewJob.outcome = "none" /\ Batch!NewJob.size = 0
  /\ Batch!NoTask \in Tasks /\ Batch!NoTask.kind = "none" /\ Batch!NoTask.step = "none"
BY BatchConstants DEF Batch!NoUpload, Uploads, Batch!NewJob, JobRows, Batch!NoTask, Tasks, CancelKinds

\* mark_failed, of a file that is still open.
LEMMA RejectIs ==
  ASSUME BatchInv, NEW f \in BatchFiles, Batch!Reject(f)
  PROVE  /\ batch' \in BatchRows /\ batch'.status = batch.status
         /\ batch.status = "uploading" \/ batch'.revision = batch.revision
         /\ \E j \in JobRows :
              /\ batchJob' = [batchJob EXCEPT ![f] = j]
              /\ \/ j = batchJob[f] /\ batchJob[f].status \notin OpenStates
                 \/ /\ batchJob[f].status \in OpenStates
                    /\ j.status = "failed" /\ ~j.staged /\ j.outcome = "rejected"
         /\ WithinLimit(batchJob')
<1>1. /\ BatchTypes /\ batchJob \in [BatchFiles -> JobRows] /\ batchJob[f] \in JobRows
      /\ WithinLimit(batchJob)
  BY BatchKnown DEF BatchTypes
<1>2. CASE batchJob[f].status \in OpenStates
  <2> DEFINE j == [batchJob[f] EXCEPT !.status = "failed", !.outcome = "rejected", !.selected = FALSE,
                                      !.staged = FALSE]
  <2>1. batchJob' = [batchJob EXCEPT ![f] = j] /\ batch' = Batch!RevisedWhileUploading
    BY <1>2 DEF Batch!Reject, OpenStates
  <2>2. j \in JobRows /\ j.status = "failed" /\ ~j.staged /\ j.outcome = "rejected"
    BY <1>1 DEF JobRows
  <2> HIDE DEF j
  <2>3. /\ batchJob' \in [BatchFiles -> JobRows] /\ batchJob'[f] = j
        /\ \A g \in BatchFiles \ {f} : batchJob'[g] = batchJob[g]
    BY <1>1, <2>1, <2>2
  <2>4. \A g \in BatchFiles : batchJob'[g].status \in OpenStates =>
          batchJob[g].status \in OpenStates /\ batchJob'[g].size <= batchJob[g].size
    <3> TAKE g \in BatchFiles
    <3>1. batchJob[g].size \in Nat
      BY <1>1, BatchConstants DEF JobRows
    <3> QED BY <2>2, <2>3, <3>1 DEF OpenStates
  <2>5. WithinLimit(batchJob')
    BY <1>1, <2>3, <2>4, LimitKept
  <2> QED BY <1>1, <1>2, <2>1, <2>2, <2>5, RevisedRow
<1>3. CASE batchJob[f].status \notin OpenStates
  <2>1. UNCHANGED <<batchJob, batch>> /\ batchJob' = [batchJob EXCEPT ![f] = batchJob[f]]
    BY <1>1, <1>3 DEF Batch!Reject, OpenStates
  <2> QED BY <1>1, <1>3, <2>1, RevisedRow
<1> QED BY <1>2, <1>3

LEMMA UploadStepKeeps ==
  ASSUME BatchInv, NEW f \in BatchFiles,
         Batch!UploadStarts(f) \/ Batch!UploadStep(f) \/ Batch!UploadLost(f)
  PROVE  BatchInv'
<1> DEFINE j == batchJob[f]
           u == batchUpload[f]
<1>1. /\ BatchTypes /\ TaskOK /\ WithinLimit(batchJob) /\ j \in JobRows /\ u \in Uploads
      /\ BatchFileOK(j, u, f \in staging, batch.status, overtaken)
      /\ TaskFileOK(f, j, u, task, overtaken)
      /\ j.size \in Nat /\ u.size \in Nat /\ j.staged \in BOOLEAN
      /\ batch \in BatchRows
  BY BatchKnown, BatchConstants DEF JobRows, Uploads, BatchTypes
<1>2. /\ batchJob \in [BatchFiles -> JobRows] /\ batchUpload \in [BatchFiles -> Uploads]
      /\ staging \subseteq BatchFiles
      /\ batchJob = [batchJob EXCEPT ![f] = j] /\ batchUpload = [batchUpload EXCEPT ![f] = u]
  BY <1>1 DEF BatchTypes
\* The upload as the steps leave it.
<1>3. \A s \in {"checked", "receiving", "staged"} :
        /\ [u EXCEPT !.stage = s] \in Uploads /\ [u EXCEPT !.stage = s].stage = s
        /\ [u EXCEPT !.stage = s, !.fresh = TRUE] \in Uploads
        /\ [u EXCEPT !.stage = s, !.fresh = TRUE].stage = s
        /\ \A n \in 0..BatchLimit : /\ [u EXCEPT !.stage = s, !.size = n] \in Uploads
                                    /\ [u EXCEPT !.stage = s, !.size = n].stage = s
  BY <1>1 DEF Uploads
<1>4. [u EXCEPT !.cancelled = TRUE] \in Uploads /\ [u EXCEPT !.cancelled = TRUE].stage = u.stage
  BY <1>1 DEF Uploads
<1>6. u.stage \in {"checked", "receiving", "staged"} /\ ~overtaken => task.kind # "confirm" /\ batch.status = "uploading"
  BY <1>1 DEF TaskOK, BatchFileOK
<1> HIDE DEF j, u
<1>11. CASE Batch!UploadStarts(f)
  <2> DEFINE w == [Batch!NoUpload EXCEPT !.stage = "started", !.cancelled = f \in canceling, !.fresh = TRUE]
  <2>1. /\ u.stage = "none" /\ ~(f \in task.scope /\ task.step = "locked")
        /\ batchUpload' = [batchUpload EXCEPT ![f] = w]
        /\ UNCHANGED <<batch, batchJob, staging, canceling, task, client, confirmed, overtaken>>
    BY <1>11 DEF Batch!UploadStarts, Batch!Active, u
  <2>2. w \in Uploads /\ w.stage = "started"
    <3>1. \A b \in BOOLEAN :
            /\ [Batch!NoUpload EXCEPT !.stage = "started", !.cancelled = b, !.fresh = TRUE] \in Uploads
            /\ [Batch!NoUpload EXCEPT !.stage = "started", !.cancelled = b, !.fresh = TRUE].stage = "started"
      BY UploadRecords DEF Uploads
    <3>2. (f \in canceling) \in BOOLEAN
      OBVIOUS
    <3> QED BY <3>1, <3>2
  <2> HIDE DEF w
  <2>3. /\ BatchFileOK(j, w, f \in staging', batch.status, overtaken)
        /\ TaskFileOK(f, j, w, task, overtaken)
    BY <1>1, <2>1, <2>2 DEF BatchFileOK, TaskFileOK
  <2> QED BY <1>1, <1>2, <2>1, <2>2, <2>3, UploadKeeps
<1>12. CASE Batch!UploadChecks(f)
  <2>1. PICK w \in Uploads :
          /\ batchUpload' = [batchUpload EXCEPT ![f] = w]
          /\ \/ w.stage = "none"
             \/ w.stage = "checked" /\ j.status = "uploading" /\ batch.status = "uploading"
    <3>1. \/ /\ batchUpload' = [batchUpload EXCEPT ![f] = [u EXCEPT !.stage = "checked"]]
             /\ j.status = "uploading" /\ batch.status = "uploading"
          \/ batchUpload' = [batchUpload EXCEPT ![f] = Batch!NoUpload]
      BY <1>12 DEF Batch!UploadChecks, Batch!FinishUpload, Batch!Stage, j, u
    <3> QED BY <1>3, <3>1, UploadRecords
  <2>2. /\ u.stage = "started"
        /\ UNCHANGED <<batch, batchJob, staging, canceling, task, client, confirmed, overtaken>>
    BY <1>12 DEF Batch!UploadChecks, u
  <2>3. /\ BatchFileOK(j, w, f \in staging', batch.status, overtaken)
        /\ TaskFileOK(f, j, w, task, overtaken)
    BY <1>1, <2>1, <2>2 DEF BatchFileOK, TaskFileOK
  <2> QED BY <1>1, <1>2, <2>1, <2>2, <2>3, UploadKeeps
<1>13. CASE Batch!UploadReserves(f)
  <2>1. /\ u.stage = "checked"
        /\ UNCHANGED <<staging, canceling, task, client, confirmed, overtaken>>
    BY <1>13 DEF Batch!UploadReserves, u
  <2>2. PICK size \in Sizes :
          IF j.status = "uploading" /\ Batch!Fits(f, size)
          THEN /\ batchJob' = [batchJob EXCEPT ![f].size = size, ![f].error = "none"]
               /\ batchUpload' = [batchUpload EXCEPT ![f].stage = "receiving", ![f].size = size]
               /\ UNCHANGED batch
          ELSE Batch!Reject(f) /\ Batch!FinishUpload(f)
    BY <1>13 DEF Batch!UploadReserves, j
  <2>3. CASE j.status = "uploading" /\ Batch!Fits(f, size)
    <3> DEFINE k == [j EXCEPT !.size = size, !.error = "none"]
               w == [u EXCEPT !.stage = "receiving", !.size = size]
    <3>1. size \in Nat /\ size \in 0..BatchLimit
      BY <1>1, <2>3, FittingSize, BatchConstants
    <3>2. /\ batchJob' = [batchJob EXCEPT ![f] = k] /\ batchUpload' = [batchUpload EXCEPT ![f] = w]
          /\ UNCHANGED batch
      BY <1>2, <2>2, <2>3 DEF j, u
    <3>3. w \in Uploads /\ w.stage = "receiving"
      BY <1>3, <3>1
    <3>4. /\ k \in JobRows /\ k.size = size /\ k.status = j.status /\ k.error = "none"
          /\ k.outcome = j.outcome /\ k.staged = j.staged
      BY <1>1, <3>1 DEF JobRows
    <3> HIDE DEF k, w
    <3>5. WithinLimit(batchJob')
      <4>1. /\ batchJob' \in [BatchFiles -> JobRows] /\ batchJob'[f].size = size
            /\ \A g \in BatchFiles \ {f} : batchJob'[g].size = batchJob[g].size
        BY <1>2, <3>2, <3>4
      <4> QED BY <1>1, <2>3, <4>1, LimitFits
    <3>6. /\ BatchFileOK(k, w, f \in staging', batch.status, overtaken)
          /\ TaskFileOK(f, k, w, task, overtaken)
      BY <1>1, <1>6, <2>1, <2>3, <3>3, <3>4 DEF BatchFileOK, TaskFileOK
    <3> QED BY <1>1, <1>2, <2>1, <3>2, <3>3, <3>4, <3>5, <3>6, UploadKeeps
  <2>4. CASE Batch!Reject(f) /\ Batch!FinishUpload(f)
    <3>1. PICK k \in JobRows :
            /\ batchJob' = [batchJob EXCEPT ![f] = k]
            /\ \/ k = j /\ j.status \notin OpenStates
               \/ j.status \in OpenStates /\ k.status = "failed" /\ ~k.staged /\ k.outcome = "rejected"
      BY <2>4, RejectIs DEF j
    <3>2. batchUpload' = [batchUpload EXCEPT ![f] = Batch!NoUpload]
      BY <2>4 DEF Batch!FinishUpload
    <3>3. /\ BatchFileOK(k, Batch!NoUpload, f \in staging', batch.status, overtaken)
          /\ TaskFileOK(f, k, Batch!NoUpload, task, overtaken)
      BY <1>1, <1>6, <2>1, <3>1, UploadRecords DEF BatchFileOK, TaskFileOK, OpenStates
    <3> QED BY <1>1, <1>2, <2>1, <2>4, <3>1, <3>2, <3>3, UploadRecords, RejectIs, UploadKeeps
  <2> QED BY <2>2, <2>3, <2>4
<1>14. CASE Batch!UploadStages(f)
  <2> DEFINE w == [u EXCEPT !.stage = "staged", !.fresh = TRUE]
  <2>1. /\ u.stage = "receiving" /\ staging' = staging \cup {f}
        /\ batchUpload' = [batchUpload EXCEPT ![f] = w]
        /\ UNCHANGED <<batch, batchJob, canceling, task, client, confirmed, overtaken>>
    BY <1>2, <1>14 DEF Batch!UploadStages, u
  <2>2. w \in Uploads /\ w.stage = "staged"
    BY <1>3
  <2> HIDE DEF w
  <2>3. /\ BatchFileOK(j, w, f \in staging', batch.status, overtaken)
        /\ TaskFileOK(f, j, w, task, overtaken)
    BY <1>1, <2>1, <2>2 DEF BatchFileOK, TaskFileOK
  <2> QED BY <1>1, <1>2, <2>1, <2>2, <2>3, UploadKeeps
<1>15. CASE Batch!UploadInterrupted(f)
  <2>1. /\ u.stage \in {"receiving", "staged"} /\ staging' = staging \ {f} /\ Batch!Interrupt(f)
        /\ batchUpload' = [batchUpload EXCEPT ![f] = Batch!NoUpload]
        /\ UNCHANGED <<canceling, task, client, confirmed, overtaken>>
    BY <1>15 DEF Batch!UploadInterrupted, Batch!FinishUpload, u
  <2>2. PICK k \in JobRows :
          /\ batchJob' = [batchJob EXCEPT ![f] = k] /\ WithinLimit(batchJob')
          /\ batch' \in BatchRows /\ batch'.status = batch.status
          /\ \/ k = j
             \/ /\ j.status = "uploading" /\ k.status = "uploading"
                /\ ~k.staged /\ k.outcome = j.outcome
    <3>1. CASE j.status = "uploading"
      <4> DEFINE k == [j EXCEPT !.error = "interrupted", !.selected = FALSE, !.staged = FALSE, !.size = 0]
      <4>1. batchJob' = [batchJob EXCEPT ![f] = k] /\ batch' = Batch!Revised
        BY <2>1, <3>1 DEF Batch!Interrupt, j
      <4>2. /\ k \in JobRows /\ k.status = j.status /\ ~k.staged /\ k.outcome = j.outcome /\ k.size = 0
        <5>1. 0 \in 0..BatchLimit
          BY BatchConstants
        <5>2. \A n \in 0..BatchLimit :
                /\ [j EXCEPT !.error = "interrupted", !.selected = FALSE, !.staged = FALSE, !.size = n] \in JobRows
                /\ [j EXCEPT !.error = "interrupted", !.selected = FALSE, !.staged = FALSE, !.size = n].size = n
          BY <1>1 DEF JobRows
        <5>3. k.status = j.status /\ ~k.staged /\ k.outcome = j.outcome
          BY <1>1 DEF JobRows
        <5> QED BY <5>1, <5>2, <5>3
      <4> HIDE DEF k
      <4>3. /\ batchJob' \in [BatchFiles -> JobRows]
            /\ \A g \in BatchFiles : batchJob'[g].status \in OpenStates =>
                 batchJob[g].status \in OpenStates /\ batchJob'[g].size <= batchJob[g].size
        <5>1. batchJob' \in [BatchFiles -> JobRows]
          BY <1>2, <4>1, <4>2
        <5> SUFFICES ASSUME NEW g \in BatchFiles, batchJob'[g].status \in OpenStates
                     PROVE  batchJob[g].status \in OpenStates /\ batchJob'[g].size <= batchJob[g].size
          BY <5>1
        <5>2. batchJob[g].size \in Nat
          BY <1>2, BatchConstants DEF JobRows
        <5> QED BY <1>2, <4>1, <4>2, <5>2 DEF j
      <4>4. WithinLimit(batchJob')
        BY <1>1, <1>2, <4>3, LimitKept
      <4> QED BY <1>1, <3>1, <4>1, <4>2, <4>4, RevisedRow
    <3>2. CASE j.status # "uploading"
      BY <1>1, <1>2, <2>1, <3>2 DEF Batch!Interrupt, j
    <3> QED BY <3>1, <3>2
  <2>3. /\ BatchFileOK(k, Batch!NoUpload, f \in staging', batch.status, overtaken)
        /\ TaskFileOK(f, k, Batch!NoUpload, task, overtaken)
    BY <1>1, <1>6, <2>1, <2>2, UploadRecords DEF BatchFileOK, TaskFileOK
  <2> QED BY <1>1, <1>2, <1>6, <2>1, <2>2, <2>3, UploadRecords, UploadKeeps
<1>16. CASE Batch!UploadRefused(f)
  <2>1. /\ u.stage = "staged" /\ staging' = staging \ {f} /\ Batch!Reject(f)
        /\ batchUpload' = [batchUpload EXCEPT ![f] = Batch!NoUpload]
        /\ UNCHANGED <<canceling, task, client, confirmed, overtaken>>
    BY <1>16 DEF Batch!UploadRefused, Batch!FinishUpload, u
  <2>2. PICK k \in JobRows :
          /\ batchJob' = [batchJob EXCEPT ![f] = k]
          /\ \/ k = j /\ j.status \notin OpenStates
             \/ j.status \in OpenStates /\ k.status = "failed" /\ ~k.staged /\ k.outcome = "rejected"
    BY <2>1, RejectIs DEF j
  <2>3. /\ BatchFileOK(k, Batch!NoUpload, f \in staging', batch.status, overtaken)
        /\ TaskFileOK(f, k, Batch!NoUpload, task, overtaken)
    BY <1>1, <1>6, <2>1, <2>2, UploadRecords DEF BatchFileOK, TaskFileOK, OpenStates
  <2> QED BY <1>1, <1>2, <2>1, <2>2, <2>3, UploadRecords, RejectIs, UploadKeeps
<1>17. CASE Batch!UploadDuplicate(f)
  <2>1. /\ u.stage = "staged" /\ j.status = "uploading"
        /\ batchUpload' = [batchUpload EXCEPT ![f] = Batch!NoUpload]
        /\ batch' = Batch!RevisedWhileUploading
        /\ UNCHANGED <<canceling, task, client, confirmed, overtaken>>
    BY <1>17 DEF Batch!UploadDuplicate, Batch!FinishUpload, u, j
  <2>2. PICK kept \in BOOLEAN :
          /\ batchJob' = [batchJob EXCEPT ![f] = [j EXCEPT !.status = "failed", !.error = "duplicate",
                            !.outcome = "rejected", !.selected = FALSE, !.staged = kept,
                            !.size = IF kept THEN u.size ELSE 0]]
          /\ staging' = IF kept THEN staging ELSE staging \ {f}
    BY <1>17 DEF Batch!UploadDuplicate, j, u
  <2> DEFINE k == [j EXCEPT !.status = "failed", !.error = "duplicate", !.outcome = "rejected",
                            !.selected = FALSE, !.staged = kept, !.size = IF kept THEN u.size ELSE 0]
  <2>3. /\ k \in JobRows /\ k.status = "failed" /\ k.error = "duplicate" /\ k.outcome = "rejected"
        /\ k.staged = kept
    <3>1. (IF kept THEN u.size ELSE 0) \in 0..BatchLimit
      BY <1>1, BatchConstants DEF Uploads
    <3> QED BY <1>1, <3>1 DEF JobRows
  <2>4. batchJob' = [batchJob EXCEPT ![f] = k]
    BY <2>2
  <2> HIDE DEF k
  <2>5. WithinLimit(batchJob')
    <3>1. batchJob' \in [BatchFiles -> JobRows] /\ batchJob'[f] = k
          /\ \A g \in BatchFiles \ {f} : batchJob'[g] = batchJob[g]
      BY <1>2, <2>3, <2>4
    <3>2. \A g \in BatchFiles : batchJob[g].size \in Nat
      BY <1>2, BatchConstants DEF JobRows
    <3>3. \A g \in BatchFiles : batchJob'[g].status \in OpenStates =>
            batchJob[g].status \in OpenStates /\ batchJob'[g].size <= batchJob[g].size
      BY <2>3, <3>1, <3>2 DEF OpenStates
    <3> QED BY <1>1, <1>2, <3>1, <3>3, LimitKept
  <2>6. /\ BatchFileOK(k, Batch!NoUpload, f \in staging', batch.status, overtaken)
        /\ TaskFileOK(f, k, Batch!NoUpload, task, overtaken)
    BY <1>1, <1>6, <2>1, <2>2, <2>3, UploadRecords DEF BatchFileOK, TaskFileOK
  <2> QED BY <1>1, <1>2, <2>1, <2>2, <2>3, <2>4, <2>5, <2>6, UploadRecords, RevisedRow, UploadKeeps
<1>18. CASE Batch!UploadPreviewed(f)
  <2>1. /\ u.stage = "staged" /\ batchUpload' = [batchUpload EXCEPT ![f] = Batch!NoUpload]
        /\ UNCHANGED <<canceling, task, client, confirmed, overtaken>>
    BY <1>18 DEF Batch!UploadPreviewed, Batch!FinishUpload, u
  <2>2. CASE j.status = "uploading" /\ Batch!Fits(f, u.size)
    <3> DEFINE k == [j EXCEPT !.status = "awaiting", !.error = "none", !.outcome = "none",
                              !.selected = TRUE, !.staged = TRUE, !.size = u.size]
    <3>1. batchJob' = [batchJob EXCEPT ![f] = k] /\ batch' = Batch!Revised /\ UNCHANGED staging
      BY <1>18, <2>2 DEF Batch!UploadPreviewed, j, u
    <3>2. /\ k \in JobRows /\ k.status = "awaiting" /\ k.outcome = "none" /\ k.staged
          /\ k.size = u.size
      <4>1. u.size \in 0..BatchLimit
        BY <1>1 DEF Uploads
      <4> QED BY <1>1, <4>1 DEF JobRows
    <3> HIDE DEF k
    <3>3. WithinLimit(batchJob')
      <4>1. /\ batchJob' \in [BatchFiles -> JobRows] /\ batchJob'[f].size = u.size
            /\ \A g \in BatchFiles \ {f} : batchJob'[g].size = batchJob[g].size
        BY <1>2, <3>1, <3>2
      <4> QED BY <1>1, <2>2, <4>1, LimitFits
    <3>4. /\ BatchFileOK(k, Batch!NoUpload, f \in staging', batch.status, overtaken)
          /\ TaskFileOK(f, k, Batch!NoUpload, task, overtaken)
      BY <1>1, <1>6, <2>1, <2>2, <3>1, <3>2, UploadRecords DEF BatchFileOK, TaskFileOK
    <3> QED BY <1>1, <1>2, <1>6, <2>1, <3>1, <3>2, <3>3, <3>4, UploadRecords, RevisedRow, UploadKeeps
  <2>3. CASE Batch!Reject(f) /\ staging' = staging \ {f}
    <3>1. PICK k \in JobRows :
            /\ batchJob' = [batchJob EXCEPT ![f] = k]
            /\ \/ k = j /\ j.status \notin OpenStates
               \/ j.status \in OpenStates /\ k.status = "failed" /\ ~k.staged /\ k.outcome = "rejected"
      BY <2>3, RejectIs DEF j
    <3>2. /\ BatchFileOK(k, Batch!NoUpload, f \in staging', batch.status, overtaken)
          /\ TaskFileOK(f, k, Batch!NoUpload, task, overtaken)
      BY <1>1, <1>6, <2>1, <2>3, <3>1, UploadRecords DEF BatchFileOK, TaskFileOK, OpenStates
    <3> QED BY <1>1, <1>2, <2>1, <2>3, <3>1, <3>2, UploadRecords, RejectIs, UploadKeeps
  <2> QED BY <1>18, <2>2, <2>3 DEF Batch!UploadPreviewed, j, u
<1>19. CASE Batch!UploadLost(f)
  <2> DEFINE w == [u EXCEPT !.cancelled = TRUE]
  <2>1. /\ u.stage # "none" /\ batchUpload' = [batchUpload EXCEPT ![f] = w]
        /\ UNCHANGED <<batch, batchJob, staging, canceling, task, client, confirmed, overtaken>>
    BY <1>19 DEF Batch!UploadLost, Batch!Active, u
  <2>2. w \in Uploads /\ w.stage = u.stage
    BY <1>4
  <2> HIDE DEF w
  <2>3. /\ BatchFileOK(j, w, f \in staging', batch.status, overtaken)
        /\ TaskFileOK(f, j, w, task, overtaken)
    BY <1>1, <2>1, <2>2 DEF BatchFileOK, TaskFileOK
  <2> QED BY <1>1, <1>2, <2>1, <2>2, <2>3, UploadKeeps
<1> QED BY <1>11, <1>12, <1>13, <1>14, <1>15, <1>16, <1>17, <1>18, <1>19 DEF Batch!UploadStep

----------------------------------------------------------------------------
(* Cancellation, confirmation, the client and time *)

\* A step that changes no row of a file and nothing in staging.
LEMMA LockKeeps ==
  ASSUME BatchInv, UNCHANGED <<batchJob, staging, confirmed, overtaken>>,
         batch' \in BatchRows, batch'.status = batch.status, batch'.revision = batch.revision,
         batchUpload' \in [BatchFiles -> Uploads],
         \A f \in BatchFiles : batchUpload'[f].stage = batchUpload[f].stage,
         canceling' \subseteq BatchFiles, task' \in Tasks,
         client' \in [here : BOOLEAN, locked : BOOLEAN, exits : BOOLEAN, seen : Nat],
         task'.kind \in CancelKinds => batch.status \in {"uploading", "confirming"},
         task'.kind = "file" => batch.status = "uploading",
         task'.kind = "confirm" => batch.status = "confirming",
         \A f \in BatchFiles : TaskFileOK(f, batchJob[f], batchUpload[f], task', overtaken)
  PROVE  BatchInv'
<1>1. BatchTypes /\ TaskOK /\ RevisionOK /\ WithinLimit(batchJob)
  BY LimitIs DEF BatchInv
<1>2. BatchTypes'
  BY <1>1 DEF BatchTypes
<1>3. BatchFilesOK'
  <2> SUFFICES ASSUME NEW f \in BatchFiles
               PROVE  /\ BatchFileOK(batchJob'[f], batchUpload'[f], f \in staging', batch'.status, overtaken')
                      /\ TaskFileOK(f, batchJob'[f], batchUpload'[f], task', overtaken')
    BY DEF BatchFilesOK
  <2>1. BatchFileOK(batchJob[f], batchUpload[f], f \in staging, batch.status, overtaken)
    BY BatchKnown
  <2> QED BY <2>1 DEF BatchFileOK, TaskFileOK
<1>4. TaskOK' /\ RevisionOK'
  BY <1>1 DEF TaskOK, RevisionOK
<1>5. (Batch!BatchStaysWithinLimit)'
  BY <1>1, LimitIs
<1> QED BY <1>2, <1>3, <1>4, <1>5 DEF BatchInv

\* What is known of the Batch.
LEMMA LockKnown ==
  ASSUME BatchInv
  PROVE  /\ BatchTypes /\ TaskOK /\ RevisionOK /\ WithinLimit(batchJob)
         /\ batch \in BatchRows /\ task \in Tasks /\ task.scope \in SUBSET BatchFiles
         /\ batchJob \in [BatchFiles -> JobRows] /\ batchUpload \in [BatchFiles -> Uploads]
         /\ staging \subseteq BatchFiles /\ canceling \subseteq BatchFiles /\ confirmed \in Nat
         /\ client \in [here : BOOLEAN, locked : BOOLEAN, exits : BOOLEAN, seen : Nat]
BY LimitIs DEF BatchInv, BatchTypes, Tasks

\* Nobody holds batch_lock.
LEMMA NoTaskOK ==
  ASSUME NEW f, NEW j, NEW u, NEW late
  PROVE  TaskFileOK(f, j, u, Batch!NoTask, late)
BY UploadRecords DEF TaskFileOK

LEMMA LockEnds ==
  ASSUME BatchInv, task' = Batch!NoTask, canceling' \subseteq BatchFiles,
         UNCHANGED <<batch, batchJob, staging, batchUpload, client, confirmed, overtaken>>
  PROVE  BatchInv'
BY LockKnown, LockKeeps, NoTaskOK, UploadRecords DEF CancelKinds

\* quiesce_uploads.
LEMMA BeginCancelKeeps ==
  ASSUME BatchInv, NEW kind \in CancelKinds, NEW scope \in SUBSET BatchFiles,
         Batch!BeginCancel(kind, scope),
         kind = "file" => batch.status = "uploading",
         kind # "file" => scope = {f \in BatchFiles : ~Batch!Gone(f)},
         UNCHANGED <<batch, batchJob, staging, confirmed, overtaken>>,
         client' \in [here : BOOLEAN, locked : BOOLEAN, exits : BOOLEAN, seen : Nat]
  PROVE  BatchInv'
<1> DEFINE t == [Batch!NoTask EXCEPT !.kind = kind, !.step = "waiting", !.scope = scope,
                                     !.waits = {f \in scope : Batch!Active(f)}]
<1>1. /\ batch.status \in {"uploading", "confirming"} /\ task' = t
      /\ canceling' = canceling \cup scope
      /\ batchUpload' = [f \in BatchFiles |->
           IF f \in scope /\ Batch!Active(f) THEN [batchUpload[f] EXCEPT !.cancelled = TRUE] ELSE batchUpload[f]]
  BY DEF Batch!BeginCancel, Batch!Open
<1>2. t \in Tasks /\ t.kind = kind /\ t.step = "waiting" /\ t.scope = scope
  <2>1. {f \in scope : Batch!Active(f)} \in SUBSET BatchFiles
    OBVIOUS
  <2>2. \A w \in SUBSET BatchFiles :
          LET n == [Batch!NoTask EXCEPT !.kind = kind, !.step = "waiting", !.scope = scope, !.waits = w]
          IN  n \in Tasks /\ n.kind = kind /\ n.step = "waiting" /\ n.scope = scope
    BY UploadRecords DEF Tasks
  <2> QED BY <2>1, <2>2
<1> HIDE DEF t
<1>3. /\ batchUpload' \in [BatchFiles -> Uploads]
      /\ \A f \in BatchFiles : batchUpload'[f].stage = batchUpload[f].stage
  <2>1. \A f \in BatchFiles :
          /\ batchUpload[f] \in Uploads
          /\ [batchUpload[f] EXCEPT !.cancelled = TRUE] \in Uploads
          /\ [batchUpload[f] EXCEPT !.cancelled = TRUE].stage = batchUpload[f].stage
    BY LockKnown DEF Uploads
  <2> QED BY <1>1, <2>1
<1>4. \A f \in BatchFiles : TaskFileOK(f, batchJob[f], batchUpload[f], task', overtaken)
  BY <1>1, <1>2 DEF TaskFileOK, Batch!Gone, CancelKinds
<1>5. canceling' \subseteq BatchFiles /\ task' \in Tasks /\ task'.kind = kind
  BY <1>1, <1>2, LockKnown
<1> QED BY <1>1, <1>3, <1>4, <1>5, LockKnown, LockKeeps DEF CancelKinds

LEMMA CancelStepKeeps ==
  ASSUME BatchInv,
         \/ Batch!CancelBatch \/ (\E f \in BatchFiles : Batch!CancelFile(f)) \/ Batch!CleanUp
         \/ Batch!ExitCancels \/ Batch!CancelLocks \/ Batch!CancelGivesUp \/ Batch!CancelLost
  PROVE  BatchInv'
<1>1. CASE Batch!CancelBatch
  BY <1>1, LockKnown, BeginCancelKeeps DEF Batch!CancelBatch, CancelKinds
<1>2. ASSUME NEW f \in BatchFiles, Batch!CancelFile(f) PROVE BatchInv'
  BY <1>2, LockKnown, BeginCancelKeeps DEF Batch!CancelFile, CancelKinds
<1>3. CASE Batch!CleanUp
  BY <1>3, LockKnown, BeginCancelKeeps DEF Batch!CleanUp, CancelKinds
<1>4. CASE Batch!ExitCancels
  <2>1. client' \in [here : BOOLEAN, locked : BOOLEAN, exits : BOOLEAN, seen : Nat]
    BY <1>4, LockKnown DEF Batch!ExitCancels
  <2> QED BY <1>4, <2>1, BeginCancelKeeps DEF Batch!ExitCancels, CancelKinds
<1>5. CASE Batch!CancelLocks
  <2> DEFINE t == [task EXCEPT !.step = "locked"]
  <2>1. /\ task.kind \in CancelKinds /\ task' = t
        /\ \A f \in task.scope : batchUpload[f].stage = "none"
        /\ UNCHANGED <<batch, batchJob, staging, batchUpload, canceling, client, confirmed, overtaken>>
    BY <1>5 DEF Batch!CancelLocks, Batch!IsCancel, Batch!Active, CancelKinds
  <2>2. t \in Tasks /\ t.kind = task.kind /\ t.step = "locked" /\ t.scope = task.scope
    BY LockKnown DEF Tasks
  <2> HIDE DEF t
  <2>3. \A f \in BatchFiles : TaskFileOK(f, batchJob[f], batchUpload[f], t, overtaken)
    BY <2>1, <2>2, BatchKnown DEF TaskFileOK, CancelKinds
  <2> QED BY <2>1, <2>2, <2>3, LockKnown, LockKeeps DEF TaskOK
<1>6. CASE Batch!CancelGivesUp
  BY <1>6, LockKnown, LockEnds DEF Batch!CancelGivesUp, Batch!Ends
<1>7. CASE Batch!CancelLost
  BY <1>7, LockKnown, LockEnds DEF Batch!CancelLost, Batch!Ends
<1> QED BY <1>1, <1>2, <1>3, <1>4, <1>5, <1>6, <1>7

\* What one decision on a file leaves of the rows.
LEMMA DecidedWithin ==
  ASSUME BatchInv, NEW next \in [BatchFiles -> JobRows],
         \A f \in BatchFiles : next[f] = batchJob[f] \/ next[f].status \notin OpenStates
                               \/ (next[f].status = batchJob[f].status /\ next[f].size = batchJob[f].size)
  PROVE  WithinLimit(next)
<1>1. \A f \in BatchFiles : batchJob[f].size \in Nat
  BY LockKnown, BatchConstants DEF JobRows
<1> QED BY <1>1, LockKnown, LimitKept

LEMMA RemovesKeeps ==
  ASSUME BatchInv, Batch!CancelRemoves
  PROVE  BatchInv'
<1> DEFINE files == {f \in task.scope : ~Batch!Gone(f)}
           taken == {f \in files : Batch!Removable(f)}
<1>1. /\ task.kind \in CancelKinds /\ task.step = "locked" /\ task' = Batch!NoTask
      /\ canceling' = canceling \ task.scope
      /\ UNCHANGED <<batchUpload, client, confirmed, overtaken>>
  BY DEF Batch!CancelRemoves, Batch!IsCancel, Batch!Ends, CancelKinds
<1>2. CASE UNCHANGED <<staging, batchJob, batch>>
  BY <1>1, <1>2, LockKnown, LockEnds
<1>3. CASE /\ staging' = staging \ taken
           /\ batchJob' = [f \in BatchFiles |-> IF f \in files THEN [Batch!NewJob EXCEPT !.status = "gone"] ELSE batchJob[f]]
           /\ batch' = IF task.kind = "file" THEN Batch!Revised ELSE [batch EXCEPT !.status = "gone"]
  <2> DEFINE gone == [Batch!NewJob EXCEPT !.status = "gone"]
  <2>1. gone \in JobRows /\ gone.status = "gone" /\ ~gone.staged
    BY UploadRecords DEF JobRows
  <2>2. /\ batchJob' \in [BatchFiles -> JobRows]
        /\ \A f \in BatchFiles : batchJob'[f] = IF f \in files THEN gone ELSE batchJob[f]
    BY <1>3, <2>1, LockKnown
  <2> HIDE DEF gone
  <2>3. /\ batch' \in BatchRows
        /\ \/ task.kind = "file" /\ batch'.status = batch.status /\ batch.status = "uploading"
           \/ task.kind # "file" /\ batch'.status = "gone"
    <3>1. [batch EXCEPT !.status = "gone"] \in BatchRows /\ [batch EXCEPT !.status = "gone"].status = "gone"
      BY LockKnown DEF BatchRows
    <3> QED BY <1>3, <3>1, LockKnown, RevisedRow DEF TaskOK
  <2>4. BatchTypes'
    BY <1>1, <1>3, <2>2, <2>3, LockKnown, UploadRecords DEF BatchTypes
  <2>5. BatchFilesOK'
    <3> SUFFICES ASSUME NEW f \in BatchFiles
                 PROVE  /\ BatchFileOK(batchJob'[f], batchUpload[f], f \in staging', batch'.status, overtaken)
                        /\ TaskFileOK(f, batchJob'[f], batchUpload[f], Batch!NoTask, overtaken)
      BY <1>1 DEF BatchFilesOK
    <3>1. CASE f \in files
      <4>1. batchUpload[f].stage = "none"
        BY <1>1, <3>1, BatchKnown DEF TaskFileOK
      <4>2. ~overtaken => f \notin staging'
        BY <1>3, <3>1, <4>1, BatchKnown DEF BatchFileOK, Batch!Removable
      <4> QED BY <2>1, <2>2, <3>1, <4>1, <4>2, NoTaskOK DEF BatchFileOK
    <3>2. CASE f \notin files
      <4>1. task.kind # "file" => batchJob[f].status = "gone"
        BY <1>1, <3>2, BatchKnown DEF TaskFileOK, Batch!Gone, CancelKinds
      <4>2. batchJob'[f] = batchJob[f] /\ (f \in staging' => f \in staging)
        BY <1>3, <2>2, <3>2
      <4> QED BY <2>3, <4>1, <4>2, BatchKnown, NoTaskOK DEF BatchFileOK
    <3> QED BY <3>1, <3>2
  <2>6. TaskOK' /\ RevisionOK'
    BY <1>1, <2>3, LockKnown, UploadRecords DEF TaskOK, RevisionOK, CancelKinds
  <2>7. WithinLimit(batchJob')
    BY <2>1, <2>2, DecidedWithin DEF OpenStates
  <2> QED BY <2>4, <2>5, <2>6, <2>7, LimitIs DEF BatchInv
<1> QED BY <1>2, <1>3 DEF Batch!CancelRemoves

\* confirm_batch_jobs begins with what the rows say.
LEMMA ConfirmTaskIs ==
  ASSUME NEW rows \in [BatchFiles -> JobRows]
  PROVE  /\ Batch!ConfirmTask(rows) \in Tasks /\ Batch!ConfirmTask(rows).kind = "confirm"
         /\ \A f \in BatchFiles : \A u, late :
              TaskFileOK(f, rows[f], u, Batch!ConfirmTask(rows), late)
<1> DEFINE scope == {f \in BatchFiles : rows[f].status # "gone" /\ rows[f].outcome = "none"}
           chosen == {f \in BatchFiles : rows[f].selected}
           staged == {f \in BatchFiles : rows[f].staged}
           t == [Batch!NoTask EXCEPT !.kind = "confirm", !.step = "file", !.scope = scope,
                                     !.chosen = chosen, !.staged = staged]
<1>1. Batch!ConfirmTask(rows) = t
  BY DEF Batch!ConfirmTask
<1>2. scope \in SUBSET BatchFiles /\ chosen \in SUBSET BatchFiles /\ staged \in SUBSET BatchFiles
  OBVIOUS
<1>3. \A f \in BatchFiles : /\ f \in scope <=> rows[f].status # "gone" /\ rows[f].outcome = "none"
                            /\ f \in staged <=> rows[f].staged
  OBVIOUS
<1> HIDE DEF scope, chosen, staged
<1>4. /\ t \in Tasks /\ t.kind = "confirm" /\ t.step = "file"
      /\ t.scope = scope /\ t.staged = staged
  BY <1>2, UploadRecords DEF Tasks
<1> HIDE DEF t
<1> QED BY <1>1, <1>3, <1>4 DEF TaskFileOK

\* A file is decided, and nothing of it stays in staging.
LEMMA DecideKeeps ==
  ASSUME BatchInv, NEW f \in BatchFiles, Batch!Confirming(f),
         NEW status \in {"committed", "failed"},
         NEW outcome \in {"imported", "rejected", "failed", "not_attempted"},
         Batch!Decide(f, status, outcome),
         staging' \subseteq staging, \A g \in BatchFiles \ {f} : g \in staging' <=> g \in staging,
         ~overtaken => f \notin staging',
         UNCHANGED <<batch, batchUpload, canceling, client, confirmed, overtaken>>
  PROVE  BatchInv'
<1> DEFINE k == [batchJob[f] EXCEPT !.status = status, !.outcome = outcome, !.staged = FALSE]
           t == [task EXCEPT !.scope = @ \ {f}]
<1>1. batchJob' = [batchJob EXCEPT ![f] = k] /\ task' = t /\ task.kind = "confirm"
  BY DEF Batch!Decide, Batch!Confirming
<1>2. k \in JobRows /\ k.status = status /\ k.outcome = outcome /\ ~k.staged
  BY LockKnown DEF JobRows
<1>3. /\ t \in Tasks /\ t.kind = task.kind /\ t.step = task.step /\ t.scope = task.scope \ {f}
      /\ t.staged = task.staged
  BY LockKnown DEF Tasks
<1> HIDE DEF k, t
<1>4. /\ batchJob' \in [BatchFiles -> JobRows] /\ batchJob'[f] = k
      /\ \A g \in BatchFiles \ {f} : batchJob'[g] = batchJob[g]
  BY <1>1, <1>2, LockKnown
<1>5. BatchTypes'
  BY <1>1, <1>3, <1>4, LockKnown DEF BatchTypes
<1>6. batch.status = "confirming"
  BY <1>1, LockKnown DEF TaskOK
<1>7. BatchFilesOK'
  <2> SUFFICES ASSUME NEW g \in BatchFiles
               PROVE  /\ BatchFileOK(batchJob'[g], batchUpload[g], g \in staging', batch.status, overtaken)
                      /\ TaskFileOK(g, batchJob'[g], batchUpload[g], t, overtaken)
    BY <1>1 DEF BatchFilesOK
  <2>1. CASE g = f
    BY <1>1, <1>2, <1>3, <1>4, <1>6, <2>1, BatchKnown DEF BatchFileOK, TaskFileOK
  <2>2. CASE g # f
    <3>1. (g \in staging') = (g \in staging)
      BY <2>2
    <3>2. TaskFileOK(g, batchJob[g], batchUpload[g], t, overtaken)
      BY <1>1, <1>3, <2>2, BatchKnown DEF TaskFileOK
    <3> QED BY <1>4, <2>2, <3>1, <3>2, BatchKnown
  <2> QED BY <2>1, <2>2
<1>8. TaskOK' /\ RevisionOK'
  BY <1>1, <1>3, LockKnown DEF TaskOK, RevisionOK, CancelKinds
<1>9. WithinLimit(batchJob')
  BY <1>2, <1>4, DecidedWithin DEF OpenStates
<1> QED BY <1>5, <1>7, <1>8, <1>9, LimitIs DEF BatchInv

LEMMA ConfirmStepKeeps ==
  ASSUME BatchInv,
         \/ \E selected \in SUBSET Batch!Accepted : Batch!Confirm(selected)
         \/ \E f \in BatchFiles : Batch!ConfirmsFile(f) \/ Batch!FinishesFile(f)
         \/ Batch!ConfirmFails \/ Batch!CompleteBatch \/ Batch!ConfirmAgain \/ Batch!ConfirmLost
  PROVE  BatchInv'
<1>1. ASSUME NEW selected \in SUBSET Batch!Accepted, Batch!Confirm(selected)
      PROVE  BatchInv'
  <2>1. /\ batch.status = "uploading" /\ client.seen = batch.revision /\ Batch!Unresolved = {}
        /\ batch' = [Batch!Revised EXCEPT !.status = "confirming"]
        /\ batchJob' = [f \in BatchFiles |-> [batchJob[f] EXCEPT !.selected = f \in selected]]
        /\ task' = Batch!ConfirmTask(batchJob') /\ confirmed' = client.seen
        /\ overtaken' = \E f \in BatchFiles : batchUpload[f].stage = "checked"
        /\ client' = [client EXCEPT !.locked = TRUE]
        /\ UNCHANGED <<staging, batchUpload, canceling>>
    BY <1>1 DEF Batch!Confirm, Batch!LocksClient
  <2>2. /\ batchJob' \in [BatchFiles -> JobRows]
        /\ \A f \in BatchFiles :
             /\ batchJob'[f].status = batchJob[f].status /\ batchJob'[f].error = batchJob[f].error
             /\ batchJob'[f].outcome = batchJob[f].outcome /\ batchJob'[f].size = batchJob[f].size
             /\ batchJob'[f].staged = batchJob[f].staged
    <3>1. \A f \in BatchFiles : \A b \in BOOLEAN :
            LET k == [batchJob[f] EXCEPT !.selected = b]
            IN  /\ k \in JobRows /\ k.status = batchJob[f].status /\ k.error = batchJob[f].error
                /\ k.outcome = batchJob[f].outcome /\ k.size = batchJob[f].size
                /\ k.staged = batchJob[f].staged
      BY LockKnown DEF JobRows
    <3>2. \A f \in BatchFiles : (f \in selected) \in BOOLEAN
      OBVIOUS
    <3> QED BY <2>1, <3>1, <3>2
  <2>3. batch' \in BatchRows /\ batch'.status = "confirming" /\ batch'.revision = batch.revision + 1
    <3>1. Batch!Revised \in BatchRows /\ Batch!Revised.revision = batch.revision + 1
      BY LockKnown, RevisedRow
    <3> QED BY <2>1, <3>1 DEF BatchRows
  <2>4. /\ client' \in [here : BOOLEAN, locked : BOOLEAN, exits : BOOLEAN, seen : Nat]
        /\ confirmed' \in Nat /\ overtaken' \in BOOLEAN
    BY <2>1, LockKnown
  <2>5. /\ task' \in Tasks /\ task'.kind = "confirm"
        /\ \A f \in BatchFiles : TaskFileOK(f, batchJob'[f], batchUpload[f], task', overtaken')
    BY <2>1, <2>2, ConfirmTaskIs
  <2>6. BatchTypes'
    BY <2>1, <2>2, <2>3, <2>4, <2>5, LockKnown DEF BatchTypes
  <2>7. BatchFilesOK'
    <3> SUFFICES ASSUME NEW f \in BatchFiles
                 PROVE  BatchFileOK(batchJob'[f], batchUpload[f], f \in staging, "confirming", overtaken')
      BY <2>1, <2>3, <2>5 DEF BatchFilesOK
    <3>1. ~overtaken
      BY <2>1, LockKnown DEF TaskOK
    <3>2. ~(batchJob[f].status = "uploading" /\ batchJob[f].error = "none")
      BY <2>1 DEF Batch!Unresolved
    <3>3. ~overtaken' => batchUpload[f].stage # "checked"
      BY <2>1
    <3>4. ~overtaken' => batchUpload[f].stage \notin {"checked", "receiving", "staged"}
      BY <3>1, <3>2, <3>3, BatchKnown DEF BatchFileOK
    <3> QED BY <2>2, <3>1, <3>4, BatchKnown DEF BatchFileOK
  <2>8. TaskOK' /\ RevisionOK'
    BY <2>1, <2>3, <2>5 DEF TaskOK, RevisionOK, CancelKinds
  <2>9. WithinLimit(batchJob')
    BY <2>2, DecidedWithin
  <2> QED BY <2>6, <2>7, <2>8, <2>9, LimitIs DEF BatchInv
<1>2. ASSUME NEW f \in BatchFiles, Batch!ConfirmsFile(f)
      PROVE  BatchInv'
  <2>1. /\ Batch!Confirming(f) /\ staging' = staging \ {f}
        /\ UNCHANGED <<batch, batchUpload, canceling, client, confirmed, overtaken>>
        /\ Batch!Decide(f, "committed", "imported") \/ Batch!Decide(f, "failed", "rejected")
    BY <1>2 DEF Batch!ConfirmsFile
  <2> QED BY <2>1, DecideKeeps
<1>3. ASSUME NEW f \in BatchFiles, Batch!FinishesFile(f)
      PROVE  BatchInv'
  <2>1. /\ Batch!Confirming(f)
        /\ staging' = IF Batch!Dropped(f) THEN staging \ {f} ELSE staging
        /\ UNCHANGED <<batch, batchUpload, canceling, client, confirmed, overtaken>>
        /\ Batch!Decide(f, "failed", "failed") \/ Batch!Decide(f, "failed", "not_attempted")
    BY <1>3 DEF Batch!FinishesFile
  <2>2. ~overtaken => f \notin staging'
    <3> SUFFICES ASSUME ~overtaken, f \in staging PROVE Batch!Dropped(f)
      BY <2>1
    <3>1. task.kind = "confirm" /\ batch.status = "confirming"
      BY <2>1, LockKnown DEF Batch!Confirming, TaskOK
    <3> QED BY <3>1, BatchKnown DEF BatchFileOK, TaskFileOK, Batch!Dropped
  <2> QED BY <2>1, <2>2, DecideKeeps
<1>4. CASE Batch!ConfirmFails
  BY <1>4, LockKnown, LockEnds DEF Batch!ConfirmFails, Batch!Ends
<1>5. CASE Batch!CompleteBatch
  <2>1. /\ task.kind = "confirm" /\ task.scope = {} /\ task' = Batch!NoTask
        /\ batch' = [Batch!Revised EXCEPT !.status = "completed"]
        /\ UNCHANGED <<batchJob, staging, batchUpload, canceling, client, confirmed, overtaken>>
    BY <1>5 DEF Batch!CompleteBatch, Batch!EveryFileDecided, Batch!Ends
  <2>2. batch' \in BatchRows /\ batch'.status = "completed" /\ batch'.revision = batch.revision + 1
    <3>1. Batch!Revised \in BatchRows /\ Batch!Revised.revision = batch.revision + 1
      BY LockKnown, RevisedRow
    <3> QED BY <2>1, <3>1 DEF BatchRows
  <2>3. batch.status = "confirming"
    BY <2>1, LockKnown DEF TaskOK
  <2>4. BatchTypes'
    BY <2>1, <2>2, LockKnown, UploadRecords DEF BatchTypes
  <2>5. BatchFilesOK'
    <3> SUFFICES ASSUME NEW f \in BatchFiles
                 PROVE  BatchFileOK(batchJob[f], batchUpload[f], f \in staging, "completed", overtaken)
      BY <2>1, <2>2, NoTaskOK DEF BatchFilesOK
    <3> QED BY <2>1, <2>3, BatchKnown DEF BatchFileOK, TaskFileOK
  <2>6. TaskOK' /\ RevisionOK'
    <3>1. confirmed \in Nat /\ batch.revision \in Nat
      BY LockKnown DEF BatchRows
    <3> QED BY <2>1, <2>2, <2>3, <3>1, LockKnown, UploadRecords DEF TaskOK, RevisionOK, CancelKinds
  <2>7. WithinLimit(batchJob')
    BY <2>1, LockKnown
  <2> QED BY <2>4, <2>5, <2>6, <2>7, LimitIs DEF BatchInv
<1>6. CASE Batch!ConfirmAgain
  <2>1. /\ batch.status = "confirming" /\ task' = Batch!ConfirmTask(batchJob)
        /\ UNCHANGED <<batch, batchJob, staging, batchUpload, canceling, client, confirmed, overtaken>>
    BY <1>6 DEF Batch!ConfirmAgain
  <2> QED BY <2>1, LockKnown, ConfirmTaskIs, LockKeeps DEF CancelKinds
<1>7. CASE Batch!ConfirmLost
  <2> DEFINE t == [task EXCEPT !.cancelled = TRUE]
  <2>1. /\ task' = t
        /\ UNCHANGED <<batch, batchJob, staging, batchUpload, canceling, client, confirmed, overtaken>>
    BY <1>7 DEF Batch!ConfirmLost
  <2>2. /\ t \in Tasks /\ t.kind = task.kind /\ t.step = task.step /\ t.scope = task.scope
        /\ t.staged = task.staged
    BY LockKnown DEF Tasks
  <2> HIDE DEF t
  <2>3. \A f \in BatchFiles : TaskFileOK(f, batchJob[f], batchUpload[f], t, overtaken)
    BY <2>2, BatchKnown DEF TaskFileOK
  <2> QED BY <2>1, <2>2, <2>3, LockKnown, LockKeeps DEF TaskOK
<1> QED BY <1>1, <1>2, <1>3, <1>4, <1>5, <1>6, <1>7

LEMMA ClientStepKeeps ==
  ASSUME BatchInv, Batch!ClientReviews \/ Batch!Heartbeat \/ Batch!TimePasses \/ Batch!ClientGoes
  PROVE  BatchInv'
<1>1. \A b \in BOOLEAN :
        /\ [batch EXCEPT !.stale = b] \in BatchRows
        /\ [batch EXCEPT !.stale = b].status = batch.status
        /\ [batch EXCEPT !.stale = b].revision = batch.revision
  BY LockKnown DEF BatchRows
<1>2. \A f \in BatchFiles : TaskFileOK(f, batchJob[f], batchUpload[f], task, overtaken)
  BY BatchKnown
<1>3. CASE Batch!ClientReviews
  <2>1. client' \in [here : BOOLEAN, locked : BOOLEAN, exits : BOOLEAN, seen : Nat]
    BY <1>3, LockKnown DEF Batch!ClientReviews, BatchRows
  <2> QED BY <1>2, <1>3, <2>1, LockKnown, LockKeeps DEF Batch!ClientReviews, TaskOK
<1>4. CASE Batch!Heartbeat
  BY <1>1, <1>2, <1>4, LockKnown, LockKeeps DEF Batch!Heartbeat, TaskOK
<1>5. CASE Batch!TimePasses
  <2>1. /\ batch' = [batch EXCEPT !.stale = TRUE]
        /\ batchUpload' = [f \in BatchFiles |-> [batchUpload[f] EXCEPT !.fresh = FALSE]]
        /\ UNCHANGED <<batchJob, staging, canceling, task, client, confirmed, overtaken>>
    BY <1>5 DEF Batch!TimePasses
  <2>2. \A f \in BatchFiles : /\ [batchUpload[f] EXCEPT !.fresh = FALSE] \in Uploads
                              /\ [batchUpload[f] EXCEPT !.fresh = FALSE].stage = batchUpload[f].stage
    BY LockKnown DEF Uploads
  <2>3. /\ batchUpload' \in [BatchFiles -> Uploads]
        /\ \A f \in BatchFiles : batchUpload'[f].stage = batchUpload[f].stage
    BY <2>1, <2>2
  <2> QED BY <1>1, <1>2, <2>1, <2>3, LockKnown, LockKeeps DEF TaskOK
<1>6. CASE Batch!ClientGoes
  <2>1. /\ client' = [client EXCEPT !.here = FALSE, !.exits = batch.status = "uploading"]
        /\ batchUpload' = [f \in BatchFiles |-> IF Batch!Active(f) THEN [batchUpload[f] EXCEPT !.cancelled = TRUE]
                                                ELSE batchUpload[f]]
        /\ UNCHANGED <<batch, batchJob, staging, canceling, confirmed, overtaken>>
    BY <1>6 DEF Batch!ClientGoes
  <2>8. \/ task.kind = "confirm" /\ task' = [task EXCEPT !.cancelled = TRUE]
        \/ task' = Batch!NoTask
        \/ task' = task
    BY <1>6 DEF Batch!ClientGoes
  <2>2. client' \in [here : BOOLEAN, locked : BOOLEAN, exits : BOOLEAN, seen : Nat]
    <3>1. \A b \in BOOLEAN : [client EXCEPT !.here = FALSE, !.exits = b] \in
            [here : BOOLEAN, locked : BOOLEAN, exits : BOOLEAN, seen : Nat]
      BY LockKnown
    <3>2. (batch.status = "uploading") \in BOOLEAN
      OBVIOUS
    <3> QED BY <2>1, <3>1, <3>2
  <2>3. \A f \in BatchFiles : /\ batchUpload[f] \in Uploads
                              /\ [batchUpload[f] EXCEPT !.cancelled = TRUE] \in Uploads
                              /\ [batchUpload[f] EXCEPT !.cancelled = TRUE].stage = batchUpload[f].stage
    BY LockKnown DEF Uploads
  <2>4. /\ batchUpload' \in [BatchFiles -> Uploads]
        /\ \A f \in BatchFiles : batchUpload'[f].stage = batchUpload[f].stage
    BY <2>1, <2>3
  <2>5. CASE task.kind = "confirm" /\ task' = [task EXCEPT !.cancelled = TRUE]
    <3> DEFINE t == [task EXCEPT !.cancelled = TRUE]
    <3>1. /\ t \in Tasks /\ t.kind = task.kind /\ t.step = task.step /\ t.scope = task.scope
          /\ t.staged = task.staged
      BY LockKnown DEF Tasks
    <3>2. task' = t
      BY <2>5
    <3> HIDE DEF t
    <3>3. \A f \in BatchFiles : TaskFileOK(f, batchJob[f], batchUpload[f], t, overtaken)
      BY <1>2, <3>1 DEF TaskFileOK
    <3> QED BY <2>1, <2>2, <2>4, <3>1, <3>2, <3>3, LockKnown, LockKeeps DEF TaskOK
  <2>6. CASE task' = Batch!NoTask
    BY <2>1, <2>2, <2>4, <2>6, LockKnown, LockKeeps, NoTaskOK, UploadRecords DEF CancelKinds
  <2>7. CASE task' = task
    BY <1>2, <2>1, <2>2, <2>4, <2>7, LockKnown, LockKeeps DEF TaskOK
  <2> QED BY <2>5, <2>6, <2>7, <2>8
<1> QED BY <1>3, <1>4, <1>5, <1>6

----------------------------------------------------------------------------
(* The theorem *)

LEMMA BatchInit ==
  ASSUME Batch!Init
  PROVE  BatchInv
<1>1. /\ batch = [status |-> "uploading", revision |-> 1 + Cardinality(BatchFiles), stale |-> FALSE]
      /\ batchJob = [f \in BatchFiles |-> Batch!NewJob] /\ staging = {}
      /\ batchUpload = [f \in BatchFiles |-> Batch!NoUpload] /\ canceling = {}
      /\ task = Batch!NoTask
      /\ client = [here |-> TRUE, locked |-> FALSE, exits |-> FALSE, seen |-> 0]
      /\ confirmed = 0 /\ overtaken = FALSE
  BY BatchConstants DEF Batch!Init
<1>2. BatchTypes
  <2>1. 1 + Cardinality(BatchFiles) \in Nat
    BY BatchConstants, FS_CardinalityType
  <2>2. batch \in BatchRows
    BY <1>1, <2>1 DEF BatchRows
  <2> QED BY <1>1, <2>2, UploadRecords DEF BatchTypes
<1>3. BatchFilesOK
  BY <1>1, UploadRecords, NoTaskOK DEF BatchFilesOK, BatchFileOK
<1>4. TaskOK /\ RevisionOK
  BY <1>1, UploadRecords DEF TaskOK, RevisionOK, CancelKinds
<1>5. WithinLimit(batchJob)
  <2>1. \A f \in BatchFiles : {f} \X (1..batchJob[f].size) = {}
    BY <1>1, UploadRecords
  <2>2. Units(batchJob, {f \in BatchFiles : batchJob[f].status \in OpenStates}) = {}
    BY <2>1, UnitsAre
  <2> QED BY <2>2, FS_EmptySet, BatchConstants DEF WithinLimit
<1> QED BY <1>2, <1>3, <1>4, <1>5, LimitIs DEF BatchInv

LEMMA BatchNext ==
  ASSUME BatchInv, [Batch!Next]_(Batch!vars)
  PROVE  BatchInv'
<1>1. CASE Batch!Next
  BY <1>1, UploadStepKeeps, CancelStepKeeps, RemovesKeeps, ConfirmStepKeeps, ClientStepKeeps
     DEF Batch!Next, Batch!TaskStep
<1>2. CASE UNCHANGED Batch!vars
  <2>1. UNCHANGED batchVars
    BY <1>2 DEF Batch!vars, batchVars
  <2>2. \A f \in BatchFiles : TaskFileOK(f, batchJob[f], batchUpload[f], task, overtaken)
    BY BatchKnown
  <2> QED BY <2>1, <2>2, LockKnown, LockKeeps DEF batchVars, TaskOK
<1> QED BY <1>1, <1>2

LEMMA BatchImplied ==
  ASSUME BatchInv
  PROVE  /\ Batch!TypeOK /\ Batch!StagingIsOwned /\ Batch!CompletedIsSettled
         /\ Batch!BatchStaysWithinLimit /\ Batch!ConfirmationKeepsItsRevision
<1>1. Batch!TypeOK
  BY LockKnown, BatchKnown DEF Batch!TypeOK, BatchRows, JobRows, Uploads, Tasks, CancelKinds
<1>2. Batch!StagingIsOwned
  BY LockKnown, BatchKnown DEF Batch!StagingIsOwned, BatchFileOK, Batch!Gone
<1>3. Batch!CompletedIsSettled
  BY BatchKnown DEF Batch!CompletedIsSettled, Batch!Undecided, BatchFileOK, Batch!Gone
<1>4. Batch!ConfirmationKeepsItsRevision
  BY LockKnown DEF Batch!ConfirmationKeepsItsRevision, RevisionOK
<1> QED BY <1>1, <1>2, <1>3, <1>4 DEF BatchInv

\* Only CancelRemoves takes the Batch away, with the locks of all its files held.
LEMMA LiveWorkStays ==
  ASSUME BatchInv, [Batch!Next]_(Batch!vars)
  PROVE  Batch!LiveWorkIsKept
<1> SUFFICES ASSUME batch.status # "gone", batch'.status = "gone", task.kind = "cleanup"
             PROVE  batch.stale /\ \A f \in BatchFiles : ~Batch!Gone(f) => ~Batch!Active(f)
  BY DEF Batch!LiveWorkIsKept
<1>1. Batch!CancelRemoves
  <2>1. \/ batch' = batch \/ batch' = Batch!Revised \/ batch' = Batch!RevisedWhileUploading
        \/ batch' = [Batch!Revised EXCEPT !.status = "confirming"]
        \/ batch' = [Batch!Revised EXCEPT !.status = "completed"]
        \/ \E b \in BOOLEAN : batch' = [batch EXCEPT !.stale = b]
        => FALSE
    <3>1. \A s \in {"confirming", "completed"} : [Batch!Revised EXCEPT !.status = s].status = s
      BY LockKnown, RevisedRow DEF BatchRows
    <3>2. \A b \in BOOLEAN : [batch EXCEPT !.stale = b].status = batch.status
      BY LockKnown DEF BatchRows
    <3> QED BY <3>1, <3>2, LockKnown, RevisedRow
  <2>2. CASE UNCHANGED Batch!vars
    BY <2>1, <2>2 DEF Batch!vars
  <2>3. ASSUME NEW f \in BatchFiles, Batch!UploadStarts(f) \/ Batch!UploadStep(f) \/ Batch!UploadLost(f)
        PROVE  FALSE
    BY <2>1, <2>3 DEF Batch!UploadStarts, Batch!UploadStep, Batch!UploadLost, Batch!UploadChecks,
       Batch!UploadReserves, Batch!UploadStages, Batch!UploadInterrupted, Batch!UploadRefused,
       Batch!UploadDuplicate, Batch!UploadPreviewed, Batch!Reject, Batch!Interrupt
  <2>4. CASE \/ Batch!CancelBatch \/ (\E f \in BatchFiles : Batch!CancelFile(f)) \/ Batch!CleanUp
             \/ Batch!ExitCancels \/ Batch!CancelLocks \/ Batch!CancelGivesUp \/ Batch!CancelLost
    BY <2>1, <2>4 DEF Batch!CancelBatch, Batch!CancelFile, Batch!CleanUp, Batch!ExitCancels,
       Batch!CancelLocks, Batch!CancelGivesUp, Batch!CancelLost
  <2>5. CASE \/ \E selected \in SUBSET Batch!Accepted : Batch!Confirm(selected)
             \/ \E f \in BatchFiles : Batch!ConfirmsFile(f) \/ Batch!FinishesFile(f)
             \/ Batch!ConfirmFails \/ Batch!CompleteBatch \/ Batch!ConfirmAgain \/ Batch!ConfirmLost
    BY <2>1, <2>5 DEF Batch!Confirm, Batch!ConfirmsFile, Batch!FinishesFile, Batch!ConfirmFails,
       Batch!CompleteBatch, Batch!ConfirmAgain, Batch!ConfirmLost
  <2>6. CASE Batch!ClientReviews \/ Batch!Heartbeat \/ Batch!TimePasses \/ Batch!ClientGoes
    BY <2>1, <2>6 DEF Batch!ClientReviews, Batch!Heartbeat, Batch!TimePasses, Batch!ClientGoes
  <2> QED BY <2>2, <2>3, <2>4, <2>5, <2>6 DEF Batch!Next, Batch!TaskStep
<1>2. task.step = "locked" /\ batch.stale
  BY <1>1 DEF Batch!CancelRemoves, Batch!StillInactive
<1>3. \A f \in BatchFiles : ~Batch!Gone(f) => ~Batch!Active(f)
  BY <1>2, BatchKnown DEF TaskFileOK, Batch!Gone, Batch!Active
<1> QED BY <1>2, <1>3

\* BatchIsAccountedFor for any number of files, sizes, uploads, failures and requests
\* that are lost: the open files stay within the limit, each file in staging has a row
\* that says so or an upload, a completed Batch has every file decided, a repeated
\* confirmation is recognised, and the ticker takes a Batch only without a sign of life
\* (repository.rs, reserve_batch_upload, complete_batch; service.rs, cancel_batch_before).
THEOREM BatchAccounts ==
  /\ Batch!Spec => [](/\ Batch!TypeOK /\ Batch!StagingIsOwned /\ Batch!CompletedIsSettled
                      /\ Batch!BatchStaysWithinLimit /\ Batch!ConfirmationKeepsItsRevision)
  /\ Batch!Spec => [][Batch!LiveWorkIsKept]_(Batch!vars)
  /\ Batch!Spec => BatchIsAccountedFor
<1> DEFINE Sound == /\ Batch!TypeOK /\ Batch!StagingIsOwned /\ Batch!CompletedIsSettled
                    /\ Batch!BatchStaysWithinLimit /\ Batch!ConfirmationKeepsItsRevision
<1>1. Batch!Init => BatchInv
  BY BatchInit
<1>2. BatchInv /\ [Batch!Next]_(Batch!vars) => BatchInv'
  BY BatchNext
<1>3. BatchInv => Sound
  BY BatchImplied
<1>4. BatchInv /\ [Batch!Next]_(Batch!vars) => Batch!LiveWorkIsKept
  BY LiveWorkStays
<1>5. Batch!Spec => []BatchInv
  BY <1>1, <1>2, PTL DEF Batch!Spec
<1>6. Batch!Spec => []Sound
  BY <1>3, <1>5, PTL
<1>7. Batch!Spec => [][Batch!LiveWorkIsKept]_(Batch!vars)
  BY <1>4, <1>5, PTL DEF Batch!Spec
<1>8. Sound => (part = "batch" => Sound)
  OBVIOUS
<1>9. Batch!Spec => [](part = "batch" => Sound)
  BY <1>6, <1>8, PTL
<1>10. BatchInv /\ [Batch!Next]_(Batch!vars) => [part = "batch" => Batch!LiveWorkIsKept]_batchVars
  BY <1>4
<1>11. Batch!Spec => [][part = "batch" => Batch!LiveWorkIsKept]_batchVars
  BY <1>5, <1>10, PTL DEF Batch!Spec
<1> QED BY <1>6, <1>7, <1>9, <1>11, PTL DEF BatchIsAccountedFor
=============================================================================
