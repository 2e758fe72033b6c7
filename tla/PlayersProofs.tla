--------------------------- MODULE PlayersProofs ---------------------------
(***************************************************************************)
(* Proofs about the parts of the players: the Desktop Client's connection  *)
(* (first), its import of chosen files, its MPRIS interface and the        *)
(* browser's engine, each for any values of its constants.  The four do    *)
(* not share any state, and each theorem is about one of them.  MCPlayers  *)
(* takes them, and the parts that have no proofs, side by side, which is   *)
(* why their properties are named here for the part that runs.             *)
(***************************************************************************)
EXTENDS DesktopConnection, FiniteSetTheorems, SequenceTheorems, TLAPS

CONSTANTS
  Names, Hidden, Audio, Uploads, MaxInode, MaxSize, MaxEdits,             \* import
  Tracks, LiveTracks, Length, Threshold, SeekStep, MaxChanges, MaxCommands,  \* MPRIS
  WebSources, LiveSources, Hls, MaxDelay, MaxPresses, MaxTrouble             \* the browser's engine

VARIABLES
  part,                                                                  \* the part that runs
  entry, bytes, walk, picked, upload, token, cancel, edits,              \* import
  player, outgoing, published, late, channel, answers, last, announcing,
  client, orders, moved, changes, commands,                              \* MPRIS
  session, media, tasks, calls, settled, factory, revision, hasStarted,
  running, attempt, timers, want, slips, counts                          \* the browser's engine

Import == INSTANCE DesktopImport WITH MaxChanges <- MaxEdits, size <- bytes, chosen <- picked,
  changes <- edits
Mpris == INSTANCE Mpris WITH Live <- LiveTracks, Step <- SeekStep, view <- answers,
  tasks <- orders
Browser == INSTANCE BrowserEngine WITH Sources <- WebSources, Live <- LiveSources,
  MaxCommands <- MaxPresses

ASSUME PlayersAssumption == Import!ConstantsOK /\ Mpris!ConstantsOK /\ Browser!ConstantsOK

\* What the Desktop Client uploads is the file that was chosen, a cancellation holds
\* whenever it comes, and a whole upload is shown as whole (desktop_import.rs).
ImportIsAsChosen == part = "import" => Import!ImportIsAsChosen

\* A listener of MPRIS that only follows its signals ends up where the Player is
\* (mpris.rs).
SignalsSuffice == part = "mpris" => Mpris!TypeOK /\ Mpris!SignalsSuffice

\* The browser shows the source that is heard, and a pause is not undone by a
\* reconnection that was under way (BrowserPlaybackEngine.ts).
BrowserShowsWhatIsHeard == part = "browser" => Browser!BrowserShowsWhatIsHeard

-----------------------------------------------------------------------------
(***************************************************************************)
(* The connection, for any Music Servers, any number of saves, starts,     *)
(* failures and kills, and, but for what a restart finds, any number of    *)
(* renderers that save at once.                                            *)
(*                                                                         *)
(* The inductive invariant follows a save from file to file: which of the  *)
(* connection file, the core and the shell's file has been reached is told *)
(* by where the save is, and whose headers the core holds by that and by   *)
(* what the save was given.                                                *)
(***************************************************************************)

Places == {"idle", "testing", "storing", "headers", "origin", "forgetting",
           "stopping", "waking", "answered"}
Gifts == {"kept", "new", "empty"}
SaveStates == [at : Places, to : Origins, given : Gifts]

-----------------------------------------------------------------------------
(* The inductive invariant *)

\* A command runs in a core that has had its headers, for a server.
SaveOK ==
  \A w \in Savers : save[w].at # "idle" =>
     Running /\ shell = "done" /\ save[w].to \in Servers

\* The feed tests and opens a server's stream.
FeedOK == feed.at \in {"testing", "opening"} => feed.of \in Servers

\* The core's headers belong to the server they were entered for.
HeadersOK == headers.value \in {None, headers.owner}

\* What plays is of the server, or a save that replaced the server is about to
\* stop it.
PlayerOK ==
  slip \subseteq {"cut"} =>
     \/ playing \in {None, origin}
     \/ \E w \in Savers : save[w].at \in {"forgetting", "stopping"}

\* A cancellation that came in time is held by the request's token.
RequestOK ==
  /\ request.at = "idle" => request.cancel = "none"
  /\ request.at \in {"read", "sending"} =>
       /\ request.cancel \in {"none", "read"} => request.token = "live"
       /\ request.cancel = "in time" => request.token = "cancelled"
       /\ request.cancel # "late"
  /\ CancelIsHeard

\* How far a save has come.
IsBefore(w) == save[w].at \in {"idle", "testing", "storing"}
IsHeaded(w) == save[w].at \in {"origin", "forgetting", "stopping", "waking", "answered"}
IsMoved(w) == save[w].at \in {"forgetting", "stopping", "waking", "answered"}

\* The connection file is the core's, or the one of the save under way.
DiskOK(w) ==
  /\ IsBefore(w) => disk = origin
  /\ IsUnsynced(w) => disk = save[w].to
  /\ IsMoved(w) => origin = save[w].to

\* Headers the core holds are in the shell's file, or on the way to it.
CoreHeadersOK(w) ==
  /\ headers.value # None =>
       \/ kept = headers.owner
       \/ IsHeaded(w) /\ save[w].given = "new"
  /\ IsHeaded(w) =>
       /\ save[w].given = "new" => headers = [owner |-> save[w].to, value |-> save[w].to]
       /\ save[w].given = "empty" => headers = [owner |-> save[w].to, value |-> None]
       /\ save[w].given = "kept" => headers.owner \in {None, save[w].to}

HasKept == headers = [owner |-> kept, value |-> kept]

\* Headers in the shell's file are the core's, or a save is about to replace them.
KeptOK(w) ==
  /\ IsBefore(w) => kept \in {None, disk}
  /\ shell # "before" /\ kept # None /\ ~IsHeaded(w) => HasKept
  /\ kept # None /\ IsHeaded(w) /\ save[w].given = "kept" /\ kept = save[w].to
       => HasKept

\* What is left when the core has ended.
OffOK == core = "off" => "cut" \in slip \/ kept \in {None, disk}

CutOrKept(w) == "cut" \in slip \/ KeptOK(w)

SerialOK ==
  \A w \in Savers : Savers = {w} =>
     /\ OffOK
     /\ Running => DiskOK(w) /\ CoreHeadersOK(w) /\ CutOrKept(w)

\* TypeOK, one variable at a time.
FilesType == disk \in Origins /\ kept \in Origins /\ saved \in Origins
CoreType ==
  /\ core \in {"on", "quitting", "off"} /\ shell \in {"before", "checking", "done"}
  /\ origin \in Origins /\ playing \in Origins /\ view \in Origins
  /\ headers \in [owner : Origins, value : Origins]
SaveType == save \in [Savers -> SaveStates]
FeedType ==
  /\ feed \in [at : {"read", "testing", "opening", "streaming", "waiting"},
               of : Origins]
  /\ woken \in BOOLEAN
RequestType ==
  request \in [at : {"idle", "read", "sending", "done"},
              token : {"none", "live", "cancelled"},
              cancel : {"none", "read", "in time", "late"},
              result : {"none", "error", "cancelled", "answered"}]
SentType == sent \subseteq Servers \X Origins
SlipType == slip \subseteq {"unchecked", "raced", "stop", "cut"}

IInv == /\ TypeOK /\ SaveOK /\ FeedOK /\ HeadersOK /\ HeadersStayHome /\ PlayerOK
        /\ RequestOK /\ SerialOK

-----------------------------------------------------------------------------
(* What the steps leave alone *)

LEMMA FeedStepLeaves ==
  FeedSteps => UNCHANGED <<disk, kept, saved, core, origin, headers, playing, shell, view,
                           save, request, slip>>
BY DEF FeedSteps, ReadOrigin, OpenStream, StreamOpens, FeedFails, FeedWoken, FeedWaits,
       FeedUnchanged

LEMMA RequestStepLeaves ==
  RequestSteps => UNCHANGED <<disk, kept, saved, core, origin, headers, playing, shell,
                              view, save, feed, woken, slip>>
BY DEF RequestSteps, ReadRequest, ReadCancel, Cancel, Send, Answer, Media, RequestUnchanged

LEMMA SaveStepLeaves ==
  SaveSteps => UNCHANGED <<core, shell, feed, request>>
BY DEF SaveSteps, Save, TestFails, StoreFails, TestPasses, Store, SaveHeaders,
       ReplaceOrigin, Forget, StopPlayback, Wake, Sync

LEMMA GoneSteps == Exit \/ Kill => Gone
BY DEF Exit, Kill

-----------------------------------------------------------------------------
(* The types *)

LEMMA TypeParts ==
  TypeOK <=> /\ FilesType /\ CoreType /\ SaveType /\ FeedType /\ RequestType
             /\ SentType /\ SlipType
BY DEF TypeOK, FilesType, CoreType, SaveType, FeedType, RequestType, SentType, SlipType,
       SaveStates, Places, Gifts

LEMMA TypePartsNext ==
  TypeOK' <=> /\ FilesType' /\ CoreType' /\ SaveType' /\ FeedType' /\ RequestType'
              /\ SentType' /\ SlipType'
BY DEF TypeOK, FilesType, CoreType, SaveType, FeedType, RequestType, SentType, SlipType,
       SaveStates, Places, Gifts

LEMMA NextFilesType ==
  ASSUME FilesType, CoreType, SaveType, [Next]_vars
  PROVE  FilesType'
<1>1. ASSUME NEW w \in Savers, NEW s \in Servers, NEW given \in Gifts, Save(w, s, given)
      PROVE  FilesType'
  BY <1>1 DEF FilesType, CoreType, SaveType, SaveStates, Origins, Save, HeadersFor
<1>2. ASSUME NEW w \in Savers, TestFails(w) PROVE FilesType'
  BY <1>2 DEF FilesType, CoreType, SaveType, SaveStates, Origins, TestFails, At, Ends,
     Idle
<1>3. ASSUME NEW w \in Savers, StoreFails(w) PROVE FilesType'
  BY <1>3 DEF FilesType, CoreType, SaveType, SaveStates, Origins, StoreFails, At,
     Ends, Idle
<1>4. ASSUME NEW w \in Savers, TestPasses(w) PROVE FilesType'
  BY <1>4 DEF FilesType, CoreType, SaveType, SaveStates, Origins, TestPasses, At, Goes
<1>5. ASSUME NEW w \in Savers, Store(w) PROVE FilesType'
  BY <1>5 DEF FilesType, CoreType, SaveType, SaveStates, Origins, Store, At, Goes
<1>6. ASSUME NEW w \in Savers, SaveHeaders(w) PROVE FilesType'
  BY <1>6 DEF FilesType, CoreType, SaveType, SaveStates, Origins, SaveHeaders, At,
     Goes, KeepHeadersOf, NoHeaders
<1>7. ASSUME NEW w \in Savers, ReplaceOrigin(w) PROVE FilesType'
  BY <1>7 DEF FilesType, CoreType, SaveType, SaveStates, Origins, ReplaceOrigin, At,
     Goes
<1>8. ASSUME NEW w \in Savers, Forget(w) PROVE FilesType'
  BY <1>8 DEF FilesType, CoreType, SaveType, SaveStates, Origins, Forget, At, Goes
<1>9. ASSUME NEW w \in Savers, StopPlayback(w) PROVE FilesType'
  BY <1>9 DEF FilesType, CoreType, SaveType, SaveStates, Origins, StopPlayback, At, Goes
<1>10. ASSUME NEW w \in Savers, Wake(w) PROVE FilesType'
  BY <1>10 DEF FilesType, CoreType, SaveType, SaveStates, Origins, Wake, At, Goes
<1>11. ASSUME NEW w \in Savers, Sync(w) PROVE FilesType'
  BY <1>11 DEF FilesType, CoreType, SaveType, SaveStates, Origins, Sync, At, Ends,
     Idle, Synced
<1>12. CASE FeedSteps
  BY <1>12, FeedStepLeaves DEF FilesType, CoreType, SaveType, SaveStates, Origins
<1>13. CASE RequestSteps
  BY <1>13, RequestStepLeaves DEF FilesType, CoreType, SaveType, SaveStates, Origins
<1>14. CASE Start
  BY <1>14 DEF FilesType, CoreType, SaveType, SaveStates, Origins, Start, Restore,
     Restored, NoHeaders
<1>15. CASE SetServerHeaders
  BY <1>15 DEF FilesType, CoreType, SaveType, SaveStates, Origins, SetServerHeaders
<1>16. CASE RestoredAgain
  BY <1>16 DEF FilesType, CoreType, SaveType, SaveStates, Origins, RestoredAgain,
     Restore, Restored
<1>17. CASE Play
  BY <1>17 DEF FilesType, CoreType, SaveType, SaveStates, Origins, Play
<1>18. CASE Quit
  BY <1>18 DEF FilesType, CoreType, SaveType, SaveStates, Origins, Quit
<1>19. CASE Gone
  BY <1>19 DEF FilesType, CoreType, SaveType, SaveStates, Origins, Gone, Idle, NoRequest
<1>20. CASE UNCHANGED vars
  BY <1>20 DEF FilesType, CoreType, SaveType, SaveStates, Origins, vars
<1> QED BY <1>1, <1>2, <1>3, <1>4, <1>5, <1>6, <1>7, <1>8, <1>9, <1>10, <1>11, <1>12,
   <1>13, <1>14, <1>15, <1>16, <1>17, <1>18, <1>19, <1>20, GoneSteps DEF Next,
   SaveSteps, Gifts, LifeSteps

LEMMA NextCoreType ==
  ASSUME FilesType, CoreType, SaveType, [Next]_vars
  PROVE  CoreType'
<1>1. ASSUME NEW w \in Savers, NEW s \in Servers, NEW given \in Gifts, Save(w, s, given)
      PROVE  CoreType'
  BY <1>1 DEF FilesType, CoreType, SaveType, SaveStates, Origins, Save, HeadersFor
<1>2. ASSUME NEW w \in Savers, TestFails(w) PROVE CoreType'
  BY <1>2 DEF FilesType, CoreType, SaveType, SaveStates, Origins, TestFails, At, Ends,
     Idle
<1>3. ASSUME NEW w \in Savers, StoreFails(w) PROVE CoreType'
  BY <1>3 DEF FilesType, CoreType, SaveType, SaveStates, Origins, StoreFails, At,
     Ends, Idle
<1>4. ASSUME NEW w \in Savers, TestPasses(w) PROVE CoreType'
  BY <1>4 DEF FilesType, CoreType, SaveType, SaveStates, Origins, TestPasses, At, Goes
<1>5. ASSUME NEW w \in Savers, Store(w) PROVE CoreType'
  BY <1>5 DEF FilesType, CoreType, SaveType, SaveStates, Origins, Store, At, Goes
<1>6. ASSUME NEW w \in Savers, SaveHeaders(w) PROVE CoreType'
  BY <1>6 DEF FilesType, CoreType, SaveType, SaveStates, Origins, SaveHeaders, At,
     Goes, KeepHeadersOf, NoHeaders
<1>7. ASSUME NEW w \in Savers, ReplaceOrigin(w) PROVE CoreType'
  BY <1>7 DEF FilesType, CoreType, SaveType, SaveStates, Origins, ReplaceOrigin, At,
     Goes
<1>8. ASSUME NEW w \in Savers, Forget(w) PROVE CoreType'
  BY <1>8 DEF FilesType, CoreType, SaveType, SaveStates, Origins, Forget, At, Goes
<1>9. ASSUME NEW w \in Savers, StopPlayback(w) PROVE CoreType'
  BY <1>9 DEF FilesType, CoreType, SaveType, SaveStates, Origins, StopPlayback, At, Goes
<1>10. ASSUME NEW w \in Savers, Wake(w) PROVE CoreType'
  BY <1>10 DEF FilesType, CoreType, SaveType, SaveStates, Origins, Wake, At, Goes
<1>11. ASSUME NEW w \in Savers, Sync(w) PROVE CoreType'
  BY <1>11 DEF FilesType, CoreType, SaveType, SaveStates, Origins, Sync, At, Ends,
     Idle, Synced
<1>12. CASE FeedSteps
  BY <1>12, FeedStepLeaves DEF FilesType, CoreType, SaveType, SaveStates, Origins
<1>13. CASE RequestSteps
  BY <1>13, RequestStepLeaves DEF FilesType, CoreType, SaveType, SaveStates, Origins
<1>14. CASE Start
  BY <1>14 DEF FilesType, CoreType, SaveType, SaveStates, Origins, Start, Restore,
     Restored, NoHeaders
<1>15. CASE SetServerHeaders
  BY <1>15 DEF FilesType, CoreType, SaveType, SaveStates, Origins, SetServerHeaders
<1>16. CASE RestoredAgain
  BY <1>16 DEF FilesType, CoreType, SaveType, SaveStates, Origins, RestoredAgain,
     Restore, Restored
<1>17. CASE Play
  BY <1>17 DEF FilesType, CoreType, SaveType, SaveStates, Origins, Play
<1>18. CASE Quit
  BY <1>18 DEF FilesType, CoreType, SaveType, SaveStates, Origins, Quit
<1>19. CASE Gone
  BY <1>19 DEF FilesType, CoreType, SaveType, SaveStates, Origins, Gone, Idle, NoRequest
<1>20. CASE UNCHANGED vars
  BY <1>20 DEF FilesType, CoreType, SaveType, SaveStates, Origins, vars
<1> QED BY <1>1, <1>2, <1>3, <1>4, <1>5, <1>6, <1>7, <1>8, <1>9, <1>10, <1>11, <1>12,
   <1>13, <1>14, <1>15, <1>16, <1>17, <1>18, <1>19, <1>20, GoneSteps DEF Next,
   SaveSteps, Gifts, LifeSteps

LEMMA NextSaveType ==
  ASSUME SaveType, [Next]_vars
  PROVE  SaveType'
<1>1. ASSUME NEW w \in Savers, NEW s \in Servers, NEW given \in Gifts, Save(w, s, given)
      PROVE  SaveType'
  BY <1>1 DEF SaveType, SaveStates, Origins, Places, Gifts, Save, HeadersFor
<1>2. ASSUME NEW w \in Savers, TestFails(w) PROVE SaveType'
  BY <1>2 DEF SaveType, SaveStates, Origins, Places, Gifts, TestFails, At, Ends, Idle
<1>3. ASSUME NEW w \in Savers, StoreFails(w) PROVE SaveType'
  BY <1>3 DEF SaveType, SaveStates, Origins, Places, Gifts, StoreFails, At, Ends, Idle
<1>4. ASSUME NEW w \in Savers, TestPasses(w) PROVE SaveType'
  BY <1>4 DEF SaveType, SaveStates, Origins, Places, Gifts, TestPasses, At, Goes
<1>5. ASSUME NEW w \in Savers, Store(w) PROVE SaveType'
  BY <1>5 DEF SaveType, SaveStates, Origins, Places, Gifts, Store, At, Goes
<1>6. ASSUME NEW w \in Savers, SaveHeaders(w) PROVE SaveType'
  BY <1>6 DEF SaveType, SaveStates, Origins, Places, Gifts, SaveHeaders, At, Goes,
     KeepHeadersOf, NoHeaders
<1>7. ASSUME NEW w \in Savers, ReplaceOrigin(w) PROVE SaveType'
  BY <1>7 DEF SaveType, SaveStates, Origins, Places, Gifts, ReplaceOrigin, At, Goes
<1>8. ASSUME NEW w \in Savers, Forget(w) PROVE SaveType'
  BY <1>8 DEF SaveType, SaveStates, Origins, Places, Gifts, Forget, At, Goes
<1>9. ASSUME NEW w \in Savers, StopPlayback(w) PROVE SaveType'
  BY <1>9 DEF SaveType, SaveStates, Origins, Places, Gifts, StopPlayback, At, Goes
<1>10. ASSUME NEW w \in Savers, Wake(w) PROVE SaveType'
  BY <1>10 DEF SaveType, SaveStates, Origins, Places, Gifts, Wake, At, Goes
<1>11. ASSUME NEW w \in Savers, Sync(w) PROVE SaveType'
  BY <1>11 DEF SaveType, SaveStates, Origins, Places, Gifts, Sync, At, Ends, Idle,
     Synced
<1>12. CASE FeedSteps
  BY <1>12, FeedStepLeaves DEF SaveType, SaveStates, Origins, Places, Gifts
<1>13. CASE RequestSteps
  BY <1>13, RequestStepLeaves DEF SaveType, SaveStates, Origins, Places, Gifts
<1>14. CASE Start
  BY <1>14 DEF SaveType, SaveStates, Origins, Places, Gifts, Start, Restore, Restored,
     NoHeaders
<1>15. CASE SetServerHeaders
  BY <1>15 DEF SaveType, SaveStates, Origins, Places, Gifts, SetServerHeaders
<1>16. CASE RestoredAgain
  BY <1>16 DEF SaveType, SaveStates, Origins, Places, Gifts, RestoredAgain, Restore,
     Restored
<1>17. CASE Play
  BY <1>17 DEF SaveType, SaveStates, Origins, Places, Gifts, Play
<1>18. CASE Quit
  BY <1>18 DEF SaveType, SaveStates, Origins, Places, Gifts, Quit
<1>19. CASE Gone
  BY <1>19 DEF SaveType, SaveStates, Origins, Places, Gifts, Gone, Idle, NoRequest
<1>20. CASE UNCHANGED vars
  BY <1>20 DEF SaveType, SaveStates, Origins, Places, Gifts, vars
<1> QED BY <1>1, <1>2, <1>3, <1>4, <1>5, <1>6, <1>7, <1>8, <1>9, <1>10, <1>11, <1>12,
   <1>13, <1>14, <1>15, <1>16, <1>17, <1>18, <1>19, <1>20, GoneSteps DEF Next,
   SaveSteps, Gifts, LifeSteps

LEMMA NextFeedType ==
  ASSUME CoreType, FeedType, [Next]_vars
  PROVE  FeedType'
<1>1. ASSUME NEW w \in Savers, NEW s \in Servers, NEW given \in Gifts, Save(w, s, given)
      PROVE  FeedType'
  BY <1>1 DEF CoreType, FeedType, Save, HeadersFor
<1>2. ASSUME NEW w \in Savers, TestFails(w) PROVE FeedType'
  BY <1>2 DEF CoreType, FeedType, TestFails, At, Ends, Idle
<1>3. ASSUME NEW w \in Savers, StoreFails(w) PROVE FeedType'
  BY <1>3 DEF CoreType, FeedType, StoreFails, At, Ends, Idle
<1>4. ASSUME NEW w \in Savers, TestPasses(w) PROVE FeedType'
  BY <1>4 DEF CoreType, FeedType, TestPasses, At, Goes
<1>5. ASSUME NEW w \in Savers, Store(w) PROVE FeedType'
  BY <1>5 DEF CoreType, FeedType, Store, At, Goes
<1>6. ASSUME NEW w \in Savers, SaveHeaders(w) PROVE FeedType'
  BY <1>6 DEF CoreType, FeedType, SaveHeaders, At, Goes, KeepHeadersOf, NoHeaders
<1>7. ASSUME NEW w \in Savers, ReplaceOrigin(w) PROVE FeedType'
  BY <1>7 DEF CoreType, FeedType, ReplaceOrigin, At, Goes
<1>8. ASSUME NEW w \in Savers, Forget(w) PROVE FeedType'
  BY <1>8 DEF CoreType, FeedType, Forget, At, Goes
<1>9. ASSUME NEW w \in Savers, StopPlayback(w) PROVE FeedType'
  BY <1>9 DEF CoreType, FeedType, StopPlayback, At, Goes
<1>10. ASSUME NEW w \in Savers, Wake(w) PROVE FeedType'
  BY <1>10 DEF CoreType, FeedType, Wake, At, Goes
<1>11. ASSUME NEW w \in Savers, Sync(w) PROVE FeedType'
  BY <1>11 DEF CoreType, FeedType, Sync, At, Ends, Idle, Synced
<1>12. CASE ReadOrigin
  <2>1. CASE origin = None
    <3>1. feed' = feed /\ woken' = FALSE
      BY <1>12, <2>1 DEF ReadOrigin
    <3> QED BY <3>1 DEF FeedType
  <2>2. CASE origin # None
    <3>1. feed' = [at |-> "testing", of |-> origin] /\ woken' = woken
      BY <1>12, <2>2 DEF ReadOrigin
    <3> QED BY <3>1 DEF FeedType, CoreType
  <2> QED BY <2>1, <2>2
<1>13. CASE OpenStream
  BY <1>13 DEF CoreType, FeedType, OpenStream, HeadersFor
<1>14. CASE StreamOpens
  BY <1>14 DEF CoreType, FeedType, StreamOpens
<1>15. CASE FeedFails
  BY <1>15 DEF CoreType, FeedType, FeedFails
<1>16. CASE FeedWoken
  BY <1>16 DEF CoreType, FeedType, FeedWoken
<1>17. CASE FeedWaits
  BY <1>17 DEF CoreType, FeedType, FeedWaits
<1>18. CASE RequestSteps
  BY <1>18, RequestStepLeaves DEF CoreType, FeedType
<1>19. CASE Start
  BY <1>19 DEF FeedType, Origins, Start
<1>20. CASE SetServerHeaders
  BY <1>20 DEF CoreType, FeedType, SetServerHeaders
<1>21. CASE RestoredAgain
  BY <1>21 DEF CoreType, FeedType, RestoredAgain, Restore, Restored
<1>22. CASE Play
  BY <1>22 DEF CoreType, FeedType, Play
<1>23. CASE Quit
  BY <1>23 DEF CoreType, FeedType, Quit
<1>24. CASE Gone
  BY <1>24 DEF CoreType, FeedType, Gone, Idle, NoRequest
<1>25. CASE UNCHANGED vars
  BY <1>25 DEF CoreType, FeedType, vars
<1> QED BY <1>1, <1>2, <1>3, <1>4, <1>5, <1>6, <1>7, <1>8, <1>9, <1>10, <1>11, <1>12,
   <1>13, <1>14, <1>15, <1>16, <1>17, <1>18, <1>19, <1>20, <1>21, <1>22, <1>23, <1>24,
   <1>25, GoneSteps DEF Next, SaveSteps, Gifts, FeedSteps, LifeSteps

LEMMA NextRequestType ==
  ASSUME RequestType, [Next]_vars
  PROVE  RequestType'
<1>1. CASE SaveSteps
  BY <1>1, SaveStepLeaves DEF RequestType
<1>2. CASE FeedSteps
  BY <1>2, FeedStepLeaves DEF RequestType
<1>3. CASE ReadRequest
  BY <1>3 DEF RequestType, ReadRequest, Register
<1>4. CASE ReadCancel
  BY <1>4 DEF RequestType, ReadCancel
<1>5. CASE Cancel
  BY <1>5 DEF RequestType, Cancel
<1>6. CASE Send
  BY <1>6 DEF RequestType, Send, Finished, HeadersFor
<1>7. CASE Answer
  BY <1>7 DEF RequestType, Answer, Finished
<1>8. CASE Media
  BY <1>8 DEF RequestType, Media, HeadersFor, RequestUnchanged
<1>9. CASE Start
  BY <1>9 DEF RequestType, Start, Restore, Restored, NoHeaders
<1>10. CASE SetServerHeaders
  BY <1>10 DEF RequestType, SetServerHeaders
<1>11. CASE RestoredAgain
  BY <1>11 DEF RequestType, RestoredAgain, Restore, Restored
<1>12. CASE Play
  BY <1>12 DEF RequestType, Play
<1>13. CASE Quit
  BY <1>13 DEF RequestType, Quit
<1>14. CASE Gone
  BY <1>14 DEF RequestType, Gone, Idle, NoRequest
<1>15. CASE UNCHANGED vars
  BY <1>15 DEF RequestType, vars
<1> QED BY <1>1, <1>2, <1>3, <1>4, <1>5, <1>6, <1>7, <1>8, <1>9, <1>10, <1>11, <1>12,
   <1>13, <1>14, <1>15, GoneSteps DEF Next, RequestSteps, LifeSteps

LEMMA NextSentType ==
  ASSUME FilesType, CoreType, FeedType, FeedOK, SentType, [Next]_vars
  PROVE  SentType'
<1>1. ASSUME NEW w \in Savers, NEW s \in Servers, NEW given \in Gifts, Save(w, s, given)
      PROVE  SentType'
  BY <1>1 DEF FilesType, CoreType, FeedOK, SentType, Origins, Save, HeadersFor
<1>2. ASSUME NEW w \in Savers, TestFails(w) PROVE SentType'
  BY <1>2 DEF FilesType, CoreType, FeedOK, SentType, Origins, TestFails, At, Ends, Idle
<1>3. ASSUME NEW w \in Savers, StoreFails(w) PROVE SentType'
  BY <1>3 DEF FilesType, CoreType, FeedOK, SentType, Origins, StoreFails, At, Ends, Idle
<1>4. ASSUME NEW w \in Savers, TestPasses(w) PROVE SentType'
  BY <1>4 DEF FilesType, CoreType, FeedOK, SentType, Origins, TestPasses, At, Goes
<1>5. ASSUME NEW w \in Savers, Store(w) PROVE SentType'
  BY <1>5 DEF FilesType, CoreType, FeedOK, SentType, Origins, Store, At, Goes
<1>6. ASSUME NEW w \in Savers, SaveHeaders(w) PROVE SentType'
  BY <1>6 DEF FilesType, CoreType, FeedOK, SentType, Origins, SaveHeaders, At, Goes,
     KeepHeadersOf, NoHeaders
<1>7. ASSUME NEW w \in Savers, ReplaceOrigin(w) PROVE SentType'
  BY <1>7 DEF FilesType, CoreType, FeedOK, SentType, Origins, ReplaceOrigin, At, Goes
<1>8. ASSUME NEW w \in Savers, Forget(w) PROVE SentType'
  BY <1>8 DEF FilesType, CoreType, FeedOK, SentType, Origins, Forget, At, Goes
<1>9. ASSUME NEW w \in Savers, StopPlayback(w) PROVE SentType'
  BY <1>9 DEF FilesType, CoreType, FeedOK, SentType, Origins, StopPlayback, At, Goes
<1>10. ASSUME NEW w \in Savers, Wake(w) PROVE SentType'
  BY <1>10 DEF FilesType, CoreType, FeedOK, SentType, Origins, Wake, At, Goes
<1>11. ASSUME NEW w \in Savers, Sync(w) PROVE SentType'
  BY <1>11 DEF FilesType, CoreType, FeedOK, SentType, Origins, Sync, At, Ends, Idle,
     Synced
<1>12. CASE ReadOrigin
  BY <1>12 DEF FilesType, CoreType, FeedOK, SentType, Origins, ReadOrigin, HeadersFor
<1>13. CASE OpenStream
  BY <1>13 DEF FilesType, CoreType, FeedOK, SentType, Origins, OpenStream, HeadersFor
<1>14. CASE StreamOpens
  BY <1>14 DEF FilesType, CoreType, FeedOK, SentType, Origins, StreamOpens
<1>15. CASE FeedFails
  BY <1>15 DEF FilesType, CoreType, FeedOK, SentType, Origins, FeedFails
<1>16. CASE FeedWoken
  BY <1>16 DEF FilesType, CoreType, FeedOK, SentType, Origins, FeedWoken
<1>17. CASE FeedWaits
  BY <1>17 DEF FilesType, CoreType, FeedOK, SentType, Origins, FeedWaits
<1>18. CASE ReadRequest
  BY <1>18 DEF FilesType, CoreType, FeedOK, SentType, Origins, ReadRequest, Register
<1>19. CASE ReadCancel
  BY <1>19 DEF FilesType, CoreType, FeedOK, SentType, Origins, ReadCancel
<1>20. CASE Cancel
  BY <1>20 DEF FilesType, CoreType, FeedOK, SentType, Origins, Cancel
<1>21. CASE Send
  BY <1>21 DEF FilesType, CoreType, FeedOK, SentType, Origins, Send, Finished,
     HeadersFor
<1>22. CASE Answer
  BY <1>22 DEF FilesType, CoreType, FeedOK, SentType, Origins, Answer, Finished
<1>23. CASE Media
  BY <1>23 DEF FilesType, CoreType, FeedOK, SentType, Origins, Media, HeadersFor,
     RequestUnchanged
<1>24. CASE Start
  BY <1>24 DEF FilesType, CoreType, FeedOK, SentType, Origins, Start, Restore,
     Restored, NoHeaders
<1>25. CASE SetServerHeaders
  BY <1>25 DEF FilesType, CoreType, FeedOK, SentType, Origins, SetServerHeaders
<1>26. CASE RestoredAgain
  BY <1>26 DEF FilesType, CoreType, FeedOK, SentType, Origins, RestoredAgain, Restore,
     Restored
<1>27. CASE Play
  BY <1>27 DEF FilesType, CoreType, FeedOK, SentType, Origins, Play
<1>28. CASE Quit
  BY <1>28 DEF FilesType, CoreType, FeedOK, SentType, Origins, Quit
<1>29. CASE Gone
  BY <1>29 DEF FilesType, CoreType, FeedOK, SentType, Origins, Gone, Idle, NoRequest
<1>30. CASE UNCHANGED vars
  BY <1>30 DEF FilesType, CoreType, FeedOK, SentType, Origins, vars
<1> QED BY <1>1, <1>2, <1>3, <1>4, <1>5, <1>6, <1>7, <1>8, <1>9, <1>10, <1>11, <1>12,
   <1>13, <1>14, <1>15, <1>16, <1>17, <1>18, <1>19, <1>20, <1>21, <1>22, <1>23, <1>24,
   <1>25, <1>26, <1>27, <1>28, <1>29, <1>30, GoneSteps DEF Next, SaveSteps, Gifts,
   FeedSteps, RequestSteps, LifeSteps

LEMMA NextSlipType ==
  ASSUME SlipType, [Next]_vars
  PROVE  SlipType'
<1>1. ASSUME NEW w \in Savers, NEW s \in Servers, NEW given \in Gifts, Save(w, s, given)
      PROVE  SlipType'
  BY <1>1 DEF SlipType, Save, HeadersFor
<1>2. ASSUME NEW w \in Savers, TestFails(w) PROVE SlipType'
  BY <1>2 DEF SlipType, TestFails, At, Ends, Idle
<1>3. ASSUME NEW w \in Savers, StoreFails(w) PROVE SlipType'
  BY <1>3 DEF SlipType, StoreFails, At, Ends, Idle
<1>4. ASSUME NEW w \in Savers, TestPasses(w) PROVE SlipType'
  BY <1>4 DEF SlipType, TestPasses, At, Goes
<1>5. ASSUME NEW w \in Savers, Store(w) PROVE SlipType'
  BY <1>5 DEF SlipType, Store, At, Goes
<1>6. ASSUME NEW w \in Savers, SaveHeaders(w) PROVE SlipType'
  BY <1>6 DEF SlipType, SaveHeaders, At, Goes, KeepHeadersOf, NoHeaders
<1>7. ASSUME NEW w \in Savers, ReplaceOrigin(w) PROVE SlipType'
  BY <1>7 DEF SlipType, ReplaceOrigin, At, Goes
<1>8. ASSUME NEW w \in Savers, Forget(w) PROVE SlipType'
  BY <1>8 DEF SlipType, Forget, At, Goes
<1>9. ASSUME NEW w \in Savers, StopPlayback(w) PROVE SlipType'
  BY <1>9 DEF SlipType, StopPlayback, At, Goes
<1>10. ASSUME NEW w \in Savers, Wake(w) PROVE SlipType'
  BY <1>10 DEF SlipType, Wake, At, Goes
<1>11. ASSUME NEW w \in Savers, Sync(w) PROVE SlipType'
  BY <1>11 DEF SlipType, Sync, At, Ends, Idle, Synced
<1>12. CASE FeedSteps
  BY <1>12, FeedStepLeaves DEF SlipType
<1>13. CASE RequestSteps
  BY <1>13, RequestStepLeaves DEF SlipType
<1>14. CASE Start
  BY <1>14 DEF SlipType, Start, Restore, Restored, NoHeaders
<1>15. CASE SetServerHeaders
  BY <1>15 DEF SlipType, SetServerHeaders
<1>16. CASE RestoredAgain
  BY <1>16 DEF SlipType, RestoredAgain, Restore, Restored
<1>17. CASE Play
  BY <1>17 DEF SlipType, Play
<1>18. CASE Quit
  BY <1>18 DEF SlipType, Quit
<1>19. CASE Gone
  BY <1>19 DEF SlipType, Gone, Idle, NoRequest
<1>20. CASE UNCHANGED vars
  BY <1>20 DEF SlipType, vars
<1> QED BY <1>1, <1>2, <1>3, <1>4, <1>5, <1>6, <1>7, <1>8, <1>9, <1>10, <1>11, <1>12,
   <1>13, <1>14, <1>15, <1>16, <1>17, <1>18, <1>19, <1>20, GoneSteps DEF Next,
   SaveSteps, Gifts, LifeSteps

-----------------------------------------------------------------------------
(* What holds for any number of renderers that save at once *)

LEMMA NextSaveOK ==
  ASSUME SaveType, SaveOK, [Next]_vars
  PROVE  SaveOK'
<1>1. ASSUME NEW w \in Savers, NEW s \in Servers, NEW given \in Gifts, Save(w, s, given)
      PROVE  SaveOK'
  BY <1>1 DEF SaveType, SaveStates, SaveOK, Running, Save, HeadersFor
<1>2. ASSUME NEW w \in Savers, TestFails(w) PROVE SaveOK'
  BY <1>2 DEF SaveType, SaveStates, SaveOK, Running, TestFails, At, Ends, Idle
<1>3. ASSUME NEW w \in Savers, StoreFails(w) PROVE SaveOK'
  BY <1>3 DEF SaveType, SaveStates, SaveOK, Running, StoreFails, At, Ends, Idle
<1>4. ASSUME NEW w \in Savers, TestPasses(w) PROVE SaveOK'
  BY <1>4 DEF SaveType, SaveStates, SaveOK, Running, TestPasses, At, Goes
<1>5. ASSUME NEW w \in Savers, Store(w) PROVE SaveOK'
  BY <1>5 DEF SaveType, SaveStates, SaveOK, Running, Store, At, Goes
<1>6. ASSUME NEW w \in Savers, SaveHeaders(w) PROVE SaveOK'
  BY <1>6 DEF SaveType, SaveStates, SaveOK, Running, SaveHeaders, At, Goes,
     KeepHeadersOf, NoHeaders
<1>7. ASSUME NEW w \in Savers, ReplaceOrigin(w) PROVE SaveOK'
  BY <1>7 DEF SaveType, SaveStates, SaveOK, Running, ReplaceOrigin, At, Goes
<1>8. ASSUME NEW w \in Savers, Forget(w) PROVE SaveOK'
  BY <1>8 DEF SaveType, SaveStates, SaveOK, Running, Forget, At, Goes
<1>9. ASSUME NEW w \in Savers, StopPlayback(w) PROVE SaveOK'
  BY <1>9 DEF SaveType, SaveStates, SaveOK, Running, StopPlayback, At, Goes
<1>10. ASSUME NEW w \in Savers, Wake(w) PROVE SaveOK'
  BY <1>10 DEF SaveType, SaveStates, SaveOK, Running, Wake, At, Goes
<1>11. ASSUME NEW w \in Savers, Sync(w) PROVE SaveOK'
  BY <1>11 DEF SaveType, SaveStates, SaveOK, Running, Sync, At, Ends, Idle, Synced
<1>12. CASE FeedSteps
  BY <1>12, FeedStepLeaves DEF SaveType, SaveStates, SaveOK, Running
<1>13. CASE RequestSteps
  BY <1>13, RequestStepLeaves DEF SaveType, SaveStates, SaveOK, Running
<1>14. CASE Start
  BY <1>14 DEF SaveType, SaveStates, SaveOK, Running, Start, Restore, Restored,
     NoHeaders
<1>15. CASE SetServerHeaders
  BY <1>15 DEF SaveType, SaveStates, SaveOK, Running, SetServerHeaders
<1>16. CASE RestoredAgain
  BY <1>16 DEF SaveType, SaveStates, SaveOK, Running, RestoredAgain, Restore, Restored
<1>17. CASE Play
  BY <1>17 DEF SaveType, SaveStates, SaveOK, Running, Play
<1>18. CASE Quit
  BY <1>18 DEF SaveType, SaveStates, SaveOK, Running, Quit
<1>19. CASE Gone
  BY <1>19 DEF SaveType, SaveStates, SaveOK, Running, Gone, Idle, NoRequest
<1>20. CASE UNCHANGED vars
  BY <1>20 DEF SaveType, SaveStates, SaveOK, Running, vars
<1> QED BY <1>1, <1>2, <1>3, <1>4, <1>5, <1>6, <1>7, <1>8, <1>9, <1>10, <1>11, <1>12,
   <1>13, <1>14, <1>15, <1>16, <1>17, <1>18, <1>19, <1>20, GoneSteps DEF Next,
   SaveSteps, Gifts, LifeSteps

LEMMA NextFeedOK ==
  ASSUME CoreType, FeedType, FeedOK, [Next]_vars
  PROVE  FeedOK'
<1>1. CASE SaveSteps
  BY <1>1, SaveStepLeaves DEF CoreType, FeedType, FeedOK, Origins
<1>2. CASE ReadOrigin
  BY <1>2 DEF CoreType, FeedType, FeedOK, Origins, ReadOrigin, HeadersFor
<1>3. CASE OpenStream
  BY <1>3 DEF CoreType, FeedType, FeedOK, Origins, OpenStream, HeadersFor
<1>4. CASE StreamOpens
  BY <1>4 DEF CoreType, FeedType, FeedOK, Origins, StreamOpens
<1>5. CASE FeedFails
  BY <1>5 DEF CoreType, FeedType, FeedOK, Origins, FeedFails
<1>6. CASE FeedWoken
  BY <1>6 DEF CoreType, FeedType, FeedOK, Origins, FeedWoken
<1>7. CASE FeedWaits
  BY <1>7 DEF CoreType, FeedType, FeedOK, Origins, FeedWaits
<1>8. CASE RequestSteps
  BY <1>8, RequestStepLeaves DEF CoreType, FeedType, FeedOK, Origins
<1>9. CASE Start
  BY <1>9 DEF CoreType, FeedType, FeedOK, Origins, Start, Restore, Restored, NoHeaders
<1>10. CASE SetServerHeaders
  BY <1>10 DEF CoreType, FeedType, FeedOK, Origins, SetServerHeaders
<1>11. CASE RestoredAgain
  BY <1>11 DEF CoreType, FeedType, FeedOK, Origins, RestoredAgain, Restore, Restored
<1>12. CASE Play
  BY <1>12 DEF CoreType, FeedType, FeedOK, Origins, Play
<1>13. CASE Quit
  BY <1>13 DEF CoreType, FeedType, FeedOK, Origins, Quit
<1>14. CASE Gone
  BY <1>14 DEF CoreType, FeedType, FeedOK, Origins, Gone, Idle, NoRequest
<1>15. CASE UNCHANGED vars
  BY <1>15 DEF CoreType, FeedType, FeedOK, Origins, vars
<1> QED BY <1>1, <1>2, <1>3, <1>4, <1>5, <1>6, <1>7, <1>8, <1>9, <1>10, <1>11, <1>12,
   <1>13, <1>14, <1>15, GoneSteps DEF Next, FeedSteps, LifeSteps

LEMMA NextHeadersOK ==
  ASSUME CoreType, SaveType, HeadersOK, [Next]_vars
  PROVE  HeadersOK'
<1>1. ASSUME NEW w \in Savers, NEW s \in Servers, NEW given \in Gifts, Save(w, s, given)
      PROVE  HeadersOK'
  BY <1>1 DEF CoreType, SaveType, SaveStates, Gifts, HeadersOK, Save, HeadersFor
<1>2. ASSUME NEW w \in Savers, TestFails(w) PROVE HeadersOK'
  BY <1>2 DEF CoreType, SaveType, SaveStates, Gifts, HeadersOK, TestFails, At, Ends,
     Idle
<1>3. ASSUME NEW w \in Savers, StoreFails(w) PROVE HeadersOK'
  BY <1>3 DEF CoreType, SaveType, SaveStates, Gifts, HeadersOK, StoreFails, At, Ends,
     Idle
<1>4. ASSUME NEW w \in Savers, TestPasses(w) PROVE HeadersOK'
  BY <1>4 DEF CoreType, SaveType, SaveStates, Gifts, HeadersOK, TestPasses, At, Goes
<1>5. ASSUME NEW w \in Savers, Store(w) PROVE HeadersOK'
  BY <1>5 DEF CoreType, SaveType, SaveStates, Gifts, HeadersOK, Store, At, Goes
<1>6. ASSUME NEW w \in Savers, SaveHeaders(w) PROVE HeadersOK'
  BY <1>6 DEF CoreType, SaveType, SaveStates, Gifts, HeadersOK, SaveHeaders, At, Goes,
     KeepHeadersOf, NoHeaders
<1>7. ASSUME NEW w \in Savers, ReplaceOrigin(w) PROVE HeadersOK'
  BY <1>7 DEF CoreType, SaveType, SaveStates, Gifts, HeadersOK, ReplaceOrigin, At, Goes
<1>8. ASSUME NEW w \in Savers, Forget(w) PROVE HeadersOK'
  BY <1>8 DEF CoreType, SaveType, SaveStates, Gifts, HeadersOK, Forget, At, Goes
<1>9. ASSUME NEW w \in Savers, StopPlayback(w) PROVE HeadersOK'
  BY <1>9 DEF CoreType, SaveType, SaveStates, Gifts, HeadersOK, StopPlayback, At, Goes
<1>10. ASSUME NEW w \in Savers, Wake(w) PROVE HeadersOK'
  BY <1>10 DEF CoreType, SaveType, SaveStates, Gifts, HeadersOK, Wake, At, Goes
<1>11. ASSUME NEW w \in Savers, Sync(w) PROVE HeadersOK'
  BY <1>11 DEF CoreType, SaveType, SaveStates, Gifts, HeadersOK, Sync, At, Ends, Idle,
     Synced
<1>12. CASE FeedSteps
  BY <1>12, FeedStepLeaves DEF CoreType, SaveType, SaveStates, Gifts, HeadersOK
<1>13. CASE RequestSteps
  BY <1>13, RequestStepLeaves DEF CoreType, SaveType, SaveStates, Gifts, HeadersOK
<1>14. CASE Start
  BY <1>14 DEF CoreType, SaveType, SaveStates, Gifts, HeadersOK, Start, Restore,
     Restored, NoHeaders
<1>15. CASE SetServerHeaders
  BY <1>15 DEF CoreType, SaveType, SaveStates, Gifts, HeadersOK, SetServerHeaders
<1>16. CASE RestoredAgain
  BY <1>16 DEF CoreType, SaveType, SaveStates, Gifts, HeadersOK, RestoredAgain,
     Restore, Restored
<1>17. CASE Play
  BY <1>17 DEF CoreType, SaveType, SaveStates, Gifts, HeadersOK, Play
<1>18. CASE Quit
  BY <1>18 DEF CoreType, SaveType, SaveStates, Gifts, HeadersOK, Quit
<1>19. CASE Gone
  BY <1>19 DEF CoreType, SaveType, SaveStates, Gifts, HeadersOK, Gone, Idle, NoRequest
<1>20. CASE UNCHANGED vars
  BY <1>20 DEF CoreType, SaveType, SaveStates, Gifts, HeadersOK, vars
<1> QED BY <1>1, <1>2, <1>3, <1>4, <1>5, <1>6, <1>7, <1>8, <1>9, <1>10, <1>11, <1>12,
   <1>13, <1>14, <1>15, <1>16, <1>17, <1>18, <1>19, <1>20, GoneSteps DEF Next,
   SaveSteps, Gifts, LifeSteps

LEMMA NextHeadersStayHome ==
  ASSUME HeadersOK, HeadersStayHome, [Next]_vars
  PROVE  HeadersStayHome'
<1>1. ASSUME NEW w \in Savers, NEW s \in Servers, NEW given \in Gifts, Save(w, s, given)
      PROVE  HeadersStayHome'
  BY <1>1 DEF HeadersOK, HeadersStayHome, Gifts, Save, HeadersFor
<1>2. ASSUME NEW w \in Savers, TestFails(w) PROVE HeadersStayHome'
  BY <1>2 DEF HeadersOK, HeadersStayHome, Gifts, TestFails, At, Ends, Idle
<1>3. ASSUME NEW w \in Savers, StoreFails(w) PROVE HeadersStayHome'
  BY <1>3 DEF HeadersOK, HeadersStayHome, Gifts, StoreFails, At, Ends, Idle
<1>4. ASSUME NEW w \in Savers, TestPasses(w) PROVE HeadersStayHome'
  BY <1>4 DEF HeadersOK, HeadersStayHome, Gifts, TestPasses, At, Goes
<1>5. ASSUME NEW w \in Savers, Store(w) PROVE HeadersStayHome'
  BY <1>5 DEF HeadersOK, HeadersStayHome, Gifts, Store, At, Goes
<1>6. ASSUME NEW w \in Savers, SaveHeaders(w) PROVE HeadersStayHome'
  BY <1>6 DEF HeadersOK, HeadersStayHome, Gifts, SaveHeaders, At, Goes, KeepHeadersOf,
     NoHeaders
<1>7. ASSUME NEW w \in Savers, ReplaceOrigin(w) PROVE HeadersStayHome'
  BY <1>7 DEF HeadersOK, HeadersStayHome, Gifts, ReplaceOrigin, At, Goes
<1>8. ASSUME NEW w \in Savers, Forget(w) PROVE HeadersStayHome'
  BY <1>8 DEF HeadersOK, HeadersStayHome, Gifts, Forget, At, Goes
<1>9. ASSUME NEW w \in Savers, StopPlayback(w) PROVE HeadersStayHome'
  BY <1>9 DEF HeadersOK, HeadersStayHome, Gifts, StopPlayback, At, Goes
<1>10. ASSUME NEW w \in Savers, Wake(w) PROVE HeadersStayHome'
  BY <1>10 DEF HeadersOK, HeadersStayHome, Gifts, Wake, At, Goes
<1>11. ASSUME NEW w \in Savers, Sync(w) PROVE HeadersStayHome'
  BY <1>11 DEF HeadersOK, HeadersStayHome, Gifts, Sync, At, Ends, Idle, Synced
<1>12. CASE ReadOrigin
  BY <1>12 DEF HeadersOK, HeadersStayHome, Gifts, ReadOrigin, HeadersFor
<1>13. CASE OpenStream
  BY <1>13 DEF HeadersOK, HeadersStayHome, Gifts, OpenStream, HeadersFor
<1>14. CASE StreamOpens
  BY <1>14 DEF HeadersOK, HeadersStayHome, Gifts, StreamOpens
<1>15. CASE FeedFails
  BY <1>15 DEF HeadersOK, HeadersStayHome, Gifts, FeedFails
<1>16. CASE FeedWoken
  BY <1>16 DEF HeadersOK, HeadersStayHome, Gifts, FeedWoken
<1>17. CASE FeedWaits
  BY <1>17 DEF HeadersOK, HeadersStayHome, Gifts, FeedWaits
<1>18. CASE ReadRequest
  BY <1>18 DEF HeadersOK, HeadersStayHome, Gifts, ReadRequest, Register
<1>19. CASE ReadCancel
  BY <1>19 DEF HeadersOK, HeadersStayHome, Gifts, ReadCancel
<1>20. CASE Cancel
  BY <1>20 DEF HeadersOK, HeadersStayHome, Gifts, Cancel
<1>21. CASE Send
  BY <1>21 DEF HeadersOK, HeadersStayHome, Gifts, Send, Finished, HeadersFor
<1>22. CASE Answer
  BY <1>22 DEF HeadersOK, HeadersStayHome, Gifts, Answer, Finished
<1>23. CASE Media
  BY <1>23 DEF HeadersOK, HeadersStayHome, Gifts, Media, HeadersFor, RequestUnchanged
<1>24. CASE Start
  BY <1>24 DEF HeadersOK, HeadersStayHome, Gifts, Start, Restore, Restored, NoHeaders
<1>25. CASE SetServerHeaders
  BY <1>25 DEF HeadersOK, HeadersStayHome, Gifts, SetServerHeaders
<1>26. CASE RestoredAgain
  BY <1>26 DEF HeadersOK, HeadersStayHome, Gifts, RestoredAgain, Restore, Restored
<1>27. CASE Play
  BY <1>27 DEF HeadersOK, HeadersStayHome, Gifts, Play
<1>28. CASE Quit
  BY <1>28 DEF HeadersOK, HeadersStayHome, Gifts, Quit
<1>29. CASE Gone
  BY <1>29 DEF HeadersOK, HeadersStayHome, Gifts, Gone, Idle, NoRequest
<1>30. CASE UNCHANGED vars
  BY <1>30 DEF HeadersOK, HeadersStayHome, Gifts, vars
<1> QED BY <1>1, <1>2, <1>3, <1>4, <1>5, <1>6, <1>7, <1>8, <1>9, <1>10, <1>11, <1>12,
   <1>13, <1>14, <1>15, <1>16, <1>17, <1>18, <1>19, <1>20, <1>21, <1>22, <1>23, <1>24,
   <1>25, <1>26, <1>27, <1>28, <1>29, <1>30, GoneSteps DEF Next, SaveSteps, Gifts,
   FeedSteps, RequestSteps, LifeSteps

LEMMA NextPlayerOK ==
  ASSUME SlipType, SaveType, PlayerOK, [Next]_vars
  PROVE  PlayerOK'
<1>1. ASSUME NEW w \in Savers, NEW s \in Servers, NEW given \in Gifts, Save(w, s, given)
      PROVE  PlayerOK'
  BY <1>1 DEF SlipType, SaveType, SaveStates, PlayerOK, Save, HeadersFor
<1>2. ASSUME NEW w \in Savers, TestFails(w) PROVE PlayerOK'
  BY <1>2 DEF SlipType, SaveType, SaveStates, PlayerOK, TestFails, At, Ends, Idle
<1>3. ASSUME NEW w \in Savers, StoreFails(w) PROVE PlayerOK'
  BY <1>3 DEF SlipType, SaveType, SaveStates, PlayerOK, StoreFails, At, Ends, Idle
<1>4. ASSUME NEW w \in Savers, TestPasses(w) PROVE PlayerOK'
  BY <1>4 DEF SlipType, SaveType, SaveStates, PlayerOK, TestPasses, At, Goes
<1>5. ASSUME NEW w \in Savers, Store(w) PROVE PlayerOK'
  BY <1>5 DEF SlipType, SaveType, SaveStates, PlayerOK, Store, At, Goes
<1>6. ASSUME NEW w \in Savers, SaveHeaders(w) PROVE PlayerOK'
  BY <1>6 DEF SlipType, SaveType, SaveStates, PlayerOK, SaveHeaders, At, Goes,
     KeepHeadersOf, NoHeaders
<1>7. ASSUME NEW w \in Savers, ReplaceOrigin(w) PROVE PlayerOK'
  BY <1>7 DEF SlipType, SaveType, SaveStates, PlayerOK, ReplaceOrigin, At, Goes
<1>8. ASSUME NEW w \in Savers, Forget(w) PROVE PlayerOK'
  BY <1>8 DEF SlipType, SaveType, SaveStates, PlayerOK, Forget, At, Goes
<1>9. ASSUME NEW w \in Savers, StopPlayback(w) PROVE PlayerOK'
  <2>1. CASE playing' = None
    BY <2>1 DEF PlayerOK
  <2>2. CASE slip' = slip \cup {"stop"}
    BY <2>2 DEF PlayerOK
  <2> QED BY <1>9, <2>1, <2>2 DEF StopPlayback
<1>10. ASSUME NEW w \in Savers, Wake(w) PROVE PlayerOK'
  BY <1>10 DEF SlipType, SaveType, SaveStates, PlayerOK, Wake, At, Goes
<1>11. ASSUME NEW w \in Savers, Sync(w) PROVE PlayerOK'
  BY <1>11 DEF SlipType, SaveType, SaveStates, PlayerOK, Sync, At, Ends, Idle, Synced
<1>12. CASE FeedSteps
  BY <1>12, FeedStepLeaves DEF SlipType, SaveType, SaveStates, PlayerOK
<1>13. CASE RequestSteps
  BY <1>13, RequestStepLeaves DEF SlipType, SaveType, SaveStates, PlayerOK
<1>14. CASE Start
  BY <1>14 DEF SlipType, SaveType, SaveStates, PlayerOK, Start, Restore, Restored,
     NoHeaders
<1>15. CASE SetServerHeaders
  BY <1>15 DEF SlipType, SaveType, SaveStates, PlayerOK, SetServerHeaders
<1>16. CASE RestoredAgain
  BY <1>16 DEF SlipType, SaveType, SaveStates, PlayerOK, RestoredAgain, Restore,
     Restored
<1>17. CASE Play
  BY <1>17 DEF SlipType, SaveType, SaveStates, PlayerOK, Play
<1>18. CASE Quit
  BY <1>18 DEF SlipType, SaveType, SaveStates, PlayerOK, Quit
<1>19. CASE Gone
  BY <1>19 DEF SlipType, SaveType, SaveStates, PlayerOK, Gone, Idle, NoRequest
<1>20. CASE UNCHANGED vars
  BY <1>20 DEF SlipType, SaveType, SaveStates, PlayerOK, vars
<1> QED BY <1>1, <1>2, <1>3, <1>4, <1>5, <1>6, <1>7, <1>8, <1>9, <1>10, <1>11, <1>12,
   <1>13, <1>14, <1>15, <1>16, <1>17, <1>18, <1>19, <1>20, GoneSteps DEF Next,
   SaveSteps, Gifts, LifeSteps

LEMMA NextRequestOK ==
  ASSUME RequestType, RequestOK, [Next]_vars
  PROVE  RequestOK'
<1>1. CASE SaveSteps
  BY <1>1, SaveStepLeaves DEF RequestOK, CancelIsHeard
<1>2. CASE FeedSteps
  BY <1>2, FeedStepLeaves DEF RequestOK, CancelIsHeard
<1>3. CASE ReadRequest
  BY <1>3 DEF RequestType, RequestOK, CancelIsHeard, ReadRequest, Register
<1>4. CASE ReadCancel
  BY <1>4 DEF RequestType, RequestOK, CancelIsHeard, ReadCancel
<1>5. CASE Cancel
  BY <1>5 DEF RequestType, RequestOK, CancelIsHeard, Cancel
<1>6. CASE Send
  BY <1>6 DEF RequestType, RequestOK, CancelIsHeard, Send, Finished, HeadersFor
<1>7. CASE Answer
  BY <1>7 DEF RequestType, RequestOK, CancelIsHeard, Answer, Finished
<1>8. CASE Media
  BY <1>8 DEF RequestType, RequestOK, CancelIsHeard, Media, HeadersFor, RequestUnchanged
<1>9. CASE Start
  BY <1>9 DEF RequestType, RequestOK, CancelIsHeard, Start, Restore, Restored, NoHeaders
<1>10. CASE SetServerHeaders
  BY <1>10 DEF RequestType, RequestOK, CancelIsHeard, SetServerHeaders
<1>11. CASE RestoredAgain
  BY <1>11 DEF RequestType, RequestOK, CancelIsHeard, RestoredAgain, Restore, Restored
<1>12. CASE Play
  BY <1>12 DEF RequestType, RequestOK, CancelIsHeard, Play
<1>13. CASE Quit
  BY <1>13 DEF RequestType, RequestOK, CancelIsHeard, Quit
<1>14. CASE Gone
  BY <1>14 DEF RequestType, RequestOK, CancelIsHeard, Gone, Idle, NoRequest
<1>15. CASE UNCHANGED vars
  BY <1>15 DEF RequestType, RequestOK, CancelIsHeard, vars
<1> QED BY <1>1, <1>2, <1>3, <1>4, <1>5, <1>6, <1>7, <1>8, <1>9, <1>10, <1>11, <1>12,
   <1>13, <1>14, <1>15, GoneSteps DEF Next, RequestSteps, LifeSteps

-----------------------------------------------------------------------------
(* What holds when one renderer saves at a time *)

LEMMA NextDiskOK ==
  ASSUME NEW w \in Savers, Savers = {w}, FilesType, CoreType, SaveType, SaveOK, OffOK,
     Running => DiskOK(w), [Next]_vars, Running'
  PROVE  DiskOK(w)'
<1>1. ASSUME NEW s \in Servers, NEW given \in Gifts, Save(w, s, given)
      PROVE  DiskOK(w)'
  BY <1>1 DEF Running, CoreType, SaveType, SaveStates, SaveOK, DiskOK, IsBefore,
     IsUnsynced, IsMoved, Save, HeadersFor
<1>2. CASE TestFails(w)
  BY <1>2 DEF Running, CoreType, SaveType, SaveStates, SaveOK, DiskOK, IsBefore,
     IsUnsynced, IsMoved, TestFails, At, Ends, Idle
<1>3. CASE StoreFails(w)
  BY <1>3 DEF Running, CoreType, SaveType, SaveStates, SaveOK, DiskOK, IsBefore,
     IsUnsynced, IsMoved, StoreFails, At, Ends, Idle
<1>4. CASE TestPasses(w)
  BY <1>4 DEF Running, CoreType, SaveType, SaveStates, SaveOK, DiskOK, IsBefore,
     IsUnsynced, IsMoved, TestPasses, At, Goes
<1>5. CASE Store(w)
  BY <1>5 DEF Running, CoreType, SaveType, SaveStates, SaveOK, DiskOK, IsBefore,
     IsUnsynced, IsMoved, Store, At, Goes
<1>6. CASE SaveHeaders(w)
  BY <1>6 DEF Running, CoreType, SaveType, SaveStates, SaveOK, DiskOK, IsBefore,
     IsUnsynced, IsMoved, SaveHeaders, At, Goes, KeepHeadersOf, NoHeaders
<1>7. CASE ReplaceOrigin(w)
  BY <1>7 DEF Running, CoreType, SaveType, SaveStates, SaveOK, DiskOK, IsBefore,
     IsUnsynced, IsMoved, ReplaceOrigin, At, Goes
<1>8. CASE Forget(w)
  BY <1>8 DEF Running, CoreType, SaveType, SaveStates, SaveOK, DiskOK, IsBefore,
     IsUnsynced, IsMoved, Forget, At, Goes
<1>9. CASE StopPlayback(w)
  BY <1>9 DEF Running, CoreType, SaveType, SaveStates, SaveOK, DiskOK, IsBefore,
     IsUnsynced, IsMoved, StopPlayback, At, Goes
<1>10. CASE Wake(w)
  BY <1>10 DEF Running, CoreType, SaveType, SaveStates, SaveOK, DiskOK, IsBefore,
     IsUnsynced, IsMoved, Wake, At, Goes
<1>11. CASE Sync(w)
  BY <1>11 DEF Running, CoreType, SaveType, SaveStates, SaveOK, DiskOK, IsBefore,
     IsUnsynced, IsMoved, Sync, At, Ends, Idle, Synced
<1>12. CASE FeedSteps
  BY <1>12, FeedStepLeaves DEF Running, CoreType, SaveType, SaveStates, SaveOK,
     DiskOK, IsBefore, IsUnsynced, IsMoved
<1>13. CASE RequestSteps
  BY <1>13, RequestStepLeaves DEF Running, CoreType, SaveType, SaveStates, SaveOK,
     DiskOK, IsBefore, IsUnsynced, IsMoved
<1>14. CASE Start
  BY <1>14 DEF Running, CoreType, SaveType, SaveStates, SaveOK, DiskOK, IsBefore,
     IsUnsynced, IsMoved, Start, Restore, Restored, NoHeaders
<1>15. CASE SetServerHeaders
  BY <1>15 DEF Running, CoreType, SaveType, SaveStates, SaveOK, DiskOK, IsBefore,
     IsUnsynced, IsMoved, SetServerHeaders
<1>16. CASE RestoredAgain
  BY <1>16 DEF Running, CoreType, SaveType, SaveStates, SaveOK, DiskOK, IsBefore,
     IsUnsynced, IsMoved, RestoredAgain, Restore, Restored
<1>17. CASE Play
  BY <1>17 DEF Running, CoreType, SaveType, SaveStates, SaveOK, DiskOK, IsBefore,
     IsUnsynced, IsMoved, Play
<1>18. CASE Quit
  BY <1>18 DEF Running, CoreType, SaveType, SaveStates, SaveOK, DiskOK, IsBefore,
     IsUnsynced, IsMoved, Quit
<1>19. CASE Gone
  BY <1>19 DEF Running, CoreType, SaveType, SaveStates, SaveOK, DiskOK, IsBefore,
     IsUnsynced, IsMoved, Gone, Idle, NoRequest
<1>20. CASE UNCHANGED vars
  BY <1>20 DEF Running, CoreType, SaveType, SaveStates, SaveOK, DiskOK, IsBefore,
     IsUnsynced, IsMoved, vars
<1> QED BY <1>1, <1>2, <1>3, <1>4, <1>5, <1>6, <1>7, <1>8, <1>9, <1>10, <1>11, <1>12,
   <1>13, <1>14, <1>15, <1>16, <1>17, <1>18, <1>19, <1>20, GoneSteps DEF Next,
   SaveSteps, Gifts, LifeSteps

LEMMA NextCoreHeadersOK ==
  ASSUME NEW w \in Savers, Savers = {w}, FilesType, CoreType, SaveType, SaveOK, OffOK,
     HeadersOK, Running => CoreHeadersOK(w), [Next]_vars, Running'
  PROVE  CoreHeadersOK(w)'
<1>1. ASSUME NEW s \in Servers, NEW given \in Gifts, Save(w, s, given)
      PROVE  CoreHeadersOK(w)'
  BY <1>1 DEF Running, CoreType, SaveType, SaveStates, Gifts, SaveOK, CoreHeadersOK,
     HeadersOK, IsHeaded, Save, HeadersFor
<1>2. CASE TestFails(w)
  BY <1>2 DEF Running, CoreType, SaveType, SaveStates, Gifts, SaveOK, CoreHeadersOK,
     HeadersOK, IsHeaded, TestFails, At, Ends, Idle
<1>3. CASE StoreFails(w)
  BY <1>3 DEF Running, CoreType, SaveType, SaveStates, Gifts, SaveOK, CoreHeadersOK,
     HeadersOK, IsHeaded, StoreFails, At, Ends, Idle
<1>4. CASE TestPasses(w)
  BY <1>4 DEF Running, CoreType, SaveType, SaveStates, Gifts, SaveOK, CoreHeadersOK,
     HeadersOK, IsHeaded, TestPasses, At, Goes
<1>5. CASE Store(w)
  BY <1>5 DEF Running, CoreType, SaveType, SaveStates, Gifts, SaveOK, CoreHeadersOK,
     HeadersOK, IsHeaded, Store, At, Goes
<1>6. CASE SaveHeaders(w)
  BY <1>6 DEF Running, CoreType, SaveType, SaveStates, Gifts, SaveOK, CoreHeadersOK,
     HeadersOK, IsHeaded, SaveHeaders, At, Goes, KeepHeadersOf, NoHeaders
<1>7. CASE ReplaceOrigin(w)
  BY <1>7 DEF Running, CoreType, SaveType, SaveStates, Gifts, SaveOK, CoreHeadersOK,
     HeadersOK, IsHeaded, ReplaceOrigin, At, Goes
<1>8. CASE Forget(w)
  BY <1>8 DEF Running, CoreType, SaveType, SaveStates, Gifts, SaveOK, CoreHeadersOK,
     HeadersOK, IsHeaded, Forget, At, Goes
<1>9. CASE StopPlayback(w)
  BY <1>9 DEF Running, CoreType, SaveType, SaveStates, Gifts, SaveOK, CoreHeadersOK,
     HeadersOK, IsHeaded, StopPlayback, At, Goes
<1>10. CASE Wake(w)
  BY <1>10 DEF Running, CoreType, SaveType, SaveStates, Gifts, SaveOK, CoreHeadersOK,
     HeadersOK, IsHeaded, Wake, At, Goes
<1>11. CASE Sync(w)
  BY <1>11 DEF Running, CoreType, SaveType, SaveStates, Gifts, SaveOK, CoreHeadersOK,
     HeadersOK, IsHeaded, Sync, At, Ends, Idle, Synced
<1>12. CASE FeedSteps
  BY <1>12, FeedStepLeaves DEF Running, CoreType, SaveType, SaveStates, Gifts, SaveOK,
     CoreHeadersOK, HeadersOK, IsHeaded
<1>13. CASE RequestSteps
  BY <1>13, RequestStepLeaves DEF Running, CoreType, SaveType, SaveStates, Gifts,
     SaveOK, CoreHeadersOK, HeadersOK, IsHeaded
<1>14. CASE Start
  BY <1>14 DEF Running, CoreType, SaveType, SaveStates, Gifts, SaveOK, CoreHeadersOK,
     HeadersOK, IsHeaded, Start, Restore, Restored, NoHeaders
<1>15. CASE SetServerHeaders
  BY <1>15 DEF Running, CoreType, SaveType, SaveStates, Gifts, SaveOK, CoreHeadersOK,
     HeadersOK, IsHeaded, SetServerHeaders
<1>16. CASE RestoredAgain
  BY <1>16 DEF Running, CoreType, SaveType, SaveStates, Gifts, SaveOK, CoreHeadersOK,
     HeadersOK, IsHeaded, RestoredAgain, Restore, Restored
<1>17. CASE Play
  BY <1>17 DEF Running, CoreType, SaveType, SaveStates, Gifts, SaveOK, CoreHeadersOK,
     HeadersOK, IsHeaded, Play
<1>18. CASE Quit
  BY <1>18 DEF Running, CoreType, SaveType, SaveStates, Gifts, SaveOK, CoreHeadersOK,
     HeadersOK, IsHeaded, Quit
<1>19. CASE Gone
  BY <1>19 DEF Running, CoreType, SaveType, SaveStates, Gifts, SaveOK, CoreHeadersOK,
     HeadersOK, IsHeaded, Gone, Idle, NoRequest
<1>20. CASE UNCHANGED vars
  BY <1>20 DEF Running, CoreType, SaveType, SaveStates, Gifts, SaveOK, CoreHeadersOK,
     HeadersOK, IsHeaded, vars
<1> QED BY <1>1, <1>2, <1>3, <1>4, <1>5, <1>6, <1>7, <1>8, <1>9, <1>10, <1>11, <1>12,
   <1>13, <1>14, <1>15, <1>16, <1>17, <1>18, <1>19, <1>20, GoneSteps DEF Next,
   SaveSteps, Gifts, LifeSteps

LEMMA NextCutOrKept ==
  ASSUME NEW w \in Savers, Savers = {w}, FilesType, CoreType, SaveType, SaveOK, OffOK,
     Running => DiskOK(w) /\ CoreHeadersOK(w) /\ CutOrKept(w), [Next]_vars, Running'
  PROVE  CutOrKept(w)'
<1>1. ASSUME NEW s \in Servers, NEW given \in Gifts, Save(w, s, given)
      PROVE  CutOrKept(w)'
  BY <1>1 DEF Running, FilesType, CoreType, SaveType, SaveStates, Gifts, SaveOK,
     OffOK, DiskOK, CoreHeadersOK, CutOrKept, KeptOK, HasKept, IsBefore, IsHeaded,
     IsMoved, IsUnsynced, Save, HeadersFor
<1>2. CASE TestFails(w)
  BY <1>2 DEF Running, FilesType, CoreType, SaveType, SaveStates, Gifts, SaveOK,
     OffOK, DiskOK, CoreHeadersOK, CutOrKept, KeptOK, HasKept, IsBefore, IsHeaded,
     IsMoved, IsUnsynced, TestFails, At, Ends, Idle
<1>3. CASE StoreFails(w)
  BY <1>3 DEF Running, FilesType, CoreType, SaveType, SaveStates, Gifts, SaveOK,
     OffOK, DiskOK, CoreHeadersOK, CutOrKept, KeptOK, HasKept, IsBefore, IsHeaded,
     IsMoved, IsUnsynced, StoreFails, At, Ends, Idle
<1>4. CASE TestPasses(w)
  BY <1>4 DEF Running, FilesType, CoreType, SaveType, SaveStates, Gifts, SaveOK,
     OffOK, DiskOK, CoreHeadersOK, CutOrKept, KeptOK, HasKept, IsBefore, IsHeaded,
     IsMoved, IsUnsynced, TestPasses, At, Goes
<1>5. CASE Store(w)
  BY <1>5 DEF Running, FilesType, CoreType, SaveType, SaveStates, Gifts, SaveOK,
     OffOK, DiskOK, CoreHeadersOK, CutOrKept, KeptOK, HasKept, IsBefore, IsHeaded,
     IsMoved, IsUnsynced, Store, At, Goes
<1>6. CASE SaveHeaders(w)
  BY <1>6 DEF Running, FilesType, CoreType, SaveType, SaveStates, Gifts, SaveOK,
     OffOK, DiskOK, CoreHeadersOK, CutOrKept, KeptOK, HasKept, IsBefore, IsHeaded,
     IsMoved, IsUnsynced, SaveHeaders, At, Goes, KeepHeadersOf, NoHeaders
<1>7. CASE ReplaceOrigin(w)
  BY <1>7 DEF Running, FilesType, CoreType, SaveType, SaveStates, Gifts, SaveOK,
     OffOK, DiskOK, CoreHeadersOK, CutOrKept, KeptOK, HasKept, IsBefore, IsHeaded,
     IsMoved, IsUnsynced, ReplaceOrigin, At, Goes
<1>8. CASE Forget(w)
  BY <1>8 DEF Running, FilesType, CoreType, SaveType, SaveStates, Gifts, SaveOK,
     OffOK, DiskOK, CoreHeadersOK, CutOrKept, KeptOK, HasKept, IsBefore, IsHeaded,
     IsMoved, IsUnsynced, Forget, At, Goes
<1>9. CASE StopPlayback(w)
  BY <1>9 DEF Running, FilesType, CoreType, SaveType, SaveStates, Gifts, SaveOK,
     OffOK, DiskOK, CoreHeadersOK, CutOrKept, KeptOK, HasKept, IsBefore, IsHeaded,
     IsMoved, IsUnsynced, StopPlayback, At, Goes
<1>10. CASE Wake(w)
  BY <1>10 DEF Running, FilesType, CoreType, SaveType, SaveStates, Gifts, SaveOK,
     OffOK, DiskOK, CoreHeadersOK, CutOrKept, KeptOK, HasKept, IsBefore, IsHeaded,
     IsMoved, IsUnsynced, Wake, At, Goes
<1>11. CASE Sync(w)
  BY <1>11 DEF Running, FilesType, CoreType, SaveType, SaveStates, Gifts, SaveOK,
     OffOK, DiskOK, CoreHeadersOK, CutOrKept, KeptOK, HasKept, IsBefore, IsHeaded,
     IsMoved, IsUnsynced, Sync, At, Ends, Idle, Synced
<1>12. CASE FeedSteps
  BY <1>12, FeedStepLeaves DEF Running, FilesType, CoreType, SaveType, SaveStates,
     Gifts, SaveOK, OffOK, DiskOK, CoreHeadersOK, CutOrKept, KeptOK, HasKept,
     IsBefore, IsHeaded, IsMoved, IsUnsynced
<1>13. CASE RequestSteps
  BY <1>13, RequestStepLeaves DEF Running, FilesType, CoreType, SaveType, SaveStates,
     Gifts, SaveOK, OffOK, DiskOK, CoreHeadersOK, CutOrKept, KeptOK, HasKept,
     IsBefore, IsHeaded, IsMoved, IsUnsynced
<1>14. CASE Start
  BY <1>14 DEF Running, FilesType, CoreType, SaveType, SaveStates, Gifts, SaveOK,
     OffOK, DiskOK, CoreHeadersOK, CutOrKept, KeptOK, HasKept, IsBefore, IsHeaded,
     IsMoved, IsUnsynced, Start, Restore, Restored, NoHeaders
<1>15. CASE SetServerHeaders
  BY <1>15 DEF Running, FilesType, CoreType, SaveType, SaveStates, Gifts, SaveOK,
     OffOK, DiskOK, CoreHeadersOK, CutOrKept, KeptOK, HasKept, IsBefore, IsHeaded,
     IsMoved, IsUnsynced, SetServerHeaders
<1>16. CASE RestoredAgain
  BY <1>16 DEF Running, FilesType, CoreType, SaveType, SaveStates, Gifts, SaveOK,
     OffOK, DiskOK, CoreHeadersOK, CutOrKept, KeptOK, HasKept, IsBefore, IsHeaded,
     IsMoved, IsUnsynced, RestoredAgain, Restore, Restored
<1>17. CASE Play
  BY <1>17 DEF Running, FilesType, CoreType, SaveType, SaveStates, Gifts, SaveOK,
     OffOK, DiskOK, CoreHeadersOK, CutOrKept, KeptOK, HasKept, IsBefore, IsHeaded,
     IsMoved, IsUnsynced, Play
<1>18. CASE Quit
  BY <1>18 DEF Running, FilesType, CoreType, SaveType, SaveStates, Gifts, SaveOK,
     OffOK, DiskOK, CoreHeadersOK, CutOrKept, KeptOK, HasKept, IsBefore, IsHeaded,
     IsMoved, IsUnsynced, Quit
<1>19. CASE Gone
  BY <1>19 DEF Running, FilesType, CoreType, SaveType, SaveStates, Gifts, SaveOK,
     OffOK, DiskOK, CoreHeadersOK, CutOrKept, KeptOK, HasKept, IsBefore, IsHeaded,
     IsMoved, IsUnsynced, Gone, Idle, NoRequest
<1>20. CASE UNCHANGED vars
  BY <1>20 DEF Running, FilesType, CoreType, SaveType, SaveStates, Gifts, SaveOK,
     OffOK, DiskOK, CoreHeadersOK, CutOrKept, KeptOK, HasKept, IsBefore, IsHeaded,
     IsMoved, IsUnsynced, vars
<1> QED BY <1>1, <1>2, <1>3, <1>4, <1>5, <1>6, <1>7, <1>8, <1>9, <1>10, <1>11, <1>12,
   <1>13, <1>14, <1>15, <1>16, <1>17, <1>18, <1>19, <1>20, GoneSteps DEF Next,
   SaveSteps, Gifts, LifeSteps

LEMMA NextOffOK ==
  ASSUME NEW w \in Savers, Savers = {w}, SaveType, SaveOK, OffOK,
         Running => DiskOK(w) /\ CutOrKept(w), [Next]_vars
  PROVE  OffOK'
<1>1. CASE SaveSteps
  BY <1>1, SaveStepLeaves DEF SaveSteps, OffOK, Save, TestFails, StoreFails, TestPasses,
     Store, SaveHeaders, ReplaceOrigin, Forget, StopPlayback, Wake, Sync, At, Running
<1>2. CASE FeedSteps \/ RequestSteps \/ UNCHANGED vars
  BY <1>2, FeedStepLeaves, RequestStepLeaves DEF OffOK, vars
<1>3. CASE Gone /\ Running
  BY <1>3 DEF OffOK, Gone, DiskOK, CutOrKept, KeptOK, IsBefore, IsUnsynced, SaveType,
     SaveStates, Places
<1>4. CASE Start \/ SetServerHeaders \/ RestoredAgain \/ Play \/ Quit
  BY <1>4 DEF OffOK, Start, SetServerHeaders, RestoredAgain, Play, Quit
<1>5. Exit \/ Kill => Gone /\ Running
  BY DEF Exit, Kill, Running
<1> QED BY <1>1, <1>2, <1>3, <1>4, <1>5 DEF Next, LifeSteps

-----------------------------------------------------------------------------
(* The theorems *)

LEMMA InitIInv == Init => IInv
<1> SUFFICES ASSUME Init PROVE IInv
  OBVIOUS
<1>1. TypeOK
  BY DEF Init, TypeOK, Origins, NoHeaders, Idle, NoRequest
<1>2. SaveOK /\ FeedOK /\ HeadersOK /\ HeadersStayHome
  BY DEF Init, SaveOK, FeedOK, HeadersOK, HeadersStayHome, NoHeaders, Idle
<1>3. PlayerOK /\ RequestOK
  BY DEF Init, PlayerOK, RequestOK, CancelIsHeard, NoRequest
<1>4. SerialOK
  BY DEF Init, SerialOK, OffOK, Running
<1> QED BY <1>1, <1>2, <1>3, <1>4 DEF IInv

LEMMA NextIInv == IInv /\ [Next]_vars => IInv'
<1> SUFFICES ASSUME IInv, [Next]_vars PROVE IInv'
  OBVIOUS
<1>1. /\ FilesType /\ CoreType /\ SaveType /\ FeedType /\ RequestType
      /\ SentType /\ SlipType
  BY TypeParts DEF IInv
<1>2. SaveOK /\ FeedOK /\ HeadersOK /\ HeadersStayHome /\ PlayerOK /\ RequestOK /\ SerialOK
  BY DEF IInv
<1>3. TypeOK'
  BY <1>1, <1>2, NextFilesType, NextCoreType, NextSaveType, NextFeedType, NextRequestType,
     NextSentType, NextSlipType, TypePartsNext
<1>4. SaveOK' /\ FeedOK' /\ HeadersOK' /\ HeadersStayHome' /\ PlayerOK' /\ RequestOK'
  BY <1>1, <1>2, NextSaveOK, NextFeedOK, NextHeadersOK, NextHeadersStayHome, NextPlayerOK,
     NextRequestOK
<1>5. ASSUME NEW w \in Savers, Savers = {w}
      PROVE  OffOK' /\ (Running' => DiskOK(w)' /\ CoreHeadersOK(w)' /\ CutOrKept(w)')
  <2>1. OffOK /\ (Running => DiskOK(w) /\ CoreHeadersOK(w) /\ CutOrKept(w))
    BY <1>2, <1>5 DEF SerialOK
  <2> QED BY <1>1, <1>2, <1>5, <2>1, NextOffOK, NextDiskOK, NextCoreHeadersOK, NextCutOrKept
<1>6. SerialOK'
  BY <1>5 DEF SerialOK
<1> QED BY <1>3, <1>4, <1>6 DEF IInv

LEMMA ConnectionIInv == Spec => []IInv
BY InitIInv, NextIInv, PTL DEF Spec

(* Headers entered for one Music Server are sent to no other, however many   *)
(* saves, tests, streams and requests overlap (connection.rs).               *)
THEOREM ConnectionHeadersStayHome == Spec => []HeadersStayHome
<1>1. IInv => HeadersStayHome
  BY DEF IInv
<1> QED BY <1>1, ConnectionIInv, PTL

(* What a restart finds: with one renderer that saves, the connection file   *)
(* is the core's, no headers the core holds are lost, and none come back     *)
(* unless the core ended between the two files of a save (lib.rs,            *)
(* server-headers.ts).                                                       *)
THEOREM ConnectionRestarts == Spec => [](IsSerial => RestartFindsTheSame)
<1>1. IInv => (IsSerial => RestartFindsTheSame)
  <2> SUFFICES ASSUME IInv, NEW w \in Savers, Savers = {w}, AtRest
               PROVE  RestartFindsTheSame
    BY DEF IsSerial, RestartFindsTheSame
  <2>1. Running /\ save[w].at = "idle" /\ shell = "done"
    BY DEF AtRest, Running
  <2>2. DiskOK(w) /\ CoreHeadersOK(w) /\ CutOrKept(w)
    BY <2>1 DEF IInv, SerialOK
  <2> QED BY <2>1, <2>2 DEF RestartFindsTheSame, HeadersFor, DiskOK, CoreHeadersOK,
          CutOrKept, KeptOK, HasKept, IsBefore, IsHeaded
<1> QED BY <1>1, ConnectionIInv, PTL

(* Core, disk, shell and Player agree on one Music Server, whatever happens  *)
(* to a save on its way (lib.rs, connection.rs, playback_restore.rs).        *)
THEOREM TheConnectionIsOne == Spec => []ConnectionIsOne
<1>1. IInv => TypeOK /\ HeadersStayHome /\ CancelIsHeard
  BY DEF IInv, RequestOK
<1>2. IInv => PlayerIsOfTheServer
  BY DEF IInv, PlayerOK, PlayerIsOfTheServer, AtRest
<1>3. TypeOK /\ HeadersStayHome /\ CancelIsHeard /\ PlayerIsOfTheServer
        /\ (IsSerial => RestartFindsTheSame) => ConnectionIsOne
  BY DEF ConnectionIsOne
<1> QED BY <1>1, <1>2, <1>3, ConnectionIInv, ConnectionRestarts, PTL

-----------------------------------------------------------------------------
(***************************************************************************)
(* The import, for any directory, any number of uploads and any changes    *)
(* other programs make.  A selection keeps the identity the file had when  *)
(* it was chosen; an upload and its cancellation token go together.        *)
(***************************************************************************)

LEMMA WholePercentage ==
  ASSUME NEW n \in Nat, NEW total \in Nat, total > 0
  PROVE  /\ Import!Percentage(n, total) \in 0..100
         /\ Import!Percentage(n, total) = 100 <=> n >= total
<1> DEFINE q == (n * 100) \div total
<1>1. q \in Int /\ q * total <= n * 100 /\ n * 100 < (q + 1) * total
  OBVIOUS
<1> HIDE DEF q
<1>2. q >= 0
  BY <1>1
<1>3. CASE n < total
  <2>1. q < 100
    BY <1>1, <1>3
  <2> QED BY <1>2, <1>1, <2>1, <1>3 DEF Import!Percentage, q
<1>4. CASE n = total
  <2>1. q = 100
    BY <1>1, <1>4
  <2> QED BY <2>1, <1>4 DEF Import!Percentage, q
<1>5. CASE n > total
  BY <1>5 DEF Import!Percentage
<1> QED BY <1>3, <1>4, <1>5

-----------------------------------------------------------------------------
\* The directory, the walk and the selections.
Entries == {Import!Gone} \cup {Import!File(i) : i \in Import!Inodes}
             \cup {Import!Link(i) : i \in 0..MaxInode}
Wanted == (Names \cap Audio) \ Hidden
IsSelection(files) ==
  DOMAIN files \subseteq Wanted /\ files \in [DOMAIN files -> 0..MaxInode]
DirectoryOK == entry \in [Names -> Entries] /\ bytes \in [Import!Inodes -> Nat]
WalkOK == /\ walk = [left |-> walk.left, seen |-> walk.seen, files |-> walk.files]
          /\ walk.left \subseteq Names /\ walk.seen \in Wanted \cup {""}
          /\ IsSelection(walk.files)
PickedOK == IsSelection(picked)

UploadStates == [at : {"idle", "opening", "sending", "ended"}, of : Names \cup {""},
                 meant : 0..MaxInode, ino : 0..MaxInode, total : Nat, sent : Nat,
                 shown : 0..100,
                 result : {"none", "canceled", "invalid", "unavailable", "stored", "refused", "lost"}]

\* How a token t and the renderer's cancellation c go with where an upload x is.
TokenOK(x, t, c) ==
  /\ x.at = "idle" => c # "late" /\ t = IF c = "none" THEN "none" ELSE "cancelled"
  /\ x.at \in {"opening", "sending"} =>
       c # "late" /\ t = IF c = "none" THEN "live" ELSE "cancelled"
  /\ x.at = "ended" =>
       /\ c = "in time" => x.result = "canceled"
       /\ t = IF c = "late" THEN "cancelled" ELSE "none"

\* What an upload x reads, and what is shown of it.
ReadsOK(x) ==
  /\ x.at = "opening" => x.of \in Names
  /\ x.at \in {"idle", "opening"} => x.total = 0 /\ x.sent = 0 /\ x.shown = 0
  /\ x.at = "sending" => x.ino = x.meant
  /\ x.total > 0 => (x.shown = 100 <=> x.sent >= x.total)

Tokens == {"none", "live", "cancelled"}
Cancellations == {"none", "in time", "late"}

UploadOK ==
  /\ upload \in [Uploads -> UploadStates]
  /\ token \in [Uploads -> Tokens] /\ cancel \in [Uploads -> Cancellations]
  /\ \A u \in Uploads : TokenOK(upload[u], token[u], cancel[u]) /\ ReadsOK(upload[u])

ImportInv == DirectoryOK /\ WalkOK /\ PickedOK /\ UploadOK

LEMMA ImportInit == Import!ConstantsOK /\ Import!Init => ImportInv
<1> SUFFICES ASSUME Import!ConstantsOK, Import!Init PROVE ImportInv
  OBVIOUS
<1>1. DirectoryOK
  <2> DEFINE P(f) == \A m, n \in Names : f[m] = f[n] => m = n
             N == Import!Cardinality(Names)
             at == CHOOSE f \in [Names -> 1..N] : P(f)
  <2>1. IsFiniteSet(Names) /\ N = Cardinality(Names) /\ N \in Nat /\ MaxInode \in Nat /\ N <= MaxInode
    <3>1. Import!IsFiniteSet(Names) <=> IsFiniteSet(Names)
      BY Zenon DEF Import!IsFiniteSet, IsFiniteSet
    <3>2. Import!Cardinality(Names) = Cardinality(Names)
      BY Zenon DEF Import!Cardinality, Cardinality
    <3> QED BY <3>1, <3>2, FS_CardinalityType DEF Import!ConstantsOK
  <2>2. PICK g \in Bijection(1..Cardinality(Names), Names) : TRUE
    BY <2>1, FS_CardinalityType DEF ExistsBijection
  <2> DEFINE f == [n \in Names |-> CHOOSE i \in 1..N : g[i] = n]
  <2>3. \A n \in Names : \E i \in 1..N : g[i] = n
    BY <2>1, <2>2 DEF Bijection, Surjection
  <2>4. f \in [Names -> 1..N] /\ \A n \in Names : g[f[n]] = n
    BY <2>3
  <2>5. P(f)
    BY <2>4
  <2>6. at \in [Names -> 1..N]
    BY <2>4, <2>5
  <2>7. entry = [n \in Names |-> Import!File(at[n])]
    BY DEF Import!Init
  <2> HIDE DEF at, N, Import!Init
  <2>8. \A n \in Names : at[n] \in Import!Inodes
    BY <2>6, <2>1 DEF Import!Inodes
  <2>9. bytes \in [Import!Inodes -> Nat]
    BY DEF Import!Init, Import!ConstantsOK
  <2> QED BY <2>7, <2>8, <2>9 DEF DirectoryOK, Entries
<1>2. WalkOK /\ PickedOK
  BY DEF Import!Init, Import!NoWalk, WalkOK, PickedOK, IsSelection
<1>3. UploadOK
  <2>1. Import!NoUpload \in UploadStates
    BY DEF UploadStates, Import!NoUpload, Import!ConstantsOK
  <2>2. /\ upload = [u \in Uploads |-> Import!NoUpload]
        /\ token = [u \in Uploads |-> "none"] /\ cancel = [u \in Uploads |-> "none"]
    BY DEF Import!Init
  <2>3. ASSUME NEW u \in Uploads 
        PROVE  TokenOK(upload[u], token[u], cancel[u]) /\ ReadsOK(upload[u])
    <3>1. /\ upload[u].at = "idle" /\ upload[u].total = 0 /\ upload[u].sent = 0
          /\ upload[u].shown = 0 /\ token[u] = "none" /\ cancel[u] = "none"
      BY <2>2 DEF Import!NoUpload
    <3> QED BY <3>1 DEF TokenOK, ReadsOK
  <2> QED BY <2>1, <2>2, <2>3 DEF UploadOK, Tokens, Cancellations
<1> QED BY <1>1, <1>2, <1>3 DEF ImportInv

-----------------------------------------------------------------------------
\* The steps of one upload.
UploadStep(u) ==
  \/ \E n \in Names : Import!Begin(u, n)
  \/ Import!Prepare(u) \/ Import!Stop(u) \/ Import!Chunk(u) \/ Import!Sent(u)
  \/ Import!Lost(u) \/ Import!Cancel(u)

LEMMA UploadStepLeaves ==
  ASSUME NEW u \in Uploads, UploadStep(u)
  PROVE  UNCHANGED <<entry, bytes, walk, picked, edits>>
BY DEF UploadStep, Import!Begin, Import!Prepare, Import!Stop, Import!Chunk, Import!Sent,
       Import!Lost, Import!Cancel

LEMMA ImportSteps ==
  ASSUME [Import!Next]_(Import!vars)
  PROVE  \/ \E n \in Names : Import!Change(n) \/ Import!Look(n) \/ Import!Release(n)
         \/ \E i \in Import!Inodes, s \in 0..MaxSize + 1 : Import!Write(i, s)
         \/ Import!Register \/ Import!Open \/ Import!StoreSelections
         \/ \E u \in Uploads : UploadStep(u)
         \/ UNCHANGED <<entry, bytes, walk, picked, upload, token, cancel, edits>>
BY DEF Import!Next, Import!vars, UploadStep

LEMMA NextDirectoryOK ==
  ASSUME Import!ConstantsOK, DirectoryOK, [Import!Next]_(Import!vars)
  PROVE  DirectoryOK'
<1> USE DEF DirectoryOK
<1>1. ASSUME NEW n \in Names, Import!Change(n) PROVE DirectoryOK'
  <2>1. PICK e \in {Import!Gone} \cup {Import!File(i) : i \in Import!Unused}
                     \cup {Import!Link(entry[m].ino) : m \in Names \ {n}} :
          entry' = [entry EXCEPT ![n] = e]
    BY <1>1 DEF Import!Change
  <2>2. Import!Unused \subseteq Import!Inodes
    BY DEF Import!Unused
  <2>3. \A m \in Names : entry[m].ino \in 0..MaxInode
    BY DEF Entries, Import!Gone, Import!File, Import!Link, Import!Inodes, Import!ConstantsOK
  <2>4. e \in Entries
    BY <2>1, <2>2, <2>3 DEF Entries
  <2> QED BY <1>1, <2>1, <2>4 DEF Import!Change
<1>2. ASSUME NEW i \in Import!Inodes, NEW s \in 0..MaxSize + 1, Import!Write(i, s)
      PROVE  DirectoryOK'
  BY <1>2 DEF Import!Write, Import!ConstantsOK
<1>3. ASSUME UNCHANGED <<entry, bytes>> PROVE DirectoryOK'
  BY <1>3
<1>4. ASSUME NEW n \in Names, Import!Look(n) \/ Import!Release(n) PROVE DirectoryOK'
  BY <1>3, <1>4 DEF Import!Look, Import!Release
<1>5. CASE Import!Register \/ Import!Open \/ Import!StoreSelections
  BY <1>3, <1>5 DEF Import!Register, Import!Open, Import!StoreSelections
<1> QED BY <1>1, <1>2, <1>3, <1>4, <1>5, ImportSteps, UploadStepLeaves

\* What is at a name is a file with its inode.
LEMMA FileHasInode ==
  ASSUME DirectoryOK, Import!ConstantsOK, NEW n \in Names
  PROVE  entry[n].ino \in 0..MaxInode
BY DEF DirectoryOK, Entries, Import!Gone, Import!File, Import!Link, Import!Inodes,
       Import!ConstantsOK

LEMMA NextSelections ==
  ASSUME Import!ConstantsOK, DirectoryOK, WalkOK, PickedOK, [Import!Next]_(Import!vars)
  PROVE  WalkOK' /\ PickedOK'
<1>1. ASSUME NEW n \in Names, Import!Look(n) PROVE WalkOK' /\ PickedOK'
  <2>1. CASE Import!Wanted(n)
    BY <1>1, <2>1 DEF Import!Look, Import!Wanted, WalkOK, PickedOK, Wanted
  <2>2. CASE ~Import!Wanted(n)
    BY <1>1, <2>2 DEF Import!Look, WalkOK, PickedOK
  <2> QED BY <2>1, <2>2
<1>2. ASSUME NEW n \in Names, Import!Release(n) PROVE WalkOK' /\ PickedOK'
  BY <1>2 DEF Import!Release, WalkOK, PickedOK, IsSelection
<1>3. CASE Import!Register
  BY <1>3 DEF Import!Register, Import!NoWalk, WalkOK, PickedOK, IsSelection
<1>4. CASE Import!Open
  <2>1. CASE entry[walk.seen].kind # "file"
    BY <1>4, <2>1 DEF Import!Open, Import!NoWalk, WalkOK, PickedOK, IsSelection
  <2>2. CASE entry[walk.seen].kind = "file"
    <3>1. walk.seen \in Wanted /\ entry[walk.seen].ino \in 0..MaxInode
      BY <1>4, FileHasInode DEF Import!Open, WalkOK, Wanted
    <3> DEFINE f == [n \in DOMAIN walk.files \cup {walk.seen} |->
                                IF n = walk.seen THEN entry[n].ino ELSE walk.files[n]]
    <3>2. walk' = [left |-> walk.left \ {walk.seen}, seen |-> "", files |-> f]
      BY <1>4, <2>2 DEF Import!Open
    <3>3. IsSelection(f)
      BY <3>1 DEF IsSelection, WalkOK
    <3> HIDE DEF f
    <3>4. WalkOK'
      BY <3>2, <3>3 DEF WalkOK
    <3> QED BY <1>4, <3>4 DEF PickedOK, Import!Open
  <2> QED BY <2>1, <2>2
<1>5. CASE Import!StoreSelections
  BY <1>5 DEF Import!StoreSelections, Import!NoWalk, WalkOK, PickedOK, IsSelection
<1>6. ASSUME UNCHANGED <<walk, picked>> PROVE WalkOK' /\ PickedOK'
  BY <1>6 DEF WalkOK, PickedOK
<1>7. ASSUME NEW n \in Names, Import!Change(n) PROVE WalkOK' /\ PickedOK'
  BY <1>6, <1>7 DEF Import!Change
<1>8. ASSUME NEW i \in Import!Inodes, NEW s \in 0..MaxSize + 1, Import!Write(i, s)
      PROVE  WalkOK' /\ PickedOK'
  BY <1>6, <1>8 DEF Import!Write
<1> QED BY <1>1, <1>2, <1>3, <1>4, <1>5, <1>6, <1>7, <1>8, ImportSteps, UploadStepLeaves

LEMMA UploadRecords ==
  ASSUME NEW x \in UploadStates
  PROVE  /\ \A result \in {"canceled", "invalid", "unavailable", "stored", "refused", "lost"} :
              [x EXCEPT !.at = "ended", !.result = result] \in UploadStates
         /\ \A n \in Names, i \in 0..MaxInode :
              [x EXCEPT !.at = "opening", !.of = n, !.meant = i] \in UploadStates
         /\ \A i \in 0..MaxInode, total \in Nat :
              [x EXCEPT !.at = "sending", !.ino = i, !.total = total] \in UploadStates
         /\ \A n \in Nat, shown \in 0..100 :
              [x EXCEPT !.sent = n, !.shown = shown] \in UploadStates
BY DEF UploadStates

\* One upload becomes x, its token t and its cancellation c.
LEMMA OneUpload ==
  ASSUME UploadOK, NEW u \in Uploads, NEW x \in UploadStates, NEW t \in Tokens,
         NEW c \in Cancellations, TokenOK(x, t, c), ReadsOK(x),
         upload' = [upload EXCEPT ![u] = x], token' = [token EXCEPT ![u] = t],
         cancel' = [cancel EXCEPT ![u] = c]
  PROVE  UploadOK'
<1>1. ASSUME NEW v \in Uploads
      PROVE  TokenOK(upload'[v], token'[v], cancel'[v]) /\ ReadsOK(upload'[v])
  <2>1. CASE v = u
    <3>1. upload'[v] = x /\ token'[v] = t /\ cancel'[v] = c
      BY <2>1 DEF UploadOK
    <3> QED BY <3>1
  <2>2. CASE v # u
    <3>1. upload'[v] = upload[v] /\ token'[v] = token[v] /\ cancel'[v] = cancel[v]
      BY <2>2 DEF UploadOK
    <3> QED BY <3>1 DEF UploadOK
  <2> QED BY <2>1, <2>2
<1>2. upload' \in [Uploads -> UploadStates] /\ token' \in [Uploads -> Tokens]
      /\ cancel' \in [Uploads -> Cancellations]
  BY DEF UploadOK
<1> QED BY <1>1, <1>2 DEF UploadOK

\* finish_upload: the token goes, and a cancellation that came in time has its result.
LEMMA EndsOK ==
  ASSUME UploadOK, NEW u \in Uploads,
         NEW result \in {"canceled", "invalid", "unavailable", "stored", "refused", "lost"},
         Import!Ends(u, result), cancel' = cancel,
         upload[u].at # "ended", token[u] = "cancelled" => result = "canceled"
  PROVE  UploadOK'
<1> DEFINE x == [upload[u] EXCEPT !.at = "ended", !.result = result]
<1>1. x \in UploadStates
  BY UploadRecords DEF UploadOK
<1>2. /\ upload' = [upload EXCEPT ![u] = x] /\ token' = [token EXCEPT ![u] = "none"]
      /\ cancel' = [cancel EXCEPT ![u] = cancel[u]]
  BY DEF UploadOK, UploadStates, Import!Ends
<1>3. upload[u] \in UploadStates /\ token[u] \in Tokens /\ cancel[u] \in Cancellations
      /\ TokenOK(upload[u], token[u], cancel[u]) /\ ReadsOK(upload[u])
  BY DEF UploadOK
<1>4. TokenOK(x, "none", cancel[u])
  BY <1>3 DEF TokenOK, UploadStates, Tokens, Cancellations
<1>5. ReadsOK(x)
  BY <1>3 DEF ReadsOK, UploadStates
<1> HIDE DEF x
<1>6. "none" \in Tokens
  BY DEF Tokens
<1> QED BY <1>1, <1>2, <1>3, <1>4, <1>5, <1>6, OneUpload

LEMMA NextUploadOK ==
  ASSUME Import!ConstantsOK, DirectoryOK, PickedOK, UploadOK, [Import!Next]_(Import!vars)
  PROVE  UploadOK'
<1>1. ASSUME NEW u \in Uploads, UploadStep(u) PROVE UploadOK'
  <2> DEFINE old == upload[u]
  <2>1. /\ old \in UploadStates /\ token[u] \in Tokens /\ cancel[u] \in Cancellations
        /\ TokenOK(old, token[u], cancel[u]) /\ ReadsOK(old)
        /\ upload = [upload EXCEPT ![u] = old] /\ token = [token EXCEPT ![u] = token[u]]
        /\ cancel = [cancel EXCEPT ![u] = cancel[u]]
    BY DEF UploadOK
  <2>2. ASSUME NEW n \in Names, Import!Begin(u, n) PROVE UploadOK'
    <3> DEFINE t == IF token[u] = "none" THEN "live" ELSE token[u]
    <3>1. CASE n \in DOMAIN picked
      <4> DEFINE x == [old EXCEPT !.at = "opening", !.of = n, !.meant = picked[n]]
      <4>1. /\ upload' = [upload EXCEPT ![u] = x] /\ token' = [token EXCEPT ![u] = t]
            /\ cancel' = cancel /\ old.at = "idle"
        BY <2>2, <3>1 DEF Import!Begin, UploadOK, UploadStates
      <4>2. x \in UploadStates
        BY <2>1, <3>1 DEF UploadStates, PickedOK, IsSelection
      <4>3. t \in Tokens /\ TokenOK(x, t, cancel[u]) /\ ReadsOK(x)
        BY <2>1, <4>1 DEF Tokens, TokenOK, ReadsOK, UploadStates
      <4> HIDE DEF x, t
      <4> QED BY <2>1, <4>1, <4>2, <4>3, OneUpload
    <3>2. CASE n \notin DOMAIN picked
      <4>1. Import!Ends(u, IF t = "cancelled" THEN "canceled" ELSE "invalid")
            /\ cancel' = cancel /\ old.at = "idle"
        BY <2>2, <3>2 DEF Import!Begin
      <4>2. token[u] = "cancelled" => t = "cancelled"
        OBVIOUS
      <4> HIDE DEF t
      <4> QED BY <4>1, <4>2, EndsOK
    <3> QED BY <3>1, <3>2
  <2>3. CASE Import!Prepare(u)
    <3>1. CASE Import!SameFile(old.of, old.meant)
      <4> DEFINE i == entry[old.of].ino
                 x == [old EXCEPT !.at = "sending", !.ino = i, !.total = bytes[i]]
      <4>1. /\ upload' = [upload EXCEPT ![u] = x] /\ token' = token /\ cancel' = cancel
            /\ old.at = "opening"
        BY <2>3, <3>1 DEF Import!Prepare, UploadOK, UploadStates
      <4>2. old.of \in Names /\ entry[old.of] \in Entries
        BY <2>1, <4>1 DEF ReadsOK, DirectoryOK
      <4>3. i \in Import!Inodes /\ i = old.meant
        <5>1. \A e \in Entries : e.kind = "file" => e.ino \in Import!Inodes
          BY DEF Entries, Import!File, Import!Link, Import!Gone
        <5> QED BY <3>1, <4>2, <5>1 DEF Import!SameFile
      <4>4. bytes[i] \in Nat /\ i \in 0..MaxInode
        BY <4>3 DEF DirectoryOK, Import!Inodes, Import!ConstantsOK
      <4> HIDE DEF i
      <4>5. x \in UploadStates
        BY <2>1, <4>4 DEF UploadStates
      <4>6. TokenOK(x, token[u], cancel[u])
        BY <2>1, <4>1 DEF TokenOK, UploadStates
      <4>7. ReadsOK(x)
        <5>1. /\ x.at = "sending" /\ x.of = old.of /\ x.meant = old.meant /\ x.ino = i
              /\ x.total = bytes[i] /\ x.sent = old.sent /\ x.shown = old.shown
          BY <2>1 DEF UploadStates
        <5>2. old.sent = 0 /\ old.shown = 0
          BY <2>1, <4>1 DEF ReadsOK
        <5> HIDE DEF x
        <5> QED BY <4>3, <4>4, <5>1, <5>2 DEF ReadsOK
      <4> HIDE DEF x
      <4> QED BY <2>1, <4>1, <4>5, <4>6, <4>7, OneUpload
    <3>2. CASE ~Import!SameFile(old.of, old.meant)
      <4>1. Import!Ends(u, IF token[u] = "cancelled" THEN "canceled" ELSE "unavailable")
            /\ cancel' = cancel /\ old.at = "opening"
        BY <2>3, <3>2 DEF Import!Prepare
      <4> QED BY <4>1, EndsOK
    <3> QED BY <3>1, <3>2
  <2>4. CASE Import!Stop(u)
    BY <2>4, EndsOK DEF Import!Stop
  <2>5. CASE Import!Chunk(u)
    <3> DEFINE shown == Import!Update(u, old.sent + 1)
               x == [old EXCEPT !.sent = old.sent + 1, !.shown = shown]
    <3>1. /\ upload' = [upload EXCEPT ![u] = x] /\ token' = token /\ cancel' = cancel
          /\ old.at = "sending"
      BY <2>5 DEF Import!Chunk, UploadOK, UploadStates
    <3>2. old.sent \in Nat /\ old.total \in Nat /\ old.shown \in 0..100
      BY <2>1 DEF UploadStates
    <3>3. old.total > 0 => (old.shown = 100 <=> old.sent >= old.total)
      BY <2>1 DEF ReadsOK
    <3>4. /\ shown \in 0..100
          /\ old.total > 0 => (shown = 100 <=> old.sent + 1 >= old.total)
      <4> DEFINE p == Import!Percentage(old.sent + 1, old.total)
      <4>1. shown = IF p <= old.shown THEN old.shown ELSE p
        BY DEF Import!Update
      <4>2. CASE old.total = 0
        <5>1. p = 0
          BY <4>2 DEF Import!Percentage
        <5> QED BY <4>1, <4>2, <5>1, <3>2
      <4>3. CASE old.total > 0
        <5>1. old.sent + 1 \in Nat
          BY <3>2
        <5>2. p \in 0..100 /\ (p = 100 <=> old.sent + 1 >= old.total)
          BY <4>3, <5>1, <3>2, WholePercentage
        <5> HIDE DEF p, shown
        <5> QED BY <4>1, <4>3, <5>2, <3>2, <3>3
      <4> QED BY <4>2, <4>3, <3>2
    <3> HIDE DEF shown
    <3>5. x \in UploadStates
      <4>1. old.sent + 1 \in Nat
        BY <3>2
      <4> QED BY <2>1, <3>4, <4>1, UploadRecords
    <3>6. TokenOK(x, token[u], cancel[u])
      BY <2>1, <3>1 DEF TokenOK, UploadStates
    <3>7. ReadsOK(x)
      BY <2>1, <3>1, <3>4 DEF ReadsOK, UploadStates
    <3> HIDE DEF x
    <3> QED BY <2>1, <3>1, <3>5, <3>6, <3>7, OneUpload
  <2>6. CASE Import!Sent(u)
    <3>1. Import!Ends(u, IF token[u] = "cancelled" THEN "canceled"
               ELSE IF old.sent = old.total THEN "stored" ELSE "refused")
          /\ cancel' = cancel /\ old.at = "sending"
      BY <2>6 DEF Import!Sent
    <3> QED BY <3>1, EndsOK
  <2>7. CASE Import!Lost(u)
    <3>1. Import!Ends(u, IF token[u] = "cancelled" THEN "canceled" ELSE "lost")
          /\ cancel' = cancel /\ old.at = "sending"
      BY <2>7 DEF Import!Lost
    <3> QED BY <3>1, EndsOK
  <2>8. CASE Import!Cancel(u)
    <3> DEFINE c == IF old.at = "ended" THEN "late" ELSE "in time"
    <3>1. /\ upload' = upload /\ token' = [token EXCEPT ![u] = "cancelled"]
          /\ cancel' = [cancel EXCEPT ![u] = c] /\ cancel[u] = "none"
      BY <2>8 DEF Import!Cancel, Import!Cancelled
    <3>2. "cancelled" \in Tokens /\ c \in Cancellations
      BY DEF Tokens, Cancellations
    <3>3. TokenOK(old, "cancelled", c)
      BY <2>1, <3>1 DEF TokenOK, UploadStates
    <3> HIDE DEF c
    <3> QED BY <2>1, <3>1, <3>2, <3>3, OneUpload
  <2> QED BY <1>1, <2>2, <2>3, <2>4, <2>5, <2>6, <2>7, <2>8 DEF UploadStep
<1>2. ASSUME UNCHANGED <<upload, token, cancel>> PROVE UploadOK'
  BY <1>2 DEF UploadOK
<1>3. ASSUME NEW n \in Names, Import!Change(n) \/ Import!Look(n) \/ Import!Release(n)
      PROVE  UploadOK'
  BY <1>2, <1>3 DEF Import!Change, Import!Look, Import!Release
<1>4. ASSUME NEW i \in Import!Inodes, NEW s \in 0..MaxSize + 1, Import!Write(i, s)
      PROVE  UploadOK'
  BY <1>2, <1>4 DEF Import!Write
<1>5. CASE Import!Register \/ Import!Open \/ Import!StoreSelections
  BY <1>2, <1>5 DEF Import!Register, Import!Open, Import!StoreSelections
<1> QED BY <1>1, <1>2, <1>3, <1>4, <1>5, ImportSteps

\* For any folder, any number of uploads, and whatever other programs do to the files:
\* what is uploaded is the file that was chosen, a cancellation holds whenever it comes,
\* and an upload is shown as whole exactly when it is (desktop_import.rs).
THEOREM ImportKeepsTheChoice ==
  Import!Spec => [](Import!ImportIsAsChosen /\ ImportIsAsChosen)
<1>0. Import!ConstantsOK
  BY PlayersAssumption
<1>1. Import!Init => ImportInv
  BY <1>0, ImportInit
<1>2. ImportInv /\ [Import!Next]_(Import!vars) => ImportInv'
  BY <1>0, NextDirectoryOK, NextSelections, NextUploadOK DEF ImportInv
<1>3. ImportInv => Import!ImportIsAsChosen
  <2> SUFFICES ASSUME ImportInv PROVE Import!ImportIsAsChosen
    OBVIOUS
  <2> USE DEF ImportInv
  <2>1. \A u \in Uploads : /\ upload[u] \in UploadStates /\ token[u] \in Tokens
                           /\ cancel[u] \in Cancellations
                           /\ TokenOK(upload[u], token[u], cancel[u]) /\ ReadsOK(upload[u])
    BY DEF UploadOK
  <2>2. Import!TypeOK
    BY <2>1 DEF Import!TypeOK, DirectoryOK, Entries, WalkOK, PickedOK, IsSelection, Wanted,
                UploadStates, Tokens, Cancellations
  <2>3. Import!UploadsTheChosenFile
    BY <2>1 DEF Import!UploadsTheChosenFile, PickedOK, IsSelection, Wanted, ReadsOK
  <2>4. Import!CancellationIsKept
    BY <2>1 DEF Import!CancellationIsKept, TokenOK, Tokens, Cancellations
  <2>5. Import!ShownWhole
    BY <2>1 DEF Import!ShownWhole, ReadsOK
  <2> QED BY <2>2, <2>3, <2>4, <2>5 DEF Import!ImportIsAsChosen
<1>4. Import!ImportIsAsChosen => ImportIsAsChosen
  BY DEF ImportIsAsChosen
<1> QED BY <1>1, <1>2, <1>3, <1>4, PTL DEF Import!Spec

-----------------------------------------------------------------------------
(***************************************************************************)
(* MPRIS, for any Tracks, any length, threshold and step.  The state goes  *)
(* from the player to what is outgoing, published, in the channel, the     *)
(* view and the client: the invariant says what each holds of the next.    *)
(***************************************************************************)

\* What a player, a view and a client know.
States == [track : Tracks \cup {Mpris!Nobody}, status : {"stopped", "playing", "paused"},
           pos : 0..Length]
Commands == [n : Nat, action : [do : {"seek", "play", "pause", "stop", "next"}, pos : Nat]]

StatesOK ==
  /\ player \in States /\ published \in States /\ answers \in States /\ last \in States
  /\ client \in States /\ outgoing \in Seq(States) /\ channel \in Seq(States)
  /\ late \in BOOLEAN /\ announcing \in BOOLEAN /\ moved \in Nat

TasksOK ==
  /\ orders \in SUBSET Commands /\ IsFiniteSet(orders) /\ commands \in 0..MaxCommands
  /\ Cardinality(orders) <= commands

\* A client knows what was announced last, up to the small moves since.
ClientOK ==
  /\ client.track = last.track /\ client.status = last.status
  /\ Mpris!Distance(client.pos, last.pos) <= moved
  /\ ~announcing => answers = last

\* What was published last is at the end of the way to the view.
ChannelOK == published = IF channel = << >> THEN answers ELSE channel[Len(channel)]

\* The player's state waits at the end of what is to be published, or is published up
\* to a small progress.
OutgoingOK ==
  ~late => IF outgoing = << >>
           THEN /\ player.track = published.track /\ player.status = published.status
                /\ player.pos - published.pos \in 0..SeekStep - 1
           ELSE outgoing[Len(outgoing)] = player

MprisInv == StatesOK /\ TasksOK /\ ClientOK /\ ChannelOK /\ OutgoingOK

-----------------------------------------------------------------------------
LEMMA AppendLast ==
  ASSUME NEW S, NEW s \in Seq(S), NEW e \in S
  PROVE  /\ Append(s, e) \in Seq(S) /\ Append(s, e) # << >>
         /\ Append(s, e)[Len(Append(s, e))] = e
OBVIOUS

LEMMA TailLast ==
  ASSUME NEW S, NEW s \in Seq(S), s # << >>
  PROVE  /\ s[1] \in S /\ Tail(s) \in Seq(S)
         /\ Tail(s) = << >> => s[Len(s)] = s[1]
         /\ Tail(s) # << >> => Tail(s)[Len(Tail(s))] = s[Len(s)]
<1>1. Len(s) \in Nat \ {0} /\ Len(Tail(s)) = Len(s) - 1 /\ Tail(s) \in Seq(S)
  BY HeadTailProperties, EmptySeq
<1>0. Tail(s) # << >> => Len(Tail(s)) \in Nat \ {0}
  BY <1>1, EmptySeq
<1>2. CASE Len(s) = 1
  <2>1. Tail(s) = << >>
    BY <1>0, <1>1, <1>2
  <2> QED BY <2>1, <1>2
<1>3. CASE Len(s) > 1
  <2>1. Len(Tail(s)) \in 1..Len(Tail(s)) /\ Tail(s)[Len(Tail(s))] = s[Len(Tail(s)) + 1]
    BY <1>1, <1>3, HeadTailProperties
  <2>2. Len(Tail(s)) + 1 = Len(s)
    BY <1>1
  <2>3. Len(<< >>) = 0 /\ Len(Tail(s)) # 0
    BY <1>1, <1>3
  <2> QED BY <1>1, <2>1, <2>2, <2>3
<1> QED BY <1>1, <1>2, <1>3

\* Publishing the oldest state leaves the newest at the end.
LEMMA RemoveOne ==
  ASSUME NEW S, NEW s \in Seq(S), NEW i \in DOMAIN s
  PROVE  /\ Mpris!RemoveAt(s, i) \in Seq(S)
         /\ i = 1 /\ Mpris!RemoveAt(s, i) = << >> => s[Len(s)] = s[1]
         /\ i = 1 /\ Mpris!RemoveAt(s, i) # << >> =>
              LET t == Mpris!RemoveAt(s, i) IN t[Len(t)] = s[Len(s)]
<1> DEFINE a == SubSeq(s, 1, i - 1)
           b == SubSeq(s, i + 1, Len(s))
<1>0. i \in 1..Len(s) /\ Len(s) \in Nat
  OBVIOUS
<1>1. /\ i \in 1..Len(s) /\ Len(s) \in Nat
      /\ Len(s) = 1 \/ Len(s) > 1
  <2>1. \A n \in Nat : \A j \in 1..n : n = 1 \/ n > 1
    OBVIOUS
  <2> QED BY <1>0, <2>1
<1>2. a \in Seq(S) /\ b \in Seq(S)
  BY <1>1, SubSeqProperties
<1>3. Mpris!RemoveAt(s, i) = a \o b
  BY DEF Mpris!RemoveAt
<1>4. ASSUME i = 1 PROVE a = << >> /\ Len(b) = Len(s) - 1 /\ \A j \in 1..Len(b) : b[j] = s[j + 1]
  <2>1. a = << >>
    BY <1>4, SubSeqEmpty
  <2>2. i + 1 \in Int /\ Len(s) \in Int /\ \A j \in (i + 1)..Len(s) : s[j] \in S
    BY <1>1
  <2>3. /\ Len(b) = IF i + 1 <= Len(s) THEN Len(s) - (i + 1) + 1 ELSE 0
        /\ \A j \in 1..(Len(s) - (i + 1) + 1) : b[j] = s[(i + 1) + j - 1]
    BY <2>2, SubSeqProperties
  <2> HIDE DEF a, b
  <2>4. Len(b) = Len(s) - 1
    <3>1. CASE Len(s) = 1
      <4>1. ~(i + 1 <= Len(s))
        BY <1>1, <1>4, <3>1
      <4> QED BY <2>3, <3>1, <4>1
    <3>2. CASE Len(s) > 1
      <4>1. i + 1 <= Len(s) /\ Len(s) - (i + 1) + 1 = Len(s) - 1
        BY <1>1, <1>4, <3>2
      <4> QED BY <2>3, <4>1
    <3> QED BY <1>1, <3>1, <3>2
  <2>5. ASSUME NEW j \in 1..Len(b) PROVE b[j] = s[j + 1]
    <3>1. j \in 1..(Len(s) - (i + 1) + 1) /\ (i + 1) + j - 1 = j + 1
      BY <1>1, <1>4, <2>4
    <3> QED BY <2>3, <3>1
  <2> QED BY <2>1, <2>4, <2>5
<1> HIDE DEF a, b
<1>5. ASSUME i = 1 PROVE a \o b = b
  BY <1>4, <1>5, <1>2
<1>6. CASE i = 1
  <2>1. b = << >> => Len(s) = 1
    BY <1>4, <1>6, <1>1
  <2>2. b # << >> => Len(b) \in 1..Len(b) /\ b[Len(b)] = s[Len(s)]
    BY <1>4, <1>6, <1>1, <1>2
  <2> QED BY <1>2, <1>3, <1>5, <1>6, <2>1, <2>2
<1> QED BY <1>2, <1>3, <1>6

-----------------------------------------------------------------------------
LEMMA MprisInit == Mpris!ConstantsOK /\ Mpris!Init => MprisInv
<1> SUFFICES ASSUME Mpris!ConstantsOK, Mpris!Init PROVE MprisInv
  OBVIOUS
<1> DEFINE d == [track |-> Mpris!Nobody, status |-> "stopped", pos |-> 0]
<1>1. d \in States
  BY DEF States, Mpris!ConstantsOK
<1>2. /\ player = d /\ published = d /\ answers = d /\ last = d /\ client = d /\ outgoing = << >>
      /\ channel = << >> /\ late = FALSE /\ announcing = FALSE /\ moved = 0 /\ orders = {}
      /\ commands = 0
  BY DEF Mpris!Init, Mpris!Default, Mpris!State
<1>3. StatesOK
  <2>1. << >> \in Seq(States)
    OBVIOUS
  <2> HIDE DEF d
  <2> QED BY <1>1, <1>2, <2>1 DEF StatesOK
<1>4. TasksOK
  BY <1>2, FS_EmptySet DEF TasksOK, Mpris!ConstantsOK
<1>5. ClientOK /\ ChannelOK
  <2>1. client.pos = 0 /\ last.pos = 0
    BY <1>2
  <2> QED BY <1>2, <2>1 DEF ClientOK, ChannelOK, Mpris!Distance
<1>6. OutgoingOK
  <2>1. 0 - 0 \in 0..SeekStep - 1
    BY DEF Mpris!ConstantsOK
  <2> QED BY <1>2, <2>1 DEF OutgoingOK
<1> QED BY <1>3, <1>4, <1>5, <1>6 DEF MprisInv

\* The steps that touch neither the player nor what is published of it.
Commanding ==
  \/ \E pos \in 0..Length : Mpris!SetPosition(pos)
  \/ \E offset \in {-Length, -1, 1} : Mpris!Seek(offset)
  \/ \E do \in {"play", "pause", "stop", "next"} : Mpris!Tell(do)

LEMMA MprisSteps ==
  ASSUME [Mpris!Next]_(Mpris!vars)
  PROVE  \/ \E i \in DOMAIN outgoing : Mpris!Publish(i)
         \/ Mpris!Receive \/ Mpris!Announce \/ Commanding
         \/ \E t \in orders : Mpris!Run(t)
         \/ Mpris!Change
         \/ UNCHANGED <<player, outgoing, published, late, channel, answers, last, announcing, client,
                        orders, moved, changes, commands>>
BY DEF Mpris!Next, Mpris!vars, Commanding

LEMMA CommandingLeaves ==
  ASSUME Commanding
  PROVE  UNCHANGED <<player, outgoing, published, late, channel, answers, last, announcing, client, moved>>
BY DEF Commanding, Mpris!SetPosition, Mpris!Seek, Mpris!Tell, Mpris!Dispatch, Mpris!Ignore

\* What a command of a client asks for.
LEMMA CommandIs ==
  ASSUME Mpris!ConstantsOK, StatesOK, commands \in Nat, Commanding
  PROVE  /\ commands < MaxCommands /\ commands' = commands + 1
         /\ \/ orders' = orders
            \/ \E c \in Commands : orders' = orders \cup {c}
<1>1. ASSUME NEW action \in [do : {"seek", "play", "pause", "stop", "next"}, pos : Nat],
             Mpris!Dispatch(action)
      PROVE  commands' = commands + 1 /\ \E c \in Commands : orders' = orders \cup {c}
  <2>1. [n |-> commands, action |-> action] \in Commands
    BY DEF Commands
  <2> QED BY <1>1, <2>1 DEF Mpris!Dispatch
<1>2. ASSUME Mpris!Ignore PROVE commands' = commands + 1 /\ orders' = orders
  BY <1>2 DEF Mpris!Ignore
<1>3. ASSUME NEW pos \in 0..Length, Mpris!SetPosition(pos)
      PROVE  commands < MaxCommands /\ (Mpris!Ignore \/ Mpris!Dispatch([do |-> "seek", pos |-> pos]))
  BY <1>3 DEF Mpris!SetPosition
<1>4. ASSUME NEW offset \in {-Length, -1, 1}, Mpris!Seek(offset)
      PROVE  /\ commands < MaxCommands
             /\ Mpris!Ignore \/ \E pos \in Nat : Mpris!Dispatch([do |-> "seek", pos |-> pos])
  <2> DEFINE pos == IF answers.pos + offset < 0 THEN 0 ELSE answers.pos + offset
  <2>1. answers.pos \in Nat
    BY DEF StatesOK, States, Mpris!ConstantsOK
  <2>2. pos \in Nat
    BY <2>1 DEF Mpris!ConstantsOK
  <2>3. commands < MaxCommands /\ (Mpris!Ignore \/ Mpris!Dispatch([do |-> "seek", pos |-> pos]))
    BY <1>4 DEF Mpris!Seek
  <2> HIDE DEF pos
  <2> QED BY <2>2, <2>3
<1>5. ASSUME NEW do \in {"play", "pause", "stop", "next"}, Mpris!Tell(do)
      PROVE  commands < MaxCommands /\ Mpris!Dispatch([do |-> do, pos |-> 0])
  BY <1>5 DEF Mpris!Tell
<1>6. \A pos \in 0..Length : pos \in Nat
  BY DEF Mpris!ConstantsOK
<1> QED BY <1>1, <1>2, <1>3, <1>4, <1>5, <1>6 DEF Commanding

LEMMA NextTasksOK ==
  ASSUME Mpris!ConstantsOK, StatesOK, TasksOK, [Mpris!Next]_(Mpris!vars)
  PROVE  TasksOK'
<1>1. CASE Commanding
  <2>1. /\ commands < MaxCommands /\ commands' = commands + 1
        /\ \/ orders' = orders
           \/ \E c \in Commands : orders' = orders \cup {c}
    BY <1>1, CommandIs DEF TasksOK
  <2>2. ASSUME NEW c \in Commands, orders' = orders \cup {c} PROVE TasksOK'
    <3>0. IsFiniteSet(orders)
      BY DEF TasksOK
    <3>1. IsFiniteSet(orders') /\ Cardinality(orders) \in Nat
          /\ (Cardinality(orders') = Cardinality(orders) \/ Cardinality(orders') = Cardinality(orders) + 1)
      BY <2>2, <3>0, FS_AddElement, FS_CardinalityType
    <3> QED BY <2>1, <2>2, <3>1 DEF TasksOK, Mpris!ConstantsOK
  <2>3. ASSUME orders' = orders PROVE TasksOK'
    <3>1. Cardinality(orders) \in Nat
      BY FS_CardinalityType DEF TasksOK
    <3> QED BY <2>1, <2>3, <3>1 DEF TasksOK, Mpris!ConstantsOK
  <2> QED BY <2>1, <2>2, <2>3
<1>2. ASSUME NEW t \in orders, Mpris!Run(t) PROVE TasksOK'
  <2>1. orders' = orders \ {t} /\ commands' = commands
    BY <1>2 DEF Mpris!Run
  <2>0. IsFiniteSet(orders)
    BY DEF TasksOK
  <2>2. IsFiniteSet(orders') /\ Cardinality(orders) \in Nat
        /\ (Cardinality(orders') = Cardinality(orders) \/ Cardinality(orders') = Cardinality(orders) - 1)
    BY <2>1, <2>0, FS_RemoveElement, FS_CardinalityType
  <2> QED BY <2>1, <2>2 DEF TasksOK, Mpris!ConstantsOK
<1>3. ASSUME UNCHANGED <<orders, commands>> PROVE TasksOK'
  BY <1>3 DEF TasksOK
<1>4. ASSUME NEW i \in DOMAIN outgoing, Mpris!Publish(i) PROVE TasksOK'
  BY <1>3, <1>4 DEF Mpris!Publish
<1>5. CASE Mpris!Receive \/ Mpris!Announce \/ Mpris!Change
  BY <1>3, <1>5 DEF Mpris!Receive, Mpris!Announce, Mpris!Change
<1> QED BY <1>1, <1>2, <1>3, <1>4, <1>5, MprisSteps

-----------------------------------------------------------------------------
\* dispatch_desktop_playback_action and the listener leave the player in a state of its own.
LEMMA PlayerStates ==
  ASSUME Mpris!ConstantsOK, player \in States
  PROVE  /\ \A pos \in Nat : Mpris!Sought(pos) \in States
         /\ \A c \in Commands : Mpris!Done(c.action) \in States
         /\ \A t \in Tracks, pos \in 0..Length : Mpris!State(t, "playing", pos) \in States
         /\ \A s \in {"playing", "paused"} : [player EXCEPT !.status = s] \in States
<1>1. ASSUME NEW pos \in Nat PROVE Mpris!Sought(pos) \in States
  BY DEF Mpris!Sought, States, Mpris!ConstantsOK
<1>2. \A t \in Tracks, pos \in 0..Length : Mpris!State(t, "playing", pos) \in States
  BY DEF Mpris!State, States
<1>3. \A s \in {"playing", "paused"} : [player EXCEPT !.status = s] \in States
  BY DEF States
<1>4. ASSUME NEW c \in Commands PROVE Mpris!Done(c.action) \in States
  <2> DEFINE a == c.action
  <2>1. a.do \in {"seek", "play", "pause", "stop", "next"} /\ a.pos \in Nat
    BY DEF Commands
  <2> HIDE DEF a
  <2>2. ASSUME player.track # Mpris!Nobody
        PROVE  Mpris!State(Mpris!Following(player.track), "playing", 0) \in States
    <3>1. player.track \in Tracks
      BY <2>2 DEF States
    <3>2. \E t \in Tracks : t # player.track
      BY <3>1 DEF Mpris!ConstantsOK
    <3>3. Mpris!Following(player.track) \in Tracks
      BY <3>2 DEF Mpris!Following
    <3>4. 0 \in 0..Length
      BY DEF Mpris!ConstantsOK
    <3> QED BY <1>2, <3>3, <3>4
  <2>3. Mpris!Default \in States
    BY DEF Mpris!Default, Mpris!State, States, Mpris!ConstantsOK
  <2>4. Mpris!Done(a) \in States
    <3>1. CASE a.do = "seek"
      BY <1>1, <2>1, <3>1 DEF Mpris!Done
    <3>2. CASE a.do # "seek" /\ player.track = Mpris!Nobody
      BY <3>2 DEF Mpris!Done
    <3>3. CASE a.do # "seek" /\ player.track # Mpris!Nobody
      BY <1>3, <2>1, <2>2, <2>3, <3>3 DEF Mpris!Done
    <3> QED BY <3>1, <3>2, <3>3
  <2> QED BY <2>4 DEF a
<1> QED BY <1>1, <1>2, <1>3, <1>4

\* The steps of the player put its new state at the end of what is to be published.
LEMMA PlayerSteps ==
  ASSUME Mpris!ConstantsOK, StatesOK, TasksOK, Mpris!Change \/ \E t \in orders : Mpris!Run(t)
  PROVE  /\ \E p \in States : player' = p /\ outgoing' = Append(outgoing, p)
         /\ UNCHANGED <<published, late, channel, answers, last, announcing, client, moved>>
<1> USE PlayerStates
<1>0. player \in States
  BY DEF StatesOK
<1>1. ASSUME NEW t \in orders, Mpris!Run(t)
      PROVE  \E p \in States : player' = p /\ outgoing' = Append(outgoing, p)
  <2>1. t \in Commands
    BY DEF TasksOK
  <2>2. Mpris!Done(t.action) \in States
    BY <1>0, <2>1
  <2> QED BY <1>1, <2>2 DEF Mpris!Run, Mpris!Update
<1>2. CASE Mpris!Change
  <2>1. ASSUME NEW t \in Tracks \ {player.track}, NEW pos \in 0..Length,
               Mpris!Update(Mpris!State(t, "playing", pos))
        PROVE  \E p \in States : player' = p /\ outgoing' = Append(outgoing, p)
    BY <1>0, <2>1 DEF Mpris!Update
  <2>2. ASSUME NEW pos \in 0..Length, Mpris!Update(Mpris!Sought(pos))
        PROVE  \E p \in States : player' = p /\ outgoing' = Append(outgoing, p)
    <3>1. pos \in Nat
      BY DEF Mpris!ConstantsOK
    <3>2. Mpris!Sought(pos) \in States
      BY <1>0, <3>1
    <3> QED BY <2>2, <3>2 DEF Mpris!Update
  <2>3. ASSUME NEW s \in {"playing", "paused"}, Mpris!Update([player EXCEPT !.status = s])
        PROVE  \E p \in States : player' = p /\ outgoing' = Append(outgoing, p)
    BY <1>0, <2>3 DEF Mpris!Update
  <2> QED BY <1>2, <2>1, <2>2, <2>3 DEF Mpris!Change
<1>3. UNCHANGED <<published, late, channel, answers, last, announcing, client, moved>>
  BY DEF Mpris!Change, Mpris!Run
<1> QED BY <1>1, <1>2, <1>3

\* Whatever moves a client's position less than it is told of is counted.
LEMMA HeardIsCounted ==
  ASSUME Mpris!ConstantsOK, StatesOK, ClientOK, Mpris!Announce
  PROVE  /\ client' \in States /\ moved' \in Nat
         /\ client'.track = answers.track /\ client'.status = answers.status
         /\ Mpris!Distance(client'.pos, answers.pos) <= moved'
<1>1. /\ client \in States /\ answers \in States /\ last \in States /\ moved \in Nat
      /\ client.track = last.track /\ client.status = last.status
      /\ Mpris!Distance(client.pos, last.pos) <= moved
  BY DEF StatesOK, ClientOK
<1>2. client.pos \in Nat /\ answers.pos \in Nat /\ last.pos \in Nat
  BY <1>1 DEF States, Mpris!ConstantsOK
<1> DEFINE far == Mpris!Distance(answers.pos, last.pos) > Threshold
           pos == IF answers.track # last.track \/ Mpris!SeekedSince(answers, last) THEN answers.pos ELSE client.pos
<1>3. client' = [track |-> IF answers.track # last.track THEN answers.track ELSE client.track,
                 status |-> IF answers.status # last.status THEN answers.status ELSE client.status,
                 pos |-> pos]
  BY DEF Mpris!Announce, Mpris!Heard
<1>4. moved' = IF answers.track # last.track \/ far THEN 0
               ELSE moved + Mpris!Distance(answers.pos, last.pos)
  BY DEF Mpris!Announce
<1>5. Mpris!SeekedSince(answers, last) <=> answers.track = last.track /\ far
  BY <1>2 DEF Mpris!SeekedSince, Mpris!Distance, Mpris!ConstantsOK
<1>6. CASE answers.track # last.track \/ far
  <2>1. pos = answers.pos
    BY <1>5, <1>6
  <2>2. moved' = 0
    BY <1>4, <1>6
  <2>3. client'.pos = answers.pos
    BY <1>3, <2>1
  <2> QED BY <1>1, <1>2, <1>3, <2>1, <2>2, <2>3 DEF States, Mpris!Distance
<1>7. CASE ~(answers.track # last.track \/ far)
  <2>1. pos = client.pos
    BY <1>5, <1>7
  <2>2. moved' = moved + Mpris!Distance(answers.pos, last.pos)
    BY <1>4, <1>7
  <2>3. client'.pos = client.pos
    BY <1>3, <2>1
  <2>4. Mpris!Distance(client.pos, answers.pos) <= moved' /\ moved' \in Nat
    BY <1>1, <1>2, <2>2 DEF Mpris!Distance
  <2> QED BY <1>1, <1>2, <1>3, <1>7, <2>1, <2>3, <2>4 DEF States
<1> QED BY <1>6, <1>7

LEMMA NextMprisInv ==
  ASSUME Mpris!ConstantsOK, MprisInv, [Mpris!Next]_(Mpris!vars)
  PROVE  MprisInv'
<1> USE DEF MprisInv
<1>0. TasksOK'
  BY NextTasksOK
<1>1. ASSUME NEW i \in DOMAIN outgoing, Mpris!Publish(i) PROVE MprisInv'
  <2>1. /\ outgoing' = Mpris!RemoveAt(outgoing, i) /\ late' = (late \/ i # 1)
        /\ UNCHANGED <<player, answers, last, announcing, client, moved>>
    BY <1>1 DEF Mpris!Publish
  <2> DEFINE o == outgoing[i]
  <2>2. o \in States /\ published \in States /\ outgoing \in Seq(States) /\ channel \in Seq(States)
    BY DEF StatesOK
  <2>3. outgoing' \in Seq(States)
    BY <2>1, <2>2, RemoveOne
  <2>4. IF Mpris!SmallProgress(o) THEN UNCHANGED <<published, channel>>
        ELSE published' = o /\ channel' = Append(channel, o)
    BY <1>1 DEF Mpris!Publish
  <2>5. late' \in BOOLEAN
    BY <2>1 DEF StatesOK
  <2>6. o.pos \in Nat /\ published.pos \in Nat
    BY <2>2 DEF States, Mpris!ConstantsOK
  <2> HIDE DEF o
  <2>7. StatesOK' /\ ChannelOK'
    <3>1. CASE Mpris!SmallProgress(o)
      BY <2>1, <2>3, <2>4, <2>5, <3>1 DEF StatesOK, ChannelOK
    <3>2. CASE ~Mpris!SmallProgress(o)
      <4>1. /\ channel' \in Seq(States) /\ channel' # << >> /\ channel'[Len(channel')] = o
            /\ published' = o
        BY <2>2, <2>4, <3>2, AppendLast
      <4>2. StatesOK'
        BY <2>1, <2>2, <2>3, <2>5, <4>1 DEF StatesOK
      <4> QED BY <4>1, <4>2 DEF ChannelOK
    <3> QED BY <3>1, <3>2
  <2>8. OutgoingOK'
    <3> SUFFICES ASSUME ~late' PROVE OutgoingOK'
      BY DEF OutgoingOK
    <3>1. i = 1 /\ ~late
      BY <2>1
    <3>2. outgoing # << >> /\ outgoing[Len(outgoing)] = player
      BY <3>1, <2>2 DEF OutgoingOK
    <3>3. CASE outgoing' = << >>
      <4>1. o = player
        BY <2>1, <2>2, <3>1, <3>2, <3>3, RemoveOne DEF o
      <4>2. /\ player.track = published'.track /\ player.status = published'.status
            /\ player.pos - published'.pos \in 0..SeekStep - 1
        <5>1. CASE Mpris!SmallProgress(o)
          BY <2>4, <4>1, <5>1 DEF Mpris!SmallProgress
        <5>2. CASE ~Mpris!SmallProgress(o)
          <6>1. player.pos - player.pos = 0 /\ 0 \in 0..SeekStep - 1
            BY <2>6, <4>1 DEF Mpris!ConstantsOK
          <6> QED BY <2>4, <4>1, <5>2, <6>1
        <5> QED BY <5>1, <5>2
      <4> QED BY <2>1, <3>3, <4>2 DEF OutgoingOK
    <3>4. CASE outgoing' # << >>
      <4>1. outgoing'[Len(outgoing')] = outgoing[Len(outgoing)]
        BY <2>1, <2>2, <3>1, <3>4, RemoveOne
      <4> QED BY <2>1, <3>2, <3>4, <4>1 DEF OutgoingOK
    <3> QED BY <3>3, <3>4
  <2>9. ClientOK'
    BY <2>1 DEF ClientOK
  <2> QED BY <1>0, <2>7, <2>8, <2>9
<1>2. CASE Mpris!Receive
  <2>1. /\ ~announcing /\ channel # << >> /\ answers' = channel[1] /\ channel' = Tail(channel)
        /\ announcing' = TRUE
        /\ UNCHANGED <<player, outgoing, published, late, last, client, moved>>
    BY <1>2 DEF Mpris!Receive
  <2>2. channel \in Seq(States)
    BY DEF StatesOK
  <2>3. /\ answers' \in States /\ channel' \in Seq(States)
        /\ channel' = << >> => channel[Len(channel)] = answers'
        /\ channel' # << >> => channel'[Len(channel')] = channel[Len(channel)]
    BY <2>1, <2>2, TailLast
  <2>4. StatesOK' /\ ClientOK' /\ OutgoingOK'
    BY <2>1, <2>3 DEF StatesOK, ClientOK, OutgoingOK
  <2>5. ChannelOK'
    BY <2>1, <2>3 DEF ChannelOK
  <2> QED BY <1>0, <2>4, <2>5
<1>3. CASE Mpris!Announce
  <2>1. /\ last' = answers /\ announcing' = FALSE
        /\ UNCHANGED <<player, outgoing, published, late, channel, answers>>
    BY <1>3 DEF Mpris!Announce
  <2>2. /\ client' \in States /\ moved' \in Nat
        /\ client'.track = answers.track /\ client'.status = answers.status
        /\ Mpris!Distance(client'.pos, answers.pos) <= moved'
    BY <1>3, HeardIsCounted
  <2>3. StatesOK' /\ ChannelOK' /\ OutgoingOK'
    BY <2>1, <2>2 DEF StatesOK, ChannelOK, OutgoingOK
  <2>4. ClientOK'
    BY <2>1, <2>2 DEF ClientOK
  <2> QED BY <1>0, <2>3, <2>4
<1>4. ASSUME UNCHANGED <<player, outgoing, published, late, channel, answers, last, announcing, client, moved>>
      PROVE  MprisInv'
  BY <1>0, <1>4 DEF StatesOK, ClientOK, ChannelOK, OutgoingOK
<1>5. ASSUME Mpris!Change \/ \E t \in orders : Mpris!Run(t) PROVE MprisInv'
  <2>1. PICK p \in States : player' = p /\ outgoing' = Append(outgoing, p)
    BY <1>5, PlayerSteps
  <2>2. UNCHANGED <<published, late, channel, answers, last, announcing, client, moved>>
    BY <1>5, PlayerSteps
  <2>3. outgoing' \in Seq(States) /\ outgoing' # << >> /\ outgoing'[Len(outgoing')] = player'
    BY <2>1, AppendLast DEF StatesOK
  <2>4. StatesOK' /\ ClientOK' /\ ChannelOK'
    BY <2>1, <2>2, <2>3 DEF StatesOK, ClientOK, ChannelOK
  <2>5. OutgoingOK'
    BY <2>2, <2>3 DEF OutgoingOK
  <2> QED BY <1>0, <2>4, <2>5
<1> QED BY <1>1, <1>2, <1>3, <1>4, <1>5, CommandingLeaves, MprisSteps

\* For any Tracks, thresholds and number of commands and changes: a client that only
\* follows the signals knows what plays as soon as nothing is left to publish and to
\* announce, and its position but for small moves, unless two threads published in the
\* other order (mpris.rs, playback_publish.rs).
THEOREM SignalsAreEnough ==
  Mpris!Spec => [](Mpris!TypeOK /\ Mpris!SignalsSuffice /\ SignalsSuffice)
<1>0. Mpris!ConstantsOK
  BY PlayersAssumption
<1>1. Mpris!Init => MprisInv
  BY <1>0, MprisInit
<1>2. MprisInv /\ [Mpris!Next]_(Mpris!vars) => MprisInv'
  BY <1>0, NextMprisInv
<1>3. MprisInv => Mpris!TypeOK /\ Mpris!SignalsSuffice
  <2> SUFFICES ASSUME MprisInv PROVE Mpris!TypeOK /\ Mpris!SignalsSuffice
    OBVIOUS
  <2> USE DEF MprisInv
  <2>1. Mpris!TypeOK
    <3>1. Mpris!Cardinality(orders) = Cardinality(orders)
      BY Zenon DEF Mpris!Cardinality, Cardinality
    <3>2. Cardinality(orders) \in Nat
      BY FS_CardinalityType DEF TasksOK
    <3>3. Mpris!Cardinality(orders) <= MaxCommands
      BY <1>0, <3>1, <3>2 DEF TasksOK, Mpris!ConstantsOK
    <3> QED BY <3>3 DEF Mpris!TypeOK, StatesOK, States
  <2>2. ASSUME Mpris!Settled, ~late
        PROVE  /\ client.track = player.track /\ client.status = player.status
               /\ Mpris!Distance(client.pos, player.pos) <= moved + SeekStep - 1
    <3>1. published = last
      BY <2>2 DEF Mpris!Settled, ChannelOK, ClientOK
    <3>2. /\ player.track = last.track /\ player.status = last.status
          /\ player.pos - last.pos \in 0..SeekStep - 1
      BY <2>2, <3>1 DEF Mpris!Settled, OutgoingOK
    <3>3. client.pos \in Nat /\ last.pos \in Nat /\ player.pos \in Nat /\ moved \in Nat
      BY <1>0 DEF StatesOK, States, Mpris!ConstantsOK
    <3>4. Mpris!Distance(client.pos, last.pos) <= moved /\ client.track = last.track
          /\ client.status = last.status
      BY DEF ClientOK
    <3>5. Mpris!Distance(client.pos, player.pos) <= moved + SeekStep - 1
      BY <1>0, <3>2, <3>3, <3>4 DEF Mpris!Distance, Mpris!ConstantsOK
    <3> QED BY <3>2, <3>4, <3>5
  <2> QED BY <2>1, <2>2 DEF Mpris!SignalsSuffice
<1>4. Mpris!TypeOK /\ Mpris!SignalsSuffice => SignalsSuffice
  BY DEF SignalsSuffice
<1> QED BY <1>1, <1>2, <1>3, <1>4, PTL DEF Mpris!Spec

-----------------------------------------------------------------------------
(***************************************************************************)
(* The browser's engine, for any sources and any back-off.  Each call that *)
(* waits, and the timer, is of the source that was shown at its revision;  *)
(* pause() and stop() leave nothing behind that is of the revision they    *)
(* begin.                                                                  *)
(***************************************************************************)

\* The states of the engine and of the element.
Anything == WebSources \cup {Browser!None}
Statuses == {"idle", "paused", "playing", "reconnecting", "ended", "error"}
Sessions == [source : Anything, status : Statuses, stopAfter : BOOLEAN,
             repeat : {"off", "once", "loop"}]
MediaStates == [src : Anything, paused : BOOLEAN, flowing : BOOLEAN, failed : BOOLEAN]
CallStates == [kind : {"play", "reconnect"}, source : Anything, revision : Nat,
               at : {"start", "import", "media"}]
EventTasks == [event : {"play", "playing", "pause", "error", "stalled", "ended"},
               calls : SUBSET CallStates, ok : BOOLEAN]
Outcomes == [call : CallStates, ok : BOOLEAN]
Timers == [reconnect : [on : BOOLEAN, source : Anything, revision : Nat],
           stall : BOOLEAN, stability : BOOLEAN]

ElementOK ==
  /\ media \in MediaStates /\ tasks \in Seq(EventTasks)
  /\ calls \in SUBSET CallStates /\ settled \in SUBSET Outcomes
  /\ \A c \in calls : c.at # "start"
EngineOK ==
  /\ session \in Sessions /\ revision \in Nat /\ running \in BOOLEAN
  /\ hasStarted \in BOOLEAN /\ attempt \in 0..MaxDelay /\ timers \in Timers

\* The calls that are at an await, or whose await an event or a load has ended.
KnownCalls == calls \cup {d.call : d \in settled}
                \cup UNION {tasks[i].calls : i \in DOMAIN tasks}

\* A call, or a timer, of the present revision is of the source that is shown.
IsOfItsTime(c) == c.revision <= revision /\ (c.revision = revision => c.source = session.source)
CallsOK ==
  /\ \A c \in KnownCalls : IsOfItsTime(c)
  /\ timers.reconnect.on => IsOfItsTime(timers.reconnect)

\* What the listener silenced stays so: nothing that could start it is of this revision.
IsQuiet ==
  /\ media.paused /\ ~timers.reconnect.on /\ ~timers.stall
  /\ \A c \in KnownCalls : c.revision < revision
QuietOK == want = "pause" /\ slips \cap {"late", "wakes"} = {} => IsQuiet

BrowserInv == ElementOK /\ EngineOK /\ CallsOK /\ Browser!HeardIsShown /\ QuietOK

-----------------------------------------------------------------------------
LEMMA BrowserInit == MaxDelay \in Nat /\ Browser!Init => BrowserInv
<1> SUFFICES ASSUME MaxDelay \in Nat, Browser!Init PROVE BrowserInv
  OBVIOUS
<1>1. /\ session = [source |-> Browser!None, status |-> "idle", stopAfter |-> FALSE, repeat |-> "off"]
      /\ media = [src |-> Browser!None, paused |-> TRUE, flowing |-> FALSE, failed |-> FALSE]
      /\ tasks = << >> /\ calls = {} /\ settled = {} /\ revision = 0 /\ hasStarted = FALSE
      /\ running = FALSE /\ attempt = 0 /\ slips = {}
      /\ timers = [reconnect |-> [on |-> FALSE, source |-> Browser!None, revision |-> 0],
                   stall |-> FALSE, stability |-> FALSE]
  BY DEF Browser!Init, Browser!Empty, Browser!NoTimers, Browser!NoTimer
<1>2. KnownCalls = {}
  BY <1>1 DEF KnownCalls
<1>3. ElementOK
  <2>1. << >> \in Seq(EventTasks)
    OBVIOUS
  <2>2. media \in MediaStates
    BY <1>1 DEF MediaStates, Anything
  <2> QED BY <1>1, <2>1, <2>2 DEF ElementOK
<1>4. EngineOK
  <2>1. session \in Sessions
    BY <1>1 DEF Sessions, Statuses, Anything
  <2>2. timers \in Timers
    BY <1>1 DEF Timers, Anything
  <2>3. running \in BOOLEAN /\ hasStarted \in BOOLEAN
    BY <1>1, Zenon
  <2>4. revision \in Nat /\ attempt \in 0..MaxDelay
    BY <1>1
  <2> QED BY <2>1, <2>2, <2>3, <2>4 DEF EngineOK
<1>5. CallsOK /\ QuietOK
  BY <1>1, <1>2 DEF CallsOK, QuietOK, IsQuiet
<1>6. Browser!HeardIsShown
  BY <1>1 DEF Browser!HeardIsShown
<1> QED BY <1>3, <1>4, <1>5, <1>6 DEF BrowserInv

\* What play() of the element does with a call.
LEMMA MediaPlays ==
  ASSUME NEW m \in MediaStates, NEW due \in Seq(EventTasks), NEW left \in SUBSET CallStates,
         NEW done \in SUBSET Outcomes, NEW call \in CallStates, \A c \in left : c.at # "start",
         Browser!Becomes(Browser!MediaPlay(m, due, left, done, call))
  PROVE  /\ ElementOK' /\ media'.src = m.src
         /\ \A c \in KnownCalls' :
              \/ c.revision = call.revision /\ c.source = call.source
              \/ c \in left \/ (\E d \in done : c = d.call)
              \/ \E i \in DOMAIN due : c \in due[i].calls
<1> DEFINE k == [call EXCEPT !.at = "media"]
           e == [event |-> "play", calls |-> {}, ok |-> TRUE]
<1>1. k \in CallStates /\ k.at = "media" /\ k.revision = call.revision /\ k.source = call.source
  BY DEF CallStates
<1>2. e \in EventTasks
  BY DEF EventTasks
<1>3. /\ media' = m \/ media' = [m EXCEPT !.paused = FALSE]
      /\ tasks' = due \/ tasks' = Append(due, e)
      /\ calls' = left \/ calls' = left \cup {k}
      /\ settled' = done \/ settled' = done \cup {[call |-> k, ok |-> FALSE]}
           \/ settled' = done \cup {[call |-> k, ok |-> TRUE]}
  <2>1. CASE m.failed
    BY <2>1 DEF Browser!Becomes, Browser!MediaPlay
  <2>2. CASE ~m.failed /\ m.flowing
    BY <2>2 DEF Browser!Becomes, Browser!MediaPlay
  <2>3. CASE ~m.failed /\ ~m.flowing
    BY <2>3 DEF Browser!Becomes, Browser!MediaPlay, Browser!Fires
  <2> QED BY <2>1, <2>2, <2>3
<1>4. media' \in MediaStates /\ media'.src = m.src
  BY <1>3 DEF MediaStates
<1> HIDE DEF k
<1>5. [call |-> k, ok |-> FALSE] \in Outcomes /\ [call |-> k, ok |-> TRUE] \in Outcomes
  BY <1>1 DEF Outcomes
<1>6. ElementOK'
  <2>1. tasks' \in Seq(EventTasks)
    BY <1>2, <1>3
  <2>2. calls' \in SUBSET CallStates /\ \A c \in calls' : c.at # "start"
    BY <1>1, <1>3
  <2>3. settled' \in SUBSET Outcomes
    BY <1>3, <1>5
  <2> QED BY <1>4, <2>1, <2>2, <2>3 DEF ElementOK
<1>7. ASSUME NEW i \in DOMAIN tasks'
      PROVE  \/ tasks'[i].calls = {}
             \/ i \in DOMAIN due /\ tasks'[i] = due[i]
  BY <1>3
<1>8. ASSUME NEW d \in settled' PROVE d \in done \/ d.call = k
  BY <1>3
<1> QED BY <1>1, <1>3, <1>4, <1>6, <1>7, <1>8 DEF KnownCalls

\* load() of the element settles calls it knew.
LEMMA LoadSettlesKnown ==
  ASSUME ElementOK
  PROVE  /\ Browser!MediaLoad \in SUBSET Outcomes
         /\ \A d \in Browser!MediaLoad : d.call \in KnownCalls
<1>1. ASSUME NEW d \in Browser!MediaLoad PROVE d \in Outcomes /\ d.call \in KnownCalls
  <2>1. CASE d \in settled
    BY <2>1 DEF ElementOK, KnownCalls
  <2>2. CASE d \notin settled
    <3> DEFINE ok(c) == \E i \in DOMAIN tasks : c \in tasks[i].calls /\ tasks[i].ok
    <3>1. PICK c \in Browser!Waiting : d = [call |-> c, ok |-> ok(c)]
      BY <2>2 DEF Browser!MediaLoad
    <3>2. c \in calls /\ c \in CallStates
      BY DEF Browser!Waiting, ElementOK
    <3>3. ok(c) \in BOOLEAN
      OBVIOUS
    <3> HIDE DEF ok
    <3> QED BY <3>1, <3>2, <3>3 DEF Outcomes, KnownCalls
  <2> QED BY <2>1, <2>2
<1> QED BY <1>1

LEMMA EmptyMedia == Browser!Empty \in MediaStates /\ Browser!Empty.src = Browser!None
                    /\ Browser!Empty.paused
BY DEF Browser!Empty, MediaStates, Anything

\* setMediaSource and play().
LEMMA SourceIsSet ==
  ASSUME ElementOK, NEW call \in CallStates, Browser!SetMediaSource(call)
  PROVE  /\ ElementOK' /\ media'.src \in {Browser!None, call.source}
         /\ \A c \in KnownCalls' :
              c \in KnownCalls \/ (c.revision = call.revision /\ c.source = call.source)
<1> DEFINE load == Browser!MediaLoad
           left == calls \ Browser!Waiting
<1>1. load \in SUBSET Outcomes /\ (\A d \in load : d.call \in KnownCalls)
  BY LoadSettlesKnown
<1>2. left \in SUBSET CallStates /\ (\A c \in left : c.at # "start" /\ c \in KnownCalls)
  BY DEF ElementOK, KnownCalls
<1>3. << >> \in Seq(EventTasks) /\ DOMAIN << >> = {}
  OBVIOUS
<1>4. CASE call.source \in Hls /\ ~factory
  <2> DEFINE k == [call EXCEPT !.at = "import"]
  <2>1. /\ media' = Browser!Empty /\ tasks' = << >> /\ calls' = left \cup {k} /\ settled' = load
    BY <1>4 DEF Browser!SetMediaSource
  <2>2. k \in CallStates /\ k.at = "import" /\ k.revision = call.revision /\ k.source = call.source
    BY DEF CallStates
  <2> HIDE DEF k, load, left
  <2>3. ElementOK'
    BY <1>1, <1>2, <1>3, <2>1, <2>2, EmptyMedia DEF ElementOK
  <2>4. \A c \in KnownCalls' :
              c \in KnownCalls \/ (c.revision = call.revision /\ c.source = call.source)
    BY <1>1, <1>2, <1>3, <2>1, <2>2 DEF KnownCalls
  <2> QED BY <2>1, <2>3, <2>4, EmptyMedia
<1>5. CASE ~(call.source \in Hls /\ ~factory)
  <2> DEFINE m == [Browser!Empty EXCEPT !.src = call.source]
  <2>0. PICK due \in Seq(EventTasks) : due = << >> /\ DOMAIN due = {}
    BY <1>3
  <2>1. Browser!Becomes(Browser!MediaPlay(m, due, left, load, call))
    BY <1>5, <2>0 DEF Browser!SetMediaSource
  <2>2. m \in MediaStates /\ m.src = call.source
    BY DEF Browser!Empty, MediaStates, CallStates
  <2> HIDE DEF m, load, left
  <2>3. /\ ElementOK' /\ media'.src = m.src
        /\ \A c \in KnownCalls' :
              \/ c.revision = call.revision /\ c.source = call.source
              \/ c \in left \/ (\E d \in load : c = d.call)
              \/ \E i \in DOMAIN due : c \in due[i].calls
    BY <1>1, <1>2, <2>1, <2>2, MediaPlays
  <2> QED BY <1>1, <1>2, <2>0, <2>2, <2>3
<1> QED BY <1>4, <1>5

\* play() of what is there.
PlayCall == [kind |-> "play", source |-> session.source, revision |-> revision, at |-> "start"]

LEMMA PlaysAgain ==
  ASSUME ElementOK, EngineOK, NEW due \in Seq(EventTasks), Browser!Plays(media, due),
         \A i \in DOMAIN due : \A c \in due[i].calls : c \in KnownCalls
  PROVE  /\ ElementOK' /\ media'.src = media.src
         /\ \A c \in KnownCalls' :
              c \in KnownCalls \/ (c.revision = revision /\ c.source = session.source)
<1>1. PlayCall \in CallStates /\ PlayCall.revision = revision /\ PlayCall.source = session.source
  BY DEF PlayCall, CallStates, EngineOK, Sessions
<1>2. Browser!Becomes(Browser!MediaPlay(media, due, calls, settled, PlayCall))
  BY DEF Browser!Plays, PlayCall
<1>3. /\ media \in MediaStates /\ calls \in SUBSET CallStates /\ settled \in SUBSET Outcomes
      /\ \A c \in calls : c.at # "start"
  BY DEF ElementOK
<1>4. /\ ElementOK' /\ media'.src = media.src
      /\ \A c \in KnownCalls' :
              \/ c.revision = PlayCall.revision /\ c.source = PlayCall.source
              \/ c \in calls \/ (\E d \in settled : c = d.call)
              \/ \E i \in DOMAIN due : c \in due[i].calls
  BY <1>1, <1>2, <1>3, MediaPlays
<1>5. \A c \in calls : c \in KnownCalls
  BY DEF KnownCalls
<1>6. \A d \in settled : d.call \in KnownCalls
  BY DEF KnownCalls
<1> QED BY <1>1, <1>4, <1>5, <1>6

\* The events that are queued settle calls that wait.
LEMMA QueuedKnown ==
  ASSUME ElementOK
  PROVE  /\ \A i \in DOMAIN tasks : \A c \in tasks[i].calls : c \in KnownCalls
         /\ \A i \in DOMAIN tasks : tasks[i] \in EventTasks
         /\ Browser!Waiting \ Browser!Taken \in SUBSET CallStates
         /\ \A c \in Browser!Waiting \ Browser!Taken : c \in KnownCalls
BY DEF ElementOK, KnownCalls, Browser!Waiting, Browser!Taken

\* An event of the element is queued.
LEMMA EventQueued ==
  ASSUME ElementOK, NEW due \in Seq(EventTasks),
         \A i \in DOMAIN due : \A c \in due[i].calls : c \in KnownCalls,
         NEW event \in {"play", "playing", "pause", "error", "stalled", "ended"}, NEW ok \in BOOLEAN,
         NEW cs \in {{}, Browser!Waiting \ Browser!Taken}
  PROVE  LET next == Append(due, [event |-> event, calls |-> cs, ok |-> ok])
         IN  /\ next \in Seq(EventTasks)
             /\ \A i \in DOMAIN next : \A c \in next[i].calls : c \in KnownCalls
<1> DEFINE e == [event |-> event, calls |-> cs, ok |-> ok]
<1>1. e \in EventTasks /\ e.calls = cs /\ \A c \in cs : c \in KnownCalls
  BY QueuedKnown DEF EventTasks
<1> HIDE DEF e
<1>2. Append(due, e) \in Seq(EventTasks)
  BY <1>1
<1>3. ASSUME NEW i \in DOMAIN Append(due, e) PROVE \A c \in Append(due, e)[i].calls : c \in KnownCalls
  <2>1. CASE i \in DOMAIN due
    BY <2>1
  <2>2. CASE i \notin DOMAIN due
    <3>1. Append(due, e)[i] = e
      BY <2>2, <1>1
    <3> QED BY <1>1, <3>1
  <2> QED BY <2>1, <2>2
<1> QED BY <1>2, <1>3 DEF e

\* The element's events change and no call comes or goes.
LEMMA OnlyEvents ==
  ASSUME ElementOK, media' \in MediaStates, calls' = calls, settled' = settled,
         tasks' \in Seq(EventTasks), \A i \in DOMAIN tasks' : \A c \in tasks'[i].calls : c \in KnownCalls
  PROVE  ElementOK' /\ \A c \in KnownCalls' : c \in KnownCalls
<1>1. ElementOK'
  BY DEF ElementOK
<1>2. \A c \in calls : c \in KnownCalls
  BY DEF KnownCalls
<1>3. \A d \in settled : d.call \in KnownCalls
  BY DEF KnownCalls
<1>4. ASSUME NEW c \in KnownCalls' PROVE c \in KnownCalls
  <2>1. c \in calls' \/ (\E d \in settled' : c = d.call) \/ (\E i \in DOMAIN tasks' : c \in tasks'[i].calls)
    BY <1>4 DEF KnownCalls
  <2> QED BY <1>2, <1>3, <2>1
<1> QED BY <1>1, <1>4

-----------------------------------------------------------------------------
(* What steps of the same kind keep *)

\* A step at the same revision: calls come of the source that is shown.
LEMMA SameTime ==
  ASSUME EngineOK, CallsOK, revision' = revision, session'.source = session.source,
         \A c \in KnownCalls' :
           c \in KnownCalls \/ (c.revision = revision /\ c.source = session.source),
         timers'.reconnect.on =>
           \/ timers'.reconnect = timers.reconnect
           \/ timers'.reconnect.revision = revision /\ timers'.reconnect.source = session.source
  PROVE  CallsOK'
<1>1. \A c : IsOfItsTime(c) => IsOfItsTime(c)'
  BY DEF IsOfItsTime
<1>2. \A c : c.revision = revision /\ c.source = session.source => IsOfItsTime(c)'
  BY DEF IsOfItsTime, EngineOK
<1>3. \A c \in KnownCalls' : IsOfItsTime(c)'
  BY <1>1, <1>2 DEF CallsOK
<1>4. timers'.reconnect.on => IsOfItsTime(timers.reconnect)'
  BY <1>1, <1>2 DEF CallsOK, IsOfItsTime
<1> QED BY <1>3, <1>4 DEF CallsOK, IsOfItsTime

\* A step to the next revision: what was there is of an earlier one.
LEMMA LaterTime ==
  ASSUME EngineOK, CallsOK, revision' = revision + 1, ~timers'.reconnect.on,
         \A c \in KnownCalls' : c \in CallStates,
         \A c \in KnownCalls' :
           c \in KnownCalls \/ (c.revision = revision + 1 /\ c.source = session'.source)
  PROVE  CallsOK'
<1>1. ASSUME NEW c \in KnownCalls' PROVE IsOfItsTime(c)'
  <2>1. c.revision \in Nat /\ revision \in Nat
    BY <1>1 DEF CallStates, EngineOK
  <2>2. CASE c \in KnownCalls
    BY <2>1, <2>2 DEF CallsOK, IsOfItsTime
  <2>3. CASE c.revision = revision + 1 /\ c.source = session'.source
    BY <2>1, <2>3 DEF IsOfItsTime
  <2> QED BY <1>1, <2>2, <2>3
<1> QED BY <1>1 DEF CallsOK

LEMMA KnownTyped ==
  ASSUME ElementOK'
  PROVE  \A c \in KnownCalls' : c \in CallStates
<1>1. \A i \in DOMAIN tasks' : tasks'[i] \in EventTasks
  BY DEF ElementOK
<1>2. \A e \in EventTasks : e.calls \in SUBSET CallStates
  BY DEF EventTasks
<1>3. \A d \in settled' : d.call \in CallStates
  BY DEF ElementOK, Outcomes
<1> QED BY <1>1, <1>2, <1>3 DEF KnownCalls, ElementOK

LEMMA StaysQuiet ==
  ASSUME QuietOK, want' = want, slips \subseteq slips', revision' = revision,
         IsQuiet /\ slips' \cap {"late", "wakes"} = {} /\ want = "pause" =>
           /\ media'.paused /\ ~timers'.reconnect.on /\ ~timers'.stall
           /\ \A c \in KnownCalls' : c \in KnownCalls
  PROVE  QuietOK'
<1> SUFFICES ASSUME want' = "pause", slips' \cap {"late", "wakes"} = {} PROVE IsQuiet'
  BY DEF QuietOK
<1>1. IsQuiet
  BY DEF QuietOK
<1> QED BY <1>1 DEF IsQuiet

-----------------------------------------------------------------------------
(* The listener *)

LEMMA TimersTyped ==
  ASSUME MaxDelay \in Nat
  PROVE  Browser!NoTimers \in Timers /\ ~Browser!NoTimers.reconnect.on /\ ~Browser!NoTimers.stall
BY DEF Browser!NoTimers, Browser!NoTimer, Timers, Anything

LEMMA PlayKeeps ==
  ASSUME MaxDelay \in Nat, BrowserInv, NEW s \in WebSources, Browser!Play(s)
  PROVE  BrowserInv'
<1> USE DEF BrowserInv
<1> DEFINE call == [kind |-> "play", source |-> s, revision |-> revision + 1, at |-> "start"]
<1>1. /\ timers' = Browser!NoTimers /\ attempt' = 0 /\ revision' = revision + 1
      /\ hasStarted' = FALSE /\ session' = [session EXCEPT !.source = s, !.status = "paused"]
      /\ Browser!SetMediaSource(call) /\ want' = "play" /\ running' = running /\ slips' = slips
  BY DEF Browser!Play, Browser!CancelLiveReconnect, Browser!Shows
<1>2. call \in CallStates /\ call.source = s /\ call.revision = revision + 1
  BY DEF CallStates, Anything, EngineOK
<1> HIDE DEF call
<1>3. /\ ElementOK' /\ media'.src \in {Browser!None, s}
      /\ \A c \in KnownCalls' : c \in KnownCalls \/ (c.revision = revision + 1 /\ c.source = s)
  BY <1>1, <1>2, SourceIsSet
<1>4. session'.source = s /\ session' \in Sessions
  BY <1>1 DEF EngineOK, Sessions, Statuses, Anything
<1>5. EngineOK'
  <2>1. hasStarted' \in BOOLEAN /\ running' \in BOOLEAN
    BY <1>1, Zenon DEF EngineOK
  <2>2. revision' \in Nat /\ attempt' \in 0..MaxDelay
    BY <1>1 DEF EngineOK
  <2> QED BY <1>1, <1>4, <2>1, <2>2, TimersTyped DEF EngineOK
<1>6. \A c \in KnownCalls' : c \in CallStates
  BY <1>3, KnownTyped
<1>7. CallsOK'
  BY <1>1, <1>3, <1>4, <1>6, TimersTyped, LaterTime
<1>8. Browser!HeardIsShown'
  BY <1>3, <1>4 DEF Browser!HeardIsShown
<1>9. QuietOK'
  BY <1>1 DEF QuietOK
<1> QED BY <1>3, <1>5, <1>7, <1>8, <1>9

\* Without a step of the engine's, its state stays.
LEMMA EngineStays ==
  ASSUME EngineOK, UNCHANGED <<session, revision, running, hasStarted, attempt, timers>>
  PROVE  EngineOK'
BY DEF EngineOK

LEMMA ResumeKeeps ==
  ASSUME BrowserInv, Browser!Resume
  PROVE  BrowserInv'
<1> USE DEF BrowserInv
<1>1. /\ Browser!Plays(media, tasks) /\ want' = "play"
      /\ UNCHANGED <<session, factory, revision, hasStarted, running, attempt, timers, slips>>
  BY DEF Browser!Resume
<1>2. tasks \in Seq(EventTasks)
  BY DEF ElementOK
<1>3. /\ ElementOK' /\ media'.src = media.src
      /\ \A c \in KnownCalls' : c \in KnownCalls \/ (c.revision = revision /\ c.source = session.source)
  BY <1>1, <1>2, QueuedKnown, PlaysAgain
<1>4. EngineOK'
  BY <1>1, EngineStays
<1>5. CallsOK'
  BY <1>1, <1>3, SameTime
<1>6. Browser!HeardIsShown' /\ QuietOK'
  BY <1>1, <1>3 DEF Browser!HeardIsShown, QuietOK
<1> QED BY <1>3, <1>4, <1>5, <1>6

\* pause() of the element.
LEMMA MediaPauses ==
  ASSUME ElementOK
  PROVE  /\ Browser!MediaPause[1] \in MediaStates /\ Browser!MediaPause[1].src = media.src
         /\ Browser!MediaPause[1].paused
         /\ Browser!MediaPause[2] \in Seq(EventTasks)
         /\ \A i \in DOMAIN Browser!MediaPause[2] : \A c \in Browser!MediaPause[2][i].calls : c \in KnownCalls
<1>1. CASE media.paused
  <2>1. Browser!MediaPause[1] = media /\ Browser!MediaPause[2] = tasks
    BY <1>1 DEF Browser!MediaPause
  <2> QED BY <1>1, <2>1, QueuedKnown DEF ElementOK
<1>2. CASE ~media.paused
  <2> DEFINE e == [event |-> "pause", calls |-> Browser!Waiting \ Browser!Taken, ok |-> FALSE]
             m == [media EXCEPT !.paused = TRUE, !.flowing = FALSE]
  <2>1. Browser!MediaPause[1] = m /\ Browser!MediaPause[2] = Append(tasks, e)
    BY <1>2 DEF Browser!MediaPause
  <2>2. m \in MediaStates /\ m.src = media.src /\ m.paused
    BY DEF ElementOK, MediaStates
  <2>3. tasks \in Seq(EventTasks)
    BY DEF ElementOK
  <2>4. /\ Append(tasks, e) \in Seq(EventTasks)
        /\ \A i \in DOMAIN Append(tasks, e) : \A c \in Append(tasks, e)[i].calls : c \in KnownCalls
    BY <2>3, QueuedKnown, EventQueued
  <2> HIDE DEF m, e
  <2> QED BY <2>1, <2>2, <2>4
<1> QED BY <1>1, <1>2

\* pause(): what could still start is of an earlier revision.
LEMMA PauseKeeps ==
  ASSUME MaxDelay \in Nat, BrowserInv, Browser!Pause
  PROVE  BrowserInv'
<1> USE DEF BrowserInv
<1>1. /\ timers' = Browser!NoTimers /\ attempt' = 0 /\ revision' = revision + 1
      /\ media' = Browser!MediaPause[1] /\ tasks' = Browser!MediaPause[2]
      /\ session' = IF session.source = Browser!None THEN session ELSE [session EXCEPT !.status = "paused"]
      /\ UNCHANGED <<calls, settled, hasStarted, running, slips>>
  BY DEF Browser!Pause, Browser!CancelLiveReconnect
<1>2. ElementOK' /\ \A c \in KnownCalls' : c \in KnownCalls
  BY <1>1, MediaPauses, OnlyEvents
<1>3. session'.source = session.source /\ session' \in Sessions
  BY <1>1 DEF EngineOK, Sessions, Statuses
<1>4. EngineOK'
  <2>1. hasStarted' \in BOOLEAN /\ running' \in BOOLEAN
    BY <1>1 DEF EngineOK
  <2>2. revision' \in Nat /\ attempt' \in 0..MaxDelay
    BY <1>1 DEF EngineOK
  <2> QED BY <1>1, <1>3, <2>1, <2>2, TimersTyped DEF EngineOK
<1>5. \A c \in KnownCalls' : c \in CallStates
  BY <1>2, KnownTyped
<1>6. CallsOK'
  BY <1>1, <1>2, <1>5, TimersTyped, LaterTime
<1>7. Browser!HeardIsShown'
  BY <1>1, <1>3, MediaPauses DEF Browser!HeardIsShown
<1>8. QuietOK'
  <2>1. ASSUME NEW c \in KnownCalls' PROVE c.revision < revision'
    <3>1. c \in KnownCalls /\ c.revision \in Nat /\ revision \in Nat
      BY <1>2, <1>5 DEF CallStates, EngineOK
    <3>2. c.revision <= revision
      BY <3>1 DEF CallsOK, IsOfItsTime
    <3> QED BY <1>1, <3>1, <3>2
  <2>2. media'.paused
    BY <1>1, MediaPauses
  <2> QED BY <1>1, <2>1, <2>2, TimersTyped DEF QuietOK, IsQuiet
<1> QED BY <1>2, <1>4, <1>6, <1>7, <1>8

LEMMA StopKeeps ==
  ASSUME MaxDelay \in Nat, BrowserInv, Browser!Stop
  PROVE  BrowserInv'
<1> USE DEF BrowserInv
<1>1. /\ timers' = Browser!NoTimers /\ attempt' = 0 /\ revision' = revision + 1
      /\ media' = Browser!Empty /\ tasks' = << >> /\ calls' = calls \ Browser!Waiting
      /\ settled' = Browser!MediaLoad
      /\ session' = [session EXCEPT !.source = Browser!None, !.status = "idle"]
      /\ UNCHANGED <<hasStarted, running, slips>>
  BY DEF Browser!Stop, Browser!CancelLiveReconnect, Browser!Shows
<1>2. << >> \in Seq(EventTasks) /\ DOMAIN << >> = {}
  OBVIOUS
<1>3. ElementOK'
  BY <1>1, <1>2, LoadSettlesKnown, EmptyMedia DEF ElementOK
<1>4. \A c \in KnownCalls' : c \in KnownCalls
  <2>1. \A c \in calls : c \in KnownCalls
    BY DEF KnownCalls
  <2>2. ASSUME NEW c \in KnownCalls' PROVE c \in calls \/ \E d \in Browser!MediaLoad : c = d.call
    BY <1>1, <1>2, <2>2 DEF KnownCalls
  <2> QED BY <2>1, <2>2, LoadSettlesKnown
<1>5. session' \in Sessions
  BY <1>1 DEF EngineOK, Sessions, Statuses, Anything
<1>6. EngineOK'
  <2>1. hasStarted' \in BOOLEAN /\ running' \in BOOLEAN
    BY <1>1 DEF EngineOK
  <2>2. revision' \in Nat /\ attempt' \in 0..MaxDelay
    BY <1>1 DEF EngineOK
  <2> QED BY <1>1, <1>5, <2>1, <2>2, TimersTyped DEF EngineOK
<1>7. \A c \in KnownCalls' : c \in CallStates
  BY <1>3, KnownTyped
<1>8. CallsOK'
  BY <1>1, <1>4, <1>7, TimersTyped, LaterTime
<1>9. Browser!HeardIsShown'
  BY <1>1, EmptyMedia DEF Browser!HeardIsShown
<1>10. QuietOK'
  <2>1. ASSUME NEW c \in KnownCalls' PROVE c.revision < revision'
    <3>1. c \in KnownCalls /\ c.revision \in Nat /\ revision \in Nat
      BY <1>4, <1>7 DEF CallStates, EngineOK
    <3>2. c.revision <= revision
      BY <3>1 DEF CallsOK, IsOfItsTime
    <3> QED BY <1>1, <3>1, <3>2
  <2> QED BY <1>1, <2>1, TimersTyped, EmptyMedia DEF QuietOK, IsQuiet
<1> QED BY <1>3, <1>6, <1>8, <1>9, <1>10

LEMMA SettingsKeep ==
  ASSUME BrowserInv, Browser!Settings
  PROVE  BrowserInv'
<1> USE DEF BrowserInv
<1>1. /\ UNCHANGED <<media, tasks, calls, settled, factory, revision, hasStarted, running, attempt,
                     timers, want, slips>>
      /\ session' \in Sessions /\ session'.source = session.source
  BY DEF Browser!Settings, Browser!element, EngineOK, Sessions
<1>2. ElementOK' /\ EngineOK' /\ KnownCalls' = KnownCalls
  BY <1>1 DEF ElementOK, EngineOK, KnownCalls
<1>3. CallsOK'
  BY <1>1, <1>2, SameTime
<1>4. Browser!HeardIsShown' /\ QuietOK'
  BY <1>1, <1>2 DEF Browser!HeardIsShown, QuietOK, IsQuiet
<1> QED BY <1>2, <1>3, <1>4

-----------------------------------------------------------------------------
(* The element *)

\* What is heard stays what is shown when neither the source nor what is attached changes.
LEMMA HeardStays ==
  ASSUME Browser!HeardIsShown, media'.src \in {Browser!None, media.src},
         session'.source = session.source, slips \subseteq slips'
  PROVE  Browser!HeardIsShown'
BY DEF Browser!HeardIsShown

\* Steps of the element alone.
LEMMA ElementKeeps ==
  ASSUME BrowserInv, Browser!Starts \/ Browser!Ends \/ Browser!Troubled
  PROVE  BrowserInv'
<1> USE DEF BrowserInv
<1> DEFINE cs == Browser!Waiting \ Browser!Taken
<1>1. UNCHANGED <<session, calls, settled, factory, revision, hasStarted, running, attempt, timers, want, slips>>
  BY DEF Browser!Starts, Browser!Ends, Browser!Troubled
<1>2. media \in MediaStates /\ tasks \in Seq(EventTasks)
  BY DEF ElementOK
<1>3. /\ \A i \in DOMAIN tasks : \A c \in tasks[i].calls : c \in KnownCalls
      /\ cs \in {{}, Browser!Waiting \ Browser!Taken} /\ {} \in {{}, Browser!Waiting \ Browser!Taken}
  BY QueuedKnown
<1>4. ASSUME NEW event \in {"play", "playing", "pause", "error", "stalled", "ended"},
             NEW ok \in BOOLEAN, NEW k \in {{}, Browser!Waiting \ Browser!Taken}
      PROVE  LET next == Append(tasks, [event |-> event, calls |-> k, ok |-> ok])
             IN  /\ next \in Seq(EventTasks)
                 /\ \A i \in DOMAIN next : \A c \in next[i].calls : c \in KnownCalls
  BY <1>2, <1>3, EventQueued, ZenonT(40)
<1>5. /\ media' \in MediaStates /\ media'.src = media.src /\ (media.paused => media'.paused)
      /\ tasks' \in Seq(EventTasks)
      /\ \A i \in DOMAIN tasks' : \A c \in tasks'[i].calls : c \in KnownCalls
  <2>1. CASE Browser!Starts
    <3>1. media' = [media EXCEPT !.flowing = TRUE] /\ ~media.paused
          /\ tasks' = Append(tasks, [event |-> "playing", calls |-> cs, ok |-> TRUE])
      BY <2>1 DEF Browser!Starts
    <3>2. media' \in MediaStates /\ media'.src = media.src /\ (media.paused => media'.paused)
      BY <1>2, <3>1 DEF MediaStates
    <3> QED BY <1>3, <1>4, <3>1, <3>2
  <2>2. CASE Browser!Ends
    <3> DEFINE e == [event |-> "pause", calls |-> cs, ok |-> FALSE]
               f == [event |-> "ended", calls |-> {}, ok |-> TRUE]
    <3>1. media' = [media EXCEPT !.paused = TRUE, !.flowing = FALSE]
          /\ tasks' = tasks \o <<e, f>>
      BY <2>2 DEF Browser!Ends, Browser!Fires
    <3>2. media' \in MediaStates /\ media'.src = media.src /\ (media.paused => media'.paused)
      BY <1>2, <3>1 DEF MediaStates
    <3>3. /\ Append(tasks, e) \in Seq(EventTasks)
          /\ \A i \in DOMAIN Append(tasks, e) : \A c \in Append(tasks, e)[i].calls : c \in KnownCalls
      BY <1>3, <1>4
    <3>4. /\ Append(Append(tasks, e), f) \in Seq(EventTasks)
          /\ \A i \in DOMAIN Append(Append(tasks, e), f) :
               \A c \in Append(Append(tasks, e), f)[i].calls : c \in KnownCalls
      BY <1>3, <3>3, EventQueued
    <3>5. e \in EventTasks /\ f \in EventTasks
      BY QueuedKnown DEF EventTasks
    <3> HIDE DEF e, f
    <3>6. tasks \o <<e, f>> = Append(Append(tasks, e), f)
      BY <1>2, <3>5
    <3> QED BY <3>1, <3>2, <3>4, <3>6
  <2>3. CASE Browser!Troubled
    <3>1. CASE /\ media' = [media EXCEPT !.failed = TRUE, !.flowing = FALSE]
               /\ tasks' = Append(tasks, [event |-> "error", calls |-> cs, ok |-> FALSE])
      <4>1. media' \in MediaStates /\ media'.src = media.src /\ (media.paused => media'.paused)
        BY <1>2, <3>1 DEF MediaStates
      <4> QED BY <1>3, <1>4, <3>1, <4>1
    <3>2. CASE /\ media' = [media EXCEPT !.flowing = FALSE]
               /\ tasks' = Append(tasks, [event |-> "stalled", calls |-> {}, ok |-> TRUE])
      <4>1. media' \in MediaStates /\ media'.src = media.src /\ (media.paused => media'.paused)
        BY <1>2, <3>2 DEF MediaStates
      <4> QED BY <1>3, <1>4, <3>2, <4>1
    <3>3. CASE media' = Browser!MediaPause[1] /\ tasks' = Browser!MediaPause[2]
      BY <3>3, MediaPauses
    <3> QED BY <2>3, <3>1, <3>2, <3>3 DEF Browser!Troubled, Browser!Fires
  <2> QED BY <2>1, <2>2, <2>3
<1>6. ElementOK' /\ \A c \in KnownCalls' : c \in KnownCalls
  BY <1>1, <1>5, OnlyEvents
<1>7. EngineOK' /\ Browser!HeardIsShown'
  BY <1>1, <1>5, EngineStays, HeardStays
<1>8. CallsOK'
  BY <1>1, <1>6, SameTime
<1>9. QuietOK'
  BY <1>1, <1>5, <1>6, StaysQuiet DEF IsQuiet
<1> QED BY <1>6, <1>7, <1>8, <1>9

-----------------------------------------------------------------------------
(* The engine *)

\* What a handler, or a timer, does to the engine's own state.
IsHandled ==
  /\ session' \in Sessions /\ session'.source = session.source
  /\ attempt' \in 0..MaxDelay /\ timers' \in Timers
  /\ timers'.reconnect.on =>
       \/ timers'.reconnect = timers.reconnect
       \/ timers'.reconnect.revision = revision /\ timers'.reconnect.source = session.source

LEMMA Scheduled ==
  ASSUME MaxDelay \in Nat, EngineOK, Browser!Schedule(session)
  PROVE  IsHandled
<1>1. /\ session' = [session EXCEPT !.status = "reconnecting"]
      /\ attempt' = Browser!Least(attempt + 1, MaxDelay)
      /\ timers' = [timers EXCEPT !.reconnect = [on |-> TRUE, source |-> session.source, revision |-> revision],
                                  !.stability = FALSE, !.stall = FALSE]
  BY DEF Browser!Schedule
<1>2. session' \in Sessions /\ session'.source = session.source
  BY <1>1 DEF EngineOK, Sessions, Statuses
<1>3. attempt' \in 0..MaxDelay
  BY <1>1 DEF EngineOK, Browser!Least
<1>4. /\ timers' \in Timers /\ timers'.reconnect.revision = revision
      /\ timers'.reconnect.source = session.source
  BY <1>1 DEF EngineOK, Timers, Sessions
<1> QED BY <1>2, <1>3, <1>4 DEF IsHandled

\* Nothing of the engine's own state changes but the status.
LEMMA StatusIsHandled ==
  ASSUME EngineOK, session' \in Sessions, session'.source = session.source,
         UNCHANGED <<attempt, timers>>
  PROVE  IsHandled
BY DEF IsHandled, EngineOK

Handler == Browser!OnPlay \/ Browser!OnPlaying \/ Browser!OnPause \/ Browser!OnError
             \/ Browser!OnStalled \/ Browser!OnEnded

LEMMA EventHandled ==
  ASSUME MaxDelay \in Nat, EngineOK, Handler
  PROVE  IsHandled /\ hasStarted' \in BOOLEAN
<1>0. session \in Sessions /\ timers \in Timers /\ attempt \in 0..MaxDelay /\ hasStarted \in BOOLEAN
  BY DEF EngineOK
<1>1. CASE Browser!OnPlay \/ Browser!OnPause
  <2>1. session' \in Sessions /\ session'.source = session.source /\ UNCHANGED <<attempt, timers>>
    BY <1>0, <1>1 DEF Browser!OnPlay, Browser!OnPause, Sessions, Statuses
  <2>2. hasStarted' \in BOOLEAN
    BY <1>0, <1>1 DEF Browser!OnPlay, Browser!OnPause
  <2> QED BY <2>1, <2>2, StatusIsHandled
<1>2. CASE Browser!OnPlaying
  <2>1. hasStarted' \in BOOLEAN
    BY <1>2, Zenon DEF Browser!OnPlaying
  <2>2. session' \in Sessions /\ session'.source = session.source
    BY <1>0, <1>2 DEF Browser!OnPlaying, Sessions, Statuses
  <2>3. timers' = [timers EXCEPT !.stall = FALSE, !.stability = timers.stability \/ attempt > 0]
        /\ attempt' = attempt
    BY <1>2 DEF Browser!OnPlaying
  <2>4. (timers.stability \/ attempt > 0) \in BOOLEAN
    OBVIOUS
  <2>5. timers' \in Timers /\ timers'.reconnect = timers.reconnect
    BY <1>0, <2>3, <2>4 DEF Timers
  <2> QED BY <1>0, <2>1, <2>2, <2>3, <2>5 DEF IsHandled
<1>3. CASE Browser!OnError
  <2>1. hasStarted' \in BOOLEAN
    BY <1>0, <1>3 DEF Browser!OnError
  <2>2. \/ UNCHANGED <<session, attempt, timers>>
        \/ Browser!Schedule(session)
        \/ session' = [session EXCEPT !.status = "error"] /\ UNCHANGED <<attempt, timers>>
    BY <1>3 DEF Browser!OnError
  <2>3. session' = [session EXCEPT !.status = "error"] => session' \in Sessions /\ session'.source = session.source
    BY <1>0 DEF Sessions, Statuses
  <2> QED BY <1>0, <2>1, <2>2, <2>3, StatusIsHandled, Scheduled
<1>4. CASE Browser!OnStalled
  <2>1. timers' = [timers EXCEPT !.stall = timers.stall \/ Browser!LiveAgain]
        /\ UNCHANGED <<session, hasStarted, attempt>>
    BY <1>4 DEF Browser!OnStalled
  <2>2. (timers.stall \/ Browser!LiveAgain) \in BOOLEAN
    OBVIOUS
  <2>3. timers' \in Timers /\ timers'.reconnect = timers.reconnect
    BY <1>0, <2>1, <2>2 DEF Timers
  <2> QED BY <1>0, <2>1, <2>3 DEF IsHandled
<1>5. CASE Browser!OnEnded
  <2>1. hasStarted' \in BOOLEAN
    BY <1>0, <1>5 DEF Browser!OnEnded
  <2>2. CASE Browser!LiveAgain
    <3>1. UNCHANGED <<session, attempt, timers>> \/ Browser!Schedule(session)
      BY <1>5, <2>2 DEF Browser!OnEnded
    <3> QED BY <1>0, <2>1, <3>1, StatusIsHandled, Scheduled
  <2>3. CASE ~Browser!LiveAgain
    <3>1. /\ UNCHANGED <<attempt, timers>>
          /\ \/ session' = [session EXCEPT !.status = "paused", !.stopAfter = FALSE]
             \/ session' = [session EXCEPT !.status = "playing",
                                           !.repeat = IF @ = "once" THEN "off" ELSE @]
             \/ session' = [session EXCEPT !.status = "ended"]
      <4>1. CASE session.stopAfter
        BY <1>5, <2>3, <4>1 DEF Browser!OnEnded
      <4>2. CASE ~session.stopAfter /\ Browser!Repeats
        BY <1>5, <2>3, <4>2 DEF Browser!OnEnded
      <4>3. CASE ~session.stopAfter /\ ~Browser!Repeats
        BY <1>5, <2>3, <4>3 DEF Browser!OnEnded
      <4> QED BY <4>1, <4>2, <4>3
    <3>2. session' \in Sessions /\ session'.source = session.source
      BY <1>0, <3>1 DEF Sessions, Statuses
    <3> QED BY <2>1, <3>1, <3>2, StatusIsHandled
  <2> QED BY <2>2, <2>3
<1> QED BY <1>1, <1>2, <1>3, <1>4, <1>5 DEF Handler

\* Only the end or the trouble of what is live sets a timer.
LEMMA HandlerWakes ==
  ASSUME EngineOK, Handler, ~timers.reconnect.on, ~timers.stall,
         Browser!LiveAgain => \/ Browser!OnPlay \/ Browser!OnPlaying \/ Browser!OnPause
  PROVE  ~timers'.reconnect.on /\ ~timers'.stall
<1>0. timers \in Timers
  BY DEF EngineOK
<1>1. CASE Browser!OnPlay \/ Browser!OnPause
  BY <1>1 DEF Browser!OnPlay, Browser!OnPause
<1>2. CASE Browser!OnPlaying
  BY <1>0, <1>2 DEF Browser!OnPlaying, Timers
<1>3. CASE ~Browser!LiveAgain /\ Browser!OnError
  BY <1>3 DEF Browser!OnError
<1>4. CASE ~Browser!LiveAgain /\ Browser!OnStalled
  BY <1>0, <1>4 DEF Browser!OnStalled, Timers
<1>5. CASE ~Browser!LiveAgain /\ Browser!OnEnded
  BY <1>5 DEF Browser!OnEnded
<1> QED BY <1>1, <1>2, <1>3, <1>4, <1>5 DEF Handler

-----------------------------------------------------------------------------
(* The awaits *)

\* The import is over.  One of an earlier revision is late; one of this revision attaches
\* the source that is shown, and was asked for after the last pause().
LEMMA ImportedKeeps ==
  ASSUME BrowserInv, NEW call \in calls, Browser!Imported(call)
  PROVE  BrowserInv'
<1> USE DEF BrowserInv
<1> DEFINE m == [media EXCEPT !.src = call.source, !.flowing = FALSE, !.failed = FALSE]
           left == calls \ {call}
<1>1. /\ UNCHANGED <<session, revision, hasStarted, attempt, timers, want>>
      /\ slips' = slips \cup {x \in {"late"} : call.revision # revision}
      /\ \/ /\ Browser!Becomes(Browser!MediaPlay(m, tasks, left, settled, call)) /\ running' = running
         \/ /\ media' = m /\ calls' = left /\ running' = FALSE /\ UNCHANGED <<tasks, settled>>
  BY DEF Browser!Imported
<1>2. /\ media \in MediaStates /\ tasks \in Seq(EventTasks) /\ settled \in SUBSET Outcomes
      /\ calls \in SUBSET CallStates /\ \A c \in calls : c.at # "start"
  BY DEF ElementOK
<1>3. call \in CallStates /\ call.source \in Anything /\ call \in KnownCalls
  BY <1>2 DEF CallStates, KnownCalls
<1>4. m \in MediaStates /\ m.src = call.source
  BY <1>2, <1>3 DEF MediaStates
<1>5. left \in SUBSET CallStates /\ (\A c \in left : c.at # "start" /\ c \in KnownCalls)
  BY <1>2 DEF KnownCalls
<1>6. /\ \A d \in settled : d.call \in KnownCalls
      /\ \A i \in DOMAIN tasks : \A c \in tasks[i].calls : c \in KnownCalls
  BY DEF KnownCalls
<1> HIDE DEF m, left
<1>7. /\ ElementOK' /\ media'.src = call.source /\ running' \in BOOLEAN
      /\ \A c \in KnownCalls' :
           c \in KnownCalls \/ (c.revision = call.revision /\ c.source = call.source)
  <2>1. CASE Browser!Becomes(Browser!MediaPlay(m, tasks, left, settled, call)) /\ running' = running
    <3>1. /\ ElementOK' /\ media'.src = m.src
          /\ \A c \in KnownCalls' :
               \/ c.revision = call.revision /\ c.source = call.source
               \/ c \in left \/ (\E d \in settled : c = d.call)
               \/ \E i \in DOMAIN tasks : c \in tasks[i].calls
      BY <1>2, <1>3, <1>4, <1>5, <2>1, MediaPlays
    <3>2. running' \in BOOLEAN
      BY <2>1 DEF EngineOK
    <3> QED BY <1>4, <1>5, <1>6, <3>1, <3>2
  <2>2. CASE media' = m /\ calls' = left /\ running' = FALSE /\ UNCHANGED <<tasks, settled>>
    <3>1. ElementOK'
      BY <1>2, <1>4, <1>5, <2>2 DEF ElementOK
    <3>2. ASSUME NEW c \in KnownCalls' PROVE c \in KnownCalls
      BY <1>5, <1>6, <2>2, <3>2 DEF KnownCalls
    <3>3. running' \in BOOLEAN
      BY <2>2
    <3> QED BY <1>4, <2>2, <3>1, <3>2, <3>3
  <2> QED BY <1>1, <2>1, <2>2
<1>8. EngineOK'
  BY <1>1, <1>7 DEF EngineOK
<1>9. CallsOK'
  <2>1. \A c : IsOfItsTime(c) => IsOfItsTime(c)'
    BY <1>1 DEF IsOfItsTime
  <2>2. IsOfItsTime(call)
    BY <1>3 DEF CallsOK
  <2>3. \A c : c.revision = call.revision /\ c.source = call.source => IsOfItsTime(c)
    BY <2>2 DEF IsOfItsTime
  <2>4. \A c \in KnownCalls' : IsOfItsTime(c)'
    BY <1>7, <2>1, <2>3 DEF CallsOK
  <2> QED BY <1>1, <2>1, <2>4 DEF CallsOK, IsOfItsTime
<1>10. CASE call.revision = revision
  <2>1. call.source = session.source
    BY <1>3, <1>10 DEF CallsOK, IsOfItsTime
  <2>2. Browser!HeardIsShown'
    BY <1>1, <1>7, <2>1 DEF Browser!HeardIsShown
  <2>3. ~IsQuiet
    BY <1>3, <1>10 DEF IsQuiet, EngineOK
  <2>4. QuietOK'
    BY <1>1, <2>3 DEF QuietOK
  <2> QED BY <1>7, <1>8, <1>9, <2>2, <2>4
<1>11. CASE call.revision # revision
  <2>1. "late" \in slips'
    BY <1>1, <1>11
  <2> QED BY <1>7, <1>8, <1>9, <2>1 DEF Browser!HeardIsShown, QuietOK
<1> QED BY <1>10, <1>11

\* The same calls are known when one of them is refused.
LEMMA ImportFailsKeeps ==
  ASSUME BrowserInv, NEW call \in calls, Browser!ImportFails(call)
  PROVE  BrowserInv'
<1> USE DEF BrowserInv
<1>1. /\ calls' = calls \ {call} /\ settled' = {[call |-> call, ok |-> FALSE]}
      /\ UNCHANGED <<session, media, tasks, revision, hasStarted, running, attempt, timers, want, slips>>
  BY DEF Browser!ImportFails
<1>2. call \in CallStates /\ calls \in SUBSET CallStates
  BY DEF ElementOK
<1>3. [call |-> call, ok |-> FALSE] \in Outcomes
  BY <1>2 DEF Outcomes
<1>4. ElementOK'
  BY <1>1, <1>2, <1>3 DEF ElementOK
<1>5. \A c \in KnownCalls' : c \in KnownCalls
  BY <1>1 DEF KnownCalls
<1>6. EngineOK' /\ Browser!HeardIsShown'
  BY <1>1, EngineStays, HeardStays
<1>7. CallsOK'
  BY <1>1, <1>5, SameTime
<1>8. QuietOK'
  BY <1>1, <1>5, StaysQuiet DEF IsQuiet
<1> QED BY <1>4, <1>6, <1>7, <1>8

\* What a step of the engine leaves of the invariant when the element's part is shown.
LEMMA EngineKeeps ==
  ASSUME BrowserInv, ElementOK', IsHandled, hasStarted' \in BOOLEAN, running' \in BOOLEAN,
         revision' = revision, want' = want, slips \subseteq slips',
         media'.src \in {Browser!None, media.src, session.source},
         \A c \in KnownCalls' :
           c \in KnownCalls \/ (c.revision = revision /\ c.source = session.source),
         IsQuiet /\ slips' \cap {"late", "wakes"} = {} /\ want = "pause" =>
           /\ media'.paused /\ ~timers'.reconnect.on /\ ~timers'.stall
           /\ \A c \in KnownCalls' : c \in KnownCalls
  PROVE  BrowserInv'
<1> USE DEF BrowserInv
<1>1. EngineOK'
  BY DEF EngineOK, IsHandled
<1>2. CallsOK'
  BY SameTime DEF IsHandled
<1>3. Browser!HeardIsShown'
  BY DEF Browser!HeardIsShown, IsHandled
<1>4. QuietOK'
  BY StaysQuiet
<1> QED BY <1>1, <1>2, <1>3, <1>4

\* What follows an await: a reconnection of an earlier revision does nothing more.
LEMMA ContinueKeeps ==
  ASSUME MaxDelay \in Nat, BrowserInv, NEW d \in settled, Browser!Continue(d)
  PROVE  BrowserInv'
<1> USE DEF BrowserInv
<1>1. /\ settled' = settled \ {d}
      /\ UNCHANGED <<media, tasks, calls, revision, hasStarted, want, slips>>
      /\ \/ /\ session' = [session EXCEPT !.status = IF d.ok THEN "playing" ELSE "error"]
            /\ UNCHANGED <<running, attempt, timers>>
         \/ /\ running' = FALSE
            /\ \/ Browser!StillWanted(d.call) /\ Browser!Schedule(session)
               \/ UNCHANGED <<session, attempt, timers>>
  BY DEF Browser!Continue
<1>2. ElementOK' /\ \A c \in KnownCalls' : c \in KnownCalls
  BY <1>1 DEF ElementOK, KnownCalls
<1>3. d.call \in KnownCalls
  BY DEF KnownCalls
<1>4. hasStarted' \in BOOLEAN /\ running' \in BOOLEAN
  BY <1>1, Zenon DEF EngineOK
<1>5. CASE UNCHANGED timers
  <2>1. session' \in Sessions /\ session'.source = session.source /\ attempt' \in 0..MaxDelay
    <3>1. CASE session' = [session EXCEPT !.status = IF d.ok THEN "playing" ELSE "error"]
               /\ UNCHANGED attempt
      BY <3>1 DEF EngineOK, Sessions, Statuses
    <3>2. CASE Browser!Schedule(session)
      BY <3>2, Scheduled DEF IsHandled
    <3>3. CASE UNCHANGED <<session, attempt>>
      BY <3>3 DEF EngineOK
    <3> QED BY <1>1, <3>1, <3>2, <3>3
  <2>2. IsHandled
    BY <1>5, <2>1 DEF IsHandled, EngineOK
  <2> QED BY <1>1, <1>2, <1>4, <1>5, <2>2, EngineKeeps DEF IsQuiet
<1>6. CASE Browser!StillWanted(d.call) /\ Browser!Schedule(session)
  <2>1. ~IsQuiet
    BY <1>3, <1>6 DEF IsQuiet, Browser!StillWanted, EngineOK
  <2>2. IsHandled
    BY <1>6, Scheduled
  <2> QED BY <1>1, <1>2, <1>4, <2>1, <2>2, EngineKeeps
<1> QED BY <1>1, <1>5, <1>6

-----------------------------------------------------------------------------
(* The events and the timers *)

\* The events after the next one.
LEMMA EventTaken ==
  ASSUME ElementOK, tasks # << >>
  PROVE  /\ Head(tasks) \in EventTasks /\ Tail(tasks) \in Seq(EventTasks)
         /\ \A c \in Head(tasks).calls : c \in KnownCalls
         /\ \A i \in DOMAIN Tail(tasks) : \A c \in Tail(tasks)[i].calls : c \in KnownCalls
<1>1. tasks \in Seq(EventTasks) /\ Len(tasks) \in Nat /\ Len(tasks) > 0
  BY DEF ElementOK
<1>2. Head(tasks) = tasks[1] /\ 1 \in DOMAIN tasks /\ Tail(tasks) \in Seq(EventTasks)
  BY <1>1
<1>3. ASSUME NEW i \in DOMAIN Tail(tasks) PROVE i + 1 \in DOMAIN tasks /\ Tail(tasks)[i] = tasks[i + 1]
  BY <1>1, <1>3
<1> QED BY <1>2, <1>3, QueuedKnown

LEMMA DispatchKeeps ==
  ASSUME MaxDelay \in Nat, BrowserInv, Browser!Dispatch
  PROVE  BrowserInv'
<1> USE DEF BrowserInv
<1> DEFINE t == Head(tasks)
           again == t.event = "ended" /\ ~Browser!LiveAgain /\ ~session.stopAfter /\ Browser!Repeats
           is(e) == t.event = e
           trouble == t.event \in {"error", "stalled", "ended"}
<1>1. /\ tasks # << >> /\ settled = {}
      /\ CASE t.event = "play" -> Browser!OnPlay
           [] t.event = "playing" -> Browser!OnPlaying
           [] t.event = "pause" -> Browser!OnPause
           [] t.event = "error" -> Browser!OnError
           [] t.event = "stalled" -> Browser!OnStalled
           [] t.event = "ended" -> Browser!OnEnded
      /\ again => Browser!Plays(media, Tail(tasks))
      /\ ~again => /\ tasks' = Tail(tasks) /\ calls' = calls \ t.calls
                   /\ settled' = {[call |-> c, ok |-> t.ok] : c \in t.calls} /\ media' = media
      /\ slips' = IF t.event \in {"error", "stalled", "ended"} THEN slips \cup Browser!Wakes ELSE slips
      /\ UNCHANGED <<revision, running, want>>
  BY DEF Browser!Dispatch
<1>2. /\ t \in EventTasks /\ Tail(tasks) \in Seq(EventTasks) /\ \A c \in t.calls : c \in KnownCalls
      /\ \A i \in DOMAIN Tail(tasks) : \A c \in Tail(tasks)[i].calls : c \in KnownCalls
  BY <1>1, EventTaken
<1> HIDE DEF t
<1>3. /\ Handler
      /\ ~trouble => Browser!OnPlay \/ Browser!OnPlaying \/ Browser!OnPause
  BY <1>1, <1>2 DEF Handler, EventTasks
<1>4. IsHandled /\ hasStarted' \in BOOLEAN /\ running' \in BOOLEAN
  <2>1. running' \in BOOLEAN
    BY <1>1 DEF EngineOK
  <2> QED BY <1>3, <2>1, EventHandled
<1>5. slips \subseteq slips'
  BY <1>1
<1>6. ASSUME IsQuiet, slips' \cap {"late", "wakes"} = {}, want = "pause"
      PROVE  ~timers'.reconnect.on /\ ~timers'.stall /\ ~again
  <2>1. trouble => ~Browser!LiveAgain /\ ~Browser!Repeats
    BY <1>1, <1>6 DEF Browser!Wakes
  <2>2. ~again
    BY <2>1
  <2> QED BY <1>3, <1>6, <2>1, <2>2, HandlerWakes DEF IsQuiet
<1>7. CASE again
  <2>1. /\ ElementOK' /\ media'.src = media.src
        /\ \A c \in KnownCalls' :
             c \in KnownCalls \/ (c.revision = revision /\ c.source = session.source)
    BY <1>1, <1>2, <1>7, PlaysAgain
  <2> HIDE DEF again
  <2> QED BY <1>1, <1>4, <1>5, <1>6, <1>7, <2>1, EngineKeeps
<1>8. CASE ~again
  <2>1. /\ tasks' = Tail(tasks) /\ calls' = calls \ t.calls
        /\ settled' = {[call |-> c, ok |-> t.ok] : c \in t.calls} /\ media' = media
    BY <1>1, <1>8
  <2> HIDE DEF again
  <2>2. t.calls \in SUBSET CallStates /\ t.ok \in BOOLEAN
    BY <1>2 DEF EventTasks
  <2>3. settled' \in SUBSET Outcomes
    BY <2>1, <2>2 DEF Outcomes
  <2>4. ElementOK'
    BY <1>2, <2>1, <2>3 DEF ElementOK
  <2>5. \A c \in calls : c \in KnownCalls
    BY DEF KnownCalls
  <2>6. \A d \in settled' : d.call \in t.calls
    BY <2>1
  <2>7. ASSUME NEW c \in KnownCalls' PROVE c \in KnownCalls
    <3>1. c \in calls' \/ (\E d \in settled' : c = d.call) \/ (\E i \in DOMAIN tasks' : c \in tasks'[i].calls)
      BY <2>7 DEF KnownCalls
    <3> QED BY <1>2, <2>1, <2>5, <2>6, <3>1
  <2> QED BY <1>1, <1>4, <1>5, <1>6, <2>1, <2>4, <2>7, EngineKeeps DEF IsQuiet
<1> QED BY <1>7, <1>8

\* A fatal error of hls.js.
LEMMA HlsFailsKeeps ==
  ASSUME MaxDelay \in Nat, BrowserInv, Browser!HlsFails
  PROVE  BrowserInv'
<1> USE DEF BrowserInv
<1>1. /\ Browser!OnError /\ media' = [media EXCEPT !.failed = TRUE, !.flowing = FALSE]
      /\ slips' = slips \cup {x \in {"deaf"} : running} \cup Browser!Wakes
      /\ UNCHANGED <<tasks, calls, settled, revision, running, want>>
  BY DEF Browser!HlsFails
<1>2. media' \in MediaStates /\ media'.src = media.src /\ media'.paused = media.paused
  BY <1>1 DEF ElementOK, MediaStates
<1>3. ElementOK' /\ KnownCalls' = KnownCalls
  BY <1>1, <1>2 DEF ElementOK, KnownCalls
<1>4. IsHandled /\ hasStarted' \in BOOLEAN /\ running' \in BOOLEAN
  <2>1. running' \in BOOLEAN
    BY <1>1 DEF EngineOK
  <2> QED BY <1>1, <2>1, EventHandled DEF Handler
<1>5. ASSUME IsQuiet, slips' \cap {"late", "wakes"} = {}, want = "pause"
      PROVE  ~timers'.reconnect.on /\ ~timers'.stall
  <2>1. ~Browser!LiveAgain
    BY <1>1, <1>5 DEF Browser!Wakes
  <2> QED BY <1>1, <1>5, <2>1, HandlerWakes DEF IsQuiet, Handler
<1>6. slips \subseteq slips'
  BY <1>1
<1> QED BY <1>1, <1>2, <1>3, <1>4, <1>5, <1>6, EngineKeeps DEF IsQuiet

\* The timers: none of those that start something is set once the listener paused.
LEMMA ReconnectTimerKeeps ==
  ASSUME MaxDelay \in Nat, BrowserInv, Browser!ReconnectTimer
  PROVE  BrowserInv'
<1> USE DEF BrowserInv
<1> DEFINE call == [kind |-> "reconnect", source |-> timers.reconnect.source,
                    revision |-> timers.reconnect.revision, at |-> "start"]
<1>1. /\ timers.reconnect.on /\ timers' = [timers EXCEPT !.reconnect = Browser!NoTimer]
      /\ UNCHANGED <<session, revision, hasStarted, attempt, want, slips>>
      /\ \/ Browser!StillWanted(call) /\ running' = TRUE /\ Browser!SetMediaSource(call)
         \/ UNCHANGED <<media, tasks, calls, settled, running>>
  BY DEF Browser!ReconnectTimer, Browser!element
<1>2. call \in CallStates
  BY DEF EngineOK, Timers, CallStates
<1>3. Browser!StillWanted(call) => call.revision = revision /\ call.source = session.source
  BY DEF Browser!StillWanted
<1>4. timers' \in Timers /\ ~timers'.reconnect.on
  BY <1>1 DEF EngineOK, Timers, Browser!NoTimer, Anything
<1>5. IsHandled
  BY <1>1, <1>4 DEF IsHandled, EngineOK
<1>6. ~IsQuiet /\ hasStarted' \in BOOLEAN /\ running' \in BOOLEAN
  BY <1>1, Zenon DEF IsQuiet, EngineOK
<1> HIDE DEF call
<1>7. CASE Browser!StillWanted(call) /\ running' = TRUE /\ Browser!SetMediaSource(call)
  <2>1. /\ ElementOK' /\ media'.src \in {Browser!None, call.source}
        /\ \A c \in KnownCalls' :
             c \in KnownCalls \/ (c.revision = call.revision /\ c.source = call.source)
    BY <1>2, <1>7, SourceIsSet
  <2> QED BY <1>1, <1>3, <1>5, <1>6, <1>7, <2>1, EngineKeeps
<1>8. CASE UNCHANGED <<media, tasks, calls, settled, running>>
  <2>1. ElementOK' /\ KnownCalls' = KnownCalls
    BY <1>8 DEF ElementOK, KnownCalls
  <2> QED BY <1>1, <1>5, <1>6, <1>8, <2>1, EngineKeeps
<1> QED BY <1>1, <1>7, <1>8

LEMMA OtherTimersKeep ==
  ASSUME MaxDelay \in Nat, BrowserInv, Browser!StallTimer \/ Browser!StabilityTimer
  PROVE  BrowserInv'
<1> USE DEF BrowserInv
<1>1. UNCHANGED <<media, tasks, calls, settled, revision, hasStarted, running, want, slips>>
  BY DEF Browser!StallTimer, Browser!StabilityTimer, Browser!element
<1>2. ElementOK' /\ KnownCalls' = KnownCalls
  BY <1>1 DEF ElementOK, KnownCalls
<1>3. hasStarted' \in BOOLEAN /\ running' \in BOOLEAN
  BY <1>1, Zenon DEF EngineOK
<1>4. CASE Browser!StallTimer
  <2>1. IsHandled
    <3>1. CASE Browser!Schedule(session)
      BY <3>1, Scheduled
    <3>2. CASE timers' = [timers EXCEPT !.stall = FALSE] /\ UNCHANGED <<session, attempt>>
      <4>1. timers' \in Timers /\ timers'.reconnect = timers.reconnect
        BY <3>2 DEF EngineOK, Timers
      <4> QED BY <3>2, <4>1 DEF IsHandled, EngineOK
    <3> QED BY <1>4, <3>1, <3>2 DEF Browser!StallTimer
  <2>2. ~IsQuiet
    BY <1>4 DEF Browser!StallTimer, IsQuiet
  <2> QED BY <1>1, <1>2, <1>3, <2>1, <2>2, EngineKeeps
<1>5. CASE Browser!StabilityTimer
  <2>1. timers' = [timers EXCEPT !.stability = FALSE] /\ attempt' = 0 /\ UNCHANGED session
    BY <1>5 DEF Browser!StabilityTimer
  <2>2. timers' \in Timers /\ timers'.reconnect = timers.reconnect /\ timers'.stall = timers.stall
    BY <2>1 DEF EngineOK, Timers
  <2>3. attempt' \in 0..MaxDelay
    BY <2>1
  <2>4. IsHandled
    BY <2>1, <2>2, <2>3 DEF IsHandled, EngineOK
  <2> QED BY <1>1, <1>2, <1>3, <2>2, <2>4, EngineKeeps DEF IsQuiet
<1> QED BY <1>4, <1>5

-----------------------------------------------------------------------------
LEMMA NextBrowserInv ==
  ASSUME MaxDelay \in Nat, BrowserInv, [Browser!Next]_(Browser!vars)
  PROVE  BrowserInv'
<1>1. CASE UNCHANGED Browser!vars
  <2>1. UNCHANGED <<session, media, tasks, calls, settled, revision, hasStarted, running, attempt,
                    timers, want, slips>>
    BY <1>1 DEF Browser!vars
  <2> QED BY <2>1 DEF BrowserInv, ElementOK, EngineOK, CallsOK, KnownCalls, IsOfItsTime,
                      Browser!HeardIsShown, QuietOK, IsQuiet
<1>2. CASE \E s \in WebSources : Browser!Play(s)
  BY <1>2, PlayKeeps
<1>3. CASE Browser!Resume \/ Browser!Pause \/ Browser!Stop \/ Browser!Settings
  BY <1>3, ResumeKeeps, PauseKeeps, StopKeeps, SettingsKeep
<1>4. CASE \E c \in calls : Browser!Imported(c) \/ Browser!ImportFails(c)
  BY <1>4, ImportedKeeps, ImportFailsKeeps
<1>5. CASE \E d \in settled : Browser!Continue(d)
  BY <1>5, ContinueKeeps
<1>6. CASE Browser!Starts \/ Browser!Ends \/ Browser!Troubled
  BY <1>6, ElementKeeps
<1>7. CASE Browser!HlsFails \/ Browser!Dispatch
  BY <1>7, HlsFailsKeeps, DispatchKeeps
<1>8. CASE Browser!ReconnectTimer \/ Browser!StallTimer \/ Browser!StabilityTimer
  BY <1>8, ReconnectTimerKeeps, OtherTimersKeep
<1> QED BY <1>1, <1>2, <1>3, <1>4, <1>5, <1>6, <1>7, <1>8 DEF Browser!Next

LEMMA BrowserInvShows == MaxDelay \in Nat /\ BrowserInv => Browser!BrowserShowsWhatIsHeard
<1> SUFFICES ASSUME MaxDelay \in Nat, BrowserInv PROVE Browser!BrowserShowsWhatIsHeard
  OBVIOUS
<1> USE DEF BrowserInv
<1>1. session.source \in WebSources \cup {Browser!None} /\ session.status \in Statuses
  BY DEF EngineOK, Sessions, Anything
<1>2. media.src \in WebSources \cup {Browser!None}
  BY DEF ElementOK, MediaStates, Anything
<1>3. \A c \in calls : c.source \in WebSources \cup {Browser!None} /\ c.at \in {"import", "media"}
  BY DEF ElementOK, CallStates, Anything
<1>4. Browser!TypeOK
  BY <1>1, <1>2, <1>3 DEF Browser!TypeOK, EngineOK, Statuses
<1>5. Browser!PauseHolds
  BY DEF Browser!PauseHolds, QuietOK, IsQuiet
<1> QED BY <1>4, <1>5 DEF Browser!BrowserShowsWhatIsHeard

\* TheBrowserShowsWhatIsHeard: whatever plays, pauses, imports of hls.js, reconnections and
\* troubles of the element come between, the element holds nothing but the source that is
\* shown, and what the listener paused or stopped stays silent, but for the slips that
\* BrowserEngine names (BrowserPlaybackEngine.ts).
THEOREM TheBrowserShowsWhatIsHeard ==
  Browser!Spec => [](Browser!BrowserShowsWhatIsHeard /\ BrowserShowsWhatIsHeard)
<1>0. MaxDelay \in Nat
  BY PlayersAssumption DEF Browser!ConstantsOK
<1>1. Browser!Init => BrowserInv
  BY <1>0, BrowserInit
<1>2. BrowserInv /\ [Browser!Next]_(Browser!vars) => BrowserInv'
  BY <1>0, NextBrowserInv
<1>3. BrowserInv => Browser!BrowserShowsWhatIsHeard
  BY <1>0, BrowserInvShows
<1>4. Browser!BrowserShowsWhatIsHeard => BrowserShowsWhatIsHeard
  BY DEF BrowserShowsWhatIsHeard
<1> QED BY <1>1, <1>2, <1>3, <1>4, PTL DEF Browser!Spec
=============================================================================
