------------------------- MODULE DesktopConnection -------------------------
(***************************************************************************)
(* The Desktop Client's connection to a Music Server: the command that     *)
(* saves a connection, the headers an operator's proxy needs, the playback *)
(* saved by an earlier session, the stream of Queue events and the         *)
(* cancellable requests of the renderer (desktop/core connection.rs,       *)
(* queue_events.rs, playback_restore.rs, lib.rs, and the Electron shell's  *)
(* server-headers.ts).  The commands are tasks of a multi-threaded runtime *)
(* and interleave wherever one of them awaits or takes a lock; the core    *)
(* may be quit or killed between two steps and started again.              *)
(*                                                                         *)
(* Headers are named for the server they were entered for, and a Playback  *)
(* Source for the server it is on.                                         *)
(***************************************************************************)
EXTENDS Naturals, FiniteSets

CONSTANTS
  Servers,      \* Music Servers a listener connects to
  Savers,       \* renderers that may be saving a connection at once
  MaxSaves,     \* connections saved in a behaviour
  MaxFaults,    \* disk, server and player failures, and kills
  MaxStarts,    \* starts of the core
  MaxRequests   \* cancellable renderer requests (0 or 1)

VARIABLES
  disk,         \* server-connection.json: the saved origin
  kept,         \* server-headers.bin: the server its headers are for
  saved,        \* playback-session.json: the server its source is on
  core,         \* "on", "quitting" (its snapshot is written) or "off"
  origin,       \* AppState.origin
  headers,      \* HttpBridge.saved_headers
  playing,      \* the server the Player's source is on
  shell,        \* hand-over of the kept headers: "before", "checking", "done"
  view,         \* the server the renderer's Tracks come from
  save,         \* [Savers -> save_server_connection and the shell's sync]
  feed,         \* run_queue_event_stream
  woken,        \* the watch channel holds a generation the feed has not seen
  request,      \* one desktop_http_request and its cancellation
  sent,         \* <<server, headers>> of every request sent
  saves, faults, starts,
  slip          \* why the Player may hold another server's source, and the
                \* shell's file headers the core does not have

vars == <<disk, kept, saved, core, origin, headers, playing, shell, view, save,
          feed, woken, request, sent, saves, faults, starts, slip>>

None == "none"
NoHeaders == [owner |-> None, value |-> None]
Idle == [at |-> "idle", to |-> None, given |-> "kept"]
NoRequest == [at |-> "idle", token |-> "none", cancel |-> "none", result |-> "none"]
Running == core # "off"

Fault == faults < MaxFaults /\ faults' = faults + 1

Init ==
  /\ disk = None /\ kept = None /\ saved = None
  /\ core = "off" /\ origin = None /\ headers = NoHeaders /\ playing = None
  /\ shell = "before" /\ view = None
  /\ save = [w \in Savers |-> Idle]
  /\ feed = [at |-> "read", of |-> None] /\ woken = FALSE
  /\ request = NoRequest /\ sent = {}
  /\ saves = 0 /\ faults = 0 /\ starts = 0 /\ slip = {}

----------------------------------------------------------------------------
(* Headers                                                                 *)

HeadersFor(s) == IF headers.owner = s THEN headers.value ELSE None

KeepHeadersOf(s) == IF headers.owner \in {None, s} THEN headers ELSE NoHeaders

SyncedBlindly(s, given) == IF given = "new" THEN s ELSE kept

\* ServerHeadersStore.sync: new headers replace, an empty set removes, and
\* without any another server's are removed.
Synced(s, given) ==
  CASE given = "new" -> s
    [] given = "empty" -> None
    [] OTHER -> IF kept = s THEN kept ELSE None

----------------------------------------------------------------------------
(* The saved playback                                                      *)

\* load_saved_playback: a Track the server does not have is cleared; a server
\* that does not answer keeps the session.  No origin, no check.
Restored(s, answers) ==
  IF s # None /\ answers /\ saved # s THEN None ELSE saved

\* The Player holds what was restored; another server's source only because
\* nobody could say that it is not there.
Restore(s, answers) ==
  /\ saved' = Restored(s, answers)
  /\ playing' = saved'
  /\ slip' = IF saved' \in {None, s} THEN slip ELSE slip \cup {"unchecked"}

Start ==
  /\ core = "off" /\ starts < MaxStarts
  /\ starts' = starts + 1
  /\ core' = "on" /\ origin' = disk /\ headers' = NoHeaders
  /\ shell' = "before" /\ view' = None
  /\ feed' = [at |-> "read", of |-> None] /\ woken' = FALSE
  /\ sent' = IF saved # None /\ disk # None
             THEN sent \cup {<<disk, None>>} ELSE sent
  /\ \/ Restore(disk, TRUE) /\ UNCHANGED faults
     \/ Fault /\ Restore(disk, FALSE)
  /\ UNCHANGED <<disk, kept, save, request, saves>>

\* sendSavedHeaders and set_server_headers: headers of another origin are
\* ignored, the first window opens after the answer.
SetServerHeaders ==
  /\ core = "on" /\ shell = "before"
  /\ IF kept # None /\ kept = origin
     THEN /\ headers' = [owner |-> origin, value |-> kept]
          /\ woken' = TRUE
          /\ sent' = IF saved # None THEN sent \cup {<<origin, kept>>} ELSE sent
          /\ shell' = "checking"
          /\ UNCHANGED view
     ELSE /\ shell' = "done" /\ view' = origin
          /\ UNCHANGED <<headers, woken, sent>>
  /\ UNCHANGED <<disk, kept, saved, core, origin, playing, save, feed, request,
                 saves, faults, starts, slip>>

RestoredAgain ==
  /\ core = "on" /\ shell = "checking"
  /\ shell' = "done" /\ view' = origin
  /\ \/ Restore(origin, TRUE) /\ UNCHANGED faults
     \/ Fault /\ Restore(origin, FALSE)
  /\ UNCHANGED <<disk, kept, core, origin, headers, save, feed, woken, request,
                 sent, saves, starts>>

\* The renderer plays one of the Tracks it shows.
Play ==
  /\ core = "on" /\ shell = "done" /\ view # None
  /\ playing' = view
  /\ slip' = IF view = origin THEN slip ELSE slip \cup {"raced"}
  /\ UNCHANGED <<disk, kept, saved, core, origin, headers, shell, view, save,
                 feed, woken, request, sent, saves, faults, starts>>

----------------------------------------------------------------------------
(* save_server_connection, one step between two awaits, locks or writes    *)

At(w, at) == Running /\ save[w].at = at
Goes(w, at) == save' = [save EXCEPT ![w].at = at]
Ends(w) == save' = [save EXCEPT ![w] = Idle]

Save(w, s, given) ==
  /\ core = "on" /\ shell = "done" /\ save[w].at = "idle" /\ saves < MaxSaves
  /\ saves' = saves + 1
  /\ save' = [save EXCEPT ![w] = [at |-> "testing", to |-> s, given |-> given]]
  /\ sent' = sent \cup {<<s, CASE given = "new" -> s
                               [] given = "empty" -> None
                               [] OTHER -> HeadersFor(s)>>}
  /\ UNCHANGED <<disk, kept, saved, core, origin, headers, playing, shell, view,
                 feed, woken, request, faults, starts, slip>>

\* test_server refuses: nothing was changed.
TestFails(w) ==
  /\ At(w, "testing") /\ Fault /\ Ends(w)
  /\ UNCHANGED <<disk, kept, saved, core, origin, headers, playing, shell, view,
                 feed, woken, request, sent, saves, starts, slip>>

StoreFails(w) ==
  /\ At(w, "storing") /\ Fault /\ Ends(w)
  /\ UNCHANGED <<disk, kept, saved, core, origin, headers, playing, shell, view,
                 feed, woken, request, sent, saves, starts, slip>>

TestPasses(w) ==
  /\ At(w, "testing") /\ Goes(w, "storing")
  /\ UNCHANGED <<disk, kept, saved, core, origin, headers, playing, shell, view,
                 feed, woken, request, sent, saves, faults, starts, slip>>

\* ConnectionStore::save: a temporary file renamed over the old one.
Store(w) ==
  /\ At(w, "storing") /\ Goes(w, "headers")
  /\ disk' = save[w].to
  /\ UNCHANGED <<kept, saved, core, origin, headers, playing, shell, view,
                 feed, woken, request, sent, saves, faults, starts, slip>>

SaveHeaders(w) ==
  /\ At(w, "headers") /\ Goes(w, "origin")
  /\ headers' = LET s == save[w].to
                IN  CASE save[w].given = "new" -> [owner |-> s, value |-> s]
                      [] save[w].given = "empty" -> [owner |-> s, value |-> None]
                      [] OTHER -> KeepHeadersOf(s)
  /\ UNCHANGED <<disk, kept, saved, core, origin, playing, shell, view,
                 feed, woken, request, sent, saves, faults, starts, slip>>

ReplaceOrigin(w) ==
  /\ At(w, "origin")
  /\ Goes(w, IF origin = save[w].to THEN "waking" ELSE "forgetting")
  /\ origin' = save[w].to
  /\ UNCHANGED <<disk, kept, saved, core, headers, playing, shell, view,
                 feed, woken, request, sent, saves, faults, starts, slip>>

\* forget_saved_source: a failure is only logged.
Forget(w) ==
  /\ At(w, "forgetting") /\ Goes(w, "stopping")
  /\ \/ saved' = None /\ UNCHANGED faults
     \/ Fault /\ UNCHANGED saved
  /\ UNCHANGED <<disk, kept, core, origin, headers, playing, shell, view,
                 feed, woken, request, sent, saves, starts, slip>>

\* stop_saved_playback: a failure is only logged.
StopPlayback(w) ==
  /\ At(w, "stopping") /\ Goes(w, "waking")
  /\ \/ playing' = None /\ UNCHANGED <<faults, slip>>
     \/ Fault /\ slip' = slip \cup {"stop"} /\ UNCHANGED playing
  /\ UNCHANGED <<disk, kept, saved, core, origin, headers, shell, view,
                 feed, woken, request, sent, saves, starts>>

\* queue_events.reconnect and server-connection-changed.
Wake(w) ==
  /\ At(w, "waking") /\ Goes(w, "answered")
  /\ woken' = TRUE /\ view' = save[w].to
  /\ UNCHANGED <<disk, kept, saved, core, origin, headers, playing, shell,
                 feed, request, sent, saves, faults, starts, slip>>

\* The shell records what the core saved.
Sync(w) ==
  /\ At(w, "answered") /\ Ends(w)
  /\ kept' = Synced(save[w].to, save[w].given)
  /\ UNCHANGED <<disk, saved, core, origin, headers, playing, shell, view,
                 feed, woken, request, sent, saves, faults, starts, slip>>

----------------------------------------------------------------------------
(* run_queue_event_stream                                                  *)

FeedUnchanged == UNCHANGED <<disk, kept, saved, core, origin, headers, playing,
                             shell, view, save, request, saves, starts, slip>>

\* Without an origin it waits for a reconnection.
ReadOrigin ==
  /\ Running /\ feed.at = "read"
  /\ IF origin = None
     THEN woken /\ woken' = FALSE /\ UNCHANGED <<feed, sent>>
     ELSE /\ feed' = [at |-> "testing", of |-> origin]
          /\ sent' = sent \cup {<<origin, HeadersFor(origin)>>}
          /\ UNCHANGED woken
  /\ UNCHANGED faults /\ FeedUnchanged

OpenStream ==
  /\ Running /\ feed.at = "testing"
  /\ feed' = [feed EXCEPT !.at = "opening"]
  /\ sent' = sent \cup {<<feed.of, HeadersFor(feed.of)>>}
  /\ UNCHANGED <<woken, faults>> /\ FeedUnchanged

StreamOpens ==
  /\ Running /\ feed.at = "opening"
  /\ feed' = [feed EXCEPT !.at = "streaming"]
  /\ UNCHANGED <<woken, sent, faults>> /\ FeedUnchanged

\* The test or the stream is refused, or the stream is interrupted.
FeedFails ==
  /\ Running /\ feed.at \in {"testing", "opening", "streaming"} /\ Fault
  /\ feed' = [feed EXCEPT !.at = "waiting"]
  /\ UNCHANGED <<woken, sent>> /\ FeedUnchanged

FeedWoken ==
  /\ Running /\ feed.at = "streaming" /\ woken
  /\ woken' = FALSE
  /\ feed' = [feed EXCEPT !.at = "waiting"]
  /\ UNCHANGED <<sent, faults>> /\ FeedUnchanged

\* wait_to_reconnect: a second passes, or a reconnection is seen.
FeedWaits ==
  /\ Running /\ feed.at = "waiting"
  /\ feed' = [feed EXCEPT !.at = "read"]
  /\ woken' \in {woken, FALSE}
  /\ UNCHANGED <<sent, faults>> /\ FeedUnchanged

----------------------------------------------------------------------------
(* Renderer requests                                                       *)

RequestUnchanged == UNCHANGED <<disk, kept, saved, core, origin, headers, playing,
                                shell, view, save, feed, woken, saves, faults,
                                starts, slip>>

\* The stdin reader: the request is registered before the next line is read.
Register == "live"

ReadRequest ==
  /\ core = "on" /\ shell = "done" /\ request.at = "idle" /\ MaxRequests > 0
  /\ request' = [request EXCEPT !.at = "read", !.token = Register]
  /\ UNCHANGED sent /\ RequestUnchanged

ReadCancel ==
  /\ Running /\ request.at # "idle" /\ request.cancel = "none"
  /\ request' = [request EXCEPT !.cancel = "read"]
  /\ UNCHANGED sent /\ RequestUnchanged

\* HttpRequestCancellations::cancel; a request that has ended has no token.
Cancel ==
  /\ Running /\ request.cancel = "read"
  /\ request' = [request EXCEPT
       !.cancel = IF request.at = "done" THEN "late" ELSE "in time",
       !.token = IF @ = "live" THEN "cancelled" ELSE @]
  /\ UNCHANGED sent /\ RequestUnchanged

Finished(result) == [request EXCEPT !.at = "done", !.token = "none", !.result = result]

\* desktop_http_request reads the origin and begins; the read token is reused.
Send ==
  /\ Running /\ request.at = "read"
  /\ IF origin = None
     THEN request' = Finished("error") /\ UNCHANGED sent
     ELSE /\ request' = [request EXCEPT !.at = "sending",
                           !.token = IF @ = "none" THEN "live" ELSE @]
          /\ sent' = sent \cup {<<origin, HeadersFor(origin)>>}
  /\ RequestUnchanged

\* send_cancellable looks at the cancellation first.
Answer ==
  /\ Running /\ request.at = "sending"
  /\ request' = Finished(IF request.token = "cancelled" THEN "cancelled" ELSE "answered")
  /\ UNCHANGED sent /\ RequestUnchanged

\* The media proxy forwards with the headers of the origin it finds.
Media ==
  /\ Running /\ origin # None /\ playing # None
  /\ sent' = sent \cup {<<origin, HeadersFor(origin)>>}
  /\ UNCHANGED request /\ RequestUnchanged

----------------------------------------------------------------------------
(* The end of the core                                                     *)

\* explicit_quit writes the snapshot; commands in flight run on meanwhile.
Quit ==
  /\ core = "on" /\ starts < MaxStarts
  /\ core' = "quitting" /\ saved' = playing
  /\ UNCHANGED <<disk, kept, origin, headers, playing, shell, view, save, feed,
                 woken, request, sent, saves, faults, starts, slip>>

\* A save that has stored its connection and not reached the shell's file.
IsUnsynced(w) == save[w].at \in {"headers", "origin", "forgetting", "stopping",
                                 "waking", "answered"}

Gone ==
  /\ core' = "off" /\ playing' = None
  /\ save' = [w \in Savers |-> Idle] /\ request' = NoRequest
  /\ slip' = IF \E w \in Savers : IsUnsynced(w) THEN slip \cup {"cut"} ELSE slip
  /\ UNCHANGED <<disk, kept, saved, origin, headers, shell, view, feed, woken,
                 sent, saves, starts>>

Exit == core = "quitting" /\ Gone /\ UNCHANGED faults

Kill == core = "on" /\ starts < MaxStarts /\ Fault /\ Gone

----------------------------------------------------------------------------
SaveSteps ==
  \E w \in Savers :
     \/ \E s \in Servers, given \in {"kept", "new", "empty"} : Save(w, s, given)
     \/ TestFails(w) \/ StoreFails(w) \/ TestPasses(w) \/ Store(w) \/ SaveHeaders(w)
     \/ ReplaceOrigin(w) \/ Forget(w) \/ StopPlayback(w) \/ Wake(w) \/ Sync(w)

FeedSteps == ReadOrigin \/ OpenStream \/ StreamOpens \/ FeedFails \/ FeedWoken \/ FeedWaits

RequestSteps == ReadRequest \/ ReadCancel \/ Cancel \/ Send \/ Answer \/ Media

LifeSteps == Start \/ SetServerHeaders \/ RestoredAgain \/ Play \/ Quit \/ Exit \/ Kill

Next == SaveSteps \/ FeedSteps \/ RequestSteps \/ LifeSteps

\* Every command and the feed run to their next step; the listener need not act.
Fairness ==
  /\ \A w \in Savers : WF_vars(TestPasses(w) \/ Store(w) \/ SaveHeaders(w)
                               \/ ReplaceOrigin(w) \/ Forget(w) \/ StopPlayback(w)
                               \/ Wake(w) \/ Sync(w))
  /\ WF_vars(ReadOrigin \/ OpenStream \/ StreamOpens \/ FeedWoken \/ FeedWaits)
  /\ WF_vars(SetServerHeaders \/ RestoredAgain)
  /\ WF_vars(Exit) /\ WF_vars(Start)

Spec == Init /\ [][Next]_vars /\ Fairness

----------------------------------------------------------------------------
Origins == Servers \cup {None}

\* One renderer saves a connection at a time.
IsSerial == \E w \in Savers : Savers = {w}

TypeOK ==
  /\ {disk, kept, saved, origin, playing, view} \subseteq Origins
  /\ headers \in [owner : Origins, value : Origins]
  /\ core \in {"on", "quitting", "off"} /\ shell \in {"before", "checking", "done"}
  /\ save \in [Savers -> [at : {"idle", "testing", "storing", "headers", "origin",
                                "forgetting", "stopping", "waking", "answered"},
                          to : Origins, given : {"kept", "new", "empty"}]]
  /\ feed \in [at : {"read", "testing", "opening", "streaming", "waiting"},
               of : Origins]
  /\ woken \in BOOLEAN
  /\ request \in [at : {"idle", "read", "sending", "done"},
                  token : {"none", "live", "cancelled"},
                  cancel : {"none", "read", "in time", "late"},
                  result : {"none", "error", "cancelled", "answered"}]
  /\ sent \subseteq Servers \X Origins
  /\ slip \subseteq {"unchecked", "raced", "stop", "cut"}

\* Headers entered for one server are never sent to another, whichever
\* connection is being saved, tested or streamed from meanwhile (connection.rs,
\* "Kept with its origin, so another server never receives them").
HeadersStayHome == \A p \in sent : p[2] \in {None, p[1]}

AtRest == core = "on" /\ shell = "done" /\ \A w \in Savers : save[w].at = "idle"

\* Between saves of one renderer the core, its file and the shell's encrypted
\* file agree: a restart comes back to the same server and loses no headers; and
\* it brings none back that the core has done without, unless the core ended
\* between the two files of an earlier save (server-headers.ts, sync).
RestartFindsTheSame ==
  AtRest => /\ disk = origin
            /\ origin # None /\ HeadersFor(origin) # None => kept = origin
            /\ origin # None /\ kept = origin /\ "cut" \notin slip
                 => HeadersFor(origin) = kept

\* Between saves the Player holds nothing of another server, unless a Track was
\* played from a page the save had not reached, the Player could not be stopped,
\* or an unreachable server could not say that it does not have the Track
\* (lib.rs, stop_saved_playback).
PlayerIsOfTheServer == AtRest /\ slip \subseteq {"cut"} => playing \in {None, origin}

\* A cancellation on a later line reaches its request unless it has ended, and
\* no ended request leaves its token behind (register_http_request).
CancelIsHeard ==
  request.at = "done" =>
    /\ request.token = "none"
    /\ request.cancel = "in time" => request.result \in {"cancelled", "error"}

\* The connection is one, whatever the listener, the servers and the end of the
\* core do to a save on its way through core and shell.
ConnectionIsOne ==
  /\ TypeOK /\ HeadersStayHome /\ PlayerIsOfTheServer /\ CancelIsHeard
  /\ IsSerial => RestartFindsTheSame
=============================================================================
