---------------------------- MODULE BrowserEngine --------------------------
(***************************************************************************)
(* The Player of the browser: BrowserPlaybackEngine over one audio         *)
(* element.  src/web/src/playback/BrowserPlaybackEngine.ts.                *)
(*                                                                         *)
(* The element is external: it queues its events, load() drops them and    *)
(* settles the play() calls that wait, and what a play() call resumes runs *)
(* before the next event.  hls.js is loaded once, with an import that is   *)
(* awaited, and tells a fatal error by a callback.                         *)
(***************************************************************************)
EXTENDS Naturals, Sequences, FiniteSets

CONSTANTS
  Sources,              \* what can be played
  Live,                 \* the Radio Stations and Catalog Previews among them
  Hls,                  \* the ones hls.js plays
  MaxDelay,             \* LIVE_RECONNECT_DELAYS_MS.length
  MaxCommands, MaxTrouble                              \* bounds

VARIABLES
  session,     \* PlaybackSessionState: source, status, stopAfterCurrent, repeatMode
  media,       \* the element: src, paused, flowing (audio is heard), failed
  tasks,       \* its events that are queued, with the play() calls they settle
  calls,       \* play() and reconnectLiveSource() that are at an await
  settled,     \* the ones whose await is over: they run before any event
  factory,     \* hlsFactory is loaded
  revision, hasStarted, running, attempt,    \* sourceRevision, hasStartedLivePlayback, ...
  timers,      \* reconnectTimer (with what it closes over), stallTimer, stabilityTimer
  want,        \* what was asked last: "play" or "pause" (history)
  slips,       \* what the properties make allowance for (history): "late", an import that
               \* ends after something else was asked; "deaf", a fatal error of hls.js while an
               \* attempt runs; "wakes", the end or trouble of what is paused
  counts       \* commands and troubles

vars == <<session, media, tasks, calls, settled, factory, revision, hasStarted, running,
          attempt, timers, want, slips, counts>>
element == <<media, tasks, calls, settled>>

ConstantsOK == MaxDelay \in Nat

None == "none"
Empty == [src |-> None, paused |-> TRUE, flowing |-> FALSE, failed |-> FALSE]
NoTimer == [on |-> FALSE, source |-> None, revision |-> 0]
NoTimers == [reconnect |-> NoTimer, stall |-> FALSE, stability |-> FALSE]
IsLive(s) == s \in Live
Least(a, b) == IF a < b THEN a ELSE b

Waiting == {c \in calls : c.at = "media"}
Taken == UNION {tasks[i].calls : i \in DOMAIN tasks}
Fires(event) == [event |-> event, calls |-> {}, ok |-> TRUE]

-----------------------------------------------------------------------------
(* The element, as the engine uses it: m, queued and waiting are the element, its events *)
(* and the calls that wait for it.                                                       *)

\* play(): a call that waits for audio.  A broken resource refuses it at once.
MediaPlay(m, queued, waiting, done, call) ==
  LET c == [call EXCEPT !.at = "media"]
  IN CASE m.failed -> <<m, queued, waiting, done \cup {[call |-> c, ok |-> FALSE]}>>
       [] ~m.failed /\ m.flowing -> <<m, queued, waiting, done \cup {[call |-> c, ok |-> TRUE]}>>
       [] OTHER -> <<[m EXCEPT !.paused = FALSE],
                     IF m.paused THEN Append(queued, Fires("play")) ELSE queued, waiting \cup {c}, done>>

Becomes(e) == media' = e[1] /\ tasks' = e[2] /\ calls' = e[3] /\ settled' = e[4]

\* pause(): the calls that wait are refused when the event is.
MediaPause ==
  IF media.paused THEN <<media, tasks>>
  ELSE <<[media EXCEPT !.paused = TRUE, !.flowing = FALSE],
         Append(tasks, [event |-> "pause", calls |-> Waiting \ Taken, ok |-> FALSE])>>

\* load(): events are dropped; a call is settled as its event would have, the rest refused.
MediaLoad ==
  settled \cup {[call |-> c, ok |-> \E i \in DOMAIN tasks : c \in tasks[i].calls /\ tasks[i].ok] : c \in Waiting}

\* Audio is heard; the calls that wait are answered with the event.
Starts ==
  /\ media.src # None /\ ~media.paused /\ ~media.flowing /\ ~media.failed
  /\ media' = [media EXCEPT !.flowing = TRUE]
  /\ tasks' = Append(tasks, [event |-> "playing", calls |-> Waiting \ Taken, ok |-> TRUE])
  /\ UNCHANGED <<session, calls, settled, factory, revision, hasStarted, running, attempt, timers, want, slips, counts>>

\* The end of a Track, of an External Track or of a live stream.
Ends ==
  /\ media.flowing /\ counts.trouble < MaxTrouble
  /\ media' = [media EXCEPT !.paused = TRUE, !.flowing = FALSE]
  /\ tasks' = tasks \o <<[event |-> "pause", calls |-> Waiting \ Taken, ok |-> FALSE], Fires("ended")>>
  /\ counts' = [counts EXCEPT !.trouble = @ + 1]
  /\ UNCHANGED <<session, calls, settled, factory, revision, hasStarted, running, attempt, timers, want, slips>>

\* The resource breaks; the buffer runs dry; the browser pauses the element by itself.
Troubled ==
  /\ media.src # None /\ ~media.failed /\ counts.trouble < MaxTrouble
  /\ \/ /\ media.src \notin Hls
        /\ media' = [media EXCEPT !.failed = TRUE, !.flowing = FALSE]
        /\ tasks' = Append(tasks, [event |-> "error", calls |-> Waiting \ Taken, ok |-> FALSE])
     \/ media.flowing /\ media' = [media EXCEPT !.flowing = FALSE] /\ tasks' = Append(tasks, Fires("stalled"))
     \/ media.flowing /\ media' = MediaPause[1] /\ tasks' = MediaPause[2]
  /\ counts' = [counts EXCEPT !.trouble = @ + 1]
  /\ UNCHANGED <<session, calls, settled, factory, revision, hasStarted, running, attempt, timers, want, slips>>

-----------------------------------------------------------------------------
(* The engine. *)

\* The reconnection alone is called off.
CancelReconnectTimer == timers' = [timers EXCEPT !.reconnect = NoTimer] /\ attempt' = 0

CancelLiveReconnect == timers' = NoTimers /\ attempt' = 0

Shows(source, status) == session' = [session EXCEPT !.source = source, !.status = status]

\* setMediaSource and what its caller does next, call: the element is emptied, hls.js is
\* awaited the first time, the source is attached, and play() asked.
SetMediaSource(call) ==
  IF call.source \in Hls /\ ~factory
  THEN /\ media' = Empty /\ tasks' = <<>>
       /\ calls' = (calls \ Waiting) \cup {[call EXCEPT !.at = "import"]} /\ settled' = MediaLoad
  ELSE Becomes(MediaPlay([Empty EXCEPT !.src = call.source], <<>>, calls \ Waiting, MediaLoad, call))

\* play(source).
Play(s) ==
  /\ settled = {} /\ counts.commands < MaxCommands
  /\ CancelLiveReconnect
  /\ revision' = revision + 1 /\ hasStarted' = FALSE
  /\ Shows(s, "paused")
  /\ SetMediaSource([kind |-> "play", source |-> s, revision |-> revision + 1, at |-> "start"])
  /\ want' = "play" /\ counts' = [counts EXCEPT !.commands = @ + 1]
  /\ UNCHANGED <<factory, running, slips>>

\* play() of what is there: also a Track that repeats, and the OS's play.
Plays(m, queued) ==
  Becomes(MediaPlay(m, queued, calls, settled,
                    [kind |-> "play", source |-> session.source, revision |-> revision, at |-> "start"]))

Resume ==
  /\ settled = {} /\ counts.commands < MaxCommands /\ session.source # None
  /\ session.status \notin {"playing", "reconnecting"}
  /\ Plays(media, tasks)
  /\ want' = "play" /\ counts' = [counts EXCEPT !.commands = @ + 1]
  /\ UNCHANGED <<session, factory, revision, hasStarted, running, attempt, timers, slips>>

\* pause(): a reconnection under way sees the new revision.
Pause ==
  /\ settled = {} /\ counts.commands < MaxCommands
  /\ CancelLiveReconnect /\ revision' = revision + 1
  /\ media' = MediaPause[1] /\ tasks' = MediaPause[2]
  /\ session' = IF session.source = None THEN session ELSE [session EXCEPT !.status = "paused"]
  /\ want' = "pause" /\ counts' = [counts EXCEPT !.commands = @ + 1]
  /\ UNCHANGED <<calls, settled, factory, hasStarted, running, slips>>

Stop ==
  /\ settled = {} /\ counts.commands < MaxCommands
  /\ CancelLiveReconnect /\ revision' = revision + 1
  /\ media' = Empty /\ tasks' = <<>> /\ calls' = calls \ Waiting /\ settled' = MediaLoad
  /\ Shows(None, "idle")
  /\ want' = "pause" /\ counts' = [counts EXCEPT !.commands = @ + 1]
  /\ UNCHANGED <<factory, hasStarted, running, slips>>

\* setStopAfterCurrent, cycleRepeatMode.
Settings ==
  /\ settled = {} /\ counts.commands < MaxCommands
  /\ \/ session' = [session EXCEPT !.stopAfter = ~@]
     \/ session' = [session EXCEPT !.repeat = CASE @ = "off" -> "once" [] @ = "once" -> "loop" [] OTHER -> "off"]
  /\ counts' = [counts EXCEPT !.commands = @ + 1]
  /\ UNCHANGED <<element, factory, revision, hasStarted, running, attempt, timers, want, slips>>

\* scheduleLiveReconnect, with the session and the timers it finds.
CanSchedule == ~timers.reconnect.on /\ ~running /\ IsLive(session.source)
Schedule(s) ==
  /\ session' = [s EXCEPT !.status = "reconnecting"]
  /\ attempt' = Least(attempt + 1, MaxDelay)
  /\ timers' = [timers EXCEPT !.reconnect = [on |-> TRUE, source |-> s.source, revision |-> revision],
                              !.stability = FALSE, !.stall = FALSE]

\* A source that was live and running is connected again; anything else has failed.
LiveAgain == IsLive(session.source) /\ hasStarted

\* What a reconnection compares after every await.
StillWanted(call) ==
  /\ revision = call.revision /\ session.source = call.source /\ session.status = "reconnecting"

\* reconnectLiveSource begins when the timer is over, long after the events that are queued.
ReconnectTimer ==
  /\ settled = {} /\ tasks = <<>> /\ timers.reconnect.on
  /\ timers' = [timers EXCEPT !.reconnect = NoTimer]
  /\ LET call == [kind |-> "reconnect", source |-> timers.reconnect.source,
                  revision |-> timers.reconnect.revision, at |-> "start"]
     IN IF StillWanted(call) THEN running' = TRUE /\ SetMediaSource(call) ELSE UNCHANGED <<element, running>>
  /\ UNCHANGED <<session, factory, revision, hasStarted, attempt, want, slips, counts>>

\* The import is over: the source is attached to the element as it is now, then played.
Imported(call) ==
  /\ settled = {} /\ call \in calls /\ call.at = "import"
  /\ factory' = TRUE
  /\ slips' = slips \cup {x \in {"late"} : call.revision # revision}
  /\ LET m == [media EXCEPT !.src = call.source, !.flowing = FALSE, !.failed = FALSE]
     IN \/ /\ call.kind = "play" \/ StillWanted(call)
           /\ Becomes(MediaPlay(m, tasks, calls \ {call}, settled, call))
           /\ UNCHANGED running
        \/ /\ call.kind = "reconnect" /\ ~StillWanted(call)
           /\ media' = m /\ calls' = calls \ {call} /\ running' = FALSE /\ UNCHANGED <<tasks, settled>>
  /\ UNCHANGED <<session, revision, hasStarted, attempt, timers, want, counts>>

ImportFails(call) ==
  /\ settled = {} /\ call \in calls /\ call.at = "import" /\ counts.trouble < MaxTrouble
  /\ calls' = calls \ {call} /\ settled' = {[call |-> call, ok |-> FALSE]}
  /\ counts' = [counts EXCEPT !.trouble = @ + 1]
  /\ UNCHANGED <<session, media, tasks, factory, revision, hasStarted, running, attempt, timers, want, slips>>

\* What follows the await: play() shows the outcome whatever is there by now; a
\* reconnection that failed tries again if it is still wanted.
Continue(d) ==
  /\ d \in settled /\ settled' = settled \ {d}
  /\ \/ /\ d.call.kind = "play"
        /\ session' = [session EXCEPT !.status = IF d.ok THEN "playing" ELSE "error"]
        /\ UNCHANGED <<running, attempt, timers>>
     \/ /\ d.call.kind = "reconnect" /\ running' = FALSE
        /\ IF ~d.ok /\ StillWanted(d.call) /\ ~timers.reconnect.on
           THEN Schedule(session) ELSE UNCHANGED <<session, attempt, timers>>
  /\ UNCHANGED <<media, tasks, calls, factory, revision, hasStarted, want, slips, counts>>

-----------------------------------------------------------------------------
(* The events. *)

\* handlePlay.
OnPlay ==
  /\ session' = IF session.status = "reconnecting" THEN session ELSE [session EXCEPT !.status = "playing"]
  /\ UNCHANGED <<hasStarted, attempt, timers>>

\* handlePlaying: the back-off is forgotten once the stream has been stable.
OnPlaying ==
  /\ hasStarted' = (hasStarted \/ IsLive(session.source))
  /\ session' = [session EXCEPT !.status = "playing"]
  /\ timers' = [timers EXCEPT !.stall = FALSE, !.stability = @ \/ attempt > 0]
  /\ UNCHANGED attempt

OnPause ==
  /\ session' = IF session.status = "ended" THEN session ELSE [session EXCEPT !.status = "paused"]
  /\ UNCHANGED <<hasStarted, attempt, timers>>

\* handleMediaError: the errors of an attempt are the attempt's.
OnError ==
  /\ IF running THEN UNCHANGED <<session, attempt, timers>>
     ELSE IF LiveAgain THEN (IF CanSchedule THEN Schedule(session) ELSE UNCHANGED <<session, attempt, timers>>)
     ELSE session' = [session EXCEPT !.status = "error"] /\ UNCHANGED <<attempt, timers>>
  /\ UNCHANGED hasStarted

OnStalled ==
  /\ timers' = [timers EXCEPT !.stall = @ \/ LiveAgain]
  /\ UNCHANGED <<session, hasStarted, attempt>>

Repeats == session.source \notin Live /\ session.repeat # "off"

\* handleEnded: a live stream is connected again, a sleep timer and a Repeat Mode are
\* used up, or the end is shown.
OnEnded ==
  /\ IF LiveAgain THEN IF CanSchedule THEN Schedule(session) ELSE UNCHANGED <<session, attempt, timers>>
     ELSE /\ session' = CASE session.stopAfter -> [session EXCEPT !.status = "paused", !.stopAfter = FALSE]
                          [] ~session.stopAfter /\ Repeats ->
                               [session EXCEPT !.status = "playing", !.repeat = IF @ = "once" THEN "off" ELSE @]
                          [] OTHER -> [session EXCEPT !.status = "ended"]
          /\ UNCHANGED <<attempt, timers>>
  /\ UNCHANGED hasStarted

Wakes == {x \in {"wakes"} : want = "pause" /\ (LiveAgain \/ Repeats)}

\* The element's next event; the calls it settles run after its handlers.
Dispatch ==
  /\ settled = {} /\ tasks # <<>>
  /\ LET t == Head(tasks)
         again == t.event = "ended" /\ ~LiveAgain /\ ~session.stopAfter /\ Repeats
     IN /\ CASE t.event = "play" -> OnPlay
             [] t.event = "playing" -> OnPlaying
             [] t.event = "pause" -> OnPause
             [] t.event = "error" -> OnError
             [] t.event = "stalled" -> OnStalled
             [] t.event = "ended" -> OnEnded
        /\ IF again THEN Plays(media, Tail(tasks))
           ELSE /\ tasks' = Tail(tasks) /\ calls' = calls \ t.calls
                /\ settled' = {[call |-> c, ok |-> t.ok] : c \in t.calls} /\ UNCHANGED media
  /\ slips' = IF Head(tasks).event \in {"error", "stalled", "ended"} THEN slips \cup Wakes ELSE slips
  /\ UNCHANGED <<factory, revision, running, want, counts>>

\* hls.js tells a fatal error; it leaves the element and its play() as they are.
HlsFails ==
  /\ settled = {} /\ media.src \in Hls /\ ~media.failed /\ counts.trouble < MaxTrouble
  /\ OnError
  /\ media' = [media EXCEPT !.failed = TRUE, !.flowing = FALSE]
  /\ slips' = slips \cup {x \in {"deaf"} : running} \cup Wakes
  /\ counts' = [counts EXCEPT !.trouble = @ + 1]
  /\ UNCHANGED <<tasks, calls, settled, factory, revision, running, want>>

StallTimer ==
  /\ settled = {} /\ tasks = <<>> /\ timers.stall
  /\ IF CanSchedule THEN Schedule(session)
     ELSE timers' = [timers EXCEPT !.stall = FALSE] /\ UNCHANGED <<session, attempt>>
  /\ UNCHANGED <<element, factory, revision, hasStarted, running, want, slips, counts>>

StabilityTimer ==
  /\ settled = {} /\ tasks = <<>> /\ timers.stability
  /\ timers' = [timers EXCEPT !.stability = FALSE] /\ attempt' = 0
  /\ UNCHANGED <<session, element, factory, revision, hasStarted, running, want, slips, counts>>

-----------------------------------------------------------------------------
Init ==
  /\ session = [source |-> None, status |-> "idle", stopAfter |-> FALSE, repeat |-> "off"]
  /\ media = Empty /\ tasks = <<>> /\ calls = {} /\ settled = {} /\ factory = FALSE
  /\ revision = 0 /\ hasStarted = FALSE /\ running = FALSE /\ attempt = 0 /\ timers = NoTimers
  /\ want = "pause" /\ slips = {} /\ counts = [commands |-> 0, trouble |-> 0]

Next ==
  \/ \E s \in Sources : Play(s)
  \/ Resume \/ Pause \/ Stop \/ Settings
  \/ \E c \in calls : Imported(c) \/ ImportFails(c)
  \/ \E d \in settled : Continue(d)
  \/ Starts \/ Ends \/ Troubled \/ HlsFails \/ Dispatch
  \/ ReconnectTimer \/ StallTimer \/ StabilityTimer

Fairness ==
  /\ WF_vars(Dispatch) /\ WF_vars(ReconnectTimer) /\ WF_vars(StallTimer) /\ WF_vars(Starts)
  /\ WF_vars(\E c \in calls : Imported(c)) /\ WF_vars(\E d \in settled : Continue(d))

Spec == Init /\ [][Next]_vars /\ Fairness

-----------------------------------------------------------------------------
\* TypeOK: the state of the engine and of the element.
TypeOK ==
  /\ session.source \in Sources \cup {None} /\ media.src \in Sources \cup {None}
  /\ session.status \in {"idle", "paused", "playing", "reconnecting", "ended", "error"}
  /\ \A c \in calls : c.source \in Sources \cup {None} /\ c.at \in {"import", "media"}
  /\ attempt \in 0..MaxDelay /\ revision \in Nat /\ running \in BOOLEAN

\* HeardIsShown: the element holds nothing but the source that is shown.  (An import of
\* hls.js that ends after another source was chosen attaches the old one: play() does not
\* look at sourceRevision.)
HeardIsShown == "late" \notin slips => media.src \in {None, session.source}

\* PauseHolds: what the listener paused or stopped stays silent until it is asked again; no
\* timer, reconnection or late answer starts it.
PauseHolds == want = "pause" /\ slips \cap {"late", "wakes"} = {} => media.paused

\* BrowserShowsWhatIsHeard: the two together (BrowserPlaybackEngine.ts).
BrowserShowsWhatIsHeard == TypeOK /\ HeardIsShown /\ PauseHolds
=============================================================================
