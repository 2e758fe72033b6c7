-------------------------- MODULE PlaybackSession --------------------------
(***************************************************************************)
(* The Playback Session of the Desktop Client: the controller's commands,  *)
(* each on a thread of its own, the event thread that follows the mpv      *)
(* process, the Playback Queue context it advances along, the reconnection *)
(* of an interrupted live source and the restart of a player that exited   *)
(* (desktop/core/src/playback.rs, playback_navigation.rs,                  *)
(* playback_lifecycle.rs).                                                 *)
(*                                                                         *)
(* The controller has one lock for the session, one for the queue and one  *)
(* for the process, and never holds two of them: every step below is what  *)
(* one of them covers.  Time is left out: a deadline has passed whenever   *)
(* the code may look at it.  Fades, volume, playhead and telemetry change  *)
(* none of this and are left out too.                                      *)
(***************************************************************************)
EXTENDS Integers, Sequences, FiniteSets, SequencesExt

CONSTANTS
    Callers,        \* command threads
    Tracks, Radios, Externals,  \* what can be played
    Contexts,       \* the lists of Tracks the renderer may hand over
    MaxCommands,    \* commands the callers issue
    MaxHappenings,  \* near-ends, ends and failures of files in mpv
    MaxCrashes,     \* exits of the mpv process
    MaxFaults       \* failed commands and expired readiness deadlines

None == "none"
Sources == Tracks \union Radios \union Externals

VARIABLES
    session,    \* [source, status, repeat, stopAfter, isShuffled]
    queue,      \* [sources, order, current]: current is 0 when no item is
    revision,   \* [command, load, published]
    mpv,        \* the process, see NewPlayer
    appended,   \* what the adapter knows to be appended in mpv
    events,     \* the channel from the mpv worker to the event thread
    live,       \* LiveReconnectState
    hasRecovered,  \* has_recovery_attempted
    call,       \* what each command thread is doing
    thread,     \* what the event thread is doing
    left,       \* budgets of the bounds above
    excuse      \* history: why the session may differ from the player

vars == <<session, queue, revision, mpv, appended, events, live, hasRecovered,
          call, thread, left, excuse>>

IsLive(source) == source \in Radios
IsActive(status) == status \in {"playing", "reconnecting"}

NewSession == [source |-> None, status |-> "idle", repeat |-> "off",
               stopAfter |-> FALSE, isShuffled |-> FALSE]
NoCall == [pc |-> "ready", source |-> None, isNew |-> FALSE, load |-> 0,
           sources |-> <<>>, current |-> 0]
AtRest == [pc |-> "receive", source |-> None, appended |-> None, load |-> 0,
           isRepeat |-> FALSE, isStopAfter |-> FALSE, saved |-> <<>>]
NotArmed == [armed |-> None, command |-> 0, accepted |-> 0,
             isDue |-> FALSE, isAwaited |-> FALSE]

(* The process: the file it plays, the entry appended after it, and n, a   *)
(* number for the file that the events carry (the code cannot see it).     *)
NewPlayer == [isAlive |-> TRUE, file |-> None, isPaused |-> FALSE,
              next |-> None, hasStarted |-> FALSE, n |-> 0]

(* mpv's playback of one file after another. *)
Playing(player, file) ==
    [player EXCEPT !.file = file, !.next = None, !.hasStarted = FALSE, !.n = @ + 1]

Event(kind) == [kind |-> kind, n |-> mpv.n, revision |-> 0, flag |-> FALSE]
PauseEvents(from, to) ==
    IF from.isPaused = to.isPaused THEN <<>>
    ELSE <<[Event("paused") EXCEPT !.flag = to.isPaused]>>

(***************************************************************************)
(* The queue context.                                                      *)
(***************************************************************************)
Positions(sources) == 1 .. Len(sources)
InOrder(sources) == [i \in Positions(sources) |-> i]

AlignedTo(q, source) ==
    LET found == {i \in Positions(q.sources) : q.sources[i] = source}
    IN [q EXCEPT !.current =
            IF found = {} THEN 0 ELSE CHOOSE i \in found : \A j \in found : i <= j]

(* Every order shuffle() can leave: the current item first, and not the    *)
(* item after it second.                                                   *)
ShuffledOrders(q) ==
    LET n == Len(q.sources)
        orders == {o \in [Positions(q.sources) -> Positions(q.sources)] :
                      \A i, j \in Positions(q.sources) : o[i] = o[j] => i = j}
    IN IF q.current = 0 THEN orders
       ELSE {o \in orders : /\ o[1] = q.current
                            /\ n > 2 => o[2] # (q.current % n) + 1}

Adjacent(q, step, shouldWrap) ==
    LET n == Len(q.order)
        at == IndexFirstSubSeq(<<q.current>>, q.order)
        to == IF at + step \in 1 .. n THEN at + step
              ELSE IF shouldWrap THEN (IF step = 1 THEN 1 ELSE n) ELSE 0
    IN IF q.current = 0 \/ to = 0 THEN None ELSE q.sources[q.order[to]]

(***************************************************************************)
(* One command to the process (under its lock).  A command fails when the  *)
(* process is gone, is refused, or times out after mpv carried it out.     *)
(***************************************************************************)
Unlocked == thread.pc # "reconnect"

Sent(player, extra, list) ==
    /\ mpv' = player
    /\ events' = events \o extra \o PauseEvents(mpv, player)
    /\ appended' = list

CommandSucceeds(player, boundary, list) ==
    /\ mpv.isAlive
    /\ Sent(player, boundary, list)
    /\ UNCHANGED left

CommandFails(player, list) ==
    /\ \/ /\ ~mpv.isAlive
          /\ appended' = list
          /\ UNCHANGED <<mpv, events, left>>
       \/ /\ mpv.isAlive
          /\ left.faults > 0
          /\ left' = [left EXCEPT !.faults = @ - 1]
          /\ \/ appended' = list /\ UNCHANGED <<mpv, events>>
             \/ Sent(player, <<>>, list)

Loaded(file) == [Playing(mpv, file) EXCEPT !.isPaused = FALSE]
Boundary(r) == <<[Event("boundary") EXCEPT !.revision = r]>>
Stopped == [mpv EXCEPT !.file = None, !.next = None]

(***************************************************************************)
(* Commands.                                                               *)
(***************************************************************************)
Issue(c) ==
    /\ call[c].pc = "ready"
    /\ left.commands > 0
    /\ left' = [left EXCEPT !.commands = @ - 1]

Advanced(r) == [r EXCEPT !.command = @ + 1]

(* play() up to its first command to the process. *)
StartPlay(c, source) ==
    LET next  == IF source # None THEN source ELSE session.source
        isNew == source # None \/ session.status = "ended"
    IN IF next = None
       THEN /\ revision' = Advanced(revision)
            /\ call' = [call EXCEPT ![c] = NoCall]
       ELSE /\ revision' = [Advanced(revision) EXCEPT !.load = IF isNew THEN @ + 1 ELSE @]
            /\ call' = [call EXCEPT ![c] =
                   [NoCall EXCEPT !.pc = "play", !.source = next, !.isNew = isNew,
                                  !.load = revision'.load]]

StartPause(c) ==
    /\ revision' = Advanced(revision)
    /\ call' = [call EXCEPT ![c] =
            [NoCall EXCEPT !.pc = IF session.source = None THEN "ready" ELSE "pause"]]

Play(c) ==
    /\ Issue(c)
    /\ \E source \in Sources \union {None} : StartPlay(c, source)
    /\ UNCHANGED <<session, queue, mpv, appended, events, live, hasRecovered, thread>>

TogglePlay(c) ==
    /\ Issue(c)
    /\ IF IsActive(session.status) THEN StartPause(c) ELSE StartPlay(c, None)
    /\ UNCHANGED <<session, queue, mpv, appended, events, live, hasRecovered, thread>>

Pause(c) ==
    /\ Issue(c)
    /\ StartPause(c)
    /\ UNCHANGED <<session, queue, mpv, appended, events, live, hasRecovered, thread>>

Stop(c) ==
    /\ Issue(c)
    /\ revision' = Advanced(revision)
    /\ call' = [call EXCEPT ![c].pc = "stop"]
    /\ UNCHANGED <<session, queue, mpv, appended, events, live, hasRecovered, thread>>

(* next() and previous(): the neighbour is chosen, then faded out to and   *)
(* played.                                                                 *)
Navigate(c) ==
    /\ Issue(c)
    /\ \E step \in {1, -1} :
          LET source == Adjacent(queue, step, session.repeat = "loop")
          IN /\ source # None
             /\ call' = [call EXCEPT ![c] = [NoCall EXCEPT !.pc = "navigate", !.source = source]]
    /\ UNCHANGED <<session, queue, revision, mpv, appended, events, live, hasRecovered, thread>>

PlayChosen(c) ==
    /\ call[c].pc = "navigate"
    /\ StartPlay(c, call[c].source)
    /\ UNCHANGED <<session, queue, mpv, appended, events, live, hasRecovered, thread, left>>

(* The restore of the saved session, repeated when the headers arrive. *)
RestorePaused(c) ==
    /\ Issue(c)
    /\ \E source \in Tracks :
          /\ revision' = Advanced(revision)
          /\ call' = [call EXCEPT ![c] = [NoCall EXCEPT !.pc = "restore", !.source = source]]
    /\ UNCHANGED <<session, queue, mpv, appended, events, live, hasRecovered, thread>>

(* What a command asks of the process, and what it publishes afterwards.   *)
PlayerAfter(do) ==
    CASE do.pc = "play" -> IF do.isNew THEN Loaded(do.source)
                           ELSE [mpv EXCEPT !.isPaused = FALSE]
      [] do.pc = "pause" -> [mpv EXCEPT !.isPaused = TRUE]
      [] do.pc = "restore" -> [Playing(mpv, do.source) EXCEPT !.isPaused = TRUE]
      [] do.pc = "stop" -> Stopped

AppendedAfter(do) ==
    IF do.pc = "pause" \/ (do.pc = "play" /\ ~do.isNew) THEN appended ELSE None

BoundaryAfter(do) == IF do.pc = "play" /\ do.isNew THEN Boundary(do.load) ELSE <<>>

Done == [play |-> "played", pause |-> "paused", restore |-> "restored", stop |-> "stopped"]

Tell(c) ==
    /\ call[c].pc \in DOMAIN Done
    /\ Unlocked
    /\ \/ /\ CommandSucceeds(PlayerAfter(call[c]), BoundaryAfter(call[c]), AppendedAfter(call[c]))
          /\ call' = [call EXCEPT ![c].pc = Done[@]]
       \/ /\ CommandFails(PlayerAfter(call[c]), AppendedAfter(call[c]))
          /\ call' = [call EXCEPT ![c] = [NoCall EXCEPT !.pc = "fail"]]
    /\ UNCHANGED <<session, queue, revision, live, hasRecovered, thread>>

(* play() publishes the source it read before the load, new or resumed. *)
PublishPlaying(c) ==
    /\ call[c].pc = "played"
    /\ session' = [session EXCEPT !.source = call[c].source, !.status = "playing"]
    /\ call' = [call EXCEPT ![c].pc = "settle"]
    /\ UNCHANGED <<queue, revision, mpv, appended, events, live, hasRecovered, thread, left>>

Settle(c) ==
    /\ call[c].pc = "settle"
    /\ revision' = [revision EXCEPT !.published = IF call[c].isNew THEN call[c].load ELSE @]
    /\ queue' = AlignedTo(queue, call[c].source)
    /\ hasRecovered' = FALSE
    /\ call' = [call EXCEPT ![c] = NoCall]
    /\ UNCHANGED <<session, mpv, appended, events, live, thread, left>>

PublishPaused(c) ==
    /\ call[c].pc = "paused"
    /\ session' = [session EXCEPT !.status = "paused"]
    /\ call' = [call EXCEPT ![c] = NoCall]
    /\ UNCHANGED <<queue, revision, mpv, appended, events, live, hasRecovered, thread, left>>

PublishStopped(c) ==
    /\ call[c].pc = "stopped"
    /\ session' = [session EXCEPT !.source = None, !.status = "idle"]
    /\ call' = [call EXCEPT ![c] = NoCall]
    /\ UNCHANGED <<queue, revision, mpv, appended, events, live, hasRecovered, thread, left>>

PublishRestored(c) ==
    /\ call[c].pc = "restored"
    /\ session' = [session EXCEPT !.source = call[c].source, !.status = "paused"]
    /\ hasRecovered' = FALSE
    /\ call' = [call EXCEPT ![c] = NoCall]
    /\ UNCHANGED <<queue, revision, mpv, appended, events, live, thread, left>>

PublishFailure(c) ==
    /\ call[c].pc = "fail"
    /\ session' = [session EXCEPT !.status = "error"]
    /\ call' = [call EXCEPT ![c] = NoCall]
    /\ UNCHANGED <<queue, revision, mpv, appended, events, live, hasRecovered, thread, left>>

(* sync_queue_context() reads the session, then takes the queue. *)
SyncQueue(c) ==
    /\ Issue(c)
    /\ \E sources \in Contexts : \E current \in 0 .. Len(sources) :
          call' = [call EXCEPT ![c] =
              [NoCall EXCEPT !.pc = "sync", !.sources = sources, !.current = current,
                             !.source = session.source, !.isNew = session.isShuffled]]
    /\ UNCHANGED <<session, queue, revision, mpv, appended, events, live, hasRecovered, thread>>

Reordered(q, isShuffled) ==
    IF isShuffled THEN \E o \in ShuffledOrders(q) : queue' = [q EXCEPT !.order = o]
    ELSE queue' = [q EXCEPT !.order = InOrder(q.sources)]

SetContext(c) ==
    /\ call[c].pc = "sync"
    /\ LET synced == [sources |-> call[c].sources, order |-> InOrder(call[c].sources),
                      current |-> call[c].current]
       IN Reordered(IF call[c].source \in Tracks THEN AlignedTo(synced, call[c].source)
                    ELSE synced, call[c].isNew)
    /\ call' = [call EXCEPT ![c] = NoCall]
    /\ UNCHANGED <<session, revision, mpv, appended, events, live, hasRecovered, thread, left>>

ToggleShuffle(c) ==
    /\ Issue(c)
    /\ session' = [session EXCEPT !.isShuffled = ~@]
    /\ call' = [call EXCEPT ![c] = [NoCall EXCEPT !.pc = "shuffle", !.isNew = ~session.isShuffled]]
    /\ UNCHANGED <<queue, revision, mpv, appended, events, live, hasRecovered, thread>>

Shuffle(c) ==
    /\ call[c].pc = "shuffle"
    /\ Reordered(queue, call[c].isNew)
    /\ call' = [call EXCEPT ![c] = NoCall]
    /\ UNCHANGED <<session, revision, mpv, appended, events, live, hasRecovered, thread, left>>

CycleRepeatMode(c) ==
    /\ Issue(c)
    /\ session' = [session EXCEPT !.repeat =
            CASE @ = "off" -> "once" [] @ = "once" -> "loop" [] @ = "loop" -> "off"]
    /\ UNCHANGED <<queue, revision, mpv, appended, events, live, hasRecovered, call, thread>>

SetStopAfterCurrent(c) ==
    /\ Issue(c)
    /\ session' = [session EXCEPT !.stopAfter = ~@]
    /\ UNCHANGED <<queue, revision, mpv, appended, events, live, hasRecovered, call, thread>>

(***************************************************************************)
(* The event thread: one event, then a look at the reconnection.           *)
(***************************************************************************)
Head1 == Head(events)
Take(kind) ==
    /\ thread.pc = "receive"
    /\ events # <<>>
    /\ Head1.kind = kind
    /\ events' = Tail(events)

(* The look returns at once while nothing is armed. *)
Polling(l) == [AtRest EXCEPT !.pc = IF l.armed = None THEN "receive" ELSE "poll"]

HandleLoadBoundary ==
    /\ Take("boundary")
    /\ live' = IF Head1.revision # revision.load THEN live
               ELSE [(IF live.armed # None /\ live.command # revision.command
                      THEN NotArmed ELSE live) EXCEPT !.accepted = Head1.revision]
    /\ thread' = Polling(live')
    /\ UNCHANGED <<session, queue, revision, mpv, appended, hasRecovered, call, left>>

(* handle_live_stable_event: the load that is heard is the newest one, and *)
(* its command has published its source.                                   *)
IsCurrentLoad == live.accepted = revision.load /\ revision.published = revision.load
IsLiveSession == IsActive(session.status) /\ IsLive(session.source)

ArmedByStability ==
    IF ~IsCurrentLoad THEN live
    ELSE IF ~IsLiveSession THEN NotArmed
    ELSE [armed |-> session.source, command |-> revision.command,
          accepted |-> live.accepted, isDue |-> FALSE, isAwaited |-> FALSE]

StatusByStability ==
    IF IsCurrentLoad /\ IsLiveSession THEN "playing" ELSE session.status

ShouldAppend ==
    /\ session.status = "playing"
    /\ ~session.stopAfter
    /\ session.repeat # "once"
    /\ session.source # None
    /\ ~IsLive(session.source)

(* A playhead or decoder event: the player is stable, and near the end of  *)
(* a Track the next one is chosen for append.                              *)
HandleTime ==
    /\ Take("time")
    /\ live' = ArmedByStability
    /\ session' = [session EXCEPT !.status = StatusByStability]
    /\ LET next == Adjacent(queue, 1, session.repeat = "loop")
       IN thread' = IF Head1.flag /\ ShouldAppend /\ next # None
                    THEN [AtRest EXCEPT !.pc = "append", !.source = next] ELSE Polling(live')
    /\ hasRecovered' = FALSE
    /\ UNCHANGED <<queue, revision, mpv, appended, call, left>>

AppendNext ==
    /\ thread.pc = "append"
    /\ thread' = Polling(live)
    /\ IF appended # None THEN UNCHANGED <<mpv, appended, events, left>>
       ELSE \/ CommandSucceeds([mpv EXCEPT !.next = thread.source], <<>>, thread.source)
            \/ CommandFails([mpv EXCEPT !.next = thread.source], appended)
    /\ UNCHANGED <<session, queue, revision, live, hasRecovered, call>>

HandlePaused ==
    /\ Take("paused")
    /\ session' = IF session.source = None \/ session.status = "ended" THEN session
                  ELSE [session EXCEPT !.status = IF Head1.flag THEN "paused" ELSE "playing"]
    /\ thread' = Polling(live)
    /\ UNCHANGED <<queue, revision, mpv, appended, live, hasRecovered, call, left>>

(* start_live_reconnect: an interruption of the source that was armed. *)
ShouldReconnect ==
    /\ IsLiveSession
    /\ session.source = live.armed
    /\ revision.command = live.command

Scheduled(l) == [l EXCEPT !.isDue = TRUE, !.isAwaited = FALSE]

StartLiveReconnect ==
    /\ Take("ended") \/ Take("error")
    /\ ShouldReconnect
    /\ live' = IF live.isDue THEN live ELSE Scheduled(live)
    /\ session' = [session EXCEPT !.status = "reconnecting"]
    /\ thread' = Polling(live')
    /\ UNCHANGED <<queue, revision, mpv, appended, hasRecovered, call, left>>

HandleMpvError ==
    /\ Take("error")
    /\ ~ShouldReconnect
    /\ session' = [session EXCEPT !.status = "error"]
    /\ thread' = Polling(live)
    /\ UNCHANGED <<queue, revision, mpv, appended, live, hasRecovered, call, left>>

(* handle_ended_event: what the end of the file leads to. *)
AfterTheEnd ==
    LET next == Adjacent(queue, 1, session.repeat = "loop")
        Finish(taken) == [AtRest EXCEPT !.pc = IF taken = None THEN "finish" ELSE "silence",
                                        !.isStopAfter = session.stopAfter]
    IN IF session.stopAfter THEN Finish(appended)
       ELSE IF session.repeat = "once" /\ session.source \notin Externals
       THEN IF session.source = None THEN Finish(None)
            ELSE [AtRest EXCEPT !.pc = "advance", !.source = session.source, !.isRepeat = TRUE]
       ELSE IF next = None THEN Finish(appended)
       ELSE [AtRest EXCEPT !.pc = IF appended = next THEN "publish" ELSE "advance",
                           !.source = next]

HandleEnded ==
    /\ Take("ended")
    /\ ~ShouldReconnect
    /\ thread' = AfterTheEnd
    /\ appended' = None
    /\ UNCHANGED <<session, queue, revision, mpv, live, hasRecovered, call, left>>

(* stop_appended_source: a failure is only reported. *)
StopAppended ==
    /\ thread.pc = "silence"
    /\ CommandSucceeds(Stopped, <<>>, None) \/ CommandFails(Stopped, None)
    /\ thread' = [thread EXCEPT !.pc = "finish"]
    /\ UNCHANGED <<session, queue, revision, live, hasRecovered, call>>

FinishSession ==
    /\ thread.pc = "finish"
    /\ session' = [session EXCEPT !.status = "ended",
                                  !.stopAfter = IF thread.isStopAfter THEN FALSE ELSE @]
    /\ thread' = Polling(live)
    /\ UNCHANGED <<queue, revision, mpv, appended, events, live, hasRecovered, call, left>>

StartAdvancedSource ==
    /\ thread.pc = "advance"
    /\ \/ /\ CommandSucceeds(Loaded(thread.source), <<>>, None)
          /\ thread' = [thread EXCEPT !.pc = "publish"]
       \/ /\ CommandFails(Loaded(thread.source), None)
          /\ thread' = [thread EXCEPT !.pc = "fail"]
    /\ UNCHANGED <<session, queue, revision, live, hasRecovered, call>>

PublishAdvanced ==
    /\ thread.pc = "publish"
    /\ queue' = AlignedTo(queue, thread.source)
    /\ session' = [session EXCEPT !.source = thread.source, !.status = "playing",
                                  !.repeat = IF thread.isRepeat THEN "off" ELSE @]
    /\ thread' = Polling(live)
    /\ UNCHANGED <<revision, mpv, appended, events, live, hasRecovered, call, left>>

PublishAdvanceFailure ==
    /\ thread.pc = "fail"
    /\ session' = [session EXCEPT !.status = "error"]
    /\ thread' = Polling(live)
    /\ UNCHANGED <<queue, revision, mpv, appended, events, live, hasRecovered, call, left>>

(***************************************************************************)
(* Recovery of a player that exited: one restart until it is stable.       *)
(***************************************************************************)
AfterExit == IF hasRecovered THEN "give up" ELSE "restart"

HandleExit ==
    /\ Take("exited")
    /\ hasRecovered' = TRUE
    /\ thread' = [AtRest EXCEPT !.pc = AfterExit, !.saved = session]
    /\ UNCHANGED <<session, queue, revision, mpv, appended, live, call, left>>

(* A new process with the saved source in it, paused unless it played; mpv *)
(* reports the pause it starts with and each change of it.                 *)
RestartPlayer ==
    /\ thread.pc = "restart"
    /\ \/ LET saved == thread.saved
              resumes == IsActive(saved.status) /\ saved.source # None
              Says(flags) == [i \in DOMAIN flags |->
                                 [kind |-> "paused", n |-> mpv.n + 1, revision |-> 0,
                                  flag |-> flags[i]]]
          IN /\ mpv' = [NewPlayer EXCEPT !.file = saved.source, !.isPaused = ~resumes,
                                         !.n = mpv.n + 1]
             /\ events' = Says(IF resumes THEN <<FALSE, TRUE, FALSE>> ELSE <<FALSE, TRUE>>)
             /\ appended' = None
             /\ thread' = [thread EXCEPT !.pc = "republish"]
             /\ UNCHANGED left
       \/ /\ left.faults > 0
          /\ left' = [left EXCEPT !.faults = @ - 1]
          /\ thread' = [thread EXCEPT !.pc = "give up"]
          /\ UNCHANGED <<mpv, events, appended>>
    /\ UNCHANGED <<session, queue, revision, live, hasRecovered, call>>

(* finish_player_restart publishes the saved session, whatever was         *)
(* published meanwhile.                                                    *)
PublishRestarted ==
    /\ thread.pc = "republish"
    /\ LET saved == thread.saved
       IN session' = [saved EXCEPT !.stopAfter = session.stopAfter,
                                   !.status = IF saved.source = None THEN "idle"
                                              ELSE IF IsActive(saved.status) THEN "playing"
                                              ELSE "paused"]
    /\ thread' = Polling(live)
    /\ UNCHANGED <<queue, revision, mpv, appended, events, live, hasRecovered, call, left>>

\* Mutant: the failed recovery is only logged.
GiveUpQuietly ==
    /\ thread.pc = "give up"
    /\ thread' = [AtRest EXCEPT !.pc = "gone"]
    /\ UNCHANGED <<session, queue, revision, mpv, appended, events, live, hasRecovered, call, left>>

(* The worker is gone with its process, so the event thread ends too. *)
GiveUp ==
    /\ thread.pc = "give up"
    /\ session' = [session EXCEPT !.status = "error"]
    /\ thread' = [AtRest EXCEPT !.pc = "gone"]
    /\ UNCHANGED <<queue, revision, mpv, appended, events, live, hasRecovered, call, left>>

(***************************************************************************)
(* poll_live_reconnect, after every event and on every timeout.            *)
(***************************************************************************)
IsCurrentReconnect ==
    /\ session.source = live.armed
    /\ revision.command = live.command
    /\ IsActive(session.status)

(* Nothing to do, or nothing is due yet. *)
PollNothing ==
    /\ thread.pc = "poll"
    /\ thread' = AtRest
    /\ live' = IF IsCurrentReconnect THEN live ELSE NotArmed
    /\ UNCHANGED <<session, queue, revision, mpv, appended, events, hasRecovered, call, left>>

PollsReconnect ==
    /\ thread.pc = "poll" \/ (thread.pc = "receive" /\ events = <<>>)
    /\ live.armed # None
    /\ IsCurrentReconnect
    /\ session.status = "reconnecting"

ReadinessExpires ==
    /\ PollsReconnect
    /\ live.isAwaited
    /\ left.faults > 0
    /\ left' = [left EXCEPT !.faults = @ - 1]
    /\ live' = Scheduled(live)
    /\ thread' = AtRest
    /\ UNCHANGED <<session, queue, revision, mpv, appended, events, hasRecovered, call>>

RunReconnectAttempt ==
    /\ PollsReconnect
    /\ live.isDue
    /\ live' = [live EXCEPT !.isDue = FALSE]
    /\ thread' = [AtRest EXCEPT !.pc = "lock"]
    /\ UNCHANGED <<session, queue, revision, mpv, appended, events, hasRecovered, call, left>>

\* Mutant: the revision is not compared again under the lock.
LockPlayerUnchecked ==
    /\ thread.pc = "lock"
    /\ revision' = [revision EXCEPT !.load = @ + 1]
    /\ thread' = [AtRest EXCEPT !.pc = "reconnect", !.load = revision.load + 1]
    /\ UNCHANGED <<session, queue, mpv, appended, events, live, hasRecovered, call, left>>

(* reconnect_live_source: the revision is compared again under the lock of *)
(* the process, which it then keeps until the load.                        *)
LockPlayer ==
    /\ thread.pc = "lock"
    /\ IF revision.command # live.command
       THEN /\ live' = Scheduled(live)
            /\ thread' = AtRest
            /\ UNCHANGED revision
       ELSE /\ revision' = [revision EXCEPT !.load = @ + 1]
            /\ thread' = [AtRest EXCEPT !.pc = "reconnect", !.load = revision.load + 1]
            /\ UNCHANGED live
    /\ UNCHANGED <<session, queue, mpv, appended, events, hasRecovered, call, left>>

ReconnectLoad ==
    /\ thread.pc = "reconnect"
    /\ thread' = AtRest
    /\ \/ /\ CommandSucceeds(Loaded(live.armed), Boundary(thread.load), None)
          /\ revision' = [revision EXCEPT !.published = thread.load]
          /\ live' = [live EXCEPT !.isAwaited = TRUE]
       \/ /\ CommandFails(Loaded(live.armed), None)
          /\ live' = Scheduled(live)
          /\ UNCHANGED revision
    /\ UNCHANGED <<session, queue, hasRecovered, call>>

(***************************************************************************)
(* mpv on its own (external).                                              *)
(***************************************************************************)
Happens(n) == left.happenings >= n /\ left' = [left EXCEPT !.happenings = @ - n]

MpvStarts ==
    /\ mpv.isAlive /\ mpv.file # None /\ ~mpv.hasStarted
    /\ mpv' = [mpv EXCEPT !.hasStarted = TRUE]
    /\ events' = Append(events, Event("time"))
    /\ UNCHANGED <<session, queue, revision, appended, live, hasRecovered, call, thread, left>>

MpvNearsEnd ==
    /\ mpv.isAlive /\ mpv.file # None /\ mpv.hasStarted /\ ~mpv.isPaused
    /\ Happens(1)
    /\ events' = Append(events, [Event("time") EXCEPT !.flag = TRUE])
    /\ UNCHANGED <<session, queue, revision, mpv, appended, live, hasRecovered, call, thread>>

(* The end of a file, or its failure: mpv goes on with the entry appended  *)
(* after it.                                                               *)
FileOver(kind) ==
    /\ mpv.isAlive /\ mpv.file # None
    /\ Happens(1)
    /\ mpv' = IF mpv.next = None THEN [mpv EXCEPT !.file = None] ELSE Playing(mpv, mpv.next)
    /\ events' = Append(events, [Event(kind) EXCEPT !.n = mpv'.n])
    /\ UNCHANGED <<session, queue, revision, appended, live, hasRecovered, call, thread>>

MpvEnds == mpv.hasStarted /\ ~mpv.isPaused /\ FileOver("ended")
MpvFails == FileOver("error")

MpvExits ==
    /\ mpv.isAlive
    /\ left.crashes > 0
    /\ left' = [left EXCEPT !.crashes = @ - 1]
    /\ mpv' = [mpv EXCEPT !.isAlive = FALSE, !.file = None, !.next = None]
    /\ events' = Append(events, Event("exited"))
    /\ UNCHANGED <<session, queue, revision, appended, live, hasRecovered, call, thread>>

(***************************************************************************)
(* The specification.                                                      *)
(***************************************************************************)
Init ==
    /\ queue \in {[sources |-> s, order |-> InOrder(s), current |-> 0] : s \in Contexts}
    /\ session = NewSession
    /\ revision = [command |-> 0, load |-> 0, published |-> 0]
    /\ mpv = NewPlayer
    /\ appended = None
    /\ events = <<>>
    /\ live = NotArmed
    /\ hasRecovered = FALSE
    /\ call = [c \in Callers |-> NoCall]
    /\ thread = AtRest
    /\ left = [commands |-> MaxCommands, happenings |-> MaxHappenings,
               crashes |-> MaxCrashes, faults |-> MaxFaults]
    /\ excuse = FALSE

Command(c) ==
    \/ Play(c) \/ TogglePlay(c) \/ Pause(c) \/ Stop(c) \/ Navigate(c) \/ RestorePaused(c)
    \/ SyncQueue(c) \/ ToggleShuffle(c) \/ CycleRepeatMode(c) \/ SetStopAfterCurrent(c)

Continue(c) ==
    \/ PlayChosen(c) \/ Tell(c) \/ PublishPlaying(c) \/ Settle(c) \/ PublishPaused(c)
    \/ PublishStopped(c) \/ PublishRestored(c) \/ PublishFailure(c)
    \/ SetContext(c) \/ Shuffle(c)

EventThread ==
    \/ HandleLoadBoundary \/ HandleTime \/ AppendNext \/ HandlePaused
    \/ StartLiveReconnect \/ HandleMpvError \/ HandleEnded \/ StopAppended
    \/ FinishSession \/ StartAdvancedSource \/ PublishAdvanced \/ PublishAdvanceFailure
    \/ HandleExit \/ RestartPlayer \/ PublishRestarted \/ GiveUp
    \/ PollNothing \/ RunReconnectAttempt \/ LockPlayer \/ ReconnectLoad

Player == MpvStarts \/ MpvNearsEnd \/ MpvEnds \/ MpvFails \/ MpvExits

(* Two operations of several steps are under way at once, other than a     *)
(* reconnection, which gives way.                                          *)
Overlap ==
    LET busy == Cardinality({c \in Callers : call[c].pc # "ready"})
    IN busy > 1 \/ (busy = 1 /\ thread.pc \in
                      {"append", "silence", "finish", "advance", "publish", "fail",
                       "restart", "republish", "give up"})

(* The end or the failure of a file is taken late, when the file is no     *)
(* longer the player's, or early, before the command that loaded it has    *)
(* published it.                                                           *)
TakesOutOfTurn ==
    /\ thread.pc = "receive" /\ Len(events') < Len(events)
    /\ Head1.kind \in {"ended", "error"}
    /\ Head1.n # mpv.n \/ \E c \in Callers : call[c].pc # "ready"

ResumesNothing ==
    \E c \in Callers : /\ call[c].pc = "play" /\ ~call[c].isNew /\ mpv.file = None
                       /\ call'[c].pc = "played"

(* The next Track reaches an mpv that has gone idle, which keeps it and    *)
(* does not play it.                                                       *)
AppendsTooLate == mpv.file = None /\ mpv'.next # mpv.next /\ mpv'.next # None

(* The file fails when another is appended: mpv plays that one, and the    *)
(* session shows the error.                                                *)
FailsOver == /\ Len(events') > Len(events)
             /\ Last(events').kind = "error"
             /\ mpv'.file # None

(* A command that is taken for failed was carried out or made the adapter  *)
(* forget the appended Track, or a load or stop of the event thread failed *)
(* while mpv plays on; a reconnection tries again.                         *)
FailsHalfway ==
    /\ left'.faults < left.faults
    /\ \/ thread.pc \in {"append", "silence", "advance"}
       \/ /\ \E c \in Callers : call'[c] # call[c]
          /\ mpv' # mpv \/ appended' # appended

Step == (\E c \in Callers : Command(c) \/ Continue(c)) \/ EventThread \/ ReadinessExpires \/ Player

Excusing ==
    excuse' = (\/ excuse \/ Overlap' \/ TakesOutOfTurn \/ ResumesNothing
               \/ AppendsTooLate \/ FailsOver \/ FailsHalfway)

Next == Step /\ Excusing

(* A command that has begun goes on, the event thread receives, and mpv    *)
(* reports the first stable moment of a file it plays.                     *)
Fairness ==
    /\ \A c \in Callers : WF_vars(Continue(c) /\ Excusing)
    /\ WF_vars(EventThread /\ Excusing)
    /\ WF_vars(MpvStarts /\ Excusing)

Spec == Init /\ [][Next]_vars /\ Fairness

(***************************************************************************)
(* Properties.                                                             *)
(***************************************************************************)
Pcs == {"ready", "fail", "settle", "navigate", "sync", "shuffle"}
         \union DOMAIN Done \union {Done[a] : a \in DOMAIN Done}

(* The session, queue context, revisions, player, channel, reconnect state *)
(* and threads have their shapes, and the queue's order is a permutation   *)
(* of its positions whatever was shuffled, synced or aligned.              *)
TypeOK ==
    /\ session \in [source : Sources \union {None}, repeat : {"off", "once", "loop"},
                    status : {"idle", "playing", "reconnecting", "paused", "ended", "error"},
                    stopAfter : BOOLEAN, isShuffled : BOOLEAN]
    /\ queue.sources \in Contexts
    /\ queue.current \in 0 .. Len(queue.sources)
    /\ DOMAIN queue.order = Positions(queue.sources)
    /\ Range(queue.order) = Positions(queue.sources)
    /\ revision \in [command : Nat, load : Nat, published : Nat]
    /\ mpv.file \in Sources \union {None} /\ mpv.next \in Sources \union {None}
    /\ appended \in Tracks \union {None}
    /\ live.armed \in Radios \union {None}
    /\ \A c \in Callers : call[c].pc \in Pcs
    /\ hasRecovered \in BOOLEAN /\ excuse \in BOOLEAN

(* No event is waiting and no thread is in the middle of something. *)
Quiet ==
    /\ events = <<>>
    /\ \A c \in Callers : call[c].pc = "ready"
    /\ thread.pc \in {"receive", "gone"}

Agrees ==
    CASE session.status = "playing" -> mpv.file = session.source /\ ~mpv.isPaused
      [] session.status = "paused" ->
             mpv.file = None \/ (mpv.file = session.source /\ mpv.isPaused)
      [] session.status \in {"idle", "ended"} -> mpv.file = None
      [] session.status = "reconnecting" ->
             live.armed = session.source /\ (live.isDue \/ live.isAwaited)
      [] session.status = "error" -> TRUE

(* Once commands and events are dealt with, the published Playback Session *)
(* is what mpv does: what it shows as playing is loaded and not paused,    *)
(* what it shows as stopped or ended is silent, and a reconnecting source  *)
(* has its next attempt ahead.  The exemptions are the excuses above, in   *)
(* which the code really does leave the two apart.                         *)
ShowsWhatPlays == Quiet /\ ~excuse => Agrees

(* While a Track plays, and once it ended, the queue context stands on it  *)
(* if it has it, so next() and the automatic advance go on from there.     *)
QueueFollowsSession ==
    Quiet /\ ~excuse /\ session.source \in Tracks /\ session.status \in {"playing", "ended"} =>
        queue.current = AlignedTo(queue, session.source).current
=============================================================================
