----------------------------- MODULE MpvWorker -----------------------------
(***************************************************************************)
(* The thread between the Desktop Client's playback and its mpv process    *)
(* (desktop/core/src/playback.rs, RealMpvProcess and run_mpv_worker).  It  *)
(* takes commands from a channel, writes each to mpv and reads lines until *)
(* the answer with its number comes; the lines in between, and those read  *)
(* while nobody asks, are mpv's events and are published in order.         *)
(* mpv is modelled from how the code uses it.                              *)
(***************************************************************************)
EXTENDS Integers, Sequences, FiniteSets, SequencesExt

CONSTANTS
  MaxCommands,  \* commands sent
  MaxEvents,    \* events mpv sends by itself
  MaxTimeouts,  \* waits that time out
  MaxTorn       \* lines of which a read's timeout takes the first half

VARIABLES
  mpv,          \* "running", "exited" or "reaped"
  deaf,         \* mpv does not react to quit
  file,         \* how many loads mpv has executed
  inbox,        \* requests written to mpv and not yet executed
  lines,        \* lines mpv has written and nobody has read
  channel,      \* requests to the worker
  worker,       \* what the worker is doing
  caller,       \* the command's caller: commands are sent one at a time
  published,    \* the events published since the last boundary, and it
  directory,    \* the private IPC directory exists
  stopping,     \* stop_worker: not yet called, waiting for the worker, done
  core,         \* the Desktop Client runs
  sent, happened, timeouts, torn

vars == <<mpv, deaf, file, inbox, lines, channel, worker, caller, published, directory, stopping,
          core, sent, happened, timeouts, torn>>

Idle == [step |-> "waits", id |-> 0, load |-> FALSE]
NoCaller == [state |-> "idle", id |-> 0, answer |-> 0]
Shutdown == [kind |-> "shutdown", id |-> 0, load |-> FALSE]

\* start: the binary is checked, the directory made and mpv has opened its IPC.
Init ==
  /\ mpv = "running" /\ deaf \in BOOLEAN /\ file = 0 /\ inbox = <<>> /\ lines = <<>>
  /\ channel = <<>> /\ worker = Idle /\ caller = NoCaller
  /\ published = [boundary |-> 0, events |-> {}, exit |-> FALSE]
  /\ directory = TRUE /\ stopping = "no" /\ core = TRUE
  /\ sent = 0 /\ happened = 0 /\ timeouts = 0 /\ torn = 0

----------------------------------------------------------------------------
(* The caller                                                              *)

\* command_with_event_boundary: the request gets its number when the worker
\* takes it, which here is the order of sending.
Send(load) ==
  /\ core /\ stopping = "no" /\ caller.state # "waiting" /\ sent < MaxCommands
  /\ sent' = sent + 1
  /\ IF worker.step = "gone"
     THEN caller' = [NoCaller EXCEPT !.state = "refused"] /\ UNCHANGED channel
     ELSE /\ channel' = Append(channel, [kind |-> "command", id |-> sent + 1, load |-> load])
          /\ caller' = [state |-> "waiting", id |-> sent + 1, answer |-> 0]
  /\ UNCHANGED <<mpv, deaf, file, inbox, lines, worker, published, directory, stopping, core, happened, timeouts, torn>>

\* recv_timeout: the caller gives up, the request stays.
CallerGivesUp ==
  /\ caller.state = "waiting" /\ timeouts < MaxTimeouts
  /\ timeouts' = timeouts + 1
  /\ caller' = [caller EXCEPT !.state = "refused"]
  /\ UNCHANGED <<mpv, deaf, file, inbox, lines, channel, worker, published, directory, stopping, core, sent, happened, torn>>

Answered(id, answer) ==
  caller' = IF caller.state = "waiting" /\ caller.id = id
            THEN [caller EXCEPT !.state = IF answer = 0 THEN "refused" ELSE "answered", !.answer = answer]
            ELSE caller

\* stop_worker
Stop ==
  /\ core /\ stopping = "no" /\ caller.state # "waiting"
  /\ stopping' = "waits"
  /\ channel' = IF worker.step = "gone" THEN channel ELSE Append(channel, Shutdown)
  /\ UNCHANGED <<mpv, deaf, file, inbox, lines, worker, caller, published, directory, core, sent, happened, timeouts, torn>>

\* stop_worker goes on once the worker has ended, and takes the socket's directory with it.
Stopped ==
  /\ core /\ stopping = "waits" /\ worker.step = "gone"
  /\ stopping' = "done"
  /\ directory' = FALSE
  /\ UNCHANGED <<mpv, deaf, file, inbox, lines, channel, worker, caller, published, core, sent, happened, timeouts, torn>>

\* The Desktop Client is killed: its threads and its end of the connection go.
Kill ==
  /\ core
  /\ core' = FALSE
  /\ worker' = [Idle EXCEPT !.step = "gone"]
  /\ caller' = NoCaller
  /\ UNCHANGED <<mpv, deaf, file, inbox, lines, channel, published, directory, stopping, sent, happened, timeouts, torn>>

----------------------------------------------------------------------------
(* mpv                                                                     *)

Line(kind, id) == [kind |-> kind, id |-> id, file |-> file]

\* mpv executes a request and answers it; a load begins the next file.
Execute ==
  /\ mpv = "running" /\ inbox # <<>>
  /\ inbox' = Tail(inbox)
  /\ LET r == inbox[1]
     IN /\ file' = IF r.load THEN file + 1 ELSE file
        /\ lines' = Append(lines, Line("answer", r.id))
  /\ UNCHANGED <<mpv, deaf, channel, worker, caller, published, directory, stopping, core, sent, happened, timeouts, torn>>

Happen ==
  /\ mpv = "running" /\ happened < MaxEvents
  /\ happened' = happened + 1
  /\ lines' = Append(lines, Line("event", 0))
  /\ UNCHANGED <<mpv, deaf, file, inbox, channel, worker, caller, published, directory, stopping, core, sent, timeouts, torn>>

\* mpv ends: by itself, on the quit request, or because its connection closed.
Quits == worker.step = "terminates" /\ ~ deaf
ConnectionClosed == ~ core
Crash ==
  /\ mpv = "running" /\ happened < MaxEvents
  /\ mpv' = "exited" /\ happened' = happened + 1
  /\ UNCHANGED <<deaf, file, inbox, lines, channel, worker, caller, published, directory, stopping, core, sent, timeouts, torn>>

Exit ==
  /\ mpv = "running" /\ (Quits \/ ConnectionClosed)
  /\ mpv' = "exited"
  /\ UNCHANGED <<deaf, file, inbox, lines, channel, worker, caller, published, directory, stopping, core, sent, happened, timeouts, torn>>

----------------------------------------------------------------------------
(* The worker                                                              *)

\* A read takes a whole line; one that times out while half a line has come
\* loses that half, and the rest is no JSON.
Tear ==
  /\ worker.step \in {"waits", "reads"} /\ lines # <<>> /\ torn < MaxTorn /\ lines[1].kind # "torn"
  /\ torn' = torn + 1
  /\ lines' = [lines EXCEPT ![1].kind = "torn"]
  /\ UNCHANGED <<mpv, deaf, file, inbox, channel, worker, caller, published, directory, stopping, core, sent, happened, timeouts>>

\* recv_timeout returned a request: the number is counted up, the request written.
Take ==
  /\ worker.step = "waits" /\ channel # <<>>
  /\ channel' = Tail(channel)
  /\ LET r == channel[1]
     IN IF r.kind = "shutdown"
        THEN worker' = [Idle EXCEPT !.step = "terminates"] /\ UNCHANGED <<inbox, caller>>
        ELSE IF mpv = "running"
        THEN /\ inbox' = Append(inbox, r)
             /\ worker' = [step |-> "reads", id |-> r.id, load |-> r.load]
             /\ UNCHANGED caller
        ELSE /\ Answered(r.id, 0)
             /\ worker' = [Idle EXCEPT !.step = "looks"] /\ UNCHANGED inbox
  /\ UNCHANGED <<mpv, deaf, file, lines, published, directory, stopping, core, sent, happened, timeouts, torn>>

\* read_mpv_message: the answer with the awaited number.
IsAnswer(line) == line.kind = "answer" /\ line.id = worker.id

Published(line) ==
  IF line.kind = "event" THEN [published EXCEPT !.events = @ \cup {line.file}] ELSE published

\* What a line read while a command waits does to the events published; the
\* boundary of a load follows its answer.
AfterLine(line) ==
  IF IsAnswer(line) /\ worker.load
  THEN [boundary |-> line.file, events |-> {}, exit |-> published.exit]
  ELSE Published(line)

\* execute_mpv_command
ReadForCommand ==
  /\ worker.step = "reads" /\ lines # <<>>
  /\ LET line == lines[1]
     IN /\ published' = AfterLine(line)
        /\ IF line.kind = "torn" THEN Answered(worker.id, 0)
           ELSE IF IsAnswer(line) THEN Answered(worker.id, line.id) ELSE UNCHANGED caller
        /\ worker' = IF line.kind = "torn" \/ IsAnswer(line) THEN [Idle EXCEPT !.step = "looks"] ELSE worker
  /\ lines' = Tail(lines)
  /\ UNCHANGED <<mpv, deaf, file, inbox, channel, directory, stopping, core, sent, happened, timeouts, torn>>

\* The connection is closed, or MPV_COMMAND_TIMEOUT is over.
CommandFails ==
  /\ worker.step = "reads"
  /\ \/ mpv = "exited" /\ lines = <<>> /\ UNCHANGED timeouts
     \/ timeouts < MaxTimeouts /\ timeouts' = timeouts + 1
  /\ Answered(worker.id, 0)
  /\ worker' = [Idle EXCEPT !.step = "looks"]
  /\ UNCHANGED <<mpv, deaf, file, inbox, lines, channel, published, directory, stopping, core, sent, happened, torn>>

\* drain_mpv_event, when no request came: an event, an answer nobody waits
\* for, or the end of the connection.
Drain ==
  /\ worker.step = "waits" /\ channel = <<>>
  /\ \/ /\ lines # <<>>
        /\ lines' = Tail(lines)
        /\ published' = IF lines[1].kind = "torn" THEN [published EXCEPT !.exit = TRUE] ELSE Published(lines[1])
     \/ /\ lines = <<>> /\ mpv = "exited" /\ ~ published.exit
        /\ published' = [published EXCEPT !.exit = TRUE] /\ UNCHANGED lines
  /\ worker' = [Idle EXCEPT !.step = "looks"]
  /\ UNCHANGED <<mpv, deaf, file, inbox, channel, caller, directory, stopping, core, sent, happened, timeouts, torn>>

LookQuietly ==
  /\ worker.step = "looks"
  /\ IF mpv = "exited"
     THEN worker' = [Idle EXCEPT !.step = "gone"] /\ mpv' = "reaped" /\ UNCHANGED published
     ELSE worker' = Idle /\ UNCHANGED <<mpv, published>>
  /\ UNCHANGED <<deaf, file, inbox, lines, channel, caller, directory, stopping, core, sent, happened, timeouts, torn>>

\* child.try_wait after each turn: an exit is reported and the worker ends.
Look ==
  /\ worker.step = "looks"
  /\ IF mpv = "exited"
     THEN worker' = [Idle EXCEPT !.step = "gone"] /\ mpv' = "reaped" /\ published' = [published EXCEPT !.exit = TRUE]
     ELSE worker' = Idle /\ UNCHANGED <<mpv, published>>
  /\ UNCHANGED <<deaf, file, inbox, lines, channel, caller, directory, stopping, core, sent, happened, timeouts, torn>>

\* terminate_mpv: an mpv that does not quit in time is killed; it is reaped.
Terminate ==
  /\ worker.step = "terminates" /\ (mpv = "exited" \/ deaf)
  /\ mpv' = "reaped"
  /\ worker' = [Idle EXCEPT !.step = "gone"]
  /\ UNCHANGED <<deaf, file, inbox, lines, channel, caller, published, directory, stopping, core, sent, happened, timeouts, torn>>

\* A worker that has gone drops its end of the channel: nobody is left waiting.
ChannelCloses ==
  /\ worker.step = "gone" /\ caller.state = "waiting"
  /\ caller' = [caller EXCEPT !.state = "refused"]
  /\ UNCHANGED <<mpv, deaf, file, inbox, lines, channel, worker, published, directory, stopping, core, sent, happened, timeouts, torn>>

Next ==
  \/ (\E load \in BOOLEAN : Send(load)) \/ CallerGivesUp \/ Stop \/ Stopped \/ Kill
  \/ Execute \/ Happen \/ Crash \/ Exit
  \/ Tear \/ Take \/ ReadForCommand \/ CommandFails \/ Drain \/ Look \/ Terminate \/ ChannelCloses

\* The threads run, mpv answers what it reads and ends when it is told to or
\* its connection closes.
Fairness ==
  /\ WF_vars(Stopped) /\ WF_vars(Execute) /\ WF_vars(Exit) /\ WF_vars(Take) /\ WF_vars(ReadForCommand)
  /\ WF_vars(mpv = "exited" /\ CommandFails) /\ WF_vars(Drain) /\ WF_vars(Look) /\ WF_vars(Terminate)
  /\ WF_vars(ChannelCloses)

Spec == Init /\ [][Next]_vars /\ Fairness

----------------------------------------------------------------------------
(* Properties                                                              *)

\* Every variable has its type; nobody reads or writes for a worker that has gone.
TypeOK ==
  /\ mpv \in {"running", "exited", "reaped"} /\ file \in 0 .. MaxCommands
  /\ worker.step \in {"waits", "reads", "looks", "terminates", "gone"}
  /\ caller.state \in {"idle", "waiting", "answered", "refused"}
  /\ stopping \in {"no", "waits", "done"}
  /\ published.boundary \in 0 .. MaxCommands
  /\ (stopping = "done" => worker.step = "gone" /\ ~ directory)

\* A caller is told of its own command: an answer that came too late for one
\* command is never taken for the next one's.
AnswerIsItsOwn == caller.state = "answered" => caller.answer = caller.id

\* After the boundary of a load no event of an earlier file is published, so
\* the playback can ignore what it hears before the boundary.
BoundaryParts == \A f \in published.events : f >= published.boundary
=============================================================================
