------------------------------- MODULE Mpris -------------------------------
(***************************************************************************)
(* The Desktop Client on the D-Bus session bus (desktop/core/src/mpris.rs, *)
(* playback_publish.rs and playback_app_actions.rs).  A thread that        *)
(* changes the playback's state publishes it after it let go of the lock,  *)
(* unless it is small progress; a task keeps the view clients read,        *)
(* announces what changed and tells jumps of the position.  A client's     *)
(* command is checked against the view and then run on a thread of its     *)
(* own.  The playback itself is PlaybackSession; here it is what the       *)
(* commands do to it.                                                      *)
(***************************************************************************)
EXTENDS Integers, Sequences, FiniteSets, SequencesExt

CONSTANTS
  Tracks,      \* what may play
  Live,        \* of these, the streams nobody can seek in
  Length,      \* of a Track
  Threshold,   \* SEEK_THRESHOLD_MICROS
  Step,        \* PLAYHEAD_STEP_SECONDS
  MaxChanges,  \* what happens in the Player by itself
  MaxCommands  \* what the client sends

VARIABLES
  player,      \* the playback session
  outgoing,    \* states changed and not yet published, in the order of the changes
  published,   \* the state published last
  late,        \* a state was published after a newer one
  channel,     \* states on their way to the task
  view,        \* what property reads answer
  last,        \* the view announced last
  announcing,  \* the task has a view to announce
  client,      \* what a client that listens to the signals believes
  tasks,       \* commands on threads of their own
  moved,       \* small seeks since the client last knew the position
  changes, commands

vars == <<player, outgoing, published, late, channel, view, last, announcing, client, tasks, moved, changes, commands>>

Nobody == "none"
State(track, status, pos) == [track |-> track, status |-> status, pos |-> pos]
Default == State(Nobody, "stopped", 0)

\* What plays can be another Track, and any progress below a step is small.
ConstantsOK ==
  /\ Nobody \notin Tracks /\ \A t \in Tracks : Tracks \ {t} # {}
  /\ Length \in Nat /\ Threshold \in Nat /\ Step \in Nat \ {0} /\ MaxCommands \in Nat

Init ==
  /\ player = Default /\ outgoing = <<>> /\ published = Default /\ late = FALSE /\ channel = <<>> /\ view = Default /\ last = Default /\ announcing = FALSE
  /\ client = Default /\ tasks = {} /\ moved = 0 /\ changes = 0 /\ commands = 0

CanSeek(v) == v.track # Nobody /\ v.track \notin Live

\* update: the state is changed under the lock and published after it.
Update(p) == player' = p /\ outgoing' = Append(outgoing, p)

\* is_small_progress: nothing but the playhead moved, forward and a little.
SmallProgress(p) ==
  /\ p.track = published.track /\ p.status = published.status
  /\ p.pos - published.pos \in 0 .. Step - 1

\* PlaybackPublisher.publish; threads may overtake each other.
Publish(i) ==
  /\ i \in DOMAIN outgoing
  /\ outgoing' = RemoveAt(outgoing, i)
  /\ late' = (late \/ i # 1)
  /\ IF SmallProgress(outgoing[i]) THEN UNCHANGED <<published, channel>>
     ELSE published' = outgoing[i] /\ channel' = Append(channel, outgoing[i])
  /\ UNCHANGED <<player, view, last, announcing, client, tasks, moved, changes, commands>>

----------------------------------------------------------------------------
(* The task                                                                *)

\* run_server: the view is shared first.
Receive ==
  /\ ~ announcing /\ channel # <<>>
  /\ view' = channel[1] /\ channel' = Tail(channel) /\ announcing' = TRUE
  /\ UNCHANGED <<player, outgoing, published, late, last, client, tasks, moved, changes, commands>>

SeekedForward(v, previous) == v.track = previous.track /\ v.pos - previous.pos > Threshold

\* seeked_since: a Track of its own begins anywhere.
SeekedSince(v, previous) ==
  /\ v.track = previous.track
  /\ IF v.pos > previous.pos THEN v.pos - previous.pos > Threshold ELSE previous.pos - v.pos > Threshold

\* What is announced: changed_properties.  A client that hears of another
\* Track reads the position.
Heard(v, previous) ==
  [track |-> IF v.track # previous.track THEN v.track ELSE client.track,
   status |-> IF v.status # previous.status THEN v.status ELSE client.status,
   pos |-> IF v.track # previous.track \/ SeekedSince(v, previous) THEN v.pos
           ELSE client.pos]

Distance(a, b) == IF a > b THEN a - b ELSE b - a

Announce ==
  /\ announcing
  /\ client' = Heard(view, last)
  /\ moved' = IF view.track # last.track \/ Distance(view.pos, last.pos) > Threshold THEN 0
              ELSE moved + Distance(view.pos, last.pos)
  /\ last' = view /\ announcing' = FALSE
  /\ UNCHANGED <<player, outgoing, published, late, channel, view, tasks, changes, commands>>

----------------------------------------------------------------------------
(* The client's commands                                                   *)

Dispatch(action) ==
  /\ tasks' = tasks \cup {[n |-> commands, action |-> action]}
  /\ commands' = commands + 1
  /\ UNCHANGED <<player, outgoing, published, late, channel, view, last, announcing, client, moved, changes>>

Ignore ==
  /\ commands' = commands + 1
  /\ UNCHANGED <<player, outgoing, published, late, channel, view, last, announcing, client, tasks, moved, changes>>

\* set_position: a position meant for another Track is ignored.
SetPosition(pos) ==
  /\ commands < MaxCommands /\ client.track # Nobody
  /\ IF view.track = client.track /\ CanSeek(view)
     THEN Dispatch([do |-> "seek", pos |-> pos]) ELSE Ignore

\* seek, from the position of the view.
Seek(offset) ==
  /\ commands < MaxCommands
  /\ IF CanSeek(view)
     THEN Dispatch([do |-> "seek", pos |-> IF view.pos + offset < 0 THEN 0 ELSE view.pos + offset])
     ELSE Ignore

\* play, pause, play_pause, stop, next and previous go to the playback as they are.
Tell(do) == commands < MaxCommands /\ Dispatch([do |-> do, pos |-> 0])

----------------------------------------------------------------------------
(* The playback                                                            *)

Sought(pos) ==
  IF player.track = Nobody \/ player.track \in Live THEN player
  ELSE [player EXCEPT !.pos = IF pos > Length THEN Length ELSE pos]

Following(track) == CHOOSE t \in Tracks : t # track

\* dispatch_desktop_playback_action on the playback as it is by then.
Done(action) ==
  IF action.do = "seek" THEN Sought(action.pos)
  ELSE IF player.track = Nobody THEN player
  ELSE CASE action.do = "play" -> [player EXCEPT !.status = "playing"]
         [] action.do = "pause" -> [player EXCEPT !.status = "paused"]
         [] action.do = "stop" -> Default
         [] OTHER -> State(Following(player.track), "playing", 0)

Run(t) ==
  /\ t \in tasks /\ tasks' = tasks \ {t}
  /\ Update(Done(t.action))
  /\ UNCHANGED <<published, late, channel, view, last, announcing, client, moved, changes, commands>>

\* The listener or the Queue changes what plays; the listener seeks.
Change ==
  /\ changes < MaxChanges
  /\ changes' = changes + 1
  /\ \/ \E t \in Tracks \ {player.track}, pos \in 0 .. Length : Update(State(t, "playing", pos))
     \/ \E pos \in 0 .. Length : player.track # Nobody /\ Update(Sought(pos))
     \/ player.track # Nobody /\ \E s \in {"playing", "paused"} : Update([player EXCEPT !.status = s])
  /\ UNCHANGED <<published, late, channel, view, last, announcing, client, tasks, moved, commands>>

Next ==
  \/ (\E i \in DOMAIN outgoing : Publish(i)) \/ Receive \/ Announce
  \/ (\E pos \in 0 .. Length : SetPosition(pos))
  \/ (\E offset \in {-Length, -1, 1} : Seek(offset))
  \/ (\E do \in {"play", "pause", "stop", "next"} : Tell(do))
  \/ (\E t \in tasks : Run(t)) \/ Change

\* The task and the threads run.
Fairness == WF_vars(\E i \in DOMAIN outgoing : Publish(i)) /\ WF_vars(Receive) /\ WF_vars(Announce) /\ WF_vars(\E t \in tasks : Run(t))

Spec == Init /\ [][Next]_vars /\ Fairness

----------------------------------------------------------------------------
(* Properties                                                              *)

\* Every variable has its type.
TypeOK ==
  /\ player.track \in Tracks \cup {Nobody} /\ player.pos \in 0 .. Length
  /\ player.status \in {"stopped", "playing", "paused"}
  /\ announcing \in BOOLEAN
  /\ Cardinality(tasks) <= MaxCommands

Settled == outgoing = <<>> /\ channel = <<>> /\ ~ announcing

\* A client that only listens to the signals knows what plays and whether it
\* plays as soon as nothing is left to publish and to announce, unless two
\* threads published their states in the other order; it is off in the
\* position by no more than small seeks and progress moved it.
SignalsSuffice ==
  Settled /\ ~ late => /\ client.track = player.track /\ client.status = player.status
                       /\ Distance(client.pos, player.pos) <= moved + Step - 1
=============================================================================
