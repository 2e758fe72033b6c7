---------------------------- MODULE PlayerChoices --------------------------
(***************************************************************************)
(* What the listener chooses to play and what follows it: PlaybackProvider *)
(* over an engine that leaves the Queue to it (the browser's).             *)
(* src/packages/ui/src/playback/PlaybackProvider.tsx.                      *)
(*                                                                         *)
(* A Queue item is its id; ids are not used again.  Radio and External     *)
(* stand for any other source.  The Queue is QueueSync's: here it changes  *)
(* when a write is answered and when another client changes it.            *)
(***************************************************************************)
EXTENDS Integers, Sequences, FiniteSets

CONSTANTS
  Countdown,                        \* autoSkipOnErrorSeconds
  MaxChoices, MaxChanges, MaxItems, MaxFailures     \* bounds

VARIABLES
  queue,      \* the personal Queue, as this client shows it
  session,    \* source and status of the engine, its stop-after-current
  current,    \* currentQueueItemIdRef
  place,      \* currentQueueIndexRef, counted from 1; 0 is null
  intent,     \* playbackIntentRef
  calls,      \* choices that wait for the Music Server
  failure,    \* diagnosedTrackId, errorCause, countdownSeconds
  room,       \* a Room is on
  newest,     \* the number of the last choice, and of the one that plays (history)
  behind,     \* the items that were before the current one in the Queue (history)
  slips,      \* what the properties make allowance for (history): "overtaken", a Queue write
              \* that ends after a newer choice; "advanced", the Queue moves on by itself while
              \* an External Track is resolved; "shifted", items before the place of a current
              \* item that was removed go as well
  counts      \* choices, Queue changes, items and failures

vars == <<queue, session, current, place, intent, calls, failure, room, newest, behind, slips, counts>>

None == 0
Radio == -1
External == -2
NoFailure == [item |-> 0, cause |-> "none", countdown |-> -1]
Others == {None, Radio, External}
InQueue(q) == {q[i] : i \in DOMAIN q}
IndexOf(q, item) == IF item \in InQueue(q) THEN CHOOSE i \in DOMAIN q : q[i] = item ELSE 0
Without(q, item) == SelectSeq(q, LAMBDA x : x # item)

-----------------------------------------------------------------------------
(* What the engine shows, and the effects that follow a render. *)

IsTrack(s) == s.source \notin Others

\* A Track that failed is explained, and skipped after a countdown: not during a Room.
Diagnosed(s, f) ==
  IF IsTrack(s) /\ s.status = "error"
  THEN IF f.item = s.source THEN f
       ELSE [item |-> s.source, cause |-> "none", countdown |-> IF Countdown > 0 /\ ~room THEN Countdown ELSE -1]
  ELSE NoFailure

\* The place of the item that plays, while the Queue has it.
Placed(q, item, p) == IF IndexOf(q, item) > 0 THEN IndexOf(q, item) ELSE p

\* The engine plays something; whatever it is, n is the choice it belongs to.
Shows(source, n) ==
  /\ session' = [session EXCEPT !.source = source, !.status = "playing"]
  /\ failure' = NoFailure
  /\ newest' = [chosen |-> IF n > newest.chosen THEN n ELSE newest.chosen, playing |-> n]

\* playQueueItemInternal, of an item of q.
PlayItem(q, item, n) ==
  /\ intent' = intent + 1
  /\ current' = item /\ place' = IndexOf(q, item)
  /\ behind' = {q[i] : i \in 1..IndexOf(q, item)}
  /\ Shows(item, n)

\* engine.stop().
StopEngine ==
  /\ session' = [session EXCEPT !.source = None, !.status = "idle"] /\ failure' = NoFailure

Chooses ==
  /\ ~room /\ counts.choices < MaxChoices
  /\ counts' = [counts EXCEPT !.choices = @ + 1]

Newer == newest.chosen + 1

-----------------------------------------------------------------------------
(* Choices. *)

\* playTrack: of an item that is there, or once the Queue is written.
PlayThere ==
  \E item \in InQueue(queue) :
    /\ Chooses /\ PlayItem(queue, item, Newer)
    /\ UNCHANGED <<queue, calls, room, slips>>

PlayTrack(write) ==
  /\ Chooses
  /\ intent' = intent + 1
  /\ calls' = calls \cup {[kind |-> write, intent |-> intent + 1, choice |-> Newer]}
  /\ newest' = [newest EXCEPT !.chosen = Newer]
  /\ UNCHANGED <<queue, session, current, place, failure, room, behind, slips>>

\* replaceQueue or appendQueueItem has answered: the item is played whatever came since.
QueueWritten(c) ==
  /\ c \in calls /\ c.kind \in {"replace", "append"} /\ counts.items + 2 <= MaxItems
  /\ calls' = calls \ {c}
  /\ LET new == IF c.kind = "replace" THEN <<counts.items + 1, counts.items + 2>> ELSE <<counts.items + 1>>
         q == IF c.kind = "replace" THEN new ELSE queue \o new
     IN queue' = q /\ PlayItem(q, new[1], c.choice)
  /\ counts' = [counts EXCEPT !.items = @ + 2]
  /\ slips' = slips \cup {x \in {"overtaken"} : c.choice # newest.chosen \/ room}
  /\ UNCHANGED room

\* A conflict or an error: the choice is over.
QueueRefused(c) ==
  /\ c \in calls /\ c.kind \in {"replace", "append"} /\ counts.failures < MaxFailures
  /\ calls' = calls \ {c}
  /\ newest' = IF c.choice = newest.chosen THEN [newest EXCEPT !.playing = newest.chosen] ELSE newest
  /\ counts' = [counts EXCEPT !.failures = @ + 1]
  /\ UNCHANGED <<queue, session, current, place, intent, failure, room, behind, slips>>

\* playRadioStation, playRadioCatalogPreview.
PlayRadio ==
  /\ Chooses /\ intent' = intent + 1 /\ Shows(Radio, Newer)
  /\ UNCHANGED <<queue, current, place, calls, room, behind, slips>>

\* playExternalTrack: it plays only if nothing was chosen while it was resolved.
PlayExternal ==
  /\ Chooses /\ intent' = intent + 1
  /\ calls' = calls \cup {[kind |-> "external", intent |-> intent + 1, choice |-> Newer]}
  /\ newest' = [newest EXCEPT !.chosen = Newer]
  /\ UNCHANGED <<queue, session, current, place, failure, room, behind, slips>>

\* Whatever was resolved is played.
StillChosenAlways(c) == TRUE

StillChosen(c) == intent = c.intent

Resolved(c) ==
  /\ c \in calls /\ c.kind = "external"
  /\ calls' = calls \ {c}
  /\ \/ StillChosen(c) /\ Shows(External, c.choice) /\ UNCHANGED counts
     \/ ~StillChosen(c) /\ UNCHANGED <<session, failure, newest, counts>>
     \/ /\ counts.failures < MaxFailures /\ counts' = [counts EXCEPT !.failures = @ + 1]
        /\ newest' = IF c.choice = newest.chosen THEN [newest EXCEPT !.playing = newest.chosen] ELSE newest
        /\ UNCHANGED <<session, failure>>
  /\ UNCHANGED <<queue, current, place, intent, room, behind, slips>>

\* stopPlayback.
Stop ==
  /\ Chooses /\ intent' = intent + 1 /\ StopEngine
  /\ newest' = [chosen |-> Newer, playing |-> Newer]
  /\ UNCHANGED <<queue, current, place, calls, room, behind, slips>>

\* navigateNext, navigatePrevious through the engine's navigation events.
Navigate(offset) ==
  /\ Chooses
  /\ LET at == IndexOf(queue, current)
     IN IF at > 0 /\ at + offset \in DOMAIN queue
        THEN PlayItem(queue, queue[at + offset], Newer)
        ELSE /\ intent' = intent + 1 /\ newest' = [chosen |-> Newer, playing |-> Newer]
             /\ UNCHANGED <<session, current, place, failure, behind>>
  /\ UNCHANGED <<queue, calls, room, slips>>

\* setStopAfterCurrent of the sleep timer.
SleepAfterTrack ==
  /\ ~room /\ counts.choices < MaxChoices /\ counts' = [counts EXCEPT !.choices = @ + 1]
  /\ session' = [session EXCEPT !.stopAfter = ~@]
  /\ UNCHANGED <<queue, current, place, intent, calls, failure, room, newest, behind, slips>>

-----------------------------------------------------------------------------
(* What happens by itself. *)

\* The place after the current item; when it is gone, the place it had.
NextPlace ==
  LET at == IndexOf(queue, current) IN IF at > 0 THEN at + 1 ELSE IF place > 0 THEN place ELSE 1

\* advanceToNextQueueItem.
Advance ==
  IF NextPlace \in DOMAIN queue
  THEN /\ PlayItem(queue, queue[NextPlace], newest.playing)
       /\ slips' = slips \cup {x \in {"advanced"} : \E c \in calls : c.kind = "external"}
  ELSE StopEngine /\ UNCHANGED <<current, place, intent, behind, newest, slips>>

\* The end of what plays: a Track is followed by the Queue, anything else stops there.
Ends ==
  /\ session.status = "playing" /\ session.source # Radio /\ ~room
  /\ CASE IsTrack(session) /\ session.stopAfter ->
            /\ session' = [session EXCEPT !.status = "paused", !.stopAfter = FALSE]
            /\ UNCHANGED <<current, place, intent, failure, newest, behind, slips>>
       [] IsTrack(session) /\ ~session.stopAfter -> Advance
       [] OTHER -> /\ session' = [session EXCEPT !.status = "ended"]
                   /\ UNCHANGED <<current, place, intent, failure, newest, behind, slips>>
  /\ UNCHANGED <<queue, calls, room, counts>>

Fails ==
  /\ session.status = "playing" /\ counts.failures < MaxFailures
  /\ counts' = [counts EXCEPT !.failures = @ + 1]
  /\ session' = [session EXCEPT !.status = "error"]
  /\ failure' = Diagnosed([session EXCEPT !.status = "error"], failure)
  /\ UNCHANGED <<queue, current, place, intent, calls, room, newest, behind, slips>>

\* headTrackStream has answered; the answer for a Track that is not the failed one is dropped.
Probed ==
  /\ failure.item # 0 /\ failure.cause = "none"
  /\ \E cause \in {"file-missing", "unknown", "network"} : failure' = [failure EXCEPT !.cause = cause]
  /\ UNCHANGED <<queue, session, current, place, intent, calls, room, newest, behind, slips, counts>>

\* A second of the countdown; at its end, or at once on demand, the Track is skipped.  During
\* a Room that is a command to the Room.
CountsDown ==
  /\ failure.item # 0 /\ failure.countdown > 0
  /\ IF failure.countdown > 1
     THEN failure' = [failure EXCEPT !.countdown = @ - 1] /\ UNCHANGED <<session, current, place, intent, newest, behind, slips>>
     ELSE IF room THEN failure' = [failure EXCEPT !.countdown = -1] /\ UNCHANGED <<session, current, place, intent, newest, behind, slips>>
     ELSE Advance
  /\ UNCHANGED <<queue, calls, room, counts>>

\* The user keeps the failed Track, or tries it once more.
CancelCountdown ==
  /\ failure.countdown > 0 /\ counts.choices < MaxChoices
  /\ counts' = [counts EXCEPT !.choices = @ + 1]
  /\ failure' = [failure EXCEPT !.countdown = -1]
  /\ UNCHANGED <<queue, session, current, place, intent, calls, room, newest, behind, slips>>

Retry ==
  /\ failure.item # 0 /\ counts.choices < MaxChoices
  /\ counts' = [counts EXCEPT !.choices = @ + 1]
  /\ Shows(session.source, newest.playing)
  /\ UNCHANGED <<queue, current, place, intent, calls, room, behind, slips>>

\* Another client changes the Queue; the effect keeps the place of the item that plays.
QueueChanges(q) ==
  /\ counts.changes < MaxChanges
  /\ counts' = [counts EXCEPT !.changes = @ + 1, !.items = IF InQueue(q) \subseteq InQueue(queue) THEN @ ELSE @ + 1]
  /\ queue' = q
  /\ place' = IF IsTrack(session) THEN Placed(q, current, place) ELSE place
  /\ LET at == IndexOf(q, current)
     IN behind' = IF at > 0 THEN {q[i] : i \in 1..at} ELSE behind
  /\ slips' = slips \cup {x \in {"shifted"} : /\ IndexOf(q, current) = 0
                                            /\ \E item \in behind \cap InQueue(queue) : item \notin InQueue(q) \cup {current}}
  /\ UNCHANGED <<session, current, intent, calls, failure, room, newest>>

QueueEvent ==
  \/ \E item \in InQueue(queue) : QueueChanges(Without(queue, item))
  \/ counts.items < MaxItems /\ QueueChanges(Append(queue, counts.items + 1))
  \/ queue # <<>> /\ QueueChanges(<<>>)

\* A Room begins or ends.  Its sync stops or loads what the Player has.
RoomToggles ==
  /\ counts.changes < MaxChanges /\ counts' = [counts EXCEPT !.changes = @ + 1]
  /\ room' = ~room
  /\ StopEngine
  /\ UNCHANGED <<queue, current, place, intent, calls, newest, behind, slips>>

Init ==
  /\ queue = <<1, 2, 3>> /\ session = [source |-> None, status |-> "idle", stopAfter |-> FALSE]
  /\ current = 0 /\ place = 0 /\ intent = 0 /\ calls = {} /\ failure = NoFailure /\ room = FALSE
  /\ newest = [chosen |-> 0, playing |-> 0] /\ behind = {} /\ slips = {}
  /\ counts = [choices |-> 0, changes |-> 0, items |-> 3, failures |-> 0]

Next ==
  \/ PlayThere \/ PlayRadio \/ PlayExternal \/ Stop \/ SleepAfterTrack
  \/ \E w \in {"replace", "append"} : PlayTrack(w)
  \/ \E c \in calls : QueueWritten(c) \/ QueueRefused(c) \/ Resolved(c)
  \/ \E o \in {1, -1} : Navigate(o)
  \/ Ends \/ Fails \/ Probed \/ CountsDown \/ CancelCountdown \/ Retry
  \/ QueueEvent \/ RoomToggles

Fairness ==
  /\ WF_vars(CountsDown) /\ WF_vars(Ends)
  /\ WF_vars(\E c \in calls : QueueWritten(c) \/ Resolved(c))

Spec == Init /\ [][Next]_vars /\ Fairness

-----------------------------------------------------------------------------
\* TypeOK: the state of the Provider.
TypeOK ==
  /\ InQueue(queue) \subseteq 1..MaxItems /\ session.source \in Others \cup (1..MaxItems)
  /\ session.status \in {"idle", "playing", "paused", "ended", "error"}
  /\ current \in 0..MaxItems /\ place \in 0..MaxItems /\ failure.countdown \in -1..Countdown

\* LatestChoiceWins: when nothing waits for the Music Server, what plays belongs to the last
\* choice of the listener: no slow answer to an earlier one replaced it.  (A playTrack whose
\* Queue write takes long is played over a newer choice, and it and a Queue that moves on by
\* itself make an External Track that is being resolved give up.)
LatestChoiceWins ==
  calls = {} /\ slips \cap {"overtaken", "advanced"} = {} /\ ~room /\ session.source # None => newest.playing = newest.chosen

\* The Track that played ends, or its failure is skipped: by itself, not by a choice.
MovesOn == IsTrack(session) /\ newest' = newest /\ queue' = queue /\ room' = room /\ session'.source # session.source

\* The items that were not before the current one in the Queue.
Rest == SelectSeq(queue, LAMBDA x : x \notin behind)

\* AdvancesInOrder, of every step: when a Track ends, the Player goes on with the first
\* item of the Queue that was not before it, also when the Track has been removed or the
\* Queue cleared, and stops only if there is none; unless items before the place of the
\* removed Track went too.
AdvancesInOrder ==
  MovesOn /\ "shifted" \notin slips => session'.source = (IF Rest = <<>> THEN None ELSE Head(Rest))
=============================================================================
