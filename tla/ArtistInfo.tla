----------------------------- MODULE ArtistInfo -----------------------------
(***************************************************************************)
(* What the Music Server finds online about one Artist and one Album       *)
(* (server/src/modules/artist_info): the stored result first, a lookup     *)
(* when there is none or it is due again.  Requests run side by side: each *)
(* reads the row, waits for one of few places, asks the service and stores *)
(* what it learned over whatever is stored by then.  A sweep marks the     *)
(* explicit Tracks of the Album.                                           *)
(***************************************************************************)
EXTENDS Integers, FiniteSets, Sequences

CONSTANTS
  Askers,     \* requests that may run side by side
  Kinds,      \* what is asked for, a subset of AllKinds
  Places,     \* DEEZER_LOOKUPS_AT_ONCE
  Tracks,     \* the Tracks the Album may come to have, explicit on Deezer;
              \* none leaves out the sweep
  FailedRetry, Refresh, MissingRetry, MaxTime,
  MaxAsks,    \* requests made
  MaxChanges  \* changes of the library and of what is online, restarts

VARIABLES
  enabled,    \* online lookups are allowed
  clock,
  online,     \* the edition of what the services tell
  own,        \* source_sha256 of the Album's own cover
  present,    \* the Artist and the Album are in the library
  row,        \* what is stored of each kind
  task,       \* the requests
  held,       \* places taken
  tracks,     \* the Album's Tracks: "absent", "plain", "explicit" or "gone"
  check,      \* the row of album_explicit_checks, with the Tracks looked up
  sweep,      \* the explicit sweep
  asks, changes

vars == <<enabled, clock, online, own, present, row, task, held, tracks, check, sweep, asks, changes>>

AllKinds == {"photo", "biography", "titles", "counts", "genres", "cover"}
Outcomes == {"found", "missing", "failed"}

\* What the proofs assume of the constants; the bounds but MaxTime may be anything.
ConstantsOK == IsFiniteSet(Askers) /\ Kinds \subseteq AllKinds /\ Places \in Nat /\ MaxTime \in Nat

\* A value is the edition it shows and, for a cover, the cover it stands for.
Nothing == [edition |-> 0, of |-> 0]
NoRow == [outcome |-> "none", value |-> Nothing, at |-> 0, of |-> 0]
Idle == [step |-> "idle", kind |-> "photo", stored |-> NoRow, of |-> 0, outcome |-> "none", value |-> Nothing]
NoSweep == [step |-> "idle", then |-> <<>>, seen |-> {}, outcome |-> "none"]
NoCheck == [outcome |-> "none", at |-> 0, seen |-> {}]

Init ==
  /\ enabled \in BOOLEAN
  /\ clock = 0 /\ online = 1 /\ own = 1 /\ present = TRUE
  /\ row = [k \in Kinds |-> NoRow]
  /\ task = [a \in Askers |-> Idle]
  /\ held = [place \in {"deezer", "lastfm", "pacer"} |-> 0]
  /\ tracks \in [Tracks -> {"absent", "plain"}] /\ (Tracks # {} => \E t \in Tracks : tracks[t] = "plain")
  /\ check = NoCheck /\ sweep = NoSweep /\ asks = 0 /\ changes = 0

----------------------------------------------------------------------------
(* When a lookup is due                                                    *)

\* Popularity moves: top titles and play counts are refreshed, the rest kept.
Refreshed(k) == k \in {"titles", "counts"}

\* is_due
IsDue(outcome, age, refreshed) ==
  CASE outcome = "found" -> refreshed /\ age >= Refresh
    [] outcome = "missing" -> age >= MissingRetry
    [] OTHER -> age >= FailedRetry

\* should_look_up; the Last.fm key is its own opt-in.
ShouldLookUp(k, stored) ==
  /\ enabled \/ k = "counts"
  /\ stored.outcome = "none" \/ IsDue(stored.outcome, clock - stored.at, Refreshed(k))

PlaceOf(k) == CASE k = "counts" -> "lastfm" [] k = "biography" -> "pacer" [] OTHER -> "deezer"
Room(place) == IF place = "deezer" THEN Places ELSE 1

----------------------------------------------------------------------------
(* A request                                                               *)

\* The stored row; a cover found for another own cover does not count.
ReadRow(k) == IF k = "cover" /\ row[k].of # own THEN NoRow ELSE row[k]

Answered(t, value) == [t EXCEPT !.step = "answered", !.value = value]

\* photo, biography, top_titles, artist_play_counts, album_genres and
\* sharper_cover up to the place they wait for.  A cover that is sharp enough
\* already is stored as missing without a lookup.
Ask(a, k) ==
  /\ task[a].step = "idle" /\ asks < MaxAsks /\ present
  /\ asks' = asks + 1
  /\ LET stored == ReadRow(k)
         t == [Idle EXCEPT !.kind = k, !.stored = stored, !.of = own]
     IN task' = [task EXCEPT ![a] =
          IF ShouldLookUp(k, stored) THEN [t EXCEPT !.step = "waits"] ELSE Answered(t, stored.value)]
  /\ UNCHANGED <<enabled, clock, online, own, present, row, held, tracks, check, sweep, changes>>

SharpEnough(a) ==
  /\ task[a].step = "waits" /\ task[a].kind = "cover"
  /\ task' = [task EXCEPT ![a].step = "stores", ![a].outcome = "missing"]
  /\ UNCHANGED <<enabled, clock, online, own, present, row, held, tracks, check, sweep, asks, changes>>

\* acquire, or the pacer's lock; the row is not read again.
TakePlace(a) ==
  LET place == PlaceOf(task[a].kind)
  IN /\ task[a].step = "waits" /\ held[place] < Room(place)
     /\ held' = [held EXCEPT ![place] = @ + 1]
     /\ task' = [task EXCEPT ![a].step = "asks"]
     /\ UNCHANGED <<enabled, clock, online, own, present, row, tracks, check, sweep, asks, changes>>

Freed(t) == [held EXCEPT ![PlaceOf(t.kind)] = @ - 1]

\* settle: the value found, or none.
Settled(t, outcome) ==
  [t EXCEPT !.step = "stores", !.outcome = outcome,
            !.value = IF outcome = "found" THEN [edition |-> online, of |-> t.of] ELSE Nothing]

\* Those that keep the place until their row is stored.
KeepsPlace(k) == k \notin {"cover", "biography"}

\* The service answers, has nothing, or fails within REQUEST_TIMEOUT.
LookUp(a) ==
  /\ task[a].step = "asks"
  /\ \E outcome \in Outcomes : task' = [task EXCEPT ![a] = Settled(@, outcome)]
  /\ held' = IF KeepsPlace(task[a].kind) THEN held ELSE Freed(task[a])
  /\ UNCHANGED <<enabled, clock, online, own, present, row, tracks, check, sweep, asks, changes>>

\* A failed refresh keeps the value the request read.
ValueToStore(t) ==
  IF t.outcome = "failed" /\ Refreshed(t.kind) /\ t.stored.value # Nothing THEN t.stored.value ELSE t.value

\* The place is given back when the request ends, however it ends.  A cover
\* sharp enough never took one.
FreedAtEnd(t) == IF KeepsPlace(t.kind) THEN Freed(t) ELSE held

\* put_photo and its like overwrite the row; the row of an Artist or Album
\* that is gone cannot be stored, and the request fails.
Store(a) ==
  LET t == task[a]
  IN /\ t.step = "stores"
     /\ IF present
        THEN /\ row' = [row EXCEPT ![t.kind] =
                  [outcome |-> t.outcome, value |-> ValueToStore(t), at |-> clock, of |-> t.of]]
             /\ task' = [task EXCEPT ![a] = Answered(@, ValueToStore(t))]
        ELSE /\ task' = [task EXCEPT ![a] = Answered(@, Nothing)]
             /\ UNCHANGED row
     /\ held' = FreedAtEnd(t)
     /\ UNCHANGED <<enabled, clock, online, own, present, tracks, check, sweep, asks, changes>>

\* The client goes away, which drops the request with its place.
Leave(a) ==
  /\ task[a].step \in {"waits", "asks", "stores"} /\ changes < MaxChanges
  /\ changes' = changes + 1
  /\ task' = [task EXCEPT ![a] = Idle]
  /\ held' = IF task[a].step = "asks" THEN Freed(task[a])
             ELSE IF task[a].step = "stores" THEN FreedAtEnd(task[a]) ELSE held
  /\ UNCHANGED <<enabled, clock, online, own, present, row, tracks, check, sweep, asks>>

\* play_counts: past its budget the request takes what is stored.
BudgetSpent(a) ==
  LET t == task[a]
  IN /\ t.kind = "counts" /\ t.step \in {"waits", "asks"}
     /\ task' = [task EXCEPT ![a] = Answered(@, row["counts"].value)]
     /\ held' = IF t.step = "asks" THEN Freed(t) ELSE held
     /\ UNCHANGED <<enabled, clock, online, own, present, row, tracks, check, sweep, asks, changes>>

Forget(a) ==
  /\ task[a].step = "answered"
  /\ task' = [task EXCEPT ![a] = Idle]
  /\ UNCHANGED <<enabled, clock, online, own, present, row, held, tracks, check, sweep, asks, changes>>

----------------------------------------------------------------------------
(* The explicit sweep                                                      *)

Present(t) == tracks[t] \in {"plain", "explicit"}

\* mark_explicit_tracks and get_album: the check, then the Album's Tracks.
BeginSweep ==
  /\ enabled /\ sweep.step = "idle" /\ \E t \in Tracks : Present(t)
  /\ check.outcome = "none" \/ IsDue(check.outcome, clock - check.at, FALSE)
  /\ sweep' = [NoSweep EXCEPT !.step = "waits", !.seen = {t \in Tracks : Present(t)}]
  /\ UNCHANGED <<enabled, clock, online, own, present, row, task, held, tracks, check, asks, changes>>

SweepTakesPlace ==
  /\ sweep.step = "waits" /\ held["deezer"] < Places
  /\ sweep' = [sweep EXCEPT !.step = "asks"]
  /\ held' = [held EXCEPT !["deezer"] = @ + 1]
  /\ UNCHANGED <<enabled, clock, online, own, present, row, task, tracks, check, asks, changes>>

ChecksFirst(outcome) == IF outcome = "found" THEN <<"checks", "marks">> ELSE <<"checks">>

\* find_explicit_titles; the Tracks are marked before the check is stored.
AfterLookup(outcome) == IF outcome = "found" THEN <<"marks", "checks">> ELSE <<"checks">>

Rest(s, steps, outcome) == [s EXCEPT !.step = Head(steps), !.then = Tail(steps), !.outcome = outcome]

SweepLooksUp ==
  /\ sweep.step = "asks"
  /\ \E outcome \in Outcomes : sweep' = Rest(sweep, AfterLookup(outcome), outcome)
  /\ UNCHANGED <<enabled, clock, online, own, present, row, task, held, tracks, check, asks, changes>>

SweepEnds == sweep' = NoSweep /\ held' = [held EXCEPT !["deezer"] = @ - 1]

SweepGoesOn ==
  IF sweep.then = <<>> THEN SweepEnds
  ELSE sweep' = Rest(sweep, sweep.then, sweep.outcome) /\ UNCHANGED held

\* set_explicit_tracks, one transaction: it replaces the Album's marks and
\* fails when a Track to mark is gone.
Mark ==
  /\ sweep.step = "marks"
  /\ IF \A t \in sweep.seen : Present(t)
     THEN /\ tracks' = [t \in Tracks |-> IF ~ Present(t) THEN tracks[t]
                                         ELSE IF t \in sweep.seen THEN "explicit" ELSE "plain"]
          /\ SweepGoesOn
     ELSE SweepEnds /\ UNCHANGED tracks
  /\ UNCHANGED <<enabled, clock, online, own, present, row, task, check, asks, changes>>

\* put_album_explicit_check
Check ==
  /\ sweep.step = "checks"
  /\ check' = IF present THEN [outcome |-> sweep.outcome, at |-> clock, seen |-> sweep.seen] ELSE check
  /\ IF present THEN SweepGoesOn ELSE SweepEnds
  /\ UNCHANGED <<enabled, clock, online, own, present, row, task, tracks, asks, changes>>

----------------------------------------------------------------------------
(* The library, the services and the server                                *)

Tick ==
  /\ clock < MaxTime
  /\ clock' = clock + 1
  /\ UNCHANGED <<enabled, online, own, present, row, task, held, tracks, check, sweep, asks, changes>>

Change ==
  /\ changes < MaxChanges
  /\ changes' = changes + 1
  /\ \/ online' = online + 1 /\ UNCHANGED <<own, present, row, tracks, check>>
     \/ own' = own + 1 /\ UNCHANGED <<online, present, row, tracks, check>>
     \/ \E t \in Tracks :
          /\ present /\ \E other \in Tracks \ {t} : Present(other)
          /\ tracks' = [tracks EXCEPT ![t] = IF @ = "absent" THEN "plain" ELSE "gone"]
          /\ UNCHANGED <<online, own, present, row, check>>
     \* The last Track goes, and with it the Album, the Artist and their rows.
     \/ /\ present /\ present' = FALSE
        /\ row' = [k \in Kinds |-> NoRow]
        /\ check' = NoCheck
        /\ tracks' = [t \in Tracks |-> "gone"]
        /\ UNCHANGED <<online, own>>
  /\ UNCHANGED <<enabled, clock, task, held, sweep, asks>>

\* The server stops and starts again: requests and places are gone.
Restart ==
  /\ changes < MaxChanges
  /\ changes' = changes + 1
  /\ task' = [a \in Askers |-> Idle]
  /\ held' = [place \in DOMAIN held |-> 0]
  /\ sweep' = NoSweep
  /\ UNCHANGED <<enabled, clock, online, own, present, row, tracks, check, asks>>

Progress(a) == TakePlace(a) \/ LookUp(a) \/ Store(a)

Next ==
  \/ \E a \in Askers :
       \/ \E k \in Kinds : Ask(a, k)
       \/ SharpEnough(a) \/ Progress(a) \/ Leave(a) \/ BudgetSpent(a) \/ Forget(a)
  \/ BeginSweep \/ SweepTakesPlace \/ SweepLooksUp \/ Mark \/ Check
  \/ Tick \/ Change \/ Restart

\* Tasks run on the server's executor, its semaphores are fair queues, and
\* every request to a service ends within REQUEST_TIMEOUT.
Fairness ==
  /\ \A a \in Askers : WF_vars(TakePlace(a)) /\ WF_vars(LookUp(a)) /\ WF_vars(Store(a))
  /\ WF_vars(SweepTakesPlace) /\ WF_vars(SweepLooksUp) /\ WF_vars(Mark) /\ WF_vars(Check)

Spec == Init /\ [][Next]_vars /\ Fairness

----------------------------------------------------------------------------
(* Properties                                                              *)

Values == [edition : Nat, of : Nat]

\* Every variable has its type, and no more places are held than there are.
TypeOK ==
  /\ enabled \in BOOLEAN /\ present \in BOOLEAN
  /\ clock \in 0 .. MaxTime /\ online \in Nat /\ own \in Nat
  /\ \A k \in Kinds : row[k].outcome \in Outcomes \cup {"none"} /\ row[k].value \in Values
  /\ \A a \in Askers : task[a].step \in {"idle", "waits", "asks", "stores", "answered"} /\ task[a].kind \in AllKinds
  /\ \A place \in DOMAIN held : held[place] \in 0 .. Room(place)
  /\ tracks \in [Tracks -> {"absent", "plain", "explicit", "gone"}]
  /\ sweep.step \in {"idle", "waits", "asks", "marks", "checks"}

\* Whoever asks for a sharper cover is shown one that was found for the own
\* cover the Album had when the request began, never one found for a cover
\* replaced since (sharper_cover keeps the hash with the row).
CoverStandsIn ==
  \A a \in Askers :
    task[a].step = "answered" /\ task[a].kind = "cover" /\ task[a].value # Nothing =>
      task[a].value.of = task[a].of

\* A lookup that fails takes away no top titles or play counts that its
\* request knew of, even when the refresh fails again and again.  (A request
\* that read the row before another one stored its find does not know it.)
FailureKeepsTheList ==
  \A k \in Kinds :
    present' /\ row'[k] # row[k] /\ row'[k].outcome = "failed" /\ row[k].value # Nothing =>
      \/ row'[k].value = row[k].value
      \/ k = "cover" /\ row'[k].of # row[k].of
      \/ \E a \in Askers : task[a].step = "stores" /\ task[a].kind = k /\ task[a].stored # row[k]

\* An Album whose explicit check is stored as found, which is never repeated,
\* has every Track marked that the check saw, even when the server stopped
\* halfway or a Track was deleted meanwhile.
MarkedWhenChecked ==
  check.outcome = "found" => \A t \in check.seen : tracks[t] # "plain"
=============================================================================
