------------------------------ MODULE MCQueue ------------------------------
(***************************************************************************)
(* The Queue, side by side in one run: a behaviour is one of conflicts     *)
(* (two clients without event streams, every operation), events (a client  *)
(* whose event stream opens, fails and reconnects), both of QueueSync, or  *)
(* positions, the rows of QueuePositions.                                  *)
(***************************************************************************)
EXTENDS QueueSync

CONSTANTS c1, c2

\* How often each user acts.
OnceEach == [c \in Clients |-> 1]
OneThenTwo == [c \in Clients |-> IF c = c1 THEN 1 ELSE 2]
TheOtherTwice == [c \in Clients |-> IF c = c1 THEN 0 ELSE 2]

VARIABLES part, rows, stored, tx, tracks, hidden, reader, order, collided, lastId, changes, cancelled

Events == INSTANCE QueueSync WITH
  Listeners <- {c1}, Opening <- {c1}, Operations <- {"append"}, MaxItems <- 2, MaxRevision <- 2,
  MaxActs <- OnceEach, MaxOrder <- 3, MaxOpens <- 2, MaxFaults <- 1, MaxDeletions <- 1

Positions == INSTANCE QueuePositions WITH
  Clients <- {c1}, Tracks <- {"x", "y"}, MaxItems <- 3, MaxIds <- 4, MaxChanges <- 3, MaxCancelled <- 1,
  revision <- stored, client <- reader

positions == <<rows, stored, tx, tracks, hidden, reader, order, collided, lastId, changes, cancelled>>
all == <<part, vars, positions>>

\* The variables of a component that does not run keep its initial values.
SumInit ==
  /\ Positions!Init
  /\ \/ part = "events" /\ Events!Init
     \/ part \in {"conflicts", "positions"} /\ Init

ConflictsNext == part = "conflicts" /\ Next /\ UNCHANGED <<part, positions>>
EventsNext == part = "events" /\ Events!Next /\ UNCHANGED <<part, positions>>
PositionsNext == part = "positions" /\ Positions!Next /\ UNCHANGED <<part, vars>>

SumNext == ConflictsNext \/ EventsNext \/ PositionsNext
SumSpec == SumInit /\ [][SumNext]_all

\* QueueSync alone, with the instance of the cfg.
SyncSpec == part = "conflicts" /\ SumInit /\ [][ConflictsNext]_all

----------------------------------------------------------------------------
\* Both descriptions of the Queue have their shapes, and: however items were
\* inserted, removed, cleared, moved and lost to a Track deletion before, the
\* rows sorted by position are the order that the accepted requests define;
\* no statement of a change ever meets UNIQUE(user_id, position), although
\* set_positions renumbers one row at a time among rows with holes between
\* them; and a change runs on the Queue its client had read, but for the
\* Tracks whose deletion was pending then (repository.rs replace, append,
\* remove, clear, reorder, begin_mutation; deletion.rs advance_queues).
RowsAreTheQueue ==
  /\ TypeOK
  /\ Positions!TypeOK
  /\ Positions!RowsKeepTheOrder
  /\ Positions!NeverCollides
  /\ Positions!RunsOnWhatWasRead
=============================================================================
