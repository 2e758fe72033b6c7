--------------------------- MODULE QueuePositions ---------------------------
(***************************************************************************)
(* How the Music Server keeps one user's Playback Queue as rows            *)
(* (server/src/modules/playback/repository.rs and service.rs).  An order   *)
(* is the sorted positions of rows under UNIQUE(user_id, position); every  *)
(* change is one IMMEDIATE transaction of several statements, each checked *)
(* by the database when it runs, that begins by advancing the revision the *)
(* client named.  Permanent Track Deletion (managed_import/deletion.rs)    *)
(* hides a Track, removes its rows later and leaves holes.                 *)
(***************************************************************************)
EXTENDS Integers, Sequences, FiniteSets, SequencesExt

CONSTANTS
  Clients,      \* Playback Clients of the user
  Tracks,       \* Tracks of the Library
  MaxItems,     \* MAX_QUEUE_ITEMS
  MaxIds,       \* Queue items ever inserted
  MaxChanges,   \* requests of clients
  MaxCancelled  \* deletions that fail and are cancelled

VARIABLES
  rows,         \* playback_queue: item id -> its position and Track
  revision,     \* playback_queue_state.revision
  tx,           \* the open transaction
  tracks,       \* Tracks with a row
  hidden,       \* Tracks with missing_at set: their deletion is pending
  client,       \* what each client read, and its request on the way
  order,        \* the Queue as the requests accepted so far define it
  collided,     \* a statement met UNIQUE(user_id, position)
  lastId, changes, cancelled

vars == <<rows, revision, tx, tracks, hidden, client, order, collided, lastId, changes, cancelled>>

NoTx == [open |-> FALSE]
NoRequest == [kind |-> "none"]
Ids == 1..MaxIds

\* item_ids, read: SELECT id ... ORDER BY position.
ItemIds == SetToSortSeq(DOMAIN rows, LAMBDA i, j : rows[i].position < rows[j].position)

\* get_queue leaves out the items whose Track the Library does not show.
Shown(ids, without) == SelectSeq(ids, LAMBDA i : rows[i].track \notin without)

Init ==
  /\ rows = <<>> /\ revision = 0 /\ tx = NoTx /\ tracks = Tracks /\ hidden = {}
  /\ client = [c \in Clients |-> [revision |-> 0, seen |-> <<>>, without |-> {}, request |-> NoRequest]]
  /\ order = <<>> /\ collided = FALSE /\ lastId = 0 /\ changes = 0 /\ cancelled = 0

----------------------------------------------------------------------------
(* Requests                                                                *)

\* read: items and revision of one transaction.
Read(c) ==
  /\ ~tx.open /\ client[c].request = NoRequest
  /\ client' = [client EXCEPT ![c] = [@ EXCEPT !.revision = revision, !.seen = Shown(ItemIds, hidden), !.without = hidden]]
  /\ UNCHANGED <<rows, revision, tx, tracks, hidden, order, collided, lastId, changes, cancelled>>

\* What a client may ask for, given the items it saw.
Requests(seen) ==
  [kind : {"replace"}, tracks : UNION {[1..n -> tracks \ hidden] : n \in 0..MaxItems}]
  \cup [kind : {"append"}, track : tracks \ hidden]
  \cup [kind : {"remove"}, item : ToSet(seen)]
  \cup [kind : {"clear"}, after : ToSet(seen) \cup {0}]
  \cup [kind : {"reorder"}, items : SetToSeqs(ToSet(seen))]

\* The handlers and service.replace, append: the limit and require_track are
\* checked before the transaction begins.
Ask(c, r) ==
  /\ client[c].request = NoRequest /\ changes < MaxChanges
  /\ changes' = changes + 1
  /\ client' = [client EXCEPT ![c].request = r]
  /\ UNCHANGED <<rows, revision, tx, tracks, hidden, order, collided, lastId, cancelled>>

----------------------------------------------------------------------------
(* The statements of each change                                           *)

Insert(id, position, track) == [do |-> "insert", id |-> id, position |-> position, track |-> track]
Delete(id) == [do |-> "delete", id |-> id]
Move(id, position) == [do |-> "move", id |-> id, position |-> position]
Flip == [do |-> "flip"]

\* set_positions: one UPDATE per item, in the order given.
SetPositionsBackwards(ids) == [k \in 1..Len(ids) |-> Move(ids[Len(ids) + 1 - k], Len(ids) - k)]
SetPositions(ids) == [k \in 1..Len(ids) |-> Move(ids[k], k - 1)]

\* remove: "Deletes the item and closes the gap in positions."
Removal(item) == <<Delete(item)>> \o SetPositions(SelectSeq(ItemIds, LAMBDA i : i # item))

\* append: behind the greatest position, not at the count.
NextPosition == IF DOMAIN rows = {} THEN 0 ELSE rows[Last(ItemIds)].position + 1

\* reorder: "Below zero first, so renumbering cannot hit UNIQUE".
Renumbered(items) == <<Flip>> \o SetPositions(items)

\* clear: every item behind the one named, or all.
DeletesFrom(ids, first) == [k \in 1..(Len(ids) + 1 - first) |-> Delete(ids[first + k - 1])]
Cleared(after) ==
  LET ids == ItemIds
  IN  DeletesFrom(ids, IF after = 0 THEN 1 ELSE 1 + CHOOSE k \in 1..Len(ids) : ids[k] = after)

Statements(r) ==
  CASE r.kind = "replace" ->
         Cleared(0) \o [k \in 1..Len(r.tracks) |-> Insert(lastId + k, k - 1, r.tracks[k])]
    [] r.kind = "append" -> <<Insert(lastId + 1, NextPosition, r.track)>>
    [] r.kind = "remove" -> Removal(r.item)
    [] r.kind = "clear" -> Cleared(r.after)
    [] r.kind = "reorder" -> Renumbered(r.items)

\* NotFound, LimitExceeded, InvalidOrder (same_items): found after the revision
\* has been advanced, so the whole transaction is rolled back.
Refused(r) ==
  \/ r.kind = "append" /\ Cardinality(DOMAIN rows) >= MaxItems
  \/ r.kind = "remove" /\ r.item \notin DOMAIN rows
  \/ r.kind = "clear" /\ r.after # 0 /\ r.after \notin DOMAIN rows
  \/ r.kind = "reorder" /\ ToSet(r.items) # DOMAIN rows

Inserted(r) == CASE r.kind = "replace" -> Len(r.tracks) [] r.kind = "append" -> 1 [] OTHER -> 0

\* What an accepted request promises, as a sequence of items.
Promised(r) ==
  CASE r.kind = "replace" -> [k \in 1..Len(r.tracks) |-> lastId + k]
    [] r.kind = "append" -> Append(order, lastId + 1)
    [] r.kind = "remove" -> SelectSeq(order, LAMBDA i : i # r.item)
    [] r.kind = "clear" -> IF r.after = 0 THEN <<>>
                           ELSE SubSeq(order, 1, CHOOSE k \in 1..Len(order) : order[k] = r.after)
    [] r.kind = "reorder" -> r.items

----------------------------------------------------------------------------
(* The transaction                                                         *)

\* begin_mutation: UPDATE ... WHERE revision = the one the client named.
RevisionMatches(c) == client[c].revision = revision

Answered(c) == client' = [client EXCEPT ![c].request = NoRequest]

Begin(c) ==
  LET r == client[c].request IN
  /\ ~tx.open /\ r # NoRequest
  /\ IF RevisionMatches(c) /\ ~Refused(r)
     THEN /\ lastId + Inserted(r) <= MaxIds
          /\ tx' = [open |-> TRUE, client |-> c, todo |-> Statements(r), saved |-> rows]
          /\ UNCHANGED client
     ELSE Answered(c) /\ UNCHANGED tx
  /\ UNCHANGED <<rows, revision, tracks, hidden, order, collided, lastId, changes, cancelled>>

Taken(position, others) == \E j \in others : rows[j].position = position
Flipped(position) == -position - 1

\* The database refuses a statement: the position is taken (an UPDATE of many
\* rows checks each as it writes it, in no promised order) or the Track is gone.
HitsUnique(s) ==
  \/ s.do = "insert" /\ Taken(s.position, DOMAIN rows)
  \/ s.do = "move" /\ Taken(s.position, DOMAIN rows \ {s.id})
  \/ s.do = "flip" /\ \E i \in DOMAIN rows : Taken(Flipped(rows[i].position), DOMAIN rows \ {i})

After(s) ==
  CASE s.do = "insert" -> [i \in DOMAIN rows \cup {s.id} |->
                             IF i = s.id THEN [position |-> s.position, track |-> s.track] ELSE rows[i]]
    [] s.do = "delete" -> [i \in DOMAIN rows \ {s.id} |-> rows[i]]
    [] s.do = "move" -> [rows EXCEPT ![s.id].position = s.position]
    [] s.do = "flip" -> [i \in DOMAIN rows |-> [rows[i] EXCEPT !.position = Flipped(@)]]

Rollback ==
  /\ tx.open
  /\ rows' = tx.saved /\ tx' = NoTx /\ Answered(tx.client)

Execute ==
  /\ tx.open /\ tx.todo # <<>>
  /\ LET s == Head(tx.todo) IN
     IF HitsUnique(s)
     THEN Rollback /\ collided' = TRUE
     ELSE IF s.do = "insert" /\ s.track \notin tracks
     THEN Rollback /\ UNCHANGED collided
     ELSE /\ rows' = After(s)
          /\ tx' = [tx EXCEPT !.todo = Tail(@)]
          /\ UNCHANGED <<client, collided>>
  /\ UNCHANGED <<revision, tracks, hidden, order, lastId, changes, cancelled>>

\* The server stops, or the request's task is dropped, before the commit.
Abandon ==
  /\ Rollback
  /\ UNCHANGED <<revision, tracks, hidden, order, collided, lastId, changes, cancelled>>

Commit ==
  /\ tx.open /\ tx.todo = <<>>
  /\ LET r == client[tx.client].request IN
     /\ order' = Promised(r)
     /\ lastId' = lastId + Inserted(r)
  /\ revision' = revision + 1
  /\ tx' = NoTx
  /\ Answered(tx.client)
  /\ UNCHANGED <<rows, tracks, hidden, collided, changes, cancelled>>

----------------------------------------------------------------------------
(* Permanent Track Deletion                                                *)

\* prepare_track_deletion: the Track is journaled and hidden.
PrepareTrackDeletion(t) ==
  /\ ~tx.open /\ t \in tracks \ hidden
  /\ hidden' = hidden \cup {t}
  /\ UNCHANGED <<rows, revision, tx, tracks, client, order, collided, lastId, changes, cancelled>>

\* cancel_track_deletion, after its files could not be removed.
CancelTrackDeletion(t) ==
  /\ ~tx.open /\ t \in hidden /\ cancelled < MaxCancelled
  /\ hidden' = hidden \ {t} /\ cancelled' = cancelled + 1
  /\ UNCHANGED <<rows, revision, tx, tracks, client, order, collided, lastId, changes>>

\* list_queues and advance_queues: the revision of a Queue that loses items.
AdvanceQueues(t) == \E i \in DOMAIN rows : rows[i].track = t

\* "DELETE FROM playback_queue WHERE track_id = ?": the other positions stay.
RowsLeft(t) == [i \in {j \in DOMAIN rows : rows[j].track # t} |-> rows[i]]

\* finalize_track_deletion
FinalizeTrackDeletion(t) ==
  /\ ~tx.open /\ t \in hidden
  /\ revision' = IF AdvanceQueues(t) THEN revision + 1 ELSE revision
  /\ rows' = RowsLeft(t)
  /\ order' = SelectSeq(order, LAMBDA i : rows[i].track # t)
  /\ tracks' = tracks \ {t} /\ hidden' = hidden \ {t}
  /\ UNCHANGED <<tx, client, collided, lastId, changes, cancelled>>

Next ==
  \/ \E c \in Clients : Read(c) \/ Begin(c) \/ \E r \in Requests(client[c].seen) : Ask(c, r)
  \/ Execute \/ Abandon \/ Commit
  \/ \E t \in Tracks : PrepareTrackDeletion(t) \/ CancelTrackDeletion(t) \/ FinalizeTrackDeletion(t)

Spec == Init /\ [][Next]_vars

----------------------------------------------------------------------------
TypeOK ==
  /\ DOMAIN rows \subseteq Ids
  /\ \A i \in DOMAIN rows : rows[i].position \in Int /\ rows[i].track \in tracks
  /\ revision \in Nat /\ tracks \subseteq Tracks /\ hidden \subseteq tracks
  /\ tx.open \in BOOLEAN /\ collided \in BOOLEAN
  /\ \A c \in Clients : client[c].revision \in 0..revision /\ ToSet(client[c].seen) \subseteq Ids

\* However items were inserted, removed, cleared, moved and lost to a Track
\* deletion before, the rows sorted by position are the order that the accepted
\* requests define (repository.rs replace, append, remove, clear, reorder).
RowsKeepTheOrder == ~tx.open => ItemIds = order

\* No statement of a change ever meets UNIQUE(user_id, position), although
\* set_positions renumbers one row at a time among rows with holes between them.
NeverCollides == ~collided

\* A change runs on the Queue its client had read, but for the Tracks whose
\* deletion was pending then: a deletion that takes items advances the revision
\* as every change does (begin_mutation, advance_queues).
RunsOnWhatWasRead ==
  tx.open => LET c == client[tx.client] IN
             c.seen = SelectSeq(order, LAMBDA i : tx.saved[i].track \notin c.without)
=============================================================================
