----------------------------- MODULE QueueSync -----------------------------
(***************************************************************************)
(* Queue Synchronization: one user's Queue on the Music Server and the     *)
(* Playback Clients that share it.                                         *)
(*   server/src/modules/playback: repository.rs (the Queue and its         *)
(*     revision), handlers.rs (answers and the event stream), events.rs    *)
(*     (the latest invalidation of every subscriber);                      *)
(*   packages/ui/src/playback/use-synchronized-queue.ts (the client);      *)
(*   packages/api-client/src/queue-events.ts and                           *)
(*     desktop/core/src/queue_events.rs (a stream that is opened again     *)
(*     whenever it ends).                                                  *)
(*                                                                         *)
(* A request is in `calls` from when it is sent until its answer is        *)
(* handled; answers arrive in any order.  What a client does with an       *)
(* answer is one step, since JavaScript runs it to its end.                *)
(*                                                                         *)
(* revision and event_sequence are raised by the same statements, and one  *)
(* number stands for both.  An operation inserts one item at most, named   *)
(* after the revision that inserts it.  A Track under deletion, which      *)
(* get_queue skips, is in the Queue until its deletion is final.           *)
(***************************************************************************)
EXTENDS Integers, Sequences, SequencesExt

CONSTANTS
  Clients,      \* Playback Clients of the user
  Listeners,    \* those that have an event stream
  Opening,      \* those whose first read of the Queue is still under way
  Operations,   \* what users do
  MaxItems,     \* MAX_QUEUE_ITEMS
  MaxRevision,  \* bound: changes of the Queue
  MaxActs,      \* bound: what the user of a client does
  MaxOrder,     \* bound: requests of a client
  MaxOpens,     \* bound: event streams a client opens
  MaxFaults,    \* bound: requests that fail on the way
  MaxDeletions  \* bound: Tracks of the Queue that are deleted

ASSUME QueueSyncAssumption ==
  /\ Operations \subseteq {"append", "play", "remove", "replace", "clear", "reorder", "refresh"}
  /\ MaxItems \in Nat \ {0} /\ MaxRevision \in Nat
  /\ Listeners \subseteq Clients /\ Opening \subseteq Clients
  /\ MaxActs \in [Clients -> Nat] /\ MaxOrder \in Nat
  /\ MaxOpens \in Nat /\ MaxFaults \in Nat /\ MaxDeletions \in Nat

VARIABLES
  items, revision,  \* the Queue
  calls,            \* requests under way
  client,           \* what a client holds
  stream,           \* a client's event stream
  deletions,        \* revisions that Track deletions have yet to publish
  applied,          \* history: the intents the Queue has taken, in order
  excuse,           \* history: why a client may be stale
  faults, deleted

vars == <<items, revision, calls, client, stream, deletions, applied, excuse, faults, deleted>>

NoItem == 0      \* an empty afterItemId
Nothing == -1    \* null, and an empty slot
NoOp == [verb |-> "get"]

Snapshot == [items |-> items, revision |-> revision]
NoSnapshot == [items |-> << >>, revision |-> Nothing]

NewClient ==
  [items |-> << >>, revision |-> 0, latest |-> Nothing, pending |-> {},
   next |-> 0, applied |-> 0, intents |-> 0, isConflict |-> FALSE]

NoStream == [stage |-> "off", slot |-> Nothing, wire |-> << >>, opened |-> 0]

\* A request.  `role` is what the client sent it for: "refresh" and "event" read
\* the Queue, "try" is an operation, "fetch" the read after its conflict and
\* "retry" its second try.  `basis`: the Queue an operation is meant for, of which
\* the server is told the revision.
Call(c, order, role, op, basis) ==
  [client |-> c, order |-> order, role |-> role, op |-> op, basis |-> basis,
   stage |-> "sent", said |-> "nothing", snapshot |-> NoSnapshot]

IsMutation(call) == call.role \in {"try", "retry"}

Init ==
  /\ items = << >> /\ revision = 0
  /\ client = [c \in Clients |->
       [NewClient EXCEPT !.next = 1, !.applied = IF c \in Opening THEN 0 ELSE 1]]
  /\ calls = {Call(c, 1, "refresh", NoOp, NoSnapshot) : c \in Opening}
  /\ stream = [c \in Clients |-> NoStream]
  /\ deletions = {}
  /\ applied = << >>
  /\ excuse = [c \in Clients |-> "none"]
  /\ faults = 0 /\ deleted = 0

-----------------------------------------------------------------------------
(* The Queue *)

Has(q, item) == item \in ToSet(q)

\* The place of an item, whose id is a primary key.
PlaceOf(q, item) == CHOOSE i \in DOMAIN q : q[i] = item
Without(q, item) == RemoveAt(q, PlaceOf(q, item))

\* Whether the transaction goes through once the revision is advanced.
Accepts(q, op) ==
  CASE op.verb = "append" -> Len(q) < MaxItems
    [] op.verb = "remove" -> Has(q, op.item)
    [] op.verb = "clear" -> op.item = NoItem \/ Has(q, op.item)
    [] op.verb = "reorder" -> Len(op.order) = Len(q) /\ ToSet(op.order) = ToSet(q)
    [] OTHER -> TRUE

Changed(q, op, new) ==
  CASE op.verb = "append" -> Append(q, new)
    [] op.verb \in {"play", "replace"} -> <<new>>
    [] op.verb = "remove" -> Without(q, op.item)
    [] op.verb = "clear" ->
         IF op.item = NoItem THEN << >>
         ELSE SubSeq(q, 1, PlaceOf(q, op.item))
    [] op.verb = "reorder" -> op.order

-----------------------------------------------------------------------------
(* The Music Server *)

Goes(call, new) == calls' = (calls \ {call}) \cup {new}

Answered(call, said, snapshot) ==
  [call EXCEPT !.stage = "answered", !.said = said, !.snapshot = snapshot]

MutateUnchecked(call) ==  \* mutant: begin_mutation does not compare the revision
  /\ call.stage = "sent" /\ IsMutation(call)
  /\ IF Accepts(items, call.op)
     THEN /\ revision < MaxRevision
          /\ items' = Changed(items, call.op, revision + 1)
          /\ revision' = revision + 1
          /\ applied' = Append(applied, call.op.intent)
          /\ Goes(call, [call EXCEPT !.stage = "committed"])
     ELSE /\ Goes(call, Answered(call, "refused", NoSnapshot))
          /\ UNCHANGED <<items, revision, applied>>
  /\ UNCHANGED <<client, stream, deletions, excuse, faults, deleted>>

\* begin_mutation and the operation, in one transaction.
Mutate(call) ==
  /\ call.stage = "sent" /\ IsMutation(call)
  /\ IF call.basis.revision = revision /\ Accepts(items, call.op)
     THEN /\ revision < MaxRevision
          /\ items' = Changed(items, call.op, revision + 1)
          /\ revision' = revision + 1
          /\ applied' = Append(applied, call.op.intent)
          /\ Goes(call, [call EXCEPT !.stage = "committed"])
     ELSE /\ Goes(call, Answered(call, IF call.basis.revision # revision THEN "conflict"
                                       ELSE "refused", NoSnapshot))
          /\ UNCHANGED <<items, revision, applied>>
  /\ UNCHANGED <<client, stream, deletions, excuse, faults, deleted>>

\* get_queue: one transaction of its own, after a mutation too.
Read(call) ==
  /\ \/ /\ call.stage = "sent" /\ ~IsMutation(call)
        /\ Goes(call, Answered(call, "ok", Snapshot))
     \/ /\ call.stage = "committed"
        /\ Goes(call, [call EXCEPT !.stage = "read", !.snapshot = Snapshot])
  /\ UNCHANGED <<items, revision, client, stream, deletions, applied, excuse, faults, deleted>>

\* QueueEventBroker::publish: every subscriber's slot is replaced.
Publish(r) ==
  /\ stream' = [c \in Clients |->
       IF stream[c].stage # "off" THEN [stream[c] EXCEPT !.slot = r] ELSE stream[c]]
  /\ excuse' = [c \in Clients |->
       IF stream[c].stage # "off" /\ stream[c].slot > r THEN "overtaken" ELSE excuse[c]]

\* respond_mutation, after its read.
Respond(call) ==
  /\ call.stage = "read"
  /\ Publish(call.snapshot.revision)
  /\ Goes(call, Answered(call, "ok", call.snapshot))
  /\ UNCHANGED <<items, revision, client, deletions, applied, faults, deleted>>

\* The request or its answer is lost, or the read fails.  A handler whose client
\* is gone is dropped where it is, and a change it made is not published.
CallFails(call) ==
  /\ faults < MaxFaults /\ faults' = faults + 1
  /\ call.said \in {"nothing", "ok"}
  /\ Goes(call, Answered(call, "error", NoSnapshot))
  /\ excuse' = [c \in Clients |->
       IF call.stage \in {"committed", "read"} THEN "overtaken" ELSE excuse[c]]
  /\ UNCHANGED <<items, revision, client, stream, deletions, applied, deleted>>

\* finalize_track_deletion, for the Track of one item of the Queue ...
DeleteTrack ==
  /\ deleted < MaxDeletions /\ revision < MaxRevision
  /\ \E i \in ToSet(items) : items' = Without(items, i)
  /\ revision' = revision + 1
  /\ deletions' = deletions \cup {revision + 1}
  /\ deleted' = deleted + 1
  /\ UNCHANGED <<calls, client, stream, applied, excuse, faults>>

\* ... and publish_queue_invalidations.
PublishDeletion(r) ==
  /\ Publish(r)
  /\ deletions' = deletions \ {r}
  /\ UNCHANGED <<items, revision, calls, client, applied, faults, deleted>>

-----------------------------------------------------------------------------
(* Event streams *)

\* stream_queue_events: subscribed first ...
Subscribe(c) ==
  /\ c \in Listeners
  /\ stream[c].stage = "off" /\ stream[c].opened < MaxOpens
  /\ stream' = [stream EXCEPT ![c] =
       [stage |-> "subscribed", slot |-> Nothing, wire |-> << >>, opened |-> @.opened + 1]]
  /\ excuse' = [excuse EXCEPT ![c] = IF @ = "failed" THEN "none" ELSE @]
  /\ UNCHANGED <<items, revision, calls, client, deletions, applied, faults, deleted>>

\* ... then read, for the first event.
FirstEvent(c) ==
  /\ stream[c].stage = "subscribed"
  /\ stream' = [stream EXCEPT ![c].stage = "live", ![c].wire = <<revision>>]
  /\ UNCHANGED <<items, revision, calls, client, deletions, applied, excuse, faults, deleted>>

\* The latest invalidation is taken from the slot and sent.
LaterEvent(c) ==
  /\ stream[c].stage = "live" /\ stream[c].slot # Nothing
  /\ stream' = [stream EXCEPT ![c].wire = Append(@, stream[c].slot), ![c].slot = Nothing]
  /\ UNCHANGED <<items, revision, calls, client, deletions, applied, excuse, faults, deleted>>

\* The stream ends, with what was on its way; the client will open another.
Disconnect(c) ==
  /\ stream[c].stage # "off" /\ stream[c].opened < MaxOpens
  /\ stream' = [stream EXCEPT ![c] = [NoStream EXCEPT !.opened = stream[c].opened]]
  /\ UNCHANGED <<items, revision, calls, client, deletions, applied, excuse, faults, deleted>>

-----------------------------------------------------------------------------
(* The client *)

ApplyQueue(cl, call) ==
  IF call.order < cl.applied THEN cl
  ELSE [cl EXCEPT !.items = call.snapshot.items, !.revision = call.snapshot.revision,
                  !.applied = call.order]

\* The client, now cl, is done with some requests and sends another.
Sends(c, cl, done, role, op, basis) ==
  /\ cl.next < MaxOrder
  /\ client' = [client EXCEPT ![c] = [cl EXCEPT !.next = @ + 1]]
  /\ calls' = (calls \ done) \cup {Call(c, cl.next + 1, role, op, basis)}

Becomes(c, cl, done) ==
  /\ client' = [client EXCEPT ![c] = cl]
  /\ calls' = calls \ done

\* What the user of a client that shows cl can do.
UserOps(c, cl) ==
  LET ops == {[verb |-> v, item |-> NoItem, order |-> << >>] :
                v \in {"append", "play", "replace", "clear"}}
             \cup {[verb |-> v, item |-> i, order |-> << >>] :
                     v \in {"remove", "clear"}, i \in ToSet(cl.items)}
             \cup {[verb |-> "reorder", item |-> NoItem, order |-> Reverse(cl.items)]}
  IN  {[verb |-> op.verb, item |-> op.item, order |-> op.order,
        intent |-> <<c, cl.intents + 1>>] : op \in {o \in ops : o.verb \in Operations}}

\* appendQueueItem, replaceQueue, removeFromQueue, clearQueue, reorderQueue
Act(c) ==
  /\ client[c].intents < MaxActs[c]
  /\ \E op \in UserOps(c, client[c]) :
       Sends(c, [client[c] EXCEPT !.intents = @ + 1], {}, "try", op,
             [items |-> client[c].items, revision |-> client[c].revision])
  /\ UNCHANGED <<items, revision, stream, deletions, applied, excuse, faults, deleted>>

\* refreshQueue, which the deletion and the replacement of a Track call.
Refresh(c) ==
  /\ "refresh" \in Operations
  /\ client[c].intents < MaxActs[c]
  /\ Sends(c, [client[c] EXCEPT !.intents = @ + 1], {}, "refresh", NoOp, NoSnapshot)
  /\ UNCHANGED <<items, revision, stream, deletions, applied, excuse, faults, deleted>>

Later(a, b) == IF a > b THEN a ELSE b

HandleEventAtOnce(c) ==  \* mutant: the event counts as seen before the refetch
  /\ stream[c].wire # << >>
  /\ stream' = [stream EXCEPT ![c].wire = Tail(@)]
  /\ LET e == Head(stream[c].wire)
         seen == [client[c] EXCEPT !.latest = Later(@, e)]
     IN  IF e <= client[c].latest \/ e = client[c].revision
         THEN Becomes(c, seen, {})
         ELSE Sends(c, seen, {}, "event", [verb |-> "get", event |-> e], NoSnapshot)
  /\ UNCHANGED <<items, revision, deletions, applied, excuse, faults, deleted>>

\* subscribeQueueEvents' listener.
HandleEvent(c) ==
  /\ stream[c].wire # << >>
  /\ stream' = [stream EXCEPT ![c].wire = Tail(@)]
  /\ LET e == Head(stream[c].wire)
         cl == client[c]
         isNews == e > cl.latest /\ e \notin cl.pending
     IN  \/ ~isNews /\ Becomes(c, cl, {})
         \/ isNews /\ e = cl.revision /\ Becomes(c, [cl EXCEPT !.latest = e], {})
         \/ isNews /\ e # cl.revision
            /\ Sends(c, [cl EXCEPT !.pending = @ \cup {e}], {}, "event",
                     [verb |-> "get", event |-> e], NoSnapshot)
  /\ UNCHANGED <<items, revision, deletions, applied, excuse, faults, deleted>>

IsTriedAgainAnyway(call) ==  \* mutant: after any failure
  call.role = "try" /\ call.said # "ok"

\* isQueueConflict: only a conflict says that nothing has changed.
IsTriedAgain(call) == call.role = "try" /\ call.said = "conflict"

\* What becomes of the client cl when the answer, already applied, is handled.
Continue(c, cl, call) ==
  CASE IsTriedAgain(call) ->
         Sends(c, cl, {call}, "fetch", call.op, NoSnapshot)
    [] call.role = "event" ->
         Becomes(c, [cl EXCEPT !.pending = @ \ {call.op.event},
                               !.latest = IF call.said = "ok"
                                          THEN Later(@, call.op.event) ELSE @], {call})
    [] call.role = "fetch" /\ call.said = "ok" ->
         IF \/ call.op.verb \in {"append", "play"}
            \/ call.op.verb = "remove" /\ Has(call.snapshot.items, call.op.item)
         THEN Sends(c, cl, {call}, "retry", call.op, call.snapshot)
         ELSE Becomes(c, [cl EXCEPT !.isConflict = call.op.verb # "remove"], {call})
    [] IsMutation(call) /\ call.said = "ok" ->
         Becomes(c, [cl EXCEPT !.isConflict = FALSE], {call})
    [] OTHER -> Becomes(c, cl, {call})

\* An answer arrives.
HandleAnswer(call) ==
  /\ call.stage = "answered"
  /\ LET c == call.client
         cl == IF call.said = "ok" THEN ApplyQueue(client[c], call) ELSE client[c]
     IN  /\ Continue(c, cl, call)
         /\ excuse' = [excuse EXCEPT ![c] =
              IF cl.revision < client[c].revision THEN "overtaken"
              ELSE IF call.role = "event" /\ call.said # "ok" /\ @ = "none" THEN "failed"
              ELSE @]
  /\ UNCHANGED <<items, revision, stream, deletions, applied, faults, deleted>>

-----------------------------------------------------------------------------

Next ==
  \/ \E call \in calls : \/ Mutate(call) \/ Read(call) \/ Respond(call)
                         \/ CallFails(call) \/ HandleAnswer(call)
  \/ DeleteTrack
  \/ \E r \in deletions : PublishDeletion(r)
  \/ \E c \in Clients : \/ Subscribe(c) \/ FirstEvent(c) \/ LaterEvent(c)
                        \/ Disconnect(c) \/ HandleEvent(c) \/ Act(c) \/ Refresh(c)

Spec == Init /\ [][Next]_vars

-----------------------------------------------------------------------------
(* Properties *)

\* The Queue stays within its limit and holds no item twice, and no client is
\* ahead of it.
TypeOK ==
  /\ revision \in 0..MaxRevision
  /\ Len(items) <= MaxItems /\ IsInjective(items)
  /\ \A c \in Clients :
       /\ client[c].revision \in 0..revision
       /\ client[c].latest \in Nothing..revision
       /\ client[c].pending \subseteq 0..revision
       /\ client[c].applied \in 0..client[c].next
  /\ \A call \in calls : call.order \in 1..client[call.client].next

\* What a user did once is done at most once, although a conflict is retried
\* and an answer may be lost after the Queue has changed (isQueueConflict).
AppliedOnce == IsInjective(applied)

\* Every operation changes exactly the Queue its client had before its eyes, or
\* had fetched after a conflict: nothing another client did in between is undone
\* unseen ("Mutations based on a stale Queue Revision are rejected", ADR 0010).
ChangesWhatWasSeen ==
  [][\A call \in calls : IsMutation(call) /\ revision' # revision /\ Mutate(call)
       => items = call.basis.items]_vars

\* Nothing about the Queue is on its way to the client.
IsSettled(c) ==
  /\ stream[c].stage = "live" /\ stream[c].slot = Nothing /\ stream[c].wire = << >>
  /\ deletions = {}
  /\ \A call \in calls : call.client # c /\ call.stage \notin {"committed", "read"}

\* A client to which nothing is on its way shows the Queue as it is, through
\* reconnects, lost requests and concurrent changes (handlers.rs subscribes
\* before it reads; a refetch that fails is repeated after a reconnect), unless
\* an older answer or event replaced a newer one, or a change was not published.
SettledIsCurrent ==
  \A c \in Clients :
    IsSettled(c) /\ excuse[c] = "none" => client[c].revision = revision

\* "keeps newest Queue when refetches resolve out of revision order"
\* (use-synchronized-queue.test.tsx).
KeepsNewest ==
  [][\A c \in Clients : client'[c].revision >= client[c].revision]_vars
=============================================================================
