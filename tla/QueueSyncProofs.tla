-------------------------- MODULE QueueSyncProofs --------------------------
(***************************************************************************)
(* Proofs about Queue Synchronization, for any number of clients, requests *)
(* under way, lost answers, reconnects and deletions: the shapes and       *)
(* bounds of what is held, that an operation is applied once, that it      *)
(* changes the Queue its client saw, and that a client to which nothing is *)
(* on its way shows the Queue as it is.                                    *)
(***************************************************************************)
EXTENDS QueueSync, SequenceTheorems, TLAPS

----------------------------------------------------------------------------
(* Shapes *)

Snapshots == [items : Seq(Nat), revision : Int]
Verbs == {"append", "play", "replace", "clear", "remove", "reorder"}
Events == [verb : {"get"}, event : Nat]
Intents == Clients \X Nat
Deeds == [verb : Verbs, item : Nat, order : Seq(Nat), intent : Intents]
Roles == {"refresh", "event", "try", "fetch", "retry"}

CallShapes ==
  [client : Clients, order : Nat, role : Roles, op : {NoOp} \cup Events \cup Deeds,
   basis : Snapshots, stage : {"sent", "committed", "read", "answered"},
   said : {"nothing", "ok", "conflict", "refused", "error"}, snapshot : Snapshots]

ClientShapes ==
  [items : Seq(Nat), revision : Nat, latest : Int, pending : SUBSET Nat,
   next : Nat, applied : Nat, intents : Nat, isConflict : BOOLEAN]

StreamShapes ==
  [stage : {"off", "subscribed", "live"}, slot : Int, wire : Seq(Nat), opened : Nat]

----------------------------------------------------------------------------
(* The inductive invariant.  Its parts name the Queue q and its revision r,  *)
(* so that what is held can be compared with the Queue before and after.     *)

\* A copy of the Queue is of an earlier revision, or the Queue itself.
IsCopy(s, q, r) ==
  /\ s \in Snapshots /\ IsInjective(s.items)
  /\ s.revision <= r
  /\ s.revision = r => s.items = q

Held(cl) == [items |-> cl.items, revision |-> cl.revision]

ClientOK(cl, q, r) ==
  /\ cl \in ClientShapes
  /\ IsCopy(Held(cl), q, r)
  /\ cl.latest \in Nothing..r /\ cl.pending \subseteq 0..r
  /\ cl.applied <= cl.next

\* A request of a client that has numbered its requests up to n.
CallOK(call, q, r, n) ==
  /\ call \in CallShapes
  /\ call.order \in 1..n
  /\ IsCopy(call.basis, q, r) /\ IsCopy(call.snapshot, q, r)
  /\ call.said = "ok" \/ call.stage = "read" => call.snapshot.revision \in Nat
  /\ call.role = "event" =>
       /\ call.op \in Events /\ call.op.event <= r
       /\ call.snapshot.revision \in Nat => call.op.event <= call.snapshot.revision
  /\ call.role \in {"try", "fetch", "retry"} => call.op \in Deeds /\ IsInjective(call.op.order)

StreamOK(st, r) ==
  /\ st \in StreamShapes
  /\ st.slot \in Nothing..r
  /\ \A i \in DOMAIN st.wire : st.wire[i] <= r

QueueOK(q, r) ==
  /\ q \in Seq(Nat) /\ r \in 0..MaxRevision
  /\ Len(q) <= MaxItems /\ IsInjective(q)
  /\ \A i \in DOMAIN q : q[i] <= r

IInv ==
  /\ QueueOK(items, revision)
  /\ DOMAIN client = Clients /\ DOMAIN stream = Clients
  /\ \A c \in Clients : ClientOK(client[c], items, revision)
  /\ \A call \in calls : CallOK(call, items, revision, client[call.client].next)
  /\ \A c \in Clients : StreamOK(stream[c], revision)
  /\ deletions \subseteq 0..revision
  /\ excuse \in [Clients -> {"none", "failed", "overtaken"}]

----------------------------------------------------------------------------
(* Applied once *)

\* The request, or one its client sends on its answer, may still change the Queue.
MayApply(call) ==
  \/ /\ call.role = "try"
     /\ \/ call.stage = "sent"
        \/ call.stage = "answered" /\ call.said = "conflict"
  \/ call.role = "fetch"
  \/ call.role = "retry" /\ call.stage = "sent"

\* Every intent has one request at most that may still apply it, none once it
\* is applied, and was formed by its client.
Formed(intent) == intent \in Intents /\ intent[2] <= client[intent[1]].intents

OnceInv ==
  /\ applied \in Seq(Intents) /\ IsInjective(applied)
  /\ \A i \in DOMAIN applied : Formed(applied[i])
  /\ \A call \in calls :
       MayApply(call) => Formed(call.op.intent) /\ ~Has(applied, call.op.intent)
  /\ \A x, y \in calls :
       MayApply(x) /\ MayApply(y) /\ x.op.intent = y.op.intent => x = y

----------------------------------------------------------------------------
(* Settled is current *)

\* An answer to a request sent after an event's refetch is no older than the event.
AnswersFollow ==
  \A x, y \in calls :
    /\ x.role = "event" /\ x.client = y.client /\ x.order < y.order
    /\ y.snapshot.revision # Nothing
    => x.op.event <= y.snapshot.revision

\* Nor is what a client shows after it applied such an answer.
ShownFollows ==
  \A x \in calls :
    x.role = "event" /\ x.order < client[x.client].applied
    => x.op.event <= client[x.client].revision

\* A client is refetching every event it holds as pending.
PendingIsFetched ==
  \A c \in Clients : \A e \in client[c].pending :
    \E x \in calls : x.client = c /\ x.role = "event" /\ x.op.event = e

\* The newest change has yet to be published.
IsUnpublished ==
  \/ revision \in deletions
  \/ \E x \in calls : \/ x.stage = "committed"
                      \/ x.stage = "read" /\ x.snapshot.revision = revision

\* The newest revision is on its way to the client, or has arrived.
IsAnnounced(c) ==
  \/ IsUnpublished
  \/ stream[c].stage = "subscribed"
  \/ stream[c].slot = revision
  \/ \E i \in DOMAIN stream[c].wire : stream[c].wire[i] = revision
  \/ revision \in client[c].pending
  \/ client[c].latest = revision
  \/ client[c].revision = revision

NewsInv ==
  /\ AnswersFollow /\ ShownFollows /\ PendingIsFetched
  /\ \A c \in Clients : excuse[c] # "overtaken" => client[c].latest <= client[c].revision
  /\ \A c \in Clients : excuse[c] = "none" /\ stream[c].stage # "off" => IsAnnounced(c)

----------------------------------------------------------------------------
(* The Queue *)

LEMMA PlaceOfItem ==
  ASSUME NEW q \in Seq(Nat), NEW item, Has(q, item)
  PROVE  PlaceOf(q, item) \in 1..Len(q) /\ q[PlaceOf(q, item)] = item
<1>1. \E i \in DOMAIN q : q[i] = item
  BY DEF Has, ToSet
<1> QED BY <1>1 DEF PlaceOf

LEMMA QueueOKBy ==
  ASSUME NEW q \in Seq(Nat), NEW r \in Nat, r < MaxRevision, Len(q) <= MaxItems,
         IsInjective(q), \A i \in 1..Len(q) : q[i] <= r + 1
  PROVE  QueueOK(q, r + 1)
<1>1. r + 1 \in 0..MaxRevision
  BY QueueSyncAssumption
<1>2. DOMAIN q = 1..Len(q)
  OBVIOUS
<1> QED BY <1>1, <1>2 DEF QueueOK

LEMMA PrefixOK ==
  ASSUME NEW q, NEW r \in Nat, QueueOK(q, r), r < MaxRevision, NEW i \in 0..Len(q)
  PROVE  QueueOK(SubSeq(q, 1, i), r + 1)
<1>1. q \in Seq(Nat) /\ Len(q) <= MaxItems /\ MaxItems \in Nat /\ MaxRevision \in Nat
  BY QueueSyncAssumption DEF QueueOK
<1>2. /\ SubSeq(q, 1, i) \in Seq(Nat) /\ Len(SubSeq(q, 1, i)) = i
      /\ \A j \in 1..i : SubSeq(q, 1, i)[j] = q[j]
  BY <1>1
<1>3. i <= MaxItems
  BY <1>1
<1>4. \A j \in 1..i : q[j] \in Nat /\ q[j] <= r
  BY <1>1 DEF QueueOK
<1>5. IsInjective(SubSeq(q, 1, i))
  <2> DEFINE p == SubSeq(q, 1, i)
  <2>1. DOMAIN p = 1..i /\ DOMAIN q = 1..Len(q) /\ \A j \in 1..i : p[j] = q[j] /\ j \in 1..Len(q)
    BY <1>1, <1>2
  <2>2. IsInjective(q)
    BY DEF QueueOK
  <2> HIDE DEF p
  <2>3. IsInjective(p)
    BY <2>1, <2>2 DEF IsInjective
  <2> QED BY <2>3 DEF p
<1>6. \A j \in 1..Len(SubSeq(q, 1, i)) : SubSeq(q, 1, i)[j] <= r + 1
  BY <1>2, <1>4
<1> QED BY <1>2, <1>3, <1>5, <1>6, QueueOKBy

LEMMA WithoutOK ==
  ASSUME NEW q, NEW r \in Nat, QueueOK(q, r), r < MaxRevision, NEW item, Has(q, item)
  PROVE  QueueOK(Without(q, item), r + 1)
<1> DEFINE k == PlaceOf(q, item)
           w == Without(q, item)
<1>1. /\ q \in Seq(Nat) /\ Len(q) <= MaxItems /\ MaxItems \in Nat /\ MaxRevision \in Nat
      /\ k \in 1..Len(q) /\ Len(q) \in Nat
  BY QueueSyncAssumption, PlaceOfItem DEF QueueOK
<1> HIDE DEF k
<1>2. w = SubSeq(q, 1, k - 1) \o SubSeq(q, k + 1, Len(q))
  BY DEF Without, RemoveAt, k
<1> HIDE DEF w
<1>3. /\ w \in Seq(Nat) /\ Len(w) = Len(q) - 1
      /\ \A j \in 1..Len(w) : w[j] = IF j < k THEN q[j] ELSE q[j + 1]
  <2> DEFINE a == SubSeq(q, 1, k - 1)
             b == SubSeq(q, k + 1, Len(q))
  <2>1. a \in Seq(Nat) /\ Len(a) = k - 1 /\ \A j \in 1..k - 1 : a[j] = q[j]
    BY <1>1
  <2>2. b \in Seq(Nat) /\ Len(b) = Len(q) - k /\ \A j \in 1..Len(q) - k : b[j] = q[k + j]
    <3>1. k + 1 \in Int /\ Len(q) \in Int /\ \A i \in k + 1..Len(q) : q[i] \in Nat
      BY <1>1
    <3>2. /\ b \in Seq(Nat)
          /\ Len(b) = IF k + 1 <= Len(q) THEN Len(q) - (k + 1) + 1 ELSE 0
          /\ \A j \in 1..Len(q) - (k + 1) + 1 : b[j] = q[(k + 1) + j - 1]
      BY <3>1, SubSeqProperties
    <3> HIDE DEF b
    <3>3. Len(b) = Len(q) - k /\ Len(q) - (k + 1) + 1 = Len(q) - k
      BY <1>1, <3>2
    <3>4. \A j \in 1..Len(q) - k : (k + 1) + j - 1 = k + j
      BY <1>1
    <3> QED BY <3>2, <3>3, <3>4
  <2> HIDE DEF a, b
  <2>3. /\ a \o b \in Seq(Nat) /\ Len(a \o b) = Len(a) + Len(b)
        /\ \A j \in 1..Len(a) + Len(b) : (a \o b)[j] = IF j <= Len(a) THEN a[j] ELSE b[j - Len(a)]
    BY <2>1, <2>2, ConcatProperties
  <2>4. w = a \o b
    BY <1>2 DEF a, b
  <2>5. w \in Seq(Nat) /\ Len(w) = Len(q) - 1
    <3>1. k \in Int /\ (k - 1) + (Len(q) - k) = Len(q) - 1
      BY <1>1
    <3> QED BY <2>1, <2>2, <2>3, <2>4, <3>1
  <2>6. ASSUME NEW j \in 1..Len(w)
        PROVE  w[j] = IF j < k THEN q[j] ELSE q[j + 1]
    <3>1. j \in 1..Len(a) + Len(b)
      BY <2>3, <2>4
    <3>2. CASE j < k
      <4>1. j <= Len(a) /\ j \in 1..k - 1
        BY <1>1, <2>1, <3>1, <3>2
      <4>2. w[j] = a[j]
        BY <2>3, <2>4, <3>1, <4>1
      <4> QED BY <2>1, <3>2, <4>1, <4>2
    <3>3. CASE ~(j < k)
      <4>1. ~(j <= Len(a)) /\ j - Len(a) = j - k + 1 /\ j - k + 1 \in 1..Len(q) - k
        BY <1>1, <2>1, <2>2, <3>1, <3>3
      <4>2. w[j] = b[j - k + 1]
        BY <2>3, <2>4, <3>1, <4>1
      <4>3. k + (j - k + 1) = j + 1
        BY <1>1, <3>1, <2>1, <2>2
      <4>4. b[j - k + 1] = q[k + (j - k + 1)]
        BY <2>2, <4>1
      <4> QED BY <3>3, <4>2, <4>3, <4>4
    <3> QED BY <3>2, <3>3
  <2> QED BY <2>5, <2>6
<1>4. Len(w) <= MaxItems
  BY <1>1, <1>3
<1>5. \A j \in 1..Len(w) : w[j] <= r + 1
  <2> TAKE j \in 1..Len(w)
  <2>1. j \in 1..Len(q) /\ j + 1 \in 1..Len(q)
    <3>1. Len(q) \in Nat /\ Len(w) = Len(q) - 1
      BY <1>1, <1>3
    <3> QED BY ONLY <3>1, j \in 1..Len(w)
  <2>2. q[j] \in Nat /\ q[j + 1] \in Nat /\ q[j] <= r /\ q[j + 1] <= r
    BY <1>1, <2>1 DEF QueueOK
  <2> QED BY <1>3, <2>2
<1>6. IsInjective(w)
  <2> SUFFICES ASSUME NEW i \in 1..Len(w), NEW j \in 1..Len(w), w[i] = w[j] PROVE i = j
    <3>1. DOMAIN w = 1..Len(w)
      BY <1>3
    <3> QED BY <3>1 DEF IsInjective
  <2> DEFINE a == IF i < k THEN i ELSE i + 1
             b == IF j < k THEN j ELSE j + 1
  <2>1. a \in 1..Len(q) /\ b \in 1..Len(q)
    <3>1. /\ k \in Int /\ Len(q) \in Int /\ k <= Len(q) /\ 1 <= k
          /\ i \in 1..Len(q) - 1 /\ j \in 1..Len(q) - 1
      BY <1>1, <1>3
    <3> QED BY <3>1
  <2>2. w[i] = q[a] /\ w[j] = q[b]
    BY <1>3
  <2>3. a = b
    <3> HIDE DEF a, b
    <3>1. DOMAIN q = 1..Len(q)
      BY <1>1
    <3> QED BY <2>1, <2>2, <3>1 DEF QueueOK, IsInjective
  <2> QED
    <3>1. k \in Int /\ i \in Int /\ j \in Int
      BY <1>1, <1>3
    <3> QED BY <2>3, <3>1
<1> QED BY <1>3, <1>4, <1>5, <1>6, QueueOKBy DEF w

\* An accepted operation leaves a Queue within its limit, without an item twice.
LEMMA ChangedOK ==
  ASSUME NEW q, NEW r \in Nat, QueueOK(q, r), r < MaxRevision,
         NEW op \in Deeds, IsInjective(op.order), Accepts(q, op)
  PROVE  QueueOK(Changed(q, op, r + 1), r + 1)
<1>1. /\ q \in Seq(Nat) /\ MaxItems \in Nat /\ MaxItems > 0 /\ MaxRevision \in Nat
      /\ op.verb \in Verbs /\ op.item \in Nat /\ op.order \in Seq(Nat)
  BY QueueSyncAssumption DEF QueueOK, Deeds
<1>2. CASE op.verb = "append"
  <2>1. Changed(q, op, r + 1) = Append(q, r + 1) /\ Len(q) < MaxItems
    BY <1>2 DEF Changed, Accepts
  <2>2. /\ Append(q, r + 1) \in Seq(Nat) /\ Len(Append(q, r + 1)) = Len(q) + 1
        /\ \A i \in 1..Len(q) + 1 : Append(q, r + 1)[i] = IF i <= Len(q) THEN q[i] ELSE r + 1
    BY <1>1
  <2>3. \A i \in 1..Len(q) : q[i] \in Nat /\ q[i] <= r
    BY <1>1 DEF QueueOK
  <2>4. IsInjective(Append(q, r + 1))
    BY <1>1, <2>2, <2>3 DEF QueueOK, IsInjective
  <2>5. \A i \in 1..Len(q) + 1 : Append(q, r + 1)[i] <= r + 1
    BY <1>1, <2>2, <2>3
  <2>6. Len(Append(q, r + 1)) <= MaxItems
    BY <1>1, <2>1, <2>2
  <2> QED BY <2>1, <2>2, <2>4, <2>5, <2>6, QueueOKBy
<1>3. CASE op.verb \in {"play", "replace"}
  <2>1. Changed(q, op, r + 1) = <<r + 1>>
    BY <1>3 DEF Changed
  <2>2. IsInjective(<<r + 1>>)
    BY DEF IsInjective
  <2>3. <<r + 1>> \in Seq(Nat) /\ Len(<<r + 1>>) = 1 /\ <<r + 1>>[1] = r + 1
    OBVIOUS
  <2>4. Len(<<r + 1>>) <= MaxItems /\ \A i \in 1..Len(<<r + 1>>) : <<r + 1>>[i] <= r + 1
    BY <1>1, <2>3
  <2> QED BY <2>1, <2>2, <2>3, <2>4, QueueOKBy
<1>4. CASE op.verb = "remove"
  <2>1. Changed(q, op, r + 1) = Without(q, op.item) /\ Has(q, op.item)
    BY <1>4 DEF Changed, Accepts
  <2> QED BY <2>1, WithoutOK
<1>5. CASE op.verb = "clear"
  <2>1. CASE op.item = NoItem
    <3>1. Changed(q, op, r + 1) = << >>
      BY <1>5, <2>1 DEF Changed
    <3>2. IsInjective(<< >>)
      BY DEF IsInjective
    <3>3. << >> \in Seq(Nat) /\ Len(<< >>) = 0
      OBVIOUS
    <3>4. Len(<< >>) <= MaxItems /\ \A i \in 1..Len(<< >>) : << >>[i] <= r + 1
      BY <1>1, <3>3
    <3> QED BY <3>1, <3>2, <3>3, <3>4, QueueOKBy
  <2>2. CASE op.item # NoItem
    <3>1. Changed(q, op, r + 1) = SubSeq(q, 1, PlaceOf(q, op.item)) /\ Has(q, op.item)
      BY <1>5, <2>2 DEF Changed, Accepts
    <3>2. PlaceOf(q, op.item) \in 0..Len(q)
      BY <1>1, <3>1, PlaceOfItem
    <3> QED BY <3>1, <3>2, PrefixOK
  <2> QED BY <2>1, <2>2
<1>6. CASE op.verb = "reorder"
  <2>1. /\ Changed(q, op, r + 1) = op.order
        /\ Len(op.order) = Len(q) /\ ToSet(op.order) = ToSet(q)
    BY <1>6 DEF Changed, Accepts
  <2>2. \A i \in 1..Len(q) : q[i] \in Nat /\ q[i] <= r
    BY <1>1 DEF QueueOK
  <2>3. \A i \in 1..Len(op.order) : op.order[i] <= r + 1
    <3> TAKE i \in 1..Len(op.order)
    <3>1. op.order[i] \in ToSet(q)
      <4>1. i \in DOMAIN op.order
        BY <1>1
      <4>2. op.order[i] \in ToSet(op.order)
        BY <4>1 DEF ToSet
      <4> QED BY <2>1, <4>2
    <3>2. PICK j \in 1..Len(q) : op.order[i] = q[j]
      <4>1. DOMAIN q = 1..Len(q)
        BY <1>1
      <4> QED BY ONLY <3>1, <4>1 DEF ToSet
    <3> QED BY <2>2, <3>2
  <2>4. Len(op.order) <= MaxItems
    BY <2>1 DEF QueueOK
  <2> QED BY <1>1, <2>1, <2>3, <2>4, QueueOKBy
<1> QED BY <1>1, <1>2, <1>3, <1>4, <1>5, <1>6 DEF Verbs

----------------------------------------------------------------------------
(* What is held survives a change of the Queue *)

LEMMA CopyLater ==
  ASSUME NEW s, NEW q, NEW r \in Int, IsCopy(s, q, r), NEW q2, NEW r2 \in Int, r < r2
  PROVE  IsCopy(s, q2, r2)
BY DEF IsCopy, Snapshots

LEMMA ClientLater ==
  ASSUME NEW cl, NEW q, NEW r \in Int, ClientOK(cl, q, r), NEW q2, NEW r2 \in Int, r < r2
  PROVE  ClientOK(cl, q2, r2)
<1>1. IsCopy(Held(cl), q2, r2)
  BY CopyLater DEF ClientOK
<1>2. cl.latest \in Nothing..r2 /\ cl.pending \subseteq 0..r2
  BY DEF ClientOK, Nothing
<1> QED BY <1>1, <1>2 DEF ClientOK

LEMMA CallLater ==
  ASSUME NEW call, NEW q, NEW r \in Int, NEW n, CallOK(call, q, r, n),
         NEW q2, NEW r2 \in Int, r < r2
  PROVE  CallOK(call, q2, r2, n)
<1>1. IsCopy(call.basis, q2, r2) /\ IsCopy(call.snapshot, q2, r2)
  BY CopyLater DEF CallOK
<1>2. call.role = "event" => call.op.event <= r2
  BY DEF CallOK, Events
<1> QED BY <1>1, <1>2 DEF CallOK

LEMMA StreamLater ==
  ASSUME NEW st, NEW r \in Int, StreamOK(st, r), NEW r2 \in Int, r < r2
  PROVE  StreamOK(st, r2)
<1>1. \A i \in DOMAIN st.wire : st.wire[i] \in Nat
  BY DEF StreamOK, StreamShapes
<1> QED BY <1>1 DEF StreamOK, StreamShapes, Nothing

LEMMA CallOfMore ==
  ASSUME NEW call, NEW q, NEW r, NEW n \in Nat, CallOK(call, q, r, n), NEW m \in Nat, n <= m
  PROVE  CallOK(call, q, r, m)
BY DEF CallOK, CallShapes

\* The empty answer is a copy of every Queue.
LEMMA NoSnapshotIsCopy ==
  ASSUME NEW q, NEW r \in Nat
  PROVE  IsCopy(NoSnapshot, q, r)
<1>1. IsInjective(<< >>)
  BY DEF IsInjective
<1> QED BY <1>1 DEF IsCopy, NoSnapshot, Nothing, Snapshots

LEMMA SnapshotIsCopy ==
  ASSUME QueueOK(items, revision)
  PROVE  IsCopy(Snapshot, items, revision) /\ Snapshot.revision = revision
BY QueueSyncAssumption DEF QueueOK, IsCopy, Snapshot, Snapshots

----------------------------------------------------------------------------
(* Requests *)

\* What the server does to a request leaves what the client asked.
IsSameRequest(new, call) ==
  /\ new \in CallShapes
  /\ new.client = call.client /\ new.order = call.order /\ new.role = call.role
  /\ new.op = call.op /\ new.basis = call.basis

LEMMA AnsweredShape ==
  ASSUME NEW call \in CallShapes, NEW snapshot \in Snapshots,
         NEW said \in {"ok", "conflict", "refused", "error"}
  PROVE  LET new == Answered(call, said, snapshot)
         IN  /\ IsSameRequest(new, call)
             /\ new.stage = "answered" /\ new.said = said /\ new.snapshot = snapshot
BY DEF Answered, IsSameRequest, CallShapes

LEMMA CommittedShape ==
  ASSUME NEW call \in CallShapes
  PROVE  LET new == [call EXCEPT !.stage = "committed"]
         IN  /\ IsSameRequest(new, call)
             /\ new.stage = "committed" /\ new.said = call.said /\ new.snapshot = call.snapshot
BY DEF IsSameRequest, CallShapes

LEMMA ReadShape ==
  ASSUME NEW call \in CallShapes, NEW snapshot \in Snapshots
  PROVE  LET new == [call EXCEPT !.stage = "read", !.snapshot = snapshot]
         IN  /\ IsSameRequest(new, call)
             /\ new.stage = "read" /\ new.said = call.said /\ new.snapshot = snapshot
BY DEF IsSameRequest, CallShapes

LEMMA NewCallShape ==
  ASSUME NEW c \in Clients, NEW n \in Nat, NEW role \in Roles,
         NEW op \in {NoOp} \cup Events \cup Deeds, NEW basis \in Snapshots
  PROVE  LET new == Call(c, n, role, op, basis)
         IN  /\ new \in CallShapes
             /\ new.client = c /\ new.order = n /\ new.role = role /\ new.op = op
             /\ new.basis = basis /\ new.stage = "sent" /\ new.said = "nothing"
             /\ new.snapshot = NoSnapshot
<1>1. NoSnapshot \in Snapshots
  BY DEF NoSnapshot, Snapshots, Nothing
<1> QED BY <1>1 DEF Call, CallShapes

LEMMA SameRequestOK ==
  ASSUME NEW call, NEW new, NEW q, NEW r \in Int, NEW n, CallOK(call, q, r, n),
         IsSameRequest(new, call), IsCopy(new.snapshot, q, r),
         new.said = "ok" \/ new.stage = "read" => new.snapshot.revision \in Nat,
         \/ new.snapshot = call.snapshot \/ new.snapshot.revision \notin Nat
         \/ new.snapshot.revision = r
  PROVE  CallOK(new, q, r, n)
<1>1. ASSUME new.role = "event"
      PROVE  /\ new.op \in Events /\ new.op.event <= r
             /\ new.snapshot.revision \in Nat => new.op.event <= new.snapshot.revision
  BY <1>1 DEF CallOK, IsSameRequest
<1> QED BY <1>1 DEF CallOK, IsSameRequest

LEMMA NewCallOK ==
  ASSUME NEW c \in Clients, NEW n \in Nat, n > 0, NEW role \in Roles,
         NEW op \in {NoOp} \cup Events \cup Deeds, NEW basis, NEW q, NEW r \in Nat,
         IsCopy(basis, q, r),
         role = "event" => op \in Events /\ op.event <= r,
         role \in {"try", "fetch", "retry"} => op \in Deeds /\ IsInjective(op.order)
  PROVE  CallOK(Call(c, n, role, op, basis), q, r, n)
<1> DEFINE new == Call(c, n, role, op, basis)
<1>1. /\ new \in CallShapes /\ new.order = n /\ new.role = role /\ new.op = op
      /\ new.basis = basis /\ new.stage = "sent" /\ new.said = "nothing"
      /\ new.snapshot = NoSnapshot
  BY NewCallShape DEF IsCopy
<1> HIDE DEF new
<1>2. IsCopy(new.snapshot, q, r) /\ new.snapshot.revision = -1
  BY <1>1, NoSnapshotIsCopy DEF NoSnapshot, Nothing
<1>3. CallOK(new, q, r, n)
  BY <1>1, <1>2 DEF CallOK
<1> QED BY <1>3 DEF new

----------------------------------------------------------------------------
(* The steps preserve the invariant *)

LEMMA InitIInv == Init => IInv
<1> SUFFICES ASSUME Init PROVE IInv
  OBVIOUS
<1>0. items = << >> /\ revision = 0 /\ deletions = {}
  BY DEF Init
<1>1. items \in Seq(Nat) /\ Len(items) = 0 /\ DOMAIN items = {}
  BY <1>0
<1>a. IsInjective(items)
  BY <1>1 DEF IsInjective
<1>2. QueueOK(items, revision)
  BY <1>0, <1>1, <1>a, QueueSyncAssumption DEF QueueOK
<1>3. ASSUME NEW c \in Clients
      PROVE  ClientOK(client[c], items, revision) /\ client[c].next = 1
  <2>0. PICK a \in {0, 1} :
          client[c] = [items |-> items, revision |-> 0, latest |-> -1, pending |-> {},
                       next |-> 1, applied |-> a, intents |-> 0, isConflict |-> FALSE]
    BY <1>0 DEF Init, NewClient, Nothing
  <2>1. /\ client[c] \in ClientShapes /\ client[c].next = 1 /\ client[c].items = items
        /\ client[c].revision = 0 /\ client[c].latest = -1 /\ client[c].pending = {}
        /\ client[c].applied \in {0, 1}
    BY <1>1, <2>0 DEF ClientShapes
  <2>2. IsCopy(Held(client[c]), items, revision)
    BY <1>0, <1>1, <1>a, <2>1 DEF IsCopy, Held, Snapshots
  <2> QED BY <1>0, <2>1, <2>2 DEF ClientOK, Nothing
<1>4. ASSUME NEW call \in calls
      PROVE  CallOK(call, items, revision, client[call.client].next)
  <2>1. PICK c \in Opening : call = Call(c, 1, "refresh", NoOp, NoSnapshot)
    BY DEF Init
  <2>2. c \in Clients /\ call.client = c
    BY <2>1, QueueSyncAssumption DEF Call
  <2>3. IsCopy(NoSnapshot, items, revision) /\ revision \in Nat
    BY NoSnapshotIsCopy DEF Init
  <2> QED BY <1>3, <2>1, <2>2, <2>3, NewCallOK DEF Roles
<1>5. ASSUME NEW c \in Clients
      PROVE  StreamOK(stream[c], revision)
  <2>1. stream[c] = [stage |-> "off", slot |-> -1, wire |-> items, opened |-> 0]
    BY <1>0 DEF Init, NoStream, Nothing
  <2> QED BY <1>0, <1>1, <2>1 DEF StreamOK, StreamShapes, Nothing
<1>6. DOMAIN client = Clients /\ DOMAIN stream = Clients /\ excuse \in [Clients -> {"none", "failed", "overtaken"}]
  BY DEF Init
<1> QED BY <1>0, <1>2, <1>3, <1>4, <1>5, <1>6 DEF IInv

\* The Queue changes, and everybody's copies of it grow older.
LEMMA AdvanceKeeps ==
  ASSUME IInv, QueueOK(items', revision'), revision' = revision + 1, UNCHANGED <<client, stream>>
  PROVE  /\ \A c \in Clients : ClientOK(client[c], items', revision')
         /\ \A call \in calls : CallOK(call, items', revision', client[call.client].next)
         /\ \A c \in Clients : StreamOK(stream[c], revision')
         /\ deletions \cup {revision'} \subseteq 0..revision'
<1>1. revision \in Int /\ revision' \in Int /\ revision < revision' /\ revision \in Nat
  BY QueueSyncAssumption DEF IInv, QueueOK
<1>2. \A c \in Clients : ClientOK(client[c], items', revision')
  BY <1>1, ClientLater DEF IInv
<1>3. \A call \in calls : CallOK(call, items', revision', client[call.client].next)
  BY <1>1, CallLater DEF IInv
<1>4. \A c \in Clients : StreamOK(stream[c], revision')
  BY <1>1, StreamLater DEF IInv
<1>5. deletions \cup {revision'} \subseteq 0..revision'
  <2>1. deletions \subseteq 0..revision
    BY DEF IInv
  <2> QED BY <1>1, <2>1
<1> QED BY <1>2, <1>3, <1>4, <1>5

LEMMA MutateIInv ==
  ASSUME IInv, NEW call \in calls, Mutate(call)
  PROVE  IInv'
<1>1. /\ CallOK(call, items, revision, client[call.client].next) /\ call \in CallShapes
      /\ revision \in Nat /\ QueueOK(items, revision) /\ MaxRevision \in Nat
  BY QueueSyncAssumption DEF IInv, CallOK, QueueOK
<1>2. UNCHANGED <<client, stream, deletions, excuse>>
  BY DEF Mutate
<1>3. CASE call.basis.revision = revision /\ Accepts(items, call.op)
  <2> DEFINE new == [call EXCEPT !.stage = "committed"]
  <2>1. /\ items' = Changed(items, call.op, revision + 1) /\ revision' = revision + 1
        /\ revision < MaxRevision /\ Goes(call, new)
    BY <1>3 DEF Mutate
  <2>2. call.op \in Deeds /\ IsInjective(call.op.order)
    BY <1>1 DEF CallOK, Mutate, IsMutation
  <2>3. QueueOK(items', revision')
    BY <1>1, <1>3, <2>1, <2>2, ChangedOK
  <2>4. /\ \A c \in Clients : ClientOK(client[c], items', revision')
        /\ \A x \in calls : CallOK(x, items', revision', client[x.client].next)
        /\ \A c \in Clients : StreamOK(stream[c], revision')
        /\ deletions \cup {revision'} \subseteq 0..revision'
    BY <1>2, <2>1, <2>3, AdvanceKeeps
  <2>5. /\ IsSameRequest(new, call) /\ new.stage = "committed" /\ new.said = call.said
        /\ new.snapshot = call.snapshot
    BY <1>1, CommittedShape
  <2> HIDE DEF new
  <2>6. CallOK(new, items', revision', client[new.client].next)
    <3>1. revision' \in Int
      BY <1>1, <2>1
    <3>2. CallOK(call, items', revision', client[call.client].next)
      BY <2>4
    <3>3. IsCopy(new.snapshot, items', revision') /\ (new.said = "ok" => new.snapshot.revision \in Nat)
      BY <2>5, <3>2 DEF CallOK
    <3>4. new.client = call.client
      BY <2>5 DEF IsSameRequest
    <3> QED BY <2>5, <3>1, <3>2, <3>3, <3>4, SameRequestOK
  <2> QED BY <1>2, <2>1, <2>3, <2>4, <2>6 DEF IInv, Goes
<1>4. CASE ~(call.basis.revision = revision /\ Accepts(items, call.op))
  <2>1. PICK said \in {"conflict", "refused"} :
          Goes(call, Answered(call, said, NoSnapshot)) /\ UNCHANGED <<items, revision>>
    BY <1>4 DEF Mutate
  <2> DEFINE new == Answered(call, said, NoSnapshot)
  <2>2. IsCopy(NoSnapshot, items, revision) /\ NoSnapshot \in Snapshots /\ NoSnapshot.revision = -1
    BY <1>1, NoSnapshotIsCopy DEF IsCopy, NoSnapshot, Nothing
  <2>3. IsSameRequest(new, call) /\ new.stage = "answered" /\ new.said = said /\ new.snapshot = NoSnapshot
    BY <1>1, <2>2, AnsweredShape
  <2> HIDE DEF new
  <2>4. CallOK(new, items, revision, client[new.client].next)
    BY <1>1, <2>2, <2>3, SameRequestOK DEF IsSameRequest
  <2> QED BY <1>2, <2>1, <2>4 DEF IInv, Goes, new
<1> QED BY <1>3, <1>4

\* One request moves on, and the Queue and the clients are left alone.
LEMMA GoesKeeps ==
  ASSUME IInv, UNCHANGED <<items, revision, client>>, NEW call \in calls, NEW new, Goes(call, new),
         IsSameRequest(new, call), IsCopy(new.snapshot, items, revision),
         new.said = "ok" \/ new.stage = "read" => new.snapshot.revision \in Nat,
         \/ new.snapshot = call.snapshot \/ new.snapshot.revision \notin Nat
         \/ new.snapshot.revision = revision
  PROVE  /\ QueueOK(items', revision') /\ DOMAIN client' = Clients
         /\ \A c \in Clients : ClientOK(client'[c], items', revision')
         /\ \A x \in calls' : CallOK(x, items', revision', client'[x.client].next)
<1>1. CallOK(call, items, revision, client[call.client].next) /\ revision \in Int
  BY QueueSyncAssumption DEF IInv, QueueOK
<1>2. CallOK(new, items, revision, client[call.client].next) /\ new.client = call.client
  BY <1>1, SameRequestOK DEF IsSameRequest
<1> QED BY <1>2 DEF IInv, Goes

LEMMA ReadIInv ==
  ASSUME IInv, NEW call \in calls, Read(call)
  PROVE  IInv'
<1>1. /\ CallOK(call, items, revision, client[call.client].next) /\ call \in CallShapes
      /\ revision \in Nat /\ QueueOK(items, revision)
  BY QueueSyncAssumption DEF IInv, CallOK, QueueOK
<1>2. IsCopy(Snapshot, items, revision) /\ Snapshot.revision = revision /\ Snapshot \in Snapshots
  BY <1>1, SnapshotIsCopy DEF IsCopy
<1>3. UNCHANGED <<items, revision, client, stream, deletions, excuse>>
  BY DEF Read
<1>4. PICK new :
        /\ Goes(call, new) /\ IsSameRequest(new, call) /\ new.snapshot = Snapshot
    <2>1. CASE Goes(call, Answered(call, "ok", Snapshot))
      BY <1>1, <1>2, <2>1, AnsweredShape
    <2>2. CASE Goes(call, [call EXCEPT !.stage = "read", !.snapshot = Snapshot])
      BY <1>1, <1>2, <2>2, ReadShape
    <2> QED BY <2>1, <2>2 DEF Read
<1>5. /\ QueueOK(items', revision') /\ DOMAIN client' = Clients
      /\ \A c \in Clients : ClientOK(client'[c], items', revision')
      /\ \A x \in calls' : CallOK(x, items', revision', client'[x.client].next)
  BY <1>1, <1>2, <1>3, <1>4, GoesKeeps
<1> QED BY <1>3, <1>5 DEF IInv

LEMMA PublishKeeps ==
  ASSUME IInv, UNCHANGED revision, NEW r \in 0..revision, Publish(r)
  PROVE  /\ DOMAIN stream' = Clients /\ \A c \in Clients : StreamOK(stream'[c], revision')
         /\ excuse' \in [Clients -> {"none", "failed", "overtaken"}]
<1>1. ASSUME NEW c \in Clients
      PROVE  StreamOK(stream'[c], revision')
  <2>1. stream[c] \in StreamShapes /\ StreamOK(stream[c], revision) /\ revision \in Nat
    BY QueueSyncAssumption DEF IInv, StreamOK, QueueOK
  <2>2. stream'[c] = stream[c] \/ stream'[c] = [stream[c] EXCEPT !.slot = r]
    BY DEF Publish
  <2> QED BY <2>1, <2>2 DEF StreamOK, StreamShapes, Nothing
<1> QED BY <1>1 DEF Publish, IInv

LEMMA RespondIInv ==
  ASSUME IInv, NEW call \in calls, Respond(call)
  PROVE  IInv'
<1>1. /\ CallOK(call, items, revision, client[call.client].next) /\ call \in CallShapes
      /\ revision \in Nat
  BY QueueSyncAssumption DEF IInv, CallOK, QueueOK
<1>2. call.snapshot \in Snapshots /\ call.snapshot.revision \in 0..revision
  BY <1>1 DEF CallOK, IsCopy, Respond
<1>3. UNCHANGED <<items, revision, client, deletions>>
  BY DEF Respond
<1> DEFINE new == Answered(call, "ok", call.snapshot)
<1>4. Goes(call, new) /\ IsSameRequest(new, call) /\ new.snapshot = call.snapshot
  BY <1>1, <1>2, AnsweredShape DEF Respond
<1> HIDE DEF new
<1>5. IsCopy(new.snapshot, items, revision) /\ new.snapshot.revision \in Nat
  BY <1>1, <1>2, <1>4 DEF CallOK
<1>6. /\ QueueOK(items', revision') /\ DOMAIN client' = Clients
      /\ \A c \in Clients : ClientOK(client'[c], items', revision')
      /\ \A x \in calls' : CallOK(x, items', revision', client'[x.client].next)
  BY <1>3, <1>4, <1>5, GoesKeeps
<1>7. /\ DOMAIN stream' = Clients /\ \A c \in Clients : StreamOK(stream'[c], revision')
      /\ excuse' \in [Clients -> {"none", "failed", "overtaken"}]
  BY <1>2, <1>3, PublishKeeps DEF Respond
<1> QED BY <1>3, <1>6, <1>7 DEF IInv

LEMMA CallFailsIInv ==
  ASSUME IInv, NEW call \in calls, CallFails(call)
  PROVE  IInv'
<1>1. call \in CallShapes /\ revision \in Nat
  BY QueueSyncAssumption DEF IInv, CallOK, QueueOK
<1>2. IsCopy(NoSnapshot, items, revision) /\ NoSnapshot \in Snapshots /\ NoSnapshot.revision = -1
  BY <1>1, NoSnapshotIsCopy DEF IsCopy, NoSnapshot, Nothing
<1>3. UNCHANGED <<items, revision, client, stream, deletions>>
  BY DEF CallFails
<1> DEFINE new == Answered(call, "error", NoSnapshot)
<1>4. Goes(call, new) /\ IsSameRequest(new, call) /\ new.snapshot = NoSnapshot
      /\ new.said = "error" /\ new.stage = "answered"
  BY <1>1, <1>2, AnsweredShape DEF CallFails
<1> HIDE DEF new
<1>5. /\ QueueOK(items', revision') /\ DOMAIN client' = Clients
      /\ \A c \in Clients : ClientOK(client'[c], items', revision')
      /\ \A x \in calls' : CallOK(x, items', revision', client'[x.client].next)
  BY <1>2, <1>3, <1>4, GoesKeeps
<1>6. excuse' \in [Clients -> {"none", "failed", "overtaken"}]
  BY DEF CallFails, IInv
<1> QED BY <1>3, <1>5, <1>6 DEF IInv

LEMMA DeleteTrackIInv ==
  ASSUME IInv, DeleteTrack
  PROVE  IInv'
<1>1. revision \in Nat /\ QueueOK(items, revision) /\ revision < MaxRevision
  BY QueueSyncAssumption DEF IInv, QueueOK, DeleteTrack
<1>2. PICK i \in ToSet(items) : items' = Without(items, i)
  BY DEF DeleteTrack
<1>3. /\ revision' = revision + 1 /\ deletions' = deletions \cup {revision'}
      /\ UNCHANGED <<calls, client, stream, excuse>>
  BY DEF DeleteTrack
<1>4. QueueOK(items', revision')
  BY <1>1, <1>2, <1>3, WithoutOK DEF Has
<1>5. /\ \A c \in Clients : ClientOK(client[c], items', revision')
      /\ \A x \in calls : CallOK(x, items', revision', client[x.client].next)
      /\ \A c \in Clients : StreamOK(stream[c], revision')
      /\ deletions \cup {revision'} \subseteq 0..revision'
  BY <1>3, <1>4, AdvanceKeeps
<1> QED BY <1>3, <1>4, <1>5 DEF IInv

LEMMA PublishDeletionIInv ==
  ASSUME IInv, NEW r \in deletions, PublishDeletion(r)
  PROVE  IInv'
<1>1. r \in 0..revision
  BY DEF IInv
<1>2. UNCHANGED <<items, revision, calls, client>> /\ deletions' \subseteq deletions
  BY DEF PublishDeletion
<1>3. /\ DOMAIN stream' = Clients /\ \A c \in Clients : StreamOK(stream'[c], revision')
      /\ excuse' \in [Clients -> {"none", "failed", "overtaken"}]
  BY <1>1, <1>2, PublishKeeps DEF PublishDeletion
<1> QED BY <1>2, <1>3 DEF IInv

LEMMA StreamOKBy ==
  ASSUME NEW st \in StreamShapes, NEW r \in Nat, st.slot \in Nothing..r,
         \A i \in 1..Len(st.wire) : st.wire[i] <= r
  PROVE  StreamOK(st, r)
<1>1. DOMAIN st.wire = 1..Len(st.wire)
  BY DEF StreamShapes
<1> QED BY <1>1 DEF StreamOK

\* One event stream changes, and nothing else.
LEMMA StreamKeeps ==
  ASSUME IInv, NEW c \in Clients, UNCHANGED <<items, revision, calls, client, deletions>>,
         NEW st, stream' = [stream EXCEPT ![c] = st], StreamOK(st, revision),
         excuse' \in [Clients -> {"none", "failed", "overtaken"}]
  PROVE  IInv'
BY DEF IInv

LEMMA StreamStepIInv ==
  ASSUME IInv, NEW c \in Clients,
         Subscribe(c) \/ FirstEvent(c) \/ LaterEvent(c) \/ Disconnect(c)
  PROVE  IInv'
<1>1. /\ stream[c] \in StreamShapes /\ StreamOK(stream[c], revision) /\ revision \in Nat
      /\ DOMAIN stream = Clients /\ excuse \in [Clients -> {"none", "failed", "overtaken"}]
  BY QueueSyncAssumption DEF IInv, StreamOK, QueueOK
<1>2. CASE Subscribe(c)
  <2> DEFINE st == [stage |-> "subscribed", slot |-> Nothing, wire |-> << >>, opened |-> stream[c].opened + 1]
  <2>1. /\ stream' = [stream EXCEPT ![c] = st]
        /\ excuse' \in [Clients -> {"none", "failed", "overtaken"}]
        /\ UNCHANGED <<items, revision, calls, client, deletions>>
    BY <1>1, <1>2 DEF Subscribe
  <2>2. StreamOK(st, revision)
    BY <1>1 DEF StreamOK, StreamShapes, Nothing
  <2> QED BY <2>1, <2>2, StreamKeeps
<1>3. CASE FirstEvent(c)
  <2> DEFINE st == [stream[c] EXCEPT !.stage = "live", !.wire = <<revision>>]
  <2>1. /\ stream' = [stream EXCEPT ![c] = st] /\ excuse' = excuse
        /\ UNCHANGED <<items, revision, calls, client, deletions>>
    BY <1>1, <1>3 DEF FirstEvent
  <2>2. StreamOK(st, revision)
    <3>1. <<revision>> \in Seq(Nat) /\ Len(<<revision>>) = 1 /\ <<revision>>[1] = revision
      BY <1>1
    <3>2. st \in StreamShapes /\ st.slot = stream[c].slot /\ st.wire = <<revision>>
      BY <1>1, <3>1 DEF StreamShapes
    <3>3. st.slot \in Nothing..revision /\ \A i \in 1..Len(st.wire) : st.wire[i] <= revision
      BY <1>1, <3>1, <3>2 DEF StreamOK
    <3> HIDE DEF st
    <3> QED BY <1>1, <3>2, <3>3, StreamOKBy
  <2> QED BY <1>1, <2>1, <2>2, StreamKeeps
<1>4. CASE LaterEvent(c)
  <2> DEFINE w == Append(stream[c].wire, stream[c].slot)
             st == [stream[c] EXCEPT !.wire = w, !.slot = Nothing]
  <2>1. /\ stream' = [stream EXCEPT ![c] = st] /\ excuse' = excuse
        /\ UNCHANGED <<items, revision, calls, client, deletions>>
    BY <1>1, <1>4 DEF LaterEvent
  <2>2. stream[c].slot \in 0..revision
    BY <1>1, <1>4 DEF LaterEvent, StreamOK, Nothing
  <2>3. StreamOK(st, revision)
    <3>1. /\ stream[c].wire \in Seq(Nat) /\ stream[c].slot \in Nat
          /\ \A i \in 1..Len(stream[c].wire) : stream[c].wire[i] <= revision
      BY <1>1, <2>2 DEF StreamOK, StreamShapes
    <3>2. /\ w \in Seq(Nat) /\ Len(w) = Len(stream[c].wire) + 1
          /\ \A i \in 1..Len(w) : w[i] = IF i <= Len(stream[c].wire) THEN stream[c].wire[i] ELSE stream[c].slot
      BY <3>1
    <3>3. \A i \in 1..Len(w) : w[i] <= revision
      BY <2>2, <3>1, <3>2
    <3> HIDE DEF w
    <3>4. st \in StreamShapes /\ st.slot = Nothing /\ st.wire = w
      <4>1. w \in Seq(Nat) /\ Nothing \in Int /\ stream[c] \in StreamShapes
        BY <1>1, <3>2 DEF Nothing
      <4> QED BY <4>1 DEF StreamShapes
    <3>5. Nothing \in Nothing..revision
      BY <1>1 DEF Nothing
    <3> HIDE DEF st
    <3> QED BY <1>1, <3>3, <3>4, <3>5, StreamOKBy
  <2> QED BY <1>1, <2>1, <2>3, StreamKeeps
<1>5. CASE Disconnect(c)
  <2> DEFINE st == [NoStream EXCEPT !.opened = stream[c].opened]
  <2>1. /\ stream' = [stream EXCEPT ![c] = st] /\ excuse' = excuse
        /\ UNCHANGED <<items, revision, calls, client, deletions>>
    BY <1>1, <1>5 DEF Disconnect
  <2>2. StreamOK(st, revision)
    <3>1. st = [stage |-> "off", slot |-> Nothing, wire |-> << >>, opened |-> stream[c].opened]
      BY <1>1 DEF NoStream
    <3> HIDE DEF st
    <3> QED BY <1>1, <3>1 DEF StreamOK, StreamShapes, Nothing
  <2> QED BY <1>1, <2>1, <2>2, StreamKeeps
<1> QED BY <1>2, <1>3, <1>4, <1>5

\* The fields of a client that one step changes.
LEMMA NextField ==
  ASSUME NEW cl \in ClientShapes, NEW n \in Nat
  PROVE  LET new == [cl EXCEPT !.next = n]
         IN  /\ new \in ClientShapes /\ new.next = n /\ Held(new) = Held(cl)
             /\ new.latest = cl.latest /\ new.pending = cl.pending
             /\ new.applied = cl.applied /\ new.intents = cl.intents
             /\ new.revision = cl.revision
BY DEF ClientShapes, Held

LEMMA IntentsField ==
  ASSUME NEW cl \in ClientShapes, NEW n \in Nat
  PROVE  LET new == [cl EXCEPT !.intents = n]
         IN  /\ new \in ClientShapes /\ new.next = cl.next /\ Held(new) = Held(cl)
             /\ new.latest = cl.latest /\ new.pending = cl.pending
             /\ new.applied = cl.applied /\ new.intents = n
BY DEF ClientShapes, Held

\* Two states of a client that differ in the numbers of its requests at most.
SameView(new, cl) ==
  /\ new.revision = cl.revision /\ new.applied = cl.applied /\ new.intents = cl.intents
  /\ new.latest = cl.latest /\ new.pending = cl.pending

\* A client changes and its requests are dropped or joined by a new one.
LEMMA BecomesKeeps ==
  ASSUME IInv, UNCHANGED <<items, revision>>, NEW c \in Clients, NEW cl,
         ClientOK(cl, items, revision), cl.next = client[c].next, NEW done, Becomes(c, cl, done)
  PROVE  /\ QueueOK(items', revision') /\ DOMAIN client' = Clients
         /\ \A d \in Clients : ClientOK(client'[d], items', revision')
         /\ \A x \in calls' : CallOK(x, items', revision', client'[x.client].next)
         /\ SameView(client'[c], cl) /\ \A d \in Clients : d # c => client'[d] = client[d]
<1>1. \A d \in Clients : client'[d] = IF d = c THEN cl ELSE client[d]
  BY DEF Becomes, IInv
<1>2. \A x \in calls' : x \in calls /\ x.client \in Clients
  BY DEF Becomes, IInv, CallOK, CallShapes
<1>3. \A d \in Clients : client'[d].next = client[d].next
  BY <1>1
<1>4. DOMAIN client' = Clients
  BY DEF Becomes, IInv
<1>5. SameView(client'[c], cl)
  BY <1>1 DEF SameView
<1> QED BY <1>1, <1>2, <1>3, <1>4, <1>5 DEF IInv

LEMMA SendsKeeps ==
  ASSUME IInv, UNCHANGED <<items, revision>>, NEW c \in Clients, NEW cl,
         ClientOK(cl, items, revision), cl.next = client[c].next, NEW done, NEW role \in Roles,
         NEW op \in {NoOp} \cup Events \cup Deeds, NEW basis, IsCopy(basis, items, revision),
         role = "event" => op \in Events /\ op.event <= revision,
         role \in {"try", "fetch", "retry"} => op \in Deeds /\ IsInjective(op.order),
         Sends(c, cl, done, role, op, basis)
  PROVE  /\ QueueOK(items', revision') /\ DOMAIN client' = Clients
         /\ \A d \in Clients : ClientOK(client'[d], items', revision')
         /\ \A x \in calls' : CallOK(x, items', revision', client'[x.client].next)
         /\ SameView(client'[c], cl) /\ \A d \in Clients : d # c => client'[d] = client[d]
<1> DEFINE sent == Call(c, cl.next + 1, role, op, basis)
           one == [cl EXCEPT !.next = @ + 1]
<1>1. revision \in Nat /\ cl \in ClientShapes /\ cl.next \in Nat
  BY QueueSyncAssumption DEF IInv, QueueOK, ClientOK, ClientShapes
<1>2. /\ one \in ClientShapes /\ one.next = cl.next + 1 /\ Held(one) = Held(cl)
      /\ one.latest = cl.latest /\ one.pending = cl.pending /\ one.applied = cl.applied
      /\ one.intents = cl.intents /\ one.revision = cl.revision
  <2>1. cl.next + 1 \in Nat
    BY <1>1
  <2> QED BY <1>1, <2>1, NextField
<1> HIDE DEF one
<1>3. ClientOK(one, items, revision)
  <2>1. cl.applied \in Nat /\ cl.applied <= cl.next
    BY <1>1 DEF ClientOK, ClientShapes
  <2>2. one.applied <= one.next
    BY <1>1, <1>2, <2>1
  <2> QED BY <1>2, <2>2 DEF ClientOK
<1>4. CallOK(sent, items, revision, cl.next + 1) /\ sent.client = c
  <2>1. cl.next + 1 \in Nat /\ cl.next + 1 > 0
    BY <1>1
  <2> QED BY <1>1, <2>1, NewCallOK DEF Call
<1> HIDE DEF sent
<1>5. /\ client' = [client EXCEPT ![c] = one] /\ calls' = (calls \ done) \cup {sent}
  BY DEF Sends, sent, one
<1>6. DOMAIN client' = Clients /\ \A d \in Clients : client'[d] = IF d = c THEN one ELSE client[d]
  BY <1>5 DEF IInv
<1>7. ASSUME NEW x \in calls'
      PROVE  CallOK(x, items, revision, client'[x.client].next)
  <2>1. CASE x = sent
    BY <1>2, <1>4, <1>6, <2>1
  <2>2. CASE x \in calls
    <3>1. x.client \in Clients /\ CallOK(x, items, revision, client[x.client].next)
      BY <2>2 DEF IInv, CallOK, CallShapes
    <3>2. /\ client[x.client].next \in Nat /\ client'[x.client].next \in Nat
          /\ client[x.client].next <= client'[x.client].next
      <4>1. client[x.client].next \in Nat
        BY <3>1 DEF IInv, ClientOK, ClientShapes
      <4> QED BY <1>1, <1>2, <1>6, <3>1, <4>1
    <3> QED BY <3>1, <3>2, CallOfMore
  <2> QED BY <1>5, <2>1, <2>2
<1>8. SameView(client'[c], cl)
  BY <1>2, <1>6 DEF SameView, Held
<1> QED BY <1>3, <1>6, <1>7, <1>8 DEF IInv

LEMMA ReverseInjective ==
  ASSUME NEW q \in Seq(Nat), IsInjective(q)
  PROVE  Reverse(q) \in Seq(Nat) /\ IsInjective(Reverse(q))
<1>1. /\ DOMAIN Reverse(q) = 1..Len(q) /\ Len(q) \in Nat
      /\ \A i \in 1..Len(q) : /\ Reverse(q)[i] = q[(Len(q) - i) + 1]
                              /\ (Len(q) - i) + 1 \in 1..Len(q)
  BY DEF Reverse
<1>2. Reverse(q) \in Seq(Nat)
  BY <1>1 DEF Reverse
<1>3. ASSUME NEW i \in 1..Len(q), NEW j \in 1..Len(q), Reverse(q)[i] = Reverse(q)[j]
      PROVE  i = j
  <2>1. PICK a \in DOMAIN q, b \in DOMAIN q :
          a = (Len(q) - i) + 1 /\ b = (Len(q) - j) + 1 /\ q[a] = q[b]
    BY <1>1, <1>3
  <2>2. a = b
    BY <2>1 DEF IsInjective
  <2> QED BY <1>1, <2>1, <2>2
<1> QED BY <1>1, <1>2, <1>3 DEF IsInjective

LEMMA UserOpsAre ==
  ASSUME NEW c \in Clients, NEW cl, NEW q, NEW r, ClientOK(cl, q, r), NEW op \in UserOps(c, cl)
  PROVE  op \in Deeds /\ IsInjective(op.order) /\ op.intent = <<c, cl.intents + 1>>
<1>1. cl.items \in Seq(Nat) /\ IsInjective(cl.items) /\ cl.intents \in Nat
  BY DEF ClientOK, ClientShapes, IsCopy, Held
<1>2. Reverse(cl.items) \in Seq(Nat) /\ IsInjective(Reverse(cl.items))
  BY <1>1, ReverseInjective
<1>3. << >> \in Seq(Nat) /\ IsInjective(<< >>)
  BY DEF IsInjective
<1>4. ToSet(cl.items) \subseteq Nat
  BY <1>1 DEF ToSet
<1>5. /\ op.verb \in Verbs /\ op.item \in Nat /\ op.order \in {<< >>, Reverse(cl.items)}
      /\ op = [verb |-> op.verb, item |-> op.item, order |-> op.order, intent |-> <<c, cl.intents + 1>>]
  BY <1>4 DEF UserOps, Verbs, NoItem
<1>6. op.order \in Seq(Nat) /\ IsInjective(op.order)
  BY <1>2, <1>3, <1>5
<1>7. <<c, cl.intents + 1>> \in Intents
  BY <1>1 DEF Intents
<1> QED BY <1>5, <1>6, <1>7 DEF Deeds

LEMMA ActIInv ==
  ASSUME IInv, NEW c \in Clients, Act(c) \/ Refresh(c)
  PROVE  IInv'
<1> DEFINE cl == [client[c] EXCEPT !.intents = @ + 1]
           basis == [items |-> client[c].items, revision |-> client[c].revision]
<1>1. ClientOK(client[c], items, revision) /\ client[c] \in ClientShapes /\ revision \in Nat
  BY QueueSyncAssumption DEF IInv, ClientOK, QueueOK
<1>2. ClientOK(cl, items, revision) /\ cl.next = client[c].next
  <2>1. /\ cl \in ClientShapes /\ Held(cl) = Held(client[c]) /\ cl.latest = client[c].latest
        /\ cl.pending = client[c].pending /\ cl.applied = client[c].applied
        /\ cl.next = client[c].next
    <3>1. client[c].intents + 1 \in Nat
      BY <1>1 DEF ClientShapes
    <3> QED BY <1>1, <3>1, IntentsField
  <2> HIDE DEF cl
  <2> QED BY <1>1, <2>1 DEF ClientOK
<1>3. UNCHANGED <<items, revision, stream, deletions, excuse>>
  BY DEF Act, Refresh
<1>4. CASE Act(c)
  <2>1. PICK op \in UserOps(c, client[c]) : Sends(c, cl, {}, "try", op, basis)
    BY <1>4 DEF Act
  <2>2. op \in Deeds /\ IsInjective(op.order)
    BY <1>1, UserOpsAre
  <2>3. IsCopy(basis, items, revision)
    BY <1>1 DEF ClientOK, Held
  <2> HIDE DEF cl, basis
  <2>4. /\ QueueOK(items', revision') /\ DOMAIN client' = Clients
        /\ \A d \in Clients : ClientOK(client'[d], items', revision')
        /\ \A x \in calls' : CallOK(x, items', revision', client'[x.client].next)
    BY <1>2, <1>3, <2>1, <2>2, <2>3, SendsKeeps DEF Roles
  <2> QED BY <1>3, <2>4 DEF IInv
<1>5. CASE Refresh(c)
  <2>1. Sends(c, cl, {}, "refresh", NoOp, NoSnapshot)
    BY <1>5 DEF Refresh
  <2>2. IsCopy(NoSnapshot, items, revision)
    BY <1>1, NoSnapshotIsCopy
  <2> HIDE DEF cl
  <2>3. /\ QueueOK(items', revision') /\ DOMAIN client' = Clients
        /\ \A d \in Clients : ClientOK(client'[d], items', revision')
        /\ \A x \in calls' : CallOK(x, items', revision', client'[x.client].next)
    BY <1>2, <1>3, <2>1, <2>2, SendsKeeps DEF Roles
  <2> QED BY <1>3, <2>3 DEF IInv
<1> QED BY <1>4, <1>5

LEMMA LatestField ==
  ASSUME NEW cl, NEW q, NEW r \in Nat, ClientOK(cl, q, r), NEW e \in Nothing..r
  PROVE  LET new == [cl EXCEPT !.latest = e]
         IN  /\ ClientOK(new, q, r) /\ new.next = cl.next /\ new.revision = cl.revision
             /\ new.applied = cl.applied /\ new.intents = cl.intents
             /\ new.latest = e /\ new.pending = cl.pending
<1> DEFINE new == [cl EXCEPT !.latest = e]
<1>1. cl \in ClientShapes /\ e \in Int
  BY DEF ClientOK, Nothing
<1>2. /\ new \in ClientShapes /\ new.next = cl.next /\ Held(new) = Held(cl)
      /\ new.latest = e /\ new.pending = cl.pending /\ new.applied = cl.applied
      /\ new.intents = cl.intents /\ new.revision = cl.revision
  BY <1>1 DEF ClientShapes, Held
<1> HIDE DEF new
<1>3. ClientOK(new, q, r)
  BY <1>2 DEF ClientOK
<1> QED BY <1>2, <1>3 DEF new

LEMMA PendingField ==
  ASSUME NEW cl, NEW q, NEW r \in Nat, ClientOK(cl, q, r), NEW p, p \subseteq 0..r
  PROVE  LET new == [cl EXCEPT !.pending = p]
         IN  /\ ClientOK(new, q, r) /\ new.next = cl.next /\ new.revision = cl.revision
             /\ new.applied = cl.applied /\ new.intents = cl.intents
             /\ new.latest = cl.latest /\ new.pending = p
<1> DEFINE new == [cl EXCEPT !.pending = p]
<1>1. cl \in ClientShapes /\ p \in SUBSET Nat
  BY DEF ClientOK, Nothing
<1>2. /\ new \in ClientShapes /\ new.next = cl.next /\ Held(new) = Held(cl)
      /\ new.latest = cl.latest /\ new.pending = p /\ new.applied = cl.applied
      /\ new.intents = cl.intents /\ new.revision = cl.revision
  BY <1>1 DEF ClientShapes, Held
<1> HIDE DEF new
<1>3. ClientOK(new, q, r)
  BY <1>2 DEF ClientOK
<1> QED BY <1>2, <1>3 DEF new

LEMMA ConflictField ==
  ASSUME NEW cl, NEW q, NEW r, ClientOK(cl, q, r), NEW b \in BOOLEAN
  PROVE  LET new == [cl EXCEPT !.isConflict = b]
         IN  /\ ClientOK(new, q, r) /\ new.next = cl.next /\ new.revision = cl.revision
             /\ new.applied = cl.applied /\ new.intents = cl.intents
             /\ new.latest = cl.latest /\ new.pending = cl.pending
<1> DEFINE new == [cl EXCEPT !.isConflict = b]
<1>1. cl \in ClientShapes
  BY DEF ClientOK
<1>2. /\ new \in ClientShapes /\ new.next = cl.next /\ Held(new) = Held(cl)
      /\ new.latest = cl.latest /\ new.revision = cl.revision
      /\ new.pending = cl.pending /\ new.applied = cl.applied /\ new.intents = cl.intents
  BY <1>1 DEF ClientShapes, Held
<1> HIDE DEF new
<1>3. ClientOK(new, q, r)
  BY <1>2 DEF ClientOK
<1> QED BY <1>2, <1>3 DEF new

\* An answer is shown unless a later request's already is.
LEMMA AppliedAnswer ==
  ASSUME NEW cl, NEW q, NEW r \in Nat, ClientOK(cl, q, r), NEW call, CallOK(call, q, r, cl.next),
         call.snapshot.revision \in Nat
  PROVE  LET new == ApplyQueue(cl, call)
         IN  /\ ClientOK(new, q, r) /\ new.next = cl.next
             /\ new.latest = cl.latest /\ new.pending = cl.pending /\ new.intents = cl.intents
             /\ \/ new = cl /\ call.order < cl.applied
                \/ /\ call.order >= cl.applied /\ new.applied = call.order
                   /\ new.revision = call.snapshot.revision
<1> DEFINE new == [cl EXCEPT !.items = call.snapshot.items, !.revision = call.snapshot.revision,
                             !.applied = call.order]
<1>1. /\ cl \in ClientShapes /\ call.snapshot.items \in Seq(Nat) /\ call.order \in Nat
      /\ call.snapshot \in Snapshots /\ cl.applied \in Nat /\ cl.next \in Nat
      /\ call.order <= cl.next
  BY DEF ClientOK, CallOK, IsCopy, Snapshots, ClientShapes
<1>2. /\ new \in ClientShapes /\ new.next = cl.next /\ new.items = call.snapshot.items
      /\ new.revision = call.snapshot.revision /\ new.latest = cl.latest
      /\ new.pending = cl.pending /\ new.applied = call.order /\ new.intents = cl.intents
  BY <1>1 DEF ClientShapes
<1>3. call.order < cl.applied => ApplyQueue(cl, call) = cl
  BY DEF ApplyQueue
<1>4. ~(call.order < cl.applied) => ApplyQueue(cl, call) = new /\ call.order >= cl.applied
  BY <1>1 DEF ApplyQueue
<1> HIDE DEF new
<1>5. Held(new) = call.snapshot
  BY <1>1, <1>2 DEF Held, Snapshots
<1>6. ClientOK(new, q, r)
  BY <1>1, <1>2, <1>5 DEF ClientOK, CallOK
<1> QED BY <1>2, <1>3, <1>4, <1>6

LEMMA HandleEventStream ==
  ASSUME IInv, NEW c \in Clients, HandleEvent(c)
  PROVE  /\ Head(stream[c].wire) \in 0..revision
         /\ DOMAIN stream' = Clients /\ \A d \in Clients : StreamOK(stream'[d], revision)
         /\ \A d \in Clients : d # c => stream'[d] = stream[d]
         /\ stream'[c].stage = stream[c].stage /\ stream'[c].slot = stream[c].slot
         /\ \A i \in DOMAIN stream[c].wire :
              \/ stream[c].wire[i] = Head(stream[c].wire)
              \/ \E j \in DOMAIN stream'[c].wire : stream'[c].wire[j] = stream[c].wire[i]
<1> DEFINE w == stream[c].wire
           st == [stream[c] EXCEPT !.wire = Tail(w)]
<1>1. /\ w \in Seq(Nat) /\ w # << >> /\ stream[c] \in StreamShapes /\ revision \in Nat
      /\ DOMAIN stream = Clients /\ stream[c].slot \in Nothing..revision
      /\ \A i \in 1..Len(w) : w[i] <= revision
  BY QueueSyncAssumption DEF HandleEvent, IInv, StreamOK, StreamShapes, QueueOK
<1>2. stream' = [stream EXCEPT ![c] = st]
  BY <1>1 DEF HandleEvent
<1> HIDE DEF w
<1>3. /\ Head(w) = w[1] /\ 1 \in 1..Len(w) /\ Tail(w) \in Seq(Nat) /\ Len(Tail(w)) = Len(w) - 1
      /\ \A i \in 1..Len(Tail(w)) : Tail(w)[i] = w[i + 1]
  BY <1>1, HeadTailProperties
<1>4. Head(w) \in 0..revision
  BY <1>1, <1>3
<1>5. \A i \in 1..Len(Tail(w)) : i + 1 \in 1..Len(w)
  BY <1>1, <1>3
<1>6. \A i \in 1..Len(Tail(w)) : Tail(w)[i] <= revision
  BY <1>1, <1>3, <1>5
<1>7. /\ st \in StreamShapes /\ st.wire = Tail(w) /\ st.stage = stream[c].stage
      /\ st.slot = stream[c].slot
  BY <1>1, <1>3 DEF StreamShapes
<1> HIDE DEF st
<1>8. StreamOK(st, revision)
  BY <1>1, <1>6, <1>7, StreamOKBy
<1>9. /\ DOMAIN stream' = Clients /\ \A d \in Clients : stream'[d] = IF d = c THEN st ELSE stream[d]
  BY <1>1, <1>2
<1>10. ASSUME NEW i \in DOMAIN w
       PROVE  w[i] = Head(w) \/ \E j \in DOMAIN Tail(w) : Tail(w)[j] = w[i]
  <2>1. i \in 1..Len(w) /\ DOMAIN Tail(w) = 1..Len(Tail(w)) /\ Len(w) \in Nat
    BY <1>1, <1>3
  <2>2. CASE i = 1
    BY <1>3, <2>2
  <2>3. CASE i # 1
    <3>1. i - 1 \in 1..Len(Tail(w)) /\ (i - 1) + 1 = i
      BY <1>3, <2>1, <2>3
    <3>2. Tail(w)[i - 1] = w[i]
      BY <1>3, <3>1
    <3> QED BY <2>1, <3>1, <3>2
  <2> QED BY <2>2, <2>3
<1> QED BY <1>4, <1>7, <1>8, <1>9, <1>10 DEF IInv, w

LEMMA HandleEventIInv ==
  ASSUME IInv, NEW c \in Clients, HandleEvent(c)
  PROVE  IInv'
<1> DEFINE e == Head(stream[c].wire)
           cl == client[c]
<1>1. UNCHANGED <<items, revision, deletions, excuse>>
  BY DEF HandleEvent
<1>2. e \in 0..revision /\ DOMAIN stream' = Clients /\ \A d \in Clients : StreamOK(stream'[d], revision')
  BY <1>1, HandleEventStream
<1>3. ClientOK(cl, items, revision) /\ revision \in Nat /\ cl \in ClientShapes
  BY QueueSyncAssumption DEF IInv, QueueOK, ClientOK
<1>4. \/ Becomes(c, cl, {})
      \/ Becomes(c, [cl EXCEPT !.latest = e], {})
      \/ Sends(c, [cl EXCEPT !.pending = @ \cup {e}], {}, "event", [verb |-> "get", event |-> e], NoSnapshot)
  BY DEF HandleEvent
<1> HIDE DEF e, cl
<1>5. /\ QueueOK(items', revision') /\ DOMAIN client' = Clients
      /\ \A d \in Clients : ClientOK(client'[d], items', revision')
      /\ \A x \in calls' : CallOK(x, items', revision', client'[x.client].next)
  <2>0. cl.next = client[c].next
    BY DEF cl
  <2>1. CASE Becomes(c, cl, {})
    BY <1>1, <1>3, <2>0, <2>1, BecomesKeeps
  <2>2. CASE Becomes(c, [cl EXCEPT !.latest = e], {})
    <3>1. e \in Nothing..revision
      BY <1>2, <1>3 DEF Nothing
    <3>2. ClientOK([cl EXCEPT !.latest = e], items, revision) /\ [cl EXCEPT !.latest = e].next = cl.next
      BY <1>3, <3>1, LatestField
    <3> QED BY <1>1, <2>0, <2>2, <3>2, BecomesKeeps
  <2>3. CASE Sends(c, [cl EXCEPT !.pending = @ \cup {e}], {}, "event", [verb |-> "get", event |-> e], NoSnapshot)
    <3> DEFINE new == [cl EXCEPT !.pending = @ \cup {e}]
    <3>2. cl.pending \cup {e} \subseteq 0..revision
      BY <1>2, <1>3 DEF ClientOK
    <3>3. ClientOK(new, items, revision) /\ new.next = cl.next
      BY <1>3, <3>2, PendingField
    <3>4. [verb |-> "get", event |-> e] \in Events /\ [verb |-> "get", event |-> e].event <= revision
      BY <1>2, <1>3 DEF Events
    <3>5. IsCopy(NoSnapshot, items, revision)
      BY <1>3, NoSnapshotIsCopy
    <3> HIDE DEF new
    <3>6. Sends(c, new, {}, "event", [verb |-> "get", event |-> e], NoSnapshot)
      BY <2>3 DEF new
    <3> QED BY <1>1, <2>0, <3>3, <3>4, <3>5, <3>6, SendsKeeps DEF Roles
  <2> QED BY <1>4, <2>1, <2>2, <2>3
<1> QED BY <1>1, <1>2, <1>5 DEF IInv

\* The client after an answer was applied, where it is.
AnsweredClient(call) ==
  IF call.said = "ok" THEN ApplyQueue(client[call.client], call) ELSE client[call.client]

LEMMA AnsweredClientOK ==
  ASSUME IInv, NEW call \in calls
  PROVE  LET old == client[call.client]
             cl == AnsweredClient(call)
         IN  /\ ClientOK(cl, items, revision) /\ cl.next = old.next
             /\ cl.latest = old.latest /\ cl.pending = old.pending /\ cl.intents = old.intents
             /\ \/ cl = old /\ (call.said = "ok" => call.order < old.applied)
                \/ /\ call.said = "ok" /\ call.order >= old.applied /\ cl.applied = call.order
                   /\ cl.revision = call.snapshot.revision
<1>1. /\ ClientOK(client[call.client], items, revision) /\ revision \in Nat
      /\ CallOK(call, items, revision, client[call.client].next)
  BY QueueSyncAssumption DEF IInv, QueueOK, CallOK, CallShapes
<1>2. CASE call.said = "ok"
  <2>1. call.snapshot.revision \in Nat
    BY <1>1, <1>2 DEF CallOK
  <2> QED BY <1>1, <1>2, <2>1, AppliedAnswer DEF AnsweredClient
<1>3. CASE call.said # "ok"
  BY <1>1, <1>3 DEF AnsweredClient
<1> QED BY <1>2, <1>3

\* What becomes of the client, answer by answer.
LEMMA ContinueCases ==
  ASSUME NEW call, NEW c, NEW cl, call.role \in Roles, Continue(c, cl, call)
  PROVE  \/ /\ call.role = "try" /\ call.said = "conflict"
            /\ Sends(c, cl, {call}, "fetch", call.op, NoSnapshot)
         \/ /\ call.role = "fetch" /\ call.said = "ok"
            /\ Sends(c, cl, {call}, "retry", call.op, call.snapshot)
         \/ /\ call.role = "event"
            /\ Becomes(c, [cl EXCEPT !.pending = @ \ {call.op.event},
                                     !.latest = IF call.said = "ok"
                                                THEN Later(@, call.op.event) ELSE @], {call})
         \/ call.role # "event" /\ \E b \in BOOLEAN : Becomes(c, [cl EXCEPT !.isConflict = b], {call})
         \/ call.role # "event" /\ Becomes(c, cl, {call})
<1>1. CASE call.role = "try" /\ call.said = "conflict"
  <2>1. Sends(c, cl, {call}, "fetch", call.op, NoSnapshot)
    BY <1>1 DEF Continue, IsTriedAgain, IsMutation
  <2> QED BY <1>1, <2>1
<1>2. CASE call.role = "event"
  <2>1. Becomes(c, [cl EXCEPT !.pending = @ \ {call.op.event},
                              !.latest = IF call.said = "ok"
                                         THEN Later(@, call.op.event) ELSE @], {call})
    BY <1>2 DEF Continue, IsTriedAgain, IsMutation
  <2> QED BY <1>2, <2>1
<1>3. CASE call.role = "fetch" /\ call.said = "ok"
  <2>1. \/ Sends(c, cl, {call}, "retry", call.op, call.snapshot)
        \/ Becomes(c, [cl EXCEPT !.isConflict = call.op.verb # "remove"], {call})
    BY <1>3 DEF Continue, IsTriedAgain, IsMutation
  <2> QED BY <1>3, <2>1
<1>4. CASE call.role \in {"try", "retry"} /\ call.said = "ok"
  <2>1. Becomes(c, [cl EXCEPT !.isConflict = FALSE], {call})
    BY <1>4 DEF Continue, IsTriedAgain, IsMutation
  <2> QED BY <1>4, <2>1
<1>5. CASE /\ ~(call.role = "try" /\ call.said = "conflict") /\ call.role # "event"
           /\ ~(call.role \in {"fetch", "try", "retry"} /\ call.said = "ok")
  <2>1. Becomes(c, cl, {call})
    BY <1>5 DEF Continue, IsTriedAgain, IsMutation
  <2> QED BY <1>5, <2>1
<1> QED BY <1>1, <1>2, <1>3, <1>4, <1>5 DEF Roles

\* All that an answer changes.
AnswerDone(call) ==
  LET c == call.client
      cl == AnsweredClient(call)
  IN  /\ QueueOK(items', revision') /\ DOMAIN client' = Clients
      /\ \A d \in Clients : ClientOK(client'[d], items', revision')
      /\ \A x \in calls' : CallOK(x, items', revision', client'[x.client].next)
      /\ \A d \in Clients : d # c => client'[d] = client[d]
      /\ client'[c].revision = cl.revision /\ client'[c].applied = cl.applied
      /\ client'[c].intents = client[c].intents
      /\ client'[c].latest = IF call.role = "event" /\ call.said = "ok"
                             THEN Later(client[c].latest, call.op.event) ELSE client[c].latest
      /\ client'[c].pending = IF call.role = "event"
                              THEN client[c].pending \ {call.op.event} ELSE client[c].pending
      /\ \/ calls' = calls \ {call}
         \/ \E role \in {"fetch", "retry"}, basis \in Snapshots :
              /\ role = "fetch" => call.role = "try" /\ call.said = "conflict"
              /\ role = "retry" => call.role = "fetch"
              /\ calls' = (calls \ {call}) \cup {Call(c, client[c].next + 1, role, call.op, basis)}

LEMMA AnswerResult ==
  ASSUME IInv, NEW call \in calls, HandleAnswer(call)
  PROVE  AnswerDone(call)
<1> DEFINE c == call.client
           cl == AnsweredClient(call)
<1>1. /\ CallOK(call, items, revision, client[c].next) /\ call \in CallShapes /\ c \in Clients
      /\ call.role \in Roles /\ revision \in Nat
  BY QueueSyncAssumption DEF IInv, QueueOK, CallOK, CallShapes
<1>2. /\ ClientOK(cl, items, revision) /\ cl.next = client[c].next
      /\ cl.latest = client[c].latest /\ cl.pending = client[c].pending
      /\ cl.intents = client[c].intents
  BY AnsweredClientOK
<1>3. UNCHANGED <<items, revision>>
  BY DEF HandleAnswer
<1>4. Continue(c, cl, call)
  BY DEF HandleAnswer, AnsweredClient
<1> HIDE DEF cl
<1>5. ASSUME NEW role \in {"fetch", "retry"}, NEW basis, IsCopy(basis, items, revision),
             Sends(c, cl, {call}, role, call.op, basis),
             call.role \in {"try", "fetch"},
             role = "fetch" => call.role = "try" /\ call.said = "conflict",
             role = "retry" => call.role = "fetch"
      PROVE  AnswerDone(call)
  <2>1. call.op \in Deeds /\ IsInjective(call.op.order) /\ role \in Roles /\ basis \in Snapshots
    BY <1>1, <1>5 DEF CallOK, Roles, IsCopy
  <2>2. /\ QueueOK(items', revision') /\ DOMAIN client' = Clients
        /\ \A d \in Clients : ClientOK(client'[d], items', revision')
        /\ \A x \in calls' : CallOK(x, items', revision', client'[x.client].next)
        /\ SameView(client'[c], cl) /\ \A d \in Clients : d # c => client'[d] = client[d]
    BY <1>1, <1>2, <1>3, <1>5, <2>1, SendsKeeps
  <2>3. calls' = (calls \ {call}) \cup {Call(c, client[c].next + 1, role, call.op, basis)}
    BY <1>2, <1>5 DEF Sends
  <2> QED BY <1>2, <1>5, <2>1, <2>2, <2>3 DEF AnswerDone, SameView, cl
<1>6. ASSUME NEW new, ClientOK(new, items, revision), new.next = cl.next,
             new.revision = cl.revision, new.applied = cl.applied, new.intents = cl.intents,
             new.latest = IF call.role = "event" /\ call.said = "ok"
                          THEN Later(cl.latest, call.op.event) ELSE cl.latest,
             new.pending = IF call.role = "event" THEN cl.pending \ {call.op.event} ELSE cl.pending,
             Becomes(c, new, {call})
      PROVE  AnswerDone(call)
  <2>1. /\ QueueOK(items', revision') /\ DOMAIN client' = Clients
        /\ \A d \in Clients : ClientOK(client'[d], items', revision')
        /\ \A x \in calls' : CallOK(x, items', revision', client'[x.client].next)
        /\ SameView(client'[c], new) /\ \A d \in Clients : d # c => client'[d] = client[d]
    BY <1>1, <1>2, <1>3, <1>6, BecomesKeeps
  <2>2. calls' = calls \ {call}
    BY <1>6 DEF Becomes
  <2> QED BY <1>2, <1>6, <2>1, <2>2 DEF AnswerDone, SameView, cl
<1>7. CASE Sends(c, cl, {call}, "fetch", call.op, NoSnapshot) /\ call.role = "try" /\ call.said = "conflict"
  BY <1>1, <1>5, <1>7, NoSnapshotIsCopy
<1>8. CASE Sends(c, cl, {call}, "retry", call.op, call.snapshot) /\ call.role = "fetch"
  BY <1>1, <1>5, <1>8 DEF CallOK
<1>9. CASE /\ call.role = "event"
           /\ Becomes(c, [cl EXCEPT !.pending = @ \ {call.op.event},
                                    !.latest = IF call.said = "ok"
                                               THEN Later(@, call.op.event) ELSE @], {call})
  <2>1. cl.latest \in Nothing..revision /\ cl.pending \subseteq 0..revision
    BY <1>2 DEF ClientOK
  <2>2. call.op.event \in 0..revision
    BY <1>1, <1>9 DEF CallOK, Events
  <2>3. Later(cl.latest, call.op.event) \in Nothing..revision
    BY <1>1, <2>1, <2>2 DEF Later, Nothing
  <2>4. PICK e \in Nothing..revision, p \in SUBSET (0..revision) :
          /\ e = (IF call.said = "ok" THEN Later(cl.latest, call.op.event) ELSE cl.latest)
          /\ p = cl.pending \ {call.op.event}
    BY <2>1, <2>3
  <2>5. PICK new : new = [cl EXCEPT !.pending = p, !.latest = e]
    OBVIOUS
  <2>6. Becomes(c, new, {call})
    <3>1. new = [cl EXCEPT !.pending = cl.pending \ {call.op.event},
                           !.latest = IF call.said = "ok"
                                      THEN Later(cl.latest, call.op.event) ELSE cl.latest]
      BY <2>4, <2>5
    <3> QED BY <1>9, <3>1
  <2>7. /\ ClientOK(new, items, revision) /\ new.next = cl.next /\ new.revision = cl.revision
        /\ new.applied = cl.applied /\ new.intents = cl.intents /\ new.latest = e /\ new.pending = p
    <3>1. cl \in ClientShapes /\ e \in Int /\ p \in SUBSET Nat
      BY <1>2 DEF ClientOK, Nothing
    <3>2. /\ new \in ClientShapes /\ new.next = cl.next /\ Held(new) = Held(cl)
          /\ new.latest = e /\ new.pending = p /\ new.applied = cl.applied
          /\ new.intents = cl.intents /\ new.revision = cl.revision
      BY <2>5, <3>1 DEF ClientShapes, Held
    <3>3. ClientOK(new, items, revision)
      BY <1>2, <3>2 DEF ClientOK
    <3> QED BY <3>2, <3>3
  <2> QED BY <1>6, <1>9, <2>4, <2>6, <2>7
<1>10. ASSUME call.role # "event", NEW b \in BOOLEAN, Becomes(c, [cl EXCEPT !.isConflict = b], {call})
       PROVE  AnswerDone(call)
  <2> DEFINE new == [cl EXCEPT !.isConflict = b]
  <2>1. /\ ClientOK(new, items, revision) /\ new.next = cl.next /\ new.revision = cl.revision
        /\ new.applied = cl.applied /\ new.intents = cl.intents
        /\ new.latest = cl.latest /\ new.pending = cl.pending
    BY <1>1, <1>2, ConflictField
  <2>2. Becomes(c, new, {call})
    BY <1>10
  <2> HIDE DEF new
  <2> QED BY <1>6, <1>10, <2>1, <2>2
<1>11. CASE call.role # "event" /\ Becomes(c, cl, {call})
  BY <1>2, <1>6, <1>11
<1> QED
  <2> HIDE DEF c
  <2> QED BY <1>1, <1>4, <1>7, <1>8, <1>9, <1>10, <1>11, ContinueCases

LEMMA HandleAnswerIInv ==
  ASSUME IInv, NEW call \in calls, HandleAnswer(call)
  PROVE  IInv'
<1>1. AnswerDone(call)
  BY AnswerResult
<1>2. UNCHANGED <<items, revision, stream, deletions>>
  BY DEF HandleAnswer
<1>3. excuse' \in [Clients -> {"none", "failed", "overtaken"}]
  BY DEF HandleAnswer, IInv
<1> QED BY <1>1, <1>2, <1>3 DEF IInv, AnswerDone

LEMMA NextIInv == IInv /\ [Next]_vars => IInv'
<1> SUFFICES ASSUME IInv, [Next]_vars PROVE IInv'
  OBVIOUS
<1>1. CASE UNCHANGED vars
  BY <1>1 DEF IInv, vars
<1>2. CASE Next
  BY <1>2, MutateIInv, ReadIInv, RespondIInv, CallFailsIInv, HandleAnswerIInv, DeleteTrackIInv,
     PublishDeletionIInv, StreamStepIInv, HandleEventIInv, ActIInv DEF Next
<1> QED BY <1>1, <1>2

LEMMA SpecIInv == Spec => []IInv
BY InitIInv, NextIInv, PTL DEF Spec

(* The Queue stays within its limit and holds no item twice, and no client    *)
(* or request is ahead of it, for any number of clients and whatever is lost  *)
(* or deleted on the way (repository.rs, use-synchronized-queue.ts).          *)
THEOREM QueueTypeCorrect == Spec => []TypeOK
<1>1. IInv => TypeOK
  <2> SUFFICES ASSUME IInv PROVE TypeOK
    OBVIOUS
  <2>1. revision \in 0..MaxRevision /\ Len(items) <= MaxItems /\ IsInjective(items) /\ revision \in Nat
    BY QueueSyncAssumption DEF IInv, QueueOK
  <2>2. ASSUME NEW c \in Clients
        PROVE  /\ client[c].revision \in 0..revision /\ client[c].latest \in Nothing..revision
               /\ client[c].pending \subseteq 0..revision /\ client[c].applied \in 0..client[c].next
    <3>1. /\ client[c] \in ClientShapes /\ client[c].latest \in Nothing..revision
          /\ client[c].pending \subseteq 0..revision /\ client[c].applied <= client[c].next
          /\ Held(client[c]).revision <= revision
      BY DEF IInv, ClientOK, IsCopy
    <3>2. /\ client[c].revision \in Nat /\ client[c].applied \in Nat /\ client[c].next \in Nat
          /\ Held(client[c]).revision = client[c].revision
      BY <3>1 DEF ClientShapes, Held
    <3> QED BY <2>1, <3>1, <3>2
  <2>3. ASSUME NEW call \in calls
        PROVE  call.order \in 1..client[call.client].next
    BY DEF IInv, CallOK
  <2> QED BY <2>1, <2>2, <2>3 DEF TypeOK
<1> QED BY <1>1, SpecIInv, PTL

(* Every accepted operation changes the very Queue its client had before its  *)
(* eyes, or had fetched after a conflict: all copies of one revision are the  *)
(* same, and begin_mutation compares the revision (repository.rs,             *)
(* use-synchronized-queue.ts).                                                *)
THEOREM QueueChangesWhatWasSeen == Spec => ChangesWhatWasSeen
<1>1. IInv /\ [Next]_vars =>
        [\A call \in calls : IsMutation(call) /\ revision' # revision /\ Mutate(call)
           => items = call.basis.items]_vars
  <2> SUFFICES ASSUME IInv, NEW call \in calls, revision' # revision, Mutate(call)
               PROVE  items = call.basis.items
    OBVIOUS
  <2>1. call.basis.revision = revision
    BY DEF Mutate
  <2> QED BY <2>1 DEF IInv, CallOK, IsCopy
<1> QED BY <1>1, SpecIInv, PTL DEF Spec, ChangesWhatWasSeen

----------------------------------------------------------------------------
(* An intent is applied once *)

LEMMA InitOnce == Init => OnceInv
<1> SUFFICES ASSUME Init PROVE OnceInv
  OBVIOUS
<1>1. applied \in Seq(Intents) /\ DOMAIN applied = {}
  <2>1. applied = << >>
    BY DEF Init
  <2> QED BY <2>1
<1>2. ASSUME NEW call \in calls PROVE ~MayApply(call)
  <2>1. PICK c \in Opening : call = Call(c, 1, "refresh", NoOp, NoSnapshot)
    BY DEF Init
  <2>2. call.role = "refresh"
    BY <2>1 DEF Call
  <2> QED BY <2>2 DEF MayApply
<1> QED BY <1>1, <1>2 DEF OnceInv, IsInjective

\* Clients only form more intents.
KeepsIntents ==
  \A c \in Clients : client'[c].intents \in Nat /\ client[c].intents <= client'[c].intents

LEMMA FormedStays ==
  ASSUME IInv, KeepsIntents, NEW i, Formed(i)
  PROVE  i \in Intents /\ i[2] <= client'[i[1]].intents
<1>1. i \in Intents /\ i[1] \in Clients /\ i[2] \in Nat /\ i[2] <= client[i[1]].intents
  BY DEF Formed, Intents
<1>2. client[i[1]].intents \in Nat /\ client'[i[1]].intents \in Nat
      /\ client[i[1]].intents <= client'[i[1]].intents
  BY <1>1 DEF IInv, ClientOK, ClientShapes, KeepsIntents
<1> QED BY <1>1, <1>2

\* Nothing is applied, and what may be applied could be before.
LEMMA OnceStays ==
  ASSUME IInv, OnceInv, KeepsIntents, UNCHANGED applied,
         \A x \in calls' : MayApply(x) => \E y \in calls : MayApply(y) /\ y.op.intent = x.op.intent,
         \A x, y \in calls' : MayApply(x) /\ MayApply(y) /\ x.op.intent = y.op.intent => x = y
  PROVE  OnceInv'
<1>1. \A i \in DOMAIN applied : Formed(applied[i]) /\ applied[i] \in Intents
  BY DEF OnceInv, Formed
<1>2. \A i \in DOMAIN applied' : applied'[i] \in Intents /\ applied'[i][2] <= client'[applied'[i][1]].intents
  BY <1>1, FormedStays
<1>3. ASSUME NEW x \in calls', MayApply(x)
      PROVE  /\ x.op.intent \in Intents /\ x.op.intent[2] <= client'[x.op.intent[1]].intents
             /\ ~Has(applied', x.op.intent)
  <2>1. PICK y \in calls : MayApply(y) /\ y.op.intent = x.op.intent
    BY <1>3
  <2>2. Formed(x.op.intent) /\ ~Has(applied, x.op.intent)
    BY <2>1 DEF OnceInv
  <2> QED BY <2>2, FormedStays
<1>4. applied' \in Seq(Intents) /\ IsInjective(applied')
  BY DEF OnceInv
<1> QED BY <1>2, <1>3, <1>4 DEF OnceInv, Formed

\* One request takes the place of another, and may do no more than that.
LEMMA GoesOnce ==
  ASSUME IInv, OnceInv, KeepsIntents, UNCHANGED applied, NEW call \in calls, NEW new,
         calls' = (calls \ {call}) \cup {new}, new.op = call.op, MayApply(new) => MayApply(call)
  PROVE  OnceInv'
<1>1. ASSUME NEW x \in calls', MayApply(x)
      PROVE  \E y \in calls : MayApply(y) /\ y.op.intent = x.op.intent
  BY <1>1
<1>2. ASSUME NEW x \in calls', NEW y \in calls', MayApply(x), MayApply(y), x.op.intent = y.op.intent
      PROVE  x = y
  BY <1>2 DEF OnceInv
<1> QED BY <1>1, <1>2, OnceStays

\* Requests end, or one is sent that applies nothing.
LEMMA OtherwiseOnce ==
  ASSUME IInv, OnceInv, KeepsIntents, UNCHANGED applied,
         \A x \in calls' : MayApply(x) => x \in calls
  PROVE  OnceInv'
<1>1. ASSUME NEW x \in calls', MayApply(x)
      PROVE  \E y \in calls : MayApply(y) /\ y.op.intent = x.op.intent
  BY <1>1
<1>2. ASSUME NEW x \in calls', NEW y \in calls', MayApply(x), MayApply(y), x.op.intent = y.op.intent
      PROVE  x = y
  BY <1>2 DEF OnceInv
<1> QED BY <1>1, <1>2, OnceStays

LEMMA SameIntents ==
  ASSUME IInv, UNCHANGED client
  PROVE  KeepsIntents
BY DEF IInv, ClientOK, ClientShapes, KeepsIntents

LEMMA MutateOnce ==
  ASSUME IInv, OnceInv, NEW call \in calls, Mutate(call)
  PROVE  OnceInv'
<1>1. /\ call \in CallShapes /\ CallOK(call, items, revision, client[call.client].next)
      /\ KeepsIntents /\ MayApply(call) /\ call.op \in Deeds
  <2>1. KeepsIntents
    BY SameIntents DEF Mutate
  <2>2. MayApply(call)
    <3>1. call.stage = "sent" /\ (call.role = "try" \/ call.role = "retry")
      BY DEF Mutate, IsMutation
    <3> QED BY <3>1 DEF MayApply
  <2> QED BY <2>1, <2>2 DEF IInv, CallOK, Mutate, IsMutation
<1>2. CASE call.basis.revision = revision /\ Accepts(items, call.op)
  <2> DEFINE new == [call EXCEPT !.stage = "committed"]
             i == call.op.intent
  <2>1. applied' = Append(applied, i) /\ calls' = (calls \ {call}) \cup {new}
    BY <1>2 DEF Mutate, Goes
  <2>2. ~MayApply(new)
    <3>1. new.role = call.role /\ new.stage = "committed"
      BY <1>1, CommittedShape DEF IsSameRequest
    <3> HIDE DEF new
    <3> QED BY <3>1 DEF MayApply, Mutate, IsMutation
  <2> HIDE DEF new
  <2>3. i \in Intents /\ Formed(i) /\ ~Has(applied, i) /\ applied \in Seq(Intents) /\ IsInjective(applied)
    BY <1>1 DEF OnceInv, Deeds
  <2> HIDE DEF i
  <2>4. /\ applied' \in Seq(Intents) /\ Len(applied') = Len(applied) + 1
        /\ DOMAIN applied' = 1..Len(applied) + 1 /\ DOMAIN applied = 1..Len(applied)
        /\ \A k \in 1..Len(applied) : applied'[k] = applied[k] /\ applied[k] # i
        /\ applied'[Len(applied) + 1] = i /\ Len(applied) \in Nat
    BY <2>1, <2>3 DEF Has, ToSet
  <2>5. IsInjective(applied')
    <3> SUFFICES ASSUME NEW a \in 1..Len(applied) + 1, NEW b \in 1..Len(applied) + 1,
                        applied'[a] = applied'[b]
                 PROVE  a = b
      BY <2>4 DEF IsInjective
    <3>1. a \in 1..Len(applied) \/ a = Len(applied) + 1
      BY <2>4
    <3>2. b \in 1..Len(applied) \/ b = Len(applied) + 1
      BY <2>4
    <3> QED BY <2>3, <2>4, <3>1, <3>2 DEF IsInjective
  <2>6. ASSUME NEW k \in DOMAIN applied'
        PROVE  applied'[k] \in Intents /\ applied'[k][2] <= client'[applied'[k][1]].intents
    <3>1. k \in 1..Len(applied) \/ k = Len(applied) + 1
      BY <2>4
    <3>2. Formed(applied'[k])
      BY <2>3, <2>4, <3>1 DEF OnceInv
    <3> QED BY <1>1, <3>2, FormedStays
  <2>7. ASSUME NEW x \in calls', MayApply(x)
        PROVE  /\ x \in calls /\ x.op.intent \in Intents
               /\ x.op.intent[2] <= client'[x.op.intent[1]].intents
               /\ ~Has(applied', x.op.intent)
    <3>1. x \in calls /\ x # call
      BY <2>1, <2>2, <2>7
    <3>2. x.op.intent # i /\ Formed(x.op.intent) /\ ~Has(applied, x.op.intent)
      BY <1>1, <2>7, <3>1 DEF OnceInv, i
    <3>3. ASSUME NEW k \in DOMAIN applied' PROVE applied'[k] # x.op.intent
      <4>1. k \in 1..Len(applied) \/ k = Len(applied) + 1
        BY <2>4
      <4> QED BY <2>4, <3>2, <4>1 DEF Has, ToSet
    <3> QED BY <1>1, <3>1, <3>2, <3>3, FormedStays DEF Has, ToSet
  <2>8. \A x, y \in calls' : MayApply(x) /\ MayApply(y) /\ x.op.intent = y.op.intent => x = y
    BY <2>7 DEF OnceInv
  <2> QED BY <2>4, <2>5, <2>6, <2>7, <2>8 DEF OnceInv, Formed
<1>3. CASE ~(call.basis.revision = revision /\ Accepts(items, call.op))
  <2>1. PICK said \in {"conflict", "refused"} :
          Goes(call, Answered(call, said, NoSnapshot)) /\ UNCHANGED applied
    BY <1>3 DEF Mutate
  <2>2. Answered(call, said, NoSnapshot).op = call.op
    BY <1>1 DEF Answered, CallShapes
  <2> QED BY <1>1, <2>1, <2>2, GoesOnce DEF Goes
<1> QED BY <1>2, <1>3

LEMMA CallStepsOnce ==
  ASSUME IInv, OnceInv, NEW call \in calls, Read(call) \/ Respond(call) \/ CallFails(call)
  PROVE  OnceInv'
<1>1. call \in CallShapes /\ KeepsIntents /\ UNCHANGED applied
  BY SameIntents DEF IInv, CallOK, Read, Respond, CallFails
<1>2. PICK new :
        /\ calls' = (calls \ {call}) \cup {new}
        /\ new.op = call.op /\ new.role = call.role
        /\ new.stage # "sent" /\ ~(new.stage = "answered" /\ new.said = "conflict")
  <2>0. Snapshot \in Snapshots /\ NoSnapshot \in Snapshots /\ call.snapshot \in Snapshots
    BY <1>1, SnapshotIsCopy DEF IInv, IsCopy, NoSnapshot, Snapshots, Nothing, CallShapes
  <2>1. CASE Goes(call, Answered(call, "ok", Snapshot))
    <3> DEFINE a == Answered(call, "ok", Snapshot)
    <3>1. a.op = call.op /\ a.role = call.role /\ a.stage = "answered" /\ a.said = "ok"
      BY <1>1, <2>0 DEF Answered, CallShapes
    <3>2. calls' = (calls \ {call}) \cup {a}
      BY <2>1 DEF Goes
    <3> HIDE DEF a
    <3> QED BY <3>1, <3>2
  <2>2. CASE call.stage = "committed" /\ Goes(call, [call EXCEPT !.stage = "read", !.snapshot = Snapshot])
    BY <1>1, <2>0, <2>2, ReadShape DEF Goes, IsSameRequest
  <2>3. CASE Goes(call, Answered(call, "ok", call.snapshot))
    <3> DEFINE a == Answered(call, "ok", call.snapshot)
    <3>1. a.op = call.op /\ a.role = call.role /\ a.stage = "answered" /\ a.said = "ok"
      BY <1>1, <2>0 DEF Answered, CallShapes
    <3>2. calls' = (calls \ {call}) \cup {a}
      BY <2>3 DEF Goes
    <3> HIDE DEF a
    <3> QED BY <3>1, <3>2
  <2>4. CASE Goes(call, Answered(call, "error", NoSnapshot))
    <3> DEFINE a == Answered(call, "error", NoSnapshot)
    <3>1. a.op = call.op /\ a.role = call.role /\ a.stage = "answered" /\ a.said = "error"
      BY <1>1, <2>0 DEF Answered, CallShapes
    <3>2. calls' = (calls \ {call}) \cup {a}
      BY <2>4 DEF Goes
    <3> HIDE DEF a
    <3> QED BY <3>1, <3>2
  <2> QED BY <2>1, <2>2, <2>3, <2>4 DEF Read, Respond, CallFails
<1>3. MayApply(new) => MayApply(call)
  BY <1>2 DEF MayApply
<1> QED BY <1>1, <1>2, <1>3, GoesOnce

LEMMA HandleAnswerOnce ==
  ASSUME IInv, OnceInv, NEW call \in calls, HandleAnswer(call)
  PROVE  OnceInv'
<1> DEFINE c == call.client
<1>1. AnswerDone(call) /\ UNCHANGED applied /\ call \in CallShapes /\ c \in Clients
      /\ call.stage = "answered" /\ client[c].next \in Nat
  BY AnswerResult DEF HandleAnswer, IInv, CallOK, CallShapes, ClientOK, ClientShapes
<1>2. KeepsIntents
  <2>1. \A d \in Clients : client[d].intents \in Nat
    BY DEF IInv, ClientOK, ClientShapes
  <2>2. \A d \in Clients : client'[d].intents = client[d].intents
    BY <1>1 DEF AnswerDone
  <2> QED BY <2>1, <2>2 DEF KeepsIntents
<1>3. CASE calls' = calls \ {call}
  BY <1>1, <1>2, <1>3, OtherwiseOnce
<1>4. ASSUME NEW role \in {"fetch", "retry"}, NEW basis \in Snapshots,
             role = "fetch" => call.role = "try" /\ call.said = "conflict",
             role = "retry" => call.role = "fetch",
             calls' = (calls \ {call}) \cup {Call(c, client[c].next + 1, role, call.op, basis)}
      PROVE  OnceInv'
  <2> DEFINE new == Call(c, client[c].next + 1, role, call.op, basis)
  <2>1. new.op = call.op
    BY DEF Call
  <2>2. MayApply(call)
    BY <1>1, <1>4 DEF MayApply
  <2> HIDE DEF new
  <2>3. calls' = (calls \ {call}) \cup {new}
    BY <1>4 DEF new
  <2> QED BY <1>1, <1>2, <2>1, <2>2, <2>3, GoesOnce
<1> QED BY <1>1, <1>3, <1>4 DEF AnswerDone

\* A new operation carries an intent nobody has seen.
LEMMA ActOnce ==
  ASSUME IInv, OnceInv, NEW c \in Clients, Act(c)
  PROVE  OnceInv'
<1> DEFINE n == client[c].intents
           cl == [client[c] EXCEPT !.intents = @ + 1]
           basis == [items |-> client[c].items, revision |-> client[c].revision]
           i == <<c, n + 1>>
<1>1. ClientOK(client[c], items, revision) /\ client[c] \in ClientShapes /\ n \in Nat
      /\ client[c].next \in Nat
  BY DEF IInv, ClientOK, ClientShapes
<1>2. PICK op \in UserOps(c, client[c]) : Sends(c, cl, {}, "try", op, basis)
  BY DEF Act
<1>3. op.intent = i
  BY <1>1, UserOpsAre
<1>4. cl \in ClientShapes /\ cl.intents = n + 1 /\ cl.next = client[c].next
  <2>1. n + 1 \in Nat
    BY <1>1
  <2> QED BY <1>1, <2>1, IntentsField
<1> HIDE DEF cl, basis
<1> DEFINE new == Call(c, client[c].next + 1, "try", op, basis)
<1>5. /\ client' = [client EXCEPT ![c] = [cl EXCEPT !.next = cl.next + 1]]
      /\ calls' = calls \cup {new} /\ new.op = op
  BY <1>2, <1>4 DEF Sends, Call
<1>6. client'[c].intents = n + 1 /\ \A d \in Clients : d # c => client'[d] = client[d]
  <2>1. cl.next + 1 \in Nat
    BY <1>1, <1>4
  <2>2. [cl EXCEPT !.next = cl.next + 1].intents = n + 1
    BY <1>4, <2>1, NextField
  <2> QED BY <1>5, <2>2 DEF IInv
<1>7. KeepsIntents /\ UNCHANGED applied
  <2>1. \A d \in Clients : client[d].intents \in Nat
    BY DEF IInv, ClientOK, ClientShapes
  <2> QED BY <1>1, <1>6, <2>1 DEF KeepsIntents, Act
<1> HIDE DEF new
<1>8. \A x : Formed(x) => x # i
  <2> SUFFICES ASSUME Formed(i) PROVE FALSE
    OBVIOUS
  <2>1. i[1] = c /\ i[2] = n + 1
    OBVIOUS
  <2>2. n + 1 <= client[c].intents
    BY <2>1 DEF Formed
  <2> QED BY <1>1, <2>2
<1>9. i \in Intents /\ i[2] <= client'[i[1]].intents
  <2>1. n + 1 \in Nat /\ n + 1 <= n + 1
    BY <1>1
  <2> QED BY <1>6, <2>1 DEF Intents
<1>10. applied \in Seq(Intents) /\ IsInjective(applied) /\ \A k \in DOMAIN applied : Formed(applied[k])
  BY DEF OnceInv
<1>11. \A k \in DOMAIN applied' : applied'[k] \in Intents /\ applied'[k][2] <= client'[applied'[k][1]].intents
  BY <1>7, <1>10, FormedStays
<1> HIDE DEF i
<1>12. ASSUME NEW x \in calls', MayApply(x)
       PROVE  /\ x.op.intent \in Intents /\ x.op.intent[2] <= client'[x.op.intent[1]].intents
              /\ ~Has(applied', x.op.intent)
  <2>1. CASE x = new
    <3>1. x.op.intent = i
      BY <1>3, <1>5, <2>1
    <3>2. ~Has(applied, i)
      BY <1>8, <1>10 DEF Has, ToSet
    <3> QED BY <1>7, <1>9, <3>1, <3>2
  <2>2. CASE x \in calls
    <3>1. Formed(x.op.intent) /\ ~Has(applied, x.op.intent)
      BY <1>12, <2>2 DEF OnceInv
    <3> QED BY <1>7, <3>1, FormedStays
  <2> QED BY <1>5, <2>1, <2>2
<1>13. ASSUME NEW x \in calls', NEW y \in calls', MayApply(x), MayApply(y), x.op.intent = y.op.intent
       PROVE  x = y
  <2>1. \A z \in calls : MayApply(z) => z.op.intent # i
    BY <1>8 DEF OnceInv
  <2>2. new.op.intent = i
    BY <1>3, <1>5
  <2> QED BY <1>5, <1>13, <2>1, <2>2 DEF OnceInv
<1> QED BY <1>7, <1>10, <1>11, <1>12, <1>13 DEF OnceInv, Formed

LEMMA NextOnce == IInv /\ OnceInv /\ [Next]_vars => OnceInv'
<1> SUFFICES ASSUME IInv, OnceInv, [Next]_vars PROVE OnceInv'
  OBVIOUS
<1>1. CASE UNCHANGED <<calls, client, applied>>
  BY <1>1, SameIntents, OtherwiseOnce
<1>2. ASSUME NEW c \in Clients, HandleEvent(c)
      PROVE  OnceInv'
  <2> DEFINE e == Head(stream[c].wire)
             op == [verb |-> "get", event |-> e]
  <2>1. PICK cl : /\ \/ Becomes(c, cl, {})
                     \/ Sends(c, cl, {}, "event", op, NoSnapshot)
                  /\ cl.intents = client[c].intents /\ cl \in ClientShapes
    <3>1. ClientOK(client[c], items, revision) /\ client[c] \in ClientShapes /\ revision \in Nat
          /\ e \in Nothing..revision /\ client[c].pending \cup {e} \subseteq 0..revision
      <4>1. e \in 0..revision /\ revision \in Nat /\ ClientOK(client[c], items, revision)
        BY <1>2, HandleEventStream, QueueSyncAssumption DEF IInv, QueueOK
      <4> HIDE DEF e
      <4> QED BY <4>1 DEF ClientOK, Nothing
    <3> HIDE DEF e
    <3>2. \/ Becomes(c, client[c], {})
          \/ Becomes(c, [client[c] EXCEPT !.latest = e], {})
          \/ Sends(c, [client[c] EXCEPT !.pending = client[c].pending \cup {e}], {}, "event", op, NoSnapshot)
      BY <1>2 DEF HandleEvent, e
    <3> HIDE DEF op
    <3>3. CASE Becomes(c, client[c], {})
      BY <3>1, <3>3
    <3>4. CASE Becomes(c, [client[c] EXCEPT !.latest = e], {})
      <4> DEFINE new == [client[c] EXCEPT !.latest = e]
      <4>1. new.intents = client[c].intents /\ ClientOK(new, items, revision)
        BY <3>1, LatestField
      <4>2. Becomes(c, new, {})
        BY <3>4
      <4> HIDE DEF new
      <4> QED BY <4>1, <4>2 DEF ClientOK
    <3>5. CASE Sends(c, [client[c] EXCEPT !.pending = client[c].pending \cup {e}], {}, "event", op, NoSnapshot)
      <4> DEFINE new == [client[c] EXCEPT !.pending = client[c].pending \cup {e}]
      <4>1. new.intents = client[c].intents /\ ClientOK(new, items, revision)
        BY <3>1, PendingField
      <4>2. Sends(c, new, {}, "event", op, NoSnapshot)
        BY <3>5
      <4> HIDE DEF new
      <4> QED BY <4>1, <4>2 DEF ClientOK
    <3> QED BY <3>2, <3>3, <3>4, <3>5
  <2> HIDE DEF e, op
  <2>2. client'[c].intents = client[c].intents /\ \A d \in Clients : d # c => client'[d] = client[d]
    <3>1. CASE Becomes(c, cl, {})
      BY <2>1, <3>1 DEF Becomes, IInv
    <3>2. CASE Sends(c, cl, {}, "event", op, NoSnapshot)
      <4>1. cl.next + 1 \in Nat
        BY <2>1 DEF ClientShapes
      <4>2. [cl EXCEPT !.next = cl.next + 1].intents = cl.intents
        BY <2>1, <4>1, NextField
      <4> QED BY <2>1, <3>2, <4>2 DEF Sends, IInv
    <3> QED BY <2>1, <3>1, <3>2
  <2>3. KeepsIntents
    <3>1. \A d \in Clients : client[d].intents \in Nat
      BY DEF IInv, ClientOK, ClientShapes
    <3> QED BY <2>2, <3>1 DEF KeepsIntents
  <2>4. \A x \in calls' : MayApply(x) => x \in calls
    BY <2>1 DEF Becomes, Sends, Call, MayApply
  <2>5. UNCHANGED applied
    BY <1>2 DEF HandleEvent
  <2> QED BY <2>3, <2>4, <2>5, OtherwiseOnce
<1>3. ASSUME NEW c \in Clients, Refresh(c)
      PROVE  OnceInv'
  <2> DEFINE cl == [client[c] EXCEPT !.intents = @ + 1]
  <2>1. Sends(c, cl, {}, "refresh", NoOp, NoSnapshot) /\ UNCHANGED applied
    BY <1>3 DEF Refresh
  <2>2. cl \in ClientShapes /\ cl.intents = client[c].intents + 1 /\ client[c].intents \in Nat
    <3>1. client[c] \in ClientShapes /\ client[c].intents \in Nat
      BY DEF IInv, ClientOK, ClientShapes
    <3>2. client[c].intents + 1 \in Nat
      BY <3>1
    <3> QED BY <3>1, <3>2, IntentsField
  <2> HIDE DEF cl
  <2>3. client'[c].intents = client[c].intents + 1 /\ \A d \in Clients : d # c => client'[d] = client[d]
    <3>1. cl.next + 1 \in Nat
      BY <2>2 DEF ClientShapes
    <3>2. [cl EXCEPT !.next = cl.next + 1].intents = cl.intents
      BY <2>2, <3>1, NextField
    <3> QED BY <2>1, <2>2, <3>2 DEF Sends, IInv
  <2>4. KeepsIntents
    <3>1. \A d \in Clients : client[d].intents \in Nat
      BY DEF IInv, ClientOK, ClientShapes
    <3> QED BY <2>2, <2>3, <3>1 DEF KeepsIntents
  <2>5. \A x \in calls' : MayApply(x) => x \in calls
    BY <2>1 DEF Sends, Call, MayApply
  <2> QED BY <2>1, <2>4, <2>5, OtherwiseOnce
<1>4. CASE UNCHANGED vars \/ DeleteTrack \/ \E r \in deletions : PublishDeletion(r)
  BY <1>1, <1>4 DEF vars, DeleteTrack, PublishDeletion
<1>5. ASSUME NEW c \in Clients, Subscribe(c) \/ FirstEvent(c) \/ LaterEvent(c) \/ Disconnect(c)
      PROVE  OnceInv'
  BY <1>1, <1>5 DEF Subscribe, FirstEvent, LaterEvent, Disconnect
<1> QED BY <1>2, <1>3, <1>4, <1>5, MutateOnce, CallStepsOnce, HandleAnswerOnce, ActOnce DEF Next

(* What a user did once is done at most once, for any number of clients,      *)
(* conflicts and lost answers: an intent has one request at most that may     *)
(* still apply it, and none once it is applied (isQueueConflict,              *)
(* retryWithFreshRevision).                                                   *)
THEOREM QueueAppliedOnce == Spec => []AppliedOnce
<1>1. OnceInv => AppliedOnce
  BY DEF OnceInv, AppliedOnce
<1> QED BY <1>1, InitIInv, NextIInv, InitOnce, NextOnce, PTL DEF Spec

----------------------------------------------------------------------------
(* Settled is current *)

\* The same request of the same client.
Stems(y, z) ==
  y.client = z.client /\ y.order = z.order /\ y.role = z.role /\ y.op = z.op

\* A request is answered with the Queue as it is or with nothing, and a new one
\* has no answer and a number no other has.
RequestsMove ==
  \A y \in calls' :
    \/ \E z \in calls : /\ Stems(y, z)
                        /\ \/ y.snapshot = z.snapshot
                           \/ y.snapshot.revision \in {Nothing, revision}
    \/ /\ y.snapshot.revision = Nothing /\ y.client \in Clients
       /\ y.order \in Nat /\ y.order > client[y.client].next

LEMMA AnswersFollowStays ==
  ASSUME IInv, AnswersFollow, RequestsMove
  PROVE  AnswersFollow'
<1> SUFFICES ASSUME NEW x \in calls', NEW y \in calls', x.role = "event", x.client = y.client,
                    x.order < y.order, y.snapshot.revision # Nothing
             PROVE  x.op.event <= y.snapshot.revision
  BY DEF AnswersFollow
<1>1. PICK v \in calls : /\ Stems(y, v)
                         /\ y.snapshot = v.snapshot \/ y.snapshot.revision = revision
  BY DEF RequestsMove
<1>2. /\ v.client \in Clients /\ v.order \in Nat /\ v.order <= client[v.client].next
      /\ client[v.client].next \in Nat
  BY DEF IInv, CallOK, CallShapes, ClientOK, ClientShapes
<1>3. PICK z \in calls : Stems(x, z)
  <2>1. \/ \E z \in calls : Stems(x, z)
        \/ x.client \in Clients /\ x.order \in Nat /\ x.order > client[x.client].next
    BY DEF RequestsMove
  <2>2. ~(x.order \in Nat /\ x.order > client[x.client].next)
    BY <1>1, <1>2 DEF Stems
  <2> QED BY <2>1, <2>2
<1>4. CASE y.snapshot = v.snapshot
  BY <1>1, <1>3, <1>4 DEF AnswersFollow, Stems
<1>5. CASE y.snapshot.revision = revision
  BY <1>3, <1>5 DEF IInv, CallOK, Stems
<1> QED BY <1>1, <1>4, <1>5

LEMMA ShownFollowsStays ==
  ASSUME IInv, ShownFollows, RequestsMove,
         \A c \in Clients : client'[c].revision = client[c].revision
                            /\ client'[c].applied = client[c].applied
  PROVE  ShownFollows'
<1> SUFFICES ASSUME NEW x \in calls', x.role = "event", x.order < client'[x.client].applied
             PROVE  x.op.event <= client'[x.client].revision
  BY DEF ShownFollows
<1>1. CASE \E z \in calls : Stems(x, z)
  <2>1. PICK z \in calls : Stems(x, z)
    BY <1>1
  <2>2. z.client \in Clients
    BY DEF IInv, CallOK, CallShapes
  <2> QED BY <2>1, <2>2 DEF ShownFollows, Stems
<1>2. CASE x.client \in Clients /\ x.order \in Nat /\ x.order > client[x.client].next
  <2>1. /\ client[x.client].applied <= client[x.client].next
        /\ client[x.client].applied \in Nat /\ client[x.client].next \in Nat
    BY <1>2 DEF IInv, ClientOK, ClientShapes
  <2> QED BY <1>2, <2>1
<1> QED BY <1>1, <1>2 DEF RequestsMove

\* One request moves on.
LEMMA GoesNews ==
  ASSUME IInv, NewsInv, UNCHANGED client, NEW call \in calls, NEW new, Goes(call, new),
         IsSameRequest(new, call),
         \/ new.snapshot = call.snapshot \/ new.snapshot.revision \in {Nothing, revision}
  PROVE  AnswersFollow' /\ ShownFollows' /\ PendingIsFetched'
<1>1. Stems(new, call)
  BY DEF IsSameRequest, Stems
<1>2. \A x \in calls : Stems(x, x)
  BY DEF Stems
<1>3. calls' = (calls \ {call}) \cup {new}
  BY DEF Goes
<1>4. RequestsMove
  BY <1>1, <1>2, <1>3 DEF RequestsMove
<1>5. AnswersFollow'
  BY <1>4, AnswersFollowStays DEF NewsInv
<1>6. ShownFollows'
  BY <1>4, ShownFollowsStays DEF NewsInv
<1>7. PendingIsFetched'
  <2> SUFFICES ASSUME NEW c \in Clients, NEW e \in client'[c].pending
               PROVE  \E x \in calls' : x.client = c /\ x.role = "event" /\ x.op.event = e
    BY DEF PendingIsFetched
  <2>1. PICK x \in calls : x.client = c /\ x.role = "event" /\ x.op.event = e
    BY DEF NewsInv, PendingIsFetched
  <2>2. CASE x = call
    BY <1>1, <1>3, <2>1, <2>2 DEF Stems
  <2>3. CASE x # call
    BY <1>3, <2>1, <2>3
  <2> QED BY <2>2, <2>3
<1> QED BY <1>5, <1>6, <1>7

\* The requests that have yet to publish the newest change.
Unheard(x, r) == x.stage = "committed" \/ (x.stage = "read" /\ x.snapshot.revision = r)

LEMMA UnpublishedIs ==
  IsUnpublished <=> revision \in deletions \/ \E x \in calls : Unheard(x, revision)
BY DEF IsUnpublished, Unheard

LEMMA UnpublishedStays ==
  ASSUME UNCHANGED revision, revision \in deletions => revision \in deletions',
         \A x \in calls : Unheard(x, revision) => \E y \in calls' : Unheard(y, revision),
         IsUnpublished
  PROVE  IsUnpublished'
<1>1. revision \in deletions \/ \E x \in calls : Unheard(x, revision)
  BY UnpublishedIs
<1>2. revision \in deletions' \/ \E x \in calls' : Unheard(x, revision)
  BY <1>1
<1> QED BY <1>2 DEF IsUnpublished, Unheard

\* What announced the newest revision to the client still does.
LEMMA AnnouncedStays ==
  ASSUME NEW c \in Clients, UNCHANGED revision, IsAnnounced(c),
         IsUnpublished => IsUnpublished',
         stream'[c].stage = stream[c].stage,
         stream[c].slot = revision => stream'[c].slot = revision,
         \A i \in DOMAIN stream[c].wire :
           stream[c].wire[i] = revision => \E j \in DOMAIN stream'[c].wire : stream'[c].wire[j] = revision,
         revision \in client[c].pending => revision \in client'[c].pending \/ client'[c].latest = revision,
         client[c].latest = revision => client'[c].latest = revision,
         client[c].revision = revision => client'[c].revision = revision
  PROVE  IsAnnounced(c)'
BY DEF IsAnnounced

LEMMA NewsBy ==
  ASSUME AnswersFollow', ShownFollows', PendingIsFetched',
         \A c \in Clients : excuse'[c] # "overtaken" => client'[c].latest <= client'[c].revision,
         \A c \in Clients : excuse'[c] = "none" /\ stream'[c].stage # "off" => IsAnnounced(c)'
  PROVE  NewsInv'
BY DEF NewsInv

LEMMA InitNews == Init => NewsInv
<1> SUFFICES ASSUME Init PROVE NewsInv
  OBVIOUS
<1>1. ASSUME NEW x \in calls PROVE x.role = "refresh"
  <2>1. PICK c \in Opening : x = Call(c, 1, "refresh", NoOp, NoSnapshot)
    BY DEF Init
  <2> QED BY <2>1 DEF Call
<1>2. \A c \in Clients : /\ client[c].pending = {} /\ client[c].latest = -1
                         /\ client[c].revision = 0 /\ stream[c].stage = "off"
  BY DEF Init, NewClient, NoStream, Nothing
<1>3. AnswersFollow /\ ShownFollows
  BY <1>1 DEF AnswersFollow, ShownFollows
<1>4. PendingIsFetched
  BY <1>2 DEF PendingIsFetched
<1>5. \A c \in Clients : client[c].latest <= client[c].revision
  BY <1>2
<1> QED BY <1>2, <1>3, <1>4, <1>5 DEF NewsInv

LEMMA MutateNews ==
  ASSUME IInv, NewsInv, NEW call \in calls, Mutate(call)
  PROVE  NewsInv'
<1>1. call \in CallShapes /\ call.stage = "sent" /\ UNCHANGED <<client, stream, deletions, excuse>>
  BY DEF IInv, CallOK, Mutate
<1>2. \A c \in Clients : excuse'[c] # "overtaken" => client'[c].latest <= client'[c].revision
  BY <1>1 DEF NewsInv
<1>3. CASE call.basis.revision = revision /\ Accepts(items, call.op)
  <2> DEFINE new == [call EXCEPT !.stage = "committed"]
  <2>1. Goes(call, new)
    BY <1>3 DEF Mutate
  <2>2. IsSameRequest(new, call) /\ new.stage = "committed" /\ new.snapshot = call.snapshot
    BY <1>1, CommittedShape
  <2> HIDE DEF new
  <2>3. IsUnpublished'
    BY <2>1, <2>2 DEF Goes, IsUnpublished
  <2>4. AnswersFollow' /\ ShownFollows' /\ PendingIsFetched'
    BY <1>1, <2>1, <2>2, GoesNews
  <2>5. \A c \in Clients : IsAnnounced(c)'
    BY <2>3 DEF IsAnnounced
  <2> QED BY <1>2, <2>4, <2>5, NewsBy
<1>4. CASE ~(call.basis.revision = revision /\ Accepts(items, call.op))
  <2>1. PICK said \in {"conflict", "refused"} :
          Goes(call, Answered(call, said, NoSnapshot)) /\ UNCHANGED <<items, revision>>
    BY <1>4 DEF Mutate
  <2> DEFINE new == Answered(call, said, NoSnapshot)
  <2>2. NoSnapshot \in Snapshots /\ NoSnapshot.revision = Nothing
    BY DEF NoSnapshot, Nothing, Snapshots
  <2>3. IsSameRequest(new, call) /\ new.snapshot = NoSnapshot
    BY <1>1, <2>2, AnsweredShape
  <2> HIDE DEF new
  <2>4. Goes(call, new)
    BY <2>1 DEF new
  <2>5. AnswersFollow' /\ ShownFollows' /\ PendingIsFetched'
    BY <1>1, <2>2, <2>3, <2>4, GoesNews
  <2>6. IsUnpublished => IsUnpublished'
    <3>1. \A x \in calls : Unheard(x, revision) => x # call /\ x \in calls'
      BY <1>1, <2>4 DEF Unheard, Goes
    <3> QED BY <1>1, <2>1, <3>1, UnpublishedStays
  <2>7. \A c \in Clients : IsAnnounced(c) => IsAnnounced(c)'
    BY <1>1, <2>1, <2>6, AnnouncedStays
  <2>8. \A c \in Clients : excuse'[c] = "none" /\ stream'[c].stage # "off" => IsAnnounced(c)'
    BY <1>1, <2>7 DEF NewsInv
  <2> QED BY <1>2, <2>5, <2>8, NewsBy
<1> QED BY <1>3, <1>4

LEMMA ReadNews ==
  ASSUME IInv, NewsInv, NEW call \in calls, Read(call)
  PROVE  NewsInv'
<1>1. /\ call \in CallShapes /\ QueueOK(items, revision)
      /\ UNCHANGED <<revision, client, stream, deletions, excuse>>
  BY DEF IInv, CallOK, Read
<1>2. Snapshot \in Snapshots /\ Snapshot.revision = revision
  BY <1>1, SnapshotIsCopy DEF IsCopy
<1>3. PICK new :
        /\ Goes(call, new) /\ IsSameRequest(new, call) /\ new.snapshot = Snapshot
        /\ (call.stage = "sent" \/ new.stage = "read")
  <2>1. CASE call.stage = "sent" /\ Goes(call, Answered(call, "ok", Snapshot))
    BY <1>1, <1>2, <2>1, AnsweredShape
  <2>2. CASE Goes(call, [call EXCEPT !.stage = "read", !.snapshot = Snapshot])
    <3> DEFINE one == [call EXCEPT !.stage = "read", !.snapshot = Snapshot]
    <3>1. IsSameRequest(one, call) /\ one.snapshot = Snapshot /\ one.stage = "read"
      BY <1>1, <1>2, ReadShape
    <3>2. Goes(call, one)
      BY <2>2
    <3> HIDE DEF one
    <3> QED BY <3>1, <3>2
  <2> QED BY <2>1, <2>2 DEF Read
<1>4. AnswersFollow' /\ ShownFollows' /\ PendingIsFetched'
  BY <1>1, <1>2, <1>3, GoesNews
<1>5. IsUnpublished => IsUnpublished'
  <2>1. ASSUME NEW x \in calls, Unheard(x, revision)
        PROVE  \E y \in calls' : Unheard(y, revision)
    <3>1. CASE x # call
      BY <1>3, <2>1, <3>1 DEF Goes
    <3>2. CASE x = call
      <4>1. new.stage = "read" /\ new.snapshot.revision = revision /\ new \in calls'
        BY <1>2, <1>3, <2>1, <3>2 DEF Goes, Unheard
      <4> QED BY <4>1 DEF Unheard
    <3> QED BY <3>1, <3>2
  <2> QED BY <1>1, <2>1, UnpublishedStays
<1>6. \A c \in Clients : IsAnnounced(c) => IsAnnounced(c)'
  BY <1>1, <1>5, AnnouncedStays
<1>7. \A c \in Clients : excuse'[c] = "none" /\ stream'[c].stage # "off" => IsAnnounced(c)'
  BY <1>1, <1>6 DEF NewsInv
<1>8. \A c \in Clients : excuse'[c] # "overtaken" => client'[c].latest <= client'[c].revision
  BY <1>1 DEF NewsInv
<1> QED BY <1>4, <1>7, <1>8, NewsBy

\* Whatever revision is published: the newest is announced by it, an older one
\* that takes the newest's place is an excuse, and elsewhere nothing changes.
LEMMA PublishNews ==
  ASSUME IInv, NewsInv, UNCHANGED <<revision, client>>, NEW r \in 0..revision, Publish(r),
         r # revision /\ IsUnpublished => IsUnpublished'
  PROVE  /\ \A c \in Clients : excuse'[c] # "overtaken" => client'[c].latest <= client'[c].revision
         /\ \A c \in Clients : excuse'[c] = "none" /\ stream'[c].stage # "off" => IsAnnounced(c)'
<1>0. revision \in Nat /\ r \in Nat /\ r <= revision
  BY QueueSyncAssumption DEF IInv, QueueOK
<1>1. ASSUME NEW c \in Clients
      PROVE  /\ excuse'[c] \in {"overtaken", excuse[c]}
             /\ stream'[c].stage = stream[c].stage /\ stream'[c].wire = stream[c].wire
             /\ stream[c].stage # "off" => stream'[c].slot = r
             /\ stream[c].stage # "off" /\ stream[c].slot > r => excuse'[c] = "overtaken"
  <2>1. stream[c] \in StreamShapes
    BY DEF IInv, StreamOK
  <2>2. stream'[c] = IF stream[c].stage # "off" THEN [stream[c] EXCEPT !.slot = r] ELSE stream[c]
    BY DEF Publish
  <2>3. excuse'[c] = IF stream[c].stage # "off" /\ stream[c].slot > r THEN "overtaken" ELSE excuse[c]
    BY DEF Publish
  <2>4. /\ [stream[c] EXCEPT !.slot = r].stage = stream[c].stage
        /\ [stream[c] EXCEPT !.slot = r].wire = stream[c].wire
        /\ [stream[c] EXCEPT !.slot = r].slot = r
    BY <2>1 DEF StreamShapes
  <2> QED BY <2>2, <2>3, <2>4
<1>2. \A c \in Clients : excuse'[c] # "overtaken" => client'[c].latest <= client'[c].revision
  BY <1>1 DEF NewsInv
<1>3. ASSUME NEW c \in Clients, excuse'[c] = "none", stream'[c].stage # "off"
      PROVE  IsAnnounced(c)'
  <2>1. excuse[c] = "none" /\ stream[c].stage # "off" /\ IsAnnounced(c) /\ stream'[c].slot = r
    BY <1>1, <1>3 DEF NewsInv
  <2>2. CASE r = revision
    BY <2>1, <2>2 DEF IsAnnounced
  <2>3. CASE r # revision
    <3>1. stream[c].slot # revision
      BY <1>0, <1>1, <1>3, <2>1, <2>3
    <3>2. IsUnpublished => IsUnpublished'
      BY <2>3
    <3> QED BY <1>1, <2>1, <3>1, <3>2, AnnouncedStays
  <2> QED BY <2>2, <2>3
<1> QED BY <1>2, <1>3

LEMMA RespondNews ==
  ASSUME IInv, NewsInv, NEW call \in calls, Respond(call)
  PROVE  NewsInv'
<1>1. /\ CallOK(call, items, revision, client[call.client].next) /\ call \in CallShapes
      /\ call.stage = "read" /\ revision \in Nat
  BY QueueSyncAssumption DEF IInv, CallOK, QueueOK, Respond
<1>2. call.snapshot \in Snapshots /\ call.snapshot.revision \in 0..revision
  BY <1>1 DEF CallOK, IsCopy
<1>3. UNCHANGED <<revision, client, deletions>> /\ Publish(call.snapshot.revision)
  BY DEF Respond
<1> DEFINE new == Answered(call, "ok", call.snapshot)
<1>4. Goes(call, new) /\ IsSameRequest(new, call) /\ new.snapshot = call.snapshot
  BY <1>1, <1>2, AnsweredShape DEF Respond
<1> HIDE DEF new
<1>5. AnswersFollow' /\ ShownFollows' /\ PendingIsFetched'
  BY <1>3, <1>4, GoesNews
<1>6. ASSUME call.snapshot.revision # revision, IsUnpublished
      PROVE  IsUnpublished'
  <2>1. \A x \in calls : Unheard(x, revision) => x # call /\ x \in calls'
    BY <1>1, <1>4, <1>6 DEF Unheard, Goes
  <2> QED BY <1>3, <1>6, <2>1, UnpublishedStays
<1> QED BY <1>2, <1>3, <1>5, <1>6, PublishNews, NewsBy

LEMMA PublishDeletionNews ==
  ASSUME IInv, NewsInv, NEW r \in deletions, PublishDeletion(r)
  PROVE  NewsInv'
<1>1. UNCHANGED <<revision, client, calls>> /\ Publish(r) /\ deletions' = deletions \ {r}
  BY DEF PublishDeletion
<1>2. r \in 0..revision
  BY DEF IInv
<1>3. AnswersFollow' /\ ShownFollows' /\ PendingIsFetched'
  BY <1>1 DEF NewsInv, AnswersFollow, ShownFollows, PendingIsFetched
<1>4. ASSUME r # revision, IsUnpublished
      PROVE  IsUnpublished'
  BY <1>1, <1>4, UnpublishedStays
<1> QED BY <1>1, <1>2, <1>3, <1>4, PublishNews, NewsBy

LEMMA CallFailsNews ==
  ASSUME IInv, NewsInv, NEW call \in calls, CallFails(call)
  PROVE  NewsInv'
<1>1. call \in CallShapes /\ UNCHANGED <<revision, client, stream, deletions>>
  BY DEF IInv, CallOK, CallFails
<1>2. NoSnapshot \in Snapshots /\ NoSnapshot.revision = Nothing
  BY DEF NoSnapshot, Nothing, Snapshots
<1> DEFINE new == Answered(call, "error", NoSnapshot)
<1>3. Goes(call, new) /\ IsSameRequest(new, call) /\ new.snapshot = NoSnapshot
  BY <1>1, <1>2, AnsweredShape DEF CallFails
<1> HIDE DEF new
<1>4. AnswersFollow' /\ ShownFollows' /\ PendingIsFetched'
  BY <1>1, <1>2, <1>3, GoesNews
<1>5. \A c \in Clients : excuse'[c] = IF call.stage \in {"committed", "read"}
                                      THEN "overtaken" ELSE excuse[c]
  BY DEF CallFails
<1>6. \A c \in Clients : excuse'[c] # "overtaken" => client'[c].latest <= client'[c].revision
  BY <1>1, <1>5 DEF NewsInv
<1>7. ASSUME NEW c \in Clients, excuse'[c] = "none", stream'[c].stage # "off"
      PROVE  IsAnnounced(c)'
  <2>1. call.stage \notin {"committed", "read"} /\ IsAnnounced(c)
    BY <1>1, <1>5, <1>7 DEF NewsInv
  <2>2. \A x \in calls : Unheard(x, revision) => x # call /\ x \in calls'
    BY <1>3, <2>1 DEF Unheard, Goes
  <2>3. IsUnpublished => IsUnpublished'
    BY <1>1, <2>2, UnpublishedStays
  <2> QED BY <1>1, <2>1, <2>3, AnnouncedStays
<1> QED BY <1>4, <1>6, <1>7, NewsBy

LEMMA DeleteTrackNews ==
  ASSUME IInv, NewsInv, DeleteTrack
  PROVE  NewsInv'
<1>1. UNCHANGED <<calls, client, stream, excuse>> /\ revision' \in deletions'
  BY DEF DeleteTrack
<1>2. AnswersFollow' /\ ShownFollows' /\ PendingIsFetched'
  BY <1>1 DEF NewsInv, AnswersFollow, ShownFollows, PendingIsFetched
<1>3. \A c \in Clients : IsAnnounced(c)'
  BY <1>1 DEF IsAnnounced, IsUnpublished
<1>4. \A c \in Clients : excuse'[c] # "overtaken" => client'[c].latest <= client'[c].revision
  BY <1>1 DEF NewsInv
<1> QED BY <1>2, <1>3, <1>4, NewsBy

\* One event stream changes, and what it was to announce is announced.
LEMMA StreamStepNews ==
  ASSUME IInv, NewsInv, NEW c \in Clients,
         Subscribe(c) \/ FirstEvent(c) \/ LaterEvent(c) \/ Disconnect(c)
  PROVE  NewsInv'
<1>1. /\ UNCHANGED <<revision, calls, client, deletions>>
      /\ \A d \in Clients : d # c => excuse'[d] = excuse[d] /\ stream'[d] = stream[d]
      /\ excuse'[c] = excuse[c] \/ (excuse[c] = "failed" /\ stream'[c].stage = "subscribed")
  <2>1. CASE Subscribe(c)
    BY <2>1 DEF Subscribe, IInv
  <2>2. CASE FirstEvent(c) \/ LaterEvent(c) \/ Disconnect(c)
    BY <2>2 DEF FirstEvent, LaterEvent, Disconnect, IInv
  <2> QED BY <2>1, <2>2
<1>2. AnswersFollow' /\ ShownFollows' /\ PendingIsFetched'
  BY <1>1 DEF NewsInv, AnswersFollow, ShownFollows, PendingIsFetched
<1>3. \A d \in Clients : excuse'[d] # "overtaken" => client'[d].latest <= client'[d].revision
  BY <1>1 DEF NewsInv
<1>4. IsUnpublished => IsUnpublished'
  BY <1>1 DEF IsUnpublished
<1>5. ASSUME NEW d \in Clients, d # c, excuse'[d] = "none", stream'[d].stage # "off"
      PROVE  IsAnnounced(d)'
  <2>1. IsAnnounced(d)
    BY <1>1, <1>5 DEF NewsInv
  <2> QED BY <1>1, <1>4, <1>5, <2>1, AnnouncedStays
<1>6. ASSUME excuse'[c] = "none", stream'[c].stage # "off"
      PROVE  IsAnnounced(c)'
  <2>0. stream[c] \in StreamShapes /\ revision \in Nat
    BY QueueSyncAssumption DEF IInv, StreamOK, QueueOK
  <2>1. CASE Subscribe(c)
    <3>1. stream'[c].stage = "subscribed"
      BY <2>1 DEF Subscribe, IInv
    <3> QED BY <3>1 DEF IsAnnounced
  <2>2. CASE FirstEvent(c)
    <3>1. stream'[c].wire = <<revision>>
      <4>1. stream'[c] = [stream[c] EXCEPT !.stage = "live", !.wire = <<revision>>]
        BY <2>2 DEF FirstEvent, IInv
      <4> QED BY <2>0, <4>1 DEF StreamShapes
    <3>2. 1 \in DOMAIN <<revision>> /\ <<revision>>[1] = revision
      OBVIOUS
    <3> QED BY <1>1, <3>1, <3>2 DEF IsAnnounced
  <2>3. CASE LaterEvent(c)
    <3>1. stream'[c] = [stream[c] EXCEPT !.wire = Append(stream[c].wire, stream[c].slot), !.slot = Nothing]
      BY <2>0, <2>3 DEF LaterEvent, IInv
    <3>2. /\ stream'[c].wire = Append(stream[c].wire, stream[c].slot)
          /\ stream'[c].stage = stream[c].stage
      BY <2>0, <3>1 DEF StreamShapes
    <3>3. stream[c].wire \in Seq(Nat) /\ stream[c].slot \in Int
      BY <2>0 DEF StreamShapes
    <3>4. \A i \in DOMAIN stream[c].wire :
            i \in DOMAIN stream'[c].wire /\ stream'[c].wire[i] = stream[c].wire[i]
      BY <3>2, <3>3
    <3>5. stream[c].slot = revision => \E i \in DOMAIN stream'[c].wire : stream'[c].wire[i] = revision
      <4>1. /\ Len(stream[c].wire) + 1 \in DOMAIN stream'[c].wire
            /\ stream'[c].wire[Len(stream[c].wire) + 1] = stream[c].slot
        BY <3>2, <3>3
      <4> QED BY <4>1
    <3>6. IsAnnounced(c)
      BY <1>1, <1>6, <2>3, <3>2 DEF NewsInv, LaterEvent
    <3> QED BY <1>1, <1>4, <3>2, <3>4, <3>5, <3>6 DEF IsAnnounced
  <2>4. CASE Disconnect(c)
    <3>1. stream'[c].stage = "off"
      BY <2>4 DEF Disconnect, IInv, NoStream
    <3> QED BY <1>6, <3>1
  <2> QED BY <2>1, <2>2, <2>3, <2>4
<1> QED BY <1>2, <1>3, <1>5, <1>6, NewsBy

\* A request is sent, with the next number of its client.
LEMMA SentMoves ==
  ASSUME NEW c \in Clients, client[c].next \in Nat, NEW role, NEW op, NEW basis, NEW done,
         calls' = (calls \ done) \cup {Call(c, client[c].next + 1, role, op, basis)}
  PROVE  RequestsMove
<1> DEFINE new == Call(c, client[c].next + 1, role, op, basis)
<1>1. /\ new.snapshot.revision = Nothing /\ new.client = c
      /\ new.order = client[c].next + 1
  BY DEF Call, NoSnapshot
<1> HIDE DEF new
<1>2. new.order \in Nat /\ new.order > client[new.client].next
  BY <1>1
<1>3. \A z \in calls : Stems(z, z)
  BY DEF Stems
<1>4. calls' = (calls \ done) \cup {new}
  BY DEF new
<1> QED BY <1>1, <1>2, <1>3, <1>4 DEF RequestsMove

LEMMA FewerMove ==
  ASSUME calls' \subseteq calls
  PROVE  RequestsMove
BY DEF RequestsMove, Stems

\* What an event does to the client: it is no news, or what the client shows
\* already, or it is fetched.
EventDone(c, e) ==
  /\ \A d \in Clients : d # c => client'[d] = client[d]
  /\ client'[c].revision = client[c].revision /\ client'[c].applied = client[c].applied
  /\ \/ /\ e <= client[c].latest \/ e \in client[c].pending
        /\ client'[c].latest = client[c].latest /\ client'[c].pending = client[c].pending
        /\ calls' = calls
     \/ /\ e = client[c].revision /\ e > client[c].latest
        /\ client'[c].latest = e /\ client'[c].pending = client[c].pending
        /\ calls' = calls
     \/ /\ client'[c].latest = client[c].latest
        /\ client'[c].pending = client[c].pending \cup {e}
        /\ calls' = (calls \ {}) \cup
             {Call(c, client[c].next + 1, "event", [verb |-> "get", event |-> e], NoSnapshot)}

LEMMA EventResult ==
  ASSUME IInv, NEW c \in Clients, HandleEvent(c)
  PROVE  EventDone(c, Head(stream[c].wire))
<1> DEFINE cl == client[c]
<1>0. PICK e : e = Head(stream[c].wire)
  OBVIOUS
<1>1. UNCHANGED <<items, revision>>
  BY DEF HandleEvent
<1>2. e \in 0..revision
  BY <1>0, HandleEventStream
<1>3. /\ ClientOK(cl, items, revision) /\ revision \in Nat /\ cl \in ClientShapes /\ e \in Int
      /\ cl.latest \in Int
  BY <1>2, QueueSyncAssumption DEF IInv, QueueOK, ClientOK, ClientShapes
<1>4. \/ (e <= cl.latest \/ e \in cl.pending) /\ Becomes(c, cl, {})
      \/ e > cl.latest /\ e = cl.revision /\ Becomes(c, [cl EXCEPT !.latest = e], {})
      \/ Sends(c, [cl EXCEPT !.pending = cl.pending \cup {e}], {}, "event", [verb |-> "get", event |-> e], NoSnapshot)
  <2>1. \/ ~(e > cl.latest /\ e \notin cl.pending) /\ Becomes(c, cl, {})
        \/ e > cl.latest /\ e = cl.revision /\ Becomes(c, [cl EXCEPT !.latest = e], {})
        \/ Sends(c, [cl EXCEPT !.pending = cl.pending \cup {e}], {}, "event", [verb |-> "get", event |-> e], NoSnapshot)
    BY <1>0 DEF HandleEvent
  <2>2. ~(e > cl.latest /\ e \notin cl.pending) => e <= cl.latest \/ e \in cl.pending
    BY <1>3
  <2> QED BY <2>1, <2>2
<1>5. CASE (e <= cl.latest \/ e \in cl.pending) /\ Becomes(c, cl, {})
  <2>1. SameView(client'[c], cl) /\ \A d \in Clients : d # c => client'[d] = client[d]
    BY <1>1, <1>3, <1>5, BecomesKeeps
  <2>2. calls' = calls
    BY <1>5 DEF Becomes
  <2> QED BY <1>0, <1>5, <2>1, <2>2 DEF EventDone, SameView
<1>6. CASE e > cl.latest /\ e = cl.revision /\ Becomes(c, [cl EXCEPT !.latest = e], {})
  <2>1. e \in Nothing..revision
    BY <1>2, <1>3 DEF Nothing
  <2>2. PICK new : new = [cl EXCEPT !.latest = e]
    OBVIOUS
  <2>3. /\ ClientOK(new, items, revision) /\ new.next = cl.next /\ new.revision = cl.revision
        /\ new.applied = cl.applied /\ new.latest = e /\ new.pending = cl.pending
    BY <1>3, <2>1, <2>2, LatestField
  <2>4. Becomes(c, new, {})
    BY <1>6, <2>2
  <2>5. SameView(client'[c], new) /\ \A d \in Clients : d # c => client'[d] = client[d]
    BY <1>1, <2>3, <2>4, BecomesKeeps
  <2>6. calls' = calls
    BY <2>4 DEF Becomes
  <2> QED BY <1>0, <1>6, <2>3, <2>5, <2>6 DEF EventDone, SameView
<1>7. CASE Sends(c, [cl EXCEPT !.pending = cl.pending \cup {e}], {}, "event", [verb |-> "get", event |-> e], NoSnapshot)
  <2>1. PICK p : p = cl.pending \cup {e} /\ p \subseteq 0..revision
    BY <1>2, <1>3 DEF ClientOK
  <2>2. PICK new : new = [cl EXCEPT !.pending = p]
    OBVIOUS
  <2>3. /\ ClientOK(new, items, revision) /\ new.next = cl.next /\ new.revision = cl.revision
        /\ new.applied = cl.applied /\ new.latest = cl.latest /\ new.pending = p
    BY <1>3, <2>1, <2>2, PendingField
  <2>4. PICK op : op = [verb |-> "get", event |-> e]
    OBVIOUS
  <2>5. Sends(c, new, {}, "event", op, NoSnapshot)
    BY <1>7, <2>1, <2>2, <2>4
  <2>6. op \in Events /\ op.event <= revision
    BY <1>2, <1>3, <2>4 DEF Events
  <2>7. IsCopy(NoSnapshot, items, revision)
    BY <1>3, NoSnapshotIsCopy
  <2>8. SameView(client'[c], new) /\ \A d \in Clients : d # c => client'[d] = client[d]
    BY <1>1, <2>3, <2>5, <2>6, <2>7, SendsKeeps DEF Roles
  <2>9. calls' = (calls \ {}) \cup {Call(c, cl.next + 1, "event", op, NoSnapshot)}
    BY <2>3, <2>5 DEF Sends
  <2> QED BY <1>0, <2>1, <2>3, <2>4, <2>8, <2>9 DEF EventDone, SameView
<1> QED BY <1>4, <1>5, <1>6, <1>7

LEMMA HandleEventNews ==
  ASSUME IInv, NewsInv, NEW c \in Clients, HandleEvent(c)
  PROVE  NewsInv'
<1>0. PICK e : e = Head(stream[c].wire)
  OBVIOUS
<1>1. UNCHANGED <<revision, deletions, excuse>>
  BY DEF HandleEvent
<1>2. /\ e \in 0..revision
      /\ \A d \in Clients : d # c => stream'[d] = stream[d]
      /\ stream'[c].stage = stream[c].stage /\ stream'[c].slot = stream[c].slot
      /\ \A i \in DOMAIN stream[c].wire :
           \/ stream[c].wire[i] = e
           \/ \E j \in DOMAIN stream'[c].wire : stream'[c].wire[j] = stream[c].wire[i]
  BY <1>0, HandleEventStream
<1>3. EventDone(c, e)
  BY <1>0, EventResult
<1>4. /\ client[c].next \in Nat /\ client[c].latest \in Int /\ client[c].latest <= revision
      /\ revision \in Nat /\ e \in Int /\ e <= revision /\ client[c].revision \in Nat
  BY <1>2, QueueSyncAssumption DEF IInv, ClientOK, ClientShapes, QueueOK
<1>5. RequestsMove /\ calls \subseteq calls'
  <2>1. CASE calls' = calls
    BY <2>1, FewerMove
  <2>2. CASE calls' = (calls \ {}) \cup
               {Call(c, client[c].next + 1, "event", [verb |-> "get", event |-> e], NoSnapshot)}
    <3>1. RequestsMove
      BY <1>4, <2>2, SentMoves
    <3> QED BY <2>2, <3>1
  <2> QED BY <1>3, <2>1, <2>2 DEF EventDone
<1>6. AnswersFollow'
  BY <1>5, AnswersFollowStays DEF NewsInv
<1>7. ShownFollows'
  BY <1>3, <1>5, ShownFollowsStays DEF NewsInv, EventDone
<1>8. PendingIsFetched'
  <2> SUFFICES ASSUME NEW d \in Clients, NEW f \in client'[d].pending
               PROVE  \E x \in calls' : x.client = d /\ x.role = "event" /\ x.op.event = f
    BY DEF PendingIsFetched
  <2>1. CASE f \in client[d].pending
    BY <1>5, <2>1 DEF NewsInv, PendingIsFetched
  <2>2. CASE f \notin client[d].pending
    <3> DEFINE new == Call(c, client[c].next + 1, "event", [verb |-> "get", event |-> e], NoSnapshot)
    <3>1. d = c /\ f = e /\ new \in calls'
      BY <1>3, <2>2 DEF EventDone
    <3>2. new.client = c /\ new.role = "event" /\ new.op.event = e
      BY DEF Call
    <3> HIDE DEF new
    <3> QED BY <3>1, <3>2
  <2> QED BY <2>1, <2>2
<1>9. ASSUME NEW d \in Clients, excuse'[d] # "overtaken"
      PROVE  client'[d].latest <= client'[d].revision
  <2>1. client[d].latest <= client[d].revision
    BY <1>1, <1>9 DEF NewsInv
  <2>2. CASE d # c
    BY <1>3, <2>1, <2>2 DEF EventDone
  <2>3. CASE d = c
    BY <1>3, <1>4, <2>1, <2>3 DEF EventDone
  <2> QED BY <2>2, <2>3
<1>10. IsUnpublished => IsUnpublished'
  BY <1>1, <1>5 DEF IsUnpublished
<1>11. ASSUME NEW d \in Clients, excuse'[d] = "none", stream'[d].stage # "off"
       PROVE  IsAnnounced(d)'
  <2>1. IsAnnounced(d)
    BY <1>1, <1>2, <1>11 DEF NewsInv
  <2>2. CASE d # c
    BY <1>1, <1>2, <1>3, <1>10, <2>1, <2>2, AnnouncedStays DEF EventDone
  <2>3. CASE d = c /\ e = revision
    <3>1. \/ client'[c].latest = revision \/ revision \in client'[c].pending
          \/ client'[c].revision = revision
      BY <1>3, <1>4, <2>3 DEF EventDone
    <3> QED BY <1>1, <2>3, <3>1 DEF IsAnnounced
  <2>4. CASE d = c /\ e # revision
    <3>1. /\ revision \in client[c].pending => revision \in client'[c].pending
          /\ client[c].revision = revision => client'[c].revision = revision
      BY <1>3 DEF EventDone
    <3>2. client[c].latest = revision => client'[c].latest = revision
      BY <1>3, <1>4 DEF EventDone
    <3>3. \A i \in DOMAIN stream[c].wire :
            stream[c].wire[i] = revision => \E j \in DOMAIN stream'[c].wire : stream'[c].wire[j] = revision
      BY <1>2, <2>4
    <3> QED BY <1>1, <1>2, <1>10, <2>1, <2>4, <3>1, <3>2, <3>3, AnnouncedStays
  <2> QED BY <2>2, <2>3, <2>4
<1> QED BY <1>6, <1>7, <1>8, <1>9, <1>11, NewsBy

LEMMA ActNews ==
  ASSUME IInv, NewsInv, NEW c \in Clients, Act(c) \/ Refresh(c)
  PROVE  NewsInv'
<1>0. PICK cl : cl = [client[c] EXCEPT !.intents = client[c].intents + 1]
  OBVIOUS
<1>1. client[c] \in ClientShapes /\ client[c].intents + 1 \in Nat /\ client[c].next \in Nat
  BY DEF IInv, ClientOK, ClientShapes
<1>2. /\ cl \in ClientShapes /\ cl.next = client[c].next /\ cl.latest = client[c].latest
      /\ cl.pending = client[c].pending /\ cl.applied = client[c].applied
      /\ Held(cl) = Held(client[c])
  BY <1>0, <1>1, IntentsField
<1>3. UNCHANGED <<revision, stream, deletions, excuse>>
  BY DEF Act, Refresh
<1>4. PICK role, op, basis : Sends(c, cl, {}, role, op, basis)
  BY <1>0 DEF Act, Refresh
<1>5. calls' = (calls \ {}) \cup {Call(c, client[c].next + 1, role, op, basis)}
  BY <1>2, <1>4 DEF Sends
<1>6. RequestsMove /\ calls \subseteq calls'
  BY <1>1, <1>5, SentMoves
<1>7. /\ \A d \in Clients : d # c => client'[d] = client[d]
      /\ client'[c].revision = client[c].revision /\ client'[c].applied = client[c].applied
      /\ client'[c].latest = client[c].latest /\ client'[c].pending = client[c].pending
  <2>1. PICK one : one = [cl EXCEPT !.next = cl.next + 1]
    OBVIOUS
  <2>2. client' = [client EXCEPT ![c] = one]
    BY <1>4, <2>1 DEF Sends
  <2>3. cl.next + 1 \in Nat
    BY <1>1, <1>2
  <2>4. /\ one.latest = cl.latest /\ one.pending = cl.pending /\ one.applied = cl.applied
        /\ one.revision = cl.revision
    BY <1>2, <2>1, <2>3, NextField
  <2>5. cl.revision = client[c].revision
    BY <1>2 DEF Held
  <2> QED BY <1>2, <2>2, <2>4, <2>5 DEF IInv
<1>8. AnswersFollow'
  BY <1>6, AnswersFollowStays DEF NewsInv
<1>9. ShownFollows'
  BY <1>6, <1>7, ShownFollowsStays DEF NewsInv
<1>10. \A d \in Clients : client'[d].pending = client[d].pending
  BY <1>7
<1>11. PendingIsFetched'
  BY <1>6, <1>10 DEF NewsInv, PendingIsFetched
<1>12. \A d \in Clients : client'[d].latest = client[d].latest /\ client'[d].revision = client[d].revision
  BY <1>7
<1>13. \A d \in Clients : excuse'[d] # "overtaken" => client'[d].latest <= client'[d].revision
  BY <1>3, <1>12 DEF NewsInv
<1>14. IsUnpublished => IsUnpublished'
  BY <1>3, <1>6 DEF IsUnpublished
<1>15. \A d \in Clients : IsAnnounced(d) => IsAnnounced(d)'
  BY <1>3, <1>10, <1>12, <1>14, AnnouncedStays
<1>16. \A d \in Clients : excuse'[d] = "none" /\ stream'[d].stage # "off" => IsAnnounced(d)'
  BY <1>3, <1>15 DEF NewsInv
<1> QED BY <1>8, <1>9, <1>11, <1>13, <1>16, NewsBy

\* What an answer excuses.
LEMMA AnswerExcuse ==
  ASSUME IInv, NEW call \in calls, HandleAnswer(call)
  PROVE  LET c == call.client
         IN  /\ \A d \in Clients : d # c => excuse'[d] = excuse[d]
             /\ AnsweredClient(call).revision < client[c].revision => excuse'[c] = "overtaken"
             /\ call.role = "event" /\ call.said # "ok" => excuse'[c] # "none"
             /\ excuse'[c] # "overtaken" => excuse[c] # "overtaken"
             /\ excuse'[c] = "none" => excuse[c] = "none"
<1> DEFINE c == call.client
<1>1. c \in Clients /\ excuse \in [Clients -> {"none", "failed", "overtaken"}]
  BY DEF IInv, CallOK, CallShapes
<1>2. excuse' = [excuse EXCEPT ![c] =
        IF AnsweredClient(call).revision < client[c].revision THEN "overtaken"
        ELSE IF call.role = "event" /\ call.said # "ok" /\ excuse[c] = "none" THEN "failed"
        ELSE excuse[c]]
  BY DEF HandleAnswer, AnsweredClient
<1>3. excuse'[c] = IF AnsweredClient(call).revision < client[c].revision THEN "overtaken"
                   ELSE IF call.role = "event" /\ call.said # "ok" /\ excuse[c] = "none" THEN "failed"
                   ELSE excuse[c]
  BY <1>1, <1>2
<1>4. \A d \in Clients : d # c => excuse'[d] = excuse[d]
  BY <1>1, <1>2
<1> HIDE DEF c
<1>5. /\ AnsweredClient(call).revision < client[c].revision => excuse'[c] = "overtaken"
      /\ call.role = "event" /\ call.said # "ok" => excuse'[c] # "none"
      /\ excuse'[c] # "overtaken" => excuse[c] # "overtaken"
      /\ excuse'[c] = "none" => excuse[c] = "none"
  BY <1>3
<1> QED BY <1>4, <1>5 DEF c

LEMMA HandleAnswerNews ==
  ASSUME IInv, NewsInv, NEW call \in calls, HandleAnswer(call)
  PROVE  NewsInv'
<1> DEFINE c == call.client
           cl == AnsweredClient(call)
<1>1. UNCHANGED <<revision, stream, deletions>> /\ call.stage = "answered"
  BY DEF HandleAnswer
<1>2. /\ CallOK(call, items, revision, client[c].next) /\ c \in Clients /\ revision \in Nat
      /\ ClientOK(client[c], items, revision) /\ client[c] \in ClientShapes /\ call.order \in Nat
  BY QueueSyncAssumption DEF IInv, QueueOK, CallOK, CallShapes, ClientOK
<1>3. /\ \A d \in Clients : d # c => client'[d] = client[d]
      /\ client'[c].revision = cl.revision /\ client'[c].applied = cl.applied
      /\ client'[c].latest = IF call.role = "event" /\ call.said = "ok"
                             THEN Later(client[c].latest, call.op.event) ELSE client[c].latest
      /\ client'[c].pending = IF call.role = "event"
                              THEN client[c].pending \ {call.op.event} ELSE client[c].pending
      /\ \/ calls' = calls \ {call}
         \/ \E role \in {"fetch", "retry"}, basis \in Snapshots :
              calls' = (calls \ {call}) \cup {Call(c, client[c].next + 1, role, call.op, basis)}
  BY AnswerResult DEF AnswerDone
<1>4. /\ ClientOK(cl, items, revision)
      /\ \/ cl = client[c] /\ (call.said = "ok" => call.order < client[c].applied)
         \/ /\ call.said = "ok" /\ call.order >= client[c].applied /\ cl.applied = call.order
            /\ cl.revision = call.snapshot.revision
  BY AnsweredClientOK
<1>5. /\ client[c].revision \in Nat /\ client[c].latest \in Int /\ client[c].latest <= revision
      /\ client[c].next \in Nat /\ client[c].applied \in Nat
      /\ client[c].revision <= revision /\ cl.revision \in Nat /\ cl.revision <= revision
  <2>1. ASSUME NEW k, ClientOK(k, items, revision)
        PROVE  k.revision \in Nat /\ k.revision <= revision
    <3>1. k \in ClientShapes /\ IsCopy(Held(k), items, revision)
      BY <2>1 DEF ClientOK
    <3>2. Held(k).revision = k.revision /\ k.revision \in Nat
      BY <3>1 DEF ClientShapes, Held
    <3> QED BY <3>1, <3>2 DEF IsCopy
  <2>2. client[c].latest \in Int /\ client[c].latest <= revision /\ client[c].next \in Nat
        /\ client[c].applied \in Nat
    BY <1>2 DEF ClientOK, ClientShapes
  <2> QED BY <1>2, <1>4, <2>1, <2>2
<1>6. /\ \A d \in Clients : d # c => excuse'[d] = excuse[d]
      /\ cl.revision < client[c].revision => excuse'[c] = "overtaken"
      /\ call.role = "event" /\ call.said # "ok" => excuse'[c] # "none"
      /\ excuse'[c] # "overtaken" => excuse[c] # "overtaken"
      /\ excuse'[c] = "none" => excuse[c] = "none"
  BY AnswerExcuse
<1>7. call.role = "event" => call.op.event \in Nat /\ call.op.event <= revision
  BY <1>2 DEF CallOK, Events
<1> HIDE DEF c, cl
<1>8. RequestsMove /\ \A x \in calls : x # call => x \in calls'
  <2>1. CASE calls' = calls \ {call}
    BY <2>1, FewerMove
  <2>2. ASSUME NEW role \in {"fetch", "retry"}, NEW basis \in Snapshots,
               calls' = (calls \ {call}) \cup {Call(c, client[c].next + 1, role, call.op, basis)}
        PROVE  RequestsMove /\ \A x \in calls : x # call => x \in calls'
    <3>1. RequestsMove
      BY <1>2, <1>5, <2>2, SentMoves
    <3> QED BY <2>2, <3>1
  <2> QED BY <1>3, <2>1, <2>2
<1>9. AnswersFollow'
  BY <1>8, AnswersFollowStays DEF NewsInv
<1>10. \A x \in calls' : x.role = "event" => x \in calls
  <2>1. CASE calls' = calls \ {call}
    BY <2>1
  <2>2. ASSUME NEW role \in {"fetch", "retry"}, NEW basis \in Snapshots,
               calls' = (calls \ {call}) \cup {Call(c, client[c].next + 1, role, call.op, basis)}
        PROVE  \A x \in calls' : x.role = "event" => x \in calls
    <3>1. Call(c, client[c].next + 1, role, call.op, basis).role = role
      BY DEF Call
    <3> QED BY <2>2, <3>1
  <2> QED BY <1>3, <2>1, <2>2
<1>11. ShownFollows'
  <2> SUFFICES ASSUME NEW x \in calls', x.role = "event", x.order < client'[x.client].applied
               PROVE  x.op.event <= client'[x.client].revision
    BY DEF ShownFollows
  <2>1. x \in calls /\ x.client \in Clients
    BY <1>10 DEF IInv, CallOK, CallShapes
  <2>2. CASE x.client # c \/ cl = client[c]
    <3>1. /\ client'[x.client].applied = client[x.client].applied
          /\ client'[x.client].revision = client[x.client].revision
      BY <1>3, <2>1, <2>2
    <3> QED BY <2>1, <3>1 DEF NewsInv, ShownFollows
  <2>3. CASE x.client = c /\ cl # client[c]
    <3>1. x.order < call.order /\ cl.revision = call.snapshot.revision
      BY <1>3, <1>4, <2>3
    <3>2. call.snapshot.revision # Nothing
      BY <1>5, <3>1 DEF Nothing
    <3>3. x.op.event <= call.snapshot.revision
      BY <2>1, <2>3, <3>1, <3>2 DEF NewsInv, AnswersFollow, c
    <3> QED BY <1>3, <2>3, <3>1, <3>3
  <2> QED BY <2>2, <2>3
<1>12. PendingIsFetched'
  <2> SUFFICES ASSUME NEW d \in Clients, NEW e \in client'[d].pending
               PROVE  \E x \in calls' : x.client = d /\ x.role = "event" /\ x.op.event = e
    BY DEF PendingIsFetched
  <2>1. e \in client[d].pending /\ ~(d = c /\ call.role = "event" /\ e = call.op.event)
    BY <1>3
  <2>2. PICK x \in calls : x.client = d /\ x.role = "event" /\ x.op.event = e
    BY <2>1 DEF NewsInv, PendingIsFetched
  <2>3. x # call
    BY <2>1, <2>2 DEF c
  <2> QED BY <1>8, <2>2, <2>3
<1>13. ASSUME NEW d \in Clients, excuse'[d] # "overtaken"
       PROVE  client'[d].latest <= client'[d].revision
  <2>1. client[d].latest <= client[d].revision
    BY <1>6, <1>13 DEF NewsInv
  <2>2. CASE d # c
    BY <1>3, <2>1, <2>2
  <2>3. CASE d = c
    <3>1. client[c].latest <= cl.revision
      BY <1>5, <1>6, <1>13, <2>1, <2>3
    <3>2. CASE ~(call.role = "event" /\ call.said = "ok")
      BY <1>3, <2>3, <3>1, <3>2
    <3>3. CASE call.role = "event" /\ call.said = "ok"
      <4>1. call.op.event <= cl.revision
        <5>1. CASE cl = client[c] /\ call.order < client[c].applied
          BY <3>3, <5>1 DEF NewsInv, ShownFollows, c
        <5>2. CASE cl.revision = call.snapshot.revision
          BY <1>2, <1>5, <3>3, <5>2 DEF CallOK
        <5> QED BY <1>4, <3>3, <5>1, <5>2
      <4>2. client'[c].latest = Later(client[c].latest, call.op.event)
        BY <1>3, <3>3
      <4> QED BY <1>3, <2>3, <3>1, <4>1, <4>2 DEF Later
    <3> QED BY <3>2, <3>3
  <2> QED BY <2>2, <2>3
<1>14. IsUnpublished => IsUnpublished'
  <2>1. \A x \in calls : Unheard(x, revision) => x \in calls'
    BY <1>1, <1>8 DEF Unheard
  <2> QED BY <1>1, <2>1, UnpublishedStays
<1>15. ASSUME NEW d \in Clients, excuse'[d] = "none", stream'[d].stage # "off"
       PROVE  IsAnnounced(d)'
  <2>1. IsAnnounced(d)
    BY <1>1, <1>6, <1>15 DEF NewsInv
  <2>2. CASE d # c
    BY <1>1, <1>3, <1>14, <2>1, <2>2, AnnouncedStays
  <2>3. CASE d = c
    <3>1. client[c].revision = revision => client'[c].revision = revision
      BY <1>3, <1>5, <1>6, <1>15, <2>3
    <3>2. client[c].latest = revision => client'[c].latest = revision
      <4>1. CASE ~(call.role = "event" /\ call.said = "ok")
        BY <1>3, <4>1
      <4>2. CASE call.role = "event" /\ call.said = "ok"
        BY <1>2, <1>3, <1>5, <1>7, <4>2 DEF Later
      <4> QED BY <4>1, <4>2
    <3>3. ASSUME revision \in client[c].pending
          PROVE  revision \in client'[c].pending \/ client'[c].latest = revision
      <4>1. CASE call.role = "event" /\ call.op.event = revision
        <5>1. call.said = "ok"
          BY <1>6, <1>15, <2>3, <4>1
        <5>2. client'[c].latest = Later(client[c].latest, revision)
          BY <1>3, <4>1, <5>1
        <5> QED BY <1>2, <1>5, <5>2 DEF Later
      <4>2. CASE ~(call.role = "event" /\ call.op.event = revision)
        BY <1>3, <3>3, <4>2
      <4> QED BY <4>1, <4>2
    <3> QED BY <1>1, <1>14, <2>1, <2>3, <3>1, <3>2, <3>3, AnnouncedStays
  <2> QED BY <2>2, <2>3
<1> QED BY <1>9, <1>11, <1>12, <1>13, <1>15, NewsBy

LEMMA NextNews == IInv /\ NewsInv /\ [Next]_vars => NewsInv'
<1> SUFFICES ASSUME IInv, NewsInv, [Next]_vars PROVE NewsInv'
  OBVIOUS
<1>1. CASE UNCHANGED vars
  BY <1>1 DEF vars, NewsInv, AnswersFollow, ShownFollows, PendingIsFetched, IsAnnounced, IsUnpublished
<1>2. CASE Next
  BY <1>2, MutateNews, ReadNews, RespondNews, CallFailsNews, HandleAnswerNews, DeleteTrackNews,
     PublishDeletionNews, StreamStepNews, HandleEventNews, ActNews DEF Next
<1> QED BY <1>1, <1>2

(* A client to which nothing is on its way shows the Queue as it is, for any  *)
(* number of clients, reconnects, lost requests and deletions: the newest     *)
(* revision is always unpublished, on its way, being fetched or shown, and a  *)
(* fetched event is never newer than what is shown.  The history variable     *)
(* excuse names the cases the code leaves open (handlers.rs, events.rs,       *)
(* use-synchronized-queue.ts).                                                *)
THEOREM QueueSettledIsCurrent == Spec => []SettledIsCurrent
<1>1. IInv /\ NewsInv => SettledIsCurrent
  <2> SUFFICES ASSUME IInv, NewsInv, NEW c \in Clients, IsSettled(c), excuse[c] = "none"
               PROVE  client[c].revision = revision
    BY DEF SettledIsCurrent
  <2>1. /\ revision \in Nat /\ client[c].revision \in Nat /\ client[c].revision <= revision
        /\ client[c].latest \in Int
    <3>1. client[c] \in ClientShapes /\ IsCopy(Held(client[c]), items, revision)
      BY DEF IInv, ClientOK
    <3>2. Held(client[c]).revision = client[c].revision /\ client[c].revision \in Nat
      BY <3>1 DEF ClientShapes, Held
    <3> QED BY <3>1, <3>2, QueueSyncAssumption DEF IInv, QueueOK, IsCopy, ClientShapes
  <2>2. IsAnnounced(c) /\ client[c].latest <= client[c].revision
    BY DEF NewsInv, IsSettled
  <2>3. ~IsUnpublished
    BY DEF IsUnpublished, IsSettled
  <2>4. revision \notin client[c].pending
    BY DEF NewsInv, PendingIsFetched, IsSettled
  <2>5. stream[c].stage # "subscribed" /\ stream[c].slot # revision /\ DOMAIN stream[c].wire = {}
    BY <2>1 DEF IsSettled, Nothing
  <2>6. client[c].latest = revision \/ client[c].revision = revision
    BY <2>2, <2>3, <2>4, <2>5 DEF IsAnnounced
  <2> QED BY <2>1, <2>2, <2>6
<1> QED BY <1>1, InitIInv, NextIInv, InitNews, NextNews, PTL DEF Spec
=============================================================================
