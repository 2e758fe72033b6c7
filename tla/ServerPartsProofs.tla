------------------------- MODULE ServerPartsProofs -------------------------
(***************************************************************************)
(* Proofs about parts of the Music Server that share no state: the token   *)
(* bucket, for every burst, rate and size of a token; the External Source, *)
(* for every capacity, lifetime and number of requests; its responses made *)
(* of chunks, for every size of file and chunk; and what is found online   *)
(* about an Artist and an Album, for every number of requests and Tracks.  *)
(* MCServerParts takes them, and the parts that have no proofs, side by    *)
(* side, which is why SourceStaysGood and LookupsAreKept name the part     *)
(* that runs.                                                              *)
(***************************************************************************)
EXTENDS TokenBucket, FiniteSetTheorems, SequenceTheorems, TLAPS

CONSTANTS
  Ids, HlsIds, Requests, HeaderSets, Lifetimes, Concurrency, CacheCapacity, HlsCapacity,
  CacheTtl, ExpiryMargin, RefusalGrace, TokenTtl, RunTimeout,     \* the External Source
  Sizes, ChunkSizes, MaxStart,                                    \* its chunked responses
  Askers, LookupKinds, Places, Tracks, FailedRetry, Refresh, MissingRetry, MaxTime, MaxAsks,
  MaxChanges                                                      \* what is found online

VARIABLES
  part,                                                           \* the part that runs
  running, cache, kept, requests, issued, evicted,                \* the External Source
  size, chunk, ask, step, last, next, sent,                       \* its chunked responses
  enabled, today, online, own, present, row, task, held, tracks, check, sweep, asks,
  changes                                                         \* what is found online

Source == INSTANCE ExternalSource WITH tokens <- issued
Chunks == INSTANCE ChunkedStream
Lookups == INSTANCE ArtistInfo WITH Kinds <- LookupKinds, clock <- today

artistVars == <<enabled, today, online, own, present, row, task, held, tracks, check, sweep, asks,
    changes>>

ASSUME PartsAssumption == Source!ConstantsOK /\ Chunks!ConstantsOK
ASSUME LookupsAssumption == Lookups!ConstantsOK

\* An address of an External Source is used only while it is good, no cache outgrows
\* its limit, whatever a playlist handed out names can still be fetched, and chunks join
\* to the announced body (external_source/service.rs, fetch_in_chunks).
SourceStaysGood ==
  /\ part \in {"source", "shared"} => Source!SourceStaysGood
  /\ part = "chunks" => Chunks!TypeOK /\ Chunks!BodyIsWhatTheHeadSaid

\* What was looked up about an Artist or Album is neither lost to a failure nor shown
\* for something else: a failed refresh keeps the list, a cover stands in only for the
\* one it was found for, and an Album counts as checked only with its Tracks marked
\* (artist_info/service.rs).
LookupsAreKept ==
  /\ [](part \in {"artist", "sweep"} => Lookups!TypeOK /\ Lookups!CoverStandsIn /\ Lookups!MarkedWhenChecked)
  /\ [][(part \in {"artist", "sweep"}) => Lookups!FailureKeepsTheList]_artistVars

-----------------------------------------------------------------------------
(* The token bucket *)

\* Earnings over two adjoining spans add up, and a longer span earns no less.
LEMMA EarningsAdd ==
  ASSUME NEW p \in Nat, NEW a \in Int, NEW b \in Int, NEW c \in Int
  PROVE  /\ p * (a - c) \in Int
         /\ p * (a - c) = p * (a - b) + p * (b - c)
         /\ a >= b => p * (a - b) >= 0
<1>1. p * (a - c) = p * (a - b) + p * (b - c)
  BY SMT
<1>2. ASSUME a >= b PROVE p * (a - b) >= 0
  <2>1. \A m \in Nat, n \in Nat : m * n >= 0
    BY SMT
  <2> QED BY <1>2, <2>1
<1> QED BY <1>1, <1>2

\* The next request costs one token more.
LEMMA OneMore ==
  ASSUME NEW n \in Nat, NEW t \in Nat
  PROVE  n * t \in Nat /\ (n + 1) * t = n * t + t
BY SMT

\* What `take` finds is between nothing and a burst, and is a burst or all that
\* was there and was earned (TokenBucket::take, min).
LEMMA RefilledBounds ==
  ASSUME TypeOK
  PROVE  /\ Refilled \in 0..Burst
         /\ Refilled <= tokens + PerTick * (clock - refilledAt)
         /\ Refilled < Burst => Refilled = tokens + PerTick * (clock - refilledAt)
<1> DEFINE earned == PerTick * (clock - refilledAt)
<1>1. earned \in Int /\ earned >= 0
  BY TokenBucketAssumption, EarningsAdd DEF TypeOK
<1>2. Refilled = IF tokens + earned < Burst THEN tokens + earned ELSE Burst
  BY DEF Refilled
<1> HIDE DEF earned
<1>3. /\ Refilled \in 0..Burst
      /\ Refilled <= tokens + earned
      /\ Refilled < Burst => Refilled = tokens + earned
  BY <1>1, <1>2, TokenBucketAssumption DEF TypeOK
<1> QED BY <1>3 DEF earned

\* Refilling at `clock`, for a request that passes or not, keeps both accounts:
\* the window's, and that of what was earned since the last request passed.
LEMMA RefillAccounts ==
  ASSUME Accounting
  PROVE  /\ passed * Token + Refilled <= Burst + PerTick * (clock - since)
         /\ Refilled < Burst => Refilled >= PerTick * (clock - passedAt)
<1> USE TokenBucketAssumption
<1>1. TypeOK /\ SpentAndLeft /\ EarnedIsKept
  BY DEF Accounting
<1> DEFINE earned == PerTick * (clock - refilledAt)
           window == PerTick * (clock - since)
           before == PerTick * (refilledAt - since)
           lately == PerTick * (clock - passedAt)
           stayed   == PerTick * (refilledAt - passedAt)
           spent  == passed * Token
<1>2. /\ Refilled \in 0..Burst
      /\ Refilled <= tokens + earned
      /\ Refilled < Burst => Refilled = tokens + earned
  BY <1>1, RefilledBounds
<1>3. /\ earned \in Int /\ window \in Int /\ before \in Int /\ lately \in Int /\ stayed \in Int
      /\ window = earned + before /\ lately = earned + stayed
      /\ window >= 0 /\ earned >= 0
  BY <1>1, EarningsAdd DEF TypeOK
<1>4. spent \in Nat /\ (passed = 0 => spent = 0)
  BY <1>1, OneMore DEF TypeOK
<1>5. /\ refilledAt >= since => spent + tokens <= Burst + before
      /\ refilledAt < since => passed = 0
  BY <1>1 DEF SpentAndLeft, TypeOK
<1>6. tokens < Burst => tokens >= stayed
  BY <1>1 DEF EarnedIsKept
<1>7. tokens \in 0..Burst
  BY <1>1 DEF TypeOK
<1>8. refilledAt >= since \/ refilledAt < since
  BY <1>1 DEF TypeOK
<1> HIDE DEF earned, window, before, lately, stayed, spent
<1>9. spent + Refilled <= Burst + window
  <2>1. CASE refilledAt >= since
    BY <2>1, <1>2, <1>3, <1>4, <1>5, <1>7
  <2>2. CASE refilledAt < since
    BY <2>2, <1>2, <1>3, <1>4, <1>5
  <2> QED BY <1>8, <2>1, <2>2
<1>10. Refilled < Burst => Refilled >= lately
  BY <1>2, <1>3, <1>6, <1>7
<1> QED BY <1>9, <1>10 DEF spent, window, lately

LEMMA InitAccounts == Init => Accounting
<1> SUFFICES ASSUME Init PROVE Accounting
  OBVIOUS
<1> USE TokenBucketAssumption
<1>1. PerTick * (0 - 0) = 0 /\ 0 * Token = 0
  BY SMT
<1> QED BY <1>1 DEF Init, Accounting, TypeOK, SpentAndLeft, EarnedIsKept

\* Every operation keeps the accounts.
LEMMA NextAccounts == Accounting /\ [Next]_vars => Accounting'
<1> SUFFICES ASSUME Accounting, [Next]_vars PROVE Accounting'
  OBVIOUS
<1> USE TokenBucketAssumption
<1>1. TypeOK /\ SpentAndLeft /\ EarnedIsKept
  BY DEF Accounting
<1>2. /\ Refilled \in 0..Burst
      /\ passed * Token + Refilled <= Burst + PerTick * (clock - since)
      /\ Refilled < Burst => Refilled >= PerTick * (clock - passedAt)
  BY <1>1, RefilledBounds, RefillAccounts
<1>3. CASE Pass
  <2>1. TypeOK'
    BY <1>1, <1>2, <1>3 DEF Pass, TypeOK
  <2>2. SpentAndLeft'
    <3>1. /\ passed * Token \in Nat
          /\ (passed + 1) * Token = passed * Token + Token
      BY <1>1, OneMore DEF TypeOK
    <3>2. (passed + 1) * Token + (Refilled - Token) = passed * Token + Refilled
      BY <1>2, <3>1
    <3>3. /\ passed' = passed + 1 /\ tokens' = Refilled - Token
          /\ refilledAt' = clock /\ since' = since /\ clock >= since
      BY <1>1, <1>3 DEF Pass, TypeOK
    <3> QED BY <1>2, <3>2, <3>3 DEF SpentAndLeft
  <2>3. EarnedIsKept'
    <3>1. PerTick * (clock - clock) = 0
      BY <1>1, SMT DEF TypeOK
    <3>2. /\ passedAt' = clock /\ refilledAt' = clock
          /\ tokens' \in Int /\ tokens' >= 0
      BY <1>1, <1>2, <1>3 DEF Pass, TypeOK
    <3> QED BY <1>1, <3>1, <3>2 DEF EarnedIsKept, TypeOK
  <2> QED BY <2>1, <2>2, <2>3 DEF Accounting
<1>4. CASE Refuse
  <2>1. TypeOK'
    BY <1>1, <1>2, <1>4 DEF Refuse, TypeOK
  <2>2. /\ tokens' = Refilled /\ refilledAt' = clock /\ clock' = clock
        /\ since' = since /\ passed' = passed /\ passedAt' = passedAt
        /\ clock >= since /\ passedAt <= clock
    BY <1>1, <1>4 DEF Refuse, TypeOK
  <2>3. SpentAndLeft'
    BY <1>2, <2>2 DEF SpentAndLeft
  <2>4. EarnedIsKept'
    BY <1>2, <2>2 DEF EarnedIsKept
  <2> QED BY <2>1, <2>3, <2>4 DEF Accounting
<1>5. CASE Tick
  BY <1>1, <1>5 DEF Tick, Accounting, TypeOK, SpentAndLeft, EarnedIsKept
<1>6. CASE Observe
  <2>1. TypeOK'
    BY <1>1, <1>6 DEF Observe, TypeOK
  <2>2. /\ passed' = 0 /\ since' = clock /\ tokens' = tokens /\ refilledAt' = refilledAt
        /\ clock' = clock /\ passedAt' = passedAt
    BY <1>6 DEF Observe
  <2>3. SpentAndLeft'
    <3>1. 0 * Token + tokens <= Burst + PerTick * (clock - clock)
      <4>1. 0 * Token = 0 /\ PerTick * (clock - clock) = 0
        BY <1>1, SMT DEF TypeOK
      <4> QED BY <4>1, <1>1 DEF TypeOK
    <3>2. CASE refilledAt = clock
      BY <3>1, <3>2, <2>2, <1>1 DEF SpentAndLeft, TypeOK
    <3>3. CASE refilledAt < clock
      BY <3>3, <2>2, <1>1 DEF SpentAndLeft, TypeOK
    <3> QED BY <3>2, <3>3, <1>1 DEF TypeOK
  <2>4. EarnedIsKept'
    BY <1>1, <2>2 DEF EarnedIsKept
  <2> QED BY <2>1, <2>3, <2>4 DEF Accounting
<1>7. CASE UNCHANGED vars
  BY <1>1, <1>7 DEF vars, Accounting, TypeOK, SpentAndLeft, EarnedIsKept
<1> QED BY <1>3, <1>4, <1>5, <1>6, <1>7 DEF Next

\* The bucket's accounts always balance.
THEOREM BucketAccounts == Spec => []Accounting
BY InitAccounts, NextAccounts, PTL DEF Spec

\* The rate is stayed: from any instant on, a burst and what was earned since is
\* all that passes (limits.rs, TokenBucket::take), whatever the sizes.
THEOREM BucketKeepsRate == Spec => []AtMostRate
<1>1. Accounting => AtMostRate
  <2> SUFFICES ASSUME Accounting PROVE AtMostRate
    OBVIOUS
  <2>1. TypeOK
    BY DEF Accounting
  <2> DEFINE spent == passed * Token
             window == PerTick * (clock - since)
  <2>2. /\ Refilled \in 0..Burst
        /\ spent + Refilled <= Burst + window
    BY <2>1, RefilledBounds, RefillAccounts
  <2>3. spent \in Nat /\ window \in Int
    BY <2>1, OneMore, EarningsAdd, TokenBucketAssumption DEF TypeOK
  <2> HIDE DEF spent, window
  <2>4. spent <= Burst + window
    BY <2>2, <2>3, TokenBucketAssumption
  <2> QED BY <2>4 DEF AtMostRate, spent, window
<1> QED BY <1>1, BucketAccounts, PTL

\* Refusals cost nothing: who waits for one token's time is admitted.
THEOREM BucketAdmitsThePatient == Spec => []PatientPasses
<1>1. Accounting => PatientPasses
  <2> SUFFICES ASSUME Accounting, Refilled < Token
               PROVE PerTick * (clock - passedAt) < Token
    BY DEF PatientPasses
  <2>1. TypeOK
    BY DEF Accounting
  <2> DEFINE lately == PerTick * (clock - passedAt)
  <2>2. Refilled \in 0..Burst /\ (Refilled < Burst => Refilled >= lately)
    BY <2>1, RefilledBounds, RefillAccounts
  <2>3. lately \in Int
    BY <2>1, EarningsAdd, TokenBucketAssumption DEF TypeOK
  <2> HIDE DEF lately
  <2>4. lately < Token
    BY <2>2, <2>3, TokenBucketAssumption
  <2> QED BY <2>4 DEF lately
<1> QED BY <1>1, BucketAccounts, PTL

\* Both sides of the limit and the shape of the bucket (limits.rs,
\* TokenBucket::take), for every rate and burst.
THEOREM BucketIsFair == Spec => []KeepsRate
<1>1. Accounting => TypeOK
  BY DEF Accounting
<1> QED BY <1>1, BucketAccounts, BucketKeepsRate, BucketAdmitsThePatient, PTL DEF KeepsRate

-----------------------------------------------------------------------------
(* The External Source: what makes its promises inductive *)

Stages == {"idle", "queued", "searching", "missed", "waiting", "resolved", "fetching",
           "rewriting"}
RequestKinds == {"none", "search", "playback", "stream", "playlist", "resource"}
SomeHeaders == HeaderSets \cup {Source!NoHeaders}

RequestStates == [stage : Stages, kind : RequestKinds, id : Ids \cup {"none"},
                  headers : SomeHeaders, age : 0..RunTimeout]
RunStates == [stage : {"queued", "running", "ended"}, ok : BOOLEAN,
              headers : SomeHeaders, age : 0..RunTimeout]
CacheEntries == [headers : HeaderSets, good : 0..Source!Forever, left : 0..CacheTtl,
                 age : 0..RefusalGrace]
KeptEntries == [headers : SomeHeaders, left : 0..TokenTtl]

RequestsOK ==
  /\ requests \in [Requests -> RequestStates]
  /\ \A r \in Requests :
       requests[r].stage \in {"missed", "waiting", "resolved", "fetching", "rewriting"}
         => requests[r].id \in Ids
RunningOK == DOMAIN running \subseteq Ids /\ running \in [DOMAIN running -> RunStates]
CacheOK == DOMAIN cache \subseteq Ids /\ cache \in [DOMAIN cache -> CacheEntries]
KeptOK == DOMAIN kept \subseteq Ids /\ kept \in [DOMAIN kept -> KeptEntries]
TokensOK == issued \in [Ids -> 0..TokenTtl] /\ evicted \subseteq Ids

\* A URL that the cache still answers with is good for as long and the margin.
GoodOK == \A id \in DOMAIN cache :
            cache[id].left > 0 => cache[id].good >= cache[id].left + ExpiryMargin

SourceInv ==
        /\ RequestsOK /\ RunningOK /\ CacheOK /\ KeptOK /\ TokensOK /\ GoodOK
        /\ Source!CacheIsBounded /\ Source!HeadersOutliveTokens

-----------------------------------------------------------------------------
(* The two stores *)

\* The instance's finite sets are the finite sets.
LEMMA SameSets ==
  \A S : (Source!IsFiniteSet(S) <=> IsFiniteSet(S)) /\ Source!Cardinality(S) = Cardinality(S)
BY Zenon DEF Source!IsFiniteSet, IsFiniteSet, Source!Cardinality, Cardinality

LEMMA PutTyped ==
  ASSUME NEW store, NEW E, NEW ids, NEW id \in Ids, NEW entry \in E,
         ids \subseteq DOMAIN store, DOMAIN store \subseteq Ids, store \in [DOMAIN store -> E]
  PROVE  LET f == Source!Put(store, ids, id, entry)
         IN  DOMAIN f \subseteq Ids /\ f \in [DOMAIN f -> E]
BY DEF Source!Put

LEMMA LiveIsHeld ==
  ASSUME NEW store
  PROVE  Source!Live(store) \subseteq DOMAIN store
BY DEF Source!Live

-----------------------------------------------------------------------------
(* What the steps leave alone *)

\* The steps of a request that change nothing but the request.
OwnStep(r) ==
  \/ Source!Search(r) \/ Source!SearchTurn(r) \/ Source!SearchEnds(r)
  \/ Source!SearchTimesOut(r)
  \/ \E kind \in {"playback", "stream", "playlist"}, id \in Ids : Source!Ask(r, kind, id)
  \/ \E id \in Ids : Source!Resource(r, id)
  \/ Source!Open(r) \/ Source!FetchAnswers(r) \/ Source!Drop(r)

LEMMA OwnStepLeaves ==
  ASSUME NEW r \in Requests, OwnStep(r)
  PROVE  UNCHANGED <<running, cache, kept, issued, evicted>>
BY DEF OwnStep, Source!Search, Source!SearchTurn, Source!SearchEnds, Source!SearchTimesOut,
   Source!Ask, Source!Resource, Source!Open, Source!FetchAnswers, Source!Drop

LEMMA NextSteps ==
  ASSUME [Source!Next]_(Source!vars)
  PROVE  \/ \E r \in Requests : \/ OwnStep(r) \/ Source!Resolution(r)
                                \/ Source!FetchRefused(r) \/ Source!Rewrite(r)
         \/ \E id \in Ids : \/ Source!RunTurn(id) \/ Source!RunResolves(id)
                            \/ Source!RunFails(id) \/ Source!RunLeaves(id)
         \/ Source!Tick
         \/ UNCHANGED <<running, cache, kept, requests, issued, evicted>>
BY DEF Source!Next, Source!vars, Source!RequestStep, Source!RunStep, OwnStep

-----------------------------------------------------------------------------
(* The requests *)

LEMMA BecomeOK ==
  ASSUME RequestsOK, NEW r \in Requests, NEW q \in RequestStates,
         requests' = [requests EXCEPT ![r] = q],
         q.stage \in {"missed", "waiting", "resolved", "fetching", "rewriting"} => q.id \in Ids
  PROVE  RequestsOK'
BY DEF RequestsOK

LEMMA IdleIsRequest ==
  ASSUME Source!ConstantsOK
  PROVE  Source!Idle \in RequestStates /\ Source!Idle.stage = "idle"
BY DEF Source!ConstantsOK, Source!Idle, RequestStates, Stages, RequestKinds, SomeHeaders,
   Source!NoHeaders

LEMMA AnswerOK ==
  ASSUME Source!ConstantsOK, RequestsOK, NEW r \in Requests, Source!Answer(r)
  PROVE  RequestsOK'
BY BecomeOK, IdleIsRequest DEF Source!Answer, Source!Become

\* A request that goes on is the same request, with other headers.
LEMMA NowIsRequest ==
  ASSUME RequestsOK, NEW r \in Requests, NEW stage \in Stages, NEW headers \in SomeHeaders
  PROVE  /\ Source!Now(r, stage, headers) \in RequestStates
         /\ Source!Now(r, stage, headers).stage = stage
         /\ Source!Now(r, stage, headers).id = requests[r].id
BY DEF RequestsOK, RequestStates, Source!Now

LEMMA GoesOnIsRequest ==
  ASSUME RequestsOK, NEW r \in Requests, NEW stage \in Stages
  PROVE  /\ [requests[r] EXCEPT !.stage = stage] \in RequestStates
         /\ [requests[r] EXCEPT !.stage = stage].stage = stage
         /\ [requests[r] EXCEPT !.stage = stage].id = requests[r].id
BY DEF RequestsOK, RequestStates

LEMMA GoesOnOK ==
  ASSUME RequestsOK, NEW r \in Requests, NEW stage \in Stages, requests[r].id \in Ids,
         requests' = [requests EXCEPT ![r] = [requests[r] EXCEPT !.stage = stage]]
  PROVE  RequestsOK'
<1> DEFINE q == [requests[r] EXCEPT !.stage = stage]
<1>1. q \in RequestStates /\ q.id \in Ids
  BY GoesOnIsRequest
<1> HIDE DEF q
<1> QED BY <1>1, BecomeOK DEF q

LEMMA NewRequest ==
  ASSUME Source!ConstantsOK, NEW stage \in Stages, NEW kind \in RequestKinds,
         NEW id \in Ids \cup {"none"}, NEW headers \in SomeHeaders
  PROVE  [stage |-> stage, kind |-> kind, id |-> id, headers |-> headers, age |-> 0]
           \in RequestStates
BY DEF Source!ConstantsOK, RequestStates

LEMMA AskOK ==
  ASSUME Source!ConstantsOK, RequestsOK, CacheOK, NEW r \in Requests,
         NEW kind \in {"playback", "stream", "playlist"}, NEW id \in Ids, Source!Ask(r, kind, id)
  PROVE  RequestsOK'
<1> DEFINE q(stage, headers) ==
             [stage |-> stage, kind |-> kind, id |-> id, headers |-> headers, age |-> 0]
<1>1. kind \in RequestKinds /\ "resolved" \in Stages /\ "missed" \in Stages
  BY DEF RequestKinds, Stages
<1>2. CASE id \in Source!Live(cache)
  <2>1. cache[id].headers \in SomeHeaders
    BY <1>2, LiveIsHeld DEF CacheOK, CacheEntries, SomeHeaders
  <2>2. requests' = [requests EXCEPT ![r] = q("resolved", cache[id].headers)]
    BY <1>2 DEF Source!Ask, Source!Become, Source!Idle
  <2>3. q("resolved", cache[id].headers) \in RequestStates
    BY <1>1, <2>1, NewRequest
  <2> QED BY <2>2, <2>3, BecomeOK
<1>3. CASE id \notin Source!Live(cache)
  <2>1. requests' = [requests EXCEPT ![r] = q("missed", Source!NoHeaders)]
    BY <1>3 DEF Source!Ask, Source!Become, Source!Idle
  <2>2. q("missed", Source!NoHeaders) \in RequestStates
    BY <1>1, NewRequest DEF SomeHeaders
  <2> QED BY <2>1, <2>2, BecomeOK
<1> QED BY <1>2, <1>3

LEMMA ResourceOK ==
  ASSUME Source!ConstantsOK, RequestsOK, CacheOK, KeptOK, NEW r \in Requests, NEW id \in Ids,
         Source!Resource(r, id)
  PROVE  RequestsOK'
<1> DEFINE q == [Source!Idle EXCEPT !.stage = "fetching", !.kind = "resource", !.id = id,
                                    !.headers = Source!ResourceHeaders(id)]
<1>1. Source!ResourceHeaders(id) \in SomeHeaders
  BY LiveIsHeld DEF Source!ResourceHeaders, CacheOK, CacheEntries, KeptOK, KeptEntries,
     SomeHeaders
<1>2. q \in RequestStates /\ q.id = id
  BY <1>1, IdleIsRequest DEF RequestStates, Stages, RequestKinds
<1>3. requests' = [requests EXCEPT ![r] = q]
  BY DEF Source!Resource, Source!Become
<1> HIDE DEF q
<1> QED BY <1>2, <1>3, BecomeOK

LEMMA OwnStepOK ==
  ASSUME Source!ConstantsOK, RequestsOK, CacheOK, KeptOK, NEW r \in Requests, OwnStep(r)
  PROVE  RequestsOK'
<1>1. CASE Source!Search(r)
  <2> DEFINE q == [Source!Idle EXCEPT !.stage = "queued", !.kind = "search"]
  <2>1. q \in RequestStates /\ q.stage = "queued"
    BY IdleIsRequest DEF RequestStates, Stages, RequestKinds
  <2>2. requests' = [requests EXCEPT ![r] = q]
    BY <1>1 DEF Source!Search, Source!Become
  <2> HIDE DEF q
  <2> QED BY <2>1, <2>2, BecomeOK
<1>2. CASE Source!SearchTurn(r)
  <2>1. requests' = [requests EXCEPT ![r] = [requests[r] EXCEPT !.stage = "searching"]]
    BY <1>2 DEF Source!SearchTurn, Source!Become
  <2> DEFINE q == [requests[r] EXCEPT !.stage = "searching"]
  <2>2. q \in RequestStates /\ q.stage = "searching"
    BY GoesOnIsRequest DEF Stages
  <2> HIDE DEF q
  <2> QED BY <2>1, <2>2, BecomeOK DEF q
<1>3. CASE Source!SearchEnds(r) \/ Source!SearchTimesOut(r) \/ Source!Drop(r)
  BY <1>3, AnswerOK DEF Source!SearchEnds, Source!SearchTimesOut, Source!Drop
<1>4. ASSUME NEW kind \in {"playback", "stream", "playlist"}, NEW id \in Ids,
             Source!Ask(r, kind, id)
      PROVE  RequestsOK'
  BY <1>4, AskOK
<1>5. ASSUME NEW id \in Ids, Source!Resource(r, id) PROVE RequestsOK'
  BY <1>5, ResourceOK
<1>6. CASE Source!Open(r)
  <2>1. requests[r].id \in Ids
    BY <1>6 DEF Source!Open, Source!At, RequestsOK
  <2>2. Source!Answer(r) \/ requests' = [requests EXCEPT ![r] = [requests[r] EXCEPT !.stage = "fetching"]]
    BY <1>6 DEF Source!Open, Source!Opened, Source!Become
  <2> QED BY <2>1, <2>2, AnswerOK, GoesOnOK DEF Stages
<1>7. CASE Source!FetchAnswers(r)
  <2>1. requests[r].id \in Ids
    BY <1>7 DEF Source!FetchAnswers, Source!At, RequestsOK
  <2>2. Source!Answer(r) \/ requests' = [requests EXCEPT ![r] = [requests[r] EXCEPT !.stage = "rewriting"]]
    BY <1>7 DEF Source!FetchAnswers, Source!Become
  <2> QED BY <2>1, <2>2, AnswerOK, GoesOnOK DEF Stages
<1> QED BY <1>1, <1>2, <1>3, <1>4, <1>5, <1>6, <1>7 DEF OwnStep

LEMMA NextRequestsOK ==
  ASSUME Source!ConstantsOK, RequestsOK, RunningOK, CacheOK, KeptOK,
         [Source!Next]_(Source!vars)
  PROVE  RequestsOK'
<1>1. ASSUME NEW r \in Requests, OwnStep(r) PROVE RequestsOK'
  BY <1>1, OwnStepOK
<1>2. ASSUME NEW r \in Requests, Source!Resolution(r) PROVE RequestsOK'
  <2>1. requests[r].id \in Ids
    BY <1>2 DEF Source!Resolution, Source!At, RequestsOK
  <2>2. requests' = [requests EXCEPT ![r] = Source!Now(r, "waiting", Source!NoHeaders)]
    BY <1>2 DEF Source!Resolution, Source!Become
  <2> DEFINE q == Source!Now(r, "waiting", Source!NoHeaders)
  <2>3. q \in RequestStates /\ q.id \in Ids
    BY <2>1, NowIsRequest DEF Stages, SomeHeaders
  <2> QED BY <2>2, <2>3, BecomeOK
<1>3. ASSUME NEW r \in Requests, Source!FetchRefused(r) \/ Source!Rewrite(r)
      PROVE  RequestsOK'
  BY <1>3, AnswerOK DEF Source!FetchRefused, Source!Rewrite
<1>4. ASSUME NEW id \in Ids, Source!RunTurn(id) \/ Source!RunResolves(id) \/ Source!RunFails(id)
      PROVE  RequestsOK'
  BY <1>4 DEF Source!RunTurn, Source!RunResolves, Source!RunFails, RequestsOK
<1>5. ASSUME NEW id \in Ids, Source!RunLeaves(id) PROVE RequestsOK'
  <2>1. running[id].headers \in SomeHeaders
    BY <1>5 DEF Source!RunLeaves, RunningOK, RunStates
  <2>2. ASSUME NEW r \in Requests
        PROVE  /\ requests'[r] \in RequestStates
               /\ requests'[r].stage \in {"missed", "waiting", "resolved", "fetching",
                                          "rewriting"} => requests'[r].id \in Ids
    <3>1. \/ requests'[r] = requests[r]
          \/ /\ requests[r].stage = "waiting"
             /\ requests'[r] \in {Source!Now(r, "resolved", running[id].headers), Source!Idle}
      BY <1>5 DEF Source!RunLeaves, Source!At
    <3> DEFINE q == Source!Now(r, "resolved", running[id].headers)
    <3>2. q \in RequestStates /\ q.stage = "resolved" /\ q.id = requests[r].id
      BY <2>1, NowIsRequest DEF Stages
    <3>3. requests[r].stage = "waiting" => requests[r].id \in Ids
      BY DEF RequestsOK
    <3> HIDE DEF q
    <3>4. \/ requests'[r] = requests[r]
          \/ requests[r].stage = "waiting" /\ requests'[r] = q
          \/ requests'[r] = Source!Idle
      BY <3>1 DEF q
    <3> QED BY <3>2, <3>3, <3>4, IdleIsRequest DEF RequestsOK
  <2>3. requests' = [r \in Requests |-> requests'[r]]
    BY <1>5 DEF Source!RunLeaves
  <2> QED BY <2>2, <2>3 DEF RequestsOK
<1>6. CASE Source!Tick
  <2>1. ASSUME NEW r \in Requests
        PROVE  /\ requests'[r] \in RequestStates
               /\ requests'[r].stage = requests[r].stage /\ requests'[r].id = requests[r].id
    <3>1. PICK age : requests'[r] = [requests[r] EXCEPT !.age = age]
                     /\ age \in {requests[r].age, Source!Least(requests[r].age + 1, RunTimeout)}
      BY <1>6 DEF Source!Tick
    <3>2. requests[r] \in RequestStates /\ requests[r].age \in 0..RunTimeout
      BY DEF RequestsOK, RequestStates
    <3>3. age \in 0..RunTimeout
      BY <3>1, <3>2 DEF Source!Least, Source!ConstantsOK
    <3> QED BY <3>1, <3>2, <3>3 DEF RequestStates
  <2>2. requests' = [r \in Requests |-> requests'[r]]
    BY <1>6 DEF Source!Tick
  <2> QED BY <2>1, <2>2 DEF RequestsOK
<1>7. CASE UNCHANGED <<running, cache, kept, requests, issued, evicted>>
  BY <1>7 DEF RequestsOK
<1> QED BY <1>1, <1>2, <1>3, <1>4, <1>5, <1>6, <1>7, NextSteps

-----------------------------------------------------------------------------
(* The resolutions *)

LEMMA NextRunningOK ==
  ASSUME Source!ConstantsOK, RequestsOK, RunningOK, [Source!Next]_(Source!vars)
  PROVE  RunningOK'
<1>1. ASSUME NEW r \in Requests, OwnStep(r) \/ Source!FetchRefused(r) \/ Source!Rewrite(r)
      PROVE  RunningOK'
  BY <1>1, OwnStepLeaves DEF RunningOK, Source!FetchRefused, Source!Rewrite
<1>2. ASSUME NEW r \in Requests, Source!Resolution(r) PROVE RunningOK'
  <2> DEFINE id == requests[r].id
             run == [stage |-> "queued", ok |-> FALSE, headers |-> Source!NoHeaders, age |-> 0]
  <2>1. id \in Ids
    BY <1>2 DEF Source!Resolution, Source!At, RequestsOK
  <2>2. run \in RunStates
    BY DEF RunStates, SomeHeaders, Source!ConstantsOK
  <2>3. running' = IF id \in DOMAIN running THEN running
                   ELSE Source!Put(running, DOMAIN running, id, run)
    BY <1>2 DEF Source!Resolution
  <2> HIDE DEF run
  <2>4. LET f == Source!Put(running, DOMAIN running, id, run)
        IN  DOMAIN f \subseteq Ids /\ f \in [DOMAIN f -> RunStates]
    BY <2>1, <2>2, PutTyped DEF RunningOK
  <2> QED BY <2>3, <2>4 DEF RunningOK
<1>3. ASSUME NEW id \in Ids, Source!RunTurn(id) \/ Source!RunFails(id) PROVE RunningOK'
  <2>1. PICK stage \in {"running", "ended"} : running' = [running EXCEPT ![id].stage = stage]
    BY <1>3 DEF Source!RunTurn, Source!RunFails
  <2> QED BY <2>1 DEF RunningOK, RunStates
<1>4. ASSUME NEW id \in Ids, Source!RunResolves(id) PROVE RunningOK'
  <2>1. PICK headers \in HeaderSets :
          running' = [running EXCEPT ![id] = [@ EXCEPT !.stage = "ended", !.ok = TRUE,
                                                        !.headers = headers]]
    BY <1>4 DEF Source!RunResolves
  <2> QED BY <2>1 DEF RunningOK, RunStates, SomeHeaders
<1>5. ASSUME NEW id \in Ids, Source!RunLeaves(id) PROVE RunningOK'
  <2>1. running' = Source!Restrict(running, DOMAIN running \ {id})
    BY <1>5 DEF Source!RunLeaves
  <2> QED BY <2>1 DEF RunningOK, Source!Restrict
<1>6. CASE Source!Tick
  <2>1. running' = [id \in DOMAIN running |->
                      [running[id] EXCEPT !.age = Source!Least(@ + 1, RunTimeout)]]
    BY <1>6 DEF Source!Tick
  <2>2. ASSUME NEW id \in DOMAIN running PROVE running'[id] \in RunStates
    <3>1. running[id] \in RunStates /\ running[id].age \in 0..RunTimeout
      BY DEF RunningOK, RunStates
    <3>2. Source!Least(running[id].age + 1, RunTimeout) \in 0..RunTimeout
      BY <3>1 DEF Source!Least, Source!ConstantsOK
    <3> QED BY <2>1, <3>1, <3>2 DEF RunStates
  <2> QED BY <2>1, <2>2 DEF RunningOK
<1>7. CASE UNCHANGED <<running, cache, kept, requests, issued, evicted>>
  BY <1>7 DEF RunningOK
<1> QED BY <1>1, <1>2, <1>3, <1>4, <1>5, <1>6, <1>7, NextSteps

-----------------------------------------------------------------------------
(* The cache *)

\* The steps after which the cache holds no more than before.
LEMMA CacheSteps ==
  ASSUME [Source!Next]_(Source!vars)
  PROVE  \/ cache' = cache
         \/ \E id \in DOMAIN cache : cache' = Source!Restrict(cache, DOMAIN cache \ {id})
         \/ \E id \in Ids : Source!RunResolves(id)
         \/ Source!Tick
<1>1. ASSUME NEW r \in Requests, OwnStep(r) \/ Source!Resolution(r) \/ Source!Rewrite(r)
      PROVE  cache' = cache
  BY <1>1, OwnStepLeaves DEF Source!Resolution, Source!Rewrite
<1>2. ASSUME NEW r \in Requests, Source!FetchRefused(r)
      PROVE  \/ cache' = cache
             \/ \E id \in DOMAIN cache : cache' = Source!Restrict(cache, DOMAIN cache \ {id})
  BY <1>2 DEF Source!FetchRefused, Source!Unrefused
<1>3. ASSUME NEW id \in Ids, Source!RunTurn(id) \/ Source!RunFails(id) \/ Source!RunLeaves(id)
      PROVE  cache' = cache
  BY <1>3 DEF Source!RunTurn, Source!RunFails, Source!RunLeaves
<1> QED BY <1>1, <1>2, <1>3, NextSteps

\* What a resolution puts into the cache.
Resolved(headers, good) ==
  [headers |-> headers, good |-> good, left |-> Source!CacheLifetime(good), age |-> 0]

\* cache_lifetime: the entry is typed, and the URL outlives it by the margin.
LEMMA ResolvedIsGood ==
  ASSUME Source!ConstantsOK, NEW headers \in HeaderSets,
         NEW good \in Lifetimes \cup {Source!Forever}
  PROVE  /\ Resolved(headers, good) \in CacheEntries
         /\ Resolved(headers, good).left > 0 =>
              Resolved(headers, good).good >= Resolved(headers, good).left + ExpiryMargin
<1>1. good \in 0..Source!Forever /\ Source!Forever = CacheTtl + ExpiryMargin + 1
  BY DEF Source!ConstantsOK, Source!Forever
<1>2. CacheTtl \in Nat /\ ExpiryMargin \in Nat /\ RefusalGrace \in Nat
  BY DEF Source!ConstantsOK
<1>3. /\ Source!CacheLifetime(good) \in 0..CacheTtl
      /\ Source!CacheLifetime(good) > 0 => good >= Source!CacheLifetime(good) + ExpiryMargin
  BY <1>1, <1>2 DEF Source!CacheLifetime, Source!Least
<1> QED BY <1>1, <1>2, <1>3 DEF Resolved, CacheEntries

\* insert_resolved_at: a live entry or none makes room.
LEMMA InsertPuts ==
  ASSUME CacheOK, NEW id \in Ids, Source!RunResolves(id)
  PROVE  \E headers \in HeaderSets, good \in Lifetimes \cup {Source!Forever},
          ids \in SUBSET DOMAIN cache :
           /\ cache' = Source!Put(cache, ids, id, Resolved(headers, good))
           /\ \/ ids = Source!Live(cache) /\ Cardinality(Source!Live(cache)) < CacheCapacity
              \/ \E old \in Source!Live(cache) : ids = Source!Live(cache) \ {old}
<1>1. PICK headers \in HeaderSets, good \in Lifetimes \cup {Source!Forever} :
        Source!CacheInsert(id, Resolved(headers, good))
  BY DEF Source!RunResolves, Resolved
<1> DEFINE live == Source!Live(cache)
           entry == Resolved(headers, good)
<1>0. live \in SUBSET DOMAIN cache
  BY LiveIsHeld
<1>2. CASE Cardinality(live) < CacheCapacity
  BY <1>1, <1>2, <1>0, SameSets DEF Source!CacheInsert, Source!HasRoom
<1>3. CASE ~(Cardinality(live) < CacheCapacity)
  <2>1. PICK old \in Source!Earliest(cache, live) :
          cache' = Source!Put(cache, live \ {old}, id, entry)
    BY <1>1, <1>3, SameSets DEF Source!CacheInsert, Source!HasRoom
  <2>2. old \in live
    BY DEF Source!Earliest
  <2>3. live \ {old} \in SUBSET DOMAIN cache
    BY <1>0
  <2> QED BY <2>1, <2>2, <2>3
<1> QED BY <1>2, <1>3

LEMMA NextCacheOK ==
  ASSUME Source!ConstantsOK, CacheOK, GoodOK, [Source!Next]_(Source!vars)
  PROVE  CacheOK' /\ GoodOK'
<1>1. CASE cache' = cache
  BY <1>1 DEF CacheOK, GoodOK
<1>2. ASSUME NEW id \in DOMAIN cache, cache' = Source!Restrict(cache, DOMAIN cache \ {id})
      PROVE  CacheOK' /\ GoodOK'
  BY <1>2 DEF CacheOK, GoodOK, Source!Restrict
<1>3. ASSUME NEW id \in Ids, Source!RunResolves(id) PROVE CacheOK' /\ GoodOK'
  <2>1. PICK headers \in HeaderSets, good \in Lifetimes \cup {Source!Forever},
          ids \in SUBSET DOMAIN cache :
          /\ cache' = Source!Put(cache, ids, id, Resolved(headers, good))
          /\ ids \subseteq DOMAIN cache
    BY <1>3, InsertPuts, LiveIsHeld
  <2> DEFINE entry == Resolved(headers, good)
  <2>2. entry \in CacheEntries
        /\ (entry.left > 0 => entry.good >= entry.left + ExpiryMargin)
    BY ResolvedIsGood
  <2> HIDE DEF entry
  <2>3. cache' = Source!Put(cache, ids, id, entry)
    BY <2>1 DEF entry
  <2>4. CacheOK'
    BY <2>1, <2>2, <2>3 DEF CacheOK, Source!Put
  <2>5. GoodOK'
    BY <2>1, <2>2, <2>3 DEF GoodOK, Source!Put
  <2> QED BY <2>4, <2>5
<1>4. CASE Source!Tick
  <2>1. cache' = [id \in DOMAIN cache |-> [cache[id] EXCEPT
          !.left = Source!Spend(@), !.age = Source!Least(@ + 1, RefusalGrace),
          !.good = Source!SpendGood(@)]]
    BY <1>4 DEF Source!Tick
  <2>2. ASSUME NEW id \in DOMAIN cache
        PROVE  /\ cache'[id] \in CacheEntries
               /\ cache'[id].left > 0 => cache'[id].good >= cache'[id].left + ExpiryMargin
    <3> DEFINE e == cache[id]
    <3>1. e \in CacheEntries
      BY DEF CacheOK
    <3>2. e.left > 0 => e.good >= e.left + ExpiryMargin
      BY DEF GoodOK
    <3>3. cache'[id] = [e EXCEPT !.left = Source!Spend(@),
                                 !.age = Source!Least(@ + 1, RefusalGrace),
                                 !.good = Source!SpendGood(@)]
      BY <2>1
    <3> HIDE DEF e
    <3>4. e.good \in 0..Source!Forever /\ e.left \in 0..CacheTtl /\ e.age \in 0..RefusalGrace
      BY <3>1 DEF CacheEntries
    <3>5. /\ CacheTtl \in Nat /\ ExpiryMargin \in Nat /\ RefusalGrace \in Nat
          /\ Source!Forever = CacheTtl + ExpiryMargin + 1
      BY DEF Source!ConstantsOK, Source!Forever
    <3>6. /\ Source!Spend(e.left) \in 0..CacheTtl
          /\ Source!Least(e.age + 1, RefusalGrace) \in 0..RefusalGrace
          /\ Source!SpendGood(e.good) \in 0..Source!Forever
      BY <3>4, <3>5 DEF Source!Spend, Source!Least, Source!SpendGood
    <3>7. Source!Spend(e.left) > 0 =>
            Source!SpendGood(e.good) >= Source!Spend(e.left) + ExpiryMargin
      BY <3>2, <3>4, <3>5 DEF Source!Spend, Source!SpendGood
    <3>8. cache'[id] \in CacheEntries
      BY <3>1, <3>3, <3>6 DEF CacheEntries
    <3> QED BY <3>1, <3>3, <3>7, <3>8 DEF CacheEntries
  <2> QED BY <2>1, <2>2 DEF CacheOK, GoodOK
<1> QED BY <1>1, <1>2, <1>3, <1>4, CacheSteps

LEMMA HeldIsFinite ==
  ASSUME Source!ConstantsOK, CacheOK, NEW S, S \subseteq DOMAIN cache
  PROVE  IsFiniteSet(S) /\ Cardinality(S) \in Nat
         /\ Cardinality(S) <= Cardinality(DOMAIN cache) /\ Cardinality(DOMAIN cache) \in Nat
<1>1. IsFiniteSet(DOMAIN cache)
  BY FS_Subset, SameSets DEF CacheOK, Source!ConstantsOK
<1> QED BY <1>1, FS_Subset, FS_CardinalityType

LEMMA NextCacheIsBounded ==
  ASSUME Source!ConstantsOK, CacheOK, Source!CacheIsBounded, [Source!Next]_(Source!vars)
  PROVE  Source!CacheIsBounded'
<1>1. CASE DOMAIN cache' \subseteq DOMAIN cache
  <2>1. Cardinality(DOMAIN cache') <= Cardinality(DOMAIN cache)
        /\ Cardinality(DOMAIN cache') \in Nat /\ Cardinality(DOMAIN cache) \in Nat
    BY <1>1, HeldIsFinite
  <2> QED BY <2>1, SameSets DEF Source!CacheIsBounded, Source!ConstantsOK
<1>2. ASSUME NEW id \in Ids, Source!RunResolves(id) PROVE Source!CacheIsBounded'
  <2>1. PICK headers \in HeaderSets, good \in Lifetimes \cup {Source!Forever},
          ids \in SUBSET DOMAIN cache :
          /\ cache' = Source!Put(cache, ids, id, Resolved(headers, good))
          /\ \/ ids = Source!Live(cache) /\ Cardinality(Source!Live(cache)) < CacheCapacity
             \/ \E old \in Source!Live(cache) : ids = Source!Live(cache) \ {old}
    BY <1>2, InsertPuts
  <2>2. DOMAIN cache' = ids \cup {id}
    BY <2>1 DEF Source!Put
  <2>3. /\ IsFiniteSet(Source!Live(cache)) /\ Cardinality(Source!Live(cache)) \in Nat
        /\ Cardinality(Source!Live(cache)) <= CacheCapacity /\ CacheCapacity \in Nat
    <3>1. Cardinality(DOMAIN cache) <= CacheCapacity /\ CacheCapacity \in Nat
      BY SameSets DEF Source!CacheIsBounded, Source!ConstantsOK
    <3> QED BY <3>1, LiveIsHeld, HeldIsFinite
  <2>4. IsFiniteSet(ids) /\ Cardinality(ids) \in Nat /\ Cardinality(ids) + 1 <= CacheCapacity
    <3>1. CASE ids = Source!Live(cache) /\ Cardinality(Source!Live(cache)) < CacheCapacity
      BY <3>1, <2>3
    <3>2. ASSUME NEW old \in Source!Live(cache), ids = Source!Live(cache) \ {old}
          PROVE  IsFiniteSet(ids) /\ Cardinality(ids) = Cardinality(Source!Live(cache)) - 1
      BY <2>3, <3>2, FS_RemoveElement
    <3>3. IsFiniteSet(ids) => Cardinality(ids) \in Nat
      BY FS_CardinalityType
    <3> QED BY <2>1, <2>3, <3>1, <3>2, <3>3
  <2>5. Cardinality(ids \cup {id}) \in {Cardinality(ids), Cardinality(ids) + 1}
    BY <2>4, FS_AddElement
  <2>6. Cardinality(DOMAIN cache') <= CacheCapacity
    BY <2>2, <2>3, <2>4, <2>5
  <2> QED BY <2>6, SameSets DEF Source!CacheIsBounded
<1>3. ASSUME NEW id \in DOMAIN cache, cache' = Source!Restrict(cache, DOMAIN cache \ {id})
      PROVE  DOMAIN cache' \subseteq DOMAIN cache
  BY <1>3 DEF Source!Restrict
<1>4. Source!Tick => DOMAIN cache' \subseteq DOMAIN cache
  BY DEF Source!Tick
<1> QED BY <1>1, <1>2, <1>3, <1>4, CacheSteps

-----------------------------------------------------------------------------
(* The headers kept for the segments of a playlist *)

\* keep_until: the playlist's headers are kept from now on, and of the live ones
\* at most one goes, which is remembered.
LEMMA RewriteKeeps ==
  ASSUME RequestsOK, KeptOK, TokensOK, Source!ConstantsOK, NEW r \in Requests,
         Source!Rewrite(r)
  PROVE  \E ids :
           /\ ids \subseteq DOMAIN kept
           /\ kept' = Source!Put(kept, ids, requests[r].id,
                                 [headers |-> requests[r].headers, left |-> TokenTtl])
           /\ Source!Live(kept) \ ids \subseteq evicted' \cup {requests[r].id}
           /\ evicted \subseteq evicted' /\ evicted' \subseteq Ids
           /\ issued' = [issued EXCEPT ![requests[r].id] = TokenTtl]
<1> DEFINE live == Source!Live(kept)
           id == requests[r].id
           entry == [headers |-> requests[r].headers, left |-> TokenTtl]
<1>1. live \subseteq DOMAIN kept /\ DOMAIN kept \subseteq Ids /\ evicted \subseteq Ids
  BY LiveIsHeld DEF KeptOK, TokensOK
<1>2. /\ issued' = [issued EXCEPT ![id] = TokenTtl]
      /\ Source!KeepHeaders(id, requests[r].headers)
  BY DEF Source!Rewrite
<1>3. \/ kept' = Source!Put(kept, live, id, entry) /\ evicted' = evicted
      \/ \E old \in Source!Earliest(kept, live) :
            kept' = Source!Put(kept, live \ {old}, id, entry) /\ evicted' = evicted \cup {old}
  BY <1>2 DEF Source!KeepHeaders
<1>4. ASSUME NEW old \in Source!Earliest(kept, live),
             kept' = Source!Put(kept, live \ {old}, id, entry), evicted' = evicted \cup {old}
      PROVE  \E ids :
               /\ ids \subseteq DOMAIN kept
               /\ kept' = Source!Put(kept, ids, id, entry)
               /\ live \ ids \subseteq evicted' \cup {id}
               /\ evicted \subseteq evicted' /\ evicted' \subseteq Ids
  <2>1. old \in live
    BY DEF Source!Earliest
  <2> HIDE DEF live
  <2> WITNESS live \ {old}
  <2> QED BY <1>1, <1>4, <2>1
<1>5. ASSUME kept' = Source!Put(kept, live, id, entry), evicted' = evicted
      PROVE  \E ids :
               /\ ids \subseteq DOMAIN kept
               /\ kept' = Source!Put(kept, ids, id, entry)
               /\ live \ ids \subseteq evicted' \cup {id}
               /\ evicted \subseteq evicted' /\ evicted' \subseteq Ids
  <2> HIDE DEF live
  <2> WITNESS live
  <2> QED BY <1>1, <1>5
<1>6. \E ids : /\ ids \subseteq DOMAIN kept
               /\ kept' = Source!Put(kept, ids, id, entry)
               /\ live \ ids \subseteq evicted' \cup {id}
               /\ evicted \subseteq evicted' /\ evicted' \subseteq Ids
  BY <1>3, <1>4, <1>5
<1> QED BY <1>2, <1>6

LEMMA NextKept ==
  ASSUME Source!ConstantsOK, RequestsOK, KeptOK, TokensOK, Source!HeadersOutliveTokens,
         [Source!Next]_(Source!vars)
  PROVE  KeptOK' /\ TokensOK' /\ Source!HeadersOutliveTokens'
<1>1. ASSUME NEW r \in Requests, Source!Rewrite(r)
      PROVE  KeptOK' /\ TokensOK' /\ Source!HeadersOutliveTokens'
  <2> DEFINE id == requests[r].id
             entry == [headers |-> requests[r].headers, left |-> TokenTtl]
  <2>1. PICK ids :
          /\ ids \subseteq DOMAIN kept
          /\ kept' = Source!Put(kept, ids, id, entry)
          /\ Source!Live(kept) \ ids \subseteq evicted' \cup {id}
          /\ evicted \subseteq evicted' /\ evicted' \subseteq Ids
          /\ issued' = [issued EXCEPT ![id] = TokenTtl]
    BY <1>1, RewriteKeeps
  <2>2. id \in Ids /\ entry \in KeptEntries /\ TokenTtl \in Nat /\ entry.left = TokenTtl
    BY <1>1 DEF Source!Rewrite, Source!At, RequestsOK, RequestStates, KeptEntries,
       Source!ConstantsOK
  <2> HIDE DEF id, entry
  <2>3. KeptOK'
    BY <2>1, <2>2 DEF KeptOK, Source!Put
  <2>4. TokensOK'
    BY <2>1, <2>2 DEF TokensOK
  <2>5. ASSUME NEW i \in Ids \ evicted', issued'[i] > 0
        PROVE  i \in Source!Live(kept)' /\ kept'[i].left >= issued'[i]
    <3>1. CASE i = id
      <4>1. i \in DOMAIN kept' /\ kept'[i] = entry /\ issued'[i] = TokenTtl
        BY <3>1, <2>1, <2>2 DEF Source!Put, TokensOK
      <4> QED BY <4>1, <2>2, <2>5 DEF Source!Live
    <3>2. CASE i # id
      <4>1. issued'[i] = issued[i] /\ i \notin evicted
        BY <3>2, <2>1, <2>2, <2>5 DEF TokensOK
      <4>2. i \in Source!Live(kept) /\ kept[i].left >= issued[i]
        BY <4>1, <2>5 DEF Source!HeadersOutliveTokens
      <4>3. i \in ids
        BY <4>2, <3>2, <2>1, <2>5
      <4>4. i \in DOMAIN kept' /\ kept'[i] = kept[i]
        BY <4>3, <3>2, <2>1 DEF Source!Put
      <4> QED BY <4>1, <4>2, <4>4 DEF Source!Live
    <3> QED BY <3>1, <3>2
  <2> QED BY <2>3, <2>4, <2>5 DEF Source!HeadersOutliveTokens
<1>2. CASE Source!Tick
  <2>1. /\ kept' = [id \in DOMAIN kept |-> [kept[id] EXCEPT !.left = Source!Spend(@)]]
        /\ issued' = [id \in Ids |-> Source!Spend(issued[id])]
        /\ evicted' = evicted
    BY <1>2 DEF Source!Tick
  <2>2. ASSUME NEW n \in 0..TokenTtl
        PROVE  Source!Spend(n) \in 0..TokenTtl /\ Source!Spend(n) = (IF n = 0 THEN 0 ELSE n - 1)
    BY <2>2 DEF Source!Spend, Source!ConstantsOK
  <2>3. ASSUME NEW id \in DOMAIN kept
        PROVE  /\ kept[id].left \in 0..TokenTtl /\ kept'[id] \in KeptEntries
               /\ kept'[id].left = Source!Spend(kept[id].left)
    <3>1. kept[id] \in KeptEntries
      BY DEF KeptOK
    <3> QED BY <3>1, <2>1, <2>2 DEF KeptEntries
  <2>4. KeptOK'
    BY <2>1, <2>3 DEF KeptOK
  <2>5. TokensOK'
    BY <2>1, <2>2 DEF TokensOK
  <2>6. ASSUME NEW i \in Ids \ evicted', issued'[i] > 0
        PROVE  i \in Source!Live(kept)' /\ kept'[i].left >= issued'[i]
    <3>1. issued[i] \in 0..TokenTtl /\ issued'[i] = Source!Spend(issued[i]) /\ TokenTtl \in Nat
      BY <2>1 DEF TokensOK, Source!ConstantsOK
    <3>2. issued[i] > 0 /\ issued'[i] = issued[i] - 1
      BY <3>1, <2>2, <2>6
    <3>3. i \in Source!Live(kept) /\ kept[i].left >= issued[i]
      BY <2>1, <2>6, <3>2 DEF Source!HeadersOutliveTokens
    <3>4. i \in DOMAIN kept /\ i \in DOMAIN kept'
      BY <3>3, <2>1, LiveIsHeld
    <3>5. kept[i].left \in 0..TokenTtl /\ kept'[i].left = Source!Spend(kept[i].left)
      BY <3>4, <2>3
    <3>6. kept'[i].left >= issued'[i] /\ kept'[i].left > 0
      BY <3>1, <3>2, <3>3, <3>5, <2>2, <2>6
    <3> QED BY <3>4, <3>6 DEF Source!Live
  <2> QED BY <2>4, <2>5, <2>6 DEF Source!HeadersOutliveTokens
<1>3. CASE UNCHANGED <<kept, issued, evicted>>
  BY <1>3 DEF KeptOK, TokensOK, Source!HeadersOutliveTokens, Source!Live
<1>4. ASSUME NEW r \in Requests, OwnStep(r) \/ Source!Resolution(r) \/ Source!FetchRefused(r)
      PROVE  UNCHANGED <<kept, issued, evicted>>
  BY <1>4, OwnStepLeaves DEF Source!Resolution, Source!FetchRefused
<1>5. ASSUME NEW id \in Ids, Source!RunTurn(id) \/ Source!RunResolves(id) \/ Source!RunFails(id)
                             \/ Source!RunLeaves(id)
      PROVE  UNCHANGED <<kept, issued, evicted>>
  BY <1>5 DEF Source!RunTurn, Source!RunResolves, Source!RunFails, Source!RunLeaves
<1> QED BY <1>1, <1>2, <1>3, <1>4, <1>5, NextSteps

-----------------------------------------------------------------------------
(* The theorem about the External Source *)

LEMMA SourceInit ==
  ASSUME Source!ConstantsOK, Source!Init
  PROVE  SourceInv
<1>1. DOMAIN running = {} /\ DOMAIN cache = {} /\ DOMAIN kept = {}
      /\ issued = [id \in Ids |-> 0] /\ evicted = {}
      /\ requests = [r \in Requests |-> Source!Idle]
  BY DEF Source!Init
<1>2. RequestsOK
  BY <1>1, IdleIsRequest DEF RequestsOK
<1>3. RunningOK /\ CacheOK /\ KeptOK
  BY DEF RunningOK, CacheOK, KeptOK, Source!Init
<1>4. TokensOK /\ GoodOK /\ Source!HeadersOutliveTokens
  BY <1>1 DEF TokensOK, GoodOK, Source!HeadersOutliveTokens, Source!ConstantsOK
<1>5. Source!CacheIsBounded
  BY <1>1, SameSets, FS_EmptySet DEF Source!CacheIsBounded, Source!ConstantsOK
<1> QED BY <1>2, <1>3, <1>4, <1>5 DEF SourceInv

LEMMA SourceNext ==
  ASSUME Source!ConstantsOK, SourceInv, [Source!Next]_(Source!vars)
  PROVE  SourceInv'
BY NextRequestsOK, NextRunningOK, NextCacheOK, NextCacheIsBounded, NextKept DEF SourceInv

LEMMA SourceImplied ==
  ASSUME Source!ConstantsOK, SourceInv
  PROVE  Source!SourceStaysGood
<1>1. /\ RequestsOK /\ RunningOK /\ CacheOK /\ KeptOK /\ TokensOK /\ GoodOK
      /\ Source!CacheIsBounded /\ Source!HeadersOutliveTokens
  BY DEF SourceInv
<1>2. Source!TypeOK
  <2>1. \A id \in DOMAIN running : running[id] \in RunStates
    BY <1>1 DEF RunningOK
  <2>2. \A id \in DOMAIN cache : cache[id] \in CacheEntries
    BY <1>1 DEF CacheOK
  <2>3. \A id \in DOMAIN kept : kept[id] \in KeptEntries
    BY <1>1 DEF KeptOK
  <2>4. \A r \in Requests : requests[r].headers \in SomeHeaders /\ requests[r].age \in 0..RunTimeout
    BY <1>1 DEF RequestsOK, RequestStates
  <2> QED BY <1>1, <2>1, <2>2, <2>3, <2>4 DEF Source!TypeOK, RunningOK, CacheOK, KeptOK,
          TokensOK, RunStates, CacheEntries, KeptEntries, SomeHeaders
<1>3. Source!CachedUrlIsGood
  <2> SUFFICES ASSUME NEW id \in Source!Live(cache) PROVE cache[id].good > ExpiryMargin
    BY DEF Source!CachedUrlIsGood
  <2>1. id \in DOMAIN cache /\ cache[id].left > 0
    BY DEF Source!Live
  <2>2. cache[id].good \in 0..Source!Forever /\ cache[id].left \in 0..CacheTtl
    BY <1>1, <2>1 DEF CacheOK, CacheEntries
  <2>3. cache[id].good >= cache[id].left + ExpiryMargin
    BY <1>1, <2>1 DEF GoodOK
  <2> QED BY <2>1, <2>2, <2>3 DEF Source!ConstantsOK, Source!Forever
<1> QED BY <1>1, <1>2, <1>3 DEF Source!SourceStaysGood

-----------------------------------------------------------------------------
(* A response made of chunks *)

\* What was asked for, and where the response is.
ChunkTypes ==
  /\ ask \in [start : Nat, end : Nat \cup {Chunks!Open}, head : BOOLEAN]
  /\ ask.end = Chunks!Open \/ ask.end >= ask.start
  /\ size \in Nat /\ size \in Sizes /\ chunk \in Nat \ {0} /\ chunk \in ChunkSizes
  /\ step \in {"first", "reading", "whole", "ended", "failed", "refused"}
  /\ last \in Nat /\ next \in Nat

\* What the client has is one run of bytes that ends where the next chunk begins.
BodyOK ==
  /\ sent \in Seq(Nat)
  /\ step \in {"reading", "failed"} =>
       /\ ask.start < next /\ next <= last + 1
       /\ sent = Chunks!Span(ask.start, next - 1)
  /\ step = "ended" /\ ~ask.head => ask.start <= last /\ sent = Chunks!Span(ask.start, last)

ChunksInv == ChunkTypes /\ BodyOK

LEMMA SpanIs ==
  ASSUME NEW a \in Nat, NEW b \in Int, b >= a - 1
  PROVE  /\ Chunks!Span(a, b) \in Seq(Nat) /\ Len(Chunks!Span(a, b)) = b - a + 1
         /\ \A i \in 1..(b - a + 1) : Chunks!Span(a, b)[i] = a + i - 1
BY DEF Chunks!Span

LEMMA SpansJoin ==
  ASSUME NEW a \in Nat, NEW b \in Nat, NEW c \in Nat, a <= b, b <= c
  PROVE  Chunks!Span(a, b - 1) \o Chunks!Span(b, c) = Chunks!Span(a, c)
<1> DEFINE s == Chunks!Span(a, b - 1)
           t == Chunks!Span(b, c)
           u == Chunks!Span(a, c)
<1>1. s \in Seq(Nat) /\ Len(s) = b - a /\ \A i \in 1..(b - a) : s[i] = a + i - 1
  <2>1. b - 1 \in Int /\ b - 1 >= a - 1 /\ (b - 1) - a + 1 = b - a
    OBVIOUS
  <2> QED BY <2>1, SpanIs
<1>2. t \in Seq(Nat) /\ Len(t) = c - b + 1 /\ \A i \in 1..(c - b + 1) : t[i] = b + i - 1
  <2>1. c \in Int /\ c >= b - 1
    OBVIOUS
  <2> QED BY <2>1, SpanIs
<1>3. u \in Seq(Nat) /\ Len(u) = c - a + 1 /\ \A i \in 1..(c - a + 1) : u[i] = a + i - 1
  <2>1. c \in Int /\ c >= a - 1
    OBVIOUS
  <2> QED BY <2>1, SpanIs
<1> HIDE DEF s, t, u
<1>4. s \o t \in Seq(Nat) /\ Len(s \o t) = c - a + 1
  BY <1>1, <1>2
<1>5. ASSUME NEW i \in 1..(c - a + 1) PROVE (s \o t)[i] = u[i]
  <2>1. CASE i <= b - a
    <3>1. i \in 1..(b - a)
      BY <2>1
    <3>2. (s \o t)[i] = s[i]
      BY <1>1, <1>2, <3>1
    <3>3. s[i] = a + i - 1
      BY <1>1, <3>1
    <3>4. u[i] = a + i - 1
      BY <1>3
    <3> QED BY <3>2, <3>3, <3>4
  <2>2. CASE i > b - a
    <3>1. i - (b - a) \in 1..(c - b + 1)
      BY <2>2
    <3>2. (s \o t)[i] = t[i - (b - a)]
      <4>1. i \in 1..(Len(s) + Len(t)) /\ i > Len(s) /\ i - Len(s) = i - (b - a)
        BY <1>1, <1>2, <2>2
      <4>2. s \in Seq(Nat) /\ t \in Seq(Nat)
        BY <1>1, <1>2
      <4>3. (s \o t)[i] = t[i - Len(s)]
        BY <4>1, <4>2
      <4> QED BY <4>1, <4>3
    <3>3. t[i - (b - a)] = b + (i - (b - a)) - 1
      BY <1>2, <3>1
    <3>4. u[i] = a + i - 1
      BY <1>3
    <3>5. b + (i - (b - a)) - 1 = a + i - 1
      OBVIOUS
    <3> QED BY <3>2, <3>3, <3>4, <3>5
  <2>3. i <= b - a \/ i > b - a
    OBVIOUS
  <2> QED BY <2>1, <2>2, <2>3
<1>6. s \o t = u
  BY <1>3, <1>4, <1>5, SeqEqual
<1> QED BY <1>6 DEF s, t, u

LEMMA ChunksInit == Chunks!ConstantsOK /\ Chunks!Init => ChunksInv
BY DEF Chunks!ConstantsOK, Chunks!Init, ChunksInv, ChunkTypes, BodyOK, Chunks!Open

LEMMA ChunksNext ==
  ASSUME Chunks!ConstantsOK, ChunksInv, [Chunks!Next]_(Chunks!vars)
  PROVE  ChunksInv'
<1> USE DEF ChunksInv
<1>1. CASE Chunks!FirstChunk
  <2>1. PICK served \in ask.start .. Chunks!Least(Chunks!FirstLast, size - 1) :
       /\ last' = Chunks!Promised(size)
       /\ IF ask.head THEN step' = "ended" /\ UNCHANGED <<next, sent>>
          ELSE step' = "reading" /\ next' = served + 1 /\ sent' = Chunks!Span(ask.start, served)
    BY <1>1 DEF Chunks!FirstChunk
  <2>2. ask.start < size /\ UNCHANGED <<size, chunk, ask>>
    BY <1>1 DEF Chunks!FirstChunk
  <2>3. Chunks!Promised(size) \in Nat
    BY <2>2 DEF ChunkTypes, Chunks!Promised, Chunks!Least, Chunks!Open
  <2>4. served \in Nat /\ ask.start <= served /\ served <= Chunks!Promised(size)
    BY <2>2 DEF ChunkTypes, Chunks!Promised, Chunks!Least, Chunks!Open, Chunks!FirstLast
  <2>5. ChunkTypes'
    BY <2>1, <2>2, <2>3, <2>4 DEF ChunkTypes
  <2>6. CASE ask.head
    BY <2>1, <2>2, <2>5, <2>6 DEF BodyOK
  <2>7. CASE ~ask.head
    <3>1. step' = "reading" /\ next' = served + 1 /\ sent' = Chunks!Span(ask.start, served)
      BY <2>1, <2>7
    <3>2. ask.start \in Nat /\ served \in Int /\ served >= ask.start - 1
      BY <2>4 DEF ChunkTypes
    <3>3. sent' \in Seq(Nat)
      BY <3>1, <3>2, SpanIs
    <3>4. next' - 1 = served /\ ask'.start = ask.start
      BY <2>2, <2>4, <3>1
    <3>5. ask.start < next' /\ next' <= last' + 1
      BY <2>1, <2>3, <2>4, <3>1, <3>2
    <3>6. BodyOK'
      BY <3>1, <3>3, <3>4, <3>5 DEF BodyOK
    <3> QED BY <2>5, <3>6
  <2> QED BY <2>5, <2>6, <2>7
<1>2. CASE Chunks!FirstIgnored
  <2>1. Chunks!Span(0, size - 1) \in Seq(Nat)
    BY SpanIs DEF ChunkTypes
  <2> QED BY <1>2, <2>1 DEF Chunks!FirstIgnored, ChunkTypes, BodyOK
<1>3. CASE Chunks!FirstRefused
  BY <1>3 DEF Chunks!FirstRefused, ChunkTypes, BodyOK
<1>4. CASE Chunks!LaterChunk
  <2>1. /\ step = "reading" /\ next <= last /\ UNCHANGED <<size, chunk, ask, last>>
        /\ \/ /\ sent' = sent \o Chunks!Span(next, Chunks!NextLast)
              /\ next' = Chunks!NextLast + 1 /\ step' = step
           \/ step' = "failed" /\ UNCHANGED <<sent, next>>
    BY <1>4 DEF Chunks!LaterChunk, Chunks!Accepted
  <2>2. Chunks!NextLast \in Nat /\ next <= Chunks!NextLast /\ Chunks!NextLast <= last
    BY <2>1 DEF ChunkTypes, Chunks!NextLast, Chunks!Least
  <2>3. ChunkTypes'
    BY <2>1, <2>2 DEF ChunkTypes
  <2>4. CASE step' = "failed" /\ UNCHANGED <<sent, next>>
    BY <2>1, <2>3, <2>4 DEF BodyOK
  <2>5. CASE /\ sent' = sent \o Chunks!Span(next, Chunks!NextLast)
             /\ next' = Chunks!NextLast + 1 /\ step' = step
    <3>1. /\ ask.start \in Nat /\ next \in Nat /\ ask.start <= next
          /\ sent = Chunks!Span(ask.start, next - 1)
      BY <2>1 DEF BodyOK, ChunkTypes
    <3>2. sent' = Chunks!Span(ask.start, Chunks!NextLast)
      BY <2>2, <2>5, <3>1, SpansJoin
    <3>3. Chunks!NextLast \in Int /\ Chunks!NextLast >= ask.start - 1
      BY <2>2, <3>1
    <3>4. sent' \in Seq(Nat)
      BY <3>1, <3>2, <3>3, SpanIs
    <3>5. next' - 1 = Chunks!NextLast /\ ask'.start = ask.start
      BY <2>1, <2>2, <2>5
    <3>6. ask.start < next' /\ next' <= last' + 1
      BY <2>1, <2>2, <2>5, <3>1 DEF ChunkTypes
    <3>7. step' = "reading"
      BY <2>1, <2>5
    <3>8. BodyOK'
      BY <3>2, <3>4, <3>5, <3>6, <3>7 DEF BodyOK
    <3> QED BY <2>3, <3>8
  <2> QED BY <2>1, <2>3, <2>4, <2>5
<1>5. CASE Chunks!LaterFails
  BY <1>5 DEF Chunks!LaterFails, ChunkTypes, BodyOK
<1>6. CASE Chunks!BodyEnds
  <2>1. step = "reading" /\ next = last + 1
    BY <1>6 DEF Chunks!BodyEnds, BodyOK, ChunkTypes
  <2> QED BY <1>6, <2>1 DEF Chunks!BodyEnds, BodyOK, ChunkTypes
<1>7. CASE Chunks!FileChanges
  BY <1>7 DEF Chunks!FileChanges, ChunkTypes, BodyOK, Chunks!ConstantsOK
<1>8. CASE UNCHANGED Chunks!vars
  BY <1>8 DEF Chunks!vars, ChunkTypes, BodyOK
<1> QED BY <1>1, <1>2, <1>3, <1>4, <1>5, <1>6, <1>7, <1>8 DEF Chunks!Next

LEMMA ChunksImplied == ChunksInv => Chunks!TypeOK /\ Chunks!BodyIsWhatTheHeadSaid
<1> SUFFICES ASSUME ChunksInv PROVE Chunks!TypeOK /\ Chunks!BodyIsWhatTheHeadSaid
  OBVIOUS
<1>1. Chunks!TypeOK
  BY DEF ChunksInv, ChunkTypes, BodyOK, Chunks!TypeOK
<1>2. ASSUME step \in {"reading", "failed"}
      PROVE  /\ sent = Chunks!Span(ask.start, ask.start + Len(sent) - 1)
             /\ ask.start + Len(sent) - 1 <= last
  <2>1. /\ ask.start \in Nat /\ next \in Nat /\ last \in Nat /\ ask.start < next
        /\ next <= last + 1 /\ sent = Chunks!Span(ask.start, next - 1)
    BY <1>2 DEF ChunksInv, ChunkTypes, BodyOK
  <2>2. next - 1 \in Int /\ next - 1 >= ask.start - 1
    BY <2>1
  <2>3. Len(sent) = next - ask.start
    <3>1. Len(sent) = (next - 1) - ask.start + 1
      BY <2>1, <2>2, SpanIs
    <3> QED BY <2>1, <3>1
  <2>4. ask.start + Len(sent) - 1 = next - 1
    BY <2>1, <2>3
  <2> QED BY <2>1, <2>4
<1>3. step = "ended" /\ ~ask.head => sent = Chunks!Span(ask.start, last)
  BY DEF ChunksInv, BodyOK
<1> QED BY <1>1, <1>2, <1>3 DEF Chunks!BodyIsWhatTheHeadSaid

(* The body of a response fetched in chunks is what its head said, for any   *)
(* sizes of files and chunks and however the site answers                    *)
(* (external_source/service.rs, fetch_in_chunks).                            *)
THEOREM ChunksAreWhatTheHeadSaid ==
  Chunks!Spec => [](Chunks!TypeOK /\ Chunks!BodyIsWhatTheHeadSaid)
<1>1. Chunks!Init => ChunksInv
  BY ChunksInit, PartsAssumption
<1>2. ChunksInv /\ [Chunks!Next]_(Chunks!vars) => ChunksInv'
  BY ChunksNext, PartsAssumption
<1> QED BY <1>1, <1>2, ChunksImplied, PTL DEF Chunks!Spec

(* The External Source keeps its promises for any capacities, lifetimes and  *)
(* numbers of requests: the cache answers only with URLs that stay good for  *)
(* the margin and never outgrows CACHE_CAPACITY, headers are kept for as     *)
(* long as the tokens of a playlist are valid, and chunks join to the body   *)
(* that was announced (external_source/service.rs).                          *)
THEOREM SourceIsGood ==
  /\ Source!Spec => []Source!SourceStaysGood
  /\ Source!Spec /\ Chunks!Spec => []SourceStaysGood
<1>1. Source!Init => SourceInv
  BY SourceInit, PartsAssumption
<1>2. SourceInv /\ [Source!Next]_(Source!vars) => SourceInv'
  BY SourceNext, PartsAssumption
<1>3. SourceInv => Source!SourceStaysGood
  BY SourceImplied, PartsAssumption
<1>4. Source!Spec => []Source!SourceStaysGood
  BY <1>1, <1>2, <1>3, PTL DEF Source!Spec
<1>5. Source!SourceStaysGood /\ Chunks!TypeOK /\ Chunks!BodyIsWhatTheHeadSaid => SourceStaysGood
  BY DEF SourceStaysGood
<1> QED BY <1>4, <1>5, ChunksAreWhatTheHeadSaid, PTL

-----------------------------------------------------------------------------
(***************************************************************************)
(* What is found online.  The inductive invariant says what the row of a   *)
(* kind may hold (RowOK), what a request has read and found (TaskOK), whom *)
(* the places that are taken belong to (HeldOK), and which Tracks a sweep  *)
(* and the check it stores have seen (SweepOK).                            *)
(***************************************************************************)

FoundValues == [edition : Nat, of : Nat]
NotFound == [edition |-> 0, of |-> 0]
AnyOutcome == {"found", "missing", "failed", "none"}
Rows == [outcome : AnyOutcome, value : FoundValues, at : Nat, of : Nat]
LookupTasks == [step : {"idle", "waits", "asks", "stores", "answered"}, kind : Lookups!AllKinds, stored : Rows,
                of : Nat, outcome : AnyOutcome, value : FoundValues]
PlaceNames == {"deezer", "lastfm", "pacer"}
SweepSteps == {"asks", "marks", "checks"}

InfoTypes ==
  /\ enabled \in BOOLEAN /\ present \in BOOLEAN /\ today \in 0..MaxTime /\ online \in Nat /\ own \in Nat
  /\ row \in [LookupKinds -> Rows] /\ task \in [Askers -> LookupTasks] /\ held \in [PlaceNames -> Nat]
  /\ tracks \in [Tracks -> {"absent", "plain", "explicit", "gone"}]
  /\ check \in [outcome : AnyOutcome, at : Nat, seen : SUBSET Tracks]
  /\ sweep \in [step : {"idle", "waits"} \cup SweepSteps, then : {<<>>, <<"checks">>}, seen : SUBSET Tracks,
                outcome : AnyOutcome]

\* A row with a value was found, but for the lists, which a failure keeps.
RowOK(k, r) ==
  /\ r.value # NotFound /\ ~Lookups!Refreshed(k) => r.outcome = "found"
  /\ k = "cover" /\ r.value # NotFound => r.value.of = r.of

TaskOK(t) ==
  /\ t.step # "idle" => t.kind \in LookupKinds
  /\ t.step \in {"waits", "asks"} => t.value = NotFound
  /\ t.step = "stores" /\ t.value # NotFound => t.outcome = "found"
  /\ t.step \in {"waits", "asks", "stores"} /\ ~Lookups!Refreshed(t.kind) => t.stored.outcome # "found"
  /\ t.kind = "cover" /\ t.value # NotFound => t.value.of = t.of

Holds(t, place) ==
  Lookups!PlaceOf(t.kind) = place /\ (t.step = "asks" \/ (t.step = "stores" /\ Lookups!KeepsPlace(t.kind)))
Holding(place) == {a \in Askers : Holds(task[a], place)}
BySweep(place) == IF place = "deezer" /\ sweep.step \in SweepSteps THEN 1 ELSE 0

HeldOK ==
  \A place \in PlaceNames :
    held[place] = Cardinality(Holding(place)) + BySweep(place) /\ held[place] <= Lookups!Room(place)

\* A Track that was seen does not come back once it is gone.
SweepOK ==
  /\ sweep.step = "marks" => sweep.then = <<"checks">>
  /\ sweep.step = "checks" => sweep.then = <<>>
  /\ sweep.step # "idle" => check.outcome # "found"
  /\ \A t \in sweep.seen \cup check.seen : tracks[t] # "absent"
  /\ sweep.step = "checks" /\ sweep.outcome = "found" => \A t \in sweep.seen : tracks[t] # "plain"
  /\ check.outcome = "found" => \A t \in check.seen : tracks[t] # "plain"

AskersOK ==
  /\ \A k \in LookupKinds : RowOK(k, row[k])
  /\ \A a \in Askers : TaskOK(task[a])

InfoInv == InfoTypes /\ AskersOK /\ HeldOK /\ SweepOK


LEMMA InfoKnown ==
  /\ Lookups!AllKinds = {"photo", "biography", "titles", "counts", "genres", "cover"}
  /\ IsFiniteSet(Askers) /\ LookupKinds \subseteq Lookups!AllKinds /\ Places \in Nat /\ MaxTime \in Nat
  /\ Lookups!Nothing = NotFound /\ NotFound \in FoundValues
  /\ \A k \in Lookups!AllKinds : Lookups!PlaceOf(k) \in PlaceNames
<1>1. Lookups!IsFiniteSet(Askers) <=> IsFiniteSet(Askers)
  BY Zenon DEF Lookups!IsFiniteSet, IsFiniteSet
<1>2. \A k \in Lookups!AllKinds : Lookups!PlaceOf(k) \in PlaceNames
  BY DEF Lookups!PlaceOf, PlaceNames, Lookups!AllKinds
<1>3. Lookups!Nothing = NotFound /\ NotFound \in FoundValues
  BY DEF Lookups!Nothing, NotFound, FoundValues
<1> QED BY <1>1, <1>2, <1>3, LookupsAssumption DEF Lookups!ConstantsOK, Lookups!AllKinds

LEMMA HoldingFinite ==
  \A S \in SUBSET Askers : IsFiniteSet(S) /\ Cardinality(S) \in Nat
BY InfoKnown, FS_Subset, FS_CardinalityType

\* A request that moves on without taking or giving back a place.
LEMMA HeldSame ==
  ASSUME InfoTypes, HeldOK, NEW a \in Askers, NEW t \in LookupTasks, task' = [task EXCEPT ![a] = t],
         UNCHANGED <<held, sweep>>,
         \A place \in PlaceNames : Holds(t, place) <=> Holds(task[a], place)
  PROVE  HeldOK'
<1>1. \A b \in Askers : task'[b] = IF b = a THEN t ELSE task[b]
  BY DEF InfoTypes
<1>2. \A place \in PlaceNames : Holding(place)' = Holding(place)
  <2> SUFFICES ASSUME NEW place \in PlaceNames PROVE Holding(place)' = Holding(place)
    OBVIOUS
  <2>1. Holding(place)' = {b \in Askers : Holds(task'[b], place)}
    BY DEF Holding, Holds
  <2> QED BY <1>1, <2>1 DEF Holding
<1> QED BY <1>2 DEF HeldOK, BySweep

\* One that takes a free place.
LEMMA HeldTaken ==
  ASSUME InfoTypes, HeldOK, NEW a \in Askers, NEW t \in LookupTasks, NEW q \in PlaceNames,
         task' = [task EXCEPT ![a] = t], held' = [held EXCEPT ![q] = @ + 1], UNCHANGED sweep,
         held[q] < Lookups!Room(q),
         \A place \in PlaceNames : ~Holds(task[a], place) /\ (Holds(t, place) <=> place = q)
  PROVE  HeldOK'
<1>1. \A b \in Askers : task'[b] = IF b = a THEN t ELSE task[b]
  BY DEF InfoTypes
<1>2. \A place \in PlaceNames : Holding(place)' = IF place = q THEN Holding(place) \cup {a} ELSE Holding(place)
  <2> SUFFICES ASSUME NEW place \in PlaceNames
               PROVE Holding(place)' = IF place = q THEN Holding(place) \cup {a} ELSE Holding(place)
    OBVIOUS
  <2>1. Holding(place)' = {b \in Askers : Holds(task'[b], place)}
    BY DEF Holding, Holds
  <2> QED BY <1>1, <2>1 DEF Holding
<1>3. Cardinality(Holding(q) \cup {a}) = Cardinality(Holding(q)) + 1 /\ Cardinality(Holding(q)) \in Nat
  <2>1. a \notin Holding(q) /\ Holding(q) \in SUBSET Askers
    BY DEF Holding
  <2> QED BY <2>1, HoldingFinite, FS_AddElement
<1>4. /\ held'[q] = held[q] + 1 /\ held[q] \in Nat
      /\ \A place \in PlaceNames : place # q => held'[place] = held[place]
  BY DEF InfoTypes
<1>5. Lookups!Room(q) \in Nat /\ BySweep(q) \in Nat
  BY InfoKnown DEF Lookups!Room, BySweep
<1> SUFFICES ASSUME NEW place \in PlaceNames
             PROVE /\ held'[place] = Cardinality(Holding(place)') + BySweep(place)
                   /\ held'[place] <= Lookups!Room(place)
  BY DEF HeldOK, BySweep
<1>6. CASE place = q
  <2>1. held[q] = Cardinality(Holding(q)) + BySweep(q)
    BY DEF HeldOK
  <2>2. held'[q] = Cardinality(Holding(q)) + 1 + BySweep(q) /\ held'[q] <= Lookups!Room(q)
    BY <2>1, <1>3, <1>4, <1>5
  <2>3. Cardinality(Holding(q)') = Cardinality(Holding(q)) + 1
    BY <1>2, <1>3
  <2> QED BY <1>3, <1>5, <1>6, <2>2, <2>3
<1>7. CASE place # q
  BY <1>2, <1>4, <1>7 DEF HeldOK
<1> QED BY <1>6, <1>7

\* One that gives its place back.
LEMMA HeldFreed ==
  ASSUME InfoTypes, HeldOK, NEW a \in Askers, NEW t \in LookupTasks, NEW q \in PlaceNames,
         task' = [task EXCEPT ![a] = t], held' = [held EXCEPT ![q] = @ - 1], UNCHANGED sweep,
         \A place \in PlaceNames : ~Holds(t, place) /\ (Holds(task[a], place) <=> place = q)
  PROVE  HeldOK' /\ held' \in [PlaceNames -> Nat]
<1>1. \A b \in Askers : task'[b] = IF b = a THEN t ELSE task[b]
  BY DEF InfoTypes
<1>2. \A place \in PlaceNames : Holding(place)' = IF place = q THEN Holding(place) \ {a} ELSE Holding(place)
  <2> SUFFICES ASSUME NEW place \in PlaceNames
               PROVE Holding(place)' = IF place = q THEN Holding(place) \ {a} ELSE Holding(place)
    OBVIOUS
  <2>1. Holding(place)' = {b \in Askers : Holds(task'[b], place)}
    BY DEF Holding, Holds
  <2> QED BY <1>1, <2>1 DEF Holding
<1>3. Cardinality(Holding(q) \ {a}) = Cardinality(Holding(q)) - 1 /\ Cardinality(Holding(q) \ {a}) \in Nat
      /\ Cardinality(Holding(q)) \in Nat
  <2>1. a \in Holding(q) /\ Holding(q) \in SUBSET Askers /\ Holding(q) \ {a} \in SUBSET Askers
    BY DEF Holding
  <2> QED BY <2>1, HoldingFinite, FS_RemoveElement
<1>4. /\ held'[q] = held[q] - 1 /\ held[q] \in Nat
      /\ \A place \in PlaceNames : place # q => held'[place] = held[place]
      /\ DOMAIN held' = PlaceNames
  BY DEF InfoTypes
<1>5. Lookups!Room(q) \in Nat /\ BySweep(q) \in Nat
  BY InfoKnown DEF Lookups!Room, BySweep
<1>6. held'[q] = Cardinality(Holding(q) \ {a}) + BySweep(q) /\ held'[q] <= Lookups!Room(q) /\ held'[q] \in Nat
  <2>1. held[q] = Cardinality(Holding(q)) + BySweep(q) /\ held[q] <= Lookups!Room(q)
    BY DEF HeldOK
  <2> QED BY <2>1, <1>3, <1>4, <1>5
<1>7. held' \in [PlaceNames -> Nat]
  <2>1. held' = [place \in PlaceNames |-> held'[place]]
    BY DEF InfoTypes
  <2>2. \A place \in PlaceNames : held'[place] \in Nat
    BY <1>4, <1>6 DEF InfoTypes
  <2> QED BY <2>1, <2>2
<1>8. ASSUME NEW place \in PlaceNames
      PROVE /\ held'[place] = Cardinality(Holding(place)') + BySweep(place)
            /\ held'[place] <= Lookups!Room(place)
  <2>1. CASE place = q
    BY <1>2, <1>6, <2>1
  <2>2. CASE place # q
    BY <1>2, <1>4, <2>2 DEF HeldOK
  <2> QED BY <2>1, <2>2
<1> QED BY <1>7, <1>8 DEF HeldOK, BySweep

\* The sweep's place.
LEMMA HeldBySweep ==
  ASSUME InfoTypes, HeldOK, UNCHANGED task,
         \/ /\ held' = [held EXCEPT !["deezer"] = @ + 1] /\ held["deezer"] < Places
            /\ sweep.step \notin SweepSteps /\ sweep'.step \in SweepSteps
         \/ /\ held' = [held EXCEPT !["deezer"] = @ - 1]
            /\ sweep.step \in SweepSteps /\ sweep'.step \notin SweepSteps
         \/ held' = held /\ (sweep.step \in SweepSteps <=> sweep'.step \in SweepSteps)
  PROVE  HeldOK' /\ held' \in [PlaceNames -> Nat]
<1>1. \A place : Holding(place)' = Holding(place)
  BY DEF Holding, Holds
<1>2. \A place \in PlaceNames : Holding(place) \in SUBSET Askers
  BY DEF Holding
<1>3. \A place \in PlaceNames : Cardinality(Holding(place)) \in Nat /\ held[place] \in Nat
  BY <1>2, HoldingFinite DEF InfoTypes
<1>4. \A place \in PlaceNames :
        /\ held[place] = Cardinality(Holding(place)) + BySweep(place) /\ held[place] <= Lookups!Room(place)
  BY DEF HeldOK
<1>5. "deezer" \in PlaceNames /\ Lookups!Room("deezer") = Places /\ Places \in Nat
  BY InfoKnown DEF PlaceNames, Lookups!Room
<1>6. \A place \in PlaceNames : place # "deezer" => BySweep(place) = 0 /\ BySweep(place)' = 0 /\ held'[place] = held[place]
  BY DEF BySweep, InfoTypes
<1>7. /\ held'["deezer"] \in Nat /\ held'["deezer"] <= Places
      /\ held'["deezer"] = Cardinality(Holding("deezer")) + BySweep("deezer")'
  <2>1. CASE /\ held' = [held EXCEPT !["deezer"] = @ + 1] /\ held["deezer"] < Places
             /\ sweep.step \notin SweepSteps /\ sweep'.step \in SweepSteps
    <3>1. held'["deezer"] = held["deezer"] + 1 /\ BySweep("deezer") = 0 /\ BySweep("deezer")' = 1
      BY <1>5, <2>1 DEF InfoTypes, BySweep
    <3> QED BY <1>3, <1>4, <1>5, <2>1, <3>1
  <2>2. CASE /\ held' = [held EXCEPT !["deezer"] = @ - 1]
             /\ sweep.step \in SweepSteps /\ sweep'.step \notin SweepSteps
    <3>1. held'["deezer"] = held["deezer"] - 1 /\ BySweep("deezer") = 1 /\ BySweep("deezer")' = 0
      BY <1>5, <2>2 DEF InfoTypes, BySweep
    <3> QED BY <1>3, <1>4, <1>5, <2>2, <3>1
  <2>3. CASE held' = held /\ (sweep.step \in SweepSteps <=> sweep'.step \in SweepSteps)
    <3>1. BySweep("deezer")' = BySweep("deezer")
      BY <2>3 DEF BySweep
    <3> QED BY <1>3, <1>4, <1>5, <2>3, <3>1
  <2> QED BY <2>1, <2>2, <2>3
<1>8. held' \in [PlaceNames -> Nat]
  <2>1. held' = [place \in PlaceNames |-> held'[place]]
    BY DEF InfoTypes
  <2>2. \A place \in PlaceNames : held'[place] \in Nat
    BY <1>3, <1>6, <1>7
  <2> QED BY <2>1, <2>2
<1>9. ASSUME NEW place \in PlaceNames
      PROVE /\ held'[place] = Cardinality(Holding(place)') + BySweep(place)'
            /\ held'[place] <= Lookups!Room(place)
  <2>1. CASE place = "deezer"
    BY <1>1, <1>5, <1>7, <2>1
  <2>2. CASE place # "deezer"
    BY <1>1, <1>4, <1>6, <2>2
  <2> QED BY <2>1, <2>2
<1> QED BY <1>8, <1>9 DEF HeldOK

LEMMA AskerKnown ==
  ASSUME InfoInv, NEW a \in Askers
  PROVE  task[a] \in LookupTasks /\ TaskOK(task[a]) /\ task[a].kind \in Lookups!AllKinds
         /\ Lookups!PlaceOf(task[a].kind) \in PlaceNames
BY InfoKnown DEF InfoInv, InfoTypes, AskersOK, LookupTasks

\* A request that goes on: what it is left with is in order, and so are the places.
LEMMA TaskKeeps ==
  ASSUME InfoInv, NEW a \in Askers, NEW t \in LookupTasks, TaskOK(t), task' = [task EXCEPT ![a] = t],
         HeldOK', held' \in [PlaceNames -> Nat],
         row' \in [LookupKinds -> Rows], \A k \in LookupKinds : RowOK(k, row'[k]),
         UNCHANGED <<enabled, today, online, own, present, tracks, check, sweep>>
  PROVE  InfoInv'
<1>1. \A b \in Askers : task'[b] = IF b = a THEN t ELSE task[b]
  BY DEF InfoInv, InfoTypes
<1>2. task' \in [Askers -> LookupTasks] /\ \A b \in Askers : TaskOK(task'[b])
  BY <1>1 DEF InfoInv, InfoTypes, AskersOK
<1>3. InfoTypes'
  BY <1>2 DEF InfoInv, InfoTypes
<1>4. AskersOK'
  BY <1>2 DEF AskersOK, TaskOK, RowOK
<1>5. SweepOK'
  BY DEF InfoInv, SweepOK
<1> QED BY <1>3, <1>4, <1>5 DEF InfoInv

LEMMA RowsKept ==
  ASSUME InfoInv, UNCHANGED row
  PROVE  row' \in [LookupKinds -> Rows] /\ \A k \in LookupKinds : RowOK(k, row'[k])
BY DEF InfoInv, InfoTypes, AskersOK

LEMMA IdleKnown ==
  /\ Lookups!Idle \in LookupTasks /\ Lookups!Idle.step = "idle" /\ Lookups!Idle.value = NotFound
  /\ Lookups!NoRow \in Rows /\ Lookups!NoRow.value = NotFound /\ Lookups!NoRow.outcome = "none" 
  /\ TaskOK(Lookups!Idle) /\ \A place \in PlaceNames : ~Holds(Lookups!Idle, place)
<1>1. Lookups!NoRow \in Rows /\ Lookups!NoRow.value = NotFound /\ Lookups!NoRow.outcome = "none"
  BY InfoKnown DEF Lookups!NoRow, Rows, AnyOutcome
<1>2. Lookups!Idle \in LookupTasks
  BY <1>1, InfoKnown DEF Lookups!Idle, LookupTasks, AnyOutcome
<1>3. Lookups!Idle.step = "idle" /\ Lookups!Idle.value = NotFound
  BY InfoKnown DEF Lookups!Idle
<1> QED BY <1>1, <1>2, <1>3 DEF TaskOK, Holds

\* A question: what is stored is the answer, or a lookup is due.
LEMMA AskAnswers ==
  ASSUME InfoInv, NEW a \in Askers, NEW k \in LookupKinds, Lookups!Ask(a, k)
  PROVE  InfoInv'
<1> DEFINE stored == Lookups!ReadRow(k)
           t == [Lookups!Idle EXCEPT !.kind = k, !.stored = stored, !.of = own]
           u == IF Lookups!ShouldLookUp(k, stored) THEN [t EXCEPT !.step = "waits"] ELSE Lookups!Answered(t, stored.value)
<1>1. task' = [task EXCEPT ![a] = u] /\ task[a].step = "idle"
      /\ UNCHANGED <<enabled, today, online, own, present, row, held, tracks, check, sweep>>
  BY DEF Lookups!Ask
<1>2. own \in Nat /\ row[k] \in Rows /\ RowOK(k, row[k]) /\ k \in Lookups!AllKinds
  BY InfoKnown DEF InfoInv, InfoTypes, AskersOK
<1>3. stored \in Rows /\ RowOK(k, stored) /\ (k = "cover" /\ stored.value # NotFound => stored.value.of = own)
  <2>1. CASE stored = Lookups!NoRow
    BY <2>1, IdleKnown DEF RowOK
  <2>2. CASE stored = row[k] /\ (k = "cover" => row[k].of = own)
    BY <1>2, <2>2 DEF RowOK
  <2> QED BY <2>1, <2>2 DEF Lookups!ReadRow
<1> HIDE DEF stored
<1>4. stored.value \in FoundValues
  BY <1>3 DEF Rows
<1>5. t \in LookupTasks /\ t.kind = k /\ t.step = "idle" /\ t.value = NotFound /\ t.stored = stored /\ t.of = own
  BY <1>2, <1>3, IdleKnown DEF LookupTasks
<1> HIDE DEF t
<1>6. u \in LookupTasks /\ TaskOK(u) /\ \A place \in PlaceNames : ~Holds(u, place)
  <2>1. CASE Lookups!ShouldLookUp(k, stored)
    <3>1. u = [t EXCEPT !.step = "waits"]
      BY <2>1
    <3>2. /\ u \in LookupTasks /\ u.step = "waits" /\ u.kind = k /\ u.value = NotFound /\ u.stored = stored
      BY <1>5, <3>1 DEF LookupTasks
    <3>3. ~Lookups!Refreshed(k) => stored.outcome # "found"
      BY <2>1 DEF Lookups!ShouldLookUp, Lookups!IsDue
    <3> QED BY <3>2, <3>3 DEF TaskOK, Holds
  <2>2. CASE ~Lookups!ShouldLookUp(k, stored)
    <3>1. u = [t EXCEPT !.step = "answered", !.value = stored.value]
      BY <2>2 DEF Lookups!Answered
    <3>2. u \in LookupTasks /\ u.step = "answered" /\ u.kind = k /\ u.value = stored.value /\ u.of = own
      BY <1>4, <1>5, <3>1 DEF LookupTasks
    <3> QED BY <1>3, <3>2 DEF TaskOK, Holds
  <2> QED BY <2>1, <2>2
<1> HIDE DEF u
<1>7. \A place \in PlaceNames : ~Holds(task[a], place)
  BY <1>1 DEF Holds
<1>8. HeldOK'
  BY <1>1, <1>6, <1>7, HeldSame DEF InfoInv
<1> QED BY <1>1, <1>6, <1>8, TaskKeeps, RowsKept DEF InfoInv, InfoTypes

LEMMA SharpEnoughKeeps ==
  ASSUME InfoInv, NEW a \in Askers, Lookups!SharpEnough(a)
  PROVE  InfoInv'
<1> DEFINE u == [task[a] EXCEPT !.step = "stores", !.outcome = "missing"]
<1>1. task' = [task EXCEPT ![a] = u] /\ task[a].step = "waits" /\ task[a].kind = "cover"
      /\ UNCHANGED <<enabled, today, online, own, present, row, held, tracks, check, sweep>>
  BY AskerKnown DEF Lookups!SharpEnough, InfoInv, InfoTypes
<1>2. u \in LookupTasks /\ u.step = "stores" /\ u.kind = "cover" /\ u.value = task[a].value /\ u.stored = task[a].stored
      /\ u.of = task[a].of
  BY <1>1, AskerKnown DEF LookupTasks, AnyOutcome
<1> HIDE DEF u
<1>3. TaskOK(u)
  BY <1>1, <1>2, AskerKnown DEF TaskOK
<1>4. \A place \in PlaceNames : ~Holds(task[a], place) /\ ~Holds(u, place)
  BY <1>1, <1>2 DEF Holds, Lookups!KeepsPlace
<1>5. HeldOK'
  BY <1>1, <1>2, <1>4, HeldSame DEF InfoInv
<1> QED BY <1>1, <1>2, <1>3, <1>5, TaskKeeps, RowsKept DEF InfoInv, InfoTypes

LEMMA TakePlaceKeeps ==
  ASSUME InfoInv, NEW a \in Askers, Lookups!TakePlace(a)
  PROVE  InfoInv'
<1> DEFINE u == [task[a] EXCEPT !.step = "asks"]
           q == Lookups!PlaceOf(task[a].kind)
<1>1. /\ task' = [task EXCEPT ![a] = u] /\ task[a].step = "waits"
      /\ held' = [held EXCEPT ![q] = @ + 1] /\ held[q] < Lookups!Room(q)
      /\ UNCHANGED <<enabled, today, online, own, present, row, tracks, check, sweep>>
  BY AskerKnown DEF Lookups!TakePlace, InfoInv, InfoTypes
<1>2. u \in LookupTasks /\ u.step = "asks" /\ u.kind = task[a].kind /\ u.value = task[a].value
      /\ u.stored = task[a].stored /\ u.of = task[a].of
  BY <1>1, AskerKnown DEF LookupTasks
<1> HIDE DEF u
<1>3. TaskOK(u)
  BY <1>1, <1>2, AskerKnown DEF TaskOK
<1>4. \A place \in PlaceNames : ~Holds(task[a], place) /\ (Holds(u, place) <=> place = q)
  BY <1>1, <1>2 DEF Holds
<1>5. q \in PlaceNames
  BY AskerKnown
<1>6. HeldOK'
  BY <1>1, <1>2, <1>4, <1>5, HeldTaken DEF InfoInv
<1>7. held' \in [PlaceNames -> Nat]
  BY <1>1, <1>5 DEF InfoInv, InfoTypes
<1> QED BY <1>1, <1>2, <1>3, <1>6, <1>7, TaskKeeps, RowsKept DEF InfoInv, InfoTypes

\* Whether a request holds a place, and which.
HoldsPlace(t) == t.step = "asks" \/ (t.step = "stores" /\ Lookups!KeepsPlace(t.kind))

LEMMA GivesBack ==
  ASSUME InfoInv, NEW a \in Askers, NEW t \in LookupTasks, task' = [task EXCEPT ![a] = t], UNCHANGED sweep,
         ~HoldsPlace(t), held' = IF HoldsPlace(task[a]) THEN Lookups!Freed(task[a]) ELSE held
  PROVE  HeldOK' /\ held' \in [PlaceNames -> Nat]
<1> DEFINE q == Lookups!PlaceOf(task[a].kind)
<1>1. q \in PlaceNames
  BY AskerKnown
<1>2. \A place \in PlaceNames : ~Holds(t, place) /\ (Holds(task[a], place) <=> place = q /\ HoldsPlace(task[a]))
  BY DEF Holds, HoldsPlace
<1>3. CASE HoldsPlace(task[a])
  <2>1. held' = [held EXCEPT ![q] = @ - 1]
    BY <1>3 DEF Lookups!Freed
  <2>2. \A place \in PlaceNames : ~Holds(t, place) /\ (Holds(task[a], place) <=> place = q)
    BY <1>2, <1>3
  <2> HIDE DEF q
  <2> QED BY <1>1, <2>1, <2>2, HeldFreed DEF InfoInv
<1>4. CASE ~HoldsPlace(task[a])
  <2>1. HeldOK'
    BY <1>2, <1>4, HeldSame DEF InfoInv
  <2> QED BY <1>4, <2>1 DEF InfoInv, InfoTypes
<1> QED BY <1>3, <1>4

LEMMA LookUpKeeps ==
  ASSUME InfoInv, NEW a \in Askers, Lookups!LookUp(a)
  PROVE  InfoInv'
<1>1. PICK outcome \in Lookups!Outcomes : task' = [task EXCEPT ![a] = Lookups!Settled(task[a], outcome)]
  BY AskerKnown DEF Lookups!LookUp, InfoInv, InfoTypes
<1> DEFINE u == Lookups!Settled(task[a], outcome)
           found == IF outcome = "found" THEN [edition |-> online, of |-> task[a].of] ELSE Lookups!Nothing
<1>2. /\ task[a].step = "asks"
      /\ held' = IF Lookups!KeepsPlace(task[a].kind) THEN held ELSE Lookups!Freed(task[a])
      /\ UNCHANGED <<enabled, today, online, own, present, row, tracks, check, sweep>>
  BY DEF Lookups!LookUp
<1>3. found \in FoundValues /\ (found # NotFound => outcome = "found" /\ found.of = task[a].of)
      /\ outcome \in AnyOutcome
  <2>1. online \in Nat /\ task[a].of \in Nat
    BY AskerKnown DEF InfoInv, InfoTypes, LookupTasks
  <2> QED BY <2>1, InfoKnown DEF FoundValues, Lookups!Outcomes, AnyOutcome
<1> HIDE DEF found
<1>4. u = [task[a] EXCEPT !.step = "stores", !.outcome = outcome, !.value = found]
  BY DEF Lookups!Settled, found
<1>5. u \in LookupTasks /\ u.step = "stores" /\ u.kind = task[a].kind /\ u.value = found
      /\ u.stored = task[a].stored /\ u.of = task[a].of /\ u.outcome = outcome
  BY <1>3, <1>4, AskerKnown DEF LookupTasks
<1> HIDE DEF u
<1>6. TaskOK(u)
  BY <1>2, <1>3, <1>5, AskerKnown DEF TaskOK
<1>7. HeldOK' /\ held' \in [PlaceNames -> Nat]
  <2>1. CASE Lookups!KeepsPlace(task[a].kind)
    <3>1. \A place \in PlaceNames : Holds(u, place) <=> Holds(task[a], place)
      BY <1>2, <1>5, <2>1 DEF Holds
    <3>2. HeldOK'
      BY <1>1, <1>2, <1>5, <2>1, <3>1, HeldSame DEF InfoInv, u
    <3> QED BY <1>2, <2>1, <3>2 DEF InfoInv, InfoTypes
  <2>2. CASE ~Lookups!KeepsPlace(task[a].kind)
    BY <1>1, <1>2, <1>5, <2>2, GivesBack DEF HoldsPlace, u
  <2> QED BY <2>1, <2>2
<1> QED BY <1>1, <1>2, <1>5, <1>6, <1>7, TaskKeeps, RowsKept DEF u

\* What a request stores, over whatever is stored by then.
LEMMA StoreKeeps ==
  ASSUME InfoInv, NEW a \in Askers, Lookups!Store(a)
  PROVE  /\ InfoInv'
         /\ \A k \in LookupKinds : row'[k] # row[k] /\ row'[k].outcome = "failed" /\ row[k].value # NotFound =>
              row'[k].value = row[k].value \/ (task[a].step = "stores" /\ task[a].kind = k /\ task[a].stored # row[k])
<1> DEFINE t == task[a]
           value == Lookups!ValueToStore(t)
           got == IF present THEN value ELSE NotFound
           u == [t EXCEPT !.step = "answered", !.value = got]
           r == [outcome |-> t.outcome, value |-> value, at |-> today, of |-> t.of]
<1>1. /\ t.step = "stores" /\ held' = Lookups!FreedAtEnd(t)
      /\ UNCHANGED <<enabled, today, online, own, present, tracks, check, sweep>>
      /\ row' = IF present THEN [row EXCEPT ![t.kind] = r] ELSE row
  BY DEF Lookups!Store
<1>2. task' = [task EXCEPT ![a] = u]
  BY InfoKnown DEF Lookups!Store, Lookups!Answered, InfoInv, InfoTypes
<1>3. t \in LookupTasks /\ TaskOK(t) /\ t.kind \in LookupKinds /\ t.stored \in Rows /\ t.value \in FoundValues /\ t.of \in Nat
      /\ t.outcome \in AnyOutcome /\ row[t.kind] \in Rows /\ RowOK(t.kind, row[t.kind]) /\ today \in Nat
  BY <1>1, AskerKnown, InfoKnown DEF TaskOK, LookupTasks, InfoInv, InfoTypes, AskersOK
<1>4. /\ value \in FoundValues
      /\ ~Lookups!Refreshed(t.kind) => value = t.value
      /\ t.outcome = "failed" => value = t.stored.value \/ ~Lookups!Refreshed(t.kind) \/ t.stored.value = NotFound
      /\ t.kind = "cover" => ~Lookups!Refreshed(t.kind)
  BY <1>3, InfoKnown DEF Lookups!ValueToStore, Rows, Lookups!Refreshed
<1> HIDE DEF value
<1>5. got \in FoundValues /\ (t.kind = "cover" /\ got # NotFound => got.of = t.of)
  BY <1>3, <1>4, InfoKnown DEF TaskOK
<1>6. u \in LookupTasks /\ u.step = "answered" /\ u.kind = t.kind /\ u.value = got /\ u.of = t.of
  <2> HIDE DEF got
  <2> QED BY <1>3, <1>5 DEF LookupTasks
<1>7. r \in Rows /\ RowOK(t.kind, r)
  <2>1. r \in Rows
    BY <1>3, <1>4 DEF Rows
  <2>2. r.value = value /\ r.outcome = t.outcome /\ r.of = t.of
    OBVIOUS
  <2> QED BY <1>1, <1>3, <1>4, <2>1, <2>2 DEF RowOK, TaskOK
<1>8. /\ row' \in [LookupKinds -> Rows]
      /\ \A k \in LookupKinds : RowOK(k, row'[k])
      /\ \A k \in LookupKinds : row'[k] # row[k] => k = t.kind /\ row'[k] = r
  <2> HIDE DEF r
  <2>1. row \in [LookupKinds -> Rows] /\ \A k \in LookupKinds : RowOK(k, row[k])
    BY DEF InfoInv, InfoTypes, AskersOK
  <2> QED BY <1>1, <1>3, <1>7, <2>1
<1>9. TaskOK(u)
  <2> HIDE DEF u, got
  <2> QED BY <1>3, <1>5, <1>6 DEF TaskOK
<1>10. HeldOK' /\ held' \in [PlaceNames -> Nat]
  <2> HIDE DEF u
  <2> QED BY <1>1, <1>2, <1>6, GivesBack DEF HoldsPlace, Lookups!FreedAtEnd
<1>11. InfoInv'
  <2> HIDE DEF u
  <2> QED BY <1>1, <1>2, <1>6, <1>8, <1>9, <1>10, TaskKeeps
<1>12. ASSUME NEW j \in LookupKinds, row'[j] # row[j], row'[j].outcome = "failed", row[j].value # NotFound, t.stored = row[j]
       PROVE  row'[j].value = row[j].value
  <2>1. j = t.kind /\ row'[j].value = value /\ t.outcome = "failed"
    BY <1>8, <1>12
  <2>2. Lookups!Refreshed(j)
    BY <1>1, <1>3, <1>12, <2>1 DEF RowOK, TaskOK
  <2> QED BY <1>4, <1>12, <2>1, <2>2
<1>13. \A k \in LookupKinds : row'[k] # row[k] => k = t.kind
  BY <1>8
<1> QED BY <1>1, <1>11, <1>12, <1>13

\* Requests that end without storing.
LEMMA EndsKeep ==
  ASSUME InfoInv, NEW a \in Askers, Lookups!Leave(a) \/ Lookups!BudgetSpent(a) \/ Lookups!Forget(a)
  PROVE  InfoInv'
<1>1. ASSUME NEW u \in LookupTasks, TaskOK(u), ~HoldsPlace(u), task' = [task EXCEPT ![a] = u],
             held' = IF HoldsPlace(task[a]) THEN Lookups!Freed(task[a]) ELSE held,
             UNCHANGED <<enabled, today, online, own, present, row, tracks, check, sweep>>
      PROVE  InfoInv'
  BY <1>1, GivesBack, TaskKeeps, RowsKept
<1>2. CASE Lookups!Leave(a)
  <2>1. held' = IF HoldsPlace(task[a]) THEN Lookups!Freed(task[a]) ELSE held
    BY <1>2 DEF Lookups!Leave, HoldsPlace, Lookups!FreedAtEnd
  <2> QED BY <1>1, <1>2, <2>1, IdleKnown DEF Lookups!Leave, HoldsPlace
<1>3. CASE Lookups!BudgetSpent(a)
  <2> DEFINE value == row["counts"].value
             u == [task[a] EXCEPT !.step = "answered", !.value = value]
  <2>1. /\ task[a].kind = "counts" /\ task[a].step \in {"waits", "asks"}
        /\ held' = IF task[a].step = "asks" THEN Lookups!Freed(task[a]) ELSE held
        /\ UNCHANGED <<enabled, today, online, own, present, row, tracks, check, sweep>>
    BY <1>3 DEF Lookups!BudgetSpent
  <2>2. task' = [task EXCEPT ![a] = u]
    BY <1>3 DEF Lookups!BudgetSpent, Lookups!Answered, InfoInv, InfoTypes
  <2>3. "counts" \in LookupKinds /\ value \in FoundValues
    BY <2>1, AskerKnown DEF TaskOK, InfoInv, InfoTypes, Rows
  <2> HIDE DEF value
  <2>4. u \in LookupTasks /\ u.step = "answered" /\ u.kind = "counts"
    BY <2>1, <2>3, AskerKnown DEF LookupTasks
  <2> HIDE DEF u
  <2>5. TaskOK(u) /\ ~HoldsPlace(u)
    BY <2>3, <2>4 DEF TaskOK, HoldsPlace
  <2>6. held' = IF HoldsPlace(task[a]) THEN Lookups!Freed(task[a]) ELSE held
    BY <2>1 DEF HoldsPlace
  <2> QED BY <1>1, <2>1, <2>2, <2>4, <2>5, <2>6
<1>4. CASE Lookups!Forget(a)
  BY <1>1, <1>4, IdleKnown DEF Lookups!Forget, HoldsPlace
<1> QED BY <1>2, <1>3, <1>4

\* A step of the sweep, which reaches none of the requests.
LEMMA SweepKeeps ==
  ASSUME InfoInv, UNCHANGED <<enabled, today, online, own, present, row, task>>,
         HeldOK', held' \in [PlaceNames -> Nat], SweepOK',
         tracks' \in [Tracks -> {"absent", "plain", "explicit", "gone"}],
         check' \in [outcome : AnyOutcome, at : Nat, seen : SUBSET Tracks],
         sweep' \in [step : {"idle", "waits"} \cup SweepSteps, then : {<<>>, <<"checks">>}, seen : SUBSET Tracks,
                     outcome : AnyOutcome]
  PROVE  InfoInv'
<1>1. InfoTypes'
  BY DEF InfoInv, InfoTypes
<1>2. AskersOK'
  BY DEF InfoInv, AskersOK, RowOK, TaskOK
<1> QED BY <1>1, <1>2 DEF InfoInv

Sweeps == [step : {"idle", "waits"} \cup SweepSteps, then : {<<>>, <<"checks">>}, seen : SUBSET Tracks,
           outcome : AnyOutcome]

LEMMA NoSweepKnown ==
  /\ Lookups!NoSweep \in Sweeps /\ Lookups!NoSweep.step = "idle" /\ Lookups!NoSweep.seen = {}
  /\ Lookups!NoCheck \in [outcome : AnyOutcome, at : Nat, seen : SUBSET Tracks]
  /\ Lookups!NoCheck.outcome = "none" /\ Lookups!NoCheck.seen = {}
<1> DEFINE s == [step |-> "idle", then |-> <<>>, seen |-> {}, outcome |-> "none"]
<1>1. Lookups!NoSweep = s /\ s.step = "idle" /\ s.seen = {}
  BY DEF Lookups!NoSweep
<1>2. s \in Sweeps
  BY DEF Sweeps, AnyOutcome
<1> QED BY <1>1, <1>2 DEF Lookups!NoCheck, AnyOutcome

\* A sweep that ends gives its place back.
LEMMA SweepEndsKeep ==
  ASSUME InfoInv, UNCHANGED <<enabled, today, online, own, present, row, task>>,
         sweep.step \in SweepSteps, Lookups!SweepEnds,
         tracks' \in [Tracks -> {"absent", "plain", "explicit", "gone"}],
         check' \in [outcome : AnyOutcome, at : Nat, seen : SUBSET Tracks],
         \A t \in check'.seen : tracks'[t] # "absent",
         check'.outcome = "found" => \A t \in check'.seen : tracks'[t] # "plain"
  PROVE  InfoInv'
<1>1. sweep' = Lookups!NoSweep /\ held' = [held EXCEPT !["deezer"] = @ - 1]
  BY DEF Lookups!SweepEnds
<1>2. sweep' \in Sweeps /\ sweep'.step = "idle" /\ sweep'.seen = {}
  BY <1>1, NoSweepKnown
<1>3. HeldOK' /\ held' \in [PlaceNames -> Nat]
  BY <1>1, <1>2, HeldBySweep DEF InfoInv, SweepSteps
<1>4. SweepOK'
  BY <1>2 DEF SweepOK
<1> QED BY <1>2, <1>3, <1>4, SweepKeeps DEF Sweeps

LEMMA SweepKnown ==
  ASSUME InfoInv
  PROVE  /\ sweep \in Sweeps
         /\ tracks \in [Tracks -> {"absent", "plain", "explicit", "gone"}]
         /\ check \in [outcome : AnyOutcome, at : Nat, seen : SUBSET Tracks]
         /\ check.seen \subseteq Tracks /\ sweep.seen \subseteq Tracks /\ SweepOK
BY DEF InfoInv, InfoTypes, Sweeps

LEMMA SweepStarts ==
  ASSUME InfoInv, Lookups!BeginSweep \/ Lookups!SweepTakesPlace \/ Lookups!SweepLooksUp
  PROVE  InfoInv'
<1>1. CASE Lookups!BeginSweep
  <2> DEFINE seen == {t \in Tracks : Lookups!Present(t)}
             s == [Lookups!NoSweep EXCEPT !.step = "waits", !.seen = seen]
  <2>1. sweep' = s /\ sweep.step = "idle" /\ check.outcome # "found"
        /\ UNCHANGED <<enabled, today, online, own, present, row, task, held, tracks, check>>
    BY <1>1 DEF Lookups!BeginSweep, Lookups!IsDue
  <2>2. seen \subseteq Tracks /\ \A t \in seen : tracks[t] # "absent"
    BY DEF Lookups!Present
  <2> HIDE DEF seen
  <2>3. s \in Sweeps /\ s.step = "waits" /\ s.seen = seen
    BY <2>2, NoSweepKnown DEF Sweeps
  <2> HIDE DEF s
  <2>4. SweepOK'
    BY <2>1, <2>2, <2>3, SweepKnown DEF SweepOK
  <2>5. HeldOK' /\ held' \in [PlaceNames -> Nat]
    BY <2>1, <2>3, HeldBySweep DEF InfoInv, SweepSteps
  <2> QED BY <2>1, <2>3, <2>4, <2>5, SweepKnown, SweepKeeps DEF Sweeps
<1>2. CASE Lookups!SweepTakesPlace
  <2>1. /\ sweep.step = "waits" /\ sweep' = [sweep EXCEPT !.step = "asks"]
        /\ held' = [held EXCEPT !["deezer"] = @ + 1] /\ held["deezer"] < Places
        /\ UNCHANGED <<enabled, today, online, own, present, row, task, tracks, check>>
    BY <1>2 DEF Lookups!SweepTakesPlace
  <2>2. sweep' \in Sweeps /\ sweep'.step = "asks" /\ sweep'.seen = sweep.seen
    BY <2>1, SweepKnown DEF Sweeps, SweepSteps
  <2>3. SweepOK'
    BY <2>1, <2>2, SweepKnown DEF SweepOK
  <2>4. HeldOK' /\ held' \in [PlaceNames -> Nat]
    BY <2>1, <2>2, HeldBySweep DEF InfoInv, SweepSteps
  <2> QED BY <2>1, <2>2, <2>3, <2>4, SweepKnown, SweepKeeps DEF Sweeps
<1>3. CASE Lookups!SweepLooksUp
  <2>1. PICK outcome \in Lookups!Outcomes : sweep' = Lookups!Rest(sweep, Lookups!AfterLookup(outcome), outcome)
    BY <1>3 DEF Lookups!SweepLooksUp
  <2>2. sweep.step = "asks"
        /\ UNCHANGED <<enabled, today, online, own, present, row, task, held, tracks, check>>
    BY <1>3 DEF Lookups!SweepLooksUp
  <2>3. PICK first \in {"marks", "checks"}, after \in {<<>>, <<"checks">>} :
          /\ sweep' = [sweep EXCEPT !.step = first, !.then = after, !.outcome = outcome]
          /\ first = "marks" => after = <<"checks">>
          /\ first = "checks" => after = <<>> /\ outcome # "found"
    <3>1. CASE outcome = "found"
      <4>1. Head(<<"marks", "checks">>) = "marks" /\ Tail(<<"marks", "checks">>) = <<"checks">>
        OBVIOUS
      <4>2. sweep' = [sweep EXCEPT !.step = "marks", !.then = <<"checks">>, !.outcome = outcome]
        BY <2>1, <3>1, <4>1 DEF Lookups!Rest, Lookups!AfterLookup
      <4> QED BY <4>2
    <3>2. CASE outcome # "found"
      <4>1. Head(<<"checks">>) = "checks" /\ Tail(<<"checks">>) = <<>>
        OBVIOUS
      <4>2. sweep' = [sweep EXCEPT !.step = "checks", !.then = <<>>, !.outcome = outcome]
        BY <2>1, <3>2, <4>1 DEF Lookups!Rest, Lookups!AfterLookup
      <4> QED BY <3>2, <4>2
    <3> QED BY <3>1, <3>2
  <2>4. /\ sweep' \in Sweeps /\ sweep'.step = first /\ sweep'.then = after /\ sweep'.seen = sweep.seen
        /\ sweep'.outcome = outcome
    BY <2>3, SweepKnown DEF Sweeps, SweepSteps, AnyOutcome, Lookups!Outcomes
  <2>5. SweepOK'
    BY <2>2, <2>3, <2>4, SweepKnown DEF SweepOK
  <2>6. HeldOK' /\ held' \in [PlaceNames -> Nat]
    BY <2>2, <2>4, HeldBySweep DEF InfoInv, SweepSteps
  <2> QED BY <2>2, <2>4, <2>5, <2>6, SweepKnown, SweepKeeps DEF Sweeps
<1> QED BY <1>1, <1>2, <1>3

\* The Tracks are marked before the check is stored.
LEMMA MarkKeeps ==
  ASSUME InfoInv, Lookups!Mark
  PROVE  InfoInv'
<1>1. /\ sweep.step = "marks" /\ sweep.then = <<"checks">> /\ check.outcome # "found"
      /\ UNCHANGED <<enabled, today, online, own, present, row, task, check>>
  BY SweepKnown DEF Lookups!Mark, SweepOK
<1>2. CASE \A t \in sweep.seen : Lookups!Present(t)
  <2>1. /\ tracks' = [t \in Tracks |-> IF ~Lookups!Present(t) THEN tracks[t]
                                       ELSE IF t \in sweep.seen THEN "explicit" ELSE "plain"]
        /\ Lookups!SweepGoesOn
    BY <1>2 DEF Lookups!Mark
  <2>2. /\ tracks' \in [Tracks -> {"absent", "plain", "explicit", "gone"}]
        /\ \A t \in Tracks : tracks[t] # "absent" => tracks'[t] # "absent"
        /\ \A t \in sweep.seen : tracks'[t] = "explicit"
    BY <1>2, <2>1, SweepKnown
  <2>3. sweep' = [sweep EXCEPT !.step = "checks", !.then = <<>>, !.outcome = sweep.outcome] /\ held' = held
    <3>1. Head(<<"checks">>) = "checks" /\ Tail(<<"checks">>) = <<>> /\ <<"checks">> # <<>>
      OBVIOUS
    <3> QED BY <1>1, <2>1, <3>1 DEF Lookups!SweepGoesOn, Lookups!Rest
  <2>4. /\ sweep' \in Sweeps /\ sweep'.step = "checks" /\ sweep'.then = <<>> /\ sweep'.seen = sweep.seen
    BY <2>3, SweepKnown DEF Sweeps, SweepSteps
  <2>5. SweepOK'
    BY <1>1, <2>2, <2>4, SweepKnown DEF SweepOK
  <2>6. HeldOK' /\ held' \in [PlaceNames -> Nat]
    BY <1>1, <2>3, <2>4, HeldBySweep DEF InfoInv, SweepSteps
  <2> QED BY <1>1, <2>2, <2>4, <2>5, <2>6, SweepKnown, SweepKeeps DEF Sweeps
<1>3. CASE ~\A t \in sweep.seen : Lookups!Present(t)
  <2>1. Lookups!SweepEnds /\ UNCHANGED tracks
    BY <1>3 DEF Lookups!Mark
  <2> QED BY <1>1, <2>1, SweepEndsKeep, SweepKnown DEF SweepSteps, SweepOK
<1> QED BY <1>2, <1>3

LEMMA CheckKeeps ==
  ASSUME InfoInv, Lookups!Check
  PROVE  InfoInv'
<1>1. /\ sweep.step = "checks" /\ sweep.then = <<>> /\ check.outcome # "found" /\ Lookups!SweepEnds
      /\ UNCHANGED <<enabled, today, online, own, present, row, task, tracks>>
  BY SweepKnown DEF Lookups!Check, SweepOK, Lookups!SweepGoesOn
<1> DEFINE stored == [outcome |-> sweep.outcome, at |-> today, seen |-> sweep.seen]
<1>2. check' = stored \/ check' = check
  BY DEF Lookups!Check
<1>3. stored \in [outcome : AnyOutcome, at : Nat, seen : SUBSET Tracks]
  <2>1. today \in Nat /\ sweep.outcome \in AnyOutcome /\ sweep.seen \in SUBSET Tracks
    BY SweepKnown, InfoKnown DEF InfoInv, InfoTypes, Sweeps
  <2> QED BY <2>1
<1>4. stored.outcome = sweep.outcome /\ stored.seen = sweep.seen
  OBVIOUS
<1> HIDE DEF stored
<1>5. /\ \A t \in check'.seen : tracks'[t] # "absent"
      /\ check'.outcome = "found" => \A t \in check'.seen : tracks'[t] # "plain"
  BY <1>1, <1>2, <1>4, SweepKnown DEF SweepOK
<1>6. check' \in [outcome : AnyOutcome, at : Nat, seen : SUBSET Tracks]
  BY <1>2, <1>3, SweepKnown
<1> QED BY <1>1, <1>5, <1>6, SweepEndsKeep, SweepKnown DEF SweepSteps

LEMMA TickKeeps ==
  ASSUME InfoInv, Lookups!Tick
  PROVE  InfoInv'
<1>1. today' \in 0..MaxTime
  BY InfoKnown DEF Lookups!Tick, InfoInv, InfoTypes
<1>2. UNCHANGED <<enabled, online, own, present, row, task, held, tracks, check, sweep>>
  BY DEF Lookups!Tick
<1>3. HeldOK'
  BY <1>2, HeldBySweep DEF InfoInv
<1>4. InfoTypes' /\ SweepOK' /\ AskersOK'
  BY <1>1, <1>2 DEF InfoInv, InfoTypes, SweepOK, AskersOK, RowOK, TaskOK
<1> QED BY <1>3, <1>4 DEF InfoInv

LEMMA ChangeKeeps ==
  ASSUME InfoInv, Lookups!Change
  PROVE  InfoInv'
<1>1. UNCHANGED <<enabled, today, task, held, sweep>>
  BY DEF Lookups!Change
<1>2. HeldOK'
  BY <1>1, HeldBySweep DEF InfoInv
<1>3. CASE (online' = online + 1 \/ own' = own + 1) /\ UNCHANGED <<present, row, tracks, check>>
           /\ online' \in {online, online + 1} /\ own' \in {own, own + 1}
  <2>1. online' \in Nat /\ own' \in Nat
    BY <1>3 DEF InfoInv, InfoTypes
  <2>2. InfoTypes' /\ SweepOK' /\ AskersOK'
    BY <1>1, <1>3, <2>1 DEF InfoInv, InfoTypes, SweepOK, AskersOK, RowOK, TaskOK
  <2> QED BY <1>2, <2>2 DEF InfoInv
<1>4. ASSUME NEW t \in Tracks, tracks' = [tracks EXCEPT ![t] = IF @ = "absent" THEN "plain" ELSE "gone"],
             UNCHANGED <<online, own, present, row, check>>
      PROVE  InfoInv'
  <2>1. /\ tracks' \in [Tracks -> {"absent", "plain", "explicit", "gone"}]
        /\ \A u \in Tracks : tracks[u] # "absent" => tracks'[u] = tracks[u] \/ tracks'[u] = "gone"
    BY <1>4, SweepKnown
  <2>2. SweepOK'
    BY <1>1, <1>4, <2>1, SweepKnown DEF SweepOK
  <2>3. InfoTypes' /\ AskersOK'
    BY <1>1, <1>4, <2>1 DEF InfoInv, InfoTypes, AskersOK, RowOK, TaskOK
  <2> QED BY <1>2, <2>2, <2>3 DEF InfoInv
<1>5. CASE /\ present' = FALSE /\ row' = [k \in LookupKinds |-> Lookups!NoRow] /\ check' = Lookups!NoCheck
           /\ tracks' = [t \in Tracks |-> "gone"] /\ UNCHANGED <<online, own>>
  <2>1. row' \in [LookupKinds -> Rows] /\ \A k \in LookupKinds : RowOK(k, row'[k])
    BY <1>5, IdleKnown DEF RowOK
  <2>2. /\ tracks' \in [Tracks -> {"absent", "plain", "explicit", "gone"}]
        /\ \A t \in Tracks : tracks'[t] = "gone"
    BY <1>5
  <2>3. SweepOK'
    BY <1>1, <1>5, <2>2, NoSweepKnown, SweepKnown DEF SweepOK
  <2>4. InfoTypes'
    BY <1>1, <1>5, <2>1, <2>2, NoSweepKnown DEF InfoInv, InfoTypes
  <2>5. AskersOK'
    BY <1>1, <2>1 DEF InfoInv, AskersOK, RowOK, TaskOK
  <2> QED BY <1>2, <2>3, <2>4, <2>5 DEF InfoInv
<1> QED BY <1>3, <1>4, <1>5 DEF Lookups!Change

\* A restart takes the requests and the sweep, with their places.
LEMMA RestartKeeps ==
  ASSUME InfoInv, Lookups!Restart
  PROVE  InfoInv'
<1>1. /\ task' = [a \in Askers |-> Lookups!Idle] /\ held' = [place \in DOMAIN held |-> 0] /\ sweep' = Lookups!NoSweep
      /\ UNCHANGED <<enabled, today, online, own, present, row, tracks, check>>
  BY DEF Lookups!Restart
<1>2. task' \in [Askers -> LookupTasks] /\ \A a \in Askers : TaskOK(task'[a])
  BY <1>1, IdleKnown
<1>3. held' \in [PlaceNames -> Nat] /\ \A place \in PlaceNames : held'[place] = 0
  BY <1>1 DEF InfoInv, InfoTypes
<1>4. HeldOK'
  <2> SUFFICES ASSUME NEW place \in PlaceNames
               PROVE /\ held'[place] = Cardinality(Holding(place)') + BySweep(place)'
                     /\ held'[place] <= Lookups!Room(place)
    BY DEF HeldOK
  <2>1. Holding(place)' = {}
    <3>1. Holding(place)' = {a \in Askers : Holds(task'[a], place)}
      BY DEF Holding, Holds
    <3> QED BY <1>1, <3>1, IdleKnown
  <2>2. BySweep(place)' = 0
    BY <1>1, NoSweepKnown DEF BySweep, SweepSteps
  <2>3. Lookups!Room(place) \in Nat
    BY InfoKnown DEF Lookups!Room
  <2> QED BY <1>3, <2>1, <2>2, <2>3, FS_EmptySet
<1>5. SweepOK'
  BY <1>1, NoSweepKnown, SweepKnown DEF SweepOK
<1>6. InfoTypes'
  BY <1>1, <1>2, <1>3, NoSweepKnown DEF InfoInv, InfoTypes, Sweeps
<1>7. AskersOK'
  BY <1>1, <1>2 DEF InfoInv, AskersOK, RowOK, TaskOK
<1> QED BY <1>4, <1>5, <1>6, <1>7 DEF InfoInv

LEMMA InfoInit == Lookups!Init => InfoInv
<1> SUFFICES ASSUME Lookups!Init PROVE InfoInv
  OBVIOUS
<1>1. row \in [LookupKinds -> Rows] /\ \A k \in LookupKinds : RowOK(k, row[k])
  BY IdleKnown DEF Lookups!Init, RowOK
<1>2. task \in [Askers -> LookupTasks] /\ \A a \in Askers : TaskOK(task[a]) /\ \A place \in PlaceNames : ~Holds(task[a], place)
  BY IdleKnown DEF Lookups!Init
<1>3. held \in [PlaceNames -> Nat] /\ \A place \in PlaceNames : held[place] = 0
  BY DEF Lookups!Init, PlaceNames
<1>4. sweep = Lookups!NoSweep /\ check = Lookups!NoCheck
      /\ tracks \in [Tracks -> {"absent", "plain", "explicit", "gone"}]
  <2>1. tracks \in [Tracks -> {"absent", "plain"}]
    BY DEF Lookups!Init
  <2> QED BY <2>1 DEF Lookups!Init
<1>5. InfoTypes
  BY <1>1, <1>2, <1>3, <1>4, NoSweepKnown, InfoKnown DEF InfoTypes, Sweeps, Lookups!Init
<1>6. HeldOK
  <2> SUFFICES ASSUME NEW place \in PlaceNames
               PROVE /\ held[place] = Cardinality(Holding(place)) + BySweep(place)
                     /\ held[place] <= Lookups!Room(place)
    BY DEF HeldOK
  <2>1. Holding(place) = {}
    BY <1>2 DEF Holding
  <2>2. BySweep(place) = 0
    BY <1>4, NoSweepKnown DEF BySweep, SweepSteps
  <2>3. Lookups!Room(place) \in Nat
    BY InfoKnown DEF Lookups!Room
  <2> QED BY <1>3, <2>1, <2>2, <2>3, FS_EmptySet
<1>7. SweepOK
  BY <1>4, NoSweepKnown DEF SweepOK
<1> QED BY <1>1, <1>2, <1>5, <1>6, <1>7 DEF InfoInv, AskersOK

LEMMA InfoNext == InfoInv /\ [Lookups!Next]_(Lookups!vars) => InfoInv'
<1> SUFFICES ASSUME InfoInv, [Lookups!Next]_(Lookups!vars) PROVE InfoInv'
  OBVIOUS
<1>1. CASE UNCHANGED Lookups!vars
  <2>1. HeldOK'
    BY <1>1, HeldBySweep DEF Lookups!vars, InfoInv
  <2>2. InfoTypes' /\ SweepOK' /\ AskersOK'
    BY <1>1 DEF Lookups!vars, InfoInv, InfoTypes, SweepOK, AskersOK, RowOK, TaskOK
  <2> QED BY <2>1, <2>2 DEF InfoInv
<1>2. ASSUME NEW a \in Askers, NEW k \in LookupKinds, Lookups!Ask(a, k)
      PROVE  InfoInv'
  BY <1>2, AskAnswers
<1>3. ASSUME NEW a \in Askers, \/ Lookups!SharpEnough(a) \/ Lookups!Progress(a) \/ Lookups!Leave(a)
                               \/ Lookups!BudgetSpent(a) \/ Lookups!Forget(a)
      PROVE  InfoInv'
  BY <1>3, SharpEnoughKeeps, TakePlaceKeeps, LookUpKeeps, StoreKeeps, EndsKeep DEF Lookups!Progress
<1>4. CASE \/ Lookups!BeginSweep \/ Lookups!SweepTakesPlace \/ Lookups!SweepLooksUp \/ Lookups!Mark \/ Lookups!Check
           \/ Lookups!Tick \/ Lookups!Change \/ Lookups!Restart
  BY <1>4, SweepStarts, MarkKeeps, CheckKeeps, TickKeeps, ChangeKeeps, RestartKeeps
<1> QED BY <1>1, <1>2, <1>3, <1>4 DEF Lookups!Next

LEMMA InfoImplied ==
  ASSUME InfoInv
  PROVE  Lookups!TypeOK /\ Lookups!CoverStandsIn /\ Lookups!MarkedWhenChecked
<1>1. Lookups!TypeOK
  <2>1. /\ enabled \in BOOLEAN /\ present \in BOOLEAN /\ today \in 0..MaxTime /\ online \in Nat /\ own \in Nat
        /\ tracks \in [Tracks -> {"absent", "plain", "explicit", "gone"}]
        /\ sweep.step \in {"idle", "waits", "asks", "marks", "checks"}
    BY DEF InfoInv, InfoTypes, SweepSteps
  <2>2. \A k \in LookupKinds : row[k].outcome \in Lookups!Outcomes \cup {"none"} /\ row[k].value \in Lookups!Values
    BY DEF InfoInv, InfoTypes, Rows, Lookups!Outcomes, AnyOutcome, FoundValues, Lookups!Values
  <2>3. \A a \in Askers : task[a].step \in {"idle", "waits", "asks", "stores", "answered"} /\ task[a].kind \in Lookups!AllKinds
    BY DEF InfoInv, InfoTypes, LookupTasks
  <2>4. \A place \in DOMAIN held : held[place] \in 0..Lookups!Room(place)
    <3>1. \A place \in PlaceNames : Lookups!Room(place) \in Nat
      BY InfoKnown DEF Lookups!Room
    <3> QED BY <3>1 DEF InfoInv, InfoTypes, HeldOK
  <2> QED BY <2>1, <2>2, <2>3, <2>4 DEF Lookups!TypeOK
<1>2. Lookups!CoverStandsIn
  BY InfoKnown DEF Lookups!CoverStandsIn, InfoInv, AskersOK, TaskOK
<1>3. Lookups!MarkedWhenChecked
  BY DEF Lookups!MarkedWhenChecked, InfoInv, SweepOK
<1> QED BY <1>1, <1>2, <1>3

\* Only `Store` and the end of the Artist change a row.
LEMMA FailureKeeps ==
  ASSUME InfoInv, [Lookups!Next]_(Lookups!vars)
  PROVE  Lookups!FailureKeepsTheList
<1> SUFFICES ASSUME NEW j \in LookupKinds, present', row'[j] # row[j], row'[j].outcome = "failed", row[j].value # NotFound
             PROVE  \/ row'[j].value = row[j].value
                    \/ \E a \in Askers : task[a].step = "stores" /\ task[a].kind = j /\ task[a].stored # row[j]
  BY InfoKnown DEF Lookups!FailureKeepsTheList
<1>1. row' # row
  OBVIOUS
<1>2. CASE \E a \in Askers : Lookups!Store(a)
  BY <1>2, StoreKeeps
<1>3. ASSUME NEW a \in Askers, NEW k \in LookupKinds, Lookups!Ask(a, k)
      PROVE  FALSE
  BY <1>1, <1>3 DEF Lookups!Ask
<1>4. ASSUME NEW a \in Askers, \/ Lookups!SharpEnough(a) \/ Lookups!TakePlace(a) \/ Lookups!LookUp(a) \/ Lookups!Leave(a)
                               \/ Lookups!BudgetSpent(a) \/ Lookups!Forget(a)
      PROVE  FALSE
  BY <1>1, <1>4 DEF Lookups!SharpEnough, Lookups!TakePlace, Lookups!LookUp, Lookups!Leave, Lookups!BudgetSpent, Lookups!Forget
<1>5. CASE \/ Lookups!BeginSweep \/ Lookups!SweepTakesPlace \/ Lookups!SweepLooksUp \/ Lookups!Mark \/ Lookups!Check
           \/ Lookups!Tick \/ Lookups!Change \/ Lookups!Restart \/ UNCHANGED Lookups!vars
  BY <1>1, <1>5 DEF Lookups!BeginSweep, Lookups!SweepTakesPlace, Lookups!SweepLooksUp, Lookups!Mark, Lookups!Check,
     Lookups!Tick, Lookups!Change, Lookups!Restart, Lookups!vars
<1> QED BY <1>2, <1>3, <1>4, <1>5 DEF Lookups!Next, Lookups!Progress

\* LookupsAreKept for any number of requests, Tracks, changes of the library and of what
\* is online, and restarts: no more places are taken than there are, a cover stands in
\* only for the one it was found for, no failed lookup takes away a list its request knew
\* of, and an Album is stored as checked only with its Tracks marked
\* (artist_info/service.rs, photo and its like, sharper_cover, mark_explicit_tracks).
THEOREM LookupsKept ==
  /\ Lookups!Spec => [](Lookups!TypeOK /\ Lookups!CoverStandsIn /\ Lookups!MarkedWhenChecked)
  /\ Lookups!Spec => [][Lookups!FailureKeepsTheList]_(Lookups!vars)
  /\ Lookups!Spec => LookupsAreKept
<1> DEFINE Sound == Lookups!TypeOK /\ Lookups!CoverStandsIn /\ Lookups!MarkedWhenChecked
<1>1. Lookups!Init => InfoInv
  BY InfoInit
<1>2. InfoInv /\ [Lookups!Next]_(Lookups!vars) => InfoInv'
  BY InfoNext
<1>3. InfoInv => Sound
  BY InfoImplied
<1>4. InfoInv /\ [Lookups!Next]_(Lookups!vars) => Lookups!FailureKeepsTheList
  BY FailureKeeps
<1>5. Lookups!Spec => []InfoInv
  BY <1>1, <1>2, PTL DEF Lookups!Spec
<1>6. Lookups!Spec => []Sound
  BY <1>3, <1>5, PTL
<1>7. Lookups!Spec => [][Lookups!FailureKeepsTheList]_(Lookups!vars)
  BY <1>4, <1>5, PTL DEF Lookups!Spec
<1>8. Sound => (part \in {"artist", "sweep"} => Sound)
  OBVIOUS
<1>9. Lookups!Spec => [](part \in {"artist", "sweep"} => Sound)
  BY <1>6, <1>8, PTL
<1>10. InfoInv /\ [Lookups!Next]_(Lookups!vars) => [(part \in {"artist", "sweep"}) => Lookups!FailureKeepsTheList]_artistVars
  BY <1>4
<1>11. Lookups!Spec => [][(part \in {"artist", "sweep"}) => Lookups!FailureKeepsTheList]_artistVars
  BY <1>5, <1>10, PTL DEF Lookups!Spec
<1> QED BY <1>6, <1>7, <1>9, <1>11, PTL DEF LookupsAreKept
=============================================================================
