--------------------------- MODULE ExternalSource ---------------------------
(***************************************************************************)
(* The External Source of the Music Server: searches and resolutions run   *)
(* by yt-dlp, a bounded cache of resolved URLs, resolutions shared by the  *)
(* requests that wait for them, and the request headers kept for the       *)
(* segments of an HLS playlist.  src/server/src/modules/external_source.   *)
(*                                                                         *)
(* A request is an async task on a multi-threaded runtime; it stops at     *)
(* each await and between two lock sections, and it may be dropped at an   *)
(* await when its client goes away.  Times are what is left of a lifetime  *)
(* or how old a thing is, so the clock itself needs no bound.              *)
(***************************************************************************)
EXTENDS Integers, FiniteSets, Functions

CONSTANTS
  Ids,           \* External Track ids the searches can find
  HlsIds,        \* the ones whose audio is an HLS playlist
  Requests,      \* requests being served at a time
  HeaderSets,    \* request headers yt-dlp may return with a URL
  Lifetimes,     \* for how long a site's URL may be good, or Forever
  Concurrency,   \* CONCURRENCY: yt-dlp runs at a time
  CacheCapacity, HlsCapacity,     \* CACHE_CAPACITY, HLS_HEADERS_CAPACITY
  CacheTtl, ExpiryMargin, RefusalGrace, TokenTtl, RunTimeout

VARIABLES
  running,   \* in_flight: id -> the resolution running for it
  cache,     \* entries: id -> the resolved URL, until it is evicted
  kept,      \* hls_headers: id -> the headers kept for its segments
  requests,  \* what each request is doing
  tokens,    \* id -> how long its newest resource tokens are valid
  evicted    \* ids whose kept headers had to make room (history)

vars == <<running, cache, kept, requests, tokens, evicted>>

Forever == CacheTtl + ExpiryMargin + 1     \* no expiry in the URL

\* Limits and times are natural numbers; a URL good for longer than the cache
\* ever looks is good Forever.
ConstantsOK ==
  /\ IsFiniteSet(Ids)
  /\ CacheCapacity \in Nat /\ HlsCapacity \in Nat
  /\ CacheTtl \in Nat /\ ExpiryMargin \in Nat /\ RefusalGrace \in Nat
  /\ TokenTtl \in Nat /\ RunTimeout \in Nat
  /\ Lifetimes \subseteq 0 .. Forever

NoHeaders == "none"                        \* an empty list of headers
Idle == [stage |-> "idle", kind |-> "none", id |-> "none", headers |-> NoHeaders, age |-> 0]

Least(a, b) == IF a < b THEN a ELSE b
Spend(left) == IF left = 0 THEN 0 ELSE left - 1
SpendGood(good) == IF good = Forever THEN Forever ELSE Spend(good)

\* cache_lifetime: CACHE_TTL, or less when the URL itself expires sooner.
CacheLifetime(good) ==
  IF good = Forever THEN CacheTtl
  ELSE Least(CacheTtl, IF good > ExpiryMargin THEN good - ExpiryMargin ELSE 0)

-----------------------------------------------------------------------------
(* The two stores: partial functions from ids, bounded by their capacity.  *)

Live(store) == {id \in DOMAIN store : store[id].left > 0}
Earliest(store, ids) == {id \in ids : \A other \in ids : store[id].left <= store[other].left}
Put(store, ids, id, entry) == [i \in ids \cup {id} |-> IF i = id THEN entry ELSE store[i]]

HasRoom(n) == n < CacheCapacity

\* insert_resolved_at: stale entries go, and one more when the cache is full,
\* whether or not it already holds this id.
CacheInsert(id, entry) ==
  LET live == Live(cache) IN
  IF HasRoom(Cardinality(live)) THEN cache' = Put(cache, live, id, entry)
  ELSE \E old \in Earliest(cache, live) : cache' = Put(cache, live \ {old}, id, entry)

\* Headers that are held already are not kept for longer.
KeepHeadersOnce(id, headers) ==
  LET live == Live(kept)
      entry == [headers |-> headers, left |-> TokenTtl]
  IN /\ kept' = IF id \in live THEN Restrict(kept, live) ELSE Put(kept, live, id, entry)
     /\ UNCHANGED evicted

\* keep_until: stale headers go, and the oldest when there is no room for an id
\* that is not held yet.
KeepHeaders(id, headers) ==
  LET live  == Live(kept)
      entry == [headers |-> headers, left |-> TokenTtl]
  IN IF id \in live \/ Cardinality(live) < HlsCapacity
     THEN kept' = Put(kept, live, id, entry) /\ UNCHANGED evicted
     ELSE \E old \in Earliest(kept, live) :
            /\ kept' = Put(kept, live \ {old}, id, entry)
            /\ evicted' = evicted \cup {old}

\* resource: the kept headers, else those the Track last resolved with, stale
\* or not, else none at all.
ResourceHeaders(id) ==
  IF id \in Live(kept) THEN kept[id].headers
  ELSE IF id \in DOMAIN cache THEN cache[id].headers ELSE NoHeaders

\* forget_refused: the Track's URL goes unless it was resolved moments ago.
Unrefused(id) ==
  IF id \in DOMAIN cache /\ cache[id].age >= RefusalGrace
  THEN Restrict(cache, DOMAIN cache \ {id}) ELSE cache

-----------------------------------------------------------------------------
(* Requests. *)

Become(r, request) == requests' = [requests EXCEPT ![r] = request]
Answer(r) == Become(r, Idle)
At(r, stage) == requests[r].stage = stage
Now(r, stage, headers) == [requests[r] EXCEPT !.stage = stage, !.headers = headers]

\* The permits of the semaphore that are out: resolutions and searches.
Turns == Cardinality({id \in DOMAIN running : running[id].stage = "running"})
         + Cardinality({r \in Requests : At(r, "searching")})

\* Search: a run of yt-dlp of the request's own, queued for its turn.
Search(r) ==
  /\ At(r, "idle")
  /\ Become(r, [Idle EXCEPT !.stage = "queued", !.kind = "search"])
  /\ UNCHANGED <<running, cache, kept, tokens, evicted>>

SearchTurn(r) ==
  /\ At(r, "queued") /\ Turns < Concurrency
  /\ Become(r, [requests[r] EXCEPT !.stage = "searching"])
  /\ UNCHANGED <<running, cache, kept, tokens, evicted>>

\* yt-dlp lists pages, each signed into an id; or it fails.
SearchEnds(r) ==
  /\ At(r, "searching")
  /\ Answer(r)
  /\ UNCHANGED <<running, cache, kept, tokens, evicted>>

SearchTimesOut(r) ==
  /\ requests[r].stage \in {"queued", "searching"} /\ requests[r].age = RunTimeout
  /\ Answer(r)
  /\ UNCHANGED <<running, cache, kept, tokens, evicted>>

\* playback, open_stream, playlist of an id this server signed: the cache
\* answers, or the request goes on to look for a running resolution.
Ask(r, kind, id) ==
  /\ At(r, "idle")
  /\ LET asked == [Idle EXCEPT !.kind = kind, !.id = id] IN
     IF id \in Live(cache)
     THEN Become(r, [asked EXCEPT !.stage = "resolved",
                                  !.headers = cache[id].headers])
     ELSE Become(r, [asked EXCEPT !.stage = "missed"])
  /\ UNCHANGED <<running, cache, kept, tokens, evicted>>

\* resolution: joins the one running or spawns one; under the in_flight lock,
\* and without looking into the cache again.
Resolution(r) ==
  /\ At(r, "missed")
  /\ LET id == requests[r].id IN
     running' = IF id \in DOMAIN running THEN running
                ELSE Put(running, DOMAIN running, id, [stage |-> "queued", ok |-> FALSE, headers |-> NoHeaders, age |-> 0])
  /\ Become(r, Now(r, "waiting", NoHeaders))
  /\ UNCHANGED <<cache, kept, tokens, evicted>>

\* Either the page plays as the request asked, or the client is told how it does.
Opened(r, id, kind) ==
  IF kind = "playback" \/ (kind = "stream" /\ id \in HlsIds) \/ (kind = "playlist" /\ id \notin HlsIds)
  THEN Answer(r)
  ELSE Become(r, [requests[r] EXCEPT !.stage = "fetching"])

Open(r) ==
  /\ At(r, "resolved")
  /\ Opened(r, requests[r].id, requests[r].kind)
  /\ UNCHANGED <<running, cache, kept, tokens, evicted>>

\* resource: a token of this Track that has not expired, with what headers there are.
Resource(r, id) ==
  /\ At(r, "idle") /\ tokens[id] > 0
  /\ Become(r, [Idle EXCEPT !.stage = "fetching", !.kind = "resource", !.id = id,
                            !.headers = ResourceHeaders(id)])
  /\ UNCHANGED <<running, cache, kept, tokens, evicted>>

\* The site answers: media is passed on, a playlist is read first.
FetchAnswers(r) ==
  /\ At(r, "fetching")
  /\ \/ requests[r].kind # "playlist" /\ Answer(r)
     \/ requests[r].kind # "stream" /\ Become(r, [requests[r] EXCEPT !.stage = "rewriting"])
  /\ UNCHANGED <<running, cache, kept, tokens, evicted>>

\* 401, 403, 404 or 410.
FetchRefused(r) ==
  /\ At(r, "fetching")
  /\ cache' = Unrefused(requests[r].id)
  /\ Answer(r)
  /\ UNCHANGED <<running, kept, tokens, evicted>>

\* rewrite: the playlist has been read; its URIs are signed, and the headers
\* it was fetched with are kept for as long as the signatures last.
Rewrite(r) ==
  /\ At(r, "rewriting")
  /\ LET request == requests[r] IN
     /\ tokens' = [tokens EXCEPT ![request.id] = TokenTtl]
     /\ KeepHeaders(request.id, request.headers)
  /\ Answer(r)
  /\ UNCHANGED <<running, cache>>

\* The client goes away, or a fetch or a playlist fails: the request is
\* dropped, its search with it; a resolution it started runs on.
Drop(r) ==
  /\ ~At(r, "idle")
  /\ Answer(r)
  /\ UNCHANGED <<running, cache, kept, tokens, evicted>>

-----------------------------------------------------------------------------
(* Resolutions, each on a task of its own. *)

RunTurn(id) ==
  /\ id \in DOMAIN running /\ running[id].stage = "queued" /\ Turns < Concurrency
  /\ running' = [running EXCEPT ![id].stage = "running"]
  /\ UNCHANGED <<cache, kept, requests, tokens, evicted>>

\* yt-dlp prints a URL: the permit is back and the URL is cached, but the
\* resolution is still the one to join.
RunResolves(id) ==
  /\ id \in DOMAIN running /\ running[id].stage = "running"
  /\ \E headers \in HeaderSets, good \in Lifetimes \cup {Forever} :
       /\ running' = [running EXCEPT ![id] = [@ EXCEPT !.stage = "ended", !.ok = TRUE, !.headers = headers]]
       /\ CacheInsert(id, [headers |-> headers, good |-> good, left |-> CacheLifetime(good), age |-> 0])
  /\ UNCHANGED <<kept, requests, tokens, evicted>>

\* yt-dlp fails, prints too much or nothing that plays, or takes too long in
\* the queue and in its run together; nothing is cached.
RunFails(id) ==
  /\ id \in DOMAIN running
  /\ running[id].stage = "running" \/ (running[id].stage = "queued" /\ running[id].age = RunTimeout)
  /\ running' = [running EXCEPT ![id].stage = "ended"]
  /\ UNCHANGED <<cache, kept, requests, tokens, evicted>>

\* The resolution leaves in_flight and everyone who joined it has its result.
RunLeaves(id) ==
  /\ id \in DOMAIN running /\ running[id].stage = "ended"
  /\ running' = Restrict(running, DOMAIN running \ {id})
  /\ requests' = [r \in Requests |->
       IF ~(At(r, "waiting") /\ requests[r].id = id) THEN requests[r]
       ELSE IF running[id].ok THEN Now(r, "resolved", running[id].headers) ELSE Idle]
  /\ UNCHANGED <<cache, kept, tokens, evicted>>

Tick ==
  /\ running' = [id \in DOMAIN running |-> [running[id] EXCEPT !.age = Least(@ + 1, RunTimeout)]]
  /\ cache' = [id \in DOMAIN cache |-> [cache[id] EXCEPT
       !.left = Spend(@), !.age = Least(@ + 1, RefusalGrace), !.good = SpendGood(@)]]
  /\ kept' = [id \in DOMAIN kept |-> [kept[id] EXCEPT !.left = Spend(@)]]
  /\ requests' = [r \in Requests |-> [requests[r] EXCEPT
       !.age = IF requests[r].stage \in {"queued", "searching"} THEN Least(@ + 1, RunTimeout) ELSE @]]
  /\ tokens' = [id \in Ids |-> Spend(tokens[id])]
  /\ UNCHANGED <<evicted>>

Init ==
  /\ tokens = [id \in Ids |-> 0] /\ evicted = {}
  /\ running = <<>> /\ cache = <<>> /\ kept = <<>>
  /\ requests = [r \in Requests |-> Idle]

RequestStep(r) ==
  \/ Search(r) \/ SearchTurn(r) \/ SearchEnds(r) \/ SearchTimesOut(r)
  \/ \E kind \in {"playback", "stream", "playlist"}, id \in Ids : Ask(r, kind, id)
  \/ \E id \in Ids : Resource(r, id)
  \/ Resolution(r) \/ Open(r) \/ FetchAnswers(r) \/ FetchRefused(r) \/ Rewrite(r) \/ Drop(r)

RunStep(id) == RunTurn(id) \/ RunResolves(id) \/ RunFails(id) \/ RunLeaves(id)

Next == (\E r \in Requests : RequestStep(r)) \/ (\E id \in Ids : RunStep(id)) \/ Tick

\* Time passes, a task that can go on is scheduled, and a run past its time is
\* ended by tokio::time::timeout; whether yt-dlp or a site ever answers is not assumed.
Fairness ==
  /\ WF_vars(Tick)
  /\ \A r \in Requests : WF_vars(Resolution(r)) /\ WF_vars(Open(r)) /\ WF_vars(SearchTimesOut(r))
  /\ \A id \in Ids : WF_vars(RunFails(id) /\ running[id].age = RunTimeout) /\ WF_vars(RunLeaves(id))

Spec == Init /\ [][Next]_vars /\ Fairness

-----------------------------------------------------------------------------
\* TypeOK: the state of the module; what is cached always has the headers a
\* resolution gave it.
TypeOK ==
  /\ evicted \subseteq Ids
  /\ DOMAIN running \subseteq Ids /\ DOMAIN cache \subseteq Ids /\ DOMAIN kept \subseteq Ids
  /\ \A id \in DOMAIN running : running[id] \in
       [stage : {"queued", "running", "ended"}, ok : BOOLEAN, headers : HeaderSets \cup {NoHeaders}, age : 0..RunTimeout]
  /\ \A id \in DOMAIN cache : cache[id] \in
       [headers : HeaderSets, good : 0..Forever, left : 0..CacheTtl, age : 0..RefusalGrace]
  /\ \A id \in DOMAIN kept : kept[id] \in [headers : HeaderSets \cup {NoHeaders}, left : 0..TokenTtl]
  /\ \A r \in Requests : requests[r].headers \in HeaderSets \cup {NoHeaders} /\ requests[r].age \in 0..RunTimeout
  /\ tokens \in [Ids -> 0..TokenTtl]

\* CachedUrlIsGood: whatever was resolved, evicted, refused or resolved again
\* meanwhile, the cache never answers with a URL that the site lets expire within
\* EXPIRY_MARGIN_SECONDS (cache_lifetime, ResolveCache::get).
CachedUrlIsGood == \A id \in Live(cache) : cache[id].good > ExpiryMargin

\* CacheIsBounded: CACHE_CAPACITY holds although a resolution that lost the race
\* with another's insertion inserts an id that is there already.
CacheIsBounded == Cardinality(DOMAIN cache) <= CacheCapacity

\* HeadersOutliveTokens: while a token issued in a Track's playlist can be used,
\* headers are kept for the Track for at least as long, however the playlists,
\* nested playlists and refusals of the Track interleave, unless they had to make
\* room for other Tracks (HlsHeaders: "kept as long as the resource tokens issued
\* in it are valid").
HeadersOutliveTokens ==
  \A id \in Ids \ evicted :
    tokens[id] > 0 => id \in Live(kept) /\ kept[id].left >= tokens[id]

\* What the External Source promises, all at once.
SourceStaysGood == TypeOK /\ CachedUrlIsGood /\ CacheIsBounded /\ HeadersOutliveTokens
=============================================================================
