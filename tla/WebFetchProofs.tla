--------------------------- MODULE WebFetchProofs ---------------------------
(***************************************************************************)
(* A theorem about WebFetch, for any pages, goroutines, limits and times:  *)
(* what a call returns is not older than the cache allows, however calls   *)
(* overlap and store over one another.                                     *)
(***************************************************************************)
EXTENDS WebFetch, TLAPS

\* A result that may be given for a key.
Fits(result, key) ==
    /\ result.mode = key.mode /\ result.chars = key.chars
    /\ result.at \in Nat
    /\ web[result.page].is \notin {"redirect", "error"}

\* An entry expires its life after it was stored, and the request that it is of
\* took FetchTime at most.
CacheInv ==
    \A k \in DOMAIN cache :
        /\ Fits(cache[k].result, k)
        /\ cache[k].expires \in Nat
        /\ cache[k].expires <= cache[k].result.at + FetchTime + CacheTTL

\* What a call knows at its steps.
Asks(r) ==
    r \in [pc : {"request"}, key : {r.key}, began : Nat, current : {r.current},
           hops : {r.hops}, sent : Nat, result : {r.result}]

Waits(r) ==
    /\ r \in [pc : {"answer"}, key : {r.key}, began : Nat, current : {r.current},
              hops : {r.hops}, sent : Nat, result : {r.result}]
    /\ r.sent <= second /\ second <= r.sent + FetchTime

Stores(r) ==
    /\ r \in [pc : {"store"}, key : {r.key}, began : Nat, current : {r.current},
              hops : {r.hops}, sent : Nat, result : {r.result}]
    /\ second <= r.sent + FetchTime
    /\ Fits(r.result, r.key) /\ r.sent <= r.result.at

Ended(r) ==
    /\ r \in [pc : {"returned"}, key : {r.key}, began : Nat, result : {r.result}]
    /\ r.result = NoResult \/ (/\ Fits(r.result, r.key)
                               /\ r.result.at + CacheTTL + FetchTime >= r.began)

FetchOK(r) ==
    \/ r = NoFetch
    \/ /\ r.began <= second
       /\ \/ Asks(r)
          \/ Waits(r) /\ r.began <= r.sent
          \/ Stores(r) /\ r.began <= r.sent
          \/ Ended(r)

WebInv ==
    /\ second \in Nat
    /\ CacheInv
    /\ fetch = [f \in Fetchers |-> fetch[f]]
    /\ \A f \in Fetchers : FetchOK(fetch[f])

\* The property follows: what has returned is as old as its entry at most.
LEMMA Implied == WebInv => FetchFresh
<1> SUFFICES ASSUME WebInv, NEW f \in Fetchers, fetch[f].pc = "returned",
                    fetch[f].result # NoResult
             PROVE  /\ fetch[f].result.mode = fetch[f].key.mode
                    /\ fetch[f].result.chars = fetch[f].key.chars
                    /\ fetch[f].result.at + CacheTTL + FetchTime >= fetch[f].began
                    /\ web[fetch[f].result.page].is \notin {"redirect", "error"}
  BY DEF FetchFresh, In
<1>1. Ended(fetch[f])
  BY DEF WebInv, FetchOK, NoFetch, Asks, Waits, Stores
<1> QED BY <1>1 DEF Ended, Fits

LEMMA WebInvInit == WebInit => WebInv
BY DEF WebInit, WebInv, CacheInv, FetchOK

\* One call takes a step, the clock stands still and the cache stays in order.
LEMMA CallStep ==
    ASSUME WebInv, NEW f \in Fetchers, NEW r, Now(f, r), FetchOK(r), CacheInv',
           web' = web, second' = second
    PROVE  WebInv'
<1>1. fetch' = [g \in Fetchers |-> IF g = f THEN r ELSE fetch[g]]
  BY DEF Now, WebInv
<1>2. \A g \in Fetchers : FetchOK(fetch[g])' <=> FetchOK(IF g = f THEN r ELSE fetch[g])
  BY <1>1 DEF FetchOK, Asks, Waits, Stores, Ended, Fits
<1>3. \A g \in Fetchers : FetchOK(fetch[g])'
  BY <1>2 DEF WebInv
<1>4. fetch' = [g \in Fetchers |-> fetch'[g]]
  BY <1>1
<1> QED BY <1>3, <1>4 DEF WebInv

LEMMA SameCache == CacheInv /\ UNCHANGED <<cache, web>> => CacheInv'
BY DEF CacheInv, Fits

\* A call that comes to nothing.
LEMMA ErrorStep ==
    ASSUME WebInv, NEW f \in Fetchers, fetch[f].pc \in {"request", "answer"}, Error(f),
           UNCHANGED <<cache, web, second>>
    PROVE  WebInv'
<1> DEFINE r == Returned(fetch[f], NoResult)
<1>1. fetch[f].began \in Nat /\ fetch[f].began <= second
  BY DEF WebInv, FetchOK, NoFetch, Asks, Waits, Stores, Ended
<1>2. FetchOK(r)
  BY <1>1 DEF FetchOK, Ended, Returned
<1>3. Now(f, r) BY DEF Error, Returns
<1> HIDE DEF r
<1> QED BY <1>2, <1>3, SameCache, CallStep DEF WebInv

LEMMA WebInvNext == WebInv /\ [WebNext]_webVars => WebInv'
<1> SUFFICES ASSUME WebInv, [WebNext]_webVars PROVE WebInv'
  OBVIOUS
<1> USE WebFetchAssumption
<1>1. ASSUME NEW f \in Fetchers, Lookup(f) PROVE WebInv'
  <2>1. PICK wish \in Wishes :
           LET key   == Key(wish)
               begun == [pc |-> "request", key |-> key, began |-> second, current |-> wish.url,
                         hops |-> 0, sent |-> second, result |-> NoResult]
           IN  IF key \notin DOMAIN cache
               THEN Now(f, begun) /\ UNCHANGED cache
               ELSE IF Expired(key)
                    THEN Now(f, begun) /\ cache' = Without(key)
                    ELSE Now(f, Returned(begun, cache[key].result)) /\ UNCHANGED cache
    BY <1>1 DEF Lookup
  <2> DEFINE key   == Key(wish)
             begun == [pc |-> "request", key |-> key, began |-> second, current |-> wish.url,
                       hops |-> 0, sent |-> second, result |-> NoResult]
             given == Returned(begun, cache[key].result)
  <2>2. web' = web /\ second' = second BY <1>1 DEF Lookup
  <2>3. FetchOK(begun) BY DEF FetchOK, Asks, WebInv
  <2>4. CASE key \notin DOMAIN cache
    <3>1. Now(f, begun) /\ UNCHANGED cache BY <2>1, <2>4
    <3> HIDE DEF begun
    <3> QED BY <2>2, <2>3, <3>1, SameCache, CallStep DEF WebInv
  <2>5. CASE key \in DOMAIN cache /\ Expired(key)
    <3>1. Now(f, begun) /\ cache' = Without(key) BY <2>1, <2>5
    <3>2. CacheInv' BY <2>2, <3>1 DEF WebInv, CacheInv, Without, Fits
    <3> HIDE DEF begun
    <3> QED BY <2>2, <2>3, <3>1, <3>2, CallStep
  <2>6. CASE key \in DOMAIN cache /\ ~ Expired(key)
    <3>1. Now(f, given) /\ UNCHANGED cache BY <2>1, <2>6
    <3>2. given = [pc |-> "returned", key |-> key, began |-> second, result |-> cache[key].result]
      BY DEF Returned
    <3>3. /\ Fits(cache[key].result, key) /\ second \in Nat
          /\ cache[key].expires \in Nat /\ second <= cache[key].expires
          /\ cache[key].expires <= cache[key].result.at + FetchTime + CacheTTL
      BY <2>6 DEF Expired, WebInv, CacheInv
    <3>4. cache[key].result.at + CacheTTL + FetchTime >= second
      <4>1. cache[key].result.at \in Nat BY <3>3 DEF Fits
      <4> HIDE DEF key
      <4> QED BY <3>3, <4>1
    <3>5. FetchOK(given)
      <4> HIDE DEF key
      <4> QED BY <3>2, <3>3, <3>4 DEF FetchOK, Ended
    <3> HIDE DEF given
    <3> QED BY <2>2, <3>1, <3>5, SameCache, CallStep DEF WebInv
  <2> QED BY <2>4, <2>5, <2>6
<1>2. ASSUME NEW f \in Fetchers, FetchStep(f) PROVE WebInv'
  <2>1. CASE Request(f)
    <3> DEFINE r == [fetch[f] EXCEPT !.pc = "answer", !.sent = second]
    <3>1. Asks(fetch[f]) /\ fetch[f].began <= second /\ second \in Nat
      BY <2>1 DEF Request, In, WebInv, FetchOK, NoFetch, Asks, Waits, Stores, Ended
    <3>2. /\ r.pc = "answer" /\ r.sent = second /\ r.began = fetch[f].began
          /\ r \in [pc : {"answer"}, key : {r.key}, began : Nat, current : {r.current},
                    hops : {r.hops}, sent : Nat, result : {r.result}]
      BY <3>1 DEF Asks
    <3>3. FetchOK(r)
      <4> HIDE DEF r
      <4> QED BY <3>1, <3>2 DEF FetchOK, Waits
    <3>4. CASE Now(f, r)
      <4> HIDE DEF r
      <4> QED BY <2>1, <3>3, <3>4, SameCache, CallStep DEF WebInv, Request
    <3>5. CASE Error(f)
      BY <2>1, <3>5, ErrorStep DEF Request, In
    <3> QED BY <2>1, <3>4, <3>5 DEF Request
  <2>2. ASSUME fetch[f].pc = "answer", NEW url, Follow(f, url), UNCHANGED <<cache, web, second>>
        PROVE  WebInv'
    <3> DEFINE r == [fetch[f] EXCEPT !.pc = "request", !.current = url, !.hops = @ + 1]
    <3>1. Waits(fetch[f]) /\ fetch[f].began <= second
      BY <2>2 DEF WebInv, FetchOK, NoFetch, Asks, Waits, Stores, Ended
    <3>2. /\ r.began = fetch[f].began
          /\ r \in [pc : {"request"}, key : {r.key}, began : Nat, current : {r.current},
                    hops : {r.hops}, sent : Nat, result : {r.result}]
      BY <3>1 DEF Waits
    <3>3. FetchOK(r)
      <4> HIDE DEF r
      <4> QED BY <3>1, <3>2 DEF FetchOK, Asks
    <3>4. Now(f, r) BY <2>2 DEF Follow
    <3> HIDE DEF r
    <3> QED BY <2>2, <3>3, <3>4, SameCache, CallStep DEF WebInv
  <2>3. CASE Redirected(f)
    BY <2>2, <2>3, ErrorStep DEF Redirected, In
  <2>4. CASE Refreshed(f)
    BY <2>2, <2>4 DEF Refreshed, In
  <2>5. CASE Read(f)
    <3>1. PICK at \in fetch[f].sent .. second :
             Now(f, [fetch[f] EXCEPT !.pc = "store",
                            !.result = Extract(fetch[f].key, fetch[f].current, at)])
      BY <2>5 DEF Read
    <3> DEFINE result == Extract(fetch[f].key, fetch[f].current, at)
               r == [fetch[f] EXCEPT !.pc = "store", !.result = result]
    <3>2. Waits(fetch[f]) /\ fetch[f].began <= fetch[f].sent /\ fetch[f].began <= second
      BY <2>5 DEF Read, In, WebInv, FetchOK, NoFetch, Asks, Waits, Stores, Ended
    <3>3. /\ result.mode = fetch[f].key.mode /\ result.chars = fetch[f].key.chars
          /\ result.at = at /\ result.page = fetch[f].current
      BY DEF Extract
    <3>4. at \in Nat /\ fetch[f].sent <= at /\ fetch[f].sent \in Nat /\ second \in Nat
      BY <3>2 DEF Waits, WebInv
    <3>5. Fits(result, fetch[f].key)
      BY <2>5, <3>3, <3>4 DEF Fits, Read
    <3>6. /\ r.result = result /\ r.key = fetch[f].key /\ r.began = fetch[f].began
          /\ r.sent = fetch[f].sent
          /\ r \in [pc : {"store"}, key : {r.key}, began : Nat, current : {r.current},
                    hops : {r.hops}, sent : Nat, result : {r.result}]
      <4> HIDE DEF result
      <4> QED BY <3>2 DEF Waits
    <3>7. FetchOK(r)
      <4>1. r.result.at = at BY <3>3, <3>6
      <4> HIDE DEF r, result
      <4> QED BY <3>2, <3>4, <3>5, <3>6, <4>1 DEF FetchOK, Stores, Waits
    <3>8. Now(f, r) BY <3>1
    <3> HIDE DEF r
    <3> QED BY <2>5, <3>7, <3>8, SameCache, CallStep DEF WebInv, Read
  <2>6. CASE Unanswered(f)
    BY <2>6, ErrorStep DEF Unanswered, In
  <2>7. CASE Keep(f)
    <3> DEFINE key == fetch[f].key
               result == fetch[f].result
               r == Returned(fetch[f], result)
    <3>1. Stores(fetch[f]) /\ fetch[f].began <= fetch[f].sent /\ fetch[f].began <= second
      BY <2>7 DEF Keep, In, WebInv, FetchOK, NoFetch, Asks, Waits, Stores, Ended
    <3>2. /\ Fits(result, key) /\ result.at \in Nat
          /\ fetch[f].began \in Nat /\ fetch[f].sent \in Nat /\ second \in Nat
          /\ fetch[f].sent <= result.at /\ second <= fetch[f].sent + FetchTime
      BY <3>1 DEF Stores, Fits, WebInv
    <3>3. r = [pc |-> "returned", key |-> key, began |-> fetch[f].began, result |-> result]
      BY DEF Returned
    <3>4. FetchOK(r)
      <4>1. result.at + CacheTTL + FetchTime >= fetch[f].began BY <3>1, <3>2
      <4>2. /\ r.pc = "returned" /\ r.key = key /\ r.began = fetch[f].began /\ r.result = result
            /\ r \in [pc : {"returned"}, key : {r.key}, began : Nat, result : {r.result}]
        BY <3>2, <3>3
      <4> HIDE DEF r, result, key
      <4> QED BY <3>1, <3>2, <4>1, <4>2 DEF FetchOK, Ended
    <3>5. CacheInv'
      <4>1. cache' = [k \in Kept \cup {key} |->
                         IF k = key THEN [result |-> result, expires |-> second + CacheTTL]
                         ELSE cache[k]]
            /\ web' = web
        BY <2>7 DEF Keep, Set
      <4>2. Kept \subseteq DOMAIN cache BY DEF Kept
      <4>3. second + CacheTTL <= result.at + FetchTime + CacheTTL /\ second + CacheTTL \in Nat
        BY <3>2
      <4> HIDE DEF key, result
      <4> SUFFICES ASSUME NEW k \in Kept \cup {key}
                   PROVE  /\ Fits(cache'[k].result, k)
                          /\ cache'[k].expires \in Nat
                          /\ cache'[k].expires <= cache'[k].result.at + FetchTime + CacheTTL
        BY <4>1 DEF CacheInv, Fits
      <4>4. CASE k = key
        BY <3>2, <4>1, <4>3, <4>4
      <4>5. CASE k # key
        BY <4>1, <4>2, <4>5 DEF WebInv, CacheInv
      <4> QED BY <4>4, <4>5
    <3>6. Now(f, r) BY <2>7 DEF Keep, Returns
    <3> HIDE DEF r
    <3> QED BY <2>7, <3>4, <3>5, <3>6, CallStep DEF Keep
  <2> QED BY <1>2, <2>1, <2>3, <2>4, <2>5, <2>6, <2>7 DEF FetchStep
<1>3. CASE Second
  <2>1. second' = second + 1 /\ UNCHANGED <<cache, web, fetch>> /\ second \in Nat
    BY <1>3 DEF Second, WebInv
  <2>2. ASSUME NEW f \in Fetchers PROVE FetchOK(fetch[f])'
    <3>1. fetch[f].pc \in {"answer", "store"} => second < fetch[f].sent + FetchTime
      BY <1>3 DEF Second, In
    <3>2. FetchOK(fetch[f]) BY DEF WebInv
    <3> QED BY <2>1, <3>1, <3>2 DEF FetchOK, NoFetch, Asks, Waits, Stores, Ended, Fits
  <2> QED BY <2>1, <2>2, SameCache DEF WebInv
<1>4. CASE UNCHANGED webVars
  BY <1>4 DEF webVars, WebInv, CacheInv, FetchOK, Asks, Waits, Stores, Ended, Fits
<1> QED BY <1>1, <1>2, <1>3, <1>4 DEF WebNext

\* A result of web_fetch was served after the call began, or before it by no
\* more than the life of a cache entry and the time that a request may take
\* (webFetchHandler, webFetchCache.get and set).
THEOREM ResultsAreFresh == WebSpec => []FetchFresh
<1>1. WebInit => WebInv BY WebInvInit
<1>2. WebInv /\ [WebNext]_webVars => WebInv' BY WebInvNext
<1>3. WebInv => FetchFresh BY Implied
<1> QED BY <1>1, <1>2, <1>3, PTL DEF WebSpec
=============================================================================
