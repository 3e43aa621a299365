------------------------------ MODULE WebFetch ------------------------------
(***************************************************************************)
(* The web_fetch tool (tool/builtin_tools/web_fetch.go): parallel calls    *)
(* share a cache of results, and each follows the redirects of the page    *)
(* that it is asked for.                                                   *)
(*                                                                         *)
(* What is read from a page is named by the page and the time at which it  *)
(* was served.  External: the pages, the clock.                            *)
(***************************************************************************)
EXTENDS Integers, FiniteSets

CONSTANTS
    Fetchers,       \* goroutines that call the tool
    Urls,           \* addresses of pages
    Webs,           \* what the addresses may answer with
    Wishes,         \* what is asked for: an address, a mode, max_chars or 0
    DefaultChars,
    CharsCap,
    MaxRedirects,
    CacheTTL,
    CacheMaxEntries,
    FetchTime,      \* how long a request may take, till its result is stored
    MaxFetches,     \* bound: calls of a behaviour
    LastSecond      \* bound: the clock

ASSUME WebFetchAssumption ==
    /\ DefaultChars \in Nat \ {0} /\ CharsCap \in Nat \ {0}
    /\ Wishes \subseteq [url : Urls, mode : {"markdown", "text"}, asked : Int]
    /\ MaxRedirects \in Nat /\ CacheTTL \in Nat /\ FetchTime \in Nat
    /\ CacheMaxEntries \in Nat \ {0}
    /\ MaxFetches \in Nat /\ LastSecond \in Nat

VARIABLES
    web,        \* address -> what it answers with
    second,     \* the clock
    cache,      \* key -> result and the time it expires
    fetches,    \* calls so far
    fetch       \* goroutine -> its call

webVars == <<web, second, cache, fetches, fetch>>

(***************************************************************************)
(* Pages and results                                                       *)
(***************************************************************************)

\* An address has a page, a document that is not read, an error or nothing; or
\* it sends elsewhere, by its status or by a tag in an HTML page.
Answers == [is : {"html", "text", "pdf", "error"}] \cup
           [is : {"redirect", "refresh"}, to : Urls]

\* The key of the cache: what a call asks for, once the limits are applied.
Chars(asked) ==
    LET wanted == IF asked <= 0 THEN DefaultChars ELSE asked
    IN  IF wanted > CharsCap THEN CharsCap ELSE wanted

Key(wish) == [url |-> wish.url, mode |-> wish.mode, chars |-> Chars(wish.asked)]

\* fetchAndExtract of a page that was served at a time.
Extract(key, url, at) == [page |-> url, at |-> at, mode |-> key.mode, chars |-> key.chars]

NoResult == [page |-> "none"]
NoFetch == [pc |-> "idle"]

WebInit ==
    /\ web \in Webs
    /\ second = 0
    /\ cache = <<>>
    /\ fetches = 0
    /\ fetch = [f \in Fetchers |-> NoFetch]

(***************************************************************************)
(* The cache                                                               *)
(***************************************************************************)

Without(key) == [k \in DOMAIN cache \ {key} |-> cache[k]]

\* Mutant of Expired: entries stay for good.
ExpiredNever(key) == FALSE

Expired(key) == second > cache[key].expires

\* webFetchCache.set: a full cache is emptied.
Kept == IF Cardinality(DOMAIN cache) >= CacheMaxEntries THEN {} ELSE DOMAIN cache

Set(key, result) ==
    cache' = [k \in Kept \cup {key} |->
                 IF k = key THEN [result |-> result, expires |-> second + CacheTTL] ELSE cache[k]]

(***************************************************************************)
(* A call                                                                  *)
(***************************************************************************)

In(f, pc) == fetch[f].pc = pc
Now(f, r) == fetch' = [fetch EXCEPT ![f] = r]
Returned(r, result) == [pc |-> "returned", key |-> r.key, began |-> r.began, result |-> result]
Returns(f, result) == Now(f, Returned(fetch[f], result))
Error(f) == Returns(f, NoResult)

\* webFetchHandler and webFetchCache.get.
Lookup(f) ==
    /\ In(f, "idle") \/ In(f, "returned")
    /\ fetches < MaxFetches
    /\ fetches' = fetches + 1
    /\ \E wish \in Wishes :
          LET key   == Key(wish)
              begun == [pc |-> "request", key |-> key, began |-> second, current |-> wish.url,
                        hops |-> 0, sent |-> second, result |-> NoResult]
          IN  IF key \notin DOMAIN cache
              THEN Now(f, begun) /\ UNCHANGED cache
              ELSE IF Expired(key)
                   THEN Now(f, begun) /\ cache' = Without(key)
                   ELSE Now(f, Returned(begun, cache[key].result)) /\ UNCHANGED cache
    /\ UNCHANGED <<web, second>>

\* checkURL and the request; the address may be refused, or nobody answer.
Request(f) ==
    /\ In(f, "request")
    /\ \/ Now(f, [fetch[f] EXCEPT !.pc = "answer", !.sent = second])
       \/ Error(f)
    /\ UNCHANGED <<web, second, cache, fetches>>

Follow(f, url) ==
    Now(f, [fetch[f] EXCEPT !.pc = "request", !.current = url, !.hops = @ + 1])

Redirected(f) ==
    /\ In(f, "answer") /\ web[fetch[f].current].is = "redirect"
    /\ IF fetch[f].hops + 1 > MaxRedirects
       THEN Error(f)
       ELSE Follow(f, web[fetch[f].current].to)
    /\ UNCHANGED <<web, second, cache, fetches>>

\* A meta refresh is followed unless it is one too many or leads nowhere else.
Refreshes(f) ==
    LET answer == web[fetch[f].current]
    IN  answer.is = "refresh" /\ fetch[f].hops < MaxRedirects /\ answer.to # fetch[f].current

\* Mutant of Refreshed: these hops are not counted.
RefreshedFreely(f) ==
    /\ In(f, "answer") /\ Refreshes(f)
    /\ Now(f, [fetch[f] EXCEPT !.pc = "request", !.current = web[fetch[f].current].to])
    /\ UNCHANGED <<web, second, cache, fetches>>

Refreshed(f) ==
    /\ In(f, "answer") /\ Refreshes(f)
    /\ Follow(f, web[fetch[f].current].to)
    /\ UNCHANGED <<web, second, cache, fetches>>

\* Everything else that has a good status is the result.
Read(f) ==
    /\ In(f, "answer") /\ ~ Refreshes(f)
    /\ web[fetch[f].current].is \notin {"redirect", "error"}
    /\ \E at \in fetch[f].sent .. second :
          Now(f, [fetch[f] EXCEPT !.pc = "store",
                         !.result = Extract(fetch[f].key, fetch[f].current, at)])
    /\ UNCHANGED <<web, second, cache, fetches>>

\* A bad status, no answer, or a body that breaks off.
Unanswered(f) ==
    /\ In(f, "answer")
    /\ Error(f)
    /\ UNCHANGED <<web, second, cache, fetches>>

Keep(f) ==
    /\ In(f, "store")
    /\ Set(fetch[f].key, fetch[f].result)
    /\ Returns(f, fetch[f].result)
    /\ UNCHANGED <<web, second, fetches>>

\* A request has its time limit.
Second ==
    /\ second < LastSecond
    /\ \A f \in Fetchers : In(f, "answer") \/ In(f, "store") => second < fetch[f].sent + FetchTime
    /\ second' = second + 1
    /\ UNCHANGED <<web, cache, fetches, fetch>>

FetchStep(f) ==
    \/ Request(f) \/ Redirected(f) \/ Refreshed(f) \/ Read(f) \/ Unanswered(f) \/ Keep(f)

WebNext ==
    \/ \E f \in Fetchers : Lookup(f) \/ FetchStep(f)
    \/ Second

\* A request is answered or times out, and the goroutines go on.
WebFairness == \A f \in Fetchers : WF_webVars(FetchStep(f))

WebSpec == WebInit /\ [][WebNext]_webVars /\ WebFairness

(***************************************************************************)
(* Properties                                                              *)
(***************************************************************************)

\* A call returns what it was asked for, in the form it was asked for, and not
\* older than the cache allows: served after it began, or before that by no
\* more than the life of an entry and the time that its request took.  Calls
\* that overlap may store an older result over a newer one.
FetchFresh ==
    \A f \in Fetchers : In(f, "returned") /\ fetch[f].result # NoResult =>
        LET r == fetch[f].result
        IN  /\ r.mode = fetch[f].key.mode /\ r.chars = fetch[f].key.chars
            /\ r.at + CacheTTL + FetchTime >= fetch[f].began
            /\ web[r.page].is \notin {"redirect", "error"}

\* A call ends, whatever circle of pages it is led into.
FetchEnds == \A f \in Fetchers : In(f, "request") ~> In(f, "returned")
=============================================================================
