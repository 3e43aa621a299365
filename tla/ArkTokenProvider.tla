-------------------------- MODULE ArkTokenProvider --------------------------
(***************************************************************************)
(* The lazy ARK API key and the requests that use it:                      *)
(* auth/veauth/ark_token_provider.go, and the one retry with a new key of  *)
(* model/openai.go (sendRequest) and model/ark.go (generate,               *)
(* generateStream).                                                        *)
(*                                                                         *)
(* A request takes the cached key, or joins the exchange of the key's      *)
(* generation, which singleflight shares.  A refused request invalidates   *)
(* the key, whatever key it is by then, and is sent once more.  A key is   *)
(* named by the generation in which its fetch began.                       *)
(***************************************************************************)
EXTENDS Naturals, FiniteSets

CONSTANTS
    Procs,        \* goroutines that make requests
    NoKey,        \* no key
    MaxAttempts,  \* config.MaxAttempts: fetches in an exchange
    MaxRequests   \* bound on the requests made in one behaviour

ASSUME ConstantsAssumption ==
    /\ MaxAttempts \in Nat \ {0}
    /\ MaxRequests \in Nat
    /\ NoKey \notin 0..MaxRequests

\* Every request invalidates at most once.
Generations == 0..MaxRequests
Keys == Generations

VARIABLES
    (* ArkTokenProvider *)
    apiKey,      \* the cached key or NoKey
    generation,
    exchange,    \* generation -> the exchange in the singleflight group
    (* the goroutines *)
    requests,    \* requests begun so far
    call,        \* goroutine -> its request
    stores       \* history: generation -> keys cached in it

providerVars == <<apiKey, generation, exchange>>
vars == <<providerVars, requests, call, stores>>

Exchange == [pc      : {"none", "check", "fetch", "store"},
             attempt : 0..MaxAttempts,
             key     : Keys \cup {NoKey}]

NoExchange == [pc |-> "none", attempt |-> 0, key |-> NoKey]

Call == [pc    : {"idle", "key", "join", "wait", "send", "invalidate"},
         try   : 0..2,                    \* sends begun
         gen   : Generations,             \* generation that APIKey read
         since : Generations,             \* history: generation at its call
         key   : Keys \cup {NoKey},
         first : Keys \cup {NoKey}]       \* history: key of the first send

NoCall == [pc |-> "idle", try |-> 0, gen |-> 0, since |-> 0, key |-> NoKey,
           first |-> NoKey]

Init ==
    /\ apiKey = NoKey
    /\ generation = 0
    /\ exchange = [g \in Generations |-> NoExchange]
    /\ requests = 0
    /\ call = [p \in Procs |-> NoCall]
    /\ stores = [g \in Generations |-> 0]

At(p, label) == call[p].pc = label

Becomes(p, c) == call' = [call EXCEPT ![p] = c]

Return(p) == Becomes(p, NoCall)

----------------------------------------------------------------------------
(* A request *)

\* The model asks the provider for a key and will send the request.
Begin(p) ==
    /\ At(p, "idle")
    /\ requests < MaxRequests
    /\ requests' = requests + 1
    /\ Becomes(p, [NoCall EXCEPT !.pc = "key", !.since = generation])
    /\ UNCHANGED <<providerVars, stores>>

\* APIKey: return the cached key, or note the generation.
Cached(p) ==
    /\ At(p, "key")
    /\ Becomes(p, IF apiKey # NoKey
                     THEN [call[p] EXCEPT !.pc = "send", !.key = apiKey]
                     ELSE [call[p] EXCEPT !.pc = "join", !.gen = generation])
    /\ UNCHANGED <<providerVars, requests, stores>>

\* DoChan: wait for the exchange of that generation, or start it.
Join(p) ==
    /\ At(p, "join")
    /\ exchange' = [exchange EXCEPT ![call[p].gen] =
                       IF @.pc = "none" THEN [@ EXCEPT !.pc = "check"] ELSE @]
    /\ Becomes(p, [call[p] EXCEPT !.pc = "wait"])
    /\ UNCHANGED <<apiKey, generation, requests, stores>>

\* A waiter's own context ends.
WaitCancelled(p) ==
    /\ At(p, "wait")
    /\ Return(p)
    /\ UNCHANGED <<providerVars, requests, stores>>

\* The request is answered, or fails for another reason than its key.
Answered(p) ==
    /\ At(p, "send")
    /\ Return(p)
    /\ UNCHANGED <<providerVars, requests, stores>>

\* Mutant of Refused: the retry does not invalidate the key first.
RefusedQuietly(p) ==
    /\ At(p, "send")
    /\ Becomes(p, IF call[p].try = 0
                     THEN [call[p] EXCEPT !.pc = "key", !.try = 1,
                                          !.first = call[p].key,
                                          !.since = generation]
                     ELSE NoCall)
    /\ UNCHANGED <<providerVars, requests, stores>>

\* 401 or 403: the first send is followed by another one.
Refused(p) ==
    /\ At(p, "send")
    /\ Becomes(p, IF call[p].try = 0
                     THEN [call[p] EXCEPT !.pc = "invalidate", !.try = 1,
                                          !.first = call[p].key]
                     ELSE NoCall)
    /\ UNCHANGED <<providerVars, requests, stores>>

\* Invalidate, whichever key is cached; then APIKey again.
Invalidate(p) ==
    /\ At(p, "invalidate")
    /\ apiKey' = NoKey
    /\ generation' = generation + 1
    /\ Becomes(p, [call[p] EXCEPT !.pc = "key", !.key = NoKey,
                                  !.since = generation + 1])
    /\ UNCHANGED <<exchange, requests, stores>>

----------------------------------------------------------------------------
(* An exchange: the function that singleflight runs *)

\* What becomes of a goroutine that waits.
WithKey(key) == [p \in Procs |-> [call[p] EXCEPT !.pc = "send", !.key = key]]
Again        == [p \in Procs |-> [call[p] EXCEPT !.pc = "key"]]

\* Mutant of Failed: the waiters ask again after every error.
FailedAgain == [p \in Procs |-> [call[p] EXCEPT !.pc = "key"]]

Failed == [p \in Procs |-> NoCall]

\* singleflight forgets the exchange of g and gives its result to all that
\* wait for it.
Resolve(g, outcome) ==
    /\ exchange' = [exchange EXCEPT ![g] = NoExchange]
    /\ call' = [p \in Procs |->
                   IF At(p, "wait") /\ call[p].gen = g THEN outcome[p]
                                                       ELSE call[p]]

\* Mutant of Check: it does not look whether a key has been cached by now.
CheckNothing(g) ==
    /\ exchange[g].pc = "check"
    /\ exchange' = [exchange EXCEPT ![g] =
                       [@ EXCEPT !.pc = "fetch", !.attempt = 1,
                                 !.key = generation]]
    /\ UNCHANGED <<apiKey, generation, requests, call, stores>>

\* A key that was cached by now will do.
Check(g) ==
    /\ exchange[g].pc = "check"
    /\ IF apiKey # NoKey
          THEN Resolve(g, WithKey(apiKey))
          ELSE /\ exchange' = [exchange EXCEPT ![g] =
                                  [@ EXCEPT !.pc = "fetch", !.attempt = 1,
                                            !.key = generation]]
               /\ UNCHANGED call
    /\ UNCHANGED <<apiKey, generation, requests, stores>>

\* fetch returns a key.
Fetched(g) ==
    /\ exchange[g].pc = "fetch"
    /\ exchange' = [exchange EXCEPT ![g] = [@ EXCEPT !.pc = "store"]]
    /\ UNCHANGED <<apiKey, generation, requests, call, stores>>

\* It fails with an error that allows another attempt, which is made after a
\* delay, ...
FetchRetried(g) ==
    /\ exchange[g].pc = "fetch"
    /\ exchange[g].attempt < MaxAttempts
    /\ exchange' = [exchange EXCEPT ![g] =
                       [@ EXCEPT !.attempt = exchange[g].attempt + 1,
                                 !.key = generation]]
    /\ UNCHANGED <<apiKey, generation, requests, call, stores>>

\* ... or with one that ends the exchange.
FetchFails(g) ==
    /\ exchange[g].pc = "fetch"
    /\ Resolve(g, Failed)
    /\ UNCHANGED <<apiKey, generation, requests, stores>>

\* Mutant of Store: a key is cached whatever happened since it was asked for.
StoreUnchecked(g) ==
    /\ exchange[g].pc = "store"
    /\ apiKey' = exchange[g].key
    /\ stores' = [stores EXCEPT ![generation] = @ + 1]
    /\ Resolve(g, WithKey(exchange[g].key))
    /\ UNCHANGED <<generation, requests>>

\* Cache the key unless the generation has changed; the waiters then ask again.
Store(g) ==
    /\ exchange[g].pc = "store"
    /\ IF generation = g
          THEN /\ apiKey' = exchange[g].key
               /\ stores' = [stores EXCEPT ![g] = @ + 1]
               /\ Resolve(g, WithKey(exchange[g].key))
          ELSE /\ Resolve(g, Again)
               /\ UNCHANGED <<apiKey, stores>>
    /\ UNCHANGED <<generation, requests>>

----------------------------------------------------------------------------
\* All requests have been made and answered, and no exchange is left.
Finished ==
    /\ requests = MaxRequests
    /\ \A p \in Procs : At(p, "idle")
    /\ \A g \in Generations : exchange[g].pc = "none"
    /\ UNCHANGED vars

RequestStep(p) ==
    Cached(p) \/ Join(p) \/ Answered(p) \/ Refused(p) \/ Invalidate(p)

ExchangeStep(g) ==
    Check(g) \/ Fetched(g) \/ FetchRetried(g) \/ FetchFails(g) \/ Store(g)

Next ==
    \/ \E p \in Procs : Begin(p) \/ RequestStep(p) \/ WaitCancelled(p)
    \/ \E g \in Generations : ExchangeStep(g)
    \/ Finished

Spec == Init /\ [][Next]_vars

(***************************************************************************)
(* A goroutine that can go on does; a fetch ends by its RequestTimeout and *)
(* a model request by its own context or client.  Waiters need not cancel. *)
(***************************************************************************)
FairSpec ==
    /\ Spec
    /\ \A p \in Procs : WF_vars(RequestStep(p))
    /\ \A g \in Generations : WF_vars(ExchangeStep(g))

----------------------------------------------------------------------------
(* Properties *)

\* Every variable stays within the values the code can give it.
TypeOK ==
    /\ apiKey \in Keys \cup {NoKey}
    /\ generation \in Generations
    /\ exchange \in [Generations -> Exchange]
    /\ requests \in 0..MaxRequests
    /\ call \in [Procs -> Call]
    /\ stores \in [Generations -> Nat]

\* Invalidate's promise, "the next call re-reads the Role credential": APIKey
\* never returns a key whose fetch began before an Invalidate that its caller
\* could have seen, although older exchanges may end at any time.
KeyIsFresh ==
    \A p \in Procs : At(p, "send") => call[p].key >= call[p].since

\* The one retry is worth making: it never uses the key that was refused.
RetryHasNewKey ==
    \A p \in Procs :
        (At(p, "send") /\ call[p].try = 1) => call[p].key # call[p].first

\* "The key is cached and concurrent callers share one exchange": between two
\* Invalidates one key is cached at most, so that requests that overlap do not
\* replace each other's key.
OneKeyAGeneration == \A g \in Generations : stores[g] <= 1

\* Every request ends: failed exchanges are given up, waiters of an exchange
\* that was overtaken by an Invalidate join the next one.
RequestsEnd == \A p \in Procs : ~At(p, "idle") ~> At(p, "idle")
=============================================================================
