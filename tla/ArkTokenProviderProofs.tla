----------------------- MODULE ArkTokenProviderProofs -----------------------
(***************************************************************************)
(* Theorems about ArkTokenProvider, for any goroutines and any numbers of  *)
(* requests and attempts: keys are fresh, a retry has a new key, and a     *)
(* generation caches one key.                                              *)
(***************************************************************************)
EXTENDS ArkTokenProvider, FiniteSetTheorems, TLAPS

\* A request that may still invalidate the key.
Unspent(c) == c.pc = "invalidate" \/ (c.pc # "idle" /\ c.try = 0)

UnspentCalls == {p \in Procs : Unspent(call[p])}

\* There are no more Invalidates than requests; so generations have a bound.
CountInv ==
    /\ IsFiniteSet(UnspentCalls)
    /\ generation + Cardinality(UnspentCalls) <= requests

\* What a request c knows at each of its steps.
CallOK(c) ==
    /\ c.since <= generation
    /\ c.pc \in {"join", "wait"} => c.since <= c.gen /\ c.gen <= generation
    /\ c.pc = "send" => c.key \in c.since..generation
    /\ c.pc = "invalidate" => c.try = 1 /\ c.first \in 0..generation
    /\ c.try \in {0, 1}
    /\ (c.try = 1 /\ c.pc # "invalidate") =>
          c.first \in Nat /\ c.first < c.since

CallInv == \A p \in Procs : CallOK(call[p])

\* An exchange never runs ahead of the generation, and asks for no key that
\* is older than itself.
ExchangeInv ==
    \A g \in Generations :
        /\ exchange[g].pc # "none" => g <= generation
        /\ exchange[g].pc \in {"fetch", "store"} =>
              exchange[g].key \in g..generation

\* The key that is cached was stored by the exchange of the present
\* generation, which has none at work while it may still store one.
StoreInv ==
    /\ apiKey # NoKey => apiKey = generation
    /\ exchange[generation].pc \in {"fetch", "store"} => apiKey = NoKey
    /\ stores[generation] = IF apiKey = NoKey THEN 0 ELSE 1
    /\ \A g \in Generations : g > generation => stores[g] = 0
    /\ OneKeyAGeneration

IInv == TypeOK /\ CountInv /\ CallInv /\ ExchangeInv /\ StoreInv

----------------------------------------------------------------------------
(* Steps that leave the generation alone *)

\* The empty record of an idle goroutine.
LEMMA NoCallOK == NoCall \in Call /\ ~Unspent(NoCall)
                  /\ (generation \in Nat => CallOK(NoCall))
BY ConstantsAssumption
   DEF NoCall, Call, Generations, Keys, Unspent, CallOK

\* No request becomes able to invalidate: the count stays.
LEMMA CallsStep ==
    ASSUME IInv, call' \in [Procs -> Call],
           \A p \in Procs : CallOK(call'[p]),
           \A p \in Procs : Unspent(call'[p]) => Unspent(call[p]),
           UNCHANGED <<generation, requests>>
    PROVE  CountInv' /\ CallInv'
<1>1. CallInv'
  BY DEF CallInv, CallOK
<1>2. UnspentCalls' \in SUBSET UnspentCalls
  BY DEF UnspentCalls, Unspent
<1>3. /\ IsFiniteSet(UnspentCalls')
      /\ Cardinality(UnspentCalls') <= Cardinality(UnspentCalls)
  BY <1>2, FS_Subset DEF IInv, CountInv
<1>4. /\ Cardinality(UnspentCalls) \in Nat
      /\ Cardinality(UnspentCalls') \in Nat
  BY <1>3, FS_CardinalityType DEF IInv, CountInv
<1>5. generation \in Nat /\ requests \in Nat
  BY ConstantsAssumption DEF IInv, TypeOK, Generations
<1>6. generation + Cardinality(UnspentCalls') <= requests
  BY <1>3, <1>4, <1>5 DEF IInv, CountInv
<1>. QED
  BY <1>1, <1>3, <1>6 DEF CountInv, UnspentCalls, Unspent

\* One request goes on and the provider is left alone.
LEMMA CallStep ==
    ASSUME IInv, NEW p \in Procs, NEW c \in Call, CallOK(c),
           Unspent(c) => Unspent(call[p]),
           Becomes(p, c), UNCHANGED <<providerVars, requests, stores>>
    PROVE  IInv'
<1>1. call' \in [Procs -> Call]
  BY DEF Becomes, IInv, TypeOK
<1>2. /\ \A q \in Procs : CallOK(call'[q])
      /\ \A q \in Procs : Unspent(call'[q]) => Unspent(call[q])
  BY DEF Becomes, IInv, TypeOK, CallInv
<1>3. CountInv' /\ CallInv'
  BY <1>1, <1>2, CallsStep DEF providerVars
<1>4. TypeOK'
  BY <1>1 DEF IInv, TypeOK, providerVars
<1>5. ExchangeInv' /\ StoreInv'
  BY DEF IInv, ExchangeInv, StoreInv, OneKeyAGeneration, providerVars
<1>. QED
  BY <1>3, <1>4, <1>5 DEF IInv

\* A request ends.
LEMMA ReturnStep ==
    ASSUME IInv, NEW p \in Procs, Return(p),
           UNCHANGED <<providerVars, requests, stores>>
    PROVE  IInv'
<1>1. generation \in Nat
  BY ConstantsAssumption DEF IInv, TypeOK, Generations
<1>. QED
  BY <1>1, NoCallOK, CallStep DEF Return

----------------------------------------------------------------------------
(* The steps of a request *)

LEMMA BeginInv ==
    ASSUME IInv, NEW p \in Procs, Begin(p)
    PROVE  IInv'
<1>. DEFINE c == [NoCall EXCEPT !.pc = "key", !.since = generation]
<1>1. /\ generation \in Generations /\ generation \in Nat
      /\ requests \in Nat /\ requests' = requests + 1
  BY ConstantsAssumption DEF IInv, TypeOK, Generations, Begin
<1>2. c \in Call /\ CallOK(c) /\ Unspent(c)
  <2>1. c \in Call
    BY <1>1, NoCallOK DEF Call
  <2>2. c.pc = "key" /\ c.try = 0 /\ c.since = generation
    BY DEF NoCall
  <2>. QED
    BY <1>1, <2>1, <2>2 DEF CallOK, Unspent
<1>3. call' = [call EXCEPT ![p] = c]
  BY DEF Begin, Becomes
<1>4. call \in [Procs -> Call]
  BY DEF IInv, TypeOK
<1>5. TypeOK'
  <2>1. call' \in [Procs -> Call]
    BY <1>2, <1>3, <1>4
  <2>2. requests' \in 0..MaxRequests
    BY <1>1, ConstantsAssumption DEF Begin
  <2>. QED
    BY <2>1, <2>2 DEF IInv, TypeOK, Begin, providerVars
<1>6. CallInv'
  BY <1>2, <1>3, <1>4 DEF IInv, CallInv, CallOK, Begin, providerVars
<1>7. UnspentCalls' = UnspentCalls \cup {p}
  BY <1>2, <1>3, <1>4 DEF UnspentCalls
<1>8. CountInv'
  <2>1. IsFiniteSet(UnspentCalls) /\ Cardinality(UnspentCalls) \in Nat
    BY FS_CardinalityType DEF IInv, CountInv
  <2>2. /\ IsFiniteSet(UnspentCalls \cup {p})
        /\ Cardinality(UnspentCalls \cup {p}) =
              IF p \in UnspentCalls THEN Cardinality(UnspentCalls)
                                    ELSE Cardinality(UnspentCalls) + 1
    BY <2>1, FS_AddElement
  <2>3. generation + Cardinality(UnspentCalls) <= requests
    BY DEF IInv, CountInv
  <2>4. generation' = generation
    BY DEF Begin, providerVars
  <2>. QED
    BY <1>1, <1>7, <2>1, <2>2, <2>3, <2>4 DEF CountInv
<1>9. ExchangeInv' /\ StoreInv'
  BY DEF IInv, ExchangeInv, StoreInv, OneKeyAGeneration, Begin, providerVars
<1>. QED
  BY <1>5, <1>6, <1>8, <1>9 DEF IInv

\* The cached key is of the present generation.
LEMMA CachedInv ==
    ASSUME IInv, NEW p \in Procs, Cached(p)
    PROVE  IInv'
<1>. DEFINE c == IF apiKey # NoKey
                    THEN [call[p] EXCEPT !.pc = "send", !.key = apiKey]
                    ELSE [call[p] EXCEPT !.pc = "join", !.gen = generation]
<1>1. /\ call[p] \in Call /\ CallOK(call[p]) /\ call[p].pc = "key"
      /\ generation \in Nat /\ generation \in Generations
      /\ apiKey \in Keys \cup {NoKey}
      /\ apiKey # NoKey => apiKey = generation
  BY ConstantsAssumption
     DEF IInv, TypeOK, CallInv, StoreInv, Cached, At, Generations
<1>2. c \in Call
  BY <1>1 DEF Call
<1>3. CallOK(c)
  BY <1>1 DEF Call, CallOK, Generations
<1>4. Unspent(c) => Unspent(call[p])
  BY <1>1 DEF Call, Unspent
<1>5. Becomes(p, c) /\ UNCHANGED <<providerVars, requests, stores>>
  BY DEF Cached
<1>. HIDE DEF c
<1>. QED
  BY <1>2, <1>3, <1>4, <1>5, CallStep

\* A refused request remembers its key.
LEMMA RefusedInv ==
    ASSUME IInv, NEW p \in Procs, Refused(p)
    PROVE  IInv'
<1>1. CASE call[p].try = 0
  <2>. DEFINE c == [call[p] EXCEPT !.pc = "invalidate", !.try = 1,
                                   !.first = call[p].key]
  <2>1. /\ call[p] \in Call /\ CallOK(call[p]) /\ call[p].pc = "send"
        /\ generation \in Nat
    BY ConstantsAssumption
       DEF IInv, TypeOK, CallInv, Refused, At, Generations
  <2>2. c \in Call
    <3>1. call[p].key \in Keys \cup {NoKey}
      BY <2>1 DEF Call
    <3>2. 1 \in 0..2
      OBVIOUS
    <3>. HIDE DEF Keys, Generations
    <3>. QED
      BY <2>1, <3>1, <3>2 DEF Call
  <2>3. CallOK(c)
    BY <2>1 DEF Call, CallOK, Generations
  <2>4. Unspent(call[p])
    BY <1>1, <2>1 DEF Unspent
  <2>5. Becomes(p, c) /\ UNCHANGED <<providerVars, requests, stores>>
    BY <1>1 DEF Refused
  <2>. HIDE DEF c
  <2>. QED
    BY <2>2, <2>3, <2>4, <2>5, CallStep
<1>2. CASE call[p].try # 0
  BY <1>2, ReturnStep DEF Refused, Return
<1>. QED
  BY <1>1, <1>2

\* A request joins an exchange of its generation or of an earlier one.
LEMMA JoinInv ==
    ASSUME IInv, NEW p \in Procs, Join(p)
    PROVE  IInv'
<1>. DEFINE c == [call[p] EXCEPT !.pc = "wait"]
            g == call[p].gen
            e == IF exchange[g].pc = "none"
                    THEN [exchange[g] EXCEPT !.pc = "check"]
                    ELSE exchange[g]
<1>1. /\ call[p] \in Call /\ CallOK(call[p]) /\ call[p].pc = "join"
      /\ call \in [Procs -> Call]
      /\ exchange \in [Generations -> Exchange]
  BY DEF IInv, TypeOK, CallInv, Join, At
<1>2. /\ g \in Generations /\ g <= generation
      /\ call' = [call EXCEPT ![p] = c]
      /\ exchange' = [exchange EXCEPT ![g] = e]
  BY <1>1 DEF Call, CallOK, Join, Becomes
<1>3. c \in Call /\ CallOK(c) /\ (Unspent(c) => Unspent(call[p]))
  BY <1>1 DEF Call, CallOK, Unspent
<1>4. e \in Exchange
  BY <1>1, <1>2 DEF Exchange
<1>5. call' \in [Procs -> Call] /\ exchange' \in [Generations -> Exchange]
  BY <1>1, <1>2, <1>3, <1>4
<1>6. /\ \A q \in Procs : CallOK(call'[q])
      /\ \A q \in Procs : Unspent(call'[q]) => Unspent(call[q])
  BY <1>1, <1>2, <1>3 DEF IInv, CallInv
<1>7. CountInv' /\ CallInv'
  BY <1>5, <1>6, CallsStep DEF Join
<1>8. TypeOK'
  BY <1>5 DEF IInv, TypeOK, Join
<1>9. ExchangeInv'
  BY <1>1, <1>2 DEF IInv, ExchangeInv, Join, Exchange
<1>10. StoreInv'
  <2>1. \A h \in Generations :
           exchange'[h].pc \in {"fetch", "store"} =>
              exchange[h].pc \in {"fetch", "store"}
    BY <1>1, <1>2 DEF Exchange
  <2>. QED
    BY <2>1 DEF IInv, TypeOK, StoreInv, OneKeyAGeneration, Join
<1>. QED
  BY <1>7, <1>8, <1>9, <1>10 DEF IInv

\* The request spends its Invalidate, and from then on wants a key newer than
\* the one that was refused.
LEMMA InvalidateInv ==
    ASSUME IInv, NEW p \in Procs, Invalidate(p)
    PROVE  IInv'
<1>. DEFINE c == [call[p] EXCEPT !.pc = "key", !.key = NoKey,
                                 !.since = generation + 1]
<1>1. /\ call[p] \in Call /\ CallOK(call[p]) /\ call[p].pc = "invalidate"
      /\ call \in [Procs -> Call]
      /\ generation \in Nat /\ generation' = generation + 1
      /\ requests \in Nat /\ requests <= MaxRequests
      /\ UNCHANGED <<exchange, requests, stores>> /\ apiKey' = NoKey
      /\ call' = [call EXCEPT ![p] = c]
  BY ConstantsAssumption
     DEF IInv, TypeOK, CallInv, Invalidate, At, Generations, Becomes
<1>2. /\ c.pc = "key" /\ c.try = 1 /\ c.since = generation + 1
      /\ c.first \in 0..generation
  BY <1>1 DEF Call, CallOK
<1>3. UnspentCalls' = UnspentCalls \ {p} /\ p \in UnspentCalls
  BY <1>1, <1>2 DEF UnspentCalls, Unspent
<1>4. /\ IsFiniteSet(UnspentCalls')
      /\ generation' + Cardinality(UnspentCalls') <= requests'
      /\ generation' \in 0..MaxRequests
  <2>1. IsFiniteSet(UnspentCalls) /\ Cardinality(UnspentCalls) \in Nat
    BY FS_CardinalityType DEF IInv, CountInv
  <2>2. /\ IsFiniteSet(UnspentCalls')
        /\ Cardinality(UnspentCalls') = Cardinality(UnspentCalls) - 1
    BY <1>3, <2>1, FS_RemoveElement
  <2>3. Cardinality(UnspentCalls') \in Nat
    BY <2>2, FS_CardinalityType
  <2>4. generation + Cardinality(UnspentCalls) <= requests
    BY DEF IInv, CountInv
  <2>. QED
    BY <1>1, <2>1, <2>2, <2>3, <2>4, ConstantsAssumption
<1>5. c \in Call
  <2>1. generation + 1 \in Generations
    BY <1>1, <1>4 DEF Generations
  <2>. HIDE DEF Generations, Keys
  <2>. QED
    BY <1>1, <2>1 DEF Call
<1>6. TypeOK'
  BY <1>1, <1>4, <1>5 DEF IInv, TypeOK, Generations
<1>7. CallInv'
  <2>1. \A q \in Procs \ {p} : CallOK(call[q])'
    <3>. SUFFICES ASSUME NEW q \in Procs, q # p
                  PROVE  CallOK(call[q])'
      OBVIOUS
    <3>1. CallOK(call[q]) /\ call[q] \in Call /\ call'[q] = call[q]
      BY <1>1 DEF IInv, CallInv
    <3>. QED
      BY <1>1, <3>1 DEF CallOK, Call, Generations, Keys
  <2>2. CallOK(call[p])'
    BY <1>1, <1>2 DEF CallOK
  <2>. QED
    BY <2>1, <2>2 DEF CallInv
<1>8. ExchangeInv'
  BY <1>1 DEF IInv, TypeOK, ExchangeInv, Exchange, Generations, Keys
<1>9. StoreInv'
  <2>1. exchange[generation + 1].pc = "none"
    BY <1>1, <1>4 DEF IInv, ExchangeInv, Generations
  <2>2. stores[generation + 1] = 0
    BY <1>1, <1>4 DEF IInv, StoreInv, Generations
  <2>3. \A g \in Generations : g > generation + 1 => stores[g] = 0
    BY <1>1 DEF IInv, StoreInv, Generations
  <2>. QED
    BY <1>1, <2>1, <2>2, <2>3 DEF IInv, StoreInv, OneKeyAGeneration
<1>. QED
  BY <1>4, <1>6, <1>7, <1>8, <1>9 DEF IInv, CountInv

----------------------------------------------------------------------------
(* The steps of an exchange *)

\* An exchange that goes on, with a key asked for now or before.
LEMMA ExchangeStepInv ==
    ASSUME IInv, NEW g \in Generations, NEW e \in Exchange,
           exchange' = [exchange EXCEPT ![g] = e],
           exchange[g].pc # "none",
           e.pc \in {"fetch", "store"} => e.key \in g..generation,
           e.pc \in {"fetch", "store"} =>
              apiKey = NoKey \/ exchange[g].pc \in {"fetch", "store"},
           UNCHANGED <<apiKey, generation, requests, call, stores>>
    PROVE  IInv'
<1>1. exchange \in [Generations -> Exchange]
  BY DEF IInv, TypeOK
<1>2. TypeOK'
  BY <1>1 DEF IInv, TypeOK
<1>3. CountInv' /\ CallInv'
  BY DEF IInv, CountInv, UnspentCalls, CallInv, CallOK
<1>4. ExchangeInv'
  BY <1>1 DEF IInv, ExchangeInv
<1>5. StoreInv'
  BY <1>1 DEF IInv, TypeOK, StoreInv, OneKeyAGeneration
<1>. QED
  BY <1>2, <1>3, <1>4, <1>5 DEF IInv

LEMMA FetchedInv ==
    ASSUME IInv, NEW g \in Generations, Fetched(g)
    PROVE  IInv'
<1>. DEFINE e == [exchange[g] EXCEPT !.pc = "store"]
<1>1. exchange[g] \in Exchange /\ exchange[g].pc = "fetch"
  BY DEF IInv, TypeOK, Fetched
<1>2. e \in Exchange /\ e.key = exchange[g].key
  BY <1>1 DEF Exchange
<1>3. exchange[g].key \in g..generation
  BY <1>1 DEF IInv, ExchangeInv
<1>4. exchange' = [exchange EXCEPT ![g] = e]
  BY DEF Fetched
<1>5. UNCHANGED <<apiKey, generation, requests, call, stores>>
  BY DEF Fetched
<1>. HIDE DEF e
<1>. QED
  BY <1>1, <1>2, <1>3, <1>4, <1>5, ExchangeStepInv

LEMMA FetchRetriedInv ==
    ASSUME IInv, NEW g \in Generations, FetchRetried(g)
    PROVE  IInv'
<1>. DEFINE e == [exchange[g] EXCEPT !.attempt = @ + 1, !.key = generation]
<1>1. /\ exchange[g] \in Exchange /\ exchange[g].pc = "fetch"
      /\ exchange[g].attempt < MaxAttempts
      /\ generation \in Generations /\ generation \in Nat
  BY ConstantsAssumption DEF IInv, TypeOK, FetchRetried, Generations
<1>2. exchange[g].attempt + 1 \in 0..MaxAttempts
  BY <1>1, ConstantsAssumption DEF Exchange
<1>3. /\ e \in Exchange /\ e.key = generation /\ e.pc = "fetch"
  <2>. HIDE DEF Generations
  <2>. QED
    BY <1>1, <1>2 DEF Exchange, Keys
<1>4. g <= generation
  BY <1>1 DEF IInv, ExchangeInv
<1>5. exchange' = [exchange EXCEPT ![g] = e]
  BY DEF FetchRetried
<1>6. UNCHANGED <<apiKey, generation, requests, call, stores>>
  BY DEF FetchRetried
<1>7. e.key \in g..generation
  BY <1>1, <1>3, <1>4 DEF Generations
<1>. HIDE DEF e
<1>. QED
  BY <1>1, <1>3, <1>5, <1>6, <1>7, ExchangeStepInv

\* An exchange ends, its waiters become d[q] and the key k is cached or the
\* cache left alone.
LEMMA ResolveInv ==
    ASSUME IInv, NEW g \in Generations, NEW d, Resolve(g, d),
           \A q \in Procs : (At(q, "wait") /\ call[q].gen = g) =>
               /\ d[q] \in Call /\ CallOK(d[q])
               /\ Unspent(d[q]) => Unspent(call[q]),
           UNCHANGED <<generation, requests>>
    PROVE  /\ call' \in [Procs -> Call] /\ CountInv' /\ CallInv'
           /\ exchange' \in [Generations -> Exchange] /\ ExchangeInv'
           /\ exchange'[g].pc = "none"
           /\ \A h \in Generations : exchange'[h].pc \in {"fetch", "store"} =>
                 h # g /\ exchange[h].pc \in {"fetch", "store"}
<1>1. call \in [Procs -> Call] /\ exchange \in [Generations -> Exchange]
  BY DEF IInv, TypeOK
<1>2. call' \in [Procs -> Call]
  BY <1>1 DEF Resolve
<1>3. \A q \in Procs : /\ CallOK(call'[q])
                       /\ Unspent(call'[q]) => Unspent(call[q])
  BY <1>1 DEF Resolve, IInv, CallInv
<1>4. CountInv' /\ CallInv'
  BY <1>2, <1>3, CallsStep
<1>5. NoExchange \in Exchange /\ NoExchange.pc = "none"
  BY ConstantsAssumption DEF NoExchange, Exchange
<1>6. exchange' = [exchange EXCEPT ![g] = NoExchange]
  BY DEF Resolve
<1>. QED
  BY <1>1, <1>2, <1>4, <1>5, <1>6 DEF IInv, ExchangeInv

\* The cache is left alone while an exchange ends.
LEMMA ResolvedInv ==
    ASSUME IInv, NEW g \in Generations, NEW d, Resolve(g, d),
           \A q \in Procs : (At(q, "wait") /\ call[q].gen = g) =>
               /\ d[q] \in Call /\ CallOK(d[q])
               /\ Unspent(d[q]) => Unspent(call[q]),
           UNCHANGED <<apiKey, generation, requests, stores>>
    PROVE  IInv'
<1>1. /\ call' \in [Procs -> Call] /\ CountInv' /\ CallInv'
      /\ exchange' \in [Generations -> Exchange] /\ ExchangeInv'
      /\ \A h \in Generations : exchange'[h].pc \in {"fetch", "store"} =>
            exchange[h].pc \in {"fetch", "store"}
  BY ResolveInv
<1>2. TypeOK'
  BY <1>1 DEF IInv, TypeOK
<1>3. StoreInv'
  BY <1>1 DEF IInv, TypeOK, StoreInv, OneKeyAGeneration
<1>. QED
  BY <1>1, <1>2, <1>3 DEF IInv

\* A waiter may go on with a key that is not older than its exchange.
LEMMA WithKeyOK ==
    ASSUME IInv, NEW g \in Generations, NEW k \in g..generation,
           NEW q \in Procs, At(q, "wait"), call[q].gen = g
    PROVE  /\ WithKey(k)[q] \in Call /\ CallOK(WithKey(k)[q])
           /\ Unspent(WithKey(k)[q]) => Unspent(call[q])
<1>. DEFINE c == [call[q] EXCEPT !.pc = "send", !.key = k]
<1>1. /\ call[q] \in Call /\ CallOK(call[q]) /\ call[q].pc = "wait"
      /\ generation \in Generations /\ generation \in Nat
  BY ConstantsAssumption DEF IInv, TypeOK, CallInv, At, Generations
<1>2. k \in Keys
  BY <1>1, ConstantsAssumption DEF Keys, Generations
<1>3. c \in Call
  <2>. HIDE DEF Keys, Generations
  <2>. QED
    BY <1>1, <1>2 DEF Call
<1>4. CallOK(c)
  <2>1. call[q].since \in Nat /\ call[q].since <= g
    BY <1>1 DEF Call, CallOK, Generations
  <2>2. k \in call[q].since..generation
    BY <1>1, <2>1 DEF Generations
  <2>. QED
    BY <1>1, <2>2 DEF Call, CallOK
<1>5. Unspent(c) => Unspent(call[q])
  BY <1>1 DEF Call, Unspent
<1>6. WithKey(k)[q] = c
  BY DEF WithKey
<1>. QED
  BY <1>3, <1>4, <1>5, <1>6

LEMMA CheckInv ==
    ASSUME IInv, NEW g \in Generations, Check(g)
    PROVE  IInv'
<1>1. /\ exchange[g] \in Exchange /\ exchange[g].pc = "check"
      /\ g <= generation /\ generation \in Nat /\ generation \in Generations
      /\ apiKey # NoKey => apiKey = generation
  BY ConstantsAssumption
     DEF IInv, TypeOK, ExchangeInv, StoreInv, Check, Generations
<1>2. CASE apiKey # NoKey
  <2>1. Resolve(g, WithKey(apiKey))
    BY <1>2 DEF Check
  <2>2. apiKey \in g..generation
    BY <1>1, <1>2 DEF Generations
  <2>3. \A q \in Procs : (At(q, "wait") /\ call[q].gen = g) =>
           /\ WithKey(apiKey)[q] \in Call /\ CallOK(WithKey(apiKey)[q])
           /\ Unspent(WithKey(apiKey)[q]) => Unspent(call[q])
    BY <2>2, WithKeyOK
  <2>. QED
    BY <2>1, <2>3, ResolvedInv DEF Check
<1>3. CASE apiKey = NoKey
  <2>. DEFINE e == [exchange[g] EXCEPT !.pc = "fetch", !.attempt = 1,
                                       !.key = generation]
  <2>1. e \in Exchange /\ e.key = generation /\ e.pc = "fetch"
    <3>1. 1 \in 0..MaxAttempts
      BY ConstantsAssumption
    <3>. HIDE DEF Generations
    <3>. QED
      BY <1>1, <3>1 DEF Exchange, Keys
  <2>2. exchange' = [exchange EXCEPT ![g] = e]
    BY <1>3 DEF Check
  <2>3. UNCHANGED <<apiKey, generation, requests, call, stores>>
    BY <1>3 DEF Check
  <2>4. e.key \in g..generation
    BY <1>1, <2>1 DEF Generations
  <2>. HIDE DEF e
  <2>. QED
    BY <1>1, <1>3, <2>1, <2>2, <2>3, <2>4, ExchangeStepInv
<1>. QED
  BY <1>2, <1>3

LEMMA FetchFailsInv ==
    ASSUME IInv, NEW g \in Generations, FetchFails(g)
    PROVE  IInv'
<1>1. generation \in Nat
  BY ConstantsAssumption DEF IInv, TypeOK, Generations
<1>2. \A q \in Procs : /\ Failed[q] \in Call /\ CallOK(Failed[q])
                       /\ Unspent(Failed[q]) => Unspent(call[q])
  BY <1>1, NoCallOK DEF Failed
<1>3. Resolve(g, Failed) /\ UNCHANGED <<apiKey, generation, requests, stores>>
  BY DEF FetchFails
<1>. QED
  BY <1>2, <1>3, ResolvedInv

\* A key is cached only by the exchange of the present generation, once.
LEMMA StoreStepInv ==
    ASSUME IInv, NEW g \in Generations, Store(g)
    PROVE  IInv'
<1>1. /\ exchange[g] \in Exchange /\ exchange[g].pc = "store"
      /\ g <= generation /\ generation \in Nat /\ g \in Nat
      /\ exchange[g].key \in g..generation
      /\ stores \in [Generations -> Nat]
      /\ exchange \in [Generations -> Exchange]
  BY ConstantsAssumption DEF IInv, TypeOK, ExchangeInv, Store, Generations
<1>2. CASE generation = g
  <2>1. exchange[g].key = g
    BY <1>1, <1>2
  <2>2. /\ Resolve(g, WithKey(g))
        /\ apiKey' = g /\ stores' = [stores EXCEPT ![g] = @ + 1]
        /\ UNCHANGED <<generation, requests>>
    BY <1>2, <2>1 DEF Store
  <2>3. \A q \in Procs : (At(q, "wait") /\ call[q].gen = g) =>
           /\ WithKey(g)[q] \in Call /\ CallOK(WithKey(g)[q])
           /\ Unspent(WithKey(g)[q]) => Unspent(call[q])
    BY <1>1, <1>2, WithKeyOK
  <2>4. /\ call' \in [Procs -> Call] /\ CountInv' /\ CallInv'
        /\ exchange' \in [Generations -> Exchange] /\ ExchangeInv'
        /\ exchange'[g].pc = "none"
    BY <2>2, <2>3, ResolveInv
  <2>5. stores[g] = 0
    BY <1>1, <1>2 DEF IInv, StoreInv
  <2>6. g # NoKey
    BY ConstantsAssumption DEF Generations
  <2>7. TypeOK'
    <3>1. stores' \in [Generations -> Nat]
      BY <1>1, <2>2
    <3>2. apiKey' \in Keys
      BY <2>2 DEF Keys
    <3>. QED
      BY <2>2, <2>4, <3>1, <3>2 DEF IInv, TypeOK
  <2>8. StoreInv'
    BY <1>1, <1>2, <2>2, <2>4, <2>5, <2>6
       DEF IInv, StoreInv, OneKeyAGeneration, Generations
  <2>. QED
    BY <2>4, <2>7, <2>8 DEF IInv
<1>3. CASE generation # g
  <2>1. Resolve(g, Again) /\ UNCHANGED <<apiKey, generation, requests, stores>>
    BY <1>3 DEF Store
  <2>2. \A q \in Procs : At(q, "wait") =>
           /\ Again[q] \in Call /\ CallOK(Again[q])
           /\ Unspent(Again[q]) => Unspent(call[q])
    BY DEF Again, At, Call, CallOK, Unspent, IInv, TypeOK, CallInv
  <2>. QED
    BY <2>1, <2>2, ResolvedInv
<1>. QED
  BY <1>2, <1>3

----------------------------------------------------------------------------
(* The invariant and what follows from it *)

\* The invariant holds at first.
LEMMA InitInv == Init => IInv
<1>. SUFFICES ASSUME Init PROVE IInv
  OBVIOUS
<1>1. 0 \in Generations /\ NoCall \in Call /\ generation = 0
  BY NoCallOK, ConstantsAssumption DEF Generations, Init
<1>2. NoExchange \in Exchange /\ NoExchange.pc = "none"
  BY ConstantsAssumption DEF NoExchange, Exchange
<1>3. TypeOK
  BY <1>1, <1>2, ConstantsAssumption DEF Init, TypeOK
<1>4. CountInv
  <2>1. UnspentCalls = {}
    BY NoCallOK DEF Init, UnspentCalls
  <2>. QED
    BY <2>1, FS_EmptySet DEF Init, CountInv
<1>5. CallInv
  BY <1>1, NoCallOK DEF Init, CallInv
<1>6. ExchangeInv /\ StoreInv
  BY <1>1, <1>2
     DEF Init, ExchangeInv, StoreInv, OneKeyAGeneration
<1>. QED
  BY <1>3, <1>4, <1>5, <1>6 DEF IInv

\* Every step keeps it.
LEMMA NextInv == IInv /\ [Next]_vars => IInv'
<1>. SUFFICES ASSUME IInv, [Next]_vars PROVE IInv'
  OBVIOUS
<1>1. ASSUME NEW p \in Procs, Begin(p) PROVE IInv'
  BY <1>1, BeginInv
<1>2. ASSUME NEW p \in Procs, Cached(p) PROVE IInv'
  BY <1>2, CachedInv
<1>3. ASSUME NEW p \in Procs, Join(p) PROVE IInv'
  BY <1>3, JoinInv
<1>4. ASSUME NEW p \in Procs, WaitCancelled(p) \/ Answered(p) PROVE IInv'
  BY <1>4, ReturnStep DEF WaitCancelled, Answered
<1>5. ASSUME NEW p \in Procs, Refused(p) PROVE IInv'
  BY <1>5, RefusedInv
<1>6. ASSUME NEW p \in Procs, Invalidate(p) PROVE IInv'
  BY <1>6, InvalidateInv
<1>7. ASSUME NEW g \in Generations, ExchangeStep(g) PROVE IInv'
  BY <1>7, CheckInv, FetchedInv, FetchRetriedInv, FetchFailsInv, StoreStepInv
     DEF ExchangeStep
<1>8. CASE UNCHANGED vars
  BY <1>8 DEF vars, providerVars, IInv, TypeOK, CountInv, UnspentCalls,
              CallInv, CallOK, ExchangeInv, StoreInv, OneKeyAGeneration
<1>. QED
  BY <1>1, <1>2, <1>3, <1>4, <1>5, <1>6, <1>7, <1>8
     DEF Next, RequestStep, Finished

\* It implies the properties.
LEMMA InvImplies ==
    IInv => TypeOK /\ KeyIsFresh /\ RetryHasNewKey /\ OneKeyAGeneration
<1>. SUFFICES ASSUME IInv
              PROVE  TypeOK /\ KeyIsFresh /\ RetryHasNewKey
                     /\ OneKeyAGeneration
  OBVIOUS
<1>1. \A p \in Procs : call[p] \in Call /\ CallOK(call[p])
  BY DEF IInv, TypeOK, CallInv
<1>2. KeyIsFresh
  BY <1>1 DEF KeyIsFresh, At, Call, CallOK, Generations
<1>3. RetryHasNewKey
  BY <1>1 DEF RetryHasNewKey, At, Call, CallOK, Generations
<1>. QED
  BY <1>2, <1>3 DEF IInv, StoreInv

\* The inductive invariant, from which the others follow.
THEOREM InvHolds == Spec => []IInv
BY InitInv, NextInv, PTL DEF Spec

\* Every variable keeps its type; in particular generations have a bound, as
\* every request invalidates once at most.
THEOREM Typed == Spec => []TypeOK
<1>1. IInv => TypeOK
  BY InvImplies
<1>. QED
  BY <1>1, InvHolds, PTL

\* APIKey never returns a key that was fetched before an Invalidate that came
\* before the call.
THEOREM KeysAreFresh == Spec => []KeyIsFresh
<1>1. IInv => KeyIsFresh
  BY InvImplies
<1>. QED
  BY <1>1, InvHolds, PTL

\* A request that is sent again has another key than the one refused.
THEOREM RetriesHaveNewKeys == Spec => []RetryHasNewKey
<1>1. IInv => RetryHasNewKey
  BY InvImplies
<1>. QED
  BY <1>1, InvHolds, PTL

\* Between two Invalidates one key is cached at most.
THEOREM OneKeyCached == Spec => []OneKeyAGeneration
<1>1. IInv => OneKeyAGeneration
  BY InvImplies
<1>. QED
  BY <1>1, InvHolds, PTL
=============================================================================
