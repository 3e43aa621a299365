------------------------ MODULE SkillRegistryProofs ------------------------
(***************************************************************************)
(* What TLAPS proves of SkillRegistry: every pin is accounted for at every *)
(* step, so Prune spares live revisions; generations are whole and keep    *)
(* the listings they say they keep.                                        *)
(***************************************************************************)
EXTENDS SkillRegistry, Integers, FiniteSetTheorems, TLAPS

----------------------------------------------------------------------------
(* Types *)

TypeOK ==
    /\ pins \in [Revisions -> Int]
    /\ published \in [Revisions -> {"absent", "good", "damaged"}]
    /\ gate \in Procs \cup {NoProc}
    /\ writer \in Procs \cup {NoProc}
    /\ entries \in Entries
    /\ previous \in [Sources -> SUBSET Revisions]
    /\ snapshot \in [Snapshots -> Entries]
    /\ state \in [Snapshots -> {"none", "open", "closing", "closed"}]
    /\ delivered \in [Snapshots -> SUBSET Revisions]
    /\ calls \in 0..MaxCalls
    /\ call \in [Procs -> Call]

\* A goroutine that is in a call has the call's number, and no other has it.
IdInv ==
    /\ \A p \in Procs : ~At(p, "idle") => call[p].id \in 1..calls
    /\ \A p, q \in Procs :
          p # q /\ ~At(p, "idle") /\ ~At(q, "idle") => call[p].id # call[q].id

\* Refresh asks the sources in their order, and has asked those before; a Get
\* that reads the cache has a revision to read.
LocalInv ==
    \A p \in Procs :
        /\ At(p, "refresh") => call[p].source = 1 /\ call[p].lists = NoLists
                                 /\ call[p].kept = {}
        /\ At(p, "discover") =>
              /\ call[p].source \in Sources
              /\ \A s \in Sources : s >= call[p].source =>
                    s \notin call[p].kept /\ call[p].lists[s] = {}
        /\ At(p, "fetch") => call[p].get \in Revisions

TInv == TypeOK /\ IdInv /\ LocalInv

\* The generation that a local read and the listings leave is one.
LEMMA EntriesTyped ==
    /\ Nothing \in Entries
    /\ \A e \in Entries : Remote(e) \subseteq Revisions
    /\ \A local \in SUBSET LocalNames :
          [n \in Names |-> IF n \in local THEN Local ELSE NoEntry] \in Entries
  BY DEF Nothing, Entries, Remote

\* Merging a listing into a generation gives a generation.
LEMMA MergeTyped ==
    ASSUME NEW e \in Entries, NEW list \in SUBSET Revisions
    PROVE  /\ Merge(e, list) \in Entries
           /\ \A n \in Names :
                 IF e[n] = NoEntry /\ \E d \in list : d.name = n
                    THEN Merge(e, list)[n] \in list /\ Merge(e, list)[n].name = n
                    ELSE Merge(e, list)[n] = e[n]
<1> DEFINE named(n) == CHOOSE d \in list : d.name = n
           got(n)   == e[n] = NoEntry /\ \E d \in list : d.name = n
<1>1. \A n \in Names : got(n) => named(n) \in list /\ named(n).name = n
  OBVIOUS
<1>2. Merge(e, list) = [n \in Names |-> IF got(n) THEN named(n) ELSE e[n]]
  BY DEF Merge
<1> HIDE DEF named, got
<1>3. \A n \in Names : (IF got(n) THEN named(n) ELSE e[n]) \in Revisions \cup {Local, NoEntry}
  BY <1>1 DEF Entries
<1>4. Merge(e, list) \in Entries
  BY <1>2, <1>3 DEF Entries
<1>5. \A n \in Names : IF got(n) THEN Merge(e, list)[n] \in list /\ Merge(e, list)[n].name = n
                                  ELSE Merge(e, list)[n] = e[n]
  BY <1>1, <1>2
<1> QED
  BY <1>4, <1>5 DEF got

\* No call is a call of its own.
LEMMA NoCallTyped == NoCall \in Call
  BY RegistryAssumption, EntriesTyped DEF NoCall, Call, NoLists, Sources

\* Nobody is in a call at first.
LEMMA InitTyped == RegistryInit => TInv
<1> SUFFICES ASSUME RegistryInit PROVE TInv
  OBVIOUS
<1>1. NoCall \in Call
  BY NoCallTyped
<1>2. TypeOK
  BY <1>1, RegistryAssumption, EntriesTyped, StoreAssumption
     DEF RegistryInit, StoreInit, TypeOK, NoLists, Snapshots
<1>3. \A p \in Procs : call[p].pc = "idle"
  BY DEF RegistryInit, NoCall
<1> QED
  BY <1>2, <1>3 DEF TInv, IdInv, LocalInv, At

\* A goroutine's call is all that Becomes changes of call.
LEMMA BecomesOf ==
    ASSUME TypeOK, NEW p \in Procs, NEW c, Becomes(p, c)
    PROVE  call'[p] = c /\ \A q \in Procs : q # p => call'[q] = call[q]
  BY DEF TypeOK, Becomes

\* ... and it keeps the type of call.
LEMMA BecomesTyped ==
    ASSUME TypeOK, NEW p \in Procs, NEW c \in Call, Becomes(p, c)
    PROVE  call' \in [Procs -> Call]
  BY DEF TypeOK, Becomes

\* What the steps of a goroutine's call do to the call.
Gone(p) == call'[p] = NoCall

Kept(p) ==
    /\ call'[p].id = call[p].id
    /\ call'[p].next = call[p].next
    /\ call'[p].lists = call[p].lists
    /\ call'[p].kept = call[p].kept
    /\ call'[p].source = call[p].source

Goes(p, label) == call'[p].pc = label /\ Kept(p)

\* A step of one goroutine leaves the calls of the others alone.
Moves(p) ==
    /\ call' \in [Procs -> Call]
    /\ \A q \in Procs : q # p => call'[q] = call[q]

BeginFacts(p) ==
    /\ calls < MaxCalls /\ calls' = calls + 1
    /\ call'[p].id = calls + 1
    /\ call'[p].source = 1 /\ call'[p].lists = NoLists /\ call'[p].kept = {}
    /\ call'[p].todo = {} /\ call'[p].next = Nothing
    /\ \/ call'[p].pc \in {"refresh", "snapshot", "release"}
       \/ /\ call'[p].pc \in {"get", "close"}
          /\ call'[p].snap \in Snapshots
          /\ state[call'[p].snap] # "none"

\* A call begins with a fresh ID; Get and Close need a snapshot that exists.
LEMMA BeginCall ==
    ASSUME TypeOK, NEW p \in Procs, Begin(p)
    PROVE  BeginFacts(p) /\ Moves(p) /\ calls' \in 0..MaxCalls
<1>0. calls' = calls + 1 /\ calls < MaxCalls
  BY Zenon DEF Begin
<1>1. calls + 1 \in 0..MaxCalls /\ calls' = calls + 1 /\ calls < MaxCalls
  BY <1>0, RegistryAssumption DEF TypeOK
<1>2. CASE \E label \in {"refresh", "snapshot", "release"} :
             Becomes(p, [NoCall EXCEPT !.pc = label, !.id = calls + 1])
  <2>1. PICK label \in {"refresh", "snapshot", "release"} :
             Becomes(p, [NoCall EXCEPT !.pc = label, !.id = calls + 1])
    BY <1>2
  <2> DEFINE c == [NoCall EXCEPT !.pc = label, !.id = calls + 1]
  <2>2. c \in Call /\ c.pc = label /\ c.id = calls + 1 /\ c.source = 1 /\ c.lists = NoLists
          /\ c.kept = {} /\ c.todo = {} /\ c.next = Nothing
    BY <1>1, NoCallTyped DEF NoCall, Call
  <2>3. Becomes(p, c)
    BY <2>1
  <2> HIDE DEF c
  <2> QED
    BY <1>1, <2>2, <2>3, BecomesOf, BecomesTyped DEF BeginFacts, Moves
<1>3. CASE \E label \in {"get", "close"}, i \in Snapshots :
             /\ state[i] # "none"
             /\ Becomes(p, [NoCall EXCEPT !.pc = label, !.id = calls + 1,
                                          !.snap = i])
  <2>1. PICK label \in {"get", "close"}, i \in Snapshots :
             /\ state[i] # "none"
             /\ Becomes(p, [NoCall EXCEPT !.pc = label, !.id = calls + 1,
                                          !.snap = i])
    BY <1>3
  <2> DEFINE c == [NoCall EXCEPT !.pc = label, !.id = calls + 1, !.snap = i]
  <2>2. c \in Call /\ c.pc = label /\ c.id = calls + 1 /\ c.source = 1 /\ c.lists = NoLists
          /\ c.kept = {} /\ c.todo = {} /\ c.next = Nothing /\ c.snap = i
    <3>1. i \in 0..MaxCalls
      BY RegistryAssumption DEF Snapshots
    <3> QED
      BY <1>1, <3>1, NoCallTyped DEF NoCall, Call
  <2>3. Becomes(p, c) /\ state[i] # "none"
    BY <2>1
  <2> HIDE DEF c
  <2> QED
    BY <1>1, <2>2, <2>3, BecomesOf, BecomesTyped DEF BeginFacts, Moves
<1> QED
  BY <1>2, <1>3 DEF Begin

\* A call that returns leaves nothing behind.
LEMMA ReturnCall ==
    ASSUME TypeOK, NEW p \in Procs, Return(p)
    PROVE  Gone(p) /\ Moves(p)
  BY NoCallTyped, BecomesOf, BecomesTyped DEF Return, Gone, Moves

\* Refresh has the local skills, and no listing yet.
LEMMA RefreshCall ==
    ASSUME TypeOK, LocalInv, NEW p \in Procs, Refresh(p)
    PROVE  /\ Moves(p)
           /\ call'[p].pc = IF LastSource = 0 THEN "commit" ELSE "discover"
           /\ call'[p].id = call[p].id
           /\ call'[p].source = 1 /\ call'[p].lists = NoLists /\ call'[p].kept = {}
           /\ \A n \in Names : call'[p].next[n] \in {Local, NoEntry}
<1>1. PICK local \in SUBSET LocalNames :
          Becomes(p, [call[p] EXCEPT
             !.next = [n \in Names |-> IF n \in local THEN Local ELSE NoEntry],
             !.pc = IF LastSource = 0 THEN "commit" ELSE "discover"])
  BY DEF Refresh
<1> DEFINE e == [n \in Names |-> IF n \in local THEN Local ELSE NoEntry]
           c == [call[p] EXCEPT
             !.next = e, !.pc = IF LastSource = 0 THEN "commit" ELSE "discover"]
<1>2. e \in Entries /\ \A n \in Names : e[n] \in {Local, NoEntry}
  BY EntriesTyped
<1>3. call[p] \in Call /\ call[p].source = 1 /\ call[p].lists = NoLists /\ call[p].kept = {}
  BY DEF Refresh, At, LocalInv, TypeOK
<1>4. Becomes(p, c)
  BY <1>1
<1> HIDE DEF e
<1>5. /\ c \in Call
      /\ c.pc = IF LastSource = 0 THEN "commit" ELSE "discover"
      /\ c.id = call[p].id /\ c.source = 1 /\ c.lists = NoLists /\ c.kept = {}
      /\ c.next = e
  BY <1>2, <1>3 DEF Call
<1> HIDE DEF c
<1> QED
  BY <1>2, <1>4, <1>5, BecomesOf, BecomesTyped DEF Moves

\* One more source has answered, or has its listing kept.
Asked(p, s, list, fails) ==
    /\ list \in Listings(s)
    /\ fails => list = previous[s]
    /\ call'[p].pc = IF s = LastSource THEN "commit" ELSE "discover"
    /\ call'[p].id = call[p].id
    /\ call'[p].source = s + 1
    /\ call'[p].next = Merge(call[p].next, list)
    /\ call'[p].lists = [call[p].lists EXCEPT ![s] = list]
    /\ call'[p].kept = IF fails THEN call[p].kept \cup {s} ELSE call[p].kept

\* Discover asks one source, in order.
LEMMA DiscoverCall ==
    ASSUME TypeOK, LocalInv, NEW p \in Procs, Discover(p)
    PROVE  /\ Moves(p)
           /\ \E list \in SUBSET Revisions, fails \in BOOLEAN :
                 Asked(p, call[p].source, list, fails)
<1> DEFINE s == call[p].source
           c(list, fails) == [call[p] EXCEPT
                    !.next = Merge(call[p].next, list),
                    !.lists = [call[p].lists EXCEPT ![s] = list],
                    !.kept = IF fails THEN call[p].kept \cup {s} ELSE call[p].kept,
                    !.source = s + 1,
                    !.pc = IF s = LastSource THEN "commit" ELSE "discover"]
<1>1. PICK list \in Listings(s), fails \in BOOLEAN :
          /\ fails => s \in Optional /\ list = previous[s]
          /\ Becomes(p, c(list, fails))
  BY Zenon DEF Discover
<1>2. call[p] \in Call /\ s \in 1..LastSource /\ list \in SUBSET Revisions
  BY DEF Discover, At, LocalInv, TypeOK, Listings, Sources
<1>3. /\ Merge(call[p].next, list) \in Entries
      /\ [call[p].lists EXCEPT ![s] = list] \in [Sources -> SUBSET Revisions]
      /\ s + 1 \in 1..(LastSource + 1)
  BY <1>2, MergeTyped, RegistryAssumption DEF Call, Sources
<1>4. (IF fails THEN call[p].kept \cup {s} ELSE call[p].kept) \in SUBSET Sources
  BY <1>2 DEF Call, Sources
<1> DEFINE d == c(list, fails)
<1>5. /\ d \in Call
      /\ d.pc = IF s = LastSource THEN "commit" ELSE "discover"
      /\ d.id = call[p].id
      /\ d.source = s + 1
      /\ d.next = Merge(call[p].next, list)
      /\ d.lists = [call[p].lists EXCEPT ![s] = list]
      /\ d.kept = IF fails THEN call[p].kept \cup {s} ELSE call[p].kept
  BY <1>2, <1>3, <1>4 DEF Call
<1>6. Becomes(p, d)
  BY <1>1
<1> HIDE DEF d
<1>7. Moves(p) /\ call'[p] = d
  BY <1>5, <1>6, BecomesOf, BecomesTyped DEF Moves
<1>8. Asked(p, s, list, fails)
  BY <1>1, <1>5, <1>7 DEF Asked
<1> QED
  BY <1>2, <1>7, <1>8

\* The other steps that leave the call under way: the label and the list change.
Turns(p, label, todo) ==
    /\ Moves(p)
    /\ Goes(p, label)
    /\ call'[p].todo = todo
    /\ call'[p].snap = call[p].snap

\* A pin loop takes one revision of its list.
LEMMA TakeCall ==
    ASSUME TypeOK, NEW p \in Procs, NEW r \in call[p].todo,
           Becomes(p, [call[p] EXCEPT !.todo = @ \ {r}])
    PROVE  Turns(p, call[p].pc, call[p].todo \ {r})
<1> DEFINE c == [call[p] EXCEPT !.todo = call[p].todo \ {r}]
<1>1. call[p] \in Call
  BY DEF TypeOK
<1>2. /\ c \in Call /\ c.pc = call[p].pc /\ c.todo = call[p].todo \ {r}
      /\ c.id = call[p].id /\ c.next = call[p].next /\ c.lists = call[p].lists
      /\ c.kept = call[p].kept /\ c.source = call[p].source /\ c.snap = call[p].snap
  BY <1>1 DEF Call
<1>3. Becomes(p, c)
  OBVIOUS
<1> HIDE DEF c
<1> QED
  BY <1>2, <1>3, BecomesOf, BecomesTyped DEF Turns, Moves, Goes, Kept

\* A pin loop that is over begins the next one.
LEMMA TurnCall ==
    ASSUME TypeOK, NEW p \in Procs, NEW todo \in SUBSET Revisions,
           NEW label \in {"pinNext", "unpinOld", "unpinCopy", "unpinAll"},
           Becomes(p, [call[p] EXCEPT !.todo = todo, !.pc = label])
    PROVE  Turns(p, label, todo)
<1> DEFINE c == [call[p] EXCEPT !.todo = todo, !.pc = label]
<1>1. call[p] \in Call
  BY DEF TypeOK
<1>2. /\ c \in Call /\ c.pc = label /\ c.todo = todo
      /\ c.id = call[p].id /\ c.next = call[p].next /\ c.lists = call[p].lists
      /\ c.kept = call[p].kept /\ c.source = call[p].source /\ c.snap = call[p].snap
  BY <1>1 DEF Call
<1>3. Becomes(p, c)
  OBVIOUS
<1> HIDE DEF c
<1> QED
  BY <1>2, <1>3, BecomesOf, BecomesTyped DEF Turns, Moves, Goes, Kept

\* Snapshot goes on with the snapshot that has the call's number.
LEMMA SnapshotCall ==
    ASSUME TypeOK, NEW p \in Procs, Snapshot(p)
    PROVE  /\ Moves(p) /\ Goes(p, "pinCopy")
           /\ call'[p].snap = call[p].id
           /\ call'[p].todo = Remote(entries)
<1> DEFINE c == [call[p] EXCEPT !.snap = call[p].id, !.todo = Remote(entries),
                                !.pc = "pinCopy"]
<1>1. call[p] \in Call /\ Remote(entries) \subseteq Revisions
  BY EntriesTyped DEF TypeOK
<1>2. /\ c \in Call /\ c.pc = "pinCopy" /\ c.todo = Remote(entries)
      /\ c.id = call[p].id /\ c.next = call[p].next /\ c.lists = call[p].lists
      /\ c.kept = call[p].kept /\ c.source = call[p].source /\ c.snap = call[p].id
  BY <1>1 DEF Call
<1>3. Becomes(p, c)
  BY DEF Snapshot
<1> HIDE DEF c
<1> QED
  BY <1>2, <1>3, BecomesOf, BecomesTyped DEF Moves, Goes, Kept

\* Get has found its revision, or returns.
LEMMA GetCall ==
    ASSUME TypeOK, NEW p \in Procs, Get(p)
    PROVE  /\ Moves(p)
           /\ \/ Gone(p)
              \/ /\ state[call[p].snap] = "open"
                 /\ Goes(p, "fetch")
                 /\ call'[p].snap = call[p].snap
                 /\ call'[p].get \in Revisions
<1>1. CASE Return(p)
  BY <1>1, ReturnCall
<1>2. CASE /\ state[call[p].snap] = "open"
           /\ \A q \in Procs : ~At(q, "fetch")
           /\ \E r \in Remote(snapshot[call[p].snap]) :
                 Becomes(p, [call[p] EXCEPT !.get = r, !.pc = "fetch"])
  <2>1. PICK r \in Remote(snapshot[call[p].snap]) :
                 Becomes(p, [call[p] EXCEPT !.get = r, !.pc = "fetch"])
    BY <1>2
  <2> DEFINE c == [call[p] EXCEPT !.get = r, !.pc = "fetch"]
  <2>2. call[p] \in Call /\ r \in Revisions
    BY DEF TypeOK, Remote
  <2>3. /\ c \in Call /\ c.pc = "fetch" /\ c.get = r
        /\ c.id = call[p].id /\ c.next = call[p].next /\ c.lists = call[p].lists
        /\ c.kept = call[p].kept /\ c.source = call[p].source /\ c.snap = call[p].snap
    BY <2>2 DEF Call
  <2>4. Becomes(p, c)
    BY <2>1
  <2> HIDE DEF c
  <2> QED
    BY <1>2, <2>2, <2>3, <2>4, BecomesOf, BecomesTyped DEF Moves, Goes, Kept
<1> QED
  BY <1>1, <1>2 DEF Get

\* Close of the registry goes for the lock.
LEMMA ReleaseCall ==
    ASSUME TypeOK, NEW p \in Procs, Release(p)
    PROVE  Moves(p) /\ Goes(p, "releaseLock")
<1> DEFINE c == [call[p] EXCEPT !.pc = "releaseLock"]
<1>1. call[p] \in Call
  BY DEF TypeOK
<1>2. /\ c \in Call /\ c.pc = "releaseLock"
      /\ c.id = call[p].id /\ c.next = call[p].next /\ c.lists = call[p].lists
      /\ c.kept = call[p].kept /\ c.source = call[p].source
  BY <1>1 DEF Call
<1>3. Becomes(p, c)
  BY DEF Release
<1> HIDE DEF c
<1> QED
  BY <1>2, <1>3, BecomesOf, BecomesTyped DEF Moves, Goes, Kept

\* A pin loop takes a revision from its list.
Took(p, r) ==
    r \in call[p].todo /\ Turns(p, call[p].pc, call[p].todo \ {r})

\* PinNext pins a revision, or is over.
LEMMA PinNextCases ==
    ASSUME TypeOK, NEW p \in Procs, PinNext(p)
    PROVE  \/ \E r \in Revisions : Pin(r) /\ Took(p, r)
           \/ /\ call[p].todo = {}
              /\ Turns(p, "unpinOld", Remote(entries))
              /\ UNCHANGED pins
<1>0. call[p].todo \subseteq Revisions
  BY DEF TypeOK, Call
<1>1. CASE \E r \in call[p].todo :
             /\ Pin(r)
             /\ Becomes(p, [call[p] EXCEPT !.todo = @ \ {r}])
  BY <1>0, <1>1, TakeCall DEF Took
<1>2. CASE /\ call[p].todo = {}
           /\ Becomes(p, [call[p] EXCEPT !.todo = Remote(entries), !.pc = "unpinOld"])
           /\ UNCHANGED pins
  BY <1>2, TurnCall, EntriesTyped DEF TypeOK
<1> QED
  BY <1>1, <1>2, Zenon DEF PinNext

\* UnpinOld unpins a revision, or publishes the generation.
LEMMA UnpinOldCases ==
    ASSUME TypeOK, NEW p \in Procs, UnpinOld(p)
    PROVE  \/ \E r \in Revisions :
                 Unpin(r) /\ Took(p, r) /\ UNCHANGED registryVars
           \/ /\ call[p].todo = {}
              /\ entries' = call[p].next
              /\ previous' = call[p].lists
              /\ gate' = NoProc /\ writer' = NoProc
              /\ Gone(p) /\ Moves(p)
              /\ UNCHANGED pins
<1>0. call[p].todo \subseteq Revisions
  BY DEF TypeOK, Call
<1>1. CASE \E r \in call[p].todo :
             /\ Unpin(r)
             /\ Becomes(p, [call[p] EXCEPT !.todo = @ \ {r}])
             /\ UNCHANGED registryVars
  BY <1>0, <1>1, TakeCall DEF Took
<1>2. CASE /\ call[p].todo = {}
           /\ entries' = call[p].next
           /\ previous' = call[p].lists
           /\ gate' = NoProc /\ writer' = NoProc
           /\ Return(p)
           /\ UNCHANGED pins
  BY <1>2, ReturnCall
<1> QED
  BY <1>1, <1>2, Zenon DEF UnpinOld

\* PinCopy pins a revision, or opens the snapshot.
LEMMA PinCopyCases ==
    ASSUME TypeOK, NEW p \in Procs, PinCopy(p)
    PROVE  \/ \E r \in Revisions : Pin(r) /\ Took(p, r) /\ UNCHANGED state
           \/ /\ call[p].todo = {}
              /\ state' = [state EXCEPT ![call[p].snap] = "open"]
              /\ Gone(p) /\ Moves(p)
              /\ UNCHANGED pins
<1>0. call[p].todo \subseteq Revisions
  BY DEF TypeOK, Call
<1>1. CASE \E r \in call[p].todo :
             /\ Pin(r)
             /\ Becomes(p, [call[p] EXCEPT !.todo = @ \ {r}])
             /\ UNCHANGED state
  BY <1>0, <1>1, TakeCall DEF Took
<1>2. CASE /\ call[p].todo = {}
           /\ state' = [state EXCEPT ![call[p].snap] = "open"]
           /\ Return(p)
           /\ UNCHANGED pins
  BY <1>2, ReturnCall
<1> QED
  BY <1>1, <1>2, Zenon DEF PinCopy

\* UnpinCopy unpins a revision, or is over.
LEMMA UnpinCopyCases ==
    ASSUME TypeOK, NEW p \in Procs, UnpinCopy(p)
    PROVE  \/ \E r \in Revisions : Unpin(r) /\ Took(p, r) /\ UNCHANGED state
           \/ /\ call[p].todo = {}
              /\ state' = [state EXCEPT ![call[p].snap] = "closed"]
              /\ Gone(p) /\ Moves(p)
              /\ UNCHANGED pins
<1>0. call[p].todo \subseteq Revisions
  BY DEF TypeOK, Call
<1>1. CASE \E r \in call[p].todo :
             /\ Unpin(r)
             /\ Becomes(p, [call[p] EXCEPT !.todo = @ \ {r}])
             /\ UNCHANGED state
  BY <1>0, <1>1, TakeCall DEF Took
<1>2. CASE /\ call[p].todo = {}
           /\ state' = [state EXCEPT ![call[p].snap] = "closed"]
           /\ Return(p)
           /\ UNCHANGED pins
  BY <1>2, ReturnCall
<1> QED
  BY <1>1, <1>2, Zenon DEF UnpinCopy

\* UnpinAll unpins a revision, or has closed the registry.
LEMMA UnpinAllCases ==
    ASSUME TypeOK, NEW p \in Procs, UnpinAll(p)
    PROVE  \/ \E r \in Revisions :
                 Unpin(r) /\ Took(p, r) /\ UNCHANGED registryVars
           \/ /\ call[p].todo = {}
              /\ entries' = Nothing
              /\ previous' = NoLists
              /\ gate' = IF gate = p THEN NoProc ELSE gate
              /\ writer' = NoProc
              /\ Gone(p) /\ Moves(p)
              /\ UNCHANGED pins
<1>0. call[p].todo \subseteq Revisions
  BY DEF TypeOK, Call
<1>1. CASE \E r \in call[p].todo :
             /\ Unpin(r)
             /\ Becomes(p, [call[p] EXCEPT !.todo = @ \ {r}])
             /\ UNCHANGED registryVars
  BY <1>0, <1>1, TakeCall DEF Took
<1>2. CASE /\ call[p].todo = {}
           /\ entries' = Nothing
           /\ previous' = NoLists
           /\ gate' = IF gate = p THEN NoProc ELSE gate
           /\ writer' = NoProc
           /\ Return(p)
           /\ UNCHANGED pins
  BY <1>2, ReturnCall
<1> QED
  BY <1>1, <1>2, Zenon DEF UnpinAll

\* Close returns at once from a snapshot that is closed.
LEMMA CloseCases ==
    ASSUME TypeOK, NEW p \in Procs, Close(p)
    PROVE  \/ state[call[p].snap] = "closed" /\ Gone(p) /\ Moves(p)
                /\ UNCHANGED state
           \/ /\ state[call[p].snap] \notin {"closed", "closing"}
              /\ state' = [state EXCEPT ![call[p].snap] = "closing"]
              /\ Turns(p, "unpinCopy", Remote(snapshot[call[p].snap]))
<1>0. Remote(snapshot[call[p].snap]) \in SUBSET Revisions
  BY DEF Remote
<1>1. CASE state[call[p].snap] = "closed" /\ Return(p) /\ UNCHANGED state
  BY <1>1, ReturnCall
<1>2. CASE /\ state[call[p].snap] \notin {"closed", "closing"}
           /\ state' = [state EXCEPT ![call[p].snap] = "closing"]
           /\ Becomes(p, [call[p] EXCEPT
                     !.todo = Remote(snapshot[call[p].snap]),
                     !.pc = "unpinCopy"])
  BY <1>0, <1>2, TurnCall
<1> QED
  BY <1>1, <1>2 DEF Close

\* The steps that one goroutine takes.
Step(p) == Begin(p) \/ RefreshStep(p) \/ SnapshotStep(p) \/ ReleaseStep(p)

\* Every step of a goroutine changes its own call only: it begins one, goes on
\* with it or ends it.
Continues(p) ==
    /\ ~At(p, "idle")
    /\ calls' = calls
    /\ \/ UNCHANGED call
       \/ Moves(p) /\ (Gone(p) \/ call'[p].id = call[p].id)

\* Every step begins a call of the goroutine or continues it.
LEMMA StepMoves ==
    ASSUME TypeOK, LocalInv, NEW p \in Procs, Step(p)
    PROVE  (BeginFacts(p) /\ Moves(p)) \/ Continues(p)
<1>1. CASE Begin(p)
  BY <1>1, BeginCall
<1>2. CASE RefreshStep(p)
  <2>1. CASE Commit(p)
    <3>1. Turns(p, "pinNext", Remote(call[p].next))
      BY <2>1, TurnCall, EntriesTyped DEF Commit, TypeOK, Call
    <3> QED
      BY <2>1, <3>1 DEF Commit, Continues, Turns, Goes, Kept, At
  <2>2. CASE Refresh(p)
    BY <2>2, RefreshCall, Zenon DEF Refresh, Continues, At
  <2>3. CASE Discover(p)
    BY <2>3, DiscoverCall, Zenon DEF Discover, Asked, Continues, At
  <2>4. CASE RefreshFails(p)
    BY <2>4, ReturnCall DEF RefreshFails, Continues, At
  <2>5. CASE PinNext(p)
    <3>1. At(p, "pinNext") /\ calls' = calls
      BY <2>5, Zenon DEF PinNext
    <3> QED
      BY <2>5, <3>1, PinNextCases DEF Continues, Took, Turns, Goes, Kept, At
  <2>6. CASE UnpinOld(p)
    <3>1. At(p, "unpinOld") /\ calls' = calls
      BY <2>6, Zenon DEF UnpinOld
    <3> QED
      BY <2>6, <3>1, UnpinOldCases DEF Continues, Took, Turns, Goes, Kept, At
  <2> QED
    BY <1>2, <2>1, <2>2, <2>3, <2>4, <2>5, <2>6 DEF RefreshStep
<1>3. CASE SnapshotStep(p)
  <2>1. CASE Snapshot(p)
    BY <2>1, SnapshotCall DEF Snapshot, Continues, Goes, Kept, At
  <2>2. CASE PinCopy(p)
    <3>1. At(p, "pinCopy") /\ calls' = calls
      BY <2>2, Zenon DEF PinCopy
    <3> QED
      BY <2>2, <3>1, PinCopyCases DEF Continues, Took, Turns, Goes, Kept, At
  <2>3. CASE Get(p)
    <3>1. At(p, "get") /\ calls' = calls
      BY <2>3, Zenon DEF Get
    <3> QED
      BY <2>3, <3>1, GetCall DEF Continues, Goes, Kept, At
  <2>4. CASE Hit(p) \/ Fetch(p) \/ GetFails(p)
    BY <2>4, ReturnCall DEF Hit, Fetch, GetFails, Continues, At
  <2>5. CASE Remove(p)
    BY <2>5, Zenon DEF Remove, Continues, At
  <2>6. CASE Close(p)
    <3>1. At(p, "close") /\ calls' = calls
      BY <2>6, Zenon DEF Close
    <3> QED
      BY <2>6, <3>1, CloseCases DEF Continues, Turns, Goes, Kept, At
  <2>7. CASE UnpinCopy(p)
    <3>1. At(p, "unpinCopy") /\ calls' = calls
      BY <2>7, Zenon DEF UnpinCopy
    <3> QED
      BY <2>7, <3>1, UnpinCopyCases DEF Continues, Took, Turns, Goes, Kept, At
  <2> QED
    BY <1>3, <2>1, <2>2, <2>3, <2>4, <2>5, <2>6, <2>7 DEF SnapshotStep
<1>4. CASE ReleaseStep(p)
  <2>1. CASE Release(p)
    BY <2>1, ReleaseCall DEF Release, Continues, Goes, Kept, At
  <2>2. CASE ReleaseLock(p)
    <3>1. Turns(p, "unpinAll", Remote(entries))
      BY <2>2, TurnCall, EntriesTyped DEF ReleaseLock, TypeOK
    <3> QED
      BY <2>2, <3>1 DEF ReleaseLock, Continues, Turns, Goes, Kept, At
  <2>3. CASE UnpinAll(p)
    <3>1. At(p, "unpinAll") /\ calls' = calls
      BY <2>3, Zenon DEF UnpinAll
    <3> QED
      BY <2>3, <3>1, UnpinAllCases DEF Continues, Took, Turns, Goes, Kept, At
  <2> QED
    BY <1>4, <2>1, <2>2, <2>3 DEF ReleaseStep
<1> QED
  BY <1>1, <1>2, <1>3, <1>4 DEF Step

\* What is kept of the disk, of the registry and of the snapshots has its type.
RestTyped ==
    /\ pins \in [Revisions -> Int]
    /\ published \in [Revisions -> {"absent", "good", "damaged"}]
    /\ gate \in Procs \cup {NoProc}
    /\ writer \in Procs \cup {NoProc}
    /\ entries \in Entries
    /\ previous \in [Sources -> SUBSET Revisions]
    /\ snapshot \in [Snapshots -> Entries]
    /\ state \in [Snapshots -> {"none", "open", "closing", "closed"}]
    /\ delivered \in [Snapshots -> SUBSET Revisions]
    /\ calls \in 0..MaxCalls

\* A step keeps the types of all that is not a call.
LEMMA StepRest ==
    ASSUME TypeOK, LocalInv, NEW p \in Procs, Step(p)
    PROVE  RestTyped'
<1>0. RestTyped /\ call[p] \in Call /\ Nothing \in Entries /\ NoLists \in [Sources -> SUBSET Revisions]
  BY EntriesTyped DEF TypeOK, RestTyped, NoLists
<1>1. CASE Begin(p)
  BY <1>0, <1>1, BeginCall, Zenon
     DEF RestTyped, Begin, storeVars, registryVars, snapshotVars
<1>2. CASE RefreshStep(p)
  <2>1. CASE Refresh(p)
    BY <1>0, <2>1 DEF RestTyped, Refresh, storeVars, snapshotVars
  <2>2. CASE Discover(p)
    BY <1>0, <2>2, Zenon DEF RestTyped, Discover, storeVars, registryVars, snapshotVars
  <2>3. CASE RefreshFails(p)
    BY <1>0, <2>3 DEF RestTyped, RefreshFails, storeVars, snapshotVars
  <2>4. CASE Commit(p)
    BY <1>0, <2>4 DEF RestTyped, Commit, storeVars, snapshotVars
  <2>5. CASE PinNext(p)
    <3>1. \/ \E r \in Revisions : Pin(r)
          \/ UNCHANGED pins
      BY <2>5, PinNextCases
    <3>2. UNCHANGED <<published, registryVars, snapshotVars, calls>>
      BY <2>5, Zenon DEF PinNext
    <3> QED
      BY <1>0, <3>1, <3>2 DEF RestTyped, Pin, registryVars, snapshotVars
  <2>6. CASE UnpinOld(p)
    <3>1. UNCHANGED <<published, snapshotVars, calls>>
      BY <2>6, Zenon DEF UnpinOld
    <3>2. CASE \E r \in Revisions : Unpin(r) /\ UNCHANGED registryVars
      BY <1>0, <3>1, <3>2 DEF RestTyped, Unpin, registryVars, snapshotVars
    <3>3. CASE /\ entries' = call[p].next
               /\ previous' = call[p].lists
               /\ gate' = NoProc /\ writer' = NoProc
               /\ UNCHANGED pins
      BY <1>0, <3>1, <3>3 DEF RestTyped, snapshotVars, Call
    <3> QED
      BY <2>6, <3>2, <3>3, UnpinOldCases
  <2> QED
    BY <1>2, <2>1, <2>2, <2>3, <2>4, <2>5, <2>6 DEF RefreshStep
<1>3. CASE SnapshotStep(p)
  <2>1. CASE Snapshot(p)
    BY <1>0, <2>1 DEF RestTyped, Snapshot, storeVars, registryVars
  <2>2. CASE PinCopy(p)
    <3>1. UNCHANGED <<published, registryVars, snapshot, delivered, calls>>
      BY <2>2, Zenon DEF PinCopy
    <3>2. \/ (\E r \in Revisions : Pin(r)) /\ UNCHANGED state
          \/ state' = [state EXCEPT ![call[p].snap] = "open"] /\ UNCHANGED pins
      BY <2>2, PinCopyCases
    <3> QED
      BY <1>0, <3>1, <3>2 DEF RestTyped, Pin, registryVars
  <2>3. CASE Get(p)
    BY <1>0, <2>3, Zenon DEF RestTyped, Get, storeVars, registryVars, snapshotVars
  <2>4. CASE Hit(p) \/ Fetch(p)
    <3>1. /\ delivered' = [delivered EXCEPT ![call[p].snap] = @ \cup {call[p].get}]
          /\ At(p, "fetch") /\ published[call[p].get] \in {"good", "absent"}
          /\ \/ UNCHANGED published
             \/ published' = [published EXCEPT ![call[p].get] = "good"]
          /\ UNCHANGED <<pins, registryVars, snapshot, state, calls>>
      BY <2>4 DEF Hit, Fetch, Publish, storeVars
    <3>2. call[p].get \in Revisions
      BY <3>1 DEF LocalInv
    <3>3. delivered' \in [Snapshots -> SUBSET Revisions]
      BY <1>0, <3>1, <3>2 DEF RestTyped
    <3>4. published' \in [Revisions -> {"absent", "good", "damaged"}]
      BY <1>0, <3>1, <3>2 DEF RestTyped
    <3>5. UNCHANGED <<pins, gate, writer, entries, previous, snapshot, state, calls>>
      BY <3>1, Zenon DEF registryVars
    <3> QED
      BY <1>0, <3>3, <3>4, <3>5 DEF RestTyped
  <2>5. CASE Remove(p)
    <3>1. published' \in [Revisions -> {"absent", "good", "damaged"}]
      BY <1>0, <2>5 DEF RestTyped, Remove, Discard
    <3>2. UNCHANGED <<pins, registryVars, snapshotVars, calls>>
      BY <2>5, Zenon DEF Remove
    <3> QED
      BY <1>0, <3>1, <3>2 DEF RestTyped, registryVars, snapshotVars
  <2>6. CASE GetFails(p)
    BY <1>0, <2>6, Zenon DEF RestTyped, GetFails, storeVars, registryVars, snapshotVars
  <2>7. CASE Close(p)
    <3>1. UNCHANGED <<storeVars, registryVars, snapshot, delivered, calls>>
      BY <2>7, Zenon DEF Close
    <3>2. state' = state \/ state' = [state EXCEPT ![call[p].snap] = "closing"]
      BY <2>7, CloseCases
    <3> QED
      BY <1>0, <3>1, <3>2 DEF RestTyped, storeVars, registryVars
  <2>8. CASE UnpinCopy(p)
    <3>1. UNCHANGED <<published, registryVars, snapshot, delivered, calls>>
      BY <2>8, Zenon DEF UnpinCopy
    <3>2. \/ (\E r \in Revisions : Unpin(r)) /\ UNCHANGED state
          \/ state' = [state EXCEPT ![call[p].snap] = "closed"] /\ UNCHANGED pins
      BY <2>8, UnpinCopyCases
    <3> QED
      BY <1>0, <3>1, <3>2 DEF RestTyped, Unpin, registryVars
  <2> QED
    BY <1>3, <2>1, <2>2, <2>3, <2>4, <2>5, <2>6, <2>7, <2>8 DEF SnapshotStep
<1>4. CASE ReleaseStep(p)
  <2>1. CASE Release(p)
    BY <1>0, <2>1 DEF RestTyped, Release, storeVars, snapshotVars
  <2>2. CASE ReleaseLock(p)
    BY <1>0, <2>2 DEF RestTyped, ReleaseLock, storeVars, snapshotVars
  <2>3. CASE UnpinAll(p)
    <3>1. UNCHANGED <<published, snapshotVars, calls>>
      BY <2>3, Zenon DEF UnpinAll
    <3>2. CASE \E r \in Revisions : Unpin(r) /\ UNCHANGED registryVars
      BY <1>0, <3>1, <3>2 DEF RestTyped, Unpin, registryVars, snapshotVars
    <3>3. CASE /\ entries' = Nothing
               /\ previous' = NoLists
               /\ gate' = IF gate = p THEN NoProc ELSE gate
               /\ writer' = NoProc
               /\ UNCHANGED pins
      BY <1>0, <3>1, <3>3 DEF RestTyped, snapshotVars
    <3> QED
      BY <2>3, <3>2, <3>3, UnpinAllCases
  <2> QED
    BY <1>4, <2>1, <2>2, <2>3 DEF ReleaseStep
<1> QED
  BY <1>1, <1>2, <1>3, <1>4 DEF Step

\* No two calls get the same number.
LEMMA StepIds ==
    ASSUME TypeOK, LocalInv, IdInv, NEW p \in Procs, Step(p)
    PROVE  IdInv'
<1>0. call[p] \in Call /\ calls \in Nat
  BY RegistryAssumption DEF TypeOK
<1>1. CASE BeginFacts(p) /\ Moves(p)
  BY <1>0, <1>1 DEF BeginFacts, Moves, IdInv, At
<1>2. CASE Continues(p)
  BY <1>0, <1>2 DEF Continues, IdInv, At, Moves, Gone, NoCall
<1> QED
  BY <1>1, <1>2, StepMoves

\* Refresh knows which sources it has asked; a Get, what it reads.
LEMMA StepLocals ==
    ASSUME TypeOK, LocalInv, NEW p \in Procs, Step(p)
    PROVE  LocalInv'
<1> DEFINE C == call'[p]
           Fine == /\ C.pc = "refresh" => C.source = 1 /\ C.lists = NoLists /\ C.kept = {}
                   /\ C.pc = "discover" =>
                         /\ C.source \in Sources
                         /\ \A s \in Sources : s >= C.source =>
                               s \notin C.kept /\ C.lists[s] = {}
                   /\ C.pc = "fetch" => C.get \in Revisions
<1>1. CASE UNCHANGED call
  BY <1>1 DEF LocalInv, At
<1>2. SUFFICES ASSUME Moves(p) PROVE Fine
  <2>1. Moves(p) \/ UNCHANGED call
    BY StepMoves DEF Continues
  <2> QED
    BY <1>1, <1>2, <2>1 DEF LocalInv, Moves, At
<1>3. CASE Begin(p)
  BY <1>3, BeginCall DEF BeginFacts
<1>4. CASE RefreshStep(p)
  <2>1. CASE Refresh(p)
    <3>1. LastSource # 0 => 1 \in Sources
      BY RegistryAssumption DEF Sources
    <3> QED
      BY <2>1, <3>1, RefreshCall DEF NoLists
  <2>2. CASE Discover(p)
    <3>1. PICK list \in SUBSET Revisions, fails \in BOOLEAN :
              Asked(p, call[p].source, list, fails)
      BY <2>2, DiscoverCall
    <3>2. call[p] \in Call /\ call[p].source \in 1..LastSource
      BY <2>2 DEF Discover, LocalInv, TypeOK, At, Sources
    <3>3. \A s \in Sources : s >= call[p].source => s \notin call[p].kept /\ call[p].lists[s] = {}
      BY <2>2 DEF Discover, LocalInv
    <3>4. call[p].lists \in [Sources -> SUBSET Revisions]
      BY <3>2 DEF Call
    <3>5. CASE call[p].source = LastSource
      BY <3>1, <3>5 DEF Asked
    <3>6. CASE call[p].source # LastSource
      <4>1. C.source = call[p].source + 1 /\ C.source \in Sources
        BY <3>1, <3>2, <3>6, RegistryAssumption DEF Asked, Sources
      <4>2. \A s \in Sources : s >= C.source =>
               s > call[p].source /\ s # call[p].source /\ s >= call[p].source
        BY <3>2, <4>1, RegistryAssumption DEF Sources
      <4>3. \A s \in Sources : s >= C.source => s \notin C.kept /\ C.lists[s] = {}
        BY <3>1, <3>3, <3>4, <4>2 DEF Asked
      <4> QED
        BY <3>1, <3>6, <4>1, <4>3 DEF Asked
    <3> QED
      BY <3>5, <3>6
  <2>3. CASE RefreshFails(p)
    BY <2>3, ReturnCall DEF RefreshFails, Gone, NoCall
  <2>4. CASE Commit(p)
    BY <2>4, TurnCall, EntriesTyped DEF Commit, TypeOK, Call, Turns, Goes
  <2>5. CASE PinNext(p)
    <3>1. At(p, "pinNext")
      BY <2>5, Zenon DEF PinNext
    <3> QED
      BY <2>5, <3>1, PinNextCases DEF Took, Turns, Goes, At
  <2>6. CASE UnpinOld(p)
    <3>1. At(p, "unpinOld")
      BY <2>6, Zenon DEF UnpinOld
    <3> QED
      BY <2>6, <3>1, UnpinOldCases DEF Took, Turns, Goes, At, Gone, NoCall
  <2> QED
    BY <1>4, <2>1, <2>2, <2>3, <2>4, <2>5, <2>6 DEF RefreshStep
<1>5. CASE SnapshotStep(p)
  <2>1. CASE Snapshot(p)
    BY <2>1, SnapshotCall DEF Goes
  <2>2. CASE PinCopy(p)
    <3>1. At(p, "pinCopy")
      BY <2>2, Zenon DEF PinCopy
    <3> QED
      BY <2>2, <3>1, PinCopyCases DEF Took, Turns, Goes, At, Gone, NoCall
  <2>3. CASE Get(p)
    BY <2>3, GetCall DEF Goes, Gone, NoCall
  <2>4. CASE Hit(p) \/ Fetch(p) \/ GetFails(p)
    BY <2>4, ReturnCall DEF Hit, Fetch, GetFails, Gone, NoCall
  <2>5. CASE Remove(p)
    BY <2>5 DEF Remove, LocalInv, At
  <2>6. CASE Close(p)
    BY <2>6, CloseCases DEF Turns, Goes, Gone, NoCall
  <2>7. CASE UnpinCopy(p)
    <3>1. At(p, "unpinCopy")
      BY <2>7, Zenon DEF UnpinCopy
    <3> QED
      BY <2>7, <3>1, UnpinCopyCases DEF Took, Turns, Goes, At, Gone, NoCall
  <2> QED
    BY <1>5, <2>1, <2>2, <2>3, <2>4, <2>5, <2>6, <2>7 DEF SnapshotStep
<1>6. CASE ReleaseStep(p)
  <2>1. CASE Release(p)
    BY <2>1, ReleaseCall DEF Goes
  <2>2. CASE ReleaseLock(p)
    BY <2>2, TurnCall, EntriesTyped DEF ReleaseLock, TypeOK, Turns, Goes
  <2>3. CASE UnpinAll(p)
    <3>1. At(p, "unpinAll")
      BY <2>3, Zenon DEF UnpinAll
    <3> QED
      BY <2>3, <3>1, UnpinAllCases DEF Took, Turns, Goes, At, Gone, NoCall
  <2> QED
    BY <1>6, <2>1, <2>2, <2>3 DEF ReleaseStep
<1> QED
  BY <1>3, <1>4, <1>5, <1>6 DEF Step

\* Prune touches the disk only.
LEMMA PruneTyped ==
    ASSUME TInv, Prune
    PROVE  TInv'
<1>1. UNCHANGED <<pins, registryVars, snapshotVars, calls, call>>
  BY Zenon DEF Prune
<1>2. published' \in [Revisions -> {"absent", "good", "damaged"}]
  BY DEF Prune, Evict, TInv, TypeOK
<1> QED
  BY <1>1, <1>2 DEF TInv, TypeOK, IdInv, LocalInv, At, registryVars, snapshotVars

\* So each step keeps TInv.
LEMMA TypedStep ==
    ASSUME TInv, NEW p \in Procs, Step(p)
    PROVE  TInv'
<1>1. RestTyped'
  BY StepRest DEF TInv
<1>2. call' \in [Procs -> Call]
  BY StepMoves DEF TInv, Moves, Continues, TypeOK
<1>3. TypeOK'
  BY <1>1, <1>2 DEF RestTyped, TypeOK
<1> QED
  BY <1>3, StepIds, StepLocals DEF TInv

\* Types hold in every state.
THEOREM RegistryTyped == RegistrySpec => []TInv
<1>1. TInv /\ [RegistryNext]_vars => TInv'
  <2> SUFFICES ASSUME TInv, [RegistryNext]_vars PROVE TInv'
    OBVIOUS
  <2>2. CASE UNCHANGED vars
    BY <2>2 DEF TInv, TypeOK, IdInv, LocalInv, At, vars, storeVars, registryVars, snapshotVars
  <2> QED
    BY <2>2, TypedStep, PruneTyped DEF RegistryNext, Step, Finished
<1> QED
  BY <1>1, InitTyped, PTL DEF RegistrySpec

----------------------------------------------------------------------------
(* The locks *)

HoldsGate(p) ==
    call[p].pc \in {"discover", "commit", "pinNext", "unpinOld", "releaseLock",
                    "unpinAll"}

Writes(p) == call[p].pc \in {"pinNext", "unpinOld", "unpinAll"}

\* r.gate and r.mu are held where the code holds them, and nowhere else.
LockInv ==
    \A p \in Procs :
        /\ gate = p <=> HoldsGate(p)
        /\ writer = p <=> Writes(p)
        /\ At(p, "pinCopy") => writer = NoProc

\* A step that keeps to the locks: what its goroutine holds before and after.
LocksKept(p) ==
    /\ \/ gate' = gate /\ (HoldsGate(p)' <=> HoldsGate(p))
       \/ gate = NoProc /\ gate' = p /\ HoldsGate(p)'
       \/ gate = p /\ gate' = NoProc /\ ~HoldsGate(p)'
    /\ \/ writer' = writer /\ (Writes(p)' <=> Writes(p))
       \/ writer = NoProc /\ NoReaders /\ writer' = p /\ Writes(p)'
       \/ writer = p /\ writer' = NoProc /\ ~Writes(p)'
    /\ At(p, "pinCopy")' => writer' = NoProc

\* A step that keeps the locks of its goroutine keeps those of all.
LEMMA LocksKeptHolds ==
    ASSUME TypeOK, LockInv, NEW p \in Procs, Moves(p), LocksKept(p)
    PROVE  LockInv'
<1>1. NoProc \notin Procs
  BY RegistryAssumption
<1>2. \A q \in Procs : q # p =>
         /\ HoldsGate(q)' <=> HoldsGate(q)
         /\ Writes(q)' <=> Writes(q)
         /\ At(q, "pinCopy")' <=> At(q, "pinCopy")
  BY DEF Moves, HoldsGate, Writes, At
<1>3. \A q \in Procs : gate' = q <=> HoldsGate(q)'
  BY <1>1, <1>2 DEF LockInv, LocksKept
<1>4. \A q \in Procs : writer' = q <=> Writes(q)'
  BY <1>1, <1>2 DEF LockInv, LocksKept
<1>5. \A q \in Procs : At(q, "pinCopy")' => writer' = NoProc
  BY <1>1, <1>2 DEF LockInv, LocksKept, NoReaders
<1> QED
  BY <1>3, <1>4, <1>5 DEF LockInv

\* Each step keeps the locks.
LEMMA StepLocks ==
    ASSUME TypeOK, LocalInv, LockInv, NEW p \in Procs, Step(p)
    PROVE  LockInv'
<1> USE DEF HoldsGate, Writes
<1>a. NoProc # p /\ (gate = p <=> HoldsGate(p)) /\ (writer = p <=> Writes(p))
        /\ (At(p, "pinCopy") => writer = NoProc)
  BY RegistryAssumption DEF LockInv
<1>c. SUFFICES ASSUME Moves(p) PROVE LocksKept(p)
  <2>1. Moves(p)
    BY StepMoves DEF Continues, Moves, TypeOK
  <2> QED
    BY <1>c, <2>1, LocksKeptHolds
<1>1. CASE Begin(p)
  <2>1. UNCHANGED registryVars /\ call[p].pc = "idle"
    BY <1>1, Zenon DEF Begin, At
  <2> QED
    BY <1>1, <2>1, BeginCall DEF BeginFacts, registryVars, LocksKept, At
<1>2. CASE Refresh(p)
  BY <1>2, RefreshCall DEF Refresh, LocksKept, At
<1>3. CASE Discover(p)
  <2>1. UNCHANGED registryVars /\ call[p].pc = "discover"
    BY <1>3, Zenon DEF Discover, At
  <2>2. call'[p].pc \in {"discover", "commit"}
    BY <1>3, DiscoverCall DEF Asked
  <2> QED
    BY <2>1, <2>2 DEF registryVars, LocksKept, At
<1>4. CASE RefreshFails(p)
  BY <1>a, <1>4, ReturnCall DEF RefreshFails, Gone, NoCall, LocksKept, At
<1>5. CASE Commit(p)
  <2>1. Turns(p, "pinNext", Remote(call[p].next))
    BY <1>5, TurnCall, EntriesTyped DEF Commit, TypeOK, Call
  <2> QED
    BY <1>5, <2>1 DEF Commit, Turns, Goes, LocksKept, At
<1>6. CASE PinNext(p)
  <2>1. UNCHANGED registryVars /\ call[p].pc = "pinNext"
    BY <1>6, Zenon DEF PinNext, At
  <2>2. call'[p].pc \in {"pinNext", "unpinOld"}
    BY <1>6, <2>1, PinNextCases DEF Took, Turns, Goes
  <2> QED
    BY <2>1, <2>2 DEF registryVars, LocksKept, At
<1>7. CASE UnpinOld(p)
  <2>1. call[p].pc = "unpinOld"
    BY <1>7, Zenon DEF UnpinOld, At
  <2>2. \/ UNCHANGED registryVars /\ call'[p].pc = "unpinOld"
        \/ gate' = NoProc /\ writer' = NoProc /\ call'[p].pc = "idle"
    BY <1>7, <2>1, UnpinOldCases DEF Took, Turns, Goes, Gone, NoCall
  <2> QED
    BY <1>a, <2>1, <2>2 DEF registryVars, LocksKept, At
<1>8. CASE Snapshot(p)
  BY <1>8, SnapshotCall DEF Snapshot, Goes, registryVars, LocksKept, At
<1>9. CASE PinCopy(p) \/ Get(p) \/ Hit(p) \/ Fetch(p) \/ GetFails(p) \/ Close(p) \/ UnpinCopy(p)
  <2>1. UNCHANGED registryVars /\ call[p].pc \in {"pinCopy", "get", "fetch", "close", "unpinCopy"}
    BY <1>9, Zenon DEF PinCopy, Get, Hit, Fetch, GetFails, Close, UnpinCopy, At
  <2>2. CASE PinCopy(p)
    <3>1. call[p].pc = "pinCopy"
      BY <2>2, Zenon DEF PinCopy, At
    <3> QED
      BY <1>a, <2>1, <2>2, <3>1, PinCopyCases DEF Took, Turns, Goes, Gone, NoCall, registryVars, LocksKept, At
  <2>3. CASE UnpinCopy(p)
    <3>1. call[p].pc = "unpinCopy"
      BY <2>3, Zenon DEF UnpinCopy, At
    <3> QED
      BY <2>1, <2>3, <3>1, UnpinCopyCases DEF Took, Turns, Goes, Gone, NoCall, registryVars, LocksKept, At
  <2>4. CASE Get(p) \/ Close(p)
    <3>1. call'[p].pc \in {"idle", "fetch", "unpinCopy"}
      BY <2>4, GetCall, CloseCases DEF Turns, Goes, Gone, NoCall
    <3> QED
      BY <2>1, <3>1 DEF registryVars, LocksKept, At
  <2>5. CASE Hit(p) \/ Fetch(p) \/ GetFails(p)
    BY <2>1, <2>5, ReturnCall DEF Hit, Fetch, GetFails, Gone, NoCall, registryVars, LocksKept, At
  <2> QED
    BY <1>9, <2>2, <2>3, <2>4, <2>5
<1>10. CASE Release(p)
  BY <1>10, ReleaseCall DEF Release, Goes, LocksKept, At
<1>11. CASE ReleaseLock(p)
  <2>1. Turns(p, "unpinAll", Remote(entries))
    BY <1>11, TurnCall, EntriesTyped DEF ReleaseLock, TypeOK
  <2> QED
    BY <1>11, <2>1 DEF ReleaseLock, Turns, Goes, LocksKept, At
<1>12. CASE UnpinAll(p)
  <2>1. call[p].pc = "unpinAll"
    BY <1>12, Zenon DEF UnpinAll, At
  <2>2. \/ UNCHANGED registryVars /\ call'[p].pc = "unpinAll"
        \/ gate' = (IF gate = p THEN NoProc ELSE gate) /\ writer' = NoProc /\ call'[p].pc = "idle"
    BY <1>12, <2>1, UnpinAllCases DEF Took, Turns, Goes, Gone, NoCall
  <2> QED
    BY <1>a, <2>1, <2>2 DEF registryVars, LocksKept, At
<1>13. CASE Remove(p)
  BY <1>13 DEF Remove, registryVars, LocksKept, At
<1> QED
  BY <1>1, <1>2, <1>3, <1>4, <1>5, <1>6, <1>7, <1>8, <1>9, <1>10, <1>11, <1>12, <1>13
     DEF Step, RefreshStep, SnapshotStep, ReleaseStep

----------------------------------------------------------------------------
(* Snapshots *)

\* The state of a snapshot allows what the goroutines at work on it do.
Allowed(p) ==
    /\ At(p, "snapshot") => state[call[p].id] = "none"
    /\ At(p, "pinCopy") => call[p].snap = call[p].id /\ state[call[p].snap] = "none"
    /\ call[p].pc \in {"get", "close"} =>
          call[p].snap \in Snapshots /\ state[call[p].snap] # "none"
    /\ At(p, "fetch") => call[p].snap \in Snapshots /\ state[call[p].snap] = "open"
    /\ At(p, "unpinCopy") =>
          call[p].snap \in Snapshots /\ state[call[p].snap] = "closing"

SnapInv ==
    /\ \A p \in Procs : Allowed(p)
    /\ \A p, q \in Procs :
          At(p, "unpinCopy") /\ At(q, "unpinCopy") /\ call[p].snap = call[q].snap
             => p = q
    /\ \A i \in Snapshots : i > calls => state[i] = "none"

\* What a step does to the snapshots' states.
SnapKept(p) ==
    /\ \/ calls' = calls
       \/ calls' = calls + 1
    /\ \/ /\ state' = state
          /\ At(p, "unpinCopy")' =>
                At(p, "unpinCopy") /\ call'[p].snap = call[p].snap
       \/ /\ At(p, "pinCopy") /\ call'[p].pc = "idle" /\ calls' = calls
          /\ state' = [state EXCEPT ![call[p].snap] = "open"]
       \/ /\ At(p, "close") /\ calls' = calls
          /\ state[call[p].snap] \notin {"closed", "closing"}
          /\ \A q \in Procs : ~(At(q, "fetch") /\ call[q].snap = call[p].snap)
          /\ state' = [state EXCEPT ![call[p].snap] = "closing"]
          /\ call'[p].snap = call[p].snap
       \/ /\ At(p, "unpinCopy") /\ call'[p].pc = "idle" /\ calls' = calls
          /\ state' = [state EXCEPT ![call[p].snap] = "closed"]
    /\ Allowed(p)'

\* A step that treats its own snapshot well leaves the others alone.
LEMMA SnapKeptHolds ==
    ASSUME TypeOK, IdInv, SnapInv, NEW p \in Procs, Moves(p), SnapKept(p)
    PROVE  SnapInv'
<1>0. /\ calls \in Nat /\ MaxCalls \in Nat
      /\ \A q \in Procs : ~At(q, "idle") => call[q].id \in Snapshots /\ call[q].id <= calls
      /\ \A q \in Procs : q # p /\ ~At(p, "idle") /\ ~At(q, "idle") => call[q].id # call[p].id
  BY RegistryAssumption DEF IdInv, Snapshots, TypeOK
<1>1. \A q \in Procs : q # p => call'[q] = call[q]
  BY DEF Moves
<1>2. \A i \in Snapshots : i > calls' => state'[i] = "none"
  <2>1. \A i \in Snapshots : i > calls => state[i] = "none"
    BY DEF SnapInv
  <2>2. CASE state' = state
    BY <1>0, <2>1, <2>2 DEF SnapKept, Snapshots
  <2>3. CASE At(p, "pinCopy") /\ calls' = calls /\ state' = [state EXCEPT ![call[p].snap] = "open"]
    <3>1. call[p].snap \in Snapshots /\ call[p].snap <= calls
      BY <1>0, <2>3 DEF SnapInv, Allowed, At
    <3> QED
      BY <1>0, <2>1, <2>3, <3>1 DEF Snapshots, TypeOK
  <2>4. CASE At(p, "close") /\ calls' = calls /\ state' = [state EXCEPT ![call[p].snap] = "closing"]
    BY <1>0, <2>1, <2>4 DEF SnapInv, Allowed, At, Snapshots, TypeOK
  <2>5. CASE At(p, "unpinCopy") /\ calls' = calls /\ state' = [state EXCEPT ![call[p].snap] = "closed"]
    BY <1>0, <2>1, <2>5 DEF SnapInv, Allowed, At, Snapshots, TypeOK
  <2> QED
    BY <2>2, <2>3, <2>4, <2>5 DEF SnapKept
<1>3. ASSUME NEW q \in Procs, q # p PROVE Allowed(q)'
  <2>1. Allowed(p) /\ Allowed(q) /\ call'[q] = call[q] /\ state \in [Snapshots -> {"none", "open", "closing", "closed"}]
    BY <1>1, <1>3 DEF SnapInv, TypeOK
  <2>2. CASE state' = state
    BY <2>1, <2>2 DEF Allowed, At
  <2>3. CASE At(p, "pinCopy") /\ state' = [state EXCEPT ![call[p].snap] = "open"]
    BY <1>0, <1>3, <2>1, <2>3 DEF Allowed, At
  <2>4. CASE /\ At(p, "close") /\ state[call[p].snap] \notin {"closed", "closing"}
             /\ \A x \in Procs : ~(At(x, "fetch") /\ call[x].snap = call[p].snap)
             /\ state' = [state EXCEPT ![call[p].snap] = "closing"]
    BY <1>0, <1>3, <2>1, <2>4 DEF Allowed, At
  <2>5. CASE At(p, "unpinCopy") /\ state' = [state EXCEPT ![call[p].snap] = "closed"]
    <3>1. ~(At(q, "unpinCopy") /\ call[p].snap = call[q].snap)
      BY <1>3, <2>5 DEF SnapInv
    <3> QED
      BY <1>0, <1>3, <2>1, <2>5, <3>1 DEF Allowed, At
  <2> QED
    BY <2>2, <2>3, <2>4, <2>5 DEF SnapKept
<1>4. ASSUME NEW a \in Procs, NEW b \in Procs, a # b,
             At(a, "unpinCopy")', At(b, "unpinCopy")', call'[a].snap = call'[b].snap
      PROVE  FALSE
  <2>1. PICK q \in Procs : q # p /\ At(q, "unpinCopy")' /\ At(p, "unpinCopy")'
                             /\ call'[q].snap = call'[p].snap
    <3>1. a = p \/ b = p
      BY <1>1, <1>4 DEF SnapInv, At
    <3> QED
      BY <1>4, <3>1
  <2>2. At(q, "unpinCopy") /\ call'[q].snap = call[q].snap /\ state[call[q].snap] = "closing"
    BY <1>1, <2>1 DEF At, SnapInv, Allowed
  <2>3. CASE At(p, "unpinCopy") /\ call'[p].snap = call[p].snap
    BY <2>1, <2>2, <2>3 DEF SnapInv
  <2>4. CASE state[call[p].snap] \notin {"closed", "closing"} /\ call'[p].snap = call[p].snap
    BY <2>1, <2>2, <2>4
  <2> QED
    BY <2>1, <2>3, <2>4 DEF SnapKept, At
<1> QED
  BY <1>2, <1>3, <1>4 DEF SnapInv, SnapKept

\* Each step keeps the snapshots.
LEMMA StepSnaps ==
    ASSUME TInv, SnapInv, NEW p \in Procs, Step(p)
    PROVE  SnapInv'
<1>a. Allowed(p) /\ IdInv /\ TypeOK /\ LocalInv
  BY DEF SnapInv, TInv
<1>b. /\ calls \in Nat /\ MaxCalls \in Nat
      /\ ~At(p, "idle") => call[p].id \in Snapshots /\ call[p].id <= calls
      /\ \A i \in Snapshots : i > calls => state[i] = "none"
  BY <1>a, RegistryAssumption DEF IdInv, Snapshots, TypeOK, SnapInv
<1>c. SUFFICES ASSUME Moves(p) PROVE SnapKept(p)
  <2>1. Moves(p)
    BY <1>a, StepMoves DEF Continues, Moves, TypeOK
  <2> QED
    BY <1>a, <1>c, <2>1, SnapKeptHolds
<1> HIDE DEF TInv
<1>1. CASE Begin(p)
  <2>1. UNCHANGED snapshotVars /\ BeginFacts(p)
    BY <1>a, <1>1, BeginCall, Zenon DEF Begin
  <2>2. calls + 1 \in Snapshots /\ calls + 1 > calls
    BY <1>b, <2>1 DEF BeginFacts, Snapshots
  <2> QED
    BY <1>b, <2>1, <2>2 DEF BeginFacts, snapshotVars, SnapKept, Allowed, At
<1>2. CASE RefreshStep(p)
  <2>1. UNCHANGED snapshotVars /\ calls' = calls
    BY <1>2, Zenon DEF RefreshStep, Refresh, Discover, RefreshFails, Commit, PinNext, UnpinOld
  <2>2. call'[p].pc \in {"discover", "commit", "idle", "pinNext", "unpinOld"}
    <3>1. CASE Commit(p)
      BY <1>a, <3>1, TurnCall, EntriesTyped DEF Commit, TypeOK, Call, Turns, Goes
    <3>2. CASE PinNext(p)
      <4>1. At(p, "pinNext")
        BY <3>2, Zenon DEF PinNext
      <4> QED
        BY <1>a, <3>2, <4>1, PinNextCases DEF Took, Turns, Goes, At
    <3>3. CASE UnpinOld(p)
      <4>1. At(p, "unpinOld")
        BY <3>3, Zenon DEF UnpinOld
      <4> QED
        BY <1>a, <3>3, <4>1, UnpinOldCases DEF Took, Turns, Goes, At, Gone, NoCall
    <3>4. CASE Refresh(p)
      BY <1>a, <3>4, RefreshCall
    <3>5. CASE Discover(p)
      BY <1>a, <3>5, DiscoverCall DEF Asked
    <3>6. CASE RefreshFails(p)
      BY <1>a, <3>6, ReturnCall DEF RefreshFails, Gone, NoCall
    <3> QED
      BY <1>2, <3>1, <3>2, <3>3, <3>4, <3>5, <3>6 DEF RefreshStep
  <2> QED
    BY <2>1, <2>2 DEF snapshotVars, SnapKept, Allowed, At
<1>3. CASE Snapshot(p)
  BY <1>a, <1>3, SnapshotCall DEF Snapshot, SnapKept, Allowed, At, Goes, Kept
<1>4. CASE PinCopy(p)
  <2>1. At(p, "pinCopy") /\ calls' = calls
    BY <1>4, Zenon DEF PinCopy
  <2>2. CASE \E r \in Revisions : Took(p, r) /\ UNCHANGED state
    BY <1>a, <2>1, <2>2 DEF Took, Turns, Goes, Kept, SnapKept, Allowed, At
  <2>3. CASE state' = [state EXCEPT ![call[p].snap] = "open"] /\ Gone(p)
    BY <2>1, <2>3 DEF Gone, NoCall, SnapKept, Allowed, At
  <2> QED
    BY <1>a, <1>4, <2>2, <2>3, PinCopyCases
<1>5. CASE Get(p)
  <2>1. At(p, "get") /\ calls' = calls /\ UNCHANGED state
    BY <1>5, Zenon DEF Get, snapshotVars
  <2> QED
    BY <1>a, <1>5, <2>1, GetCall DEF Gone, NoCall, Goes, SnapKept, Allowed, At
<1>6. CASE Hit(p) \/ Fetch(p) \/ GetFails(p)
  <2>1. calls' = calls /\ UNCHANGED state /\ Gone(p)
    BY <1>a, <1>6, ReturnCall DEF Hit, Fetch, GetFails, snapshotVars
  <2> QED
    BY <2>1 DEF Gone, NoCall, SnapKept, Allowed, At
<1>7. CASE Remove(p)
  <2>1. At(p, "fetch") /\ UNCHANGED <<call, calls, state>>
    BY <1>7, Zenon DEF Remove, snapshotVars
  <2> QED
    BY <1>a, <2>1 DEF SnapKept, Allowed, At
<1>8. CASE Close(p)
  <2>1. At(p, "close") /\ calls' = calls
          /\ \A q \in Procs : ~(At(q, "fetch") /\ call[q].snap = call[p].snap)
    BY <1>8, Zenon DEF Close
  <2>2. call[p].snap \in Snapshots /\ state \in [Snapshots -> {"none", "open", "closing", "closed"}]
    BY <1>a, <2>1 DEF Allowed, At, TypeOK
  <2>3. CASE UNCHANGED state /\ Gone(p)
    BY <2>1, <2>3 DEF Gone, NoCall, SnapKept, Allowed, At
  <2>4. CASE /\ state[call[p].snap] \notin {"closed", "closing"}
             /\ state' = [state EXCEPT ![call[p].snap] = "closing"]
             /\ Turns(p, "unpinCopy", Remote(snapshot[call[p].snap]))
    BY <2>1, <2>2, <2>4 DEF Turns, Goes, SnapKept, Allowed, At
  <2> QED
    BY <1>a, <1>8, <2>3, <2>4, CloseCases
<1>9. CASE UnpinCopy(p)
  <2>1. At(p, "unpinCopy") /\ calls' = calls
    BY <1>9, Zenon DEF UnpinCopy
  <2>2. CASE \E r \in Revisions : Took(p, r) /\ UNCHANGED state
    BY <1>a, <2>1, <2>2 DEF Took, Turns, Goes, Kept, SnapKept, Allowed, At
  <2>3. CASE state' = [state EXCEPT ![call[p].snap] = "closed"] /\ Gone(p)
    BY <2>1, <2>3 DEF Gone, NoCall, SnapKept, Allowed, At
  <2> QED
    BY <1>a, <1>9, <2>2, <2>3, UnpinCopyCases
<1>10. CASE ReleaseStep(p)
  <2>1. UNCHANGED snapshotVars /\ calls' = calls
    BY <1>10, Zenon DEF ReleaseStep, Release, ReleaseLock, UnpinAll
  <2>2. call'[p].pc \in {"releaseLock", "unpinAll", "idle"}
    <3>1. CASE ReleaseLock(p)
      BY <1>a, <3>1, TurnCall, EntriesTyped DEF ReleaseLock, TypeOK, Turns, Goes
    <3>2. CASE UnpinAll(p)
      <4>1. At(p, "unpinAll")
        BY <3>2, Zenon DEF UnpinAll
      <4> QED
        BY <1>a, <3>2, <4>1, UnpinAllCases DEF Took, Turns, Goes, At, Gone, NoCall
    <3> QED
      BY <1>a, <1>10, <3>1, <3>2, ReleaseCall DEF ReleaseStep, Goes
  <2> QED
    BY <2>1, <2>2 DEF snapshotVars, SnapKept, Allowed, At
<1> QED
  BY <1>1, <1>2, <1>3, <1>4, <1>5, <1>6, <1>7, <1>8, <1>9, <1>10
     DEF Step, SnapshotStep

----------------------------------------------------------------------------
(* Pins *)

\* A pin loop pins or unpins revisions of the entries it was begun for.
ListInv ==
    \A p \in Procs :
        /\ call[p].pc \in {"pinCopy", "unpinCopy"} =>
              call[p].todo \subseteq Remote(snapshot[call[p].snap])
        /\ At(p, "pinNext") => call[p].todo \subseteq Remote(call[p].next)
        /\ call[p].pc \in {"unpinOld", "unpinAll"} =>
              call[p].todo \subseteq Remote(entries)

\* A goroutine in a snapshot's pin loop has a pin on r for snapshot i.
PinsFor(p, i, r) ==
    /\ call[p].snap = i
    /\ \/ At(p, "pinCopy") /\ r \notin call[p].todo
       \/ At(p, "unpinCopy") /\ r \in call[p].todo

\* Snapshot i has a pin on r: for good, or in a loop under way.
CopyPin(i, r) ==
    /\ r \in Remote(snapshot[i])
    /\ state[i] = "open" \/ \E p \in Procs : PinsFor(p, i, r)

CopyPins(r) == {i \in Snapshots : CopyPin(i, r)}

\* The generation has a pin on r, that no loop has taken.
GenPin(r) ==
    /\ r \in Remote(entries)
    /\ \A p \in Procs :
          call[p].pc \in {"unpinOld", "unpinAll"} => r \in call[p].todo

\* The next generation has a pin on r already.
NextPin(r) ==
    \E p \in Procs :
        /\ r \in Remote(call[p].next)
        /\ At(p, "unpinOld") \/ (At(p, "pinNext") /\ r \notin call[p].todo)

One(b) == IF b THEN 1 ELSE 0

\* Every pin is accounted for, whatever is under way.
CountInv ==
    \A r \in Revisions :
        pins[r] = Cardinality(CopyPins(r)) + One(GenPin(r)) + One(NextPin(r))

PinInv == ListInv /\ CountInv

\* Snapshots are few.
LEMMA CopiesFinite ==
    \A r \in Revisions :
        IsFiniteSet(CopyPins(r)) /\ Cardinality(CopyPins(r)) \in Nat
<1>1. IsFiniteSet(Snapshots)
  BY RegistryAssumption, FS_Interval DEF Snapshots
<1> QED
  BY <1>1, FS_Subset, FS_CardinalityType DEF CopyPins

\* The writer is alone in its loops, and a snapshot's loop alone with it.
LEMMA Alone ==
    ASSUME TInv, LockInv, SnapInv, NEW p \in Procs
    PROVE  /\ Writes(p) => \A q \in Procs : q # p => ~Writes(q) /\ ~At(q, "pinCopy")
           /\ call[p].pc \in {"pinCopy", "unpinCopy"} =>
                 /\ call[p].snap \in Snapshots
                 /\ \A q \in Procs : q # p /\ call[q].pc \in {"pinCopy", "unpinCopy"} =>
                       call[q].snap # call[p].snap
<1>1. NoProc \notin Procs
  BY RegistryAssumption
<1>2. Writes(p) => \A q \in Procs : q # p => ~Writes(q) /\ ~At(q, "pinCopy")
  BY <1>1 DEF LockInv
<1>3. ASSUME call[p].pc \in {"pinCopy", "unpinCopy"}
      PROVE  call[p].snap \in Snapshots
  <2>1. Allowed(p) /\ (At(p, "pinCopy") => call[p].id \in 1..calls) /\ calls \in 0..MaxCalls
    BY DEF SnapInv, TInv, IdInv, At, TypeOK
  <2> QED
    BY <1>3, <2>1, RegistryAssumption DEF Allowed, At, Snapshots
<1>4. ASSUME NEW q \in Procs, q # p, call[p].pc \in {"pinCopy", "unpinCopy"},
             call[q].pc \in {"pinCopy", "unpinCopy"}
      PROVE  call[q].snap # call[p].snap
  <2>1. Allowed(p) /\ Allowed(q)
    BY DEF SnapInv
  <2>2. CASE At(p, "unpinCopy") /\ At(q, "unpinCopy")
    BY <1>4, <2>2 DEF SnapInv
  <2>3. CASE At(p, "pinCopy") /\ At(q, "pinCopy")
    BY <1>4, <2>1, <2>3 DEF Allowed, TInv, IdInv, At
  <2>4. CASE At(p, "pinCopy") /\ At(q, "unpinCopy")
    BY <2>1, <2>4 DEF Allowed
  <2>5. CASE At(p, "unpinCopy") /\ At(q, "pinCopy")
    BY <2>1, <2>5 DEF Allowed
  <2> QED
    BY <1>4, <2>2, <2>3, <2>4, <2>5 DEF At
<1> QED
  BY <1>2, <1>3, <1>4

\* A step outside the snapshots' loops changes no snapshot's pins, ...
LEMMA CopiesKept ==
    ASSUME NEW p \in Procs, Moves(p), UNCHANGED <<snapshot, state>>,
           call[p].pc \notin {"pinCopy", "unpinCopy"},
           call'[p].pc \notin {"pinCopy", "unpinCopy"}
    PROVE  \A r \in Revisions : CopyPins(r)' = CopyPins(r)
<1>1. \A q \in Procs : q # p => call'[q] = call[q]
  BY DEF Moves
<1>2. \A r \in Revisions, i \in Snapshots :
         (\E q \in Procs : PinsFor(q, i, r)') <=> (\E q \in Procs : PinsFor(q, i, r))
  BY <1>1 DEF PinsFor, At
<1>3. \A r \in Revisions, i \in Snapshots : CopyPin(i, r)' <=> CopyPin(i, r)
  BY <1>2 DEF CopyPin, Remote
<1> QED
  BY <1>3 DEF CopyPins

\* ... and one outside the writers' loops none of a generation.
LEMMA GenerationsKept ==
    ASSUME NEW p \in Procs, Moves(p), UNCHANGED entries,
           ~Writes(p), ~Writes(p)'
    PROVE  \A r \in Revisions : (GenPin(r)' <=> GenPin(r)) /\ (NextPin(r)' <=> NextPin(r))
<1>1. \A q \in Procs : q # p => call'[q] = call[q]
  BY DEF Moves
<1>2. ASSUME NEW r \in Revisions PROVE GenPin(r)' <=> GenPin(r)
  BY <1>1 DEF GenPin, Writes, Remote
<1>3. ASSUME NEW r \in Revisions PROVE NextPin(r)' <=> NextPin(r)
  BY <1>1 DEF NextPin, Writes, Remote, At
<1> QED
  BY <1>2, <1>3

\* Steps that change no pin leave the count right.
LEMMA CountKept ==
    ASSUME CountInv, UNCHANGED pins,
           \A r \in Revisions : CopyPins(r)' = CopyPins(r),
           \A r \in Revisions : (GenPin(r)' <=> GenPin(r)) /\ (NextPin(r)' <=> NextPin(r))
    PROVE  CountInv'
<1> SUFFICES ASSUME NEW r \in Revisions
             PROVE  pins'[r] = Cardinality(CopyPins(r)') + One(GenPin(r)') + One(NextPin(r)')
  BY DEF CountInv, One
<1>1. pins'[r] = Cardinality(CopyPins(r)) + One(GenPin(r)) + One(NextPin(r))
  BY DEF CountInv
<1>2. One(GenPin(r)') = One(GenPin(r)) /\ One(NextPin(r)') = One(NextPin(r))
  BY DEF One
<1> QED
  BY <1>1, <1>2

\* A loop over a generation pins, or unpins, one revision.
LEMMA CountGeneration ==
    ASSUME TypeOK, CountInv, NEW r \in Revisions,
           \A s \in Revisions : CopyPins(s)' = CopyPins(s),
           \A s \in Revisions : s # r =>
               (GenPin(s)' <=> GenPin(s)) /\ (NextPin(s)' <=> NextPin(s)),
           \/ Pin(r) /\ (GenPin(r)' <=> GenPin(r)) /\ ~NextPin(r) /\ NextPin(r)'
           \/ Unpin(r) /\ (NextPin(r)' <=> NextPin(r)) /\ GenPin(r) /\ ~GenPin(r)'
    PROVE  CountInv'
<1> SUFFICES ASSUME NEW s \in Revisions
             PROVE  pins'[s] = Cardinality(CopyPins(s)') + One(GenPin(s)') + One(NextPin(s)')
  BY DEF CountInv, One
<1>1. pins[s] = Cardinality(CopyPins(s)) + One(GenPin(s)) + One(NextPin(s))
  BY DEF CountInv
<1>2. Cardinality(CopyPins(s)') = Cardinality(CopyPins(s))
      /\ Cardinality(CopyPins(s)) \in Nat
  BY CopiesFinite
<1>3. CASE s # r
  <2>1. pins'[s] = pins[s]
    BY <1>3 DEF Pin, Unpin, TypeOK
  <2>2. One(GenPin(s)') = One(GenPin(s)) /\ One(NextPin(s)') = One(NextPin(s))
    BY <1>3 DEF One
  <2> QED
    BY <1>1, <1>2, <2>1, <2>2
<1>4. CASE s = r /\ Pin(r) /\ (GenPin(r)' <=> GenPin(r)) /\ ~NextPin(r) /\ NextPin(r)'
  <2>1. pins'[s] = pins[s] + 1
    BY <1>4 DEF Pin, TypeOK
  <2>2. One(GenPin(s)') = One(GenPin(s)) /\ One(NextPin(s)) = 0 /\ One(NextPin(s)') = 1
          /\ One(GenPin(s)) \in {0, 1}
    BY <1>4 DEF One
  <2> QED
    BY <1>1, <1>2, <2>1, <2>2
<1>5. CASE s = r /\ Unpin(r) /\ (NextPin(r)' <=> NextPin(r)) /\ GenPin(r) /\ ~GenPin(r)'
  <2>1. pins'[s] = pins[s] - 1
    BY <1>5 DEF Unpin, TypeOK
  <2>2. One(NextPin(s)') = One(NextPin(s)) /\ One(GenPin(s)) = 1 /\ One(GenPin(s)') = 0
          /\ One(NextPin(s)) \in {0, 1}
    BY <1>5 DEF One
  <2> QED
    BY <1>1, <1>2, <2>1, <2>2
<1> QED
  BY <1>3, <1>4, <1>5

\* A loop over a snapshot's revisions pins, or unpins, one.
LEMMA CountCopy ==
    ASSUME TypeOK, CountInv, NEW r \in Revisions, NEW i \in Snapshots,
           \A s \in Revisions :
               (GenPin(s)' <=> GenPin(s)) /\ (NextPin(s)' <=> NextPin(s)),
           \A s \in Revisions : s # r => CopyPins(s)' = CopyPins(s),
           \/ Pin(r) /\ i \notin CopyPins(r) /\ CopyPins(r)' = CopyPins(r) \cup {i}
           \/ Unpin(r) /\ i \in CopyPins(r) /\ CopyPins(r)' = CopyPins(r) \ {i}
    PROVE  CountInv'
<1> SUFFICES ASSUME NEW s \in Revisions
             PROVE  pins'[s] = Cardinality(CopyPins(s)') + One(GenPin(s)') + One(NextPin(s)')
  BY DEF CountInv, One
<1>1. pins[s] = Cardinality(CopyPins(s)) + One(GenPin(s)) + One(NextPin(s))
  BY DEF CountInv
<1>2. One(GenPin(s)') = One(GenPin(s)) /\ One(NextPin(s)') = One(NextPin(s))
      /\ One(GenPin(s)) \in {0, 1} /\ One(NextPin(s)) \in {0, 1}
  BY DEF One
<1>3. Cardinality(CopyPins(s)) \in Nat /\ IsFiniteSet(CopyPins(s))
  BY CopiesFinite
<1>4. CASE s # r
  <2>1. pins'[s] = pins[s] /\ CopyPins(s)' = CopyPins(s)
    BY <1>4 DEF Pin, Unpin, TypeOK
  <2> QED
    BY <1>1, <1>2, <2>1
<1>5. CASE s = r /\ Pin(r) /\ i \notin CopyPins(r) /\ CopyPins(r)' = CopyPins(r) \cup {i}
  <2>1. pins'[s] = pins[s] + 1
    BY <1>5 DEF Pin, TypeOK
  <2>2. Cardinality(CopyPins(s)') = Cardinality(CopyPins(s)) + 1
    BY <1>3, <1>5, FS_AddElement
  <2> QED
    BY <1>1, <1>2, <1>3, <2>1, <2>2
<1>6. CASE s = r /\ Unpin(r) /\ i \in CopyPins(r) /\ CopyPins(r)' = CopyPins(r) \ {i}
  <2>1. pins'[s] = pins[s] - 1
    BY <1>6 DEF Unpin, TypeOK
  <2>2. Cardinality(CopyPins(s)') = Cardinality(CopyPins(s)) - 1
    BY <1>3, <1>6, FS_RemoveElement
  <2> QED
    BY <1>1, <1>2, <1>3, <2>1, <2>2
<1> QED
  BY <1>4, <1>5, <1>6

\* A loop's list stays within the entries it was begun for.
Listed(p) ==
    /\ call[p].pc \in {"pinCopy", "unpinCopy"} =>
          call[p].todo \subseteq Remote(snapshot[call[p].snap])
    /\ At(p, "pinNext") => call[p].todo \subseteq Remote(call[p].next)
    /\ call[p].pc \in {"unpinOld", "unpinAll"} =>
          call[p].todo \subseteq Remote(entries)

\* What the other loops have on their lists stays right.
LEMMA ListKeptHolds ==
    ASSUME ListInv, NEW p \in Procs, Moves(p), Listed(p)',
           UNCHANGED entries \/ \A q \in Procs : q # p => ~Writes(q),
           \/ UNCHANGED snapshot
           \/ \A q \in Procs : q # p /\ call[q].pc \in {"pinCopy", "unpinCopy"} =>
                 snapshot'[call[q].snap] = snapshot[call[q].snap]
    PROVE  ListInv'
<1>1. ASSUME NEW q \in Procs, q # p PROVE Listed(q)'
  <2>1. call'[q] = call[q] /\ Listed(q)
    BY <1>1 DEF Moves, ListInv, Listed
  <2>2. call[q].pc \in {"unpinOld", "unpinAll"} => entries' = entries
    BY <1>1 DEF Writes
  <2>3. call[q].pc \in {"pinCopy", "unpinCopy"} => snapshot'[call[q].snap] = snapshot[call[q].snap]
    BY <1>1
  <2> QED
    BY <2>1, <2>2, <2>3 DEF Listed, At, Remote
<1> QED
  BY <1>1 DEF ListInv, Listed

\* A snapshot in the making has no pin, and other calls do not know of it.
LEMMA SnapshotUnknown ==
    ASSUME TInv, SnapInv, NEW p \in Procs, At(p, "snapshot")
    PROVE  /\ call[p].id \in Snapshots
           /\ state[call[p].id] = "none"
           /\ \A q \in Procs : call[q].pc \in {"pinCopy", "unpinCopy"} =>
                 call[q].snap # call[p].id
<1>1. Allowed(p) /\ \A q \in Procs : Allowed(q)
  BY DEF SnapInv
<1>2. call[p].id \in 1..calls /\ calls \in 0..MaxCalls
  BY DEF TInv, IdInv, At, TypeOK
<1>3. call[p].id \in Snapshots
  BY <1>2, RegistryAssumption DEF Snapshots
<1>4. ASSUME NEW q \in Procs, At(q, "pinCopy") PROVE call[q].snap # call[p].id
  <2>1. q # p /\ ~At(q, "idle") /\ ~At(p, "idle")
    BY <1>4 DEF At
  <2> QED
    BY <1>1, <1>4, <2>1 DEF Allowed, TInv, IdInv
<1>5. ASSUME NEW q \in Procs, At(q, "unpinCopy") PROVE call[q].snap # call[p].id
  BY <1>1, <1>5 DEF Allowed
<1> QED
  BY <1>1, <1>3, <1>4, <1>5 DEF Allowed, At

\* Pinning or unpinning r for the snapshot whose loop p is in.
LEMMA TakeForCopy ==
    ASSUME TInv, LockInv, SnapInv, ListInv, NEW p \in Procs, NEW r \in Revisions,
           NEW i \in Snapshots, call[p].snap = i,
           call[p].pc \in {"pinCopy", "unpinCopy"}, Took(p, r),
           UNCHANGED <<snapshot, state>>
    PROVE  /\ \A s \in Revisions : s # r => CopyPins(s)' = CopyPins(s)
           /\ At(p, "pinCopy") => i \notin CopyPins(r)
                                  /\ CopyPins(r)' = CopyPins(r) \cup {i}
           /\ At(p, "unpinCopy") => i \in CopyPins(r)
                                  /\ CopyPins(r)' = CopyPins(r) \ {i}
<1>1. /\ \A q \in Procs : q # p => call'[q] = call[q]
      /\ call'[p].pc = call[p].pc /\ call'[p].snap = i
      /\ call'[p].todo = call[p].todo \ {r} /\ r \in call[p].todo
  BY DEF Took, Turns, Goes, Moves
<1>2. /\ i \in Snapshots /\ r \in Remote(snapshot[i]) /\ state[i] # "open"
      /\ \A q \in Procs, s \in Revisions : q # p => ~PinsFor(q, i, s) /\ ~PinsFor(q, i, s)'
  <2>1. i \in Snapshots /\ \A q \in Procs : q # p /\ call[q].pc \in {"pinCopy", "unpinCopy"} =>
                                               call[q].snap # i
    BY Alone
  <2>2. r \in Remote(snapshot[i])
    BY <1>1 DEF ListInv
  <2>3. state[i] # "open"
    BY DEF SnapInv, Allowed, At
  <2> QED
    BY <1>1, <2>1, <2>2, <2>3 DEF PinsFor, At
<1>3. ASSUME NEW s \in Revisions, NEW j \in Snapshots, j # i PROVE CopyPin(j, s)' <=> CopyPin(j, s)
  <2>1. (\E q \in Procs : PinsFor(q, j, s)') <=> (\E q \in Procs : PinsFor(q, j, s))
    BY <1>1, <1>3 DEF PinsFor, At
  <2> QED
    BY <2>1 DEF CopyPin, Remote
<1>4. ASSUME NEW s \in Revisions
      PROVE  /\ CopyPin(i, s) <=> s \in Remote(snapshot[i]) /\ PinsFor(p, i, s)
             /\ CopyPin(i, s)' <=> s \in Remote(snapshot[i]) /\ PinsFor(p, i, s)'
  <2>1. (\E q \in Procs : PinsFor(q, i, s)) <=> PinsFor(p, i, s)
    BY <1>2
  <2>2. (\E q \in Procs : PinsFor(q, i, s)') <=> PinsFor(p, i, s)'
    BY <1>2
  <2>3. state'[i] # "open" /\ Remote(snapshot[i])' = Remote(snapshot[i])
    BY <1>1, <1>2 DEF Remote
  <2> QED
    BY <1>1, <1>2, <2>1, <2>2, <2>3 DEF CopyPin, Remote
<1>5. ASSUME NEW s \in Revisions, s # r PROVE CopyPin(i, s)' <=> CopyPin(i, s)
  BY <1>1, <1>4, <1>5 DEF PinsFor, At
<1>6. ASSUME NEW s \in Revisions, s # r PROVE CopyPins(s)' = CopyPins(s)
  <2>1. \A j \in Snapshots : CopyPin(j, s)' <=> CopyPin(j, s)
    BY <1>3, <1>5, <1>6
  <2> QED
    BY <2>1 DEF CopyPins
<1>7. At(p, "pinCopy") => ~CopyPin(i, r) /\ CopyPin(i, r)'
  BY <1>1, <1>2, <1>4 DEF PinsFor, At
<1>8. At(p, "unpinCopy") => CopyPin(i, r) /\ ~CopyPin(i, r)'
  BY <1>1, <1>2, <1>4 DEF PinsFor, At
<1>9. ASSUME At(p, "pinCopy") PROVE i \notin CopyPins(r) /\ CopyPins(r)' = CopyPins(r) \cup {i}
  BY <1>2, <1>3, <1>7, <1>9 DEF CopyPins
<1>10. ASSUME At(p, "unpinCopy") PROVE i \in CopyPins(r) /\ CopyPins(r)' = CopyPins(r) \ {i}
  BY <1>2, <1>3, <1>8, <1>10 DEF CopyPins
<1> QED
  BY <1>2, <1>6, <1>9, <1>10

\* Beginning or ending a loop of a snapshot changes nothing of its pins.
LEMMA CopyTurns ==
    ASSUME TInv, LockInv, SnapInv, NEW p \in Procs, Moves(p), UNCHANGED snapshot,
           NEW i \in Snapshots, NEW to \in {"open", "closing", "closed"},
           state' = [state EXCEPT ![i] = to],
           call[p].pc \in {"pinCopy", "unpinCopy", "close"}, call[p].snap = i,
           At(p, "pinCopy") => call[p].todo = {} /\ to = "open" /\ Gone(p),
           At(p, "unpinCopy") => call[p].todo = {} /\ to = "closed" /\ Gone(p),
           At(p, "close") => /\ state[i] = "open" /\ to = "closing"
                             /\ Turns(p, "unpinCopy", Remote(snapshot[i]))
    PROVE  \A r \in Revisions : CopyPins(r)' = CopyPins(r)
<1>1. \A q \in Procs : q # p => call'[q] = call[q]
  BY DEF Moves
<1>2. state \in [Snapshots -> {"none", "open", "closing", "closed"}]
  BY DEF TInv, TypeOK
<1>3. ASSUME NEW r \in Revisions, NEW j \in Snapshots, j # i PROVE CopyPin(j, r)' <=> CopyPin(j, r)
  <2>1. ~PinsFor(p, j, r) /\ ~PinsFor(p, j, r)'
    BY <1>3 DEF PinsFor, Gone, NoCall, At, Turns
  <2>2. (\E q \in Procs : PinsFor(q, j, r)') <=> (\E q \in Procs : PinsFor(q, j, r))
    BY <1>1, <2>1 DEF PinsFor, At
  <2>3. state'[j] = state[j]
    BY <1>2, <1>3
  <2> QED
    BY <2>2, <2>3 DEF CopyPin, Remote
<1>4. \A q \in Procs, r \in Revisions : q # p => ~PinsFor(q, i, r) /\ ~PinsFor(q, i, r)'
  <2>1. CASE call[p].pc \in {"pinCopy", "unpinCopy"}
    <3>1. \A q \in Procs : q # p /\ call[q].pc \in {"pinCopy", "unpinCopy"} => call[q].snap # i
      BY <2>1, Alone
    <3> QED
      BY <1>1, <3>1 DEF PinsFor, At
  <2>2. CASE At(p, "close")
    <3>1. \A q \in Procs : At(q, "pinCopy") \/ At(q, "unpinCopy") => call[q].snap # i
      BY <2>2 DEF SnapInv, Allowed
    <3> QED
      BY <1>1, <3>1 DEF PinsFor, At
  <2> QED
    BY <2>1, <2>2 DEF At
<1>5. ASSUME NEW r \in Revisions PROVE CopyPin(i, r)' <=> CopyPin(i, r)
  <2>1. (\E q \in Procs : PinsFor(q, i, r)) <=> PinsFor(p, i, r)
    BY <1>4
  <2>2. (\E q \in Procs : PinsFor(q, i, r)') <=> PinsFor(p, i, r)'
    BY <1>4
  <2>3. state'[i] = to
    BY <1>2
  <2>4. CASE At(p, "pinCopy")
    <3>1. PinsFor(p, i, r) /\ to = "open"
      BY <2>4 DEF PinsFor
    <3> QED
      BY <2>1, <2>3, <3>1 DEF CopyPin, Remote
  <2>5. CASE At(p, "unpinCopy")
    <3>1. ~PinsFor(p, i, r) /\ ~PinsFor(p, i, r)' /\ state[i] = "closing" /\ to = "closed"
      BY <2>5 DEF PinsFor, At, Gone, NoCall, SnapInv, Allowed
    <3> QED
      BY <2>1, <2>2, <2>3, <3>1 DEF CopyPin, Remote
  <2>6. CASE At(p, "close")
    <3>1. state[i] = "open" /\ to = "closing" /\ (PinsFor(p, i, r)' <=> r \in Remote(snapshot[i]))
      BY <2>6 DEF PinsFor, At, Turns, Goes
    <3> QED
      BY <2>2, <2>3, <3>1 DEF CopyPin, Remote
  <2> QED
    BY <2>4, <2>5, <2>6 DEF At
<1> QED
  BY <1>3, <1>5 DEF CopyPins

\* Generations that a step leaves alone: nothing of them is written, or their
\* loop is begun.
LEMMA LoopBegins ==
    ASSUME TInv, LockInv, NEW p \in Procs, Moves(p), UNCHANGED entries,
           NoReaders, writer = NoProc,
           \/ At(p, "pinNext")' /\ call'[p].todo = Remote(call'[p].next)
           \/ At(p, "unpinAll")' /\ call'[p].todo = Remote(entries)
    PROVE  \A r \in Revisions : (GenPin(r)' <=> GenPin(r)) /\ (NextPin(r)' <=> NextPin(r))
<1>1. NoProc \notin Procs
  BY RegistryAssumption
<1>2. \A q \in Procs : ~Writes(q)
  BY <1>1 DEF LockInv
<1>3. \A q \in Procs : q # p => call'[q] = call[q]
  BY DEF Moves
<1>4. ASSUME NEW r \in Revisions PROVE ~NextPin(r) /\ ~NextPin(r)'
  BY <1>2, <1>3 DEF NextPin, Writes, At
<1>5. ASSUME NEW r \in Revisions PROVE GenPin(r)' <=> GenPin(r)
  BY <1>2, <1>3 DEF GenPin, Writes, At, Remote
<1> QED
  BY <1>4, <1>5

\* The loops of a new generation.
LEMMA PinNextPins ==
    ASSUME TInv, LockInv, SnapInv, PinInv, NEW p \in Procs, PinNext(p)
    PROVE  PinInv'
<1>1. At(p, "pinNext") /\ UNCHANGED <<published, registryVars, snapshotVars, calls>>
  BY Zenon DEF PinNext
<1>2. TypeOK /\ Moves(p) /\ Writes(p) /\ Listed(p) /\ CountInv /\ ListInv
  <2>1. TypeOK /\ LocalInv /\ Step(p)
    BY DEF TInv, Step, RefreshStep
  <2> QED
    BY <1>1, <2>1, StepMoves DEF Continues, Moves, TypeOK, Writes, At, PinInv, ListInv, Listed
<1>3. UNCHANGED <<entries, snapshot, state>>
  BY <1>1 DEF registryVars, snapshotVars
<1>4. \A q \in Procs : q # p => call'[q] = call[q] /\ ~Writes(q)
  BY <1>2, Alone DEF Moves
<1>5. CASE \E r \in Revisions : Pin(r) /\ Took(p, r)
  <2>1. PICK r \in Revisions : Pin(r) /\ Took(p, r)
    BY <1>5
  <2>2. /\ call'[p].pc = "pinNext" /\ call'[p].next = call[p].next
        /\ call'[p].todo = call[p].todo \ {r} /\ r \in call[p].todo
        /\ call[p].pc = "pinNext" /\ r \in Remote(call[p].next)
    BY <1>1, <1>2, <2>1 DEF Took, Turns, Goes, Kept, At, Listed
  <2>3. \A s \in Revisions : CopyPins(s)' = CopyPins(s)
    BY <1>2, <1>3, <2>2, CopiesKept
  <2>4. \A s \in Revisions : GenPin(s)' <=> GenPin(s)
    BY <1>3, <1>4, <2>2 DEF GenPin, Remote
  <2>5. ASSUME NEW s \in Revisions
        PROVE  /\ NextPin(s) <=> s \in Remote(call[p].next) /\ s \notin call[p].todo
               /\ NextPin(s)' <=> s \in Remote(call[p].next) /\ s \notin call'[p].todo
    BY <1>4, <2>2 DEF NextPin, At, Writes
  <2>6. CountInv'
    BY <1>2, <2>1, <2>2, <2>3, <2>4, <2>5, CountGeneration
  <2>7. Listed(p)'
    BY <1>2, <2>2 DEF Listed, At
  <2> QED
    BY <1>2, <1>3, <2>6, <2>7, ListKeptHolds DEF PinInv
<1>6. CASE call[p].todo = {} /\ Turns(p, "unpinOld", Remote(entries)) /\ UNCHANGED pins
  <2>2. /\ call'[p].pc = "unpinOld" /\ call'[p].next = call[p].next
        /\ call'[p].todo = Remote(entries) /\ call[p].pc = "pinNext"
    BY <1>1, <1>6 DEF Turns, Goes, Kept, At
  <2>3. \A s \in Revisions : CopyPins(s)' = CopyPins(s)
    BY <1>2, <1>3, <2>2, CopiesKept
  <2>4. \A s \in Revisions : GenPin(s)' <=> GenPin(s)
    BY <1>3, <1>4, <2>2 DEF GenPin, Remote, Writes
  <2>5. \A s \in Revisions : NextPin(s)' <=> NextPin(s)
    BY <1>4, <1>6, <2>2 DEF NextPin, At, Writes, Remote
  <2>6. CountInv'
    BY <1>2, <1>6, <2>3, <2>4, <2>5, CountKept
  <2>7. Listed(p)'
    BY <1>3, <2>2 DEF Listed, At, Remote
  <2> QED
    BY <1>2, <1>3, <2>6, <2>7, ListKeptHolds DEF PinInv
<1> QED
  BY <1>2, <1>5, <1>6, PinNextCases

\* UnpinOld moves the pin of the generation: the old one's goes, and publishing
\* makes that of the next one the generation's.
LEMMA UnpinOldPins ==
    ASSUME TInv, LockInv, SnapInv, PinInv, NEW p \in Procs, UnpinOld(p)
    PROVE  PinInv'
<1>1. At(p, "unpinOld") /\ UNCHANGED <<published, snapshotVars, calls>>
  BY Zenon DEF UnpinOld
<1>2. TypeOK /\ Moves(p) /\ Writes(p) /\ Listed(p) /\ CountInv /\ ListInv
  <2>1. TypeOK /\ LocalInv /\ Step(p)
    BY DEF TInv, Step, RefreshStep
  <2> QED
    BY <1>1, <2>1, StepMoves DEF Continues, Moves, TypeOK, Writes, At, PinInv, ListInv, Listed
<1>3. UNCHANGED <<snapshot, state>>
  BY <1>1 DEF snapshotVars
<1>4. \A q \in Procs : q # p => call'[q] = call[q] /\ ~Writes(q)
  BY <1>2, Alone DEF Moves
<1>5. CASE \E r \in Revisions : Unpin(r) /\ Took(p, r) /\ UNCHANGED registryVars
  <2>1. PICK r \in Revisions : Unpin(r) /\ Took(p, r) /\ UNCHANGED registryVars
    BY <1>5
  <2>2. /\ call'[p].pc = "unpinOld" /\ call'[p].next = call[p].next
        /\ call'[p].todo = call[p].todo \ {r} /\ r \in call[p].todo
        /\ call[p].pc = "unpinOld" /\ entries' = entries /\ r \in Remote(entries)
    BY <1>1, <1>2, <2>1 DEF Took, Turns, Goes, Kept, At, Listed, registryVars
  <2>3. \A s \in Revisions : CopyPins(s)' = CopyPins(s)
    BY <1>2, <1>3, <2>2, CopiesKept
  <2>4. ASSUME NEW s \in Revisions
        PROVE  /\ GenPin(s) <=> s \in Remote(entries) /\ s \in call[p].todo
               /\ GenPin(s)' <=> s \in Remote(entries) /\ s \in call'[p].todo
    BY <1>4, <2>2 DEF GenPin, Remote, Writes
  <2>5. \A s \in Revisions : NextPin(s)' <=> NextPin(s)
    BY <1>4, <2>2 DEF NextPin, At, Writes, Remote
  <2>6. CountInv'
    BY <1>2, <2>1, <2>2, <2>3, <2>4, <2>5, CountGeneration
  <2>7. Listed(p)'
    BY <1>2, <2>2 DEF Listed, At, Remote
  <2> QED
    BY <1>2, <1>3, <2>2, <2>6, <2>7, ListKeptHolds DEF PinInv
<1>6. CASE call[p].todo = {} /\ entries' = call[p].next /\ Gone(p) /\ UNCHANGED pins
  <2>2. call'[p].pc = "idle" /\ call[p].pc = "unpinOld"
    BY <1>1, <1>6 DEF Gone, NoCall, At
  <2>3. \A s \in Revisions : CopyPins(s)' = CopyPins(s)
    BY <1>2, <1>3, <2>2, CopiesKept
  <2>4. ASSUME NEW s \in Revisions
        PROVE  /\ ~GenPin(s) /\ (NextPin(s) <=> s \in Remote(call[p].next))
               /\ ~NextPin(s)' /\ (GenPin(s)' <=> s \in Remote(call[p].next))
    <3>1. ~GenPin(s)
      BY <1>6, <2>2 DEF GenPin
    <3>2. NextPin(s) <=> s \in Remote(call[p].next)
      BY <1>4, <2>2 DEF NextPin, At, Writes
    <3>3. ~NextPin(s)'
      BY <1>4, <2>2 DEF NextPin, At, Writes
    <3>4. GenPin(s)' <=> s \in Remote(call[p].next)
      BY <1>4, <1>6, <2>2 DEF GenPin, Writes, Remote
    <3> QED
      BY <3>1, <3>2, <3>3, <3>4
  <2>6. CountInv'
    <3> SUFFICES ASSUME NEW s \in Revisions
                 PROVE  pins'[s] = Cardinality(CopyPins(s)') + One(GenPin(s)') + One(NextPin(s)')
      BY DEF CountInv, One
    <3>1. pins[s] = Cardinality(CopyPins(s)) + One(GenPin(s)) + One(NextPin(s))
      BY <1>2 DEF CountInv
    <3>2. One(GenPin(s)) = 0 /\ One(NextPin(s)') = 0 /\ One(GenPin(s)') = One(NextPin(s))
            /\ One(NextPin(s)) \in {0, 1}
      BY <2>4 DEF One
    <3>3. Cardinality(CopyPins(s)) \in Nat
      BY CopiesFinite
    <3> QED
      BY <1>6, <2>3, <3>1, <3>2, <3>3
  <2>7. Listed(p)'
    BY <2>2 DEF Listed, At
  <2> QED
    BY <1>2, <1>3, <1>4, <2>6, <2>7, ListKeptHolds DEF PinInv
<1> QED
  BY <1>2, <1>5, <1>6, UnpinOldCases

\* The loop of the registry's Close.
LEMMA UnpinAllPins ==
    ASSUME TInv, LockInv, SnapInv, PinInv, NEW p \in Procs, UnpinAll(p)
    PROVE  PinInv'
<1>1. At(p, "unpinAll") /\ UNCHANGED <<published, snapshotVars, calls>>
  BY Zenon DEF UnpinAll
<1>2. TypeOK /\ Moves(p) /\ Writes(p) /\ Listed(p) /\ CountInv /\ ListInv
  <2>1. TypeOK /\ LocalInv /\ Step(p)
    BY DEF TInv, Step, ReleaseStep
  <2> QED
    BY <1>1, <2>1, StepMoves DEF Continues, Moves, TypeOK, Writes, At, PinInv, ListInv, Listed
<1>3. UNCHANGED <<snapshot, state>>
  BY <1>1 DEF snapshotVars
<1>4. \A q \in Procs : q # p => call'[q] = call[q] /\ ~Writes(q)
  BY <1>2, Alone DEF Moves
<1>5. CASE \E r \in Revisions : Unpin(r) /\ Took(p, r) /\ UNCHANGED registryVars
  <2>1. PICK r \in Revisions : Unpin(r) /\ Took(p, r) /\ UNCHANGED registryVars
    BY <1>5
  <2>2. /\ call'[p].pc = "unpinAll"
        /\ call'[p].todo = call[p].todo \ {r} /\ r \in call[p].todo
        /\ call[p].pc = "unpinAll" /\ entries' = entries /\ r \in Remote(entries)
    BY <1>1, <1>2, <2>1 DEF Took, Turns, Goes, Kept, At, Listed, registryVars
  <2>3. \A s \in Revisions : CopyPins(s)' = CopyPins(s)
    BY <1>2, <1>3, <2>2, CopiesKept
  <2>4. ASSUME NEW s \in Revisions
        PROVE  /\ GenPin(s) <=> s \in Remote(entries) /\ s \in call[p].todo
               /\ GenPin(s)' <=> s \in Remote(entries) /\ s \in call'[p].todo
    BY <1>4, <2>2 DEF GenPin, Remote, Writes
  <2>5. \A s \in Revisions : NextPin(s)' <=> NextPin(s)
    BY <1>4, <2>2 DEF NextPin, At, Writes, Remote
  <2>6. CountInv'
    BY <1>2, <2>1, <2>2, <2>3, <2>4, <2>5, CountGeneration
  <2>7. Listed(p)'
    BY <1>2, <2>2 DEF Listed, At, Remote
  <2> QED
    BY <1>2, <1>3, <2>2, <2>6, <2>7, ListKeptHolds DEF PinInv
<1>6. CASE call[p].todo = {} /\ entries' = Nothing /\ Gone(p) /\ UNCHANGED pins
  <2>2. call'[p].pc = "idle" /\ call[p].pc = "unpinAll"
    BY <1>1, <1>6 DEF Gone, NoCall, At
  <2>3. \A s \in Revisions : CopyPins(s)' = CopyPins(s)
    BY <1>2, <1>3, <2>2, CopiesKept
  <2>4. \A s \in Revisions : ~GenPin(s) /\ ~GenPin(s)'
    BY <1>6, <2>2, RegistryAssumption DEF GenPin, Remote, Nothing
  <2>5. \A s \in Revisions : ~NextPin(s) /\ ~NextPin(s)'
    BY <1>4, <2>2 DEF NextPin, At, Writes
  <2>6. CountInv'
    BY <1>2, <1>6, <2>3, <2>4, <2>5, CountKept
  <2>7. Listed(p)'
    BY <2>2 DEF Listed, At
  <2> QED
    BY <1>2, <1>3, <1>4, <2>6, <2>7, ListKeptHolds DEF PinInv
<1> QED
  BY <1>2, <1>5, <1>6, UnpinAllCases

\* The loops of snapshots, being made and being closed.
LEMMA CopyLoopPins ==
    ASSUME TInv, LockInv, SnapInv, PinInv, NEW p \in Procs, PinCopy(p) \/ UnpinCopy(p)
    PROVE  PinInv'
<1>1. call[p].pc \in {"pinCopy", "unpinCopy"} /\ UNCHANGED <<published, registryVars, snapshot, delivered, calls>>
  BY Zenon DEF PinCopy, UnpinCopy, At
<1>2. TypeOK /\ Moves(p) /\ ~Writes(p) /\ Listed(p) /\ CountInv /\ ListInv
  <2>1. TypeOK /\ LocalInv /\ Step(p)
    BY DEF TInv, Step, SnapshotStep
  <2> QED
    BY <1>1, <2>1, StepMoves DEF Continues, Moves, TypeOK, Writes, PinInv, ListInv, Listed
<1>3. UNCHANGED <<entries, snapshot>>
  BY <1>1 DEF registryVars
<1>4. PICK i \in Snapshots : call[p].snap = i
  BY <1>1, Alone
<1>5. CASE \E r \in Revisions :
              /\ Took(p, r) /\ UNCHANGED state
              /\ (Pin(r) /\ At(p, "pinCopy")) \/ (Unpin(r) /\ At(p, "unpinCopy"))
  <2>1. PICK r \in Revisions :
              /\ Took(p, r) /\ UNCHANGED state
              /\ (Pin(r) /\ At(p, "pinCopy")) \/ (Unpin(r) /\ At(p, "unpinCopy"))
    BY <1>5
  <2>2. call'[p].pc = call[p].pc /\ call'[p].todo = call[p].todo \ {r} /\ call'[p].snap = call[p].snap
    BY <2>1 DEF Took, Turns, Goes
  <2>3. /\ \A s \in Revisions : s # r => CopyPins(s)' = CopyPins(s)
        /\ At(p, "pinCopy") => i \notin CopyPins(r) /\ CopyPins(r)' = CopyPins(r) \cup {i}
        /\ At(p, "unpinCopy") => i \in CopyPins(r) /\ CopyPins(r)' = CopyPins(r) \ {i}
    BY <1>1, <1>2, <1>3, <1>4, <2>1, TakeForCopy
  <2>4. \A s \in Revisions : (GenPin(s)' <=> GenPin(s)) /\ (NextPin(s)' <=> NextPin(s))
    <3>1. ~Writes(p)'
      BY <1>1, <2>2 DEF Writes
    <3> QED
      BY <1>2, <1>3, <3>1, GenerationsKept
  <2>5. CountInv'
    BY <1>2, <2>1, <2>3, <2>4, CountCopy
  <2>6. Listed(p)'
    BY <1>1, <1>2, <1>3, <2>2 DEF Listed, At, Remote
  <2> QED
    BY <1>2, <1>3, <2>5, <2>6, ListKeptHolds DEF PinInv
<1>6. CASE /\ call[p].todo = {} /\ Gone(p) /\ UNCHANGED pins
           /\ \/ At(p, "pinCopy") /\ state' = [state EXCEPT ![call[p].snap] = "open"]
              \/ At(p, "unpinCopy") /\ state' = [state EXCEPT ![call[p].snap] = "closed"]
  <2>1. call'[p].pc = "idle"
    BY <1>6 DEF Gone, NoCall
  <2>2. PICK to \in {"open", "closed"} :
           /\ state' = [state EXCEPT ![i] = to]
           /\ to = "open" <=> At(p, "pinCopy")
           /\ to = "closed" <=> At(p, "unpinCopy")
    BY <1>4, <1>6 DEF At
  <2>3. \A s \in Revisions : CopyPins(s)' = CopyPins(s)
    BY <1>1, <1>2, <1>3, <1>4, <1>6, <2>2, CopyTurns DEF At
  <2>4. \A s \in Revisions : (GenPin(s)' <=> GenPin(s)) /\ (NextPin(s)' <=> NextPin(s))
    <3>1. ~Writes(p)'
      BY <2>1 DEF Writes
    <3> QED
      BY <1>2, <1>3, <3>1, GenerationsKept
  <2>5. CountInv'
    BY <1>2, <1>6, <2>3, <2>4, CountKept
  <2>6. Listed(p)'
    BY <2>1 DEF Listed, At
  <2> QED
    BY <1>2, <1>3, <2>5, <2>6, ListKeptHolds DEF PinInv
<1>7. CASE PinCopy(p)
  <2>1. At(p, "pinCopy")
    BY <1>7, Zenon DEF PinCopy
  <2> QED
    BY <1>2, <1>5, <1>6, <1>7, <2>1, PinCopyCases
<1>8. CASE UnpinCopy(p)
  <2>1. At(p, "unpinCopy")
    BY <1>8, Zenon DEF UnpinCopy
  <2> QED
    BY <1>2, <1>5, <1>6, <1>8, <2>1, UnpinCopyCases
<1> QED
  BY <1>7, <1>8

\* A snapshot that is begun has no pin yet, whatever it copies.
LEMMA SnapshotPins ==
    ASSUME TInv, LockInv, SnapInv, PinInv, NEW p \in Procs, Snapshot(p)
    PROVE  PinInv'
<1>1. /\ At(p, "snapshot") /\ UNCHANGED <<pins, entries, state>>
      /\ snapshot' = [snapshot EXCEPT ![call[p].id] = entries]
  BY DEF Snapshot, storeVars, registryVars
<1>2. /\ TypeOK /\ Moves(p) /\ CountInv /\ ListInv
      /\ call'[p].pc = "pinCopy" /\ call'[p].snap = call[p].id /\ call'[p].todo = Remote(entries)
  BY SnapshotCall DEF TInv, PinInv, Goes
<1>3. PICK i \in Snapshots :
         /\ i = call[p].id /\ state[i] = "none"
         /\ \A q \in Procs : call[q].pc \in {"pinCopy", "unpinCopy"} => call[q].snap # i
  BY <1>1, SnapshotUnknown
<1>4. \A q \in Procs : q # p => call'[q] = call[q]
  BY <1>2 DEF Moves
<1>5. snapshot'[i] = entries /\ \A j \in Snapshots : j # i => snapshot'[j] = snapshot[j]
  BY <1>1, <1>2, <1>3 DEF TypeOK
<1>6. ASSUME NEW r \in Revisions, NEW j \in Snapshots PROVE CopyPin(j, r)' <=> CopyPin(j, r)
  <2>1. CASE j = i
    <3>1. ~CopyPin(j, r)
      BY <1>3, <2>1 DEF CopyPin, PinsFor, At
    <3>2. ~PinsFor(p, j, r)' \/ r \notin Remote(entries)
      BY <1>2 DEF PinsFor, At
    <3>3. \A q \in Procs : q # p => ~PinsFor(q, j, r)'
      BY <1>3, <1>4, <2>1 DEF PinsFor, At
    <3>4. ~CopyPin(j, r)'
      BY <1>1, <1>3, <1>5, <2>1, <3>2, <3>3 DEF CopyPin, Remote
    <3> QED
      BY <3>1, <3>4
  <2>2. CASE j # i
    <3>1. ~PinsFor(p, j, r) /\ ~PinsFor(p, j, r)'
      BY <1>1, <1>2, <1>3, <2>2 DEF PinsFor, At
    <3>2. (\E q \in Procs : PinsFor(q, j, r)') <=> (\E q \in Procs : PinsFor(q, j, r))
      BY <1>4, <3>1 DEF PinsFor, At
    <3> QED
      BY <1>1, <1>5, <2>2, <3>2 DEF CopyPin, Remote
  <2> QED
    BY <2>1, <2>2
<1>7. \A r \in Revisions : CopyPins(r)' = CopyPins(r)
  BY <1>6 DEF CopyPins
<1>8. \A s \in Revisions : (GenPin(s)' <=> GenPin(s)) /\ (NextPin(s)' <=> NextPin(s))
  BY <1>1, <1>2, GenerationsKept DEF Writes, At
<1>9. CountInv'
  BY <1>1, <1>2, <1>7, <1>8, CountKept
<1>10. Listed(p)'
  BY <1>1, <1>2, <1>3, <1>5 DEF Listed, At, Remote
<1>11. \A q \in Procs : q # p /\ call[q].pc \in {"pinCopy", "unpinCopy"} =>
          snapshot'[call[q].snap] = snapshot[call[q].snap]
  BY <1>1, <1>3, <1>5, Alone
<1> QED
  BY <1>1, <1>2, <1>9, <1>10, <1>11, ListKeptHolds DEF PinInv

\* Close opens the list of what the snapshot has pinned.
LEMMA ClosePins ==
    ASSUME TInv, LockInv, SnapInv, PinInv, NEW p \in Procs, Close(p)
    PROVE  PinInv'
<1>1. call[p].pc = "close" /\ UNCHANGED <<pins, entries, snapshot>>
  BY DEF Close, storeVars, registryVars, At
<1>2. TypeOK /\ Moves(p) /\ CountInv /\ ListInv
  <2>1. TypeOK /\ LocalInv /\ Step(p)
    BY DEF TInv, Step, SnapshotStep
  <2> QED
    BY <1>1, <2>1, StepMoves DEF Continues, Moves, TypeOK, PinInv
<1>3. PICK i \in Snapshots : call[p].snap = i /\ state[i] # "none"
  BY <1>1 DEF SnapInv, Allowed
<1>4. state[i] \in {"none", "open", "closing", "closed"}
  BY <1>2 DEF TypeOK
<1>5. CASE UNCHANGED state /\ Gone(p)
  <2>1. call'[p].pc = "idle"
    BY <1>5 DEF Gone, NoCall
  <2>2. \A s \in Revisions : CopyPins(s)' = CopyPins(s)
    BY <1>1, <1>2, <1>5, <2>1, CopiesKept
  <2>3. \A s \in Revisions : (GenPin(s)' <=> GenPin(s)) /\ (NextPin(s)' <=> NextPin(s))
    BY <1>1, <1>2, <2>1, GenerationsKept DEF Writes
  <2>4. CountInv' /\ Listed(p)'
    BY <1>1, <1>2, <2>1, <2>2, <2>3, CountKept DEF Listed, At
  <2> QED
    BY <1>1, <1>2, <2>4, ListKeptHolds DEF PinInv
<1>6. CASE /\ state[i] \notin {"closed", "closing"}
           /\ state' = [state EXCEPT ![i] = "closing"]
           /\ Turns(p, "unpinCopy", Remote(snapshot[i]))
  <2>1. /\ call'[p].pc = "unpinCopy" /\ call'[p].snap = i
        /\ call'[p].todo = Remote(snapshot[i])
    BY <1>3, <1>6 DEF Turns, Goes
  <2>2. \A s \in Revisions : CopyPins(s)' = CopyPins(s)
    BY <1>1, <1>2, <1>3, <1>4, <1>6, CopyTurns DEF At
  <2>3. \A s \in Revisions : (GenPin(s)' <=> GenPin(s)) /\ (NextPin(s)' <=> NextPin(s))
    BY <1>1, <1>2, <2>1, GenerationsKept DEF Writes
  <2>4. CountInv'
    BY <1>1, <1>2, <2>2, <2>3, CountKept
  <2>5. Listed(p)'
    BY <1>1, <2>1 DEF Listed, At, Remote
  <2> QED
    BY <1>1, <1>2, <2>4, <2>5, ListKeptHolds DEF PinInv
<1> QED
  BY <1>2, <1>3, <1>5, <1>6, CloseCases

\* Steps outside every loop.
LEMMA QuietPins ==
    ASSUME TypeOK, PinInv, NEW p \in Procs, Moves(p),
           UNCHANGED <<pins, entries, snapshot, state>>,
           ~Writes(p), ~Writes(p)',
           call[p].pc \notin {"pinCopy", "unpinCopy"},
           call'[p].pc \notin {"pinCopy", "unpinCopy"}
    PROVE  PinInv'
<1>1. CountInv'
  BY CopiesKept, GenerationsKept, CountKept DEF PinInv
<1>2. Listed(p)'
  BY DEF Listed, At, Writes
<1> QED
  BY <1>1, <1>2, ListKeptHolds DEF PinInv

\* Taking the lock begins a loop and moves no pin.
LEMMA LockedPins ==
    ASSUME TInv, LockInv, SnapInv, PinInv, NEW p \in Procs, Commit(p) \/ ReleaseLock(p)
    PROVE  PinInv'
<1>1. /\ call[p].pc \in {"commit", "releaseLock"} /\ NoReaders /\ writer = NoProc
      /\ UNCHANGED <<pins, entries, snapshot, state>>
  BY DEF Commit, ReleaseLock, storeVars, snapshotVars, At
<1>2. TypeOK
  BY DEF TInv
<1>3. /\ Moves(p)
      /\ \/ At(p, "pinNext")' /\ call'[p].todo = Remote(call'[p].next)
         \/ At(p, "unpinAll")' /\ call'[p].todo = Remote(entries)
  <2>1. CASE Commit(p)
    <3>1. Turns(p, "pinNext", Remote(call[p].next))
      BY <1>2, <2>1, TurnCall, EntriesTyped DEF Commit, TypeOK, Call
    <3> QED
      BY <3>1 DEF Turns, Goes, Kept, At
  <2>2. CASE ReleaseLock(p)
    <3>1. Turns(p, "unpinAll", Remote(entries))
      BY <1>2, <2>2, TurnCall, EntriesTyped DEF ReleaseLock, TypeOK
    <3> QED
      BY <3>1 DEF Turns, Goes, At
  <2> QED
    BY <2>1, <2>2
<1>4. CountInv'
  <2>1. call'[p].pc \notin {"pinCopy", "unpinCopy"}
    BY <1>3 DEF At
  <2>2. \A s \in Revisions : CopyPins(s)' = CopyPins(s)
    BY <1>1, <1>3, <2>1, CopiesKept
  <2>3. \A s \in Revisions : (GenPin(s)' <=> GenPin(s)) /\ (NextPin(s)' <=> NextPin(s))
    BY <1>1, <1>3, LoopBegins
  <2> QED
    BY <1>1, <2>2, <2>3, CountKept DEF PinInv
<1>5. Listed(p)'
  BY <1>1, <1>3 DEF Listed, At, Remote
<1> QED
  BY <1>1, <1>3, <1>4, <1>5, ListKeptHolds DEF PinInv

\* Each step keeps the pins.
LEMMA StepPins ==
    ASSUME TInv, LockInv, SnapInv, PinInv, NEW p \in Procs, Step(p)
    PROVE  PinInv'
<1>a. TypeOK /\ LocalInv
  BY DEF TInv
<1>b. Moves(p)
  BY <1>a, StepMoves DEF Continues, Moves, TypeOK
<1>1. CASE Begin(p)
  <2>1. UNCHANGED <<pins, entries, snapshot, state>> /\ call[p].pc = "idle" /\ BeginFacts(p)
    BY <1>a, <1>1, BeginCall, Zenon DEF Begin, storeVars, registryVars, snapshotVars, At
  <2> QED
    BY <1>a, <1>b, <2>1, QuietPins DEF BeginFacts, Writes
<1>2. CASE Refresh(p) \/ Discover(p) \/ RefreshFails(p)
  <2>1. UNCHANGED <<pins, entries, snapshot, state>> /\ call[p].pc \in {"refresh", "discover", "commit"}
    BY <1>2, Zenon DEF Refresh, Discover, RefreshFails, storeVars, registryVars, snapshotVars, At
  <2>2. CASE Refresh(p)
    BY <1>a, <1>b, <2>1, <2>2, RefreshCall, QuietPins DEF Writes
  <2>3. CASE Discover(p)
    <3>1. call'[p].pc \in {"discover", "commit"}
      BY <1>a, <2>3, DiscoverCall DEF Asked
    <3> QED
      BY <1>a, <1>b, <2>1, <3>1, QuietPins DEF Writes
  <2>4. CASE RefreshFails(p)
    <3>1. call'[p].pc = "idle"
      BY <1>a, <2>4, ReturnCall DEF RefreshFails, Gone, NoCall
    <3> QED
      BY <1>a, <1>b, <2>1, <3>1, QuietPins DEF Writes
  <2> QED
    BY <1>2, <2>2, <2>3, <2>4
<1>3. CASE Get(p) \/ Hit(p) \/ Fetch(p) \/ GetFails(p) \/ Remove(p)
  <2>1. UNCHANGED <<pins, entries, snapshot, state>> /\ call[p].pc \in {"get", "fetch"}
    BY <1>3, Zenon DEF Get, Hit, Fetch, GetFails, Remove, storeVars, registryVars, snapshotVars, At
  <2>2. call'[p].pc \in {"idle", "fetch"}
    <3>1. CASE Get(p)
      BY <1>a, <3>1, GetCall DEF Gone, NoCall, Goes
    <3>2. CASE Remove(p)
      BY <3>2 DEF Remove, At
    <3> QED
      BY <1>a, <1>3, <3>1, <3>2, ReturnCall DEF Hit, Fetch, GetFails, Gone, NoCall
  <2> QED
    BY <1>a, <1>b, <2>1, <2>2, QuietPins DEF Writes
<1>4. CASE Release(p)
  <2>1. UNCHANGED <<pins, entries, snapshot, state>> /\ call[p].pc = "release"
    BY <1>4 DEF Release, storeVars, snapshotVars, At
  <2> QED
    BY <1>a, <1>b, <1>4, <2>1, ReleaseCall, QuietPins DEF Goes, Writes
<1> QED
  BY <1>1, <1>2, <1>3, <1>4, LockedPins, PinNextPins, UnpinOldPins, UnpinAllPins,
     CopyLoopPins, SnapshotPins, ClosePins
     DEF Step, RefreshStep, SnapshotStep, ReleaseStep

----------------------------------------------------------------------------
(* What follows of the pins *)

PInv == TInv /\ LockInv /\ SnapInv /\ PinInv

\* At first nothing is pinned and nothing is named.
LEMMA InitPins == RegistryInit => PInv
<1> SUFFICES ASSUME RegistryInit PROVE PInv
  OBVIOUS
<1>1. \A p \in Procs : call[p] = NoCall
  BY DEF RegistryInit
<1>2. LockInv /\ SnapInv /\ ListInv
  BY <1>1, RegistryAssumption
     DEF RegistryInit, NoCall, LockInv, SnapInv, ListInv, Allowed, HoldsGate, Writes, At
<1>3. ASSUME NEW r \in Revisions
      PROVE  pins[r] = 0 /\ CopyPins(r) = {} /\ ~GenPin(r) /\ ~NextPin(r)
  <2>1. pins[r] = 0
    BY DEF RegistryInit, StoreInit
  <2>2. \A i \in Snapshots : ~CopyPin(i, r)
    BY <1>1 DEF RegistryInit, CopyPin, PinsFor, NoCall, At
  <2>3. r \notin Remote(entries)
    BY RegistryAssumption DEF RegistryInit, Remote, Nothing
  <2> QED
    BY <1>1, <2>1, <2>2, <2>3 DEF CopyPins, GenPin, NextPin, NoCall, At
<1>4. CountInv
  BY <1>3, FS_EmptySet DEF CountInv, One
<1> QED
  BY <1>2, <1>4, InitTyped DEF PInv, PinInv

\* Prune changes no pin.
LEMMA PrunePins ==
    ASSUME PInv, Prune
    PROVE  PInv'
<1>1. UNCHANGED <<pins, gate, writer, entries, snapshot, state, calls, call>>
  BY Zenon DEF Prune, registryVars, snapshotVars
<1>2. LockInv' /\ SnapInv' /\ ListInv'
  BY <1>1 DEF PInv, PinInv, LockInv, SnapInv, ListInv, Allowed, HoldsGate, Writes, At, Remote
<1>3. \A r \in Revisions, i \in Snapshots : CopyPin(i, r)' <=> CopyPin(i, r)
  BY <1>1 DEF CopyPin, PinsFor, Remote, At
<1>4. \A r \in Revisions : CopyPins(r)' = CopyPins(r)
  BY <1>3 DEF CopyPins
<1>5. \A r \in Revisions : (GenPin(r)' <=> GenPin(r)) /\ (NextPin(r)' <=> NextPin(r))
  BY <1>1 DEF GenPin, NextPin, Remote, At
<1>6. CountInv'
  BY <1>1, <1>4, <1>5, CountKept DEF PInv, PinInv
<1> QED
  BY <1>2, <1>6, PruneTyped DEF PInv, PinInv

\* A step that changes nothing keeps PInv.
LEMMA StutterPins ==
    ASSUME PInv, UNCHANGED vars
    PROVE  PInv'
<1>1. UNCHANGED <<pins, published, gate, writer, entries, previous, snapshot, state, delivered, calls, call>>
  BY DEF vars, storeVars, registryVars, snapshotVars
<1>2. LockInv' /\ SnapInv' /\ ListInv'
  BY <1>1 DEF PInv, PinInv, LockInv, SnapInv, ListInv, Allowed, HoldsGate, Writes, At, Remote
<1>3. \A r \in Revisions, i \in Snapshots : CopyPin(i, r)' <=> CopyPin(i, r)
  BY <1>1 DEF CopyPin, PinsFor, Remote, At
<1>4. \A r \in Revisions : CopyPins(r)' = CopyPins(r)
  BY <1>3 DEF CopyPins
<1>5. \A r \in Revisions : (GenPin(r)' <=> GenPin(r)) /\ (NextPin(r)' <=> NextPin(r))
  BY <1>1 DEF GenPin, NextPin, Remote, At
<1>6. CountInv'
  BY <1>1, <1>4, <1>5, CountKept DEF PInv, PinInv
<1>7. TInv'
  BY <1>1 DEF PInv, TInv, TypeOK, IdInv, LocalInv, At
<1> QED
  BY <1>2, <1>6, <1>7 DEF PInv, PinInv

\* PInv is inductive.
LEMMA NextPins == PInv /\ [RegistryNext]_vars => PInv'
<1> SUFFICES ASSUME PInv, [RegistryNext]_vars PROVE PInv'
  OBVIOUS
<1>1. ASSUME NEW p \in Procs, Step(p) PROVE PInv'
  <2>1. TInv'
    BY <1>1, TypedStep DEF PInv
  <2> QED
    BY <1>1, <2>1, StepLocks, StepSnaps, StepPins DEF PInv, TInv
<1> QED
  BY <1>1, PrunePins, StutterPins DEF RegistryNext, Step, Finished

\* Hence it holds always.
LEMMA PinsInvariant == RegistrySpec => []PInv
  BY InitPins, NextPins, PTL DEF RegistrySpec

\* Pins neither leak nor go missing: once no pin loop is under way, there is
\* one pin for each open snapshot and one for the generation.
THEOREM PinsAreExact == RegistrySpec => []PinsExact
<1>1. PInv => PinsExact
  <2> SUFFICES ASSUME PInv, \A p \in Procs : ~Pinning(p), NEW r \in Revisions
               PROVE  pins[r] = Cardinality(OpenWith(r))
                                  + (IF r \in Remote(entries) THEN 1 ELSE 0)
    BY DEF PinsExact
  <2>1. \A p \in Procs : call[p].pc \notin {"pinNext", "unpinOld", "pinCopy", "unpinCopy", "unpinAll"}
    BY DEF Pinning
  <2>2. \A i \in Snapshots : CopyPin(i, r) <=> state[i] = "open" /\ r \in Remote(snapshot[i])
    BY <2>1 DEF CopyPin, PinsFor, At
  <2>3. CopyPins(r) = OpenWith(r)
    BY <2>2 DEF CopyPins, OpenWith
  <2>4. (GenPin(r) <=> r \in Remote(entries)) /\ ~NextPin(r)
    BY <2>1 DEF GenPin, NextPin, At
  <2>5. pins[r] = Cardinality(CopyPins(r)) + One(GenPin(r)) + One(NextPin(r))
    BY DEF PInv, PinInv, CountInv
  <2>6. One(NextPin(r)) = 0 /\ One(GenPin(r)) = (IF r \in Remote(entries) THEN 1 ELSE 0)
    BY <2>4 DEF One
  <2>7. Cardinality(CopyPins(r)) \in Nat
    BY CopiesFinite
  <2> QED
    BY <2>3, <2>5, <2>6, <2>7
<1> QED
  BY <1>1, PinsInvariant, PTL

\* A snapshot that is being pinned is a copy of the generation: r.mu, locked
\* for reading, keeps the generation as it is.
CopyInv ==
    \A p \in Procs : At(p, "pinCopy") => snapshot[call[p].snap] = entries

\* Each step keeps the copies of the others, ...
LEMMA OthersCopies ==
    ASSUME PInv, CopyInv, NEW p \in Procs, Step(p),
           NEW q \in Procs, q # p, At(q, "pinCopy")'
    PROVE  snapshot'[call'[q].snap] = entries'
<1>1. TypeOK /\ LocalInv /\ TInv /\ LockInv /\ SnapInv
  BY DEF PInv, TInv
<1>2. Moves(p)
  BY <1>1, StepMoves DEF Continues, Moves, TypeOK
<1>3. call'[q] = call[q] /\ At(q, "pinCopy") /\ snapshot[call[q].snap] = entries
  BY <1>2 DEF Moves, At, CopyInv
<1>4. ~Writes(p)
  BY <1>1, <1>3, RegistryAssumption DEF LockInv
<1>5. entries' = entries
  <2>1. UNCHANGED entries \/ UnpinOld(p) \/ UnpinAll(p)
    BY Zenon DEF Step, RefreshStep, SnapshotStep, ReleaseStep, Begin, Refresh, Discover,
       RefreshFails, Commit, PinNext, Snapshot, PinCopy, Get, Hit, Remove, Fetch,
       GetFails, Close, UnpinCopy, Release, ReleaseLock, registryVars
  <2>2. ~UnpinOld(p) /\ ~UnpinAll(p)
    BY <1>4 DEF UnpinOld, UnpinAll, Writes, At
  <2> QED
    BY <2>1, <2>2
<1>6. CASE UNCHANGED snapshot
  BY <1>3, <1>5, <1>6
<1>7. CASE Snapshot(p)
  <2>1. At(p, "snapshot") /\ snapshot' = [snapshot EXCEPT ![call[p].id] = entries]
    BY <1>7 DEF Snapshot
  <2>2. call[q].snap # call[p].id /\ call[q].snap \in Snapshots
    BY <1>1, <1>3, <2>1, SnapshotUnknown, Alone DEF At
  <2> QED
    BY <1>1, <1>3, <1>5, <2>1, <2>2 DEF TypeOK
<1>8. UNCHANGED snapshot \/ Snapshot(p)
  BY Zenon DEF Step, RefreshStep, SnapshotStep, ReleaseStep, Begin, Refresh, Discover,
     RefreshFails, Commit, PinNext, UnpinOld, PinCopy, Get, Hit, Remove, Fetch,
     GetFails, Close, UnpinCopy, Release, ReleaseLock, UnpinAll, snapshotVars
<1> QED
  BY <1>6, <1>7, <1>8

\* ... and its own goroutine's is one when it is made, and as long as it is
\* pinned.
LEMMA OwnCopies ==
    ASSUME PInv, CopyInv, NEW p \in Procs, Step(p), At(p, "pinCopy")'
    PROVE  snapshot'[call'[p].snap] = entries'
<1>1. TypeOK /\ LocalInv /\ TInv /\ LockInv /\ SnapInv
  BY DEF PInv, TInv
<1>2. CASE Snapshot(p)
  <2>1. /\ At(p, "snapshot") /\ UNCHANGED entries
        /\ snapshot' = [snapshot EXCEPT ![call[p].id] = entries]
    BY <1>2 DEF Snapshot, registryVars
  <2>2. call'[p].snap = call[p].id /\ call[p].id \in Snapshots
    BY <1>1, <1>2, <2>1, SnapshotCall, SnapshotUnknown
  <2> QED
    BY <1>1, <2>1, <2>2 DEF TypeOK
<1>3. CASE PinCopy(p)
  <2>1. At(p, "pinCopy") /\ UNCHANGED <<snapshot, entries>>
    BY <1>3, Zenon DEF PinCopy, registryVars
  <2>2. ~Gone(p)
    BY DEF Gone, NoCall, At
  <2>3. call'[p].snap = call[p].snap
    BY <1>1, <1>3, <2>2, PinCopyCases DEF Took, Turns
  <2> QED
    BY <2>1, <2>3 DEF CopyInv
<1>4. CASE Begin(p)
  BY <1>1, <1>4, BeginCall DEF BeginFacts, At
<1>5. CASE RefreshStep(p)
  <2>1. CASE Refresh(p)
    BY <1>1, <2>1, RefreshCall DEF At
  <2>2. CASE Discover(p)
    BY <1>1, <2>2, DiscoverCall DEF Asked, At
  <2>3. CASE RefreshFails(p)
    BY <1>1, <2>3, ReturnCall DEF RefreshFails, Gone, NoCall, At
  <2>4. CASE Commit(p)
    <3>1. Turns(p, "pinNext", Remote(call[p].next))
      BY <1>1, <2>4, TurnCall, EntriesTyped DEF Commit, TypeOK, Call
    <3> QED
      BY <3>1 DEF Turns, Goes, At
  <2>5. CASE PinNext(p) \/ UnpinOld(p)
    <3>1. call[p].pc \in {"pinNext", "unpinOld"}
      BY <2>5, Zenon DEF PinNext, UnpinOld, At
    <3>2. call'[p].pc \in {call[p].pc, "unpinOld", "idle"}
      BY <1>1, <2>5, PinNextCases, UnpinOldCases DEF Took, Turns, Goes, Gone, NoCall
    <3> QED
      BY <3>1, <3>2 DEF At
  <2> QED
    BY <1>5, <2>1, <2>2, <2>3, <2>4, <2>5 DEF RefreshStep
<1>6. CASE Get(p) \/ Hit(p) \/ Fetch(p) \/ GetFails(p) \/ Remove(p)
  <2>1. CASE Get(p)
    BY <1>1, <2>1, GetCall DEF Gone, NoCall, Goes, At
  <2>2. CASE Remove(p)
    BY <2>2 DEF Remove, At
  <2> QED
    BY <1>1, <1>6, <2>1, <2>2, ReturnCall DEF Hit, Fetch, GetFails, Gone, NoCall, At
<1>7. CASE Close(p)
  BY <1>1, <1>7, CloseCases DEF Turns, Goes, Gone, NoCall, At
<1>8. CASE UnpinCopy(p) \/ UnpinAll(p)
  <2>1. call[p].pc \in {"unpinCopy", "unpinAll"}
    BY <1>8, Zenon DEF UnpinCopy, UnpinAll, At
  <2>2. call'[p].pc \in {call[p].pc, "idle"}
    BY <1>1, <1>8, UnpinCopyCases, UnpinAllCases DEF Took, Turns, Goes, Gone, NoCall
  <2> QED
    BY <2>1, <2>2 DEF At
<1>9. CASE Release(p)
  BY <1>1, <1>9, ReleaseCall DEF Goes, At
<1>10. CASE ReleaseLock(p)
  <2>1. Turns(p, "unpinAll", Remote(entries))
    BY <1>1, <1>10, TurnCall, EntriesTyped DEF ReleaseLock, TypeOK
  <2> QED
    BY <2>1 DEF Turns, Goes, At
<1> QED
  BY <1>2, <1>3, <1>4, <1>5, <1>6, <1>7, <1>8, <1>9, <1>10
     DEF Step, SnapshotStep, ReleaseStep

\* Hence a snapshot is such a copy whenever it is being pinned.
LEMMA CopyInvariant == RegistrySpec => [](PInv /\ CopyInv)
<1>1. RegistryInit => CopyInv
  BY DEF RegistryInit, CopyInv, NoCall, At
<1>2. PInv /\ CopyInv /\ [RegistryNext]_vars => CopyInv'
  <2> SUFFICES ASSUME PInv, CopyInv, [RegistryNext]_vars PROVE CopyInv'
    OBVIOUS
  <2>1. CASE Prune \/ UNCHANGED vars
    <3>1. UNCHANGED <<entries, snapshot, call>>
      BY <2>1, Zenon DEF Prune, vars, registryVars, snapshotVars
    <3> QED
      BY <3>1 DEF CopyInv, At
  <2>2. ASSUME NEW p \in Procs, Step(p) PROVE CopyInv'
    <3>1. \A q \in Procs : At(q, "pinCopy")' => snapshot'[call'[q].snap] = entries'
      BY <2>2, OthersCopies, OwnCopies
    <3> QED
      BY <3>1 DEF CopyInv
  <2> QED
    BY <2>1, <2>2 DEF RegistryNext, Step, Finished
<1> QED
  BY <1>1, <1>2, InitPins, NextPins, PTL DEF RegistrySpec

\* A revision that is held is pinned: by its snapshots, by the copy that is
\* being pinned or, when that is under way, by one generation or the other.
LEMMA HeldPinned ==
    ASSUME PInv, CopyInv, NEW r \in Revisions, Held(r)
    PROVE  pins[r] # 0
<1> SUFFICES ASSUME pins[r] = 0 PROVE FALSE
  OBVIOUS
<1>1. pins[r] = Cardinality(CopyPins(r)) + One(GenPin(r)) + One(NextPin(r))
  BY DEF PInv, PinInv, CountInv
<1>2. IsFiniteSet(CopyPins(r)) /\ Cardinality(CopyPins(r)) \in Nat
  BY CopiesFinite
<1>3. One(GenPin(r)) \in {0, 1} /\ One(NextPin(r)) \in {0, 1}
  BY DEF One
<1>4. Cardinality(CopyPins(r)) = 0 /\ One(GenPin(r)) = 0 /\ One(NextPin(r)) = 0
  BY <1>1, <1>2, <1>3
<1>5. CopyPins(r) = {} /\ ~GenPin(r) /\ ~NextPin(r)
  BY <1>2, <1>4, FS_EmptySet DEF One
<1>6. CASE OpenWith(r) # {}
  <2>1. OpenWith(r) \subseteq CopyPins(r)
    BY DEF OpenWith, CopyPins, CopyPin
  <2> QED
    BY <1>5, <1>6, <2>1
<1>7. ASSUME NEW p \in Procs, At(p, "pinCopy"), r \in Remote(snapshot[call[p].snap])
      PROVE  FALSE
  <2>1. r \in Remote(entries) /\ writer = NoProc
    BY <1>7 DEF CopyInv, PInv, LockInv
  <2>2. \A q \in Procs : ~Writes(q)
    BY <2>1, RegistryAssumption DEF PInv, LockInv
  <2> QED
    BY <1>5, <2>1, <2>2 DEF GenPin, Writes
<1>8. CASE /\ r \in Remote(entries)
           /\ \A p \in Procs :
                 /\ ~At(p, "unpinAll")
                 /\ call[p].pc \in {"pinNext", "unpinOld"} => r \in Remote(call[p].next)
  <2>1. CASE \E p \in Procs : At(p, "unpinOld")
    BY <1>5, <1>8, <2>1 DEF NextPin, At
  <2>2. CASE \A p \in Procs : ~At(p, "unpinOld")
    BY <1>5, <1>8, <2>2 DEF GenPin, At
  <2> QED
    BY <2>1, <2>2
<1> QED
  BY <1>6, <1>7, <1>8 DEF Held

\* The cache never evicts live data: as long as what it has can be read, a
\* revision that is held stays, at every step of every pin loop.
THEOREM LiveIsKept == ~Flaky => (RegistrySpec => LiveKept)
<1> SUFFICES ASSUME ~Flaky PROVE RegistrySpec => LiveKept
  OBVIOUS
<1> DEFINE Lost(r) == published[r] = "good" /\ published'[r] # "good"
<1>1. ASSUME PInv, CopyInv, [RegistryNext]_vars, NEW r \in Revisions, Lost(r)
      PROVE  ~Held(r)
  <2>0. published \in [Revisions -> {"absent", "good", "damaged"}]
    BY <1>1 DEF PInv, TInv, TypeOK
  <2>1. published' # published
    BY <1>1
  <2>2. CASE Prune
    <3>1. PICK gone \in SUBSET Unpinned : Evict(gone, {})
      BY <2>2 DEF Prune
    <3>2. r \in gone
      BY <1>1, <2>0, <3>1 DEF Evict
    <3>3. pins[r] = 0
      BY <3>1, <3>2 DEF Unpinned
    <3> QED
      BY <1>1, <3>3, HeldPinned
  <2>3. ASSUME NEW p \in Procs, Step(p) PROVE FALSE
    <3>1. published' = published \/ Fetch(p) \/ Remove(p)
      BY <2>3, Zenon DEF Step, RefreshStep, SnapshotStep, ReleaseStep, Begin, Refresh, Discover,
         RefreshFails, Commit, PinNext, UnpinOld, Snapshot, PinCopy, Get, Hit,
         GetFails, Close, UnpinCopy, Release, ReleaseLock, UnpinAll, storeVars
    <3>2. CASE Fetch(p)
      BY <1>1, <2>0, <3>2 DEF Fetch, Publish
    <3>3. CASE Remove(p)
      BY <1>1, <2>0, <3>3 DEF Remove, Discard, Unusable
    <3> QED
      BY <2>1, <3>1, <3>2, <3>3
  <2>4. CASE UNCHANGED vars
    BY <2>1, <2>4 DEF vars, storeVars
  <2> QED
    BY <1>1, <2>2, <2>3, <2>4 DEF RegistryNext, Step, Finished
<1>2. PInv /\ CopyInv /\ [RegistryNext]_vars
        => [\A r \in Revisions : Lost(r) => ~Held(r)]_vars
  BY <1>1
<1> QED
  BY <1>2, CopyInvariant, PTL DEF RegistrySpec, LiveKept

----------------------------------------------------------------------------
(* Generations *)

\* The descriptors of a name in a source's listing.
Lists(l, s, n) == {d \in l[s] : d.name = n}

\* A generation e has what the listings l, in the order of their sources, say.
Whole(e, l) ==
    \A n \in Names :
        e[n] # Local =>
            IF \A s \in Sources : Lists(l, s, n) = {}
               THEN e[n] = NoEntry
               ELSE \E s \in Sources :
                       /\ Lists(l, s, n) = {e[n]}
                       /\ \A t \in 1..(s - 1) : Lists(l, t, n) = {}

\* Refresh has listings that it will publish.
Asking(p) == call[p].pc \in {"discover", "commit", "pinNext", "unpinOld"}

\* What a Refresh has gathered is whole so far, and the listings that it has
\* retained are still those that the registry has.
GatherInv ==
    /\ Whole(entries, previous)
    /\ \A p \in Procs : Asking(p) =>
          /\ Whole(call[p].next, call[p].lists)
          /\ \A s \in call[p].kept : call[p].lists[s] = previous[s]

\* Without listings there are local skills only.
LEMMA WholeAtFirst ==
    ASSUME NEW e, \A n \in Names : e[n] \in {Local, NoEntry}
    PROVE  Whole(e, NoLists)
<1>1. \A s \in Sources, n \in Names : Lists(NoLists, s, n) = {}
  BY DEF Lists, NoLists
<1> QED
  BY <1>1 DEF Whole

\* Merging the listing of the next source keeps a generation whole.
LEMMA WholeMerged ==
    ASSUME NEW e \in Entries, NEW l \in [Sources -> SUBSET Revisions], Whole(e, l),
           NEW s \in Sources, NEW list \in Listings(s),
           \A t \in Sources : t >= s => l[t] = {}
    PROVE  Whole(Merge(e, list), [l EXCEPT ![s] = list])
<1> DEFINE m == [l EXCEPT ![s] = list]
           f == Merge(e, list)
<1>0. s \in 1..LastSource /\ LastSource \in Nat /\ NoEntry \notin Revisions
  BY RegistryAssumption DEF Sources
<1>1. list \in SUBSET Revisions /\ \A a, b \in list : a.name = b.name => a = b
  BY DEF Listings
<1>2. m[s] = list /\ \A t \in Sources : t # s => m[t] = l[t]
  OBVIOUS
<1>3. \A n \in Names : /\ Lists(m, s, n) = {d \in list : d.name = n}
                       /\ \A t \in Sources : t # s => Lists(m, t, n) = Lists(l, t, n)
                       /\ \A t \in Sources : t >= s => Lists(l, t, n) = {}
                       /\ \A t \in Sources : Lists(l, t, n) \subseteq Revisions
  BY <1>2 DEF Lists
<1>4. \A n \in Names :
         IF e[n] = NoEntry /\ \E d \in list : d.name = n
            THEN f[n] \in list /\ f[n].name = n
            ELSE f[n] = e[n]
  BY <1>1, MergeTyped
<1> HIDE DEF m, f
<1> SUFFICES ASSUME NEW n \in Names, f[n] # Local
             PROVE  IF \A t \in Sources : Lists(m, t, n) = {}
                       THEN f[n] = NoEntry
                       ELSE \E t \in Sources :
                               /\ Lists(m, t, n) = {f[n]}
                               /\ \A u \in 1..(t - 1) : Lists(m, u, n) = {}
  BY DEF Whole, m, f
<1>5. e[n] = NoEntry => \A t \in Sources : Lists(l, t, n) = {}
  <2> SUFFICES ASSUME e[n] = NoEntry, NEW w \in Sources, Lists(l, w, n) # {} PROVE FALSE
    OBVIOUS
  <2>1. PICK t \in Sources : Lists(l, t, n) = {e[n]}
    BY RegistryAssumption DEF Whole
  <2> QED
    BY <1>0, <1>3, <2>1
<1>6. CASE e[n] = NoEntry /\ \E d \in list : d.name = n
  <2>1. Lists(m, s, n) = {f[n]}
    BY <1>1, <1>3, <1>4, <1>6
  <2>2. \A u \in 1..(s - 1) : Lists(m, u, n) = {}
    <3>1. \A u \in 1..(s - 1) : u \in Sources /\ u # s
      BY <1>0 DEF Sources
    <3> QED
      BY <1>3, <1>5, <1>6, <3>1
  <2> QED
    BY <2>1, <2>2
<1>7. CASE e[n] = NoEntry /\ ~\E d \in list : d.name = n
  <2>1. f[n] = NoEntry
    BY <1>4, <1>7
  <2>2. \A t \in Sources : Lists(m, t, n) = {}
    BY <1>3, <1>5, <1>7
  <2> QED
    BY <2>1, <2>2
<1>8. CASE e[n] # NoEntry
  <2>1. f[n] = e[n]
    BY <1>4, <1>8
  <2>2. PICK w \in Sources : /\ Lists(l, w, n) = {e[n]}
                             /\ \A u \in 1..(w - 1) : Lists(l, u, n) = {}
    BY <1>8, <2>1 DEF Whole
  <2>3. w \in 1..LastSource /\ w < s
    BY <1>0, <1>3, <2>2 DEF Sources
  <2>4. \A u \in 1..(w - 1) : u \in Sources /\ u # s
    BY <1>0, <2>3 DEF Sources
  <2>5. Lists(m, w, n) = {f[n]} /\ \A u \in 1..(w - 1) : Lists(m, u, n) = {}
    BY <1>3, <2>1, <2>2, <2>3, <2>4
  <2> QED
    BY <2>5
<1> QED
  BY <1>6, <1>7, <1>8

\* What one Refresh has gathered.
Gathered(p) ==
    Asking(p) =>
        /\ Whole(call[p].next, call[p].lists)
        /\ \A s \in call[p].kept : call[p].lists[s] = previous[s]

\* The generation is published by the goroutine that holds the gate.
LEMMA GatherKept ==
    ASSUME TInv, LockInv, GatherInv, NEW p \in Procs, Moves(p), Gathered(p)',
           \/ UNCHANGED <<entries, previous>>
           \/ HoldsGate(p) /\ Whole(entries', previous')
    PROVE  GatherInv'
<1>1. Whole(entries', previous')
  BY DEF GatherInv
<1>2. ASSUME NEW q \in Procs, q # p, Asking(q)'
      PROVE  Whole(call'[q].next, call'[q].lists) /\ \A s \in call'[q].kept : call'[q].lists[s] = previous'[s]
  <2>1. call'[q] = call[q] /\ Asking(q)
    BY <1>2 DEF Moves, Asking
  <2>2. ~HoldsGate(p)
    BY <1>2, <2>1 DEF LockInv, HoldsGate, Asking
  <2> QED
    BY <2>1, <2>2 DEF GatherInv
<1> QED
  BY <1>1, <1>2 DEF GatherInv, Gathered

\* Each step keeps what refreshes have gathered.
LEMMA StepGathers ==
    ASSUME TInv, LockInv, GatherInv, NEW p \in Procs, Step(p)
    PROVE  GatherInv'
<1>a. TypeOK /\ LocalInv /\ call[p] \in Call /\ Gathered(p)
  BY DEF TInv, TypeOK, GatherInv, Gathered
<1>b. Moves(p)
  BY <1>a, StepMoves DEF Continues, Moves, TypeOK
<1>c. SUFFICES /\ Gathered(p)'
               /\ \/ UNCHANGED <<entries, previous>>
                  \/ HoldsGate(p) /\ Whole(entries', previous')
  BY <1>b, GatherKept
<1>1. CASE Begin(p)
  BY <1>a, <1>1, BeginCall, Zenon DEF Begin, registryVars, BeginFacts, Gathered, Asking
<1>2. CASE Refresh(p)
  <2>1. UNCHANGED <<entries, previous>>
    BY <1>2 DEF Refresh
  <2>2. Whole(call'[p].next, call'[p].lists) /\ call'[p].kept = {}
    BY <1>a, <1>2, RefreshCall, WholeAtFirst
  <2> QED
    BY <2>1, <2>2 DEF Gathered
<1>3. CASE Discover(p)
  <2>1. UNCHANGED <<entries, previous>> /\ At(p, "discover")
    BY <1>3, Zenon DEF Discover, registryVars
  <2>2. PICK list \in SUBSET Revisions, fails \in BOOLEAN :
            Asked(p, call[p].source, list, fails)
    BY <1>a, <1>3, DiscoverCall
  <2> DEFINE s == call[p].source
  <2>3. /\ s \in Sources /\ call[p].next \in Entries
        /\ call[p].lists \in [Sources -> SUBSET Revisions] /\ call[p].kept \subseteq Sources
        /\ \A t \in Sources : t >= s => t \notin call[p].kept /\ call[p].lists[t] = {}
    BY <1>a, <2>1 DEF LocalInv, Call
  <2>4. Whole(call[p].next, call[p].lists) /\ \A t \in call[p].kept : call[p].lists[t] = previous[t]
    BY <1>a, <2>1 DEF Gathered, Asking, At
  <2>5. Whole(call'[p].next, call'[p].lists)
    BY <2>2, <2>3, <2>4, WholeMerged DEF Asked
  <2>6. s \notin call[p].kept
    BY <2>3, RegistryAssumption DEF Sources
  <2>7. ASSUME NEW t \in call'[p].kept PROVE call'[p].lists[t] = previous[t]
    <3>1. CASE t \in call[p].kept
      BY <2>2, <2>3, <2>4, <2>6, <3>1 DEF Asked
    <3>2. CASE fails /\ t = s
      BY <2>2, <2>3, <3>2 DEF Asked
    <3> QED
      BY <2>2, <3>1, <3>2 DEF Asked
  <2> QED
    BY <2>1, <2>5, <2>7 DEF Gathered
<1>4. CASE RefreshFails(p)
  BY <1>a, <1>4, ReturnCall DEF RefreshFails, Gone, NoCall, Gathered, Asking
<1>5. CASE Commit(p)
  <2>1. Turns(p, "pinNext", Remote(call[p].next))
    BY <1>a, <1>5, TurnCall, EntriesTyped DEF Commit, Call
  <2> QED
    BY <1>a, <1>5, <2>1 DEF Commit, At, Turns, Goes, Kept, Gathered, Asking
<1>6. CASE PinNext(p)
  <2>1. UNCHANGED <<entries, previous>> /\ At(p, "pinNext")
    BY <1>6, Zenon DEF PinNext, registryVars
  <2>2. Kept(p)
    BY <1>a, <1>6, PinNextCases DEF Took, Turns, Goes
  <2> QED
    BY <1>a, <2>1, <2>2 DEF At, Kept, Gathered, Asking
<1>7. CASE UnpinOld(p)
  <2>1. At(p, "unpinOld")
    BY <1>7, Zenon DEF UnpinOld
  <2>2. CASE UNCHANGED registryVars /\ Kept(p)
    BY <1>a, <2>1, <2>2 DEF registryVars, At, Kept, Gathered, Asking
  <2>3. CASE entries' = call[p].next /\ previous' = call[p].lists /\ Gone(p)
    BY <1>a, <2>1, <2>3 DEF At, Gone, NoCall, Gathered, Asking, HoldsGate
  <2> QED
    BY <1>a, <1>7, <2>2, <2>3, UnpinOldCases DEF Took, Turns, Goes
<1>8. CASE SnapshotStep(p)
  <2>1. UNCHANGED <<entries, previous>>
    BY <1>8, Zenon DEF SnapshotStep, Snapshot, PinCopy, Get, Hit, Remove, Fetch, GetFails,
       Close, UnpinCopy, registryVars
  <2>2. call'[p].pc \in {"idle", "pinCopy", "fetch", "unpinCopy"}
    <3>1. CASE PinCopy(p)
      <4>1. At(p, "pinCopy")
        BY <3>1, Zenon DEF PinCopy
      <4> QED
        BY <1>a, <3>1, <4>1, PinCopyCases DEF Took, Turns, Goes, At, Gone, NoCall
    <3>2. CASE UnpinCopy(p)
      <4>1. At(p, "unpinCopy")
        BY <3>2, Zenon DEF UnpinCopy
      <4> QED
        BY <1>a, <3>2, <4>1, UnpinCopyCases DEF Took, Turns, Goes, At, Gone, NoCall
    <3>3. CASE Snapshot(p) \/ Get(p) \/ Close(p)
      BY <1>a, <3>3, SnapshotCall, GetCall, CloseCases DEF Turns, Goes, Gone, NoCall
    <3>4. CASE Hit(p) \/ Fetch(p) \/ GetFails(p)
      BY <1>a, <3>4, ReturnCall DEF Hit, Fetch, GetFails, Gone, NoCall
    <3>5. CASE Remove(p)
      BY <3>5 DEF Remove, At
    <3> QED
      BY <1>8, <3>1, <3>2, <3>3, <3>4, <3>5 DEF SnapshotStep
  <2> QED
    BY <2>1, <2>2 DEF Gathered, Asking
<1>9. CASE Release(p) \/ ReleaseLock(p)
  <2>1. UNCHANGED <<entries, previous>>
    BY <1>9 DEF Release, ReleaseLock
  <2>2. CASE Release(p)
    BY <1>a, <2>1, <2>2, ReleaseCall DEF Goes, Gathered, Asking
  <2>3. CASE ReleaseLock(p)
    <3>1. Turns(p, "unpinAll", Remote(entries))
      BY <1>a, <2>3, TurnCall, EntriesTyped DEF ReleaseLock, TypeOK
    <3> QED
      BY <2>1, <3>1 DEF Turns, Goes, Gathered, Asking
  <2> QED
    BY <1>9, <2>2, <2>3
<1>10. CASE UnpinAll(p)
  <2>1. At(p, "unpinAll")
    BY <1>10, Zenon DEF UnpinAll
  <2>2. CASE UNCHANGED registryVars /\ Goes(p, "unpinAll")
    BY <2>2 DEF registryVars, Goes, Gathered, Asking
  <2>3. CASE entries' = Nothing /\ previous' = NoLists /\ Gone(p)
    <3>1. Whole(Nothing, NoLists)
      BY WholeAtFirst DEF Nothing
    <3> QED
      BY <2>1, <2>3, <3>1 DEF At, Gone, NoCall, Gathered, Asking, HoldsGate
  <2> QED
    BY <1>a, <1>10, <2>1, <2>2, <2>3, UnpinAllCases DEF Took, Turns, At
<1> QED
  BY <1>1, <1>2, <1>3, <1>4, <1>5, <1>6, <1>7, <1>8, <1>9, <1>10
     DEF Step, RefreshStep, ReleaseStep

\* Hence what they have gathered is whole, always.
LEMMA GatherInvariant == RegistrySpec => [](PInv /\ GatherInv)
<1>1. RegistryInit => GatherInv
  BY WholeAtFirst DEF RegistryInit, GatherInv, Asking, NoCall, Nothing
<1>2. PInv /\ GatherInv /\ [RegistryNext]_vars => GatherInv'
  <2> SUFFICES ASSUME PInv, GatherInv, [RegistryNext]_vars PROVE GatherInv'
    OBVIOUS
  <2>1. CASE Prune \/ UNCHANGED vars
    <3>1. UNCHANGED <<entries, previous, call>>
      BY <2>1, Zenon DEF Prune, vars, registryVars
    <3> QED
      BY <3>1 DEF GatherInv, Asking
  <2> QED
    BY <2>1, StepGathers DEF PInv, RegistryNext, Step, Finished
<1> QED
  BY <1>1, <1>2, InitPins, NextPins, PTL DEF RegistrySpec

\* Generations are complete, and local skills and earlier sources win.
THEOREM GenerationsAreWhole == RegistrySpec => []GenerationWhole
<1>1. GatherInv => GenerationWhole
  <2>1. Whole(entries, previous) => GenerationWhole
    BY DEF Whole, Lists, GenerationWhole
  <2> QED
    BY <2>1 DEF GatherInv
<1> QED
  BY <1>1, GatherInvariant, PTL

\* A generation without an answer of a source has the listing of the one that
\* it replaces.
THEOREM ListingIsRetained == RegistrySpec => ListingRetained
<1>1. ASSUME PInv, GatherInv, [RegistryNext]_vars, NEW p \in Procs,
             At(p, "unpinOld"), call'[p].pc = "idle"
      PROVE  \A s \in call[p].kept : previous'[s] = previous[s]
  <2>1. TypeOK /\ LocalInv
    BY <1>1 DEF PInv, TInv
  <2>2. call' # call
    BY <1>1 DEF At
  <2>3. PICK q \in Procs : Step(q)
    BY <1>1, <2>2, Zenon DEF RegistryNext, Step, Prune, Finished, vars
  <2>4. q = p
    BY <1>1, <2>1, <2>2, <2>3, StepMoves DEF Continues, Moves, At
  <2>5. UnpinOld(p)
    BY <1>1, <2>3, <2>4, Zenon DEF Step, RefreshStep, SnapshotStep, ReleaseStep, Begin, Refresh, Discover,
       RefreshFails, Commit, PinNext, Snapshot, PinCopy, Get, Hit, Remove, Fetch,
       GetFails, Close, UnpinCopy, Release, ReleaseLock, UnpinAll, At
  <2>6. previous' = call[p].lists
    BY <1>1, <2>1, <2>5, UnpinOldCases DEF Took, Turns, Goes, At
  <2> QED
    BY <1>1, <2>6 DEF GatherInv, Asking, At
<1>2. PInv /\ GatherInv /\ [RegistryNext]_vars =>
         [\A p \in Procs :
             (At(p, "unpinOld") /\ call'[p].pc = "idle") =>
                 \A s \in call[p].kept : previous'[s] = previous[s]]_vars
  BY <1>1
<1> QED
  BY <1>2, GatherInvariant, PTL DEF RegistrySpec, ListingRetained
=============================================================================
