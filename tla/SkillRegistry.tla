--------------------------- MODULE SkillRegistry ----------------------------
(***************************************************************************)
(* The skill registry and its snapshots: skills/registry.go, over the      *)
(* cache that SkillStore describes.                                        *)
(*                                                                         *)
(* Refresh builds a generation, a map from skill names to entries, from    *)
(* the local directories and the listings of the remote sources, and       *)
(* publishes it under r.mu.  A snapshot copies the generation.  Both pin   *)
(* the revisions they name, one at a time, so that Prune spares them.      *)
(* Get materializes a revision of an open snapshot.                        *)
(*                                                                         *)
(* Flaky is about reads of the cache; Tamper and Restart are SkillCache's  *)
(* business and do not happen here.                                        *)
(***************************************************************************)
EXTENDS SkillStore

CONSTANTS
    Procs,      \* goroutines that call the registry
    NoProc,     \* owner of a free lock
    Names,      \* skill names
    LocalNames, \* names that the local directories may have
    Versions,   \* what makes one descriptor of a name differ from another
    LastSource, \* the sources are 1..LastSource, in the configured order
    Optional,   \* the optional ones
    Local,      \* an entry of the local directories
    NoEntry,    \* a name that the generation does not have
    Disk,       \* bound: the one disk that an earlier process has left
    MaxCalls    \* bound on the calls made in one behaviour

Sources == 1..LastSource

ASSUME RegistryAssumption ==
    /\ NoProc \notin Procs
    /\ LocalNames \subseteq Names
    /\ LastSource \in Nat
    /\ Optional \subseteq Sources
    /\ Revisions \subseteq [source : Sources, name : Names, version : Versions]
    /\ Local \notin Revisions /\ NoEntry \notin Revisions /\ Local # NoEntry
    /\ Disk \in [Revisions -> {"absent", "good", "damaged"}]
    /\ MaxCalls \in Nat

Entries == [Names -> Revisions \cup {Local, NoEntry}]
Nothing == [n \in Names |-> NoEntry]
NoLists == [s \in Sources |-> {}]

\* What a source may list: no name twice.
Listings(s) ==
    {l \in SUBSET {r \in Revisions : r.source = s} :
        \A a, b \in l : a.name = b.name => a = b}

\* A snapshot has the number of the call that made it.
Snapshots == 1..MaxCalls

VARIABLES
    gate,       \* goroutine that holds r.gate
    writer,     \* goroutine that has r.mu locked for writing
    entries,    \* r.entries
    previous,   \* r.previous: source -> its listing
    snapshot,   \* snapshot -> its entries
    state,      \* snapshot -> "none", "open", "closing" or "closed"
    delivered,  \* history: snapshot -> revisions that its Gets returned
    calls,      \* calls begun so far
    call        \* goroutine -> its call and the call's locals

registryVars == <<gate, writer, entries, previous>>
snapshotVars == <<snapshot, state, delivered>>
vars == <<storeVars, registryVars, snapshotVars, calls, call>>

Call == [pc     : {"idle", "refresh", "discover", "commit", "pinNext",
                   "unpinOld", "snapshot", "pinCopy", "get", "fetch",
                   "close", "unpinCopy", "release", "releaseLock",
                   "unpinAll"},
         id     : 0..MaxCalls,
         source : 1..(LastSource + 1),            \* Refresh: next source
         next   : Entries,                        \* Refresh: next
         lists  : [Sources -> SUBSET Revisions],  \* Refresh: previous
         kept   : SUBSET Sources,                 \* history: retained ones
         todo   : SUBSET Revisions,               \* to pin or to unpin
         snap   : 0..MaxCalls,                    \* its snapshot
         get    : Revisions \cup {NoEntry}]       \* Get: its revision

NoCall == [pc |-> "idle", id |-> 0, source |-> 1, next |-> Nothing,
           lists |-> NoLists, kept |-> {}, todo |-> {}, snap |-> 0,
           get |-> NoEntry]

RegistryInit ==
    /\ StoreInit /\ published = Disk
    /\ gate = NoProc
    /\ writer = NoProc
    /\ entries = Nothing
    /\ previous = NoLists
    /\ snapshot = [i \in Snapshots |-> Nothing]
    /\ state = [i \in Snapshots |-> "none"]
    /\ delivered = [i \in Snapshots |-> {}]
    /\ calls = 0
    /\ call = [p \in Procs |-> NoCall]

At(p, label) == call[p].pc = label

Becomes(p, c) == call' = [call EXCEPT ![p] = c]

Return(p) == Becomes(p, NoCall)

\* The revisions that a map of entries names.
Remote(e) == {e[n] : n \in Names} \cap Revisions

\* Nobody has r.mu locked for reading.
NoReaders == \A p \in Procs : ~At(p, "pinCopy")

\* A goroutine calls the registry, or closes or reads one of its snapshots.
Begin(p) ==
    /\ At(p, "idle")
    /\ calls < MaxCalls
    /\ calls' = calls + 1
    /\ \/ \E label \in {"refresh", "snapshot", "release"} :
             Becomes(p, [NoCall EXCEPT !.pc = label, !.id = calls + 1])
       \/ \E label \in {"get", "close"}, i \in Snapshots :
             /\ state[i] # "none"
             /\ Becomes(p, [NoCall EXCEPT !.pc = label, !.id = calls + 1,
                                          !.snap = i])
    /\ UNCHANGED <<storeVars, registryVars, snapshotVars>>

----------------------------------------------------------------------------
(* Refresh *)

\* Take the gate and read the local directories.
Refresh(p) ==
    /\ At(p, "refresh")
    /\ gate = NoProc
    /\ gate' = p
    /\ \E local \in SUBSET LocalNames :
          Becomes(p, [call[p] EXCEPT
             !.next = [n \in Names |-> IF n \in local THEN Local ELSE NoEntry],
             !.pc = IF LastSource = 0 THEN "commit" ELSE "discover"])
    /\ UNCHANGED <<storeVars, writer, entries, previous, snapshotVars, calls>>

\* Mutant of Merge: a later source overrides an earlier one.
MergeLast(next, list) ==
    [n \in Names |->
        IF next[n] # Local /\ \E d \in list : d.name = n
           THEN CHOOSE d \in list : d.name = n
           ELSE next[n]]

\* The first to list a name keeps it.
Merge(next, list) ==
    [n \in Names |->
        IF next[n] = NoEntry /\ \E d \in list : d.name = n
           THEN CHOOSE d \in list : d.name = n
           ELSE next[n]]

\* One source answers, or an optional one fails and its listing is kept.
Discover(p) ==
    /\ At(p, "discover")
    /\ LET s == call[p].source
       IN  \E list \in Listings(s), fails \in BOOLEAN :
              /\ fails => s \in Optional /\ list = previous[s]
              /\ Becomes(p, [call[p] EXCEPT
                    !.next = Merge(@, list),
                    !.lists = [@ EXCEPT ![s] = list],
                    !.kept = IF fails THEN @ \cup {s} ELSE @,
                    !.source = s + 1,
                    !.pc = IF s = LastSource THEN "commit" ELSE "discover"])
    /\ UNCHANGED <<storeVars, registryVars, snapshotVars, calls>>

\* A strict source or a local directory fails, or the context ends.
RefreshFails(p) ==
    /\ call[p].pc \in {"refresh", "discover", "commit"}
    /\ gate' = IF gate = p THEN NoProc ELSE gate
    /\ Return(p)
    /\ UNCHANGED <<storeVars, writer, entries, previous, snapshotVars, calls>>

\* Lock r.mu.
Commit(p) ==
    /\ At(p, "commit")
    /\ writer = NoProc /\ NoReaders
    /\ writer' = p
    /\ Becomes(p, [call[p] EXCEPT !.todo = Remote(call[p].next),
                                  !.pc = "pinNext"])
    /\ UNCHANGED <<storeVars, gate, entries, previous, snapshotVars, calls>>

\* Pin the revisions of the new generation, ...
PinNext(p) ==
    /\ At(p, "pinNext")
    /\ \/ \E r \in call[p].todo :
             /\ Pin(r)
             /\ Becomes(p, [call[p] EXCEPT !.todo = @ \ {r}])
       \/ /\ call[p].todo = {}
          /\ Becomes(p, [call[p] EXCEPT !.todo = Remote(entries),
                                        !.pc = "unpinOld"])
          /\ UNCHANGED pins
    /\ UNCHANGED <<published, registryVars, snapshotVars, calls>>

\* ... then unpin those of the old one, and publish.
UnpinOld(p) ==
    /\ At(p, "unpinOld")
    /\ \/ \E r \in call[p].todo :
             /\ Unpin(r)
             /\ Becomes(p, [call[p] EXCEPT !.todo = @ \ {r}])
             /\ UNCHANGED registryVars
       \/ /\ call[p].todo = {}
          /\ entries' = call[p].next
          /\ previous' = call[p].lists
          /\ gate' = NoProc /\ writer' = NoProc
          /\ Return(p)
          /\ UNCHANGED pins
    /\ UNCHANGED <<published, snapshotVars, calls>>

----------------------------------------------------------------------------
(* Snapshots *)

\* Snapshot locks r.mu for reading and copies the generation, ...
Snapshot(p) ==
    /\ At(p, "snapshot")
    /\ writer = NoProc
    /\ snapshot' = [snapshot EXCEPT ![call[p].id] = entries]
    /\ Becomes(p, [call[p] EXCEPT !.snap = call[p].id,
                                  !.todo = Remote(entries),
                                  !.pc = "pinCopy"])
    /\ UNCHANGED <<storeVars, registryVars, state, delivered, calls>>

\* ... pins its revisions, and returns it.
PinCopy(p) ==
    /\ At(p, "pinCopy")
    /\ \/ \E r \in call[p].todo :
             /\ Pin(r)
             /\ Becomes(p, [call[p] EXCEPT !.todo = @ \ {r}])
             /\ UNCHANGED state
       \/ /\ call[p].todo = {}
          /\ state' = [state EXCEPT ![call[p].snap] = "open"]
          /\ Return(p)
          /\ UNCHANGED pins
    /\ UNCHANGED <<published, registryVars, snapshot, delivered, calls>>

\* Get holds the snapshot's lock for reading, and the cache's gate from
\* here to its end.
Get(p) ==
    /\ At(p, "get")
    /\ state[call[p].snap] # "closing"
    /\ \/ /\ state[call[p].snap] = "open"
          /\ \A q \in Procs : ~At(q, "fetch")
          /\ \E r \in Remote(snapshot[call[p].snap]) :
                Becomes(p, [call[p] EXCEPT !.get = r, !.pc = "fetch"])
       \* closed, not found, local, or the context ended
       \/ Return(p)
    /\ UNCHANGED <<storeVars, registryVars, snapshotVars, calls>>

\* A revision that is there is returned, ...
Hit(p) ==
    /\ At(p, "fetch")
    /\ published[call[p].get] = "good"
    /\ delivered' = [delivered EXCEPT ![call[p].snap] = @ \cup {call[p].get}]
    /\ Return(p)
    /\ UNCHANGED <<storeVars, registryVars, snapshot, state, calls>>

\* ... one of no use is removed, ...
Remove(p) ==
    /\ At(p, "fetch")
    /\ Discard(call[p].get)
    /\ UNCHANGED <<pins, registryVars, snapshotVars, calls, call>>

\* ... one that is absent is downloaded and returned, ...
Fetch(p) ==
    /\ At(p, "fetch")
    /\ Publish(call[p].get)
    /\ delivered' = [delivered EXCEPT ![call[p].snap] = @ \cup {call[p].get}]
    /\ Return(p)
    /\ UNCHANGED <<pins, registryVars, snapshot, state, calls>>

\* ... or Materialize fails.
GetFails(p) ==
    /\ At(p, "fetch")
    /\ Return(p)
    /\ UNCHANGED <<storeVars, registryVars, snapshotVars, calls>>

\* Mutant of Close: a snapshot that was closed is closed again.
CloseAgain(p) ==
    /\ At(p, "close")
    /\ state[call[p].snap] # "closing"
    /\ \A q \in Procs : ~(At(q, "fetch") /\ call[q].snap = call[p].snap)
    /\ state' = [state EXCEPT ![call[p].snap] = "closing"]
    /\ Becomes(p, [call[p] EXCEPT !.todo = Remote(snapshot[call[p].snap]),
                                  !.pc = "unpinCopy"])
    /\ UNCHANGED <<storeVars, registryVars, snapshot, delivered, calls>>

\* The snapshot's Close waits for its Gets.
Close(p) ==
    /\ At(p, "close")
    /\ state[call[p].snap] # "closing"
    /\ \A q \in Procs : ~(At(q, "fetch") /\ call[q].snap = call[p].snap)
    /\ IF state[call[p].snap] = "closed"
          THEN Return(p) /\ UNCHANGED state
          ELSE /\ state' = [state EXCEPT ![call[p].snap] = "closing"]
               /\ Becomes(p, [call[p] EXCEPT
                     !.todo = Remote(snapshot[call[p].snap]),
                     !.pc = "unpinCopy"])
    /\ UNCHANGED <<storeVars, registryVars, snapshot, delivered, calls>>

UnpinCopy(p) ==
    /\ At(p, "unpinCopy")
    /\ \/ \E r \in call[p].todo :
             /\ Unpin(r)
             /\ Becomes(p, [call[p] EXCEPT !.todo = @ \ {r}])
             /\ UNCHANGED state
       \/ /\ call[p].todo = {}
          /\ state' = [state EXCEPT ![call[p].snap] = "closed"]
          /\ Return(p)
          /\ UNCHANGED pins
    /\ UNCHANGED <<published, registryVars, snapshot, delivered, calls>>

----------------------------------------------------------------------------
(* The registry's Close; it can be used again afterwards *)

\* Mutant of Release: Close does not wait for a Refresh.
ReleaseNow(p) ==
    /\ At(p, "release")
    /\ Becomes(p, [call[p] EXCEPT !.pc = "releaseLock"])
    /\ UNCHANGED <<storeVars, registryVars, snapshotVars, calls>>

Release(p) ==
    /\ At(p, "release")
    /\ gate = NoProc
    /\ gate' = p
    /\ Becomes(p, [call[p] EXCEPT !.pc = "releaseLock"])
    /\ UNCHANGED <<storeVars, writer, entries, previous, snapshotVars, calls>>

ReleaseLock(p) ==
    /\ At(p, "releaseLock")
    /\ writer = NoProc /\ NoReaders
    /\ writer' = p
    /\ Becomes(p, [call[p] EXCEPT !.todo = Remote(entries), !.pc = "unpinAll"])
    /\ UNCHANGED <<storeVars, gate, entries, previous, snapshotVars, calls>>

\* Unpin the generation and forget it.
UnpinAll(p) ==
    /\ At(p, "unpinAll")
    /\ \/ \E r \in call[p].todo :
             /\ Unpin(r)
             /\ Becomes(p, [call[p] EXCEPT !.todo = @ \ {r}])
             /\ UNCHANGED registryVars
       \/ /\ call[p].todo = {}
          /\ entries' = Nothing
          /\ previous' = NoLists
          /\ gate' = IF gate = p THEN NoProc ELSE gate
          /\ writer' = NoProc
          /\ Return(p)
          /\ UNCHANGED pins
    /\ UNCHANGED <<published, snapshotVars, calls>>

----------------------------------------------------------------------------
(* Prune waits for the cache's gate; one that removes nothing is no step *)

Prune ==
    /\ \A p \in Procs : ~At(p, "fetch")
    /\ \E gone \in SUBSET Unpinned : Evict(gone, {})
    /\ published' # published
    /\ UNCHANGED <<pins, registryVars, snapshotVars, calls, call>>

\* The host has made all its calls and they have returned.
Finished ==
    /\ calls = MaxCalls
    /\ \A p \in Procs : At(p, "idle")
    /\ UNCHANGED vars

\* Mutant of RefreshStep: the old generation is unpinned before the new one is
\* pinned.
RefreshStepSwapped(p) ==
    \/ Refresh(p) \/ Discover(p) \/ RefreshFails(p)
    \/ /\ At(p, "commit")
       /\ writer = NoProc /\ NoReaders
       /\ writer' = p
       /\ Becomes(p, [call[p] EXCEPT !.todo = Remote(entries),
                                     !.pc = "unpinOld"])
       /\ UNCHANGED <<storeVars, gate, entries, previous, snapshotVars, calls>>
    \/ /\ At(p, "unpinOld")
       /\ \/ \E r \in call[p].todo :
                /\ Unpin(r)
                /\ Becomes(p, [call[p] EXCEPT !.todo = @ \ {r}])
          \/ /\ call[p].todo = {}
             /\ Becomes(p, [call[p] EXCEPT !.todo = Remote(call[p].next),
                                           !.pc = "pinNext"])
             /\ UNCHANGED pins
       /\ UNCHANGED <<published, registryVars, snapshotVars, calls>>
    \/ /\ At(p, "pinNext")
       /\ \/ \E r \in call[p].todo :
                /\ Pin(r)
                /\ Becomes(p, [call[p] EXCEPT !.todo = @ \ {r}])
                /\ UNCHANGED registryVars
          \/ /\ call[p].todo = {}
             /\ entries' = call[p].next
             /\ previous' = call[p].lists
             /\ gate' = NoProc /\ writer' = NoProc
             /\ Return(p)
             /\ UNCHANGED pins
       /\ UNCHANGED <<published, snapshotVars, calls>>

RefreshStep(p) ==
    \/ Refresh(p) \/ Discover(p) \/ RefreshFails(p) \/ Commit(p)
    \/ PinNext(p) \/ UnpinOld(p)

SnapshotStep(p) ==
    \/ Snapshot(p) \/ PinCopy(p) \/ Get(p) \/ Hit(p) \/ Remove(p) \/ Fetch(p)
    \/ GetFails(p) \/ Close(p) \/ UnpinCopy(p)

ReleaseStep(p) == Release(p) \/ ReleaseLock(p) \/ UnpinAll(p)

RegistryNext ==
    \/ \E p \in Procs :
          Begin(p) \/ RefreshStep(p) \/ SnapshotStep(p) \/ ReleaseStep(p)
    \/ Prune
    \/ Finished

RegistrySpec == RegistryInit /\ [][RegistryNext]_vars

----------------------------------------------------------------------------
(* Properties *)

Pinning(p) ==
    call[p].pc \in {"pinNext", "unpinOld", "pinCopy", "unpinCopy", "unpinAll"}

OpenWith(r) ==
    {i \in Snapshots : state[i] = "open" /\ r \in Remote(snapshot[i])}

\* Pins neither leak nor go missing, whatever overlaps: when no pin loop is
\* under way, a revision has one pin for the current generation if that names
\* it, and one for each open snapshot that does.
PinsExact ==
    (\A p \in Procs : ~Pinning(p)) =>
        \A r \in Revisions :
            pins[r] = Cardinality(OpenWith(r))
                        + (IF r \in Remote(entries) THEN 1 ELSE 0)

\* What Prune has to leave: a revision of an open snapshot, or of one that is
\* being pinned; and one of the generation, while a Refresh exchanges its pins
\* too, if the next generation still names it.  Close gives all of them up.
Held(r) ==
    \/ OpenWith(r) # {}
    \/ \E p \in Procs :
          At(p, "pinCopy") /\ r \in Remote(snapshot[call[p].snap])
    \/ /\ r \in Remote(entries)
       /\ \A p \in Procs :
             /\ ~At(p, "unpinAll")
             /\ call[p].pc \in {"pinNext", "unpinOld"} =>
                   r \in Remote(call[p].next)

\* Prune "never evicts live data", whenever it runs: between any two pins of
\* a Refresh, of a Snapshot or of a Close it removes no revision that is held.
LiveKept ==
    [][\A r \in Revisions :
          (published[r] = "good" /\ published'[r] # "good") => ~Held(r)]_vars

\* "Local skills win collisions, then remote sources in config order", and
\* generations are complete: the current one has, for each name it does not
\* take from the local directories, the descriptor of the first source that
\* lists the name in the very listings it was published with.
GenerationWhole ==
    \A n \in Names :
        LET lists(s) == {d \in previous[s] : d.name = n}
        IN  entries[n] # Local =>
                IF \A s \in Sources : lists(s) = {}
                   THEN entries[n] = NoEntry
                   ELSE \E s \in Sources :
                           /\ lists(s) = {entries[n]}
                           /\ \A t \in 1..(s - 1) : lists(t) = {}

\* "previous listing retained": a generation that is published without an
\* answer of an optional source has the listing of the generation before it,
\* and not one that the registry has given up in the meantime.
ListingRetained ==
    [][\A p \in Procs :
          (At(p, "unpinOld") /\ call'[p].pc = "idle") =>
              \A s \in call[p].kept : previous'[s] = previous[s]]_vars

\* "Old revisions are kept until explicit Prune so existing snapshots keep
\* working": a skill that a Get returned stays whole, its resources being read
\* later, until its snapshot is closed.
KeptWhileOpen ==
    \A i \in Snapshots :
        state[i] = "open" =>
            \A r \in delivered[i] : published[r] = "good"
=============================================================================
