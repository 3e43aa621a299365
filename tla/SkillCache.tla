----------------------------- MODULE SkillCache -----------------------------
(***************************************************************************)
(* The on-disk cache of remote skills: skills/remote_cache.go.             *)
(*                                                                         *)
(* A revision (a cacheKey: a source and a descriptor) is published as one  *)
(* directory that holds its content and a manifest.  Materialize finds it  *)
(* or downloads it into a staging directory and renames that; Prune        *)
(* removes what is not pinned.  A gate serialises both, so that the bytes  *)
(* measured at the start of a download stay the bytes of everything else.  *)
(*                                                                         *)
(* A process may die at any moment: its memory is lost, its disk is not.   *)
(***************************************************************************)
EXTENDS Naturals, FiniteSets, Functions

CONSTANTS
    Procs,            \* goroutines that use the cache
    Revisions,        \* cache keys
    Flaky,            \* a whole revision may fail to be read
    NoProc,           \* nobody
    NoRevision,       \* no cache key
    Archives,         \* sizes of what sources send: [archive, content]
    ManifestBytes,    \* size of a manifest
    MaxArchiveBytes,
    MaxExpandedBytes,
    MaxCacheBytes,
    MaxPins,          \* bound on the pins of a revision
    MaxJobs,          \* bound on the calls made in one behaviour
    MaxCrashes,       \* bound on the crashes in one behaviour
    MaxDamages        \* bound on the revisions damaged from outside

ASSUME ConstantsAssumption ==
    /\ NoProc \notin Procs
    /\ NoRevision \notin Revisions
    /\ IsFiniteSet(Procs) /\ IsFiniteSet(Revisions) /\ Flaky \in BOOLEAN
    /\ Archives \subseteq [archive : Nat \ {0}, content : Nat \ {0}]
    /\ ManifestBytes \in Nat \ {0}
    /\ MaxArchiveBytes \in Nat \ {0}
    /\ MaxExpandedBytes \in Nat \ {0}
    /\ MaxCacheBytes \in Nat \ {0}
    /\ MaxPins \in Nat
    /\ MaxJobs \in Nat /\ MaxCrashes \in Nat /\ MaxDamages \in Nat

VARIABLES
    gate,       \* goroutine that holds the gate
    pins,       \* revision -> number of pins
    job,        \* goroutine -> its Materialize or Prune
    (* the cache directory *)
    published,  \* revision -> "absent", "good" or "damaged"
    size,       \* revision -> bytes of its directory
    strays,     \* bytes in staging directories that nobody removes
    (* bounds *)
    jobs, crashes, damages

memoryVars == <<gate, pins, job>>
diskVars   == <<published, size, strays>>
boundVars  == <<jobs, crashes, damages>>
cacheVars  == <<memoryVars, diskVars, boundVars>>

\* used is what diskUsage returned, archive the bytes in the staging directory,
\* expands what the entries of the archive declare.
NoJob == [pc |-> "idle", rev |-> NoRevision, used |-> 0, archive |-> 0,
          content |-> 0, manifest |-> 0, expands |-> 0]

At(p, label) == job[p].pc = label

CacheInit ==
    /\ gate = NoProc
    /\ pins = [r \in Revisions |-> 0]
    /\ job = [p \in Procs |-> NoJob]
    /\ published = [r \in Revisions |-> "absent"]
    /\ size = [r \in Revisions |-> 0]
    /\ strays = 0
    /\ jobs = 0 /\ crashes = 0 /\ damages = 0

Least(a, b) == IF a < b THEN a ELSE b

StageBytes(p) == job[p].archive + job[p].content + job[p].manifest

\* What the staging directories hold.
AllStaged == SumFunction([p \in Procs |-> StageBytes(p)])

\* diskUsage: every file under the directory.
Usage == SumFunction(size) + strays + AllStaged

Becomes(p, j) == job' = [job EXCEPT ![p] = j]

Goto(p, label) == Becomes(p, [job[p] EXCEPT !.pc = label])

\* pin and unpin, which the registry and its snapshots call.
Pin(r) ==
    /\ pins[r] < MaxPins
    /\ pins' = [pins EXCEPT ![r] = @ + 1]
    /\ UNCHANGED <<gate, job, diskVars, boundVars>>

Unpin(r) ==
    /\ pins[r] > 0
    /\ pins' = [pins EXCEPT ![r] = @ - 1]
    /\ UNCHANGED <<gate, job, diskVars, boundVars>>

----------------------------------------------------------------------------
(* Materialize *)

\* Somebody asks for revision r.
Materialize(p, r) ==
    /\ At(p, "idle")
    /\ jobs < MaxJobs
    /\ jobs' = jobs + 1
    /\ Becomes(p, [NoJob EXCEPT !.pc = "gate", !.rev = r])
    /\ UNCHANGED <<gate, pins, diskVars, crashes, damages>>

\* lock: wait for the gate ...
Lock(p) ==
    /\ job[p].pc \in {"gate", "pruneGate"}
    /\ gate = NoProc
    /\ gate' = p
    /\ Goto(p, IF At(p, "gate") THEN "load" ELSE "prune")
    /\ UNCHANGED <<pins, diskVars, boundVars>>

\* ... or until the context ends.
LockCancelled(p) ==
    /\ job[p].pc \in {"gate", "pruneGate"}
    /\ Becomes(p, NoJob)
    /\ UNCHANGED <<gate, pins, diskVars, boundVars>>

\* loadCached: the directory agrees with its manifest.
LoadHit(p) ==
    /\ At(p, "load")
    /\ published[job[p].rev] = "good"
    /\ gate' = NoProc
    /\ Becomes(p, NoJob)
    /\ UNCHANGED <<pins, diskVars, boundVars>>

\* It does not, or is absent; or it cannot be read, which is no different.
LoadMiss(p) ==
    /\ At(p, "load")
    /\ published[job[p].rev] # "good" \/ Flaky
    /\ Goto(p, "discard")
    /\ UNCHANGED <<gate, pins, diskVars, boundVars>>

\* Remove what is there.
Discard(p) ==
    /\ At(p, "discard")
    /\ published' = [published EXCEPT ![job[p].rev] = "absent"]
    /\ size' = [size EXCEPT ![job[p].rev] = 0]
    /\ Goto(p, "stage")
    /\ UNCHANGED <<gate, pins, strays, boundVars>>

\* Measure the disk and make the staging directory, if there is any room.
Stage(p) ==
    /\ At(p, "stage")
    /\ MaxCacheBytes > Usage
    /\ Becomes(p, [job[p] EXCEPT !.used = Usage, !.pc = "download"])
    /\ UNCHANGED <<gate, pins, diskVars, boundVars>>

Available(p) == MaxCacheBytes - job[p].used

\* The source sends the archive into a writer that stops at the limit.
Download(p) ==
    /\ At(p, "download")
    /\ \E a \in Archives :
          /\ a.archive <= Least(MaxArchiveBytes, Available(p))
          /\ Becomes(p, [job[p] EXCEPT !.archive = a.archive,
                                       !.expands = a.content,
                                       !.pc = "extract"])
    /\ UNCHANGED <<gate, pins, diskVars, boundVars>>

\* extract, with the archive still on the disk.
Extract(p) ==
    /\ At(p, "extract")
    /\ Available(p) > job[p].archive
    /\ job[p].expands <= Least(MaxExpandedBytes, Available(p) - job[p].archive)
    /\ Becomes(p, [job[p] EXCEPT !.content = job[p].expands,
                                 !.pc = "manifest"])
    /\ UNCHANGED <<gate, pins, diskVars, boundVars>>

\* Mutant of Manifest: the manifest's own bytes are forgotten.
ManifestFree(p) ==
    /\ At(p, "manifest")
    /\ job[p].used + StageBytes(p) <= MaxCacheBytes
    /\ Becomes(p, [job[p] EXCEPT !.manifest = ManifestBytes, !.pc = "publish"])
    /\ UNCHANGED <<gate, pins, diskVars, boundVars>>

\* The manifest must fit too.
Manifest(p) ==
    /\ At(p, "manifest")
    /\ ManifestBytes + job[p].used + StageBytes(p) <= MaxCacheBytes
    /\ Becomes(p, [job[p] EXCEPT !.manifest = ManifestBytes, !.pc = "publish"])
    /\ UNCHANGED <<gate, pins, diskVars, boundVars>>

\* Remove the archive and rename the staging directory.  The caller then gets
\* the skill, or an error if it cannot be read again.
Publish(p) ==
    /\ At(p, "publish")
    /\ published' = [published EXCEPT ![job[p].rev] = "good"]
    /\ size' = [size EXCEPT ![job[p].rev] = job[p].content + job[p].manifest]
    /\ gate' = NoProc
    /\ Becomes(p, NoJob)
    /\ UNCHANGED <<pins, strays, boundVars>>

Materializing(p) ==
    job[p].pc \in {"load", "discard", "stage", "download", "extract",
                  "manifest", "publish"}

\* os.RemoveAll of the revisions in gone; of those in broken it removes a part.
RemoveRevisions(gone, broken) ==
    /\ published' = [r \in Revisions |->
                        IF r \in gone THEN "absent"
                        ELSE IF r \in broken THEN "damaged"
                        ELSE published[r]]
    /\ \E left \in [broken -> UNION {0..size[r] : r \in broken}] :
          /\ \A r \in broken : left[r] <= size[r]
          /\ size' = [r \in Revisions |->
                         IF r \in gone THEN 0
                         ELSE IF r \in broken THEN left[r]
                         ELSE size[r]]

\* Mutant of Fail: an error return forgets to give the gate back.
FailLocked(p) ==
    /\ Materializing(p)
    /\ Becomes(p, NoJob)
    /\ UNCHANGED <<gate, pins, diskVars, boundVars>>

\* Any step may fail: a limit, the context, the source, an archive that is not
\* a skill, the disk.  The staging directory is removed, if the disk lets us.
Fail(p) ==
    /\ Materializing(p)
    /\ gate' = NoProc
    /\ Becomes(p, NoJob)
    /\ strays' \in {strays, strays + StageBytes(p)}
    /\ \/ UNCHANGED <<published, size>>
       \/ /\ At(p, "discard") /\ published[job[p].rev] # "absent"
          /\ RemoveRevisions({}, {job[p].rev})
    /\ UNCHANGED <<pins, boundVars>>

----------------------------------------------------------------------------
(* Prune *)

StartPrune(p) ==
    /\ At(p, "idle")
    /\ jobs < MaxJobs
    /\ jobs' = jobs + 1
    /\ Becomes(p, [NoJob EXCEPT !.pc = "pruneGate"])
    /\ UNCHANGED <<gate, pins, diskVars, crashes, damages>>

\* Mutant of Prunable: pins are not looked at.
PrunableAll == Revisions

Prunable == {r \in Revisions : pins[r] = 0}

\* With pins held still, remove what has none, and old staging directories.
Prune(p) ==
    /\ At(p, "prune")
    /\ RemoveRevisions(Prunable, {})
    /\ strays' = 0
    /\ gate' = NoProc
    /\ Becomes(p, NoJob)
    /\ UNCHANGED <<pins, boundVars>>

\* The context or the disk stops it half-way, perhaps inside a revision.
PruneFails(p) ==
    /\ At(p, "prune")
    /\ \E gone \in SUBSET Prunable :
          \/ RemoveRevisions(gone, {})
          \/ \E r \in Prunable \ gone :
                published[r] # "absent" /\ RemoveRevisions(gone, {r})
    /\ strays' \in 0..strays
    /\ gate' = NoProc
    /\ Becomes(p, NoJob)
    /\ UNCHANGED <<pins, boundVars>>

----------------------------------------------------------------------------
(* The world outside *)

\* The process dies.  A removal it was at may leave half a revision.
Crash ==
    /\ crashes < MaxCrashes
    /\ crashes' = crashes + 1
    /\ gate' = NoProc
    /\ pins' = [r \in Revisions |-> 0]
    /\ job' = [p \in Procs |-> NoJob]
    /\ strays' = strays + AllStaged
    /\ \/ UNCHANGED <<published, size>>
       \/ \E p \in Procs, r \in Revisions :
             /\ published[r] # "absent"
             /\ \/ At(p, "discard") /\ r = job[p].rev
                \/ At(p, "prune") /\ r \in Prunable
             /\ RemoveRevisions({}, {r})
    /\ UNCHANGED <<jobs, damages>>

\* A published file changes.
Damage(r) ==
    /\ damages < MaxDamages
    /\ published[r] = "good"
    /\ published' = [published EXCEPT ![r] = "damaged"]
    /\ damages' = damages + 1
    /\ UNCHANGED <<memoryVars, size, strays, jobs, crashes>>

\* The host has made all its calls and they have returned.
Finished ==
    /\ jobs = MaxJobs
    /\ \A p \in Procs : At(p, "idle")
    /\ UNCHANGED cacheVars

CacheStep(p) ==
    \/ Lock(p) \/ LoadHit(p) \/ LoadMiss(p) \/ Discard(p) \/ Stage(p)
    \/ Download(p) \/ Extract(p) \/ Manifest(p) \/ Publish(p) \/ Fail(p)
    \/ Prune(p) \/ PruneFails(p)

CacheNext ==
    \/ \E p \in Procs : CacheStep(p) \/ LockCancelled(p) \/ StartPrune(p)
    \/ \E p \in Procs, r \in Revisions : Materialize(p, r)
    \/ \E r \in Revisions : Pin(r) \/ Unpin(r) \/ Damage(r)
    \/ Crash
    \/ Finished

CacheSpec == CacheInit /\ [][CacheNext]_cacheVars

(***************************************************************************)
(* A goroutine that can go on does.  In particular a source's Download     *)
(* ends: its context does, or its HTTP client gives up.  The gate is a     *)
(* channel, which serves those that wait in turn; with MaxJobs calls weak  *)
(* fairness is enough for that.                                            *)
(***************************************************************************)
FairCacheSpec == CacheSpec /\ \A p \in Procs : WF_cacheVars(CacheStep(p))

----------------------------------------------------------------------------
(* Properties *)

\* MaxCacheBytes bounds the whole directory at every moment: published
\* revisions, what a download has staged so far, and what earlier processes
\* and failed removals left there, although it is measured once, before the
\* download begins.
DiskBounded == Usage <= MaxCacheBytes

\* The promise to the registry: SkillStore, with everything but the pins and
\* the published revisions hidden.
Store == INSTANCE SkillStore
ImplementsStore == Store!StoreSpec

\* Every Materialize and Prune returns: no error return, crash or refused
\* download keeps the gate.
JobsEnd == \A p \in Procs : ~At(p, "idle") ~> At(p, "idle")
=============================================================================
