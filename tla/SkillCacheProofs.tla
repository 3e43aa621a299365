-------------------------- MODULE SkillCacheProofs --------------------------
(***************************************************************************)
(* Theorems about SkillCache, for any goroutines, revisions, sizes and     *)
(* bounds: the gate has one holder, who alone changes what is published,   *)
(* and therefore the cache implements SkillStore, and never takes more     *)
(* bytes than it may.                                                      *)
(***************************************************************************)
EXTENDS SkillCache, FiniteSetTheorems, WellFoundedInduction, TLAPS

\* The steps of a Materialize at which nothing is published for its revision.
Staged == {"stage", "download", "extract", "manifest", "publish"}

Working == {"load", "discard", "prune"} \cup Staged

\* A record with the fields of a job, whatever their values.
Whole(j) ==
    j \in [pc : {j.pc}, rev : {j.rev}, used : {j.used}, archive : {j.archive},
           content : {j.content}, manifest : {j.manifest}, expands : {j.expands}]

\* What a job needs, and what it knows of the published revisions.
JobOK(j, pub) ==
    /\ Whole(j)
    /\ j.pc \in {"gate"} \cup (Working \ {"prune"}) => j.rev \in Revisions
    /\ j.pc \in Staged => pub[j.rev] = "absent"
    /\ j.pc = "discard" => pub[j.rev] # "good" \/ Flaky

\* The gate is held by who is at work behind it.
GateInv ==
    /\ gate \in Procs \cup {NoProc}
    /\ \A p \in Procs : job[p].pc \in Working <=> gate = p

CacheInv ==
    /\ published \in [Revisions -> {"absent", "good", "damaged"}]
    /\ job = [p \in Procs |-> job[p]]
    /\ \A p \in Procs : JobOK(job[p], published)
    /\ GateInv

\* The holder of the gate, or nobody, changes what is published; others then
\* have nothing to know about it.
LEMMA JobStep ==
    ASSUME CacheInv, NEW p \in Procs, NEW j, Becomes(p, j), JobOK(j, published'),
           published' \in [Revisions -> {"absent", "good", "damaged"}],
           published' = published \/ gate = p,
           \/ gate' = gate /\ (j.pc \in Working <=> job[p].pc \in Working)
           \/ gate = NoProc /\ gate' = p /\ j.pc \in Working
           \/ gate = p /\ gate' = NoProc /\ j.pc \notin Working
    PROVE  CacheInv'
<1>1. job' = [q \in Procs |-> IF q = p THEN j ELSE job[q]]
  BY DEF Becomes, CacheInv
<1>2. \A q \in Procs : job'[q] = IF q = p THEN j ELSE job[q]
  BY <1>1
<1>3. job' = [q \in Procs |-> job'[q]]
  BY <1>1
<1>4. GateInv'
  BY <1>2, ConstantsAssumption DEF GateInv, CacheInv
<1>5. ASSUME NEW q \in Procs, q # p PROVE JobOK(job[q], published)'
  <2>1. JobOK(job[q], published) /\ job'[q] = job[q] BY <1>2, <1>5 DEF CacheInv
  <2>2. CASE published' = published
    BY <2>1, <2>2 DEF JobOK, Whole
  <2>3. CASE gate = p
    <3>1. job[q].pc \notin Working BY <1>5, <2>3 DEF CacheInv, GateInv
    <3> QED BY <2>1, <3>1 DEF JobOK, Whole, Working
  <2> QED BY <2>2, <2>3
<1>6. JobOK(job[p], published)'
  BY <1>2 DEF JobOK, Whole
<1> QED BY <1>3, <1>4, <1>5, <1>6 DEF CacheInv

\* No job is at work at first.
LEMMA CacheInvInit == CacheInit => CacheInv
BY ConstantsAssumption
   DEF CacheInit, CacheInv, JobOK, Whole, NoJob, GateInv, Working, Staged

\* What RemoveRevisions leaves.
LEMMA Removed ==
    ASSUME published \in [Revisions -> {"absent", "good", "damaged"}],
           NEW gone, NEW broken, RemoveRevisions(gone, broken)
    PROVE  /\ published' \in [Revisions -> {"absent", "good", "damaged"}]
           /\ \A r \in Revisions : published'[r] = IF r \in gone THEN "absent"
                                                   ELSE IF r \in broken THEN "damaged"
                                                   ELSE published[r]
BY DEF RemoveRevisions

\* The empty job knows nothing.
LEMMA NoJobOK == JobOK(NoJob, published) /\ JobOK(NoJob, published') /\ NoJob.pc = "idle"
BY DEF JobOK, Whole, NoJob, Working, Staged

\* Every step keeps who may be behind the gate, and what the job there knows.
LEMMA CacheInvNext == CacheInv /\ [CacheNext]_cacheVars => CacheInv'
<1> SUFFICES ASSUME CacheInv, [CacheNext]_cacheVars PROVE CacheInv'
  OBVIOUS
<1> USE DEF Working, Staged
<1>1. ASSUME NEW p \in Procs, CacheStep(p) \/ LockCancelled(p) \/ StartPrune(p)
      PROVE  CacheInv'
  <2>0. JobOK(job[p], published) /\ (job[p].pc \in Working <=> gate = p)
    BY DEF CacheInv, GateInv
  <2>1. CASE Lock(p)
    <3> DEFINE j == [job[p] EXCEPT !.pc = IF At(p, "gate") THEN "load" ELSE "prune"]
    <3>1. Becomes(p, j) /\ published' = published /\ gate = NoProc /\ gate' = p
      BY <2>1 DEF Lock, Goto, diskVars
    <3>2. JobOK(j, published') /\ j.pc \in Working
      BY <2>0, <2>1, <3>1 DEF JobOK, Whole, Lock, At
    <3> HIDE DEF j
    <3> QED BY <3>1, <3>2, JobStep DEF CacheInv
  <2>2. CASE LoadHit(p)
    BY <2>0, <2>2, NoJobOK, JobStep DEF LoadHit, At, diskVars, CacheInv
  <2>3. CASE LoadMiss(p)
    <3> DEFINE j == [job[p] EXCEPT !.pc = "discard"]
    <3>1. Becomes(p, j) /\ published' = published /\ gate' = gate
      BY <2>3 DEF LoadMiss, Goto, diskVars
    <3>2. JobOK(j, published') /\ j.pc \in Working /\ job[p].pc \in Working
      BY <2>0, <2>3, <3>1 DEF JobOK, Whole, LoadMiss, At
    <3> HIDE DEF j
    <3> QED BY <3>1, <3>2, JobStep DEF CacheInv
  <2>4. CASE Discard(p)
    <3> DEFINE j == [job[p] EXCEPT !.pc = "stage"]
    <3>1. Becomes(p, j) /\ gate' = gate /\ job[p].pc = "discard"
      BY <2>4 DEF Discard, Goto, At
    <3>2. /\ published' = [published EXCEPT ![job[p].rev] = "absent"]
          /\ job[p].rev \in Revisions /\ gate = p
      BY <2>0, <2>4, <3>1 DEF Discard, JobOK
    <3>3. published' \in [Revisions -> {"absent", "good", "damaged"}]
          /\ published'[job[p].rev] = "absent"
      BY <3>2 DEF CacheInv
    <3>4. JobOK(j, published') /\ j.pc \in Working
      BY <2>0, <3>1, <3>2, <3>3 DEF JobOK, Whole
    <3> HIDE DEF j
    <3> QED BY <3>1, <3>2, <3>3, <3>4, JobStep
  <2>5. CASE Stage(p)
    <3> DEFINE j == [job[p] EXCEPT !.used = Usage, !.pc = "download"]
    <3>1. Becomes(p, j) /\ published' = published /\ gate' = gate
      BY <2>5 DEF Stage, diskVars
    <3>2. JobOK(j, published') /\ j.pc \in Working /\ job[p].pc \in Working
      BY <2>0, <2>5, <3>1 DEF JobOK, Whole, Stage, At
    <3> HIDE DEF j
    <3> QED BY <3>1, <3>2, JobStep DEF CacheInv
  <2>6. CASE Download(p)
    <3>1. PICK a \in Archives :
             Becomes(p, [job[p] EXCEPT !.archive = a.archive, !.expands = a.content,
                                       !.pc = "extract"])
      BY <2>6 DEF Download
    <3> DEFINE j == [job[p] EXCEPT !.archive = a.archive, !.expands = a.content, !.pc = "extract"]
    <3>2. published' = published /\ gate' = gate
      BY <2>6 DEF Download, diskVars
    <3>3. JobOK(j, published') /\ j.pc \in Working /\ job[p].pc \in Working
      BY <2>0, <2>6, <3>2 DEF JobOK, Whole, Download, At
    <3>4. Becomes(p, j) BY <3>1
    <3> HIDE DEF j
    <3> QED BY <3>2, <3>3, <3>4, JobStep DEF CacheInv
  <2>7. CASE Extract(p)
    <3> DEFINE j == [job[p] EXCEPT !.content = job[p].expands, !.pc = "manifest"]
    <3>1. Becomes(p, j) /\ published' = published /\ gate' = gate
      BY <2>7 DEF Extract, diskVars
    <3>2. JobOK(j, published') /\ j.pc \in Working /\ job[p].pc \in Working
      BY <2>0, <2>7, <3>1 DEF JobOK, Whole, Extract, At
    <3> HIDE DEF j
    <3> QED BY <3>1, <3>2, JobStep DEF CacheInv
  <2>8. CASE Manifest(p)
    <3> DEFINE j == [job[p] EXCEPT !.manifest = ManifestBytes, !.pc = "publish"]
    <3>1. Becomes(p, j) /\ published' = published /\ gate' = gate
      BY <2>8 DEF Manifest, diskVars
    <3>2. JobOK(j, published') /\ j.pc \in Working /\ job[p].pc \in Working
      BY <2>0, <2>8, <3>1 DEF JobOK, Whole, Manifest, At
    <3> HIDE DEF j
    <3> QED BY <3>1, <3>2, JobStep DEF CacheInv
  <2>9. CASE Publish(p)
    <3>1. job[p].pc = "publish" /\ published' = [published EXCEPT ![job[p].rev] = "good"]
          /\ gate' = NoProc /\ Becomes(p, NoJob) /\ gate = p
      BY <2>0, <2>9 DEF Publish, At
    <3>2. published' \in [Revisions -> {"absent", "good", "damaged"}]
      BY <3>1 DEF CacheInv
    <3> QED BY <3>1, <3>2, NoJobOK, JobStep
  <2>10. CASE Fail(p)
    <3>1. gate = p /\ gate' = NoProc /\ Becomes(p, NoJob)
      BY <2>0, <2>10 DEF Fail, Materializing
    <3>2. published' \in [Revisions -> {"absent", "good", "damaged"}]
      BY <2>10, Removed DEF Fail, CacheInv
    <3> QED BY <3>1, <3>2, NoJobOK, JobStep
  <2>11. CASE Prune(p)
    <3>1. gate = p /\ gate' = NoProc /\ Becomes(p, NoJob)
      BY <2>0, <2>11 DEF Prune, At
    <3>2. published' \in [Revisions -> {"absent", "good", "damaged"}]
      BY <2>11, Removed DEF Prune, CacheInv
    <3> QED BY <3>1, <3>2, NoJobOK, JobStep
  <2>12. CASE PruneFails(p)
    <3>1. gate = p /\ gate' = NoProc /\ Becomes(p, NoJob)
      BY <2>0, <2>12 DEF PruneFails, At
    <3>2. published' \in [Revisions -> {"absent", "good", "damaged"}]
      BY <2>12, Removed DEF PruneFails, CacheInv
    <3> QED BY <3>1, <3>2, NoJobOK, JobStep
  <2>13. CASE LockCancelled(p)
    BY <2>0, <2>13, NoJobOK, JobStep DEF LockCancelled, diskVars, CacheInv
  <2>14. CASE StartPrune(p)
    <3> DEFINE j == [NoJob EXCEPT !.pc = "pruneGate"]
    <3>1. Becomes(p, j) /\ published' = published /\ gate' = gate /\ job[p].pc \notin Working
      BY <2>14 DEF StartPrune, diskVars, At
    <3>2. JobOK(j, published') /\ j.pc \notin Working
      BY DEF JobOK, Whole, NoJob
    <3> HIDE DEF j
    <3> QED BY <3>1, <3>2, JobStep DEF CacheInv
  <2> QED
    BY <1>1, <2>1, <2>2, <2>3, <2>4, <2>5, <2>6, <2>7, <2>8, <2>9, <2>10, <2>11, <2>12,
       <2>13, <2>14 DEF CacheStep
<1>2. ASSUME NEW p \in Procs, NEW r \in Revisions, Materialize(p, r) PROVE CacheInv'
  <2> DEFINE j == [NoJob EXCEPT !.pc = "gate", !.rev = r]
  <2>1. Becomes(p, j) /\ published' = published /\ gate' = gate /\ job[p].pc \notin Working
    BY <1>2 DEF Materialize, diskVars, At
  <2>2. JobOK(j, published') /\ j.pc \notin Working
    BY DEF JobOK, Whole, NoJob
  <2> HIDE DEF j
  <2> QED BY <2>1, <2>2, JobStep DEF CacheInv
<1>3. ASSUME NEW r \in Revisions, Pin(r) \/ Unpin(r) PROVE CacheInv'
  BY <1>3 DEF Pin, Unpin, diskVars, CacheInv, GateInv, JobOK, Whole
<1>4. ASSUME NEW r \in Revisions, Damage(r) PROVE CacheInv'
  <2>1. /\ published[r] = "good" /\ published' = [published EXCEPT ![r] = "damaged"]
        /\ job' = job /\ gate' = gate
    BY <1>4 DEF Damage, memoryVars
  <2>2. published' \in [Revisions -> {"absent", "good", "damaged"}]
    BY <2>1 DEF CacheInv
  <2>3. ASSUME NEW p \in Procs PROVE JobOK(job[p], published)'
    <3>1. JobOK(job[p], published) BY DEF CacheInv
    <3> QED BY <2>1, <3>1 DEF JobOK, Whole, CacheInv
  <2>4. (job = [p \in Procs |-> job[p]])' /\ GateInv'
    BY <2>1 DEF CacheInv, GateInv
  <2> QED BY <2>2, <2>3, <2>4 DEF CacheInv
<1>5. CASE Crash
  <2>1. gate' = NoProc /\ job' = [p \in Procs |-> NoJob]
    BY <1>5 DEF Crash
  <2>2. published' \in [Revisions -> {"absent", "good", "damaged"}]
    BY <1>5, Removed DEF Crash, CacheInv
  <2>3. \A p \in Procs : JobOK(job[p], published)'
    BY <2>1, NoJobOK DEF JobOK, Whole
  <2>4. GateInv'
    BY <2>1, NoJobOK, ConstantsAssumption DEF GateInv
  <2> QED BY <2>1, <2>2, <2>3, <2>4 DEF CacheInv
<1>6. CASE UNCHANGED cacheVars
  BY <1>6 DEF cacheVars, memoryVars, diskVars, CacheInv, GateInv, JobOK, Whole
<1> QED
  BY <1>1, <1>2, <1>3, <1>4, <1>5, <1>6 DEF CacheNext, Finished

\* The gate has one holder, and while a revision is downloaded nothing is
\* published for it: lock, Materialize and Prune of remote_cache.go.
THEOREM GateHolds == CacheSpec => []CacheInv
<1>1. CacheInit => CacheInv BY CacheInvInit
<1>2. CacheInv /\ [CacheNext]_cacheVars => CacheInv' BY CacheInvNext
<1> QED BY <1>1, <1>2, PTL DEF CacheSpec

----------------------------------------------------------------------------
(* The refinement *)

\* A part of what is not pinned goes, a part of one revision may stay behind.
LEMMA Evicts ==
    ASSUME CacheInv, NEW gone \in SUBSET Prunable, NEW broken \in SUBSET Prunable,
           \A r \in broken : published[r] # "absent",
           RemoveRevisions(gone, broken), UNCHANGED pins
    PROVE  Store!StoreNext
<1>1. gone \in SUBSET Revisions /\ broken \in SUBSET Revisions
  BY DEF Prunable
<1>2. Store!Evict(gone, broken)
  BY DEF Store!Evict, Store!Unpinned, Prunable, RemoveRevisions
<1> QED BY <1>1, <1>2 DEF Store!StoreNext

\* Every step of the cache is a step of the store, or none.
LEMMA StoreStep == CacheInv /\ [CacheNext]_cacheVars => [Store!StoreNext]_(Store!storeVars)
<1> SUFFICES ASSUME CacheInv, [CacheNext]_cacheVars
             PROVE  Store!StoreNext \/ UNCHANGED <<pins, published>>
  BY DEF Store!storeVars
<1> USE DEF Working, Staged
<1>1. ASSUME NEW p \in Procs, CacheStep(p) \/ LockCancelled(p) \/ StartPrune(p)
      PROVE  Store!StoreNext \/ UNCHANGED <<pins, published>>
  <2>0. JobOK(job[p], published) BY DEF CacheInv
  <2>1. CASE Lock(p) \/ LoadHit(p) \/ LoadMiss(p) \/ Stage(p) \/ Download(p) \/ Extract(p)
             \/ Manifest(p) \/ LockCancelled(p) \/ StartPrune(p)
    BY <2>1 DEF Lock, LoadHit, LoadMiss, Stage, Download, Extract, Manifest, LockCancelled,
                StartPrune, diskVars
  <2>2. CASE Discard(p)
    <3>1. /\ job[p].rev \in Revisions
          /\ published[job[p].rev] # "good" \/ Flaky
          /\ published' = [published EXCEPT ![job[p].rev] = "absent"] /\ pins' = pins
      BY <2>0, <2>2 DEF Discard, At, JobOK
    <3>2. CASE published[job[p].rev] = "absent"
      BY <3>1, <3>2 DEF CacheInv
    <3>3. CASE published[job[p].rev] # "absent"
      <4>1. Store!Discard(job[p].rev)
        BY <3>1, <3>3 DEF Store!Discard, Store!Unusable
      <4> QED BY <3>1, <4>1 DEF Store!StoreNext
    <3> QED BY <3>2, <3>3
  <2>3. CASE Publish(p)
    <3>1. Store!Publish(job[p].rev) /\ job[p].rev \in Revisions /\ pins' = pins
      BY <2>0, <2>3 DEF Publish, At, JobOK, Store!Publish
    <3> QED BY <3>1 DEF Store!StoreNext
  <2>4. CASE Fail(p)
    <3>1. CASE UNCHANGED published
      BY <2>4, <3>1 DEF Fail
    <3>2. CASE /\ At(p, "discard") /\ published[job[p].rev] # "absent"
               /\ RemoveRevisions({}, {job[p].rev})
      <4>1. job[p].rev \in Revisions /\ (published[job[p].rev] # "good" \/ Flaky)
        BY <2>0, <3>2 DEF At, JobOK
      <4>2. published' = [published EXCEPT ![job[p].rev] = "damaged"]
        BY <3>2, <4>1 DEF RemoveRevisions, CacheInv
      <4>3. Store!Discard(job[p].rev)
        BY <3>2, <4>1, <4>2 DEF Store!Discard, Store!Unusable
      <4> QED BY <2>4, <4>1, <4>3 DEF Fail, Store!StoreNext
    <3> QED BY <2>4, <3>1, <3>2 DEF Fail
  <2>5. CASE Prune(p)
    BY <2>5, Evicts DEF Prune
  <2>6. CASE PruneFails(p)
    <3>1. PICK gone \in SUBSET Prunable :
             \/ RemoveRevisions(gone, {})
             \/ \E r \in Prunable \ gone :
                   published[r] # "absent" /\ RemoveRevisions(gone, {r})
      BY <2>6 DEF PruneFails
    <3>2. pins' = pins BY <2>6 DEF PruneFails
    <3>3. CASE RemoveRevisions(gone, {})
      BY <3>2, <3>3, Evicts
    <3>4. ASSUME NEW r \in Prunable \ gone, published[r] # "absent", RemoveRevisions(gone, {r})
          PROVE  Store!StoreNext
      BY <3>2, <3>4, Evicts
    <3> QED BY <3>1, <3>3, <3>4
  <2> QED BY <1>1, <2>1, <2>2, <2>3, <2>4, <2>5, <2>6 DEF CacheStep
<1>2. ASSUME NEW p \in Procs, NEW r \in Revisions, Materialize(p, r)
      PROVE  UNCHANGED <<pins, published>>
  BY <1>2 DEF Materialize, diskVars
<1>3. ASSUME NEW r \in Revisions, Pin(r) \/ Unpin(r) PROVE Store!StoreNext
  BY <1>3 DEF Pin, Unpin, diskVars, Store!StoreNext, Store!Pin, Store!Unpin
<1>4. ASSUME NEW r \in Revisions, Damage(r) PROVE Store!StoreNext
  BY <1>4 DEF Damage, memoryVars, Store!StoreNext, Store!Tamper
<1>5. CASE Crash
  <2>1. pins' = [r \in Revisions |-> 0]
    BY <1>5 DEF Crash
  <2>2. CASE UNCHANGED published
    BY <2>1, <2>2 DEF Store!StoreNext, Store!Restart
  <2>3. ASSUME NEW p \in Procs, NEW r \in Revisions, published[r] # "absent",
               \/ At(p, "discard") /\ r = job[p].rev
               \/ At(p, "prune") /\ r \in Prunable,
               RemoveRevisions({}, {r})
        PROVE  Store!StoreNext
    <3>1. Store!Unusable(r) \/ r \in Store!Unpinned
      BY <2>3 DEF CacheInv, JobOK, At, Store!Unusable, Store!Unpinned, Prunable
    <3>2. published' = [published EXCEPT ![r] = "damaged"]
      BY <2>3 DEF RemoveRevisions, CacheInv
    <3> QED BY <2>1, <2>3, <3>1, <3>2 DEF Store!StoreNext, Store!Restart
  <2> QED BY <1>5, <2>2, <2>3 DEF Crash
<1>6. CASE UNCHANGED cacheVars
  BY <1>6 DEF cacheVars, memoryVars, diskVars
<1> QED
  BY <1>1, <1>2, <1>3, <1>4, <1>5, <1>6 DEF CacheNext, Finished

\* The cache keeps the promise of SkillStore, on which the registry is built:
\* revisions are published whole, and one that is pinned goes only when it is
\* damaged or cannot be read, through failures, crashes and restarts
\* (Materialize, Prune, pin and unpin of remote_cache.go).
THEOREM Implements == CacheSpec => ImplementsStore
<1>1. CacheInit => Store!StoreInit
  BY DEF CacheInit, Store!StoreInit
<1>2. CacheInv /\ [CacheNext]_cacheVars => [Store!StoreNext]_(Store!storeVars)
  BY StoreStep
<1> QED BY <1>1, <1>2, GateHolds, PTL DEF CacheSpec, ImplementsStore, Store!StoreSpec

----------------------------------------------------------------------------
(* Sums over a finite set *)

\* The element that the folds of the library take next.
One(s) == CHOOSE x \in s : TRUE

\* Induction over the subsets of a finite set, with a set of the good ones in
\* place of a predicate.
LEMMA SubsetInduction ==
    ASSUME NEW S, IsFiniteSet(S), NEW Good, {} \in Good,
           \A T \in SUBSET S : T # {} /\ (\A x \in T : T \ {x} \in Good) => T \in Good
    PROVE  SUBSET S \subseteq Good
<1> DEFINE Bad == (SUBSET S) \ Good
<1> SUFFICES ASSUME Bad # {} PROVE FALSE
  OBVIOUS
<1>1. Bad \subseteq FiniteSubsetsOf(S)
  BY FS_Subset DEF FiniteSubsetsOf
<1> HIDE DEF Bad
<1>2. PICK T \in Bad : \A U \in Bad : ~ (<<U, T>> \in StrictSubsetOrdering(S))
  BY <1>1, WFMin, FS_StrictSubsetOrderingWellFounded
<1>3. ASSUME NEW x \in T PROVE T \ {x} \in Good
  <2>1. /\ T \ {x} \in SUBSET S /\ T \in SUBSET S
        /\ T \ {x} \subseteq T /\ T \ {x} # T
    BY DEF Bad
  <2>2. <<T \ {x}, T>> \in StrictSubsetOrdering(S)
    BY <2>1 DEF StrictSubsetOrdering
  <2> QED
    BY <1>2, <2>1, <2>2 DEF Bad
<1> QED
  BY <1>2, <1>3 DEF Bad

\* ... and over the numbers.
LEMMA Induction ==
    ASSUME NEW Good, 0 \in Good, \A n \in Nat : n \in Good => n + 1 \in Good
    PROVE  Nat \subseteq Good
<1> DEFINE Bad == Nat \ Good
<1> SUFFICES ASSUME Bad # {} PROVE FALSE
  OBVIOUS
<1>1. PICK n \in Bad : \A m \in Bad : ~ (<<m, n>> \in OpToRel(<, Nat))
  BY WFMin, NatLessThanWellFounded
<1>2. n - 1 \in Nat \ Good
  OBVIOUS
<1>3. <<n - 1, n>> \in OpToRel(<, Nat)
  BY <1>2 DEF OpToRel
<1> QED
  BY <1>1, <1>2, <1>3

\* The recursion by which SumFunction adds.
SumStep(f, D, h) == [s \in D |-> IF s = {} THEN 0 ELSE f[One(s)] + h[s \ {One(s)}]]
SumIter(f, S) == CHOOSE h : h = SumStep(f, SUBSET S, h)

\* SumFunction is that recursion over the whole domain.
LEMMA SumUnfold ==
    ASSUME NEW f
    PROVE  SumFunction(f) = SumIter(f, DOMAIN f)[DOMAIN f]
BY DEF SumFunction, SumFunctionOnSet, FoldFunctionOnSet, MapThenFoldSet, One, SumIter, SumStep

\* ... over any domain, for values that are numbers.
LEMMA SumWhole ==
    ASSUME NEW S, NEW f \in [S -> Nat]
    PROVE  SumFunction(f) = SumIter(f, S)[S] /\ S \in SUBSET S
<1>1. DOMAIN f = S
  OBVIOUS
<1> QED
  BY <1>1, SumUnfold

\* The subsets with n elements at most, on which the recursion is built up.
Upto(S, n) == {s \in SUBSET S : Cardinality(s) <= n}

\* It is an element.
LEMMA OneOf == ASSUME NEW s, s # {} PROVE One(s) \in s
BY DEF One

\* Without it a set is one of the smaller ones,
LEMMA Smaller ==
    ASSUME NEW S, IsFiniteSet(S), NEW n \in Nat, NEW s \in Upto(S, n + 1), s # {}
    PROVE  s \ {One(s)} \in Upto(S, n)
<1>1. IsFiniteSet(s) /\ s \subseteq S
  BY FS_Subset DEF Upto
<1>2. Cardinality(s \ {One(s)}) = Cardinality(s) - 1 /\ Cardinality(s) \in Nat
  BY <1>1, OneOf, FS_RemoveElement, FS_CardinalityType
<1> QED
  BY <1>1, <1>2 DEF Upto

\* of which the least is empty,
LEMMA Bottom ==
    ASSUME NEW S, IsFiniteSet(S), NEW s \in Upto(S, 0)
    PROVE  s = {}
<1>1. IsFiniteSet(s) /\ Cardinality(s) \in Nat
  BY FS_Subset, FS_CardinalityType DEF Upto
<1>2. Cardinality(s) = 0
  BY <1>1 DEF Upto
<1> QED
  BY <1>1, <1>2, FS_EmptySet

\* and all of which are among the larger ones.
LEMMA Upward ==
    ASSUME NEW S, IsFiniteSet(S), NEW n \in Nat
    PROVE  Upto(S, n) \subseteq Upto(S, n + 1)
<1> SUFFICES ASSUME NEW s \in Upto(S, n) PROVE s \in Upto(S, n + 1)
  OBVIOUS
<1>1. s \subseteq S /\ Cardinality(s) \in Nat
  BY FS_Subset, FS_CardinalityType DEF Upto
<1> QED
  BY <1>1 DEF Upto

\* There is a function that satisfies the recursion,
LEMMA SumExists ==
    ASSUME NEW S, IsFiniteSet(S), NEW f
    PROVE  \E h : h = SumStep(f, SUBSET S, h)
<1> DEFINE Good == {n \in Nat : \E h : h = SumStep(f, Upto(S, n), h)}
<1>1. 0 \in Good
  <2> DEFINE h == [s \in Upto(S, 0) |-> 0]
  <2>1. h = SumStep(f, Upto(S, 0), h)
    BY Bottom DEF SumStep
  <2> QED
    BY <2>1
<1>2. ASSUME NEW n \in Nat, n \in Good PROVE n + 1 \in Good
  <2>1. PICK h : h = SumStep(f, Upto(S, n), h)
    BY <1>2
  <2> DEFINE k == SumStep(f, Upto(S, n + 1), h)
  <2>2. ASSUME NEW s \in Upto(S, n) PROVE s \in Upto(S, n + 1) /\ k[s] = h[s]
    <3>1. s \in Upto(S, n + 1)
      BY Upward
    <3>2. h[s] = IF s = {} THEN 0 ELSE f[One(s)] + h[s \ {One(s)}]
      BY <2>1 DEF SumStep
    <3>3. k[s] = IF s = {} THEN 0 ELSE f[One(s)] + h[s \ {One(s)}]
      BY <3>1 DEF SumStep
    <3> HIDE DEF k
    <3> QED
      BY <3>1, <3>2, <3>3
  <2> HIDE DEF k
  <2>3. ASSUME NEW s \in Upto(S, n + 1), s # {} PROVE k[s \ {One(s)}] = h[s \ {One(s)}]
    BY <2>2, <2>3, Smaller
  <2>4. k = SumStep(f, Upto(S, n + 1), k)
    BY <2>3 DEF k, SumStep
  <2>5. \E g : g = SumStep(f, Upto(S, n + 1), g)
    BY <2>4
  <2> QED
    BY <2>5
<1> HIDE DEF Good
<1>3. Nat \subseteq Good
  BY <1>1, <1>2, Induction
<1>4. Cardinality(S) \in Nat
  BY FS_CardinalityType
<1>5. Upto(S, Cardinality(S)) = SUBSET S
  BY FS_Subset, FS_CardinalityType DEF Upto
<1> QED
  BY <1>3, <1>4, <1>5 DEF Good

\* and so the sum does.
LEMMA SumRule ==
    ASSUME NEW S, IsFiniteSet(S), NEW f, NEW s \in SUBSET S
    PROVE  SumIter(f, S)[s] =
             IF s = {} THEN 0 ELSE f[One(s)] + SumIter(f, S)[s \ {One(s)}]
<1>1. SumIter(f, S) = SumStep(f, SUBSET S, SumIter(f, S))
  BY SumExists DEF SumIter
<1>2. SumIter(f, S)[s] = SumStep(f, SUBSET S, SumIter(f, S))[s]
  BY <1>1
<1> QED
  BY <1>2 DEF SumStep

\* Of nothing it is 0.
LEMMA SumEmpty ==
    ASSUME NEW S, IsFiniteSet(S), NEW f
    PROVE  SumIter(f, S)[{}] = 0
BY SumRule

\* The sum of numbers is a number.
LEMMA SumTyped ==
    ASSUME NEW S, IsFiniteSet(S), NEW f \in [S -> Nat]
    PROVE  /\ SumFunction(f) \in Nat
           /\ \A s \in SUBSET S : SumIter(f, S)[s] \in Nat
<1> DEFINE h == SumIter(f, S)
           Good == {s \in SUBSET S : h[s] \in Nat}
<1>1. {} \in Good
  BY SumEmpty
<1>2. ASSUME NEW T \in SUBSET S, T # {}, \A x \in T : T \ {x} \in Good
      PROVE  T \in Good
  <2>1. h[T] = f[One(T)] + h[T \ {One(T)}]
    BY <1>2, SumRule
  <2>2. One(T) \in T
    BY <1>2, OneOf
  <2> QED
    BY <1>2, <2>1, <2>2
<1>3. SUBSET S \subseteq Good
  <2> HIDE DEF Good
  <2> QED
    BY <1>1, <1>2, SubsetInduction
<1> QED
  BY <1>3, SumWhole

\* What is nowhere more is not more in sum.
LEMMA SumLess ==
    ASSUME NEW S, IsFiniteSet(S), NEW f \in [S -> Nat], NEW g \in [S -> Nat],
           \A x \in S : f[x] <= g[x]
    PROVE  SumFunction(f) <= SumFunction(g)
<1> DEFINE h == SumIter(f, S)
           k == SumIter(g, S)
           Good == {s \in SUBSET S : h[s] <= k[s]}
<1>1. {} \in Good
  BY SumEmpty
<1>2. ASSUME NEW T \in SUBSET S, T # {}, \A x \in T : T \ {x} \in Good
      PROVE  T \in Good
  <2>1. h[T] = f[One(T)] + h[T \ {One(T)}] /\ k[T] = g[One(T)] + k[T \ {One(T)}]
    BY <1>2, SumRule
  <2>2. One(T) \in T
    BY <1>2, OneOf
  <2>3. h[T \ {One(T)}] \in Nat /\ k[T \ {One(T)}] \in Nat
    BY SumTyped
  <2> QED
    BY <1>2, <2>1, <2>2, <2>3
<1>3. SUBSET S \subseteq Good
  <2> HIDE DEF Good
  <2> QED
    BY <1>1, <1>2, SubsetInduction
<1> QED
  BY <1>3, SumWhole

\* Functions that differ at one place differ in sum by as much.
LEMMA SumPoint ==
    ASSUME NEW S, IsFiniteSet(S), NEW f \in [S -> Nat], NEW g \in [S -> Nat],
           NEW a \in S, \A x \in S \ {a} : f[x] = g[x]
    PROVE  SumFunction(f) + g[a] = SumFunction(g) + f[a]
<1> DEFINE h == SumIter(f, S)
           k == SumIter(g, S)
           Good == {s \in SUBSET S : IF a \in s THEN h[s] + g[a] = k[s] + f[a]
                                     ELSE h[s] = k[s]}
<1>1. {} \in Good
  BY SumEmpty
<1>2. ASSUME NEW T \in SUBSET S, T # {}, \A x \in T : T \ {x} \in Good
      PROVE  T \in Good
  <2>1. T # {}
    BY <1>2
  <2>8. h[T] = f[One(T)] + h[T \ {One(T)}]
    BY <2>1, SumRule
  <2>9. k[T] = g[One(T)] + k[T \ {One(T)}]
    BY <2>1, SumRule
  <2>2. One(T) \in T
    BY <1>2, OneOf
  <2>3. h[T \ {One(T)}] \in Nat /\ k[T \ {One(T)}] \in Nat
    BY SumTyped
  <2>4. IF a \in T \ {One(T)} THEN h[T \ {One(T)}] + g[a] = k[T \ {One(T)}] + f[a]
        ELSE h[T \ {One(T)}] = k[T \ {One(T)}]
    BY <1>2, <2>2
  <2>5. f[One(T)] \in Nat /\ g[One(T)] \in Nat /\ f[a] \in Nat /\ g[a] \in Nat
    BY <2>2
  <2> HIDE DEF h, k
  <2>6. CASE One(T) = a
    BY <2>1, <2>2, <2>3, <2>4, <2>5, <2>6, <2>8, <2>9
  <2>7. CASE One(T) # a
    <3>1. f[One(T)] = g[One(T)] /\ (a \in T <=> a \in T \ {One(T)})
      BY <2>2, <2>7
    <3> QED
      BY <2>1, <2>3, <2>4, <2>5, <2>8, <2>9, <3>1
  <2> QED
    BY <2>6, <2>7
<1>3. SUBSET S \subseteq Good
  <2> HIDE DEF Good
  <2> QED
    BY <1>1, <1>2, SubsetInduction
<1> QED
  BY <1>3, SumWhole

\* If all else is 0, the sum is the one value.
LEMMA SumOne ==
    ASSUME NEW S, IsFiniteSet(S), NEW f \in [S -> Nat],
           NEW a \in S, \A x \in S \ {a} : f[x] = 0
    PROVE  SumFunction(f) = f[a]
<1> DEFINE g == [x \in S |-> 0]
<1>1. SumFunction(g) = 0
  <2> DEFINE k == SumIter(g, S)
             Good == {s \in SUBSET S : k[s] = 0}
  <2>1. {} \in Good
    BY SumEmpty
  <2>2. ASSUME NEW T \in SUBSET S, T # {}, \A x \in T : T \ {x} \in Good
        PROVE  T \in Good
    <3>1. k[T] = g[One(T)] + k[T \ {One(T)}] /\ One(T) \in T
      BY <2>2, SumRule, OneOf
    <3> QED
      BY <2>2, <3>1
  <2>3. SUBSET S \subseteq Good
    <3> HIDE DEF Good
    <3> QED
      BY <2>1, <2>2, SubsetInduction
  <2> QED
    BY <2>3, SumWhole
<1>2. SumFunction(f) + g[a] = SumFunction(g) + f[a]
  <2>1. g \in [S -> Nat] /\ \A x \in S \ {a} : f[x] = g[x]
    OBVIOUS
  <2> HIDE DEF g
  <2> QED
    BY <2>1, SumPoint
<1>3. SumFunction(f) \in Nat /\ f[a] \in Nat
  BY SumTyped
<1> QED
  BY <1>1, <1>2, <1>3

\* If all is 0, so is the sum.
LEMMA SumZero ==
    ASSUME NEW S, IsFiniteSet(S), NEW f \in [S -> Nat], \A x \in S : f[x] = 0
    PROVE  SumFunction(f) = 0
<1>1. CASE S = {}
  BY <1>1, SumRule, SumWhole
<1>2. ASSUME NEW a \in S PROVE SumFunction(f) = 0
  BY SumOne
<1> QED
  BY <1>1, <1>2

----------------------------------------------------------------------------
(* The bytes on the disk *)

\* The steps at which a download counts on what Stage has measured.
Filling == {"download", "extract", "manifest", "publish"}

Held(j) == j.archive + j.content + j.manifest

\* What a job has staged, and what it knows of the others' bytes: other.
SizesOK(j, other, sizes) ==
    /\ j.archive \in Nat /\ j.content \in Nat /\ j.manifest \in Nat
    /\ j.expands \in Nat /\ j.used \in Nat
    /\ j.pc \notin {"extract", "manifest", "publish"} => j.archive = 0
    /\ j.pc \notin {"manifest", "publish"} => j.content = 0
    /\ j.pc # "publish" => j.manifest = 0
    /\ j.pc \in Filling => j.used = other /\ j.used + Held(j) <= MaxCacheBytes
    /\ j.pc \in Staged => sizes[j.rev] = 0

Others == SumFunction(size) + strays

DiskInv ==
    /\ size \in [Revisions -> Nat] /\ strays \in Nat
    /\ Others <= MaxCacheBytes
    /\ \A p \in Procs : SizesOK(job[p], Others, size)

\* The sum of what is published is a number.
LEMMA OthersTyped ==
    ASSUME size \in [Revisions -> Nat], strays \in Nat
    PROVE  SumFunction(size) \in Nat /\ Others \in Nat
BY SumTyped, ConstantsAssumption DEF Others

\* Only the holder of the gate has anything staged.
LEMMA StagedByHolder ==
    ASSUME CacheInv, DiskInv
    PROVE  /\ AllStaged \in Nat
           /\ \A p \in Procs : gate = p => AllStaged = StageBytes(p)
           /\ gate = NoProc => AllStaged = 0
<1> DEFINE f == [p \in Procs |-> StageBytes(p)]
<1>1. f \in [Procs -> Nat]
  BY DEF DiskInv, SizesOK, StageBytes
<1>2. \A p \in Procs : gate # p => f[p] = 0
  BY DEF DiskInv, SizesOK, StageBytes, CacheInv, GateInv, Working, Staged
<1>3. IsFiniteSet(Procs) /\ NoProc \notin Procs
  BY ConstantsAssumption
<1>4. AllStaged = SumFunction(f)
  BY DEF AllStaged
<1>5. \A p \in Procs : f[p] = StageBytes(p)
  OBVIOUS
<1> HIDE DEF f
<1>6. AllStaged \in Nat
  BY <1>1, <1>3, <1>4, SumTyped
<1>7. ASSUME NEW p \in Procs, gate = p PROVE AllStaged = StageBytes(p)
  <2>1. \A q \in Procs \ {p} : f[q] = 0
    BY <1>2, <1>7
  <2> QED
    BY <1>1, <1>3, <1>4, <1>5, <2>1, SumOne
<1>8. ASSUME gate = NoProc PROVE AllStaged = 0
  <2>1. \A q \in Procs : f[q] = 0
    BY <1>2, <1>3, <1>8
  <2> QED
    BY <1>1, <1>3, <1>4, <2>1, SumZero
<1> QED
  BY <1>6, <1>7, <1>8

\* The invariant is what the property needs.
LEMMA Bounded == CacheInv /\ DiskInv => DiskBounded
<1> SUFFICES ASSUME CacheInv, DiskInv PROVE Usage <= MaxCacheBytes
  BY DEF DiskBounded
<1>1. Usage = Others + AllStaged /\ Others \in Nat /\ Others <= MaxCacheBytes
      /\ MaxCacheBytes \in Nat
  BY OthersTyped, ConstantsAssumption DEF Usage, Others, DiskInv
<1>2. CASE gate = NoProc
  BY <1>1, <1>2, StagedByHolder
<1>3. ASSUME NEW p \in Procs, gate = p PROVE Usage <= MaxCacheBytes
  <2>1. AllStaged = Held(job[p])
    BY <1>3, StagedByHolder DEF StageBytes, Held
  <2>2. SizesOK(job[p], Others, size)
    BY DEF DiskInv
  <2> QED
    BY <1>1, <2>1, <2>2 DEF SizesOK, Filling, Held
<1> QED
  BY <1>2, <1>3 DEF CacheInv, GateInv

\* The holder of the gate changes what is on the disk, or nobody does.
LEMMA DiskStep ==
    ASSUME CacheInv, DiskInv, NEW p \in Procs, NEW j, Becomes(p, j),
           size' \in [Revisions -> Nat], strays' \in Nat, Others' <= MaxCacheBytes,
           SizesOK(j, Others', size'),
           (size' = size /\ strays' = strays) \/ gate = p
    PROVE  DiskInv'
<1>1. job' = [q \in Procs |-> IF q = p THEN j ELSE job[q]]
  BY DEF Becomes, CacheInv
<1>2. \A q \in Procs : job'[q] = IF q = p THEN j ELSE job[q]
  BY <1>1
<1>3. ASSUME NEW q \in Procs, q # p PROVE SizesOK(job[q], Others, size)'
  <2>1. SizesOK(job[q], Others, size) /\ job'[q] = job[q]
    BY <1>2, <1>3 DEF DiskInv
  <2>2. CASE size' = size /\ strays' = strays
    BY <2>1, <2>2 DEF SizesOK, Others, Held
  <2>3. CASE gate = p
    <3>1. job[q].pc \notin Working
      BY <1>3, <2>3 DEF CacheInv, GateInv
    <3> QED
      BY <2>1, <3>1 DEF SizesOK, Working, Staged, Filling
  <2> QED
    BY <2>2, <2>3
<1>4. SizesOK(job[p], Others, size)'
  BY <1>2 DEF SizesOK, Held
<1> QED
  BY <1>3, <1>4 DEF DiskInv

\* A job that has staged nothing.
LEMMA NothingStaged ==
    ASSUME NEW other, NEW sizes
    PROVE  SizesOK(NoJob, other, sizes)
BY DEF SizesOK, NoJob, Filling, Staged

\* What RemoveRevisions leaves is no more than there was.
LEMMA Shrinks ==
    ASSUME size \in [Revisions -> Nat], NEW gone, NEW broken \in SUBSET Revisions,
           RemoveRevisions(gone, broken)
    PROVE  /\ size' \in [Revisions -> Nat]
           /\ SumFunction(size') <= SumFunction(size)
<1>1. PICK left \in [broken -> UNION {0..size[r] : r \in broken}] :
         /\ \A r \in broken : left[r] <= size[r]
         /\ size' = [r \in Revisions |-> IF r \in gone THEN 0
                                         ELSE IF r \in broken THEN left[r]
                                         ELSE size[r]]
  BY DEF RemoveRevisions
<1>2. \A r \in broken : left[r] \in Nat
  OBVIOUS
<1>3. size' \in [Revisions -> Nat]
  BY <1>1, <1>2
<1>4. \A r \in Revisions : size'[r] <= size[r]
  BY <1>1, <1>2
<1> QED
  BY <1>3, <1>4, SumLess, ConstantsAssumption

\* A job that stays within what it knows, with the disk as it is.
LEMMA Continues ==
    ASSUME CacheInv, DiskInv, NEW p \in Procs, NEW j, Becomes(p, j),
           UNCHANGED <<size, strays>>, SizesOK(j, Others, size)
    PROVE  DiskInv'
<1>1. Others' = Others
  BY DEF Others
<1> QED
  BY <1>1, DiskStep DEF DiskInv, SizesOK, Held

\* A job that ends leaves no more on the disk than there was, with what it has
\* staged.
LEMMA EndsWithin ==
    ASSUME CacheInv, DiskInv, NEW p \in Procs, Becomes(p, NoJob), gate = p,
           size' \in [Revisions -> Nat], SumFunction(size') <= SumFunction(size),
           strays' \in Nat, strays' <= strays + StageBytes(p)
    PROVE  DiskInv'
<1>1. SizesOK(job[p], Others, size)
  BY DEF DiskInv
<1>2. Others + StageBytes(p) <= MaxCacheBytes /\ StageBytes(p) \in Nat
  BY <1>1, OthersTyped, ConstantsAssumption DEF SizesOK, StageBytes, Held, Filling, DiskInv
<1>3. SumFunction(size) \in Nat /\ SumFunction(size') \in Nat /\ strays \in Nat
  BY SumTyped, ConstantsAssumption DEF DiskInv
<1>4. Others' <= MaxCacheBytes
  BY <1>2, <1>3, ConstantsAssumption DEF Others
<1> QED
  BY <1>4, NothingStaged, DiskStep

\* The directory is empty at first.
LEMMA DiskInvInit == CacheInit => DiskInv
<1> SUFFICES ASSUME CacheInit PROVE DiskInv
  OBVIOUS
<1>1. size \in [Revisions -> Nat] /\ strays = 0 /\ \A r \in Revisions : size[r] = 0
  BY DEF CacheInit
<1>2. Others = 0
  BY <1>1, SumZero, ConstantsAssumption DEF Others
<1>3. \A p \in Procs : SizesOK(job[p], Others, size)
  BY NothingStaged DEF CacheInit
<1> QED
  BY <1>1, <1>2, <1>3, ConstantsAssumption DEF DiskInv

\* Every step keeps the account of bytes.
LEMMA DiskInvNext == CacheInv /\ DiskInv /\ [CacheNext]_cacheVars => DiskInv'
<1> SUFFICES ASSUME CacheInv, DiskInv, [CacheNext]_cacheVars PROVE DiskInv'
  OBVIOUS
<1> USE DEF Staged, Filling
<1>0. ASSUME NEW p \in Procs
      PROVE  /\ SizesOK(job[p], Others, size) /\ JobOK(job[p], published)
             /\ job[p].pc \in Working <=> gate = p
  BY DEF DiskInv, CacheInv, GateInv
<1>00. Others \in Nat /\ MaxCacheBytes \in Nat /\ SumFunction(size) \in Nat /\ strays \in Nat
       /\ size \in [Revisions -> Nat]
  BY OthersTyped, ConstantsAssumption DEF DiskInv
<1>1. ASSUME NEW p \in Procs, CacheStep(p) \/ LockCancelled(p) \/ StartPrune(p)
      PROVE  DiskInv'
  <2>0. SizesOK(job[p], Others, size) /\ JobOK(job[p], published)
        /\ (job[p].pc \in Working <=> gate = p)
    BY <1>0
  <2>1. CASE Lock(p)
    <3> DEFINE j == [job[p] EXCEPT !.pc = IF At(p, "gate") THEN "load" ELSE "prune"]
    <3>1. Becomes(p, j) /\ UNCHANGED <<size, strays>>
      BY <2>1 DEF Lock, Goto, diskVars
    <3>2. SizesOK(j, Others, size)
      BY <2>0, <2>1 DEF SizesOK, Held, JobOK, Whole, Lock
    <3> HIDE DEF j
    <3> QED BY <3>1, <3>2, Continues
  <2>2. CASE LoadHit(p) \/ LockCancelled(p)
    BY <2>2, NothingStaged, Continues DEF LoadHit, LockCancelled, diskVars
  <2>3. CASE LoadMiss(p)
    <3> DEFINE j == [job[p] EXCEPT !.pc = "discard"]
    <3>1. Becomes(p, j) /\ UNCHANGED <<size, strays>>
      BY <2>3 DEF LoadMiss, Goto, diskVars
    <3>2. SizesOK(j, Others, size)
      BY <2>0, <2>3 DEF SizesOK, Held, JobOK, Whole, LoadMiss, At
    <3> HIDE DEF j
    <3> QED BY <3>1, <3>2, Continues
  <2>4. CASE Discard(p)
    <3> DEFINE j == [job[p] EXCEPT !.pc = "stage"]
    <3>1. /\ Becomes(p, j) /\ gate = p /\ job[p].rev \in Revisions
          /\ size' = [size EXCEPT ![job[p].rev] = 0] /\ strays' = strays
      BY <2>0, <2>4 DEF Discard, Goto, At, Working, JobOK
    <3>2. size' \in [Revisions -> Nat] /\ \A r \in Revisions : size'[r] <= size[r]
      BY <1>00, <3>1
    <3>3. SumFunction(size') <= SumFunction(size) /\ SumFunction(size') \in Nat
      BY <1>00, <3>2, SumLess, SumTyped, ConstantsAssumption
    <3>4. Others' <= MaxCacheBytes
      BY <1>00, <3>1, <3>3 DEF Others, DiskInv
    <3>5. SizesOK(j, Others', size')
      BY <1>00, <2>0, <2>4, <3>1 DEF SizesOK, Held, JobOK, Whole, Discard, At
    <3> HIDE DEF j
    <3> QED BY <1>00, <3>1, <3>2, <3>4, <3>5, DiskStep
  <2>5. CASE Stage(p)
    <3> DEFINE j == [job[p] EXCEPT !.used = Usage, !.pc = "download"]
    <3>1. Becomes(p, j) /\ UNCHANGED <<size, strays>> /\ gate = p /\ Usage < MaxCacheBytes
      BY <2>0, <2>5 DEF Stage, At, Working, diskVars
    <3>2. Usage = Others
      <4>1. AllStaged = StageBytes(p) /\ StageBytes(p) = 0
        BY <2>0, <2>5, <3>1, StagedByHolder DEF Stage, At, SizesOK, StageBytes
      <4> QED BY <1>00, <4>1 DEF Usage, Others
    <3>3. SizesOK(j, Others, size)
      BY <1>00, <2>0, <2>5, <3>1, <3>2 DEF SizesOK, Held, JobOK, Whole, Stage, At
    <3> HIDE DEF j
    <3> QED BY <3>1, <3>3, Continues
  <2>6. CASE Download(p)
    <3>1. PICK a \in Archives :
             /\ a.archive <= Least(MaxArchiveBytes, Available(p))
             /\ Becomes(p, [job[p] EXCEPT !.archive = a.archive, !.expands = a.content,
                                          !.pc = "extract"])
      BY <2>6 DEF Download
    <3> DEFINE j == [job[p] EXCEPT !.archive = a.archive, !.expands = a.content, !.pc = "extract"]
    <3>2. Becomes(p, j) /\ UNCHANGED <<size, strays>>
      BY <2>6, <3>1 DEF Download, diskVars
    <3>3. a.archive \in Nat /\ a.content \in Nat /\ a.archive <= MaxCacheBytes - job[p].used
      BY <3>1, <2>0, ConstantsAssumption DEF Least, Available, SizesOK
    <3>4. SizesOK(j, Others, size)
      BY <1>00, <2>0, <2>6, <3>3 DEF SizesOK, Held, JobOK, Whole, Download, At
    <3> HIDE DEF j
    <3> QED BY <3>2, <3>4, Continues
  <2>7. CASE Extract(p)
    <3> DEFINE j == [job[p] EXCEPT !.content = job[p].expands, !.pc = "manifest"]
    <3>1. Becomes(p, j) /\ UNCHANGED <<size, strays>>
      BY <2>7 DEF Extract, diskVars
    <3>2. job[p].expands <= MaxCacheBytes - job[p].used - job[p].archive
      BY <1>00, <2>0, <2>7, ConstantsAssumption DEF Extract, Least, Available, SizesOK
    <3>3. SizesOK(j, Others, size)
      BY <1>00, <2>0, <2>7, <3>2 DEF SizesOK, Held, JobOK, Whole, Extract, At
    <3> HIDE DEF j
    <3> QED BY <3>1, <3>3, Continues
  <2>8. CASE Manifest(p)
    <3> DEFINE j == [job[p] EXCEPT !.manifest = ManifestBytes, !.pc = "publish"]
    <3>1. Becomes(p, j) /\ UNCHANGED <<size, strays>>
      BY <2>8 DEF Manifest, diskVars
    <3>2. SizesOK(j, Others, size)
      BY <1>00, <2>0, <2>8, ConstantsAssumption
         DEF SizesOK, Held, StageBytes, JobOK, Whole, Manifest, At
    <3> HIDE DEF j
    <3> QED BY <3>1, <3>2, Continues
  <2>9. CASE Publish(p)
    <3> DEFINE r == job[p].rev
    <3>1. /\ Becomes(p, NoJob) /\ gate = p /\ r \in Revisions /\ size[r] = 0
          /\ size' = [size EXCEPT ![r] = job[p].content + job[p].manifest]
          /\ strays' = strays /\ job[p].pc = "publish"
      BY <2>0, <2>9 DEF Publish, At, Working, JobOK, SizesOK
    <3>2. /\ size' \in [Revisions -> Nat] /\ size'[r] = job[p].content + job[p].manifest
          /\ \A q \in Revisions \ {r} : size'[q] = size[q]
      BY <1>00, <2>0, <3>1 DEF SizesOK
    <3>3. SumFunction(size') + size[r] = SumFunction(size) + size'[r]
      <4>1. r \in Revisions /\ IsFiniteSet(Revisions) /\ size \in [Revisions -> Nat]
            /\ size' \in [Revisions -> Nat] /\ \A q \in Revisions \ {r} : size'[q] = size[q]
        BY <1>00, <3>1, <3>2, ConstantsAssumption
      <4> HIDE DEF r
      <4> QED BY <4>1, SumPoint
    <3>4. SumFunction(size') \in Nat
      BY <3>2, SumTyped, ConstantsAssumption
    <3>5. SumFunction(size') = SumFunction(size) + job[p].content + job[p].manifest
      BY <1>00, <2>0, <3>1, <3>2, <3>3, <3>4 DEF SizesOK
    <3>6. Others' <= MaxCacheBytes
      BY <1>00, <2>0, <3>1, <3>4, <3>5 DEF SizesOK, Held, Others
    <3> QED BY <1>00, <3>1, <3>2, <3>6, NothingStaged, DiskStep
  <2>10. CASE Fail(p)
    <3>1. /\ gate = p /\ Becomes(p, NoJob) /\ strays' \in {strays, strays + StageBytes(p)}
          /\ StageBytes(p) \in Nat
      BY <2>0, <2>10 DEF Fail, Materializing, Working, SizesOK, StageBytes
    <3>2. size' \in [Revisions -> Nat] /\ SumFunction(size') <= SumFunction(size)
      <4>1. CASE UNCHANGED size
        BY <1>00, <4>1
      <4>2. CASE At(p, "discard") /\ RemoveRevisions({}, {job[p].rev})
        BY <1>00, <2>0, <4>2, Shrinks DEF At, Working, JobOK
      <4> QED BY <2>10, <4>1, <4>2 DEF Fail
    <3> QED BY <1>00, <3>1, <3>2, EndsWithin
  <2>11. ASSUME Prune(p) \/ PruneFails(p) PROVE DiskInv'
    <3>1. gate = p /\ Becomes(p, NoJob) /\ StageBytes(p) \in Nat
      BY <2>0, <2>11 DEF Prune, PruneFails, At, Working, SizesOK, StageBytes
    <3>2. strays' \in 0..strays
      BY <1>00, <2>11 DEF Prune, PruneFails
    <3>3. PICK gone, broken \in SUBSET Revisions : RemoveRevisions(gone, broken)
      BY <2>11 DEF Prune, PruneFails, Prunable
    <3>4. size' \in [Revisions -> Nat] /\ SumFunction(size') <= SumFunction(size)
      BY <1>00, <3>3, Shrinks
    <3> QED BY <1>00, <3>1, <3>2, <3>4, EndsWithin
  <2>12. CASE StartPrune(p)
    <3> DEFINE j == [NoJob EXCEPT !.pc = "pruneGate"]
    <3>1. Becomes(p, j) /\ UNCHANGED <<size, strays>>
      BY <2>12 DEF StartPrune, diskVars
    <3>2. SizesOK(j, Others, size)
      BY DEF SizesOK, NoJob
    <3> HIDE DEF j
    <3> QED BY <3>1, <3>2, Continues
  <2> QED
    BY <1>1, <2>1, <2>2, <2>3, <2>4, <2>5, <2>6, <2>7, <2>8, <2>9, <2>10, <2>11, <2>12
       DEF CacheStep
<1>2. ASSUME NEW p \in Procs, NEW r \in Revisions, Materialize(p, r) PROVE DiskInv'
  <2> DEFINE j == [NoJob EXCEPT !.pc = "gate", !.rev = r]
  <2>1. Becomes(p, j) /\ UNCHANGED <<size, strays>>
    BY <1>2 DEF Materialize, diskVars
  <2>2. SizesOK(j, Others, size)
    BY DEF SizesOK, NoJob
  <2> HIDE DEF j
  <2> QED BY <2>1, <2>2, Continues
<1>3. ASSUME UNCHANGED <<job, size, strays>> PROVE DiskInv'
  BY <1>3 DEF DiskInv, Others, SizesOK, Held
<1>4. ASSUME NEW r \in Revisions, Pin(r) \/ Unpin(r) \/ Damage(r) PROVE DiskInv'
  BY <1>3, <1>4 DEF Pin, Unpin, Damage, diskVars, memoryVars
<1>5. CASE Crash
  <2>1. job' = [p \in Procs |-> NoJob] /\ strays' = strays + AllStaged
    BY <1>5 DEF Crash
  <2>2. size' \in [Revisions -> Nat] /\ SumFunction(size') <= SumFunction(size)
    <3>1. CASE UNCHANGED size
      BY <1>00, <3>1
    <3>2. ASSUME NEW r \in Revisions, RemoveRevisions({}, {r})
          PROVE  size' \in [Revisions -> Nat] /\ SumFunction(size') <= SumFunction(size)
      BY <1>00, <3>2, Shrinks
    <3> QED BY <1>5, <3>1, <3>2 DEF Crash
  <2>3. SumFunction(size') \in Nat
    BY <2>2, SumTyped, ConstantsAssumption
  <2>4. AllStaged \in Nat /\ Usage <= MaxCacheBytes
    BY StagedByHolder, Bounded DEF DiskBounded
  <2>5. Others' <= MaxCacheBytes /\ strays' \in Nat
    BY <1>00, <2>1, <2>2, <2>3, <2>4 DEF Usage, Others
  <2>6. \A p \in Procs : SizesOK(job[p], Others, size)'
    BY <2>1, NothingStaged DEF SizesOK, NoJob
  <2> QED BY <2>2, <2>5, <2>6 DEF DiskInv
<1>6. CASE UNCHANGED cacheVars
  BY <1>3, <1>6 DEF cacheVars, memoryVars, diskVars
<1> QED
  BY <1>1, <1>2, <1>4, <1>5, <1>6 DEF CacheNext, Finished

\* The directory never takes more than MaxCacheBytes, though the bytes are
\* measured once, before the archive, the content and the manifest are written
\* (Materialize and diskUsage of remote_cache.go): the gate keeps the
\* measurement true, through failures, crashes, restarts and leftovers.
THEOREM DiskIsBounded == CacheSpec => []DiskBounded
<1>1. CacheInit => DiskInv
  BY DiskInvInit
<1>2. CacheInv /\ DiskInv /\ [CacheNext]_cacheVars => DiskInv'
  BY DiskInvNext
<1>3. CacheInv /\ DiskInv => DiskBounded
  BY Bounded
<1> QED
  BY <1>1, <1>2, <1>3, GateHolds, PTL DEF CacheSpec
=============================================================================
