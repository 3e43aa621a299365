----------------------------- MODULE SkillStore -----------------------------
(***************************************************************************)
(* What the cache of remote skills promises to the registry and to the     *)
(* snapshots that use it (skills/remote_cache.go, the comments of          *)
(* SkillCache and Prune): revisions are published whole, and one that is   *)
(* pinned goes only when it is damaged, or when it cannot be read (Flaky). *)
(* SkillCache implements this module; SkillRegistry is built on it.        *)
(***************************************************************************)
EXTENDS Naturals, FiniteSets

CONSTANTS
    Revisions,  \* cache keys
    Flaky       \* whole revisions may fail to be read

ASSUME StoreAssumption == IsFiniteSet(Revisions) /\ Flaky \in BOOLEAN

VARIABLES
    pins,       \* revision -> number of pins
    published   \* revision -> "absent", "good" or "damaged"

storeVars == <<pins, published>>

\* An earlier process may have left revisions.
StoreInit ==
    /\ pins = [r \in Revisions |-> 0]
    /\ published \in [Revisions -> {"absent", "good", "damaged"}]

\* pin and unpin.
Pin(r)   == pins' = [pins EXCEPT ![r] = @ + 1]
Unpin(r) == pins' = [pins EXCEPT ![r] = @ - 1]

\* Prune may take these.
Unpinned == {r \in Revisions : pins[r] = 0}

\* Materialize finds r to be of no use: it may remove it, or part of it.
Unusable(r) == published[r] # "good" \/ Flaky

Publish(r) ==
    /\ published[r] = "absent"
    /\ published' = [published EXCEPT ![r] = "good"]

Discard(r) ==
    /\ Unusable(r)
    /\ published[r] # "absent"
    /\ \E left \in {"absent", "damaged"} :
          published' = [published EXCEPT ![r] = left]

\* Prune, to its end or not.
Evict(gone, broken) ==
    /\ gone \cup broken \subseteq Unpinned
    /\ published' = [r \in Revisions |->
                        IF r \in gone THEN "absent"
                        ELSE IF r \in broken /\ published[r] # "absent"
                             THEN "damaged"
                        ELSE published[r]]

\* Somebody else writes to the directory.
Tamper(r) ==
    /\ published[r] = "good"
    /\ published' = [published EXCEPT ![r] = "damaged"]

\* The process dies; it may have been removing something.
Restart ==
    /\ pins' = [r \in Revisions |-> 0]
    /\ \/ UNCHANGED published
       \/ \E r \in Revisions :
             /\ published[r] # "absent"
             /\ Unusable(r) \/ r \in Unpinned
             /\ published' = [published EXCEPT ![r] = "damaged"]

StoreNext ==
    \/ \E r \in Revisions : (Pin(r) \/ Unpin(r)) /\ UNCHANGED published
    \/ \E r \in Revisions :
          (Publish(r) \/ Discard(r) \/ Tamper(r)) /\ UNCHANGED pins
    \/ \E gone, broken \in SUBSET Revisions :
          Evict(gone, broken) /\ UNCHANGED pins
    \/ Restart

StoreSpec == StoreInit /\ [][StoreNext]_storeVars
=============================================================================
