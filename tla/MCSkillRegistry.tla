-------------------------- MODULE MCSkillRegistry ---------------------------
(* Instances of SkillRegistry for TLC; the .cfg files give the constants. *)
EXTENDS SkillRegistry, TLC

\* The last source may list every name, the others what may be local too.
SomeRevisions ==
    {r \in [source : Sources, name : Names, version : Versions] :
        r.source = LastSource \/ r.name \in LocalNames}

\* What an earlier process has left: the skills of the first source, and those
\* of the last that are not local, damaged.
SomeDisk ==
    [r \in SomeRevisions |-> IF r.source # LastSource THEN "good"
                             ELSE IF r.name \notin LocalNames THEN "damaged"
                             ELSE "absent"]

EmptyDisk == [r \in SomeRevisions |-> "absent"]

\* Goroutines are interchangeable.
GoroutineSymmetry == Permutations(Procs)
=============================================================================
