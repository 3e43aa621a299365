---------------------------- MODULE MCSkillCache ----------------------------
(* An instance of SkillCache for TLC; the .cfg file gives the constants. *)
EXTENDS SkillCache

\* What sources send: a small and a large skill, and a zip bomb.  Two small
\* ones fit in the cache with their manifests, three do not.
SomeArchives == {[archive |-> 1, content |-> 2], [archive |-> 3, content |-> 3],
                 [archive |-> 1, content |-> 9]}
=============================================================================
