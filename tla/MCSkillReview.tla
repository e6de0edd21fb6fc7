---------------------------- MODULE MCSkillReview ----------------------------
(* Instances of SkillReview for TLC.                                          *)
EXTENDS SkillReview, TLC

CONSTANTS k1, v1, v2, s1, s2, r1, r2, sec, sys, c1

OneSkill == (v1 :> k1)
TwoVersions == (v1 :> k1) @@ (v2 :> k1)

auto == [mode |-> "auto", role |-> NoRole]
manual(role) == [mode |-> "manual", role |-> role]

\* The shape of the default workflow, one that ends in an automatic step, and
\* one nobody has to decide.
ShortLists == {<<auto, manual(sec)>>, <<manual(sec), auto>>}
LongList == {<<manual(sec), auto, manual(sys), auto>>}

Interchangeable == Permutations(Requests) \cup Permutations(Submissions)
=============================================================================
