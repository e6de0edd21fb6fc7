----------------------- MODULE MCSkillReviewConcurrent -----------------------
(* SkillReview with history variables that tell overlapping requests from     *)
(* requests that run one after the other.                                     *)
EXTENDS MCSkillReview

VARIABLES
  disturbed,  \* was a request interrupted between two of its statements by a
              \* step of another one, or did the server restart?
  blind       \* requests that took a refused SELECT for an answer

Interrupted ==
  restarts' # restarts \/ \E r \in Requests : ~Free(r) /\ req'[r] = req[r]

\* A request that begins with a refused statement read nothing.
Blind == {r \in Requests : ~Free(r)' /\ (r \in blind \/ (Free(r) /\ errors' # errors))}

MCInit == Init /\ disturbed = FALSE /\ blind = {}
MCNext == Next /\ disturbed' = (disturbed \/ Interrupted) /\ blind' = Blind
MCSpec == MCInit /\ [][MCNext]_<<vars, disturbed, blind>>

\* Handlers that run one after the other never leave a version under review
\* whose row says something else, also when the database refuses a statement of
\* one of them.  (submitSkillVersionByID, publishSubmission, publishSkillVersion)
UnderReviewSaysSoInSequence == ~disturbed => UnderReviewSaysSo

\* docs/skill-registry.md:5: handlers that run one after the other never change
\* the files of a published version, also when the database refuses statements;
\* but for a request whose own SELECT of immutable was refused, which goes on as
\* if the version could be edited.  (upsertSkillFile, updateSkillFile,
\* deleteSkillFile, publishSubmission, publishSkillVersion)
PublishedContentFrozenInSequence ==
  [][~disturbed' /\ blind = {} => KeepsPublishedContent]_<<vars, disturbed, blind>>
\* Both versions are of the same skill and none is seeded.
InterchangeableVersions ==
  {p @@ q @@ o : p \in Permutations(Requests), q \in Permutations(Submissions),
                 o \in Permutations(Versions)}
=============================================================================
