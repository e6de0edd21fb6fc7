--------------------------- MODULE MCKnowledgeItems ---------------------------
(* Instances of KnowledgeItems for TLC.                                        *)
EXTENDS KnowledgeItems, TLC

\* Whether so far a request was interrupted between two of its statements, by
\* a step of somebody else or a restart, or a statement was refused.
VARIABLE disturbed

MCInit == Init /\ disturbed = FALSE

Interrupted ==
  \/ errors' # errors
  \/ \E r \in Requests : ~Free(r) /\ (req'[r] = req[r] \/ restarts' # restarts)

MCNext == Next /\ disturbed' = (disturbed \/ Interrupted)

MCSpec == MCInit /\ [][MCNext]_<<vars, disturbed>>

\* Handlers that run one after the other leave the item and its version in
\* agreement (createKnowledgeItem, updateKnowledgeItem, publishKnowledgeItem and
\* the workspace's transactions write the two in separate statements or rows).
ItemShowsItsVersionInSequence == ~disturbed => ItemShowsItsVersion

\* Handlers that run one after the other never leave an item marked as indexed
\* whose content changed after it was handed to the index.
IndexShowsItemInSequence == ~disturbed => IndexShowsItem

Interchangeable == Permutations(Requests) \cup Permutations(Bodies)
=============================================================================
