------------------------- MODULE MCKnowledgeDocuments -------------------------
(* Instances of KnowledgeDocuments for TLC.                                    *)
EXTENDS KnowledgeDocuments, TLC

\* Whether so far a request was interrupted between two of its statements, by
\* a step of somebody else or a restart, or a statement was refused.
VARIABLE disturbed

MCInit == Init /\ disturbed = FALSE

Interrupted ==
  \/ errors' # errors
  \/ \E r \in Requests : ~Free(r) /\ (req'[r] = req[r] \/ restarts' # restarts)

MCNext == Next /\ disturbed' = (disturbed \/ Interrupted)

MCSpec == MCInit /\ [][MCNext]_<<vars, disturbed>>

\* Handlers that run one after the other leave a document in agreement with its
\* newest version (updateDocument and publishDocument write the two in separate
\* statements).
DocumentShowsNewestInSequence == ~disturbed => DocumentShowsNewest

\* Handlers that run one after the other never leave a document marked as
\* indexed whose content changed after it was handed to the index.
IndexShowsNewestInSequence == ~disturbed => IndexShowsNewest

\* Handlers that run one after the other never change the content of a
\* published version: updateDocument edits the newest version only if it read
\* that it is a draft.
PublishedVersionFrozenInSequence == [][~disturbed' => KeepsPublished]_vars

Interchangeable == Permutations(Requests) \cup Permutations(Bodies)
=============================================================================
