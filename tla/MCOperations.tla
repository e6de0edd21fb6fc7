----------------------------- MODULE MCOperations -----------------------------
(* One instance of four parts that share no table: runtimes with their hosts, *)
(* a conversation, the imports into a knowledge base, and the migrations.     *)
(* part says which one moves.                                                 *)
EXTENDS Runtimes, Conversations, KnowledgeImports, SchemaMigrations
VARIABLES
  part,
  crowded,     \* were two requests for runtimes or hosts served at once since
               \* the last boot?
  told,        \* runtimes whose last command was a control of which both the
               \* provider and the row heard
  indirect,    \* messages regenerated from a candidate instead of the answer
  stale,       \* imports during which another import committed
  crossed      \* their jobs, and those of imports of which a search was refused

operationsVars == <<runtimeVars, chatVars, importVars, migrationVars>>
history == <<part, crowded, told, indirect, stale, crossed>>

Parts == {"runtimes", "conversation", "imports", "migrations"}

\* Like 004, which ends in definitions of indexes, 014, which changes data only,
\* and 012, which ends in data.
Files3 == <<<<"define", "data", "define", "index">>, <<"data", "data">>, <<"define", "data">>>>

-----------------------------------------------------------------------------

Controls(r) == {q \in RuntimeRequests : rtReq[q].next \in {"row", "rows"} /\ rtReq[q].runtime = r}
Crowd == Cardinality({q \in RuntimeRequests : rtReq[q].next # "idle"}) > 1
RuntimesBooted == runtimeRestarts' # runtimeRestarts

Told == {r \in Runtimes :
  /\ ~RuntimesBooted /\ ~(\E q \in Controls(r) : RowRefused(q))
  /\ IF Controls(r)' \ Controls(r) # {} THEN Controls(r) = {}
     ELSE r \in told /\ (rtReq' = rtReq => status'[r] = status[r])}

Indirect == indirect \cup
  {i \in DOMAIN messages' \ DOMAIN messages :
     \E q \in ChatRequests : ChatAt(q, "regenerate") /\ chatReq'[q] # chatReq[q]
                             /\ chatReq[q].message # chatReq[q].root}

\* Job numbers that were just written, and by whom.
Written == DOMAIN jobs' \ DOMAIN jobs
Writers == {q \in ImportRequests : importReq[q].next # "idle" /\ importReq'[q].next = "idle"}
Importing == {q \in ImportRequests : importReq[q].next # "idle"}
Stale == (IF Written # {} THEN stale \cup Importing ELSE stale) \ Writers
Crossed == IF \E q \in Writers : q \in stale \/ importReq[q].missed THEN crossed \cup Written ELSE crossed

MCInit ==
  /\ part \in Parts
  /\ RuntimesInit /\ ConversationsInit /\ ImportsInit /\ MigrationsInit
  /\ crowded = FALSE /\ told = {} /\ indirect = {} /\ stale = {} /\ crossed = {}

MCNext ==
  /\ UNCHANGED part
  /\ \/ /\ part = "runtimes" /\ RuntimesNext
        /\ UNCHANGED <<chatVars, importVars, migrationVars>>
     \/ /\ part = "conversation" /\ ConversationsNext
        /\ UNCHANGED <<runtimeVars, importVars, migrationVars>>
     \/ /\ part = "imports" /\ ImportsNext
        /\ UNCHANGED <<runtimeVars, chatVars, migrationVars>>
     \/ /\ part = "migrations" /\ MigrationsNext
        /\ UNCHANGED <<runtimeVars, chatVars, importVars>>
  /\ crowded' = (~RuntimesBooted /\ (crowded \/ Crowd'))
  /\ told' = Told
  /\ indirect' = Indirect
  /\ stale' = Stale
  /\ crossed' = Crossed

MCSpec == MCInit /\ [][MCNext]_<<operationsVars, history>>

-----------------------------------------------------------------------------

\* The types of the four modules.
OperationsTypeOK ==
  RuntimesTypeOK /\ ConversationsTypeOK /\ ImportsTypeOK /\ MigrationsTypeOK

\* docs/runtime-hosts.md:14, deleteRuntimeHostV032: no runtime loses the host it
\* is placed on when requests are served one at a time; and a runtime whose last
\* command came from a control, with no other control at the same time, is in
\* its row what the provider takes it for.  (runtimeAction, runtimeControlV21)
RuntimesAgreeInSequence ==
  /\ ~crowded => \A r \in Runtimes : placed[r] => host[r] # Nothing
  /\ \A r \in told : Controls(r) = {} => status[r] = provider[r]

\* Of an answer and its candidates exactly one is in the context, whichever
\* requests regenerate or select at the same time; every answer that can be seen
\* has a question that can be seen, and a candidate regenerated from the answer
\* itself repeats the same question.  (regenerateWorkspaceMessageV033Hotfix,
\* selectWorkspaceMessageCandidateV033Hotfix)
OneCandidateInContext ==
  \A i \in DOMAIN messages : Visible(i) /\ messages[i].role = "assistant" =>
    /\ Visible(messages[i].answers)
    /\ messages[i].root = 0 => Cardinality({j \in GroupOf(i) : messages[j].selected}) = 1
    /\ messages[i].root # 0 /\ i \notin indirect =>
         messages[i].answers = messages[messages[i].root].answers

\* docs/knowledge-base.md:27: an import accounts for every row, unless there are
\* too many; it is completed only if every row became an item with a version;
\* and it adds no item with the type and title of another import's or of a row
\* before it, unless an import commits between the search for duplicates and the
\* transaction, or a search is refused.  (importKnowledgeQAV033Hotfix,
\* importKnowledgeMarkdownV033Hotfix)
ImportAccountsForRows ==
  /\ \A j \in DOMAIN jobs :
       LET added == {x \in items : x.job = j}
       IN /\ jobs[j].rows <= MaxItems =>
               jobs[j].success + jobs[j].failed + jobs[j].duplicates = jobs[j].rows
          /\ Cardinality({x \in added : x.versioned}) <= jobs[j].success
          /\ Cardinality({x \in added : ~x.versioned}) <= jobs[j].failed
          /\ jobs[j].status = "completed" => jobs[j].success = jobs[j].rows
  /\ \A x, y \in items : x # y /\ x.type = y.type /\ x.title = y.title =>
       \E item \in {x, y} : item.job \in crossed \/ jobs[item.job].rows > MaxItems
=============================================================================
