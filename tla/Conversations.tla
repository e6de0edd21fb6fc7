---------------------------- MODULE Conversations ----------------------------
(***************************************************************************)
(* One conversation: questions, answers, and the candidates an answer is   *)
(* regenerated into.                                                       *)
(*                                                                         *)
(* messages[i] is the row with id i, which the INSERT draws before its     *)
(* transaction commits; inserter is the transaction while it has not, and  *)
(* a row that is rolled back leaves a gap.  An INSERT shares a lock on the *)
(* conversation, because of the foreign key, and sending a message ends    *)
(* with an UPDATE of it, which needs that lock for itself: of two messages *)
(* sent at once one is the victim of the deadlock.                         *)
(*                                                                         *)
(* Contents, models and feedback are left out.  A request that finds no    *)
(* model or no row changes nothing and is no step.                         *)
(* <Definition>_<Slip> is the definition after it with a plausible mistake.*)
(***************************************************************************)
EXTENDS Integers, Sequences, FiniteSets

CONSTANTS ChatRequests, Nobody, MaxMessages   \* bound: ids that are drawn

ASSUME ChatBounds == MaxMessages \in Nat /\ Nobody \notin ChatRequests

VARIABLES
  opened,    \* is there a row of chat_conversations?
  messages, chatReq

chatVars == <<opened, messages, chatReq>>

Ids == 1..MaxMessages
Message == [role : {"user", "assistant", "gone"},
            root : Ids \cup {0},      \* regenerated_from_message_id, 0 for NULL
            selected : BOOLEAN,       \* selected_for_context
            answers : Ids \cup {0},   \* the question whose text the answer repeats
            inserter : ChatRequests \cup {Nobody}]
ChatRequest == [next : {"idle", "answer", "commit", "regenerate"},
                message : Ids \cup {0}, root : Ids \cup {0}, source : Ids \cup {0}]
IdleChat == [next |-> "idle", message |-> 0, root |-> 0, source |-> 0]

ConversationsTypeOK ==
  /\ opened \in BOOLEAN
  /\ messages \in Seq(Message) /\ Len(messages) <= MaxMessages
  /\ \A i \in DOMAIN messages : messages[i].answers < i /\ messages[i].root < i
  /\ chatReq \in [ChatRequests -> ChatRequest]

ConversationsInit == opened = FALSE /\ messages = <<>> /\ chatReq = [q \in ChatRequests |-> IdleChat]

Row(role, root, source, inserter) ==
  [role |-> role, root |-> root, selected |-> TRUE, answers |-> source, inserter |-> inserter]
Visible(i) == i \in DOMAIN messages /\ messages[i].inserter = Nobody /\ messages[i].role # "gone"
Holders == {messages[i].inserter : i \in DOMAIN messages} \ {Nobody}   \* of the shared lock
ChatAt(q, step) == chatReq[q].next = step
ChatGoto(q, request) == chatReq' = [chatReq EXCEPT ![q] = request]
MayInsert == Len(messages) < MaxMessages

\* An answer and what was regenerated from it.
GroupOf(root) == {i \in DOMAIN messages : Visible(i) /\ (i = root \/ messages[i].root = root)}
RootOf(i) == IF messages[i].root = 0 THEN i ELSE messages[i].root

-----------------------------------------------------------------------------

CreateConversation == opened' = TRUE /\ UNCHANGED <<messages, chatReq>>

\* createConversationMessageV033Hotfix inserts the question, ...
SendQuestion(q) ==
  /\ opened /\ ChatAt(q, "idle") /\ MayInsert
  /\ messages' = Append(messages, Row("user", 0, 0, q))
  /\ ChatGoto(q, [IdleChat EXCEPT !.next = "answer", !.source = Len(messages) + 1])
  /\ UNCHANGED opened

\* ... the answer, ...
SendAnswer(q) ==
  /\ ChatAt(q, "answer") /\ MayInsert
  /\ messages' = Append(messages, Row("assistant", 0, chatReq[q].source, q))
  /\ ChatGoto(q, [chatReq[q] EXCEPT !.next = "commit"])
  /\ UNCHANGED opened

Finish(q, row) == IF row.inserter = q THEN [row EXCEPT !.inserter = Nobody] ELSE row
Undo(q, row) == IF row.inserter = q THEN [row EXCEPT !.inserter = Nobody, !.role = "gone"] ELSE row

\* ... and updates the conversation, as soon as no other transaction has its lock.
CommitMessage(q) ==
  /\ ChatAt(q, "commit") /\ Holders = {q}
  /\ messages' = [i \in DOMAIN messages |-> Finish(q, messages[i])]
  /\ ChatGoto(q, IdleChat) /\ UNCHANGED opened

\* A refused statement, a deadlock or a crash.
RollBackMessage(q) ==
  /\ chatReq[q].next \in {"answer", "commit"}
  /\ messages' = [i \in DOMAIN messages |-> Undo(q, messages[i])]
  /\ ChatGoto(q, IdleChat) /\ UNCHANGED opened

\* The newest question before message i.
Source(i) ==
  LET questions == {j \in 1..i - 1 : Visible(j) /\ messages[j].role = "user"}
  IN IF questions = {} THEN 0 ELSE CHOOSE j \in questions : \A k \in questions : k <= j

\* regenerateWorkspaceMessageV033Hotfix reads the question and the root (if that
\* SELECT is refused the root is 0, and the INSERT is refused too), ...
StartRegenerate(q) == \E i \in DOMAIN messages :
  /\ ChatAt(q, "idle")
  /\ Visible(i) /\ messages[i].role = "assistant" /\ Source(i) # 0
  /\ ChatGoto(q, [next |-> "regenerate", message |-> i, root |-> RootOf(i), source |-> Source(i)])
  /\ UNCHANGED <<opened, messages>>

Unselected_RootOnly(root) == {root}
Unselected(root) == GroupOf(root)

\* ... and in a transaction takes the selection from the group and gives it to
\* a new candidate.  Two of them wait for each other on the rows of the group.
Regenerate(q) ==
  LET root == chatReq[q].root
      others == [i \in DOMAIN messages |->
        IF i \in Unselected(root) THEN [messages[i] EXCEPT !.selected = FALSE] ELSE messages[i]]
  IN /\ ChatAt(q, "regenerate") /\ MayInsert
     /\ messages' = Append(others, Row("assistant", root, chatReq[q].source, Nobody))
     /\ ChatGoto(q, IdleChat) /\ UNCHANGED opened

RegenerateFails(q) ==
  /\ ChatAt(q, "regenerate") /\ ChatGoto(q, IdleChat) /\ UNCHANGED <<opened, messages>>

\* selectWorkspaceMessageCandidateV033Hotfix: one UPDATE of the group.
SelectCandidate == \E i \in DOMAIN messages :
  /\ Visible(i) /\ messages[i].role = "assistant"
  /\ messages' = [j \in DOMAIN messages |->
       IF j \in GroupOf(RootOf(i)) THEN [messages[j] EXCEPT !.selected = (j = i)] ELSE messages[j]]
  /\ UNCHANGED <<opened, chatReq>>

ConversationsNext ==
  \/ CreateConversation
  \/ \E q \in ChatRequests :
       \/ SendQuestion(q) \/ SendAnswer(q) \/ CommitMessage(q) \/ RollBackMessage(q)
       \/ StartRegenerate(q) \/ Regenerate(q) \/ RegenerateFails(q)
  \/ SelectCandidate

ConversationsSpec == ConversationsInit /\ [][ConversationsNext]_chatVars
=============================================================================
