-------------------------- MODULE ConversationsProofs --------------------------
(***************************************************************************)
(* Of an answer and its candidates exactly one is in the context, whatever *)
(* requests overlap.                                                       *)
(***************************************************************************)
EXTENDS MCOperations, NaturalsInduction, FiniteSetTheorems, TLAPS

\* No question of another committed transaction, and none of owner, lies between
\* rows k and n.
Alone(k, n, owner) == \A j \in DOMAIN messages :
  k < j /\ j < n /\ messages[j].role = "user" =>
    messages[j].inserter # Nobody /\ messages[j].inserter # owner /\ owner # Nobody

IsQuestion(i) == i \in DOMAIN messages /\ messages[i].role = "user"
IsAnswer(i) == i \in DOMAIN messages /\ messages[i].role = "assistant" /\ messages[i].root = 0

\* A transaction that has not committed holds the question it began with.
QuestionHeld == \A q \in ChatRequests : chatReq[q].next \in {"answer", "commit"} =>
  /\ IsQuestion(chatReq[q].source) /\ messages[chatReq[q].source].inserter = q
  /\ chatReq[q].next = "answer" => Alone(chatReq[q].source, Len(messages) + 1, q)

\* It holds no row but this question and, before it commits, the answer.
RowsHeld == \A i \in DOMAIN messages : LET q == messages[i].inserter IN q # Nobody =>
  /\ \/ chatReq[q].next = "answer" /\ i = chatReq[q].source
     \/ chatReq[q].next = "commit" /\ (i = chatReq[q].source \/ IsAnswer(i))
  /\ messages[i].role # "gone" /\ messages[i].selected

\* An answer repeats the newest question before it that is not gone, unless
\* transactions overlap that cannot both commit.
AnswersNewest == \A i \in DOMAIN messages : IsAnswer(i) =>
  LET k == messages[i].answers IN
  /\ IsQuestion(k) /\ messages[k].inserter = messages[i].inserter
  /\ Alone(k, i, messages[i].inserter)

\* A candidate belongs to an answer that can be seen.
CandidatesOfAnswers == \A i \in DOMAIN messages :
  messages[i].role # "gone" /\ messages[i].root # 0 =>
    /\ messages[i].role = "assistant" /\ messages[i].inserter = Nobody
    /\ IsAnswer(messages[i].root) /\ Visible(messages[i].root)
    /\ IsQuestion(messages[i].answers) /\ Visible(messages[i].answers)
    /\ i \notin indirect => messages[i].answers = messages[messages[i].root].answers

\* What a regeneration has read stays true.
RegeneratesAnswer == \A q \in ChatRequests : chatReq[q].next = "regenerate" =>
  /\ IsAnswer(chatReq[q].root) /\ Visible(chatReq[q].root)
  /\ IsQuestion(chatReq[q].source) /\ Visible(chatReq[q].source)
  /\ chatReq[q].message = chatReq[q].root =>
       chatReq[q].source = messages[chatReq[q].root].answers

\* Member s alone of its group is in the context.
OnlySelected(s, group) ==
  s \in group /\ messages[s].selected /\ \A j \in group : messages[j].selected => j = s
OneSelected == \A i \in DOMAIN messages : IsAnswer(i) /\ Visible(i) =>
  \E s \in GroupOf(i) : OnlySelected(s, GroupOf(i))

ChatInv ==
  /\ ConversationsTypeOK /\ QuestionHeld /\ RowsHeld /\ AnswersNewest
  /\ CandidatesOfAnswers /\ RegeneratesAnswer /\ OneSelected

-----------------------------------------------------------------------------
(* Rows and requests.                                                        *)

LEMMA RowFields ==
  ASSUME ConversationsTypeOK
  PROVE  /\ Len(messages) \in Nat /\ DOMAIN messages = 1..Len(messages)
         /\ \A i \in DOMAIN messages :
              /\ messages[i] \in Message
              /\ messages[i].root \in Nat /\ messages[i].answers \in Nat
              /\ messages[i].answers < i /\ messages[i].root < i
              /\ messages[i].inserter \in ChatRequests \cup {Nobody}
         /\ \A q \in ChatRequests : chatReq[q] \in ChatRequest
<1> USE DEF ConversationsTypeOK
<1>1. Len(messages) \in Nat /\ DOMAIN messages = 1..Len(messages)
  OBVIOUS
<1>2. ASSUME NEW i \in DOMAIN messages PROVE messages[i] \in Message
  BY <1>1
<1> QED
  BY <1>1, <1>2 DEF Message, Ids

LEMMA AppendEffect ==
  ASSUME ConversationsTypeOK, MayInsert, NEW row \in Message,
         messages' = Append(messages, row),
         row.answers <= Len(messages), row.root <= Len(messages)
  PROVE  /\ Len(messages)' = Len(messages) + 1
         /\ DOMAIN messages' = 1..Len(messages) + 1
         /\ \A i \in DOMAIN messages : i \in DOMAIN messages' /\ messages'[i] = messages[i]
         /\ Len(messages) + 1 \in DOMAIN messages' /\ messages'[Len(messages) + 1] = row
         /\ messages' \in Seq(Message) /\ Len(messages') <= MaxMessages
         /\ \A i \in DOMAIN messages' : messages'[i].answers < i /\ messages'[i].root < i
<1> USE ChatBounds DEF ConversationsTypeOK, MayInsert
<1>1. /\ messages' \in Seq(Message) /\ Len(messages') = Len(messages) + 1
      /\ messages'[Len(messages) + 1] = row
      /\ \A i \in 1..Len(messages) : messages'[i] = messages[i]
  OBVIOUS
<1>2. row.answers \in Nat /\ row.root \in Nat
  BY DEF Message, Ids
<1> QED
  BY <1>1, <1>2

\* An UPDATE of some of the rows.
LEMMA UpdateEffect ==
  ASSUME ConversationsTypeOK, NEW f, messages' = [i \in DOMAIN messages |-> f[i]],
         \A i \in DOMAIN messages :
           f[i] \in Message /\ f[i].answers = messages[i].answers /\ f[i].root = messages[i].root
  PROVE  /\ Len(messages)' = Len(messages) /\ DOMAIN messages' = DOMAIN messages
         /\ \A i \in DOMAIN messages : messages'[i] = f[i]
         /\ messages' \in Seq(Message) /\ Len(messages') <= MaxMessages
         /\ \A i \in DOMAIN messages' : messages'[i].answers < i /\ messages'[i].root < i
<1> USE DEF ConversationsTypeOK
<1>1. DOMAIN messages = 1..Len(messages) /\ Len(messages) \in Nat
  OBVIOUS
<1>2. messages' = [i \in 1..Len(messages) |-> f[i]]
  BY <1>1
<1>3. messages' \in [1..Len(messages) -> Message]
  BY <1>1, <1>2
<1>4. messages' \in Seq(Message)
  BY <1>1, <1>3
<1>5. Len(messages') = Len(messages)
  BY <1>1, <1>2, <1>4
<1> QED
  BY <1>1, <1>2, <1>4, <1>5

\* Rows are numbered from 1.
LEMMA NumbersPositive ==
  ASSUME ConversationsTypeOK, NEW i \in DOMAIN messages
  PROVE  i \in Nat /\ i > 0 /\ i <= Len(messages)
BY RowFields

\* Rows that are added and cannot be seen leave the rest as it is.
LEMMA RowsKept ==
  ASSUME ConversationsTypeOK, ConversationsTypeOK',
         \A i \in DOMAIN messages : i \in DOMAIN messages' /\ messages'[i] = messages[i],
         \A i \in DOMAIN messages' \ DOMAIN messages : ~Visible(i)'
  PROVE  /\ \A i \in DOMAIN messages' : Visible(i)' <=> Visible(i)
         /\ \A i \in DOMAIN messages :
              /\ IsQuestion(i)' <=> IsQuestion(i)
              /\ IsAnswer(i)' <=> IsAnswer(i)
              /\ GroupOf(i)' = GroupOf(i)
BY DEF Visible, IsQuestion, IsAnswer, GroupOf

\* A set of rows has a newest one.
LEMMA NewestRow ==
  ASSUME NEW n \in Nat, NEW S, S \subseteq 1..n, S # {}
  PROVE  \E x \in S : \A y \in S : y <= x
<1> DEFINE R == OpToRel(<, Nat)
           bounds == {m \in Nat : \A y \in S : y <= m}
<1>1. IsWellFoundedOn(R, Nat)
  BY NatLessThanWellFounded
<1>2. bounds \subseteq Nat /\ n \in bounds
  OBVIOUS
<1>3. PICK x \in bounds : \A y \in bounds : ~ (<<y, x>> \in R)
  <2> HIDE DEF R, bounds
  <2> QED BY <1>1, <1>2, WFMin
<1>4. \A y \in bounds : ~ (y < x)
  BY <1>3 DEF OpToRel
<1>5. x \in Nat /\ \A y \in S : y <= x
  OBVIOUS
<1>6. x \in S
  <2> SUFFICES ASSUME x \notin S PROVE FALSE
    OBVIOUS
  <2>1. PICK y \in S : y \in 1..n
    OBVIOUS
  <2>2. \A z \in S : z \in Nat /\ z <= x - 1
    BY <1>5
  <2>3. x - 1 \in bounds
    BY <1>5, <2>1, <2>2
  <2> QED BY <1>4, <1>5, <2>3
<1> QED BY <1>5, <1>6

LEMMA SourceNewest ==
  ASSUME ConversationsTypeOK, NEW i \in DOMAIN messages, Source(i) # 0
  PROVE  /\ Source(i) \in 1..i - 1 /\ IsQuestion(Source(i)) /\ Visible(Source(i))
         /\ \A j \in 1..i - 1 : Visible(j) /\ messages[j].role = "user" => j <= Source(i)
<1> DEFINE questions == {j \in 1..i - 1 : Visible(j) /\ messages[j].role = "user"}
           newest == CHOOSE j \in questions : \A k \in questions : k <= j
<1>1. questions # {} /\ Source(i) = newest
  BY DEF Source
<1>2. i - 1 \in Nat /\ questions \subseteq 1..i - 1
  BY NumbersPositive
<1>3. \E j \in questions : \A k \in questions : k <= j
  <2> HIDE DEF questions
  <2> QED BY <1>1, <1>2, NewestRow
<1>4. newest \in questions /\ \A k \in questions : k <= newest
  BY <1>3
<1> QED
  BY <1>1, <1>4 DEF IsQuestion, Visible

\* A message that can be seen belongs to an answer that can be seen.
LEMMA RootAnswers ==
  ASSUME ConversationsTypeOK, CandidatesOfAnswers, NEW i \in DOMAIN messages,
         Visible(i), messages[i].role = "assistant"
  PROVE  /\ IsAnswer(RootOf(i)) /\ Visible(RootOf(i)) /\ i \in GroupOf(RootOf(i))
         /\ RootOf(i) = i => messages[i].root = 0
<1>1. messages[i].root < i /\ i > 0
  BY RowFields, NumbersPositive
<1> QED
  BY <1>1 DEF RootOf, GroupOf, CandidatesOfAnswers, IsAnswer, Visible

LEMMA InitChat == ConversationsInit /\ indirect = {} => ChatInv
<1> SUFFICES ASSUME ConversationsInit PROVE ChatInv
  OBVIOUS
<1>1. messages = <<>> /\ DOMAIN messages = {}
  BY DEF ConversationsInit
<1>2. \A q \in ChatRequests : chatReq[q].next = "idle"
  BY DEF ConversationsInit, IdleChat
<1>3. ConversationsTypeOK
  <2>1. messages \in Seq(Message) /\ Len(messages) = 0
    BY <1>1
  <2>2. IdleChat \in ChatRequest
    BY DEF IdleChat, ChatRequest
  <2>3. chatReq \in [ChatRequests -> ChatRequest] /\ opened \in BOOLEAN
    BY <2>2 DEF ConversationsInit
  <2>4. Len(messages) <= MaxMessages
    BY <2>1, ChatBounds
  <2>5. \A i \in DOMAIN messages : messages[i].answers < i /\ messages[i].root < i
    BY <1>1
  <2> QED
    BY <2>1, <2>3, <2>4, <2>5 DEF ConversationsTypeOK
<1> QED
  BY <1>1, <1>2, <1>3 DEF ChatInv, QuestionHeld, RowsHeld, AnswersNewest,
                          CandidatesOfAnswers, RegeneratesAnswer, OneSelected

-----------------------------------------------------------------------------
(* One lemma for each action.                                                *)

LEMMA SendQuestionKeeps ==
  ASSUME ChatInv, NEW q \in ChatRequests, SendQuestion(q), indirect \subseteq indirect'
  PROVE  ChatInv'
<1> USE DEF ChatInv
<1> PICK n : n = Len(messages) + 1
  OBVIOUS
<1> PICK row : row = Row("user", 0, 0, q)
  OBVIOUS
<1>0. q # Nobody
  BY ChatBounds
<1>1. row \in Message /\ row.answers = 0 /\ row.root = 0 /\ row.role = "user"
      /\ row.inserter = q /\ row.selected
  BY DEF Row, Message
<1>2. /\ n \in Nat /\ n > 0 /\ n <= MaxMessages
      /\ Len(messages) = n - 1 /\ Len(messages') = n
      /\ DOMAIN messages = 1..n - 1 /\ DOMAIN messages' = 1..n
      /\ \A i \in 1..n - 1 : i \in 1..n /\ messages'[i] = messages[i]
      /\ messages'[n] = row
      /\ messages' \in Seq(Message) /\ Len(messages') <= MaxMessages
      /\ \A i \in DOMAIN messages' : messages'[i].answers < i /\ messages'[i].root < i
  BY <1>1, AppendEffect, RowFields DEF SendQuestion, MayInsert
<1>3. \A i \in 1..n : i \in 1..n - 1 \/ i = n
  BY <1>2
<1>4. /\ chatReq'[q].next = "answer" /\ chatReq'[q].source = n
      /\ chatReq[q].next = "idle"
      /\ \A r \in ChatRequests : r # q => chatReq'[r] = chatReq[r]
      /\ chatReq' \in [ChatRequests -> ChatRequest]
  <2>1. n \in Ids
    BY <1>2, ChatBounds DEF Ids
  <2> QED
    BY <2>1, RowFields DEF SendQuestion, ChatAt, ChatGoto, ConversationsTypeOK, IdleChat, ChatRequest
<1>5. ConversationsTypeOK'
  BY <1>2, <1>4 DEF ConversationsTypeOK, SendQuestion
<1>6. ~Visible(n)'
  BY <1>0, <1>1, <1>2 DEF Visible
<1>7. /\ \A i \in 1..n : Visible(i)' <=> Visible(i)
      /\ \A i \in 1..n - 1 :
           /\ IsQuestion(i)' <=> IsQuestion(i)
           /\ IsAnswer(i)' <=> IsAnswer(i)
           /\ GroupOf(i)' = GroupOf(i)
  BY <1>2, <1>3, <1>5, <1>6, RowsKept
<1>8. QuestionHeld'
  <2> SUFFICES ASSUME NEW r \in ChatRequests, chatReq'[r].next \in {"answer", "commit"},
                      NEW k, k = chatReq'[r].source
               PROVE  /\ IsQuestion(k)' /\ messages'[k].inserter = r
                      /\ chatReq'[r].next = "answer" => Alone(k, Len(messages) + 1, r)'
    BY DEF QuestionHeld
  <2>1. CASE r = q
    <3>1. k = n /\ Len(messages') = n /\ n \in Nat
      BY <2>1, <1>2, <1>4
    <3>2. Alone(k, Len(messages) + 1, r)'
      BY <3>1, <1>2 DEF Alone
    <3> QED BY <3>1, <3>2, <2>1, <1>1, <1>2 DEF IsQuestion
  <2>2. CASE r # q
    <3>1. IsQuestion(k) /\ messages[k].inserter = r /\ k \in 1..n - 1
          /\ (chatReq[r].next = "answer" => Alone(k, Len(messages) + 1, r))
      BY <2>2, <1>2, <1>4 DEF QuestionHeld, IsQuestion
    <3>2. ASSUME chatReq'[r].next = "answer" PROVE Alone(k, Len(messages) + 1, r)'
      <4>1. Alone(k, n, r) /\ r # Nobody
        BY <3>1, <3>2, <2>2, <1>2, <1>4, ChatBounds
      <4> SUFFICES ASSUME NEW j \in 1..n, k < j, messages'[j].role = "user"
                   PROVE  messages'[j].inserter # Nobody /\ messages'[j].inserter # r
        BY <4>1, <1>2 DEF Alone
      <4>2. CASE j = n
        BY <4>2, <2>2, <1>0, <1>1, <1>2
      <4>3. CASE j # n
        <5>1. j \in 1..n - 1 /\ j < n /\ messages'[j] = messages[j]
          BY <4>3, <1>2
        <5> QED BY <5>1, <4>1, <1>2 DEF Alone
      <4> QED BY <4>2, <4>3
    <3> QED BY <3>1, <3>2, <1>2, <1>7
  <2> QED BY <2>1, <2>2
<1>9. RowsHeld'
  <2> SUFFICES ASSUME NEW i \in 1..n, NEW r, r = messages'[i].inserter, r # Nobody
               PROVE  /\ \/ chatReq'[r].next = "answer" /\ i = chatReq'[r].source
                         \/ chatReq'[r].next = "commit" /\ (i = chatReq'[r].source \/ IsAnswer(i)')
                      /\ messages'[i].role # "gone" /\ messages'[i].selected
    BY <1>2 DEF RowsHeld
  <2>1. CASE i = n
    BY <2>1, <1>1, <1>2, <1>4
  <2>2. CASE i # n
    <3>1. i \in 1..n - 1 /\ messages'[i] = messages[i] /\ r \in ChatRequests
      BY <2>2, <1>2, <1>3, RowFields
    <3>2. r # q
      BY <3>1, <1>2, <1>4 DEF RowsHeld
    <3> QED BY <3>1, <3>2, <1>2, <1>4, <1>7 DEF RowsHeld
  <2> QED BY <2>1, <2>2
<1>10. AnswersNewest'
  <2> SUFFICES ASSUME NEW i \in 1..n, IsAnswer(i)', NEW k, k = messages'[i].answers
               PROVE  /\ IsQuestion(k)' /\ messages'[k].inserter = messages'[i].inserter
                      /\ Alone(k, i, messages[i].inserter)'
    BY <1>2 DEF AnswersNewest
  <2>1. i \in 1..n - 1 /\ messages'[i] = messages[i] /\ IsAnswer(i)
    BY <1>1, <1>2, <1>3, <1>7 DEF IsAnswer
  <2>2. /\ IsQuestion(k) /\ messages[k].inserter = messages[i].inserter /\ k \in 1..n - 1
        /\ Alone(k, i, messages[i].inserter)
    BY <2>1, <1>2 DEF AnswersNewest, IsQuestion
  <2>3. Alone(k, i, messages[i].inserter)'
    BY <2>1, <2>2, <1>2, <1>3 DEF Alone
  <2> QED BY <2>1, <2>2, <2>3, <1>2, <1>7
<1>11. CandidatesOfAnswers'
  BY <1>1, <1>2, <1>3, <1>7 DEF CandidatesOfAnswers, IsAnswer, IsQuestion, Visible
<1>12. RegeneratesAnswer'
  BY <1>2, <1>3, <1>4, <1>7 DEF RegeneratesAnswer, IsAnswer, IsQuestion, Visible
<1>13. OneSelected'
  BY <1>1, <1>2, <1>3, <1>7 DEF OneSelected, OnlySelected, IsAnswer, GroupOf
<1> QED BY <1>5, <1>8, <1>9, <1>10, <1>11, <1>12, <1>13

LEMMA SendAnswerKeeps ==
  ASSUME ChatInv, NEW q \in ChatRequests, SendAnswer(q), indirect \subseteq indirect'
  PROVE  ChatInv'
<1> USE DEF ChatInv
<1> PICK n : n = Len(messages) + 1
  OBVIOUS
<1> PICK source : source = chatReq[q].source
  OBVIOUS
<1> PICK row : row = Row("assistant", 0, source, q)
  OBVIOUS
<1>0. q # Nobody
  BY ChatBounds
<1>1. /\ chatReq[q].next = "answer"
      /\ IsQuestion(source) /\ messages[source].inserter = q /\ Alone(source, n, q)
  BY DEF SendAnswer, ChatAt, QuestionHeld
<1>2. row \in Message /\ row.answers = source /\ row.root = 0 /\ row.role = "assistant"
      /\ row.inserter = q /\ row.selected
  BY RowFields DEF Row, Message, ChatRequest
<1>3. source <= Len(messages) /\ MayInsert
  BY <1>1, RowFields DEF IsQuestion, SendAnswer
<1>4. /\ n \in Nat /\ n > 0 /\ source \in 1..n - 1
      /\ Len(messages) = n - 1 /\ Len(messages') = n
      /\ DOMAIN messages = 1..n - 1 /\ DOMAIN messages' = 1..n
      /\ \A i \in 1..n - 1 : i \in 1..n /\ messages'[i] = messages[i]
      /\ messages'[n] = row
      /\ messages' \in Seq(Message) /\ Len(messages') <= MaxMessages
      /\ \A i \in DOMAIN messages' : messages'[i].answers < i /\ messages'[i].root < i
  BY <1>1, <1>2, <1>3, AppendEffect, RowFields DEF SendAnswer, IsQuestion
<1>5. \A i \in 1..n : i \in 1..n - 1 \/ i = n
  BY <1>4
<1>6. /\ chatReq'[q].next = "commit" /\ chatReq'[q].source = source
      /\ \A r \in ChatRequests : r # q => chatReq'[r] = chatReq[r]
      /\ chatReq' \in [ChatRequests -> ChatRequest]
  BY RowFields DEF SendAnswer, ChatGoto, ConversationsTypeOK, ChatRequest
<1>7. ConversationsTypeOK'
  BY <1>4, <1>6 DEF ConversationsTypeOK, SendAnswer
<1>8. ~Visible(n)'
  BY <1>0, <1>2, <1>4 DEF Visible
<1>9. /\ \A i \in 1..n : Visible(i)' <=> Visible(i)
      /\ \A i \in 1..n - 1 :
           /\ IsQuestion(i)' <=> IsQuestion(i)
           /\ IsAnswer(i)' <=> IsAnswer(i)
           /\ GroupOf(i)' = GroupOf(i)
  BY <1>4, <1>5, <1>7, <1>8, RowsKept
<1>10. QuestionHeld'
  <2> SUFFICES ASSUME NEW r \in ChatRequests, chatReq'[r].next \in {"answer", "commit"},
                      NEW k, k = chatReq'[r].source
               PROVE  /\ IsQuestion(k)' /\ messages'[k].inserter = r
                      /\ chatReq'[r].next = "answer" => Alone(k, Len(messages) + 1, r)'
    BY DEF QuestionHeld
  <2>1. CASE r = q
    BY <2>1, <1>1, <1>4, <1>6, <1>9
  <2>2. CASE r # q
    <3>1. IsQuestion(k) /\ messages[k].inserter = r /\ k \in 1..n - 1
          /\ (chatReq[r].next = "answer" => Alone(k, Len(messages) + 1, r))
      BY <2>2, <1>4, <1>6 DEF QuestionHeld, IsQuestion
    <3>2. ASSUME chatReq'[r].next = "answer" PROVE Alone(k, Len(messages) + 1, r)'
      <4>1. Alone(k, n, r) /\ r # Nobody
        BY <3>1, <3>2, <2>2, <1>4, <1>6, ChatBounds
      <4> SUFFICES ASSUME NEW j \in 1..n, k < j, messages'[j].role = "user"
                   PROVE  messages'[j].inserter # Nobody /\ messages'[j].inserter # r
        BY <4>1, <1>4 DEF Alone
      <4>2. j # n
        BY <1>2, <1>4
      <4>3. j \in 1..n - 1 /\ j < n /\ messages'[j] = messages[j]
        BY <4>2, <1>4
      <4> QED BY <4>1, <4>3, <1>4 DEF Alone
    <3> QED BY <3>1, <3>2, <1>4, <1>9
  <2> QED BY <2>1, <2>2
<1>11. RowsHeld'
  <2> SUFFICES ASSUME NEW i \in 1..n, NEW r, r = messages'[i].inserter, r # Nobody
               PROVE  /\ \/ chatReq'[r].next = "answer" /\ i = chatReq'[r].source
                         \/ chatReq'[r].next = "commit" /\ (i = chatReq'[r].source \/ IsAnswer(i)')
                      /\ messages'[i].role # "gone" /\ messages'[i].selected
    BY <1>4 DEF RowsHeld
  <2>1. CASE i = n
    BY <2>1, <1>2, <1>4, <1>6 DEF IsAnswer
  <2>2. CASE i # n
    <3>1. i \in 1..n - 1 /\ messages'[i] = messages[i] /\ r \in ChatRequests
      BY <2>2, <1>4, <1>5, RowFields
    <3>2. CASE r = q
      BY <3>1, <3>2, <1>1, <1>4, <1>6 DEF RowsHeld
    <3>3. CASE r # q
      BY <3>1, <3>3, <1>4, <1>6, <1>9 DEF RowsHeld
    <3> QED BY <3>2, <3>3
  <2> QED BY <2>1, <2>2
<1>12. AnswersNewest'
  <2> SUFFICES ASSUME NEW i \in 1..n, IsAnswer(i)', NEW k, k = messages'[i].answers
               PROVE  /\ IsQuestion(k)' /\ messages'[k].inserter = messages'[i].inserter
                      /\ Alone(k, i, messages[i].inserter)'
    BY <1>4 DEF AnswersNewest
  <2>1. IsQuestion(k) /\ messages[k].inserter = messages'[i].inserter /\ k \in 1..n - 1
    BY <1>1, <1>2, <1>4, <1>5, <1>9 DEF AnswersNewest, IsQuestion
  <2>2. Alone(k, i, messages[i].inserter)'
    <3>1. Alone(k, i, messages'[i].inserter)
      BY <1>1, <1>2, <1>4, <1>5, <1>9 DEF AnswersNewest
    <3> SUFFICES ASSUME NEW j \in 1..n, k < j, j < i, messages'[j].role = "user"
                 PROVE  /\ messages'[j].inserter # Nobody
                        /\ messages'[j].inserter # messages'[i].inserter
                        /\ messages'[i].inserter # Nobody
      BY <1>4 DEF Alone
    <3>2. j \in 1..n - 1 /\ messages'[j] = messages[j]
      BY <1>4
    <3> QED BY <3>1, <3>2, <1>4 DEF Alone
  <2> QED BY <2>1, <2>2, <1>4, <1>9
<1>13. CandidatesOfAnswers'
  BY <1>2, <1>4, <1>5, <1>9 DEF CandidatesOfAnswers, IsAnswer, IsQuestion, Visible
<1>14. RegeneratesAnswer'
  BY <1>4, <1>5, <1>6, <1>9 DEF RegeneratesAnswer, IsAnswer, IsQuestion, Visible
<1>15. OneSelected'
  <2> SUFFICES ASSUME NEW i \in 1..n, IsAnswer(i)', Visible(i)'
               PROVE  \E s \in GroupOf(i)' : OnlySelected(s, GroupOf(i))'
    BY <1>4 DEF OneSelected
  <2>1. i \in 1..n - 1 /\ IsAnswer(i) /\ Visible(i) /\ GroupOf(i)' = GroupOf(i)
    BY <1>5, <1>8, <1>9
  <2> QED BY <2>1, <1>4 DEF OneSelected, OnlySelected, GroupOf
<1> QED BY <1>7, <1>10, <1>11, <1>12, <1>13, <1>14, <1>15

LEMMA CommitMessageKeeps ==
  ASSUME ChatInv, NEW q \in ChatRequests, CommitMessage(q), indirect \subseteq indirect'
  PROVE  ChatInv'
<1> USE DEF ChatInv
<1> DEFINE f == [i \in DOMAIN messages |-> Finish(q, messages[i])]
<1>0. q # Nobody
  BY ChatBounds
<1>1. /\ chatReq[q].next = "commit" /\ chatReq'[q].next = "idle"
      /\ \A r \in ChatRequests : r # q => chatReq'[r] = chatReq[r]
      /\ chatReq' \in [ChatRequests -> ChatRequest]
  BY DEF CommitMessage, ChatAt, ChatGoto, IdleChat, ConversationsTypeOK, ChatRequest
<1>2. \A i \in DOMAIN messages : messages[i].inserter \in {q, Nobody}
  BY DEF CommitMessage, Holders
<1>3. \A i \in DOMAIN messages :
        /\ f[i] \in Message /\ f[i].inserter = Nobody
        /\ f[i].role = messages[i].role /\ f[i].root = messages[i].root
        /\ f[i].answers = messages[i].answers /\ f[i].selected = messages[i].selected
  BY <1>2, RowFields DEF Finish, Message
<1>4. messages' = [i \in DOMAIN messages |-> f[i]]
  BY DEF CommitMessage
<1>5. /\ DOMAIN messages' = DOMAIN messages /\ DOMAIN messages = 1..Len(messages)
      /\ Len(messages)' = Len(messages)
      /\ messages' \in Seq(Message) /\ Len(messages') <= MaxMessages
      /\ \A i \in DOMAIN messages' : messages'[i].answers < i /\ messages'[i].root < i
  <2> HIDE DEF f
  <2> QED BY <1>3, <1>4, UpdateEffect, RowFields
<1>6. \A i \in DOMAIN messages :
        /\ messages'[i].inserter = Nobody
        /\ messages'[i].role = messages[i].role /\ messages'[i].root = messages[i].root
        /\ messages'[i].answers = messages[i].answers
        /\ messages'[i].selected = messages[i].selected
  BY <1>3, <1>4
<1> HIDE DEF f
<1>7. ConversationsTypeOK'
  BY <1>1, <1>5 DEF ConversationsTypeOK, CommitMessage
<1>8. \A i \in DOMAIN messages :
        /\ IsQuestion(i)' <=> IsQuestion(i)
        /\ IsAnswer(i)' <=> IsAnswer(i)
        /\ Visible(i)' <=> messages[i].role # "gone"
  BY <1>5, <1>6 DEF IsQuestion, IsAnswer, Visible
<1>9. QuestionHeld'
  BY <1>0, <1>1, <1>2, ChatBounds DEF QuestionHeld, IsQuestion
<1>10. RowsHeld'
  BY <1>5, <1>6 DEF RowsHeld
<1>11. AnswersNewest'
  <2> SUFFICES ASSUME NEW i \in DOMAIN messages, IsAnswer(i), NEW k, k = messages[i].answers
               PROVE  /\ IsQuestion(k)' /\ messages'[k].inserter = messages'[i].inserter
                      /\ Alone(k, i, messages[i].inserter)'
    BY <1>5, <1>6, <1>8 DEF AnswersNewest
  <2>1. IsQuestion(k) /\ k \in DOMAIN messages /\ Alone(k, i, messages[i].inserter)
    BY DEF AnswersNewest, IsQuestion
  <2>2. \A j \in DOMAIN messages : ~(k < j /\ j < i /\ messages[j].role = "user")
    BY <2>1, <1>2 DEF Alone
  <2> QED BY <2>1, <2>2, <1>5, <1>6, <1>8 DEF Alone
<1>12. CandidatesOfAnswers'
  BY <1>5, <1>6, <1>8 DEF CandidatesOfAnswers, IsAnswer, IsQuestion, Visible
<1>13. RegeneratesAnswer'
  BY <1>1, <1>5, <1>6, <1>8 DEF RegeneratesAnswer, IsAnswer, IsQuestion, Visible
<1>14. OneSelected'
  <2> SUFFICES ASSUME NEW i \in DOMAIN messages, IsAnswer(i)
               PROVE  \E s \in GroupOf(i)' : OnlySelected(s, GroupOf(i))'
    BY <1>5, <1>8 DEF OneSelected
  <2>0. messages[i].role = "assistant" /\ messages[i].root = 0 /\ i > 0
    BY NumbersPositive DEF IsAnswer
  <2>1. CASE messages[i].inserter = Nobody
    <3>1. \A j \in DOMAIN messages : messages[j].root = i /\ messages[j].role # "gone" => Visible(j)
      BY <2>0 DEF CandidatesOfAnswers, Visible
    <3>2. GroupOf(i)' = GroupOf(i) /\ Visible(i) /\ GroupOf(i) \subseteq DOMAIN messages
      BY <2>0, <2>1, <3>1, <1>5, <1>6, <1>8 DEF GroupOf, Visible
    <3> QED BY <3>2, <1>6 DEF OneSelected, OnlySelected
  <2>2. CASE messages[i].inserter # Nobody
    <3>1. \A j \in DOMAIN messages : messages[j].root = i => messages[j].role = "gone"
      BY <2>0, <2>2 DEF CandidatesOfAnswers, Visible
    <3>2. GroupOf(i)' = {i}
      BY <2>0, <3>1, <1>5, <1>6, <1>8 DEF GroupOf
    <3>3. messages'[i].selected
      BY <2>2, <1>6 DEF RowsHeld
    <3> QED BY <3>2, <3>3 DEF OnlySelected
  <2> QED BY <2>1, <2>2
<1> QED BY <1>7, <1>9, <1>10, <1>11, <1>12, <1>13, <1>14

LEMMA RollBackMessageKeeps ==
  ASSUME ChatInv, NEW q \in ChatRequests, RollBackMessage(q), indirect \subseteq indirect'
  PROVE  ChatInv'
<1> USE DEF ChatInv
<1> DEFINE f == [i \in DOMAIN messages |-> Undo(q, messages[i])]
<1>0. q # Nobody
  BY ChatBounds
<1>1. /\ chatReq[q].next \in {"answer", "commit"} /\ chatReq'[q].next = "idle"
      /\ \A r \in ChatRequests : r # q => chatReq'[r] = chatReq[r]
      /\ chatReq' \in [ChatRequests -> ChatRequest]
  BY DEF RollBackMessage, ChatGoto, IdleChat, ConversationsTypeOK, ChatRequest
<1>2. \A i \in DOMAIN messages :
        /\ f[i] \in Message
        /\ f[i].answers = messages[i].answers /\ f[i].root = messages[i].root
        /\ messages[i].inserter # q => f[i] = messages[i]
        /\ messages[i].inserter = q => f[i].role = "gone" /\ f[i].inserter = Nobody
  BY RowFields DEF Undo, Message
<1>3. messages' = [i \in DOMAIN messages |-> f[i]]
  BY DEF RollBackMessage
<1>4. /\ DOMAIN messages' = DOMAIN messages /\ Len(messages)' = Len(messages)
      /\ messages' \in Seq(Message) /\ Len(messages') <= MaxMessages
      /\ \A i \in DOMAIN messages' : messages'[i].answers < i /\ messages'[i].root < i
  <2> HIDE DEF f
  <2> QED BY <1>2, <1>3, UpdateEffect, RowFields
<1>5. \A i \in DOMAIN messages :
        /\ messages[i].inserter # q => messages'[i] = messages[i]
        /\ messages[i].inserter = q => messages'[i].role = "gone" /\ messages'[i].inserter = Nobody
  BY <1>2, <1>3
<1> HIDE DEF f
<1>6. ConversationsTypeOK'
  BY <1>1, <1>4 DEF ConversationsTypeOK, RollBackMessage
<1>7. \A i \in DOMAIN messages :
        /\ IsQuestion(i)' <=> IsQuestion(i) /\ messages[i].inserter # q
        /\ IsAnswer(i)' <=> IsAnswer(i) /\ messages[i].inserter # q
        /\ Visible(i)' <=> Visible(i)
  BY <1>0, <1>4, <1>5 DEF IsQuestion, IsAnswer, Visible
<1>8. \A k, i, owner : owner # q /\ Alone(k, i, owner) => \A j \in DOMAIN messages' :
        k < j /\ j < i /\ messages'[j].role = "user" =>
          messages'[j].inserter # Nobody /\ messages'[j].inserter # owner /\ owner # Nobody
  BY <1>4, <1>5 DEF Alone
<1>9. QuestionHeld'
  <2> SUFFICES ASSUME NEW r \in ChatRequests, chatReq'[r].next \in {"answer", "commit"},
                      NEW k, k = chatReq'[r].source
               PROVE  /\ IsQuestion(k)' /\ messages'[k].inserter = r
                      /\ chatReq'[r].next = "answer" => Alone(k, Len(messages) + 1, r)'
    BY DEF QuestionHeld
  <2>1. /\ r # q /\ IsQuestion(k) /\ messages[k].inserter = r /\ k \in DOMAIN messages
        /\ chatReq'[r].next = "answer" => Alone(k, Len(messages) + 1, r)
    BY <1>1 DEF QuestionHeld, IsQuestion
  <2> QED BY <2>1, <1>4, <1>5, <1>7, <1>8 DEF Alone
<1>10. RowsHeld'
  <2> SUFFICES ASSUME NEW i \in DOMAIN messages, NEW r, r = messages'[i].inserter, r # Nobody
               PROVE  /\ \/ chatReq'[r].next = "answer" /\ i = chatReq'[r].source
                         \/ chatReq'[r].next = "commit" /\ (i = chatReq'[r].source \/ IsAnswer(i)')
                      /\ messages'[i].role # "gone" /\ messages'[i].selected
    BY <1>4 DEF RowsHeld
  <2>1. messages'[i] = messages[i] /\ r # q /\ r \in ChatRequests
    BY <1>5, RowFields
  <2> QED BY <2>1, <1>1, <1>7 DEF RowsHeld
<1>11. AnswersNewest'
  <2> SUFFICES ASSUME NEW i \in DOMAIN messages, IsAnswer(i), messages[i].inserter # q,
                      NEW k, k = messages[i].answers
               PROVE  /\ IsQuestion(k)' /\ messages'[k].inserter = messages'[i].inserter
                      /\ Alone(k, i, messages[i].inserter)'
    BY <1>4, <1>5, <1>7 DEF AnswersNewest
  <2>1. /\ IsQuestion(k) /\ k \in DOMAIN messages /\ messages[k].inserter = messages[i].inserter
        /\ Alone(k, i, messages[i].inserter)
    BY DEF AnswersNewest, IsQuestion
  <2>2. messages'[i] = messages[i] /\ messages'[k] = messages[k] /\ IsQuestion(k)'
    BY <2>1, <1>5, <1>7
  <2>3. Alone(k, i, messages'[i].inserter)
    BY <2>1, <2>2
  <2>4. \A j \in DOMAIN messages' :
          k < j /\ j < i /\ messages'[j].role = "user" =>
            /\ messages'[j].inserter # Nobody
            /\ messages'[j].inserter # messages'[i].inserter /\ messages'[i].inserter # Nobody
    BY <2>2, <2>3, <1>8
  <2>5. Alone(k, i, messages[i].inserter)'
    BY <2>4 DEF Alone
  <2> QED BY <2>1, <2>2, <2>5
<1>12. CandidatesOfAnswers'
  BY <1>4, <1>5, <1>7 DEF CandidatesOfAnswers, IsAnswer, IsQuestion, Visible
<1>13. RegeneratesAnswer'
  BY <1>0, <1>1, <1>4, <1>5, <1>7 DEF RegeneratesAnswer, IsAnswer, IsQuestion, Visible
<1>14. OneSelected'
  <2> SUFFICES ASSUME NEW i \in DOMAIN messages, IsAnswer(i), Visible(i)
               PROVE  \E s \in GroupOf(i)' : OnlySelected(s, GroupOf(i))'
    BY <1>4, <1>7 DEF OneSelected
  <2>1. \A j \in DOMAIN messages : Visible(j) => messages'[j] = messages[j]
    BY <1>0, <1>5 DEF Visible
  <2>2. GroupOf(i)' = GroupOf(i)
    BY <2>1, <1>4, <1>7 DEF GroupOf
  <2>3. \A j \in GroupOf(i) : messages'[j] = messages[j]
    BY <2>1 DEF GroupOf
  <2> QED BY <2>2, <2>3 DEF OneSelected, OnlySelected
<1> QED BY <1>6, <1>9, <1>10, <1>11, <1>12, <1>13, <1>14

\* Steps that leave the rows alone, and every request but one that holds none.
LEMMA RequestKeeps ==
  ASSUME ChatInv, NEW q \in ChatRequests, UNCHANGED <<opened, messages>>,
         indirect \subseteq indirect',
         chatReq[q].next \in {"idle", "regenerate"}, chatReq'[q].next \in {"idle", "regenerate"},
         \A r \in ChatRequests : r # q => chatReq'[r] = chatReq[r],
         chatReq' \in [ChatRequests -> ChatRequest],
         chatReq'[q].next = "regenerate" =>
           /\ IsAnswer(chatReq'[q].root) /\ Visible(chatReq'[q].root)
           /\ IsQuestion(chatReq'[q].source) /\ Visible(chatReq'[q].source)
           /\ chatReq'[q].message = chatReq'[q].root =>
                chatReq'[q].source = messages[chatReq'[q].root].answers
  PROVE  ChatInv'
<1> USE DEF ChatInv
<1>1. ConversationsTypeOK'
  BY DEF ConversationsTypeOK
<1>2. QuestionHeld'
  <2> SUFFICES ASSUME NEW r \in ChatRequests, chatReq'[r].next \in {"answer", "commit"},
                      NEW k, k = chatReq'[r].source
               PROVE  /\ IsQuestion(k)' /\ messages'[k].inserter = r
                      /\ chatReq'[r].next = "answer" => Alone(k, Len(messages) + 1, r)'
    BY DEF QuestionHeld
  <2>1. r # q /\ chatReq'[r] = chatReq[r]
    OBVIOUS
  <2> QED BY <2>1 DEF QuestionHeld, IsQuestion, Alone
<1>3. RowsHeld'
  <2> SUFFICES ASSUME NEW i \in DOMAIN messages, NEW r, r = messages[i].inserter, r # Nobody
               PROVE  /\ \/ chatReq'[r].next = "answer" /\ i = chatReq'[r].source
                         \/ chatReq'[r].next = "commit" /\ (i = chatReq'[r].source \/ IsAnswer(i)')
                      /\ messages[i].role # "gone" /\ messages[i].selected
    BY DEF RowsHeld
  <2>1. r # q /\ r \in ChatRequests
    BY RowFields DEF RowsHeld
  <2> QED BY <2>1 DEF RowsHeld, IsAnswer
<1>4. AnswersNewest'
  BY DEF AnswersNewest, IsAnswer, IsQuestion, Alone
<1>5. CandidatesOfAnswers'
  BY DEF CandidatesOfAnswers, IsAnswer, IsQuestion, Visible
<1>6. RegeneratesAnswer'
  BY DEF RegeneratesAnswer, IsAnswer, IsQuestion, Visible
<1>7. OneSelected'
  BY DEF OneSelected, OnlySelected, GroupOf, IsAnswer, Visible
<1> QED BY <1>1, <1>2, <1>3, <1>4, <1>5, <1>6, <1>7

LEMMA StartRegenerateKeeps ==
  ASSUME ChatInv, NEW q \in ChatRequests, StartRegenerate(q), indirect \subseteq indirect'
  PROVE  ChatInv'
<1> USE DEF ChatInv
<1>1. PICK i \in DOMAIN messages :
        /\ Visible(i) /\ messages[i].role = "assistant" /\ Source(i) # 0
        /\ ChatGoto(q, [next |-> "regenerate", message |-> i, root |-> RootOf(i),
                        source |-> Source(i)])
        /\ ChatAt(q, "idle") /\ UNCHANGED <<opened, messages>>
  BY DEF StartRegenerate
<1> DEFINE k == Source(i)
<1>2. /\ k \in 1..i - 1 /\ IsQuestion(k) /\ Visible(k)
      /\ \A j \in 1..i - 1 : Visible(j) /\ messages[j].role = "user" => j <= k
  BY <1>1, SourceNewest
<1>3. IsAnswer(RootOf(i)) /\ Visible(RootOf(i)) /\ (RootOf(i) = i => messages[i].root = 0)
  BY <1>1, RootAnswers
<1>4. i \in Ids /\ k \in Ids /\ RootOf(i) \in Ids
  BY <1>2, <1>3, RowFields, ChatBounds DEF Ids, IsAnswer, ConversationsTypeOK
<1>5. /\ chatReq[q].next = "idle" /\ chatReq'[q].next = "regenerate"
      /\ chatReq'[q].root = RootOf(i) /\ chatReq'[q].source = k /\ chatReq'[q].message = i
      /\ \A r \in ChatRequests : r # q => chatReq'[r] = chatReq[r]
      /\ chatReq' \in [ChatRequests -> ChatRequest]
  BY <1>1, <1>4 DEF ChatAt, ChatGoto, ConversationsTypeOK, ChatRequest
<1>6. ASSUME i = RootOf(i) PROVE k = messages[i].answers
  <2>1. /\ IsAnswer(i) /\ messages[i].inserter = Nobody
        /\ IsQuestion(messages[i].answers) /\ messages[messages[i].answers].inserter = Nobody
        /\ Alone(messages[i].answers, i, Nobody) /\ messages[i].answers < i
    BY <1>1, <1>3, <1>6, RowFields DEF AnswersNewest, Visible
  <2>2. messages[i].answers \in 1..i - 1 /\ Visible(messages[i].answers)
    BY <2>1, RowFields DEF IsQuestion, Visible
  <2>3. messages[i].answers <= k
    BY <2>1, <2>2, <1>2 DEF IsQuestion
  <2>4. ~(messages[i].answers < k)
    <3>1. k \in DOMAIN messages /\ messages[k].role = "user" /\ k < i
      BY <1>2, NumbersPositive DEF IsQuestion
    <3> QED BY <3>1, <2>1 DEF Alone
  <2> QED BY <2>2, <2>3, <2>4, <1>2
<1> HIDE DEF k
<1> QED
  BY <1>1, <1>2, <1>3, <1>5, <1>6, RequestKeeps

LEMMA RegenerateFailsKeeps ==
  ASSUME ChatInv, NEW q \in ChatRequests, RegenerateFails(q), indirect \subseteq indirect'
  PROVE  ChatInv'
<1>1. /\ chatReq[q].next = "regenerate" /\ chatReq'[q].next = "idle"
      /\ \A r \in ChatRequests : r # q => chatReq'[r] = chatReq[r]
      /\ chatReq' \in [ChatRequests -> ChatRequest]
  BY DEF ChatInv, ConversationsTypeOK, RegenerateFails, ChatAt, ChatGoto, IdleChat, ChatRequest
<1> QED
  BY <1>1, RequestKeeps DEF RegenerateFails

LEMMA RegenerateKeeps ==
  ASSUME ChatInv, NEW q \in ChatRequests, Regenerate(q), indirect' = Indirect
  PROVE  ChatInv'
<1> USE DEF ChatInv
<1> PICK n : n = Len(messages) + 1
  OBVIOUS
<1> PICK root, source : root = chatReq[q].root /\ source = chatReq[q].source
  OBVIOUS
<1> PICK row : row = Row("assistant", root, source, Nobody)
  OBVIOUS
<1>1. /\ chatReq[q].next = "regenerate" /\ MayInsert /\ UNCHANGED opened
      /\ IsAnswer(root) /\ Visible(root) /\ IsQuestion(source) /\ Visible(source)
      /\ chatReq[q].message = root => source = messages[root].answers
  BY DEF Regenerate, ChatAt, RegeneratesAnswer
<1>2. root \in DOMAIN messages /\ source \in DOMAIN messages
  BY <1>1 DEF IsAnswer, IsQuestion
<1>3. row \in Message /\ row.answers = source /\ row.root = root /\ row.role = "assistant"
      /\ row.inserter = Nobody /\ row.selected
  BY RowFields DEF Row, Message, ChatRequest
<1> DEFINE f == [i \in DOMAIN messages |->
              IF i \in GroupOf(root) THEN [messages[i] EXCEPT !.selected = FALSE] ELSE messages[i]]
<1>4. messages' = Append(f, row)
  BY DEF Regenerate, Unselected
<1>5. \A i \in DOMAIN messages :
        /\ f[i] \in Message /\ f[i].answers = messages[i].answers /\ f[i].root = messages[i].root
        /\ f[i].role = messages[i].role /\ f[i].inserter = messages[i].inserter
        /\ i \in GroupOf(root) => ~f[i].selected
        /\ i \notin GroupOf(root) => f[i] = messages[i]
  BY RowFields DEF Message
<1>6. /\ n \in Nat /\ n > 0 /\ n <= MaxMessages
      /\ DOMAIN messages = 1..n - 1 /\ Len(messages) = n - 1
      /\ f \in Seq(Message) /\ Len(f) = n - 1
  <2>1. n \in Nat /\ n > 0 /\ DOMAIN messages = 1..n - 1 /\ Len(messages) = n - 1
    BY RowFields
  <2>2. f \in [1..n - 1 -> Message]
    BY <2>1, <1>5
  <2>3. n <= MaxMessages
    BY <2>1, <1>1, ChatBounds DEF MayInsert
  <2> HIDE DEF f
  <2>4. f \in Seq(Message)
    BY <2>1, <2>2
  <2>5. Len(f) = n - 1
    BY <2>1, <2>2, <2>4
  <2> QED BY <2>1, <2>3, <2>4, <2>5
<1> HIDE DEF f
<1>7. /\ DOMAIN messages' = 1..n /\ Len(messages') = n /\ messages' \in Seq(Message)
      /\ messages'[n] = row /\ \A i \in 1..n - 1 : i \in 1..n /\ messages'[i] = f[i]
  BY <1>3, <1>4, <1>6
<1>8. \A i \in 1..n : i \in 1..n - 1 \/ i = n
  BY <1>6
<1>9. /\ chatReq'[q].next = "idle"
      /\ \A r \in ChatRequests : r # q => chatReq'[r] = chatReq[r]
      /\ chatReq' \in [ChatRequests -> ChatRequest]
  BY DEF Regenerate, ChatGoto, IdleChat, ConversationsTypeOK, ChatRequest
<1>10. ConversationsTypeOK'
  <2>1. ASSUME NEW i \in 1..n PROVE messages'[i].answers < i /\ messages'[i].root < i
    <3>1. CASE i = n
      BY <3>1, <1>2, <1>3, <1>6, <1>7
    <3>2. CASE i # n
      BY <3>2, <1>5, <1>6, <1>7, <1>8, RowFields
    <3> QED BY <3>1, <3>2
  <2> QED BY <2>1, <1>1, <1>6, <1>7, <1>9 DEF ConversationsTypeOK
<1>11. \A i \in 1..n - 1 :
         /\ i \in 1..n
         /\ messages'[i].answers = messages[i].answers /\ messages'[i].root = messages[i].root
         /\ messages'[i].role = messages[i].role /\ messages'[i].inserter = messages[i].inserter
         /\ i \in GroupOf(root) => ~messages'[i].selected
         /\ i \notin GroupOf(root) => messages'[i] = messages[i]
  BY <1>5, <1>6, <1>7
<1>12. \A i \in 1..n - 1 :
         /\ IsQuestion(i)' <=> IsQuestion(i)
         /\ IsAnswer(i)' <=> IsAnswer(i)
         /\ Visible(i)' <=> Visible(i)
  BY <1>6, <1>7, <1>11 DEF IsQuestion, IsAnswer, Visible
<1>13. messages'[n].role = "assistant" /\ Visible(n)' /\ ~IsAnswer(n)' /\ root > 0
  BY <1>2, <1>3, <1>6, <1>7, NumbersPositive DEF IsAnswer, Visible
<1>14. indirect \subseteq indirect' /\ (n \notin indirect' => source = messages[root].answers)
  <2>1. n \in DOMAIN messages' \ DOMAIN messages
    BY <1>6, <1>7
  <2>2. ChatAt(q, "regenerate") /\ chatReq'[q] # chatReq[q]
    BY <1>1, <1>9 DEF ChatAt
  <2> QED BY <2>1, <2>2, <1>1 DEF Indirect
<1>15. QuestionHeld'
  <2> SUFFICES ASSUME NEW r \in ChatRequests, chatReq'[r].next \in {"answer", "commit"},
                      NEW k, k = chatReq'[r].source
               PROVE  /\ IsQuestion(k)' /\ messages'[k].inserter = r
                      /\ chatReq'[r].next = "answer" => Alone(k, Len(messages) + 1, r)'
    BY DEF QuestionHeld
  <2>1. /\ r # q /\ IsQuestion(k) /\ messages[k].inserter = r /\ k \in 1..n - 1
        /\ chatReq'[r].next = "answer" => Alone(k, n, r)
    BY <1>6, <1>9 DEF QuestionHeld, IsQuestion
  <2>2. ASSUME chatReq'[r].next = "answer" PROVE Alone(k, Len(messages) + 1, r)'
    <3> SUFFICES ASSUME NEW j \in 1..n, k < j, messages'[j].role = "user"
                 PROVE  messages'[j].inserter # Nobody /\ messages'[j].inserter # r
      BY <1>7, ChatBounds DEF Alone
    <3>1. j # n /\ j \in 1..n - 1 /\ j < n
      BY <1>6, <1>8, <1>13
    <3> QED BY <3>1, <2>1, <2>2, <1>6, <1>11 DEF Alone
  <2> QED BY <2>1, <2>2, <1>11, <1>12
<1>16. RowsHeld'
  <2> SUFFICES ASSUME NEW i \in 1..n, NEW r, r = messages'[i].inserter, r # Nobody
               PROVE  /\ \/ chatReq'[r].next = "answer" /\ i = chatReq'[r].source
                         \/ chatReq'[r].next = "commit" /\ (i = chatReq'[r].source \/ IsAnswer(i)')
                      /\ messages'[i].role # "gone" /\ messages'[i].selected
    BY <1>7 DEF RowsHeld
  <2>1. i # n /\ i \in 1..n - 1
    BY <1>3, <1>7, <1>8
  <2>2. i \notin GroupOf(root) /\ messages'[i] = messages[i]
    BY <2>1, <1>11 DEF GroupOf, Visible
  <2>3. r # q /\ r \in ChatRequests
    BY <2>1, <2>2, <1>1, <1>6, RowFields DEF RowsHeld
  <2> QED BY <2>1, <2>2, <2>3, <1>6, <1>9, <1>12 DEF RowsHeld
<1>17. AnswersNewest'
  <2> SUFFICES ASSUME NEW i \in 1..n - 1, IsAnswer(i), NEW k, k = messages'[i].answers
               PROVE  /\ IsQuestion(k)' /\ messages'[k].inserter = messages'[i].inserter
                      /\ Alone(k, i, messages[i].inserter)'
    BY <1>7, <1>8, <1>12, <1>13 DEF AnswersNewest
  <2>1. /\ k = messages[i].answers /\ messages'[i].inserter = messages[i].inserter
        /\ IsQuestion(k) /\ k \in 1..n - 1 /\ messages[k].inserter = messages[i].inserter
        /\ Alone(k, i, messages'[i].inserter)
    BY <1>6, <1>11 DEF AnswersNewest, IsQuestion
  <2>2. Alone(k, i, messages[i].inserter)'
    <3> SUFFICES ASSUME NEW j \in 1..n, k < j, j < i, messages'[j].role = "user"
                 PROVE  /\ messages'[j].inserter # Nobody
                        /\ messages'[j].inserter # messages'[i].inserter
                        /\ messages'[i].inserter # Nobody
      BY <1>7 DEF Alone
    <3>1. j \in 1..n - 1
      BY <1>8, <1>13
    <3> QED BY <3>1, <2>1, <1>6, <1>11 DEF Alone
  <2> QED BY <2>1, <2>2, <1>11, <1>12
<1>18. CandidatesOfAnswers'
  <2> SUFFICES ASSUME NEW i \in 1..n, messages'[i].role # "gone", messages'[i].root # 0
               PROVE  /\ messages'[i].role = "assistant" /\ messages'[i].inserter = Nobody
                      /\ IsAnswer(messages[i].root)' /\ Visible(messages[i].root)'
                      /\ IsQuestion(messages[i].answers)' /\ Visible(messages[i].answers)'
                      /\ i \notin indirect' =>
                           messages'[i].answers = messages'[messages'[i].root].answers
    BY <1>7 DEF CandidatesOfAnswers
  <2>1. CASE i = n
    <3>1. messages'[root].answers = messages[root].answers
      BY <1>2, <1>6, <1>11
    <3>2. IsAnswer(root)' /\ Visible(root)' /\ IsQuestion(source)' /\ Visible(source)'
      BY <1>1, <1>2, <1>6, <1>12
    <3>3. IsAnswer(messages[i].root)' /\ Visible(messages[i].root)'
          /\ IsQuestion(messages[i].answers)' /\ Visible(messages[i].answers)'
      BY <3>2, <2>1, <1>3, <1>7
    <3> QED BY <3>1, <3>3, <2>1, <1>3, <1>7, <1>14
  <2>2. CASE i # n
    <3>1. i \in 1..n - 1
      BY <2>2, <1>8
    <3> PICK a, k : a = messages[i].root /\ k = messages[i].answers
      OBVIOUS
    <3>2. /\ messages[i].role = "assistant" /\ messages[i].inserter = Nobody
          /\ IsAnswer(a) /\ Visible(a) /\ IsQuestion(k) /\ Visible(k)
          /\ i \notin indirect => k = messages[a].answers
          /\ messages'[i].root = a /\ messages'[i].answers = k
      BY <3>1, <1>6, <1>11 DEF CandidatesOfAnswers
    <3>3. a \in 1..n - 1 /\ k \in 1..n - 1
      BY <3>2, <1>6 DEF IsAnswer, IsQuestion
    <3>4. IsAnswer(a)' /\ Visible(a)' /\ IsQuestion(k)' /\ Visible(k)'
      BY <3>2, <3>3, <1>12
    <3>5. IsAnswer(messages[i].root)' /\ Visible(messages[i].root)'
          /\ IsQuestion(messages[i].answers)' /\ Visible(messages[i].answers)'
      BY <3>2, <3>4
    <3> QED BY <3>1, <3>2, <3>3, <3>5, <1>11, <1>14
  <2> QED BY <2>1, <2>2
<1>19. RegeneratesAnswer'
  <2> SUFFICES ASSUME NEW r \in ChatRequests, chatReq'[r].next = "regenerate",
                      NEW a, a = chatReq'[r].root, NEW k, k = chatReq'[r].source
               PROVE  /\ IsAnswer(a)' /\ Visible(a)' /\ IsQuestion(k)' /\ Visible(k)'
                      /\ chatReq'[r].message = a => k = messages'[a].answers
    BY DEF RegeneratesAnswer
  <2>1. /\ r # q /\ chatReq'[r] = chatReq[r]
        /\ IsAnswer(a) /\ Visible(a) /\ IsQuestion(k) /\ Visible(k)
        /\ chatReq'[r].message = a => k = messages[a].answers
    BY <1>9 DEF RegeneratesAnswer
  <2>2. a \in 1..n - 1 /\ k \in 1..n - 1
    BY <2>1, <1>6 DEF IsAnswer, IsQuestion
  <2> QED BY <2>1, <2>2, <1>11, <1>12
<1>20. OneSelected'
  <2> SUFFICES ASSUME NEW i \in 1..n - 1, IsAnswer(i), Visible(i)
               PROVE  \E s \in GroupOf(i)' : OnlySelected(s, GroupOf(i))'
    BY <1>7, <1>8, <1>12, <1>13 DEF OneSelected
  <2>1. GroupOf(i)' = IF i = root THEN GroupOf(root) \cup {n} ELSE GroupOf(i)
    <3>1. n \in GroupOf(i)' <=> i = root
      BY <1>3, <1>6, <1>7, <1>13 DEF GroupOf
    <3>2. \A j \in 1..n - 1 : j \in GroupOf(i)' <=> j \in GroupOf(i)
      BY <1>6, <1>7, <1>11, <1>12 DEF GroupOf
    <3>3. GroupOf(i) \subseteq 1..n - 1 /\ GroupOf(i)' \subseteq 1..n /\ n \notin 1..n - 1
      BY <1>6, <1>7 DEF GroupOf
    <3>4. CASE i = root
      <4>1. \A j : j \in GroupOf(i)' <=> j \in GroupOf(i) \/ j = n
        BY <3>1, <3>2, <3>3, <3>4, <1>8
      <4> QED BY <4>1, <3>4
    <3>5. CASE i # root
      <4>1. \A j : j \in GroupOf(i)' <=> j \in GroupOf(i)
        BY <3>1, <3>2, <3>3, <3>5, <1>8
      <4> QED BY <4>1, <3>5
    <3> QED BY <3>4, <3>5
  <2>2. CASE i = root
    <3>1. n \in GroupOf(i)' /\ messages'[n].selected
      BY <2>1, <2>2, <1>3, <1>7
    <3>2. \A j \in GroupOf(i)' : messages'[j].selected => j = n
      BY <2>1, <2>2, <1>6, <1>11 DEF GroupOf
    <3> QED BY <3>1, <3>2 DEF OnlySelected
  <2>3. CASE i # root
    <3>1. \A j \in GroupOf(i) : j \in 1..n - 1 /\ j \notin GroupOf(root)
      BY <2>3, <1>1, <1>6, <1>13, NumbersPositive DEF GroupOf, IsAnswer
    <3>2. \A j \in GroupOf(i) : messages'[j] = messages[j]
      BY <3>1, <1>11
    <3>3. PICK s \in GroupOf(i) : OnlySelected(s, GroupOf(i))
      BY <1>6 DEF OneSelected
    <3> QED BY <3>2, <3>3, <2>1, <2>3 DEF OnlySelected
  <2> QED BY <2>2, <2>3
<1> QED BY <1>10, <1>15, <1>16, <1>17, <1>18, <1>19, <1>20

LEMMA SelectCandidateKeeps ==
  ASSUME ChatInv, SelectCandidate, indirect \subseteq indirect'
  PROVE  ChatInv'
<1> USE DEF ChatInv
<1>0. PICK i \in DOMAIN messages :
      /\ Visible(i) /\ messages[i].role = "assistant"
      /\ messages' = [j \in DOMAIN messages |->
           IF j \in GroupOf(RootOf(i)) THEN [messages[j] EXCEPT !.selected = (j = i)]
           ELSE messages[j]]
      /\ UNCHANGED <<opened, chatReq>>
  BY DEF SelectCandidate
<1> PICK root : root = RootOf(i)
  OBVIOUS
<1> DEFINE f == [j \in DOMAIN messages |->
              IF j \in GroupOf(root) THEN [messages[j] EXCEPT !.selected = (j = i)] ELSE messages[j]]
<1>1. IsAnswer(root) /\ Visible(root) /\ i \in GroupOf(root)
  BY <1>0, RootAnswers
<1>2. \A j \in DOMAIN messages :
        /\ f[j] \in Message /\ f[j].answers = messages[j].answers /\ f[j].root = messages[j].root
        /\ f[j].role = messages[j].role /\ f[j].inserter = messages[j].inserter
        /\ j \in GroupOf(root) => (f[j].selected <=> j = i)
        /\ j \notin GroupOf(root) => f[j] = messages[j]
  BY RowFields DEF Message
<1>3. messages' = [j \in DOMAIN messages |-> f[j]]
  <2>1. messages' = f
    BY <1>0
  <2>2. f = [j \in DOMAIN messages |-> f[j]]
    OBVIOUS
  <2> HIDE DEF f
  <2> QED BY <2>1, <2>2
<1> HIDE DEF f
<1>4. /\ DOMAIN messages' = DOMAIN messages /\ Len(messages)' = Len(messages)
      /\ \A j \in DOMAIN messages : messages'[j] = f[j]
      /\ messages' \in Seq(Message) /\ Len(messages') <= MaxMessages
      /\ \A j \in DOMAIN messages' : messages'[j].answers < j /\ messages'[j].root < j
  <2>1. messages' = [j \in DOMAIN messages |-> f[j]]
    BY <1>3
  <2> QED BY <2>1, <1>2, UpdateEffect
<1>5. \A j \in DOMAIN messages :
        /\ messages'[j].answers = messages[j].answers /\ messages'[j].root = messages[j].root
        /\ messages'[j].role = messages[j].role /\ messages'[j].inserter = messages[j].inserter
        /\ j \in GroupOf(root) => (messages'[j].selected <=> j = i)
        /\ j \notin GroupOf(root) => messages'[j] = messages[j]
  BY <1>2, <1>4
<1>6. ConversationsTypeOK'
  BY <1>0, <1>4 DEF ConversationsTypeOK
<1>7. \A j \in DOMAIN messages :
        /\ IsQuestion(j)' <=> IsQuestion(j)
        /\ IsAnswer(j)' <=> IsAnswer(j)
        /\ Visible(j)' <=> Visible(j)
        /\ GroupOf(j)' = GroupOf(j)
  <2>1. \A j \in DOMAIN messages :
        /\ IsQuestion(j)' <=> IsQuestion(j)
        /\ IsAnswer(j)' <=> IsAnswer(j)
        /\ Visible(j)' <=> Visible(j)
    BY <1>4, <1>5 DEF IsQuestion, IsAnswer, Visible
  <2>2. \A j \in DOMAIN messages : GroupOf(j)' = GroupOf(j)
    BY <2>1, <1>4, <1>5 DEF GroupOf
  <2> QED BY <2>1, <2>2
<1>8. \A k, m, owner : Alone(k, m, owner) => \A j \in DOMAIN messages' :
        k < j /\ j < m /\ messages'[j].role = "user" =>
          messages'[j].inserter # Nobody /\ messages'[j].inserter # owner /\ owner # Nobody
  BY <1>4, <1>5 DEF Alone
<1>9. QuestionHeld'
  <2> SUFFICES ASSUME NEW r \in ChatRequests, chatReq[r].next \in {"answer", "commit"},
                      NEW k, k = chatReq[r].source
               PROVE  /\ IsQuestion(k)' /\ messages'[k].inserter = r
                      /\ chatReq[r].next = "answer" => Alone(k, Len(messages) + 1, r)'
    BY <1>0 DEF QuestionHeld
  <2>1. /\ IsQuestion(k) /\ messages[k].inserter = r /\ k \in DOMAIN messages
        /\ chatReq[r].next = "answer" => Alone(k, Len(messages) + 1, r)
    BY DEF QuestionHeld, IsQuestion
  <2> QED BY <2>1, <1>4, <1>5, <1>7, <1>8 DEF Alone
<1>10. RowsHeld'
  <2> SUFFICES ASSUME NEW m \in DOMAIN messages, NEW r, r = messages'[m].inserter, r # Nobody
               PROVE  /\ \/ chatReq[r].next = "answer" /\ m = chatReq[r].source
                         \/ chatReq[r].next = "commit" /\ (m = chatReq[r].source \/ IsAnswer(m)')
                      /\ messages'[m].role # "gone" /\ messages'[m].selected
    BY <1>0, <1>4 DEF RowsHeld
  <2>1. m \notin GroupOf(root) /\ messages'[m] = messages[m]
    BY <1>5 DEF GroupOf, Visible
  <2> QED BY <2>1, <1>7 DEF RowsHeld
<1>11. AnswersNewest'
  <2> SUFFICES ASSUME NEW m \in DOMAIN messages, IsAnswer(m), NEW k, k = messages[m].answers
               PROVE  /\ IsQuestion(k)' /\ messages'[k].inserter = messages'[m].inserter
                      /\ Alone(k, m, messages[m].inserter)'
    BY <1>4, <1>5, <1>7 DEF AnswersNewest
  <2>1. /\ IsQuestion(k) /\ k \in DOMAIN messages /\ messages[k].inserter = messages[m].inserter
        /\ Alone(k, m, messages[m].inserter)
    BY DEF AnswersNewest, IsQuestion
  <2>2. Alone(k, m, messages'[m].inserter)
    BY <2>1, <1>5
  <2>3. \A j \in DOMAIN messages' :
          k < j /\ j < m /\ messages'[j].role = "user" =>
            /\ messages'[j].inserter # Nobody
            /\ messages'[j].inserter # messages'[m].inserter /\ messages'[m].inserter # Nobody
    BY <2>2, <1>8
  <2>4. Alone(k, m, messages[m].inserter)'
    BY <2>3 DEF Alone
  <2> QED BY <2>1, <2>4, <1>5, <1>7
<1>12. CandidatesOfAnswers'
  <2> SUFFICES ASSUME NEW m \in DOMAIN messages, messages[m].role # "gone",
                      NEW a, a = messages[m].root, a # 0, NEW k, k = messages[m].answers
               PROVE  /\ messages[m].role = "assistant" /\ messages[m].inserter = Nobody
                      /\ IsAnswer(a)' /\ Visible(a)' /\ IsQuestion(k)' /\ Visible(k)'
                      /\ m \notin indirect' => k = messages'[a].answers
    BY <1>4, <1>5 DEF CandidatesOfAnswers
  <2>1. /\ messages[m].role = "assistant" /\ messages[m].inserter = Nobody
        /\ IsAnswer(a) /\ Visible(a) /\ IsQuestion(k) /\ Visible(k)
        /\ m \notin indirect => k = messages[a].answers
    BY DEF CandidatesOfAnswers
  <2>2. a \in DOMAIN messages /\ k \in DOMAIN messages
    BY <2>1 DEF IsAnswer, IsQuestion
  <2> QED BY <2>1, <2>2, <1>5, <1>7
<1>13. RegeneratesAnswer'
  <2> SUFFICES ASSUME NEW r \in ChatRequests, chatReq[r].next = "regenerate",
                      NEW a, a = chatReq[r].root, NEW k, k = chatReq[r].source
               PROVE  /\ IsAnswer(a)' /\ Visible(a)' /\ IsQuestion(k)' /\ Visible(k)'
                      /\ chatReq[r].message = a => k = messages'[a].answers
    BY <1>0 DEF RegeneratesAnswer
  <2>1. /\ IsAnswer(a) /\ Visible(a) /\ IsQuestion(k) /\ Visible(k)
        /\ chatReq[r].message = a => k = messages[a].answers
    BY DEF RegeneratesAnswer
  <2>2. a \in DOMAIN messages /\ k \in DOMAIN messages
    BY <2>1 DEF IsAnswer, IsQuestion
  <2> QED BY <2>1, <2>2, <1>5, <1>7
<1>14. OneSelected'
  <2> SUFFICES ASSUME NEW m \in DOMAIN messages, IsAnswer(m), Visible(m)
               PROVE  \E s \in GroupOf(m)' : OnlySelected(s, GroupOf(m))'
    BY <1>4, <1>7 DEF OneSelected
  <2>0. GroupOf(m)' = GroupOf(m)
    BY <1>7
  <2>1. CASE m = root
    <3>1. messages'[i].selected /\ \A j \in GroupOf(root) : messages'[j].selected => j = i
      BY <1>1, <1>5 DEF GroupOf
    <3> QED BY <3>1, <2>0, <2>1, <1>1 DEF OnlySelected
  <2>2. CASE m # root
    <3>1. \A j \in GroupOf(m) : j \in DOMAIN messages /\ j \notin GroupOf(root)
      BY <2>2, <1>1, NumbersPositive DEF GroupOf, IsAnswer
    <3>2. PICK s \in GroupOf(m) : OnlySelected(s, GroupOf(m))
      BY DEF OneSelected
    <3>3. \A j \in GroupOf(m) : messages'[j] = messages[j]
      BY <3>1, <1>5
    <3> QED BY <3>2, <3>3, <2>0 DEF OnlySelected
  <2> QED BY <2>1, <2>2
<1> QED BY <1>6, <1>9, <1>10, <1>11, <1>12, <1>13, <1>14

\* A step that moves another part, or only opens the conversation.
LEMMA OtherPartKeepsChat ==
  ASSUME ChatInv, UNCHANGED <<messages, chatReq>>, opened' \in BOOLEAN,
         indirect \subseteq indirect'
  PROVE  ChatInv'
<1> USE DEF ChatInv
<1>1. ConversationsTypeOK'
  BY DEF ConversationsTypeOK
<1>2. QuestionHeld' /\ RowsHeld' /\ AnswersNewest'
  BY DEF QuestionHeld, RowsHeld, AnswersNewest, IsQuestion, IsAnswer, Alone
<1>3. CandidatesOfAnswers' /\ RegeneratesAnswer'
  BY DEF CandidatesOfAnswers, RegeneratesAnswer, IsQuestion, IsAnswer, Visible
<1>4. OneSelected'
  BY DEF OneSelected, OnlySelected, GroupOf, IsAnswer, Visible
<1> QED BY <1>1, <1>2, <1>3, <1>4

LEMMA ChatStep ==
  ASSUME ChatInv, [MCNext]_<<operationsVars, history>>
  PROVE  ChatInv'
<1>0. opened \in BOOLEAN
  BY DEF ChatInv, ConversationsTypeOK
<1>1. CASE UNCHANGED <<operationsVars, history>>
  BY <1>0, <1>1, OtherPartKeepsChat DEF operationsVars, history, chatVars
<1>2. CASE MCNext
  <2>1. indirect' = Indirect /\ indirect \subseteq indirect'
    BY <1>2 DEF MCNext, Indirect
  <2>2. CASE UNCHANGED chatVars
    BY <2>1, <2>2, <1>0, OtherPartKeepsChat DEF chatVars
  <2>3. CASE ConversationsNext
    <3>1. CASE CreateConversation
      BY <3>1, <2>1, OtherPartKeepsChat DEF CreateConversation
    <3>2. ASSUME NEW q \in ChatRequests,
                 \/ SendQuestion(q) \/ SendAnswer(q) \/ CommitMessage(q) \/ RollBackMessage(q)
                 \/ StartRegenerate(q) \/ Regenerate(q) \/ RegenerateFails(q)
          PROVE  ChatInv'
      BY <3>2, <2>1, SendQuestionKeeps, SendAnswerKeeps, CommitMessageKeeps, RollBackMessageKeeps,
         StartRegenerateKeeps, RegenerateKeeps, RegenerateFailsKeeps
    <3>3. CASE SelectCandidate
      BY <3>3, <2>1, SelectCandidateKeeps
    <3> QED BY <2>3, <3>1, <3>2, <3>3 DEF ConversationsNext
  <2> QED BY <1>2, <2>2, <2>3 DEF MCNext
<1> QED BY <1>1, <1>2

LEMMA ChatInvImplies == ChatInv => OneCandidateInContext
<1> USE DEF ChatInv
<1> SUFFICES ASSUME ChatInv, NEW i \in DOMAIN messages, Visible(i), messages[i].role = "assistant"
             PROVE  /\ Visible(messages[i].answers)
                    /\ messages[i].root = 0 =>
                         Cardinality({j \in GroupOf(i) : messages[j].selected}) = 1
                    /\ messages[i].root # 0 /\ i \notin indirect =>
                         messages[i].answers = messages[messages[i].root].answers
  BY DEF OneCandidateInContext
<1>1. CASE messages[i].root = 0
  <2>1. IsAnswer(i)
    BY <1>1 DEF IsAnswer
  <2>2. Visible(messages[i].answers)
    BY <2>1 DEF AnswersNewest, IsQuestion, Visible
  <2>3. PICK s \in GroupOf(i) : OnlySelected(s, GroupOf(i))
    BY <2>1 DEF OneSelected
  <2>4. {j \in GroupOf(i) : messages[j].selected} = {s}
    BY <2>3 DEF OnlySelected
  <2> QED BY <1>1, <2>2, <2>4, FS_Singleton
<1>2. CASE messages[i].root # 0
  BY <1>2 DEF CandidatesOfAnswers, Visible
<1> QED BY <1>1, <1>2

-----------------------------------------------------------------------------

LEMMA ChatInductive == MCSpec => []ChatInv
<1>1. MCInit => ChatInv
  BY InitChat DEF MCInit
<1>2. ChatInv /\ [MCNext]_<<operationsVars, history>> => ChatInv'
  BY ChatStep
<1> QED BY <1>1, <1>2, PTL DEF MCSpec

\* Whichever requests send, regenerate and select at the same time, and whichever
\* of their transactions are rolled back, exactly one of an answer and its
\* candidates is in the context, and a question that can be seen is answered.
\* (createConversationMessageV033Hotfix, regenerateWorkspaceMessageV033Hotfix,
\* selectWorkspaceMessageCandidateV033Hotfix)
THEOREM CandidateInContext == MCSpec => []OneCandidateInContext
<1>1. ChatInv => OneCandidateInContext
  BY ChatInvImplies
<1> QED BY <1>1, ChatInductive, PTL
=============================================================================
