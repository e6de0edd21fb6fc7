----------------------- MODULE KnowledgeDocumentsProofs -----------------------
(***************************************************************************)
(* Proofs about knowledge documents: a document has at most one draft, its *)
(* newest version, and no gap in its numbers.                              *)
(***************************************************************************)
EXTENDS MCKnowledgeDocuments, TLAPS

\* What a request may hold.  The document it works on has had a row.
Carries(r) ==
  LET q == req[r] IN
  q.next # "idle" =>
    /\ q.doc \in Documents /\ docStatus[q.doc] # "none"
    /\ q.number \in Numbers
    /\ q.next = "insert_version" /\ q.number > 1 /\ HasRow(q.doc) =>
         versionStatus[q.doc][q.number - 1] = "published"
    /\ q.next \in {"publish_version", "publish_document", "index"} => q.body \in Bodies

\* Only a document with a row has versions; a version has a content if and only
\* if it has a status.
RowsAgree == \A d \in Documents : \A n \in Numbers :
  /\ versionBody[d][n] # NoBody => HasRow(d)
  /\ versionBody[d][n] = NoBody <=> versionStatus[d][n] = "none"

IInv ==
  /\ TypeOK
  /\ \A r \in Requests : Carries(r)
  /\ RowsAgree
  /\ OnlyNewestIsDraft

\* What every step does to rows that exist: ids are not used twice, and a
\* published version of a document that is not removed stays published.
Keeps == \A d \in Documents :
  /\ HasRow(d)' => HasRow(d) \/ docStatus[d] = "none"
  /\ docStatus[d] # "none" => docStatus'[d] # "none"
  /\ HasRow(d)' => \A n \in Numbers :
       versionStatus[d][n] = "published" => versionStatus'[d][n] = "published"

LEMMA InitIInv == Init => IInv
<1> SUFFICES ASSUME Init PROVE IInv
  OBVIOUS
<1> USE NoBodyNew, NoDocumentNew, BoundsType
<1>1. TypeOK
  BY SMTT(30) DEF Init, TypeOK, Numbers, DocStatuses, VersionStatuses, Request, Idle, Ask, Steps
<1>2. \A r \in Requests : Carries(r)
  BY DEF Init, Carries, Idle, Ask
<1>3. RowsAgree
  BY SMTT(30) DEF Init, RowsAgree, HasRow
<1>4. OnlyNewestIsDraft
  BY DEF Init, OnlyNewestIsDraft, HasVersion, Numbers
<1> QED
  BY <1>1, <1>2, <1>3, <1>4 DEF IInv

-----------------------------------------------------------------------------
(* Frames.                                                                 *)

LEMMA AskType ==
  ASSUME NEW step \in Steps, NEW d \in Documents \cup {NoDocument},
         NEW n \in 0..MaxVersion, NEW b \in Bodies \cup {NoBody}
  PROVE  Ask(step, d, n, b) \in Request
BY DEF Ask, Request

LEMMA IdleType == Idle \in Request
BY AskType, BoundsType DEF Idle, Steps

LEMMA GotoType ==
  ASSUME NEW q \in Request, NEW step \in Steps
  PROVE  [q EXCEPT !.next = step] \in Request
BY DEF Request

\* A request that does not move goes on carrying what it did.
LEMMA OthersKept ==
  ASSUME IInv, Keeps, NEW r \in Requests, req'[r] = req[r]
  PROVE  Carries(r)'
<1> PICK q \in Request : q = req[r]
  BY DEF IInv, TypeOK
<1>1. Carries(r)
  BY DEF IInv
<1>2. ASSUME q.next = "insert_version", q.number > 1, HasRow(q.doc)'
      PROVE  versionStatus'[q.doc][q.number - 1] = "published"
  <2>1. q.doc \in Documents /\ q.number - 1 \in Numbers /\ HasRow(q.doc)
    BY <1>1, <1>2, BoundsType, SMT DEF Carries, Keeps, Numbers
  <2>2. versionStatus[q.doc][q.number - 1] = "published"
    BY <1>1, <1>2, <2>1 DEF Carries
  <2> DEFINE n == q.number - 1
  <2>3. n \in Numbers /\ versionStatus[q.doc][n] = "published"
    BY <2>1, <2>2
  <2> HIDE DEF n
  <2>4. versionStatus'[q.doc][n] = "published"
    BY <1>2, <2>1, <2>3 DEF Keeps
  <2> QED
    BY <2>4 DEF n
<1> QED
  BY <1>1, <1>2 DEF Carries, Keeps

\* A row inserted with a new number keeps the history in order when it is the
\* first or follows a published one.
LEMMA InsertKeeps ==
  ASSUME IInv, NEW d \in Documents, NEW n \in Numbers, NEW b \in Bodies,
         NEW s \in {"draft", "published"}, ~HasVersion(d, n), HasRow(d)',
         n > 1 => versionStatus[d][n - 1] = "published",
         versionBody' = [versionBody EXCEPT ![d][n] = b],
         versionStatus' = [versionStatus EXCEPT ![d][n] = s],
         \A c \in Documents : HasRow(c) => HasRow(c)',
         \A c \in Documents : docStatus[c] # "none" => docStatus'[c] # "none",
         \A c \in Documents : HasRow(c)' => HasRow(c) \/ docStatus[c] = "none"
  PROVE  /\ versionBody' \in [Documents -> [Numbers -> Bodies \cup {NoBody}]]
         /\ versionStatus' \in [Documents -> [Numbers -> VersionStatuses]]
         /\ Keeps /\ RowsAgree' /\ OnlyNewestIsDraft'
<1> USE NoBodyNew, BoundsType
<1>1. /\ versionBody' \in [Documents -> [Numbers -> Bodies \cup {NoBody}]]
      /\ versionStatus' \in [Documents -> [Numbers -> VersionStatuses]]
      /\ \A c \in Documents, m \in Numbers :
           /\ versionBody'[c][m] = IF c = d /\ m = n THEN b ELSE versionBody[c][m]
           /\ versionStatus'[c][m] = IF c = d /\ m = n THEN s ELSE versionStatus[c][m]
  BY DEF IInv, TypeOK, VersionStatuses
<1>2. Keeps
  BY <1>1 DEF IInv, RowsAgree, Keeps, HasVersion
<1>3. RowsAgree'
  BY <1>1 DEF IInv, RowsAgree
<1>4. OnlyNewestIsDraft'
  <2> SUFFICES ASSUME NEW c \in Documents, NEW m \in Numbers, m > 1, versionBody'[c][m] # NoBody
               PROVE  versionStatus'[c][m - 1] = "published"
    BY DEF OnlyNewestIsDraft, HasVersion
  <2>1. m - 1 \in Numbers
    BY BoundsType, SMT DEF Numbers
  <2>2. CASE c = d /\ m = n
    <3>1. versionStatus[d][n - 1] = "published" /\ n - 1 # n
      BY <2>2, SMT DEF Numbers
    <3> QED
      BY <1>1, <2>1, <2>2, <3>1
  <2>3. CASE ~(c = d /\ m = n)
    <3>1. versionBody[c][m] # NoBody
      BY <1>1, <2>3
    <3>2. versionStatus[c][m - 1] = "published"
      BY <3>1 DEF IInv, OnlyNewestIsDraft, HasVersion
    <3>3. ~(c = d /\ m - 1 = n)
      BY <2>1, <3>2 DEF IInv, RowsAgree, HasVersion
    <3> QED
      BY <1>1, <2>1, <3>2, <3>3
  <2> QED
    BY <2>2, <2>3
<1> QED
  BY <1>1, <1>2, <1>3, <1>4

\* A step that leaves the versions alone and removes no row.
LEMMA VersionsKept ==
  ASSUME IInv, UNCHANGED versionVars,
         \A c \in Documents : HasRow(c) => HasRow(c)',
         \A c \in Documents : docStatus[c] # "none" => docStatus'[c] # "none",
         \A c \in Documents : HasRow(c)' => HasRow(c) \/ docStatus[c] = "none"
  PROVE  Keeps /\ RowsAgree' /\ OnlyNewestIsDraft'
<1>1. versionBody' = versionBody /\ versionStatus' = versionStatus
  BY DEF versionVars
<1>2. Keeps
  BY <1>1 DEF Keeps
<1>3. RowsAgree'
  BY <1>1 DEF IInv, RowsAgree
<1>4. OnlyNewestIsDraft'
  BY <1>1 DEF IInv, OnlyNewestIsDraft, HasVersion
<1> QED
  BY <1>2, <1>3, <1>4

\* UPDATE knowledge_documents neither makes nor removes a row.
LEMMA SetDocumentEffect ==
  ASSUME TypeOK, NEW d \in Documents, NEW status, NEW index,
         status \in {"draft", "published"} \/ status = docStatus[d],
         index \in {"not_indexed", "pending", "indexed"},
         SetDocument(d, status, index)
  PROVE  /\ docStatus' \in [Documents -> DocStatuses]
         /\ docIndex' \in [Documents -> {"not_indexed", "pending", "indexed"}]
         /\ \A c \in Documents : HasRow(c)' <=> HasRow(c)
         /\ \A c \in Documents : docStatus'[c] = "none" <=> docStatus[c] = "none"
<1>1. CASE HasRow(d)
  BY <1>1 DEF TypeOK, SetDocument, HasRow, DocStatuses
<1>2. CASE ~HasRow(d)
  BY <1>2 DEF TypeOK, SetDocument, HasRow, docVars
<1> QED
  BY <1>1, <1>2

\* A step of one request, from what it keeps and what that request then holds.
LEMMA StepOf ==
  ASSUME IInv, NEW r \in Requests, NEW q \in Request, req' = [req EXCEPT ![r] = q],
         TypeOK', Keeps, RowsAgree', OnlyNewestIsDraft', Carries(r)'
  PROVE  IInv' /\ Keeps
<1>1. ASSUME NEW p \in Requests PROVE Carries(p)'
  <2>1. CASE p = r
    BY <2>1
  <2>2. CASE p # r
    <3>1. req'[p] = req[p]
      BY <2>2 DEF IInv, TypeOK
    <3> QED
      BY <3>1, OthersKept
  <2> QED
    BY <2>1, <2>2
<1> QED
  BY <1>1 DEF IInv

-----------------------------------------------------------------------------
(* Steps.                                                                  *)

LEMMA CreateDocumentKeeps ==
  ASSUME IInv, NEW r \in Requests, NEW d \in Documents, CreateDocument(r, d)
  PROVE  IInv' /\ Keeps
<1> DEFINE q == Ask("insert_first_version", d, 1, NoBody)
<1>1. q \in Request
  BY AskType, BoundsType DEF Steps
<1>2. req' = [req EXCEPT ![r] = q]
  BY DEF CreateDocument, Begin
<1>3. TypeOK'
  BY <1>1, <1>2, SMTT(30) DEF IInv, TypeOK, CreateDocument, DocStatuses, docVars, versionVars, faultVars
<1>4. Keeps /\ RowsAgree' /\ OnlyNewestIsDraft'
  <2>1. docStatus' = [docStatus EXCEPT ![d] = "draft"] /\ docStatus[d] = "none"
    BY DEF CreateDocument
  <2>2. \A c \in Documents : docStatus'[c] = IF c = d THEN "draft" ELSE docStatus[c]
    BY <2>1 DEF IInv, TypeOK
  <2> QED
    BY <2>1, <2>2, VersionsKept DEF HasRow, CreateDocument
<1>5. Carries(r)'
  BY <1>2, BoundsType DEF IInv, TypeOK, Carries, Ask, CreateDocument, Numbers
<1> QED
  BY <1>1, <1>2, <1>3, <1>4, <1>5, StepOf

LEMMA InsertFirstVersionKeeps ==
  ASSUME IInv, NEW r \in Requests, NEW b \in Bodies, InsertFirstVersion(r, b)
  PROVE  IInv' /\ Keeps
<1> PICK d \in Documents : d = req[r].doc
  BY DEF IInv, Carries, InsertFirstVersion, At
<1>1. req' = [req EXCEPT ![r] = Idle]
  BY DEF InsertFirstVersion, Finish
<1>2. UNCHANGED <<docVars, indexBody, faultVars>>
  BY DEF InsertFirstVersion
<1>3. /\ versionBody' \in [Documents -> [Numbers -> Bodies \cup {NoBody}]]
      /\ versionStatus' \in [Documents -> [Numbers -> VersionStatuses]]
      /\ Keeps /\ RowsAgree' /\ OnlyNewestIsDraft'
  <2>1. CASE CanInsert(d, 1)
    <3>1. 1 \in Numbers
      BY BoundsType DEF Numbers
    <3> QED
      BY <1>2, <2>1, <3>1, InsertKeeps DEF InsertFirstVersion, InsertDraft, CanInsert, HasRow, docVars
  <2>2. CASE ~CanInsert(d, 1)
    BY <1>2, <2>2, VersionsKept DEF InsertFirstVersion, HasRow, docVars, versionVars, IInv, TypeOK
  <2> QED
    BY <2>1, <2>2
<1>4. TypeOK'
  BY <1>1, <1>2, <1>3, IdleType DEF IInv, TypeOK, docVars, faultVars
<1>5. Carries(r)'
  BY <1>1 DEF IInv, TypeOK, Carries, Idle, Ask
<1> QED
  BY <1>1, <1>3, <1>4, <1>5, IdleType, StepOf

LEMMA UpdateReadKeeps ==
  ASSUME IInv, NEW r \in Requests, NEW d \in Documents, UpdateRead(r, d)
  PROVE  IInv' /\ Keeps
<1> DEFINE edit(n) == IsNewest(d, n) /\ versionStatus[d][n] = "draft"
           insert(n) == \/ n = 1 /\ NoVersions(d)
                        \/ n > 1 /\ IsNewest(d, n - 1) /\ versionStatus[d][n - 1] # "draft"
           q(n) == Ask(IF edit(n) THEN "edit_version" ELSE "insert_version", d, n, NoBody)
<1>1. PICK n \in Numbers : (edit(n) \/ insert(n)) /\ req' = [req EXCEPT ![r] = q(n)]
  BY DEF UpdateRead, Begin
<1>2. q(n) \in Request
  BY AskType, BoundsType DEF Steps, Numbers
<1>3. UNCHANGED <<docVars, versionVars, indexBody, faultVars>> /\ docStatus[d] # "none"
  BY DEF UpdateRead
<1>4. TypeOK'
  BY <1>1, <1>2, <1>3 DEF IInv, TypeOK, docVars, versionVars, faultVars
<1>5. Keeps /\ RowsAgree' /\ OnlyNewestIsDraft'
  BY <1>3, VersionsKept DEF HasRow, docVars
<1>6. ASSUME ~edit(n), n > 1 PROVE versionStatus[d][n - 1] = "published"
  <2>0. n # 1 /\ n - 1 \in Numbers
    BY <1>6, BoundsType, SMT DEF Numbers
  <2>1. IsNewest(d, n - 1) /\ versionStatus[d][n - 1] # "draft" /\ n - 1 \in Numbers
    BY <1>1, <1>6, <2>0, Zenon
  <2>2. versionStatus[d][n - 1] \in VersionStatuses \ {"none"}
    BY <2>1 DEF IInv, TypeOK, RowsAgree, IsNewest, HasVersion
  <2> QED
    BY <2>1, <2>2 DEF VersionStatuses
<1>7. Carries(r)'
  <2>1. req'[r] = q(n)
    BY <1>1 DEF IInv, TypeOK
  <2>2. docStatus' = docStatus /\ versionStatus' = versionStatus
    BY <1>3 DEF docVars, versionVars
  <2> QED
    BY <1>3, <1>6, <2>1, <2>2 DEF Carries, Ask
<1> QED
  BY <1>1, <1>2, <1>4, <1>5, <1>7, StepOf

LEMMA UpdateReadFailsKeeps ==
  ASSUME IInv, NEW r \in Requests, NEW d \in Documents, UpdateReadFails(r, d)
  PROVE  IInv' /\ Keeps
<1> DEFINE q == Ask("insert_version", d, 1, NoBody)
<1>1. /\ req' = [req EXCEPT ![r] = q] /\ docStatus[d] # "none"
      /\ UNCHANGED <<docVars, versionVars, indexBody, restarts>>
      /\ errors < MaxErrors /\ errors' = errors + 1 /\ 1 \in Numbers
  BY BoundsType DEF UpdateReadFails, Begin, Numbers
<1>2. q \in Request
  BY <1>1, AskType, BoundsType DEF Steps, Numbers
<1>3. errors' \in 0..MaxErrors
  BY <1>1, BoundsType DEF IInv, TypeOK
<1>4. TypeOK'
  BY <1>1, <1>2, <1>3 DEF IInv, TypeOK, docVars, versionVars
<1>5. Keeps /\ RowsAgree' /\ OnlyNewestIsDraft'
  BY <1>1, VersionsKept DEF HasRow, docVars
<1>6. Carries(r)'
  BY <1>1 DEF IInv, TypeOK, Carries, Ask, docVars
<1> QED
  BY <1>1, <1>2, <1>4, <1>5, <1>6, StepOf

LEMMA EditVersionKeeps ==
  ASSUME IInv, NEW r \in Requests, NEW b \in Bodies, EditVersion(r, b)
  PROVE  IInv' /\ Keeps
<1> PICK q \in Request : q = req[r]
  BY DEF IInv, TypeOK
<1> DEFINE d == q.doc
           n == q.number
<1>1. d \in Documents /\ docStatus[d] # "none" /\ n \in Numbers
  BY DEF IInv, Carries, EditVersion, At
<1>2. /\ versionBody' = [versionBody EXCEPT ![d][n] = IF @ = NoBody THEN @ ELSE b]
      /\ req' = [req EXCEPT ![r] = [q EXCEPT !.next = "update_document"]]
      /\ UNCHANGED <<docVars, versionStatus, indexBody, faultVars>>
  BY DEF EditVersion, Goto
<1>3. [q EXCEPT !.next = "update_document"] \in Request
  BY GotoType DEF Steps
<1> HIDE DEF d, n
<1>4. /\ versionBody' \in [Documents -> [Numbers -> Bodies \cup {NoBody}]]
      /\ \A c \in Documents, m \in Numbers :
           versionBody'[c][m] = NoBody <=> versionBody[c][m] = NoBody
  BY <1>1, <1>2, NoBodyNew DEF IInv, TypeOK
<1>5. TypeOK'
  BY <1>2, <1>3, <1>4 DEF IInv, TypeOK, docVars, faultVars
<1>6. Keeps /\ RowsAgree' /\ OnlyNewestIsDraft'
  BY <1>2, <1>4 DEF IInv, Keeps, RowsAgree, OnlyNewestIsDraft, HasRow, HasVersion, docVars
<1>7. Carries(r)'
  BY <1>1, <1>2 DEF IInv, TypeOK, Carries, Request, docVars, d, n
<1> QED
  BY <1>2, <1>3, <1>5, <1>6, <1>7, StepOf

LEMMA InsertVersionKeeps ==
  ASSUME IInv, NEW r \in Requests, NEW b \in Bodies, InsertVersion(r, b)
  PROVE  IInv' /\ Keeps
<1> PICK q \in Request : q = req[r]
  BY DEF IInv, TypeOK
<1>1. /\ q.doc \in Documents /\ docStatus[q.doc] # "none" /\ q.number \in Numbers
      /\ q.number > 1 /\ HasRow(q.doc) => versionStatus[q.doc][q.number - 1] = "published"
  BY DEF IInv, Carries, InsertVersion, At
<1>2. /\ req' = [req EXCEPT ![r] = [q EXCEPT !.next = "update_document"]]
      /\ UNCHANGED <<docVars, indexBody, faultVars>>
  BY DEF InsertVersion, Goto
<1>3. [q EXCEPT !.next = "update_document"] \in Request
  BY GotoType DEF Steps
<1>4. /\ versionBody' \in [Documents -> [Numbers -> Bodies \cup {NoBody}]]
      /\ versionStatus' \in [Documents -> [Numbers -> VersionStatuses]]
      /\ Keeps /\ RowsAgree' /\ OnlyNewestIsDraft'
  <2>1. CASE CanInsert(q.doc, q.number)
    BY <1>1, <1>2, <2>1, InsertKeeps DEF InsertVersion, InsertDraft, CanInsert, HasRow, docVars
  <2>2. CASE ~CanInsert(q.doc, q.number)
    BY <1>2, <2>2, VersionsKept DEF InsertVersion, HasRow, docVars, versionVars, IInv, TypeOK
  <2> QED
    BY <2>1, <2>2
<1>5. TypeOK'
  BY <1>2, <1>3, <1>4 DEF IInv, TypeOK, docVars, faultVars
<1>6. Carries(r)'
  BY <1>1, <1>2 DEF IInv, TypeOK, Carries, Request, docVars
<1> QED
  BY <1>2, <1>3, <1>4, <1>5, <1>6, StepOf

LEMMA UpdateDocumentKeeps ==
  ASSUME IInv, NEW r \in Requests, UpdateDocument(r)
  PROVE  IInv' /\ Keeps
<1> PICK q \in Request : q = req[r]
  BY DEF IInv, TypeOK
<1>1. q.doc \in Documents /\ docStatus[q.doc] # "none" /\ q.number \in Numbers
  BY DEF IInv, Carries, UpdateDocument, At
<1>2. /\ SetDocument(q.doc, "draft", "not_indexed")
      /\ req' = [req EXCEPT ![r] = Idle]
      /\ UNCHANGED <<versionVars, indexBody, faultVars>>
  BY DEF UpdateDocument, Finish
<1>3. Idle \in Request
  BY IdleType
<1>4. /\ docStatus' \in [Documents -> DocStatuses]
      /\ docIndex' \in [Documents -> {"not_indexed", "pending", "indexed"}]
      /\ \A c \in Documents : HasRow(c)' <=> HasRow(c)
      /\ \A c \in Documents : docStatus'[c] = "none" <=> docStatus[c] = "none"
  BY <1>1, <1>2, SetDocumentEffect DEF IInv
<1>5. TypeOK'
  BY <1>2, <1>3, <1>4 DEF IInv, TypeOK, versionVars, faultVars
<1>6. Keeps /\ RowsAgree' /\ OnlyNewestIsDraft'
  BY <1>2, <1>4, VersionsKept
<1>7. Carries(r)'
  BY <1>1, <1>2, <1>4 DEF IInv, TypeOK, Carries, Request, Idle, Ask
<1> QED
  BY <1>2, <1>3, <1>5, <1>6, <1>7, StepOf

LEMMA PublishReadKeeps ==
  ASSUME IInv, NEW r \in Requests, NEW d \in Documents, PublishRead(r, d)
  PROVE  IInv' /\ Keeps
<1> DEFINE q(n) == Ask("publish_version", d, n, versionBody[d][n])
<1>1. PICK n \in Numbers : IsNewest(d, n) /\ req' = [req EXCEPT ![r] = q(n)]
  BY DEF PublishRead, Begin
<1>2. UNCHANGED <<docVars, versionVars, indexBody, faultVars>>
  BY DEF PublishRead
<1>3. versionBody[d][n] \in Bodies /\ docStatus[d] # "none"
  BY <1>1 DEF IInv, TypeOK, RowsAgree, IsNewest, HasVersion, HasRow
<1>4. q(n) \in Request
  BY <1>3, AskType, BoundsType DEF Steps, Numbers
<1>5. TypeOK'
  BY <1>1, <1>2, <1>4 DEF IInv, TypeOK, docVars, versionVars, faultVars
<1>6. Keeps /\ RowsAgree' /\ OnlyNewestIsDraft'
  BY <1>2, VersionsKept DEF HasRow, docVars
<1>7. Carries(r)'
  BY <1>1, <1>2, <1>3 DEF IInv, TypeOK, Carries, Ask, docVars
<1> QED
  BY <1>1, <1>4, <1>5, <1>6, <1>7, StepOf

LEMMA PublishVersionKeeps ==
  ASSUME IInv, NEW r \in Requests, PublishVersion(r)
  PROVE  IInv' /\ Keeps
<1> PICK q \in Request : q = req[r]
  BY DEF IInv, TypeOK
<1>1. q.doc \in Documents /\ docStatus[q.doc] # "none" /\ q.number \in Numbers
        /\ q.body \in Bodies
  BY DEF IInv, Carries, PublishVersion, At
<1>2. /\ versionStatus' = [versionStatus EXCEPT ![q.doc][q.number] =
           IF HasVersion(q.doc, q.number) THEN "published" ELSE @]
      /\ req' = [req EXCEPT ![r] = [q EXCEPT !.next = "publish_document"]]
      /\ UNCHANGED <<docVars, versionBody, indexBody, faultVars>>
  BY DEF PublishVersion, Goto
<1>3. [q EXCEPT !.next = "publish_document"] \in Request
  BY GotoType DEF Steps
<1>4. /\ versionStatus' \in [Documents -> [Numbers -> VersionStatuses]]
      /\ \A c \in Documents, m \in Numbers :
           \/ versionStatus'[c][m] = versionStatus[c][m]
           \/ versionStatus'[c][m] = "published" /\ versionBody[c][m] # NoBody
  BY <1>1, <1>2 DEF IInv, TypeOK, VersionStatuses, HasVersion
<1>5. TypeOK'
  BY <1>2, <1>3, <1>4 DEF IInv, TypeOK, docVars, faultVars
<1>6. Keeps /\ RowsAgree'
  BY <1>2, <1>4 DEF IInv, Keeps, RowsAgree, HasRow, docVars
<1>7. OnlyNewestIsDraft'
  <2> SUFFICES ASSUME NEW c \in Documents, NEW m \in Numbers, m > 1, versionBody'[c][m] # NoBody
               PROVE  versionStatus'[c][m - 1] = "published"
    BY DEF OnlyNewestIsDraft, HasVersion
  <2>1. m - 1 \in Numbers
    BY BoundsType, SMT DEF Numbers
  <2>2. versionStatus[c][m - 1] = "published"
    BY <1>2 DEF IInv, OnlyNewestIsDraft, HasVersion
  <2> QED
    BY <1>4, <2>1, <2>2
<1>8. Carries(r)'
  BY <1>1, <1>2 DEF IInv, TypeOK, Carries, Request, docVars
<1> QED
  BY <1>2, <1>3, <1>5, <1>6, <1>7, <1>8, StepOf

LEMMA PublishDocumentKeeps ==
  ASSUME IInv, NEW r \in Requests, PublishDocument(r)
  PROVE  IInv' /\ Keeps
<1> PICK q \in Request : q = req[r]
  BY DEF IInv, TypeOK
<1>1. q.doc \in Documents /\ docStatus[q.doc] # "none" /\ q.number \in Numbers
        /\ q.body \in Bodies
  BY DEF IInv, Carries, PublishDocument, At
<1>2. /\ SetDocument(q.doc, "published", "pending")
      /\ req' = [req EXCEPT ![r] = [q EXCEPT !.next = "index"]]
      /\ UNCHANGED <<versionVars, indexBody, faultVars>>
  BY DEF PublishDocument, Goto
<1>3. [q EXCEPT !.next = "index"] \in Request
  BY GotoType DEF Steps
<1>4. /\ docStatus' \in [Documents -> DocStatuses]
      /\ docIndex' \in [Documents -> {"not_indexed", "pending", "indexed"}]
      /\ \A c \in Documents : HasRow(c)' <=> HasRow(c)
      /\ \A c \in Documents : docStatus'[c] = "none" <=> docStatus[c] = "none"
  BY <1>1, <1>2, SetDocumentEffect DEF IInv
<1>5. TypeOK'
  BY <1>2, <1>3, <1>4 DEF IInv, TypeOK, versionVars, faultVars
<1>6. Keeps /\ RowsAgree' /\ OnlyNewestIsDraft'
  BY <1>2, <1>4, VersionsKept
<1>7. Carries(r)'
  BY <1>1, <1>2, <1>4 DEF IInv, TypeOK, Carries, Request, Idle, Ask
<1> QED
  BY <1>2, <1>3, <1>5, <1>6, <1>7, StepOf

LEMMA IndexDocumentKeeps ==
  ASSUME IInv, NEW r \in Requests, IndexDocument(r)
  PROVE  IInv' /\ Keeps
<1> PICK q \in Request : q = req[r]
  BY DEF IInv, TypeOK
<1>1. /\ q.doc \in Documents /\ docStatus[q.doc] # "none" /\ q.number \in Numbers
      /\ q.body \in Bodies
  BY DEF IInv, Carries, IndexDocument, At
<1>2. /\ indexBody' = [indexBody EXCEPT ![q.doc] = q.body]
      /\ req' = [req EXCEPT ![r] = [q EXCEPT !.next = "mark_indexed"]]
      /\ UNCHANGED <<docVars, versionVars, faultVars>>
  BY DEF IndexDocument, Goto
<1>3. [q EXCEPT !.next = "mark_indexed"] \in Request
  BY GotoType DEF Steps
<1>4. TypeOK'
  BY <1>1, <1>2, <1>3 DEF IInv, TypeOK, docVars, versionVars, faultVars
<1>5. Keeps /\ RowsAgree' /\ OnlyNewestIsDraft'
  BY <1>2, VersionsKept DEF HasRow, docVars
<1>6. Carries(r)'
  BY <1>1, <1>2 DEF IInv, TypeOK, Carries, Request, docVars
<1> QED
  BY <1>2, <1>3, <1>4, <1>5, <1>6, StepOf

LEMMA MarkIndexedKeeps ==
  ASSUME IInv, NEW r \in Requests, MarkIndexed(r)
  PROVE  IInv' /\ Keeps
<1> PICK q \in Request : q = req[r]
  BY DEF IInv, TypeOK
<1>1. q.doc \in Documents /\ docStatus[q.doc] # "none" /\ q.number \in Numbers
  BY DEF IInv, Carries, MarkIndexed, At
<1>2. /\ SetDocument(q.doc, docStatus[q.doc], "indexed")
      /\ req' = [req EXCEPT ![r] = Idle]
      /\ UNCHANGED <<versionVars, indexBody, faultVars>>
  BY DEF MarkIndexed, Finish
<1>3. Idle \in Request
  BY IdleType
<1>4. /\ docStatus' \in [Documents -> DocStatuses]
      /\ docIndex' \in [Documents -> {"not_indexed", "pending", "indexed"}]
      /\ \A c \in Documents : HasRow(c)' <=> HasRow(c)
      /\ \A c \in Documents : docStatus'[c] = "none" <=> docStatus[c] = "none"
  BY <1>1, <1>2, SetDocumentEffect DEF IInv
<1>5. TypeOK'
  BY <1>2, <1>3, <1>4 DEF IInv, TypeOK, versionVars, faultVars
<1>6. Keeps /\ RowsAgree' /\ OnlyNewestIsDraft'
  BY <1>2, <1>4, VersionsKept
<1>7. Carries(r)'
  BY <1>1, <1>2, <1>4 DEF IInv, TypeOK, Carries, Request, Idle, Ask
<1> QED
  BY <1>2, <1>3, <1>5, <1>6, <1>7, StepOf

LEMMA DeleteDocumentKeeps ==
  ASSUME IInv, NEW d \in Documents, DeleteDocument(d)
  PROVE  IInv' /\ Keeps
<1>1. /\ docStatus' = [docStatus EXCEPT ![d] = "removed"]
      /\ docIndex' = [docIndex EXCEPT ![d] = "not_indexed"]
      /\ versionBody' = [versionBody EXCEPT ![d] = [n \in Numbers |-> NoBody]]
      /\ versionStatus' = [versionStatus EXCEPT ![d] = [n \in Numbers |-> "none"]]
      /\ UNCHANGED <<indexBody, req, faultVars>>
      /\ HasRow(d)
  BY DEF DeleteDocument
<1>2. TypeOK'
  BY <1>1 DEF IInv, TypeOK, DocStatuses, VersionStatuses, faultVars
<1>3. \A c \in Documents :
        /\ docStatus'[c] = IF c = d THEN "removed" ELSE docStatus[c]
        /\ \A n \in Numbers :
             /\ versionBody'[c][n] = IF c = d THEN NoBody ELSE versionBody[c][n]
             /\ versionStatus'[c][n] = IF c = d THEN "none" ELSE versionStatus[c][n]
  BY <1>1 DEF IInv, TypeOK
<1>4. Keeps
  BY <1>3 DEF Keeps, HasRow
<1>5. RowsAgree'
  BY <1>3 DEF IInv, RowsAgree, HasRow
<1>6. OnlyNewestIsDraft'
  <2> SUFFICES ASSUME NEW c \in Documents, NEW m \in Numbers, m > 1, versionBody'[c][m] # NoBody
               PROVE  versionStatus'[c][m - 1] = "published"
    BY DEF OnlyNewestIsDraft, HasVersion
  <2>1. m - 1 \in Numbers
    BY BoundsType, SMT DEF Numbers
  <2>2. c # d /\ versionBody[c][m] # NoBody
    BY <1>3
  <2>3. versionStatus[c][m - 1] = "published"
    BY <2>2 DEF IInv, OnlyNewestIsDraft, HasVersion
  <2> QED
    BY <1>3, <2>1, <2>2, <2>3
<1>7. \A r \in Requests : Carries(r)'
  BY <1>1, <1>4, OthersKept
<1> QED
  BY <1>2, <1>4, <1>5, <1>6, <1>7 DEF IInv

LEMMA StatementFailsKeeps ==
  ASSUME IInv, NEW r \in Requests, StatementFails(r)
  PROVE  IInv' /\ Keeps
<1> PICK q \in Request : q = req[r]
  BY DEF IInv, TypeOK
<1>1. /\ UNCHANGED <<docVars, versionVars, indexBody, restarts>>
      /\ errors' = errors + 1 /\ errors < MaxErrors
  BY DEF StatementFails
<1>2. \/ req' = [req EXCEPT ![r] = Idle]
      \/ \E step \in {"update_document", "publish_document", "index"} :
           /\ req' = [req EXCEPT ![r] = [q EXCEPT !.next = step]]
           /\ q.next # "idle"
           /\ step \in {"publish_document", "index"} =>
                q.next \in {"publish_version", "publish_document"}
  BY DEF StatementFails, At, Goto, Finish
<1>3. PICK p \in Request :
        /\ req' = [req EXCEPT ![r] = p]
        /\ \/ p = Idle
           \/ /\ q.next # "idle" /\ p.doc = q.doc /\ p.number = q.number /\ p.body = q.body
              /\ p.next \in {"update_document", "publish_document", "index"}
              /\ p.next \in {"publish_document", "index"} =>
                   q.next \in {"publish_version", "publish_document"}
  <2>1. CASE req' = [req EXCEPT ![r] = Idle]
    BY <2>1, IdleType
  <2>2. ASSUME NEW step \in {"update_document", "publish_document", "index"},
               req' = [req EXCEPT ![r] = [q EXCEPT !.next = step]],
               q.next # "idle",
               step \in {"publish_document", "index"} =>
                 q.next \in {"publish_version", "publish_document"}
        PROVE  \E p \in Request :
                 /\ req' = [req EXCEPT ![r] = p]
                 /\ q.next # "idle" /\ p.doc = q.doc /\ p.number = q.number /\ p.body = q.body
                 /\ p.next \in {"update_document", "publish_document", "index"}
                 /\ p.next \in {"publish_document", "index"} =>
                      q.next \in {"publish_version", "publish_document"}
    <3> DEFINE p == [q EXCEPT !.next = step]
    <3>1. p \in Request
      BY <2>2, GotoType DEF Steps
    <3>2. p.next = step /\ p.doc = q.doc /\ p.number = q.number /\ p.body = q.body
      BY DEF Request
    <3> HIDE DEF p
    <3>3. req' = [req EXCEPT ![r] = p]
      BY <2>2 DEF p
    <3> QED
      BY <2>2, <3>1, <3>2, <3>3
  <2> QED
    BY <1>2, <2>1, <2>2
<1>4. TypeOK'
  BY <1>1, <1>3, BoundsType, SMT DEF IInv, TypeOK, docVars, versionVars
<1>5. Keeps /\ RowsAgree' /\ OnlyNewestIsDraft'
  BY <1>1, VersionsKept DEF HasRow, docVars
<1>6. Carries(r)'
  <2>1. req'[r] = p /\ docStatus' = docStatus /\ Carries(r)
    BY <1>1, <1>3 DEF IInv, TypeOK, docVars
  <2> QED
    BY <1>3, <2>1 DEF Carries, Idle, Ask
<1> QED
  BY <1>3, <1>4, <1>5, <1>6, StepOf

LEMMA RestartKeeps ==
  ASSUME IInv, Restart
  PROVE  IInv' /\ Keeps
<1>1. req' = [r \in Requests |-> Idle] /\ restarts' = restarts + 1 /\ restarts < MaxRestarts
        /\ UNCHANGED <<indexBody, errors>>
  BY DEF Restart
<1>2. \A r \in Requests : Carries(r)'
  BY <1>1 DEF Carries, Idle, Ask
<1>3. req' \in [Requests -> Request] /\ restarts' \in 0..MaxRestarts
  BY <1>1, IdleType, BoundsType, SMT DEF IInv, TypeOK
<1>4. CASE \E d \in Documents : HasRow(d)
  <2>1. UNCHANGED <<docVars, versionVars>>
    BY <1>4 DEF Restart
  <2>2. TypeOK'
    BY <1>1, <1>3, <2>1 DEF IInv, TypeOK, docVars, versionVars
  <2>3. Keeps /\ RowsAgree' /\ OnlyNewestIsDraft'
    BY <2>1, VersionsKept DEF HasRow, docVars
  <2> QED
    BY <1>2, <2>2, <2>3 DEF IInv
<1>5. CASE ~\E d \in Documents : HasRow(d)
  <2>1. PICK d \in Documents, b \in Bodies :
          /\ docStatus[d] = "none"
          /\ docStatus' = [docStatus EXCEPT ![d] = "published"]
          /\ docIndex' = [docIndex EXCEPT ![d] = "indexed"]
          /\ versionBody' = [versionBody EXCEPT ![d][1] = b]
          /\ versionStatus' = [versionStatus EXCEPT ![d][1] = "published"]
    BY <1>5 DEF Restart
  <2>2. docStatus' \in [Documents -> DocStatuses]
          /\ docIndex' \in [Documents -> {"not_indexed", "pending", "indexed"}]
    BY <2>1 DEF IInv, TypeOK, DocStatuses
  <2>3. \A c \in Documents : docStatus'[c] = IF c = d THEN "published" ELSE docStatus[c]
    BY <2>1 DEF IInv, TypeOK
  <2>4. ~HasVersion(d, 1) /\ 1 \in Numbers
    BY <1>5, BoundsType DEF IInv, RowsAgree, HasVersion, Numbers
  <2>5. HasRow(d)' /\ (\A c \in Documents : HasRow(c) => HasRow(c)')
          /\ (\A c \in Documents : docStatus[c] # "none" => docStatus'[c] # "none")
          /\ (\A c \in Documents : HasRow(c)' => HasRow(c) \/ docStatus[c] = "none")
    BY <2>1, <2>3 DEF HasRow
  <2>6. /\ versionBody' \in [Documents -> [Numbers -> Bodies \cup {NoBody}]]
        /\ versionStatus' \in [Documents -> [Numbers -> VersionStatuses]]
        /\ Keeps /\ RowsAgree' /\ OnlyNewestIsDraft'
    <3>1. \A n \in Numbers : n = 1 => ~(n > 1)
      BY BoundsType, SMT DEF Numbers
    <3> QED
      BY <2>1, <2>4, <2>5, <3>1, InsertKeeps
  <2>7. TypeOK'
    BY <1>1, <1>3, <2>2, <2>6 DEF IInv, TypeOK
  <2> QED
    BY <1>2, <2>6, <2>7 DEF IInv
<1> QED
  BY <1>4, <1>5

-----------------------------------------------------------------------------
(* Theorems.                                                               *)

LEMMA NextIInv == IInv /\ [Next]_vars => IInv'
<1> SUFFICES ASSUME IInv, [Next]_vars PROVE IInv'
  OBVIOUS
<1>1. ASSUME NEW r \in Requests, Handle(r) PROVE IInv'
  <2>1. CASE \E d \in Documents : CreateDocument(r, d) \/ UpdateRead(r, d) \/ PublishRead(r, d)
    BY <2>1, CreateDocumentKeeps, UpdateReadKeeps, PublishReadKeeps
  <2>2. CASE \E b \in Bodies : InsertFirstVersion(r, b) \/ EditVersion(r, b) \/ InsertVersion(r, b)
    BY <2>2, InsertFirstVersionKeeps, EditVersionKeeps, InsertVersionKeeps
  <2>3. CASE UpdateDocument(r) \/ PublishVersion(r) \/ PublishDocument(r)
    BY <2>3, UpdateDocumentKeeps, PublishVersionKeeps, PublishDocumentKeeps
  <2>4. CASE IndexDocument(r) \/ MarkIndexed(r) \/ StatementFails(r)
    BY <2>4, IndexDocumentKeeps, MarkIndexedKeeps, StatementFailsKeeps
  <2>5. CASE \E d \in Documents : UpdateReadFails(r, d)
    BY <2>5, UpdateReadFailsKeeps
  <2> QED
    BY <1>1, <2>1, <2>2, <2>3, <2>4, <2>5 DEF Handle
<1>2. ASSUME NEW d \in Documents, DeleteDocument(d) PROVE IInv'
  BY <1>2, DeleteDocumentKeeps
<1>3. CASE Restart
  BY <1>3, RestartKeeps
<1>4. CASE UNCHANGED vars
  BY <1>4 DEF vars, docVars, versionVars, faultVars, IInv, TypeOK, Carries, RowsAgree,
    OnlyNewestIsDraft, HasRow, HasVersion
<1> QED
  BY <1>1, <1>2, <1>3, <1>4 DEF Next

\* IInv holds in every state: it says what a request that still has to write
\* carries, which neither of the two theorems after it says.
THEOREM InvariantHolds == Spec => []IInv
<1>1. Init => IInv
  BY InitIInv
<1>2. IInv /\ [Next]_vars => IInv'
  BY NextIInv
<1> QED
  BY <1>1, <1>2, PTL DEF Spec

\* The rows of documents and versions, what the index was handed and what
\* requests carry keep their types.
THEOREM TypeCorrect == Spec => []TypeOK
<1>1. IInv => TypeOK
  BY DEF IInv
<1> QED
  BY <1>1, InvariantHolds, PTL

\* However many updates and publications of a document run at the same time,
\* refused statements and restarts included, it has at most one draft, its
\* newest version, and no gap in its numbers.
THEOREM OneDraft == Spec => []OnlyNewestIsDraft
<1>1. IInv => OnlyNewestIsDraft
  BY DEF IInv
<1> QED
  BY <1>1, InvariantHolds, PTL

-----------------------------------------------------------------------------
(* Requests that nothing interrupts.                                        *)

\* What is so of document d and its version n before statement s of a request
\* that read them.
Progress(s, d, n, b) ==
  /\ s = "insert_first_version" =>
       n = 1 /\ NoVersions(d) /\ docStatus[d] = "draft" /\ indexBody[d] = NoBody
  /\ s = "insert_version" => \A m \in Numbers : HasVersion(d, m) => m < n
  /\ s = "edit_version" => IsNewest(d, n) /\ versionStatus[d][n] = "draft"
  /\ s = "update_document" /\ HasRow(d) => IsNewest(d, n) /\ versionStatus[d][n] = "draft"
  /\ s \in {"publish_version", "publish_document", "index", "mark_indexed"} =>
       IsNewest(d, n) /\ b = versionBody[d][n]
  /\ s \in {"publish_document", "index", "mark_indexed"} => versionStatus[d][n] = "published"
  /\ s \in {"index", "mark_indexed"} => docStatus[d] = "published"
  /\ s = "mark_indexed" => indexBody[d] = b

Held(r) == \A q \in Request : req[r] = q =>
  IF q.next = "idle" THEN q.doc = NoDocument ELSE Progress(q.next, q.doc, q.number, q.body)

Alone == \A r, q \in Requests : ~Free(r) /\ ~Free(q) => r = q

\* The document agrees with its newest version.
Shows(d) == \A n \in Numbers : HasRow(d) /\ IsNewest(d, n) =>
  /\ docStatus[d] = versionStatus[d][n]
  /\ docIndex[d] = "indexed" /\ indexBody[d] # NoBody => indexBody[d] = versionBody[d][n]

InOrder ==
  /\ Alone
  /\ \A r \in Requests : Held(r)
  /\ \A d \in Documents : AtRest(d) => Shows(d)
  /\ \A d \in Documents : docStatus[d] = "none" => indexBody[d] = NoBody

SequenceInv == IInv /\ (~disturbed => InOrder)

\* A step of one request while the others rest, about one document.
LEMMA OneRequest ==
  ASSUME IInv, InOrder, NEW r \in Requests, NEW q \in Request, NEW d \in Documents,
         \A s \in Requests \ {r} : Free(s), req' = [req EXCEPT ![r] = q],
         req[r].doc \in {d, NoDocument},
         IF q.next = "idle"
           THEN q.doc = NoDocument /\ Shows(d)'
           ELSE q.doc = d /\ Progress(q.next, q.doc, q.number, q.body)',
         \A c \in Documents \ {d} :
           /\ docStatus'[c] = docStatus[c] /\ docIndex'[c] = docIndex[c]
           /\ versionBody'[c] = versionBody[c] /\ versionStatus'[c] = versionStatus[c]
           /\ indexBody'[c] = indexBody[c],
         docStatus'[d] = "none" => indexBody'[d] = NoBody
  PROVE  InOrder'
<1> USE NoDocumentNew
<1>1. req'[r] = q /\ \A s \in Requests \ {r} : req'[s] = req[s]
  BY DEF IInv, TypeOK
<1>2. ASSUME NEW s \in Requests \ {r} PROVE req[s].doc = NoDocument /\ Held(s)'
  <2> PICK p \in Request : p = req[s]
    BY DEF IInv, TypeOK
  <2>1. p.next = "idle" /\ p.doc = NoDocument
    BY DEF InOrder, Held, Free
  <2> QED BY <1>1, <2>1 DEF Held
<1>3. Held(r)'
  BY <1>1 DEF Held
<1>4. ASSUME NEW c \in Documents, AtRest(c)' PROVE Shows(c)'
  <2>1. CASE c = d
    <3>1. q.doc # d
      BY <1>1, <1>4, <2>1 DEF AtRest
    <3> QED BY <2>1, <3>1
  <2>2. CASE c # d
    <3>1. AtRest(c)
      BY <1>2, <2>2 DEF AtRest
    <3>2. Shows(c)
      BY <3>1 DEF InOrder
    <3> QED BY <2>2, <3>2 DEF Shows, HasRow, IsNewest, HasVersion
  <2> QED BY <2>1, <2>2
<1>5. \A c \in Documents : docStatus'[c] = "none" => indexBody'[c] = NoBody
  BY DEF InOrder
<1>6. Alone'
  BY <1>1 DEF Alone, Free
<1> QED BY <1>2, <1>3, <1>4, <1>5, <1>6 DEF InOrder

\* What a request that goes on works on.
LEMMA Working ==
  ASSUME IInv, InOrder, NEW r \in Requests, ~Free(r)
  PROVE  \E q \in Request, d \in Documents, n \in Numbers, b \in Bodies \cup {NoBody} :
           /\ req[r] = q /\ q.doc = d /\ q.number = n /\ q.body = b
           /\ Progress(q.next, d, n, b) /\ docStatus[d] # "none"
<1> PICK q \in Request : q = req[r]
  BY DEF IInv, TypeOK
<1>1. q.next # "idle" /\ q.body \in Bodies \cup {NoBody}
  BY DEF Free, Request
<1>2. q.doc \in Documents /\ q.number \in Numbers /\ docStatus[q.doc] # "none"
  BY <1>1 DEF IInv, Carries
<1>3. Progress(q.next, q.doc, q.number, q.body)
  BY <1>1 DEF InOrder, Held
<1> QED BY <1>1, <1>2, <1>3

\* The next statement of a request is about the same version.
LEMMA GoesOn ==
  ASSUME IInv, NEW r \in Requests, NEW step \in Steps, Goto(r, step)
  PROVE  \E q \in Request : /\ req' = [req EXCEPT ![r] = q] /\ q.next = step
                            /\ q.doc = req[r].doc /\ q.number = req[r].number
                            /\ q.body = req[r].body
<1> PICK p \in Request : p = req[r]
  BY DEF IInv, TypeOK
<1> DEFINE q == [p EXCEPT !.next = step]
<1>1. q \in Request /\ q.next = step /\ q.doc = p.doc /\ q.number = p.number /\ q.body = p.body
  BY GotoType DEF Request
<1>2. req' = [req EXCEPT ![r] = q]
  BY DEF Goto, IInv, TypeOK
<1> HIDE DEF q
<1> QED BY <1>1, <1>2

LEMMA Ends ==
  ASSUME NEW r \in Requests, Finish(r)
  PROVE  \E q \in Request : q.next = "idle" /\ q.doc = NoDocument /\ req' = [req EXCEPT ![r] = q]
<1>1. Idle.next = "idle" /\ Idle.doc = NoDocument
  BY DEF Idle, Ask
<1> QED BY <1>1, IdleType DEF Finish

LEMMA Begins ==
  ASSUME NEW r \in Requests, NEW step \in Steps, NEW d \in Documents, NEW n \in Numbers,
         NEW b \in Bodies \cup {NoBody}, Begin(r, step, d, n, b)
  PROVE  \E q \in Request : /\ req' = [req EXCEPT ![r] = q] /\ q.next = step /\ q.doc = d
                            /\ q.number = n /\ q.body = b
<1> DEFINE q == Ask(step, d, n, b)
<1>1. q \in Request
  BY AskType, BoundsType DEF Numbers
<1>2. q.next = step /\ q.doc = d /\ q.number = n /\ q.body = b
  BY DEF Ask
<1>3. req' = [req EXCEPT ![r] = q]
  BY DEF Begin
<1> HIDE DEF q
<1> QED BY <1>1, <1>2, <1>3

\* An idle request works on no document.
LEMMA IdleRests ==
  ASSUME IInv, InOrder, NEW r \in Requests, Free(r)
  PROVE  req[r].doc = NoDocument
BY DEF IInv, TypeOK, InOrder, Held, Free

LEMMA OneNewest ==
  ASSUME NEW d, NEW n \in Numbers, NEW m \in Numbers, IsNewest(d, n), IsNewest(d, m)
  PROVE  n = m
BY BoundsType DEF IsNewest, Numbers

\* createDocument
LEMMA CreateDocumentInOrder ==
  ASSUME IInv, InOrder, NEW r \in Requests, \A s \in Requests \ {r} : Free(s),
         NEW d \in Documents, CreateDocument(r, d)
  PROVE  InOrder'
<1>1. /\ docStatus' = [docStatus EXCEPT ![d] = "draft"] /\ docStatus[d] = "none"
      /\ UNCHANGED <<docIndex, versionBody, versionStatus, indexBody>> /\ Free(r)
      /\ Begin(r, "insert_first_version", d, 1, NoBody)
  BY DEF CreateDocument, versionVars
<1>2. docStatus'[d] = "draft" /\ \A c \in Documents \ {d} : docStatus'[c] = docStatus[c]
  BY <1>1 DEF IInv, TypeOK
<1>3. 1 \in Numbers
  BY BoundsType DEF Numbers
<1>4. PICK q \in Request : /\ req' = [req EXCEPT ![r] = q] /\ q.next = "insert_first_version"
                           /\ q.doc = d /\ q.number = 1 /\ q.body = NoBody
  BY <1>1, <1>3, Begins DEF Steps
<1>5. NoVersions(d)' /\ indexBody'[d] = NoBody
  BY <1>1 DEF NoVersions, HasVersion, HasRow, IInv, RowsAgree, InOrder
<1>6. Progress(q.next, d, q.number, q.body)'
  BY <1>2, <1>4, <1>5 DEF Progress
<1> QED BY <1>1, <1>2, <1>4, <1>5, <1>6, IdleRests, OneRequest

LEMMA InsertFirstVersionInOrder ==
  ASSUME IInv, InOrder, NEW r \in Requests, \A s \in Requests \ {r} : Free(s),
         NEW b \in Bodies, InsertFirstVersion(r, b)
  PROVE  InOrder'
<1> USE NoBodyNew
<1>1. /\ At(r, "insert_first_version") /\ ~Free(r) /\ Finish(r)
      /\ UNCHANGED <<docStatus, docIndex, indexBody>>
  BY DEF InsertFirstVersion, At, Free, docVars
<1>2. PICK d \in Documents : /\ d = req[r].doc /\ NoVersions(d) /\ docStatus[d] = "draft"
                             /\ indexBody[d] = NoBody
  BY <1>1, Working DEF At, Progress
<1>3. 1 \in Numbers
  BY BoundsType DEF Numbers
<1>4. /\ versionBody' = [versionBody EXCEPT ![d][1] = b]
      /\ versionStatus' = [versionStatus EXCEPT ![d][1] = "draft"]
  BY <1>2, <1>3 DEF InsertFirstVersion, CanInsert, HasRow, NoVersions, InsertDraft
<1>5. /\ \A c \in Documents \ {d} : versionBody'[c] = versionBody[c] /\ versionStatus'[c] = versionStatus[c]
      /\ versionStatus'[d][1] = "draft"
      /\ \A m \in Numbers \ {1} : versionBody'[d][m] = NoBody
  BY <1>2, <1>3, <1>4 DEF IInv, TypeOK, NoVersions, HasVersion
<1>6. Shows(d)'
  BY <1>1, <1>2, <1>5 DEF Shows, IsNewest, HasVersion
<1>7. PICK q \in Request : q.next = "idle" /\ q.doc = NoDocument /\ req' = [req EXCEPT ![r] = q]
  BY <1>1, Ends
<1> QED BY <1>1, <1>2, <1>5, <1>6, <1>7, OneRequest

\* updateDocument
LEMMA UpdateReadInOrder ==
  ASSUME IInv, InOrder, NEW r \in Requests, \A s \in Requests \ {r} : Free(s),
         NEW d \in Documents, UpdateRead(r, d)
  PROVE  InOrder'
<1>1. /\ UNCHANGED <<docStatus, docIndex, versionBody, versionStatus, indexBody>> /\ Free(r)
      /\ docStatus[d] # "none"
  BY DEF UpdateRead, docVars, versionVars
<1>2. PICK n \in Numbers :
        \/ /\ IsNewest(d, n) /\ versionStatus[d][n] = "draft"
           /\ Begin(r, "edit_version", d, n, NoBody)
        \/ /\ \/ n = 1 /\ NoVersions(d)
              \/ n > 1 /\ IsNewest(d, n - 1)
           /\ Begin(r, "insert_version", d, n, NoBody)
  BY DEF UpdateRead
<1>3. CASE IsNewest(d, n) /\ versionStatus[d][n] = "draft" /\ Begin(r, "edit_version", d, n, NoBody)
  <2>1. PICK q \in Request : /\ req' = [req EXCEPT ![r] = q] /\ q.next = "edit_version"
                             /\ q.doc = d /\ q.number = n /\ q.body = NoBody
    BY <1>3, Begins DEF Steps
  <2>2. Progress(q.next, d, n, q.body)'
    BY <1>1, <1>3, <2>1 DEF Progress, IsNewest, HasVersion
  <2> QED BY <1>1, <2>1, <2>2, IdleRests, OneRequest
<1>4. CASE /\ \/ n = 1 /\ NoVersions(d)
              \/ n > 1 /\ IsNewest(d, n - 1)
           /\ Begin(r, "insert_version", d, n, NoBody)
  <2>1. PICK q \in Request : /\ req' = [req EXCEPT ![r] = q] /\ q.next = "insert_version"
                             /\ q.doc = d /\ q.number = n /\ q.body = NoBody
    BY <1>4, Begins DEF Steps
  <2>2. \A m \in Numbers : HasVersion(d, m) => m < n
    BY <1>4, BoundsType DEF NoVersions, IsNewest, Numbers
  <2>3. Progress(q.next, d, n, q.body)'
    BY <1>1, <2>1, <2>2 DEF Progress, HasVersion
  <2> QED BY <1>1, <2>1, <2>3, IdleRests, OneRequest
<1> QED BY <1>2, <1>3, <1>4

LEMMA EditVersionInOrder ==
  ASSUME IInv, InOrder, NEW r \in Requests, \A s \in Requests \ {r} : Free(s),
         NEW b \in Bodies, EditVersion(r, b)
  PROVE  InOrder'
<1> USE NoBodyNew
<1>1. /\ At(r, "edit_version") /\ ~Free(r) /\ Goto(r, "update_document")
      /\ UNCHANGED <<docStatus, docIndex, versionStatus, indexBody>>
  BY DEF EditVersion, At, Free, docVars
<1>2. PICK d \in Documents, n \in Numbers :
        /\ d = req[r].doc /\ n = req[r].number /\ docStatus[d] # "none"
        /\ IsNewest(d, n) /\ versionStatus[d][n] = "draft"
  BY <1>1, Working DEF At, Progress
<1>3. versionBody' = [versionBody EXCEPT ![d][n] = b]
  BY <1>2 DEF EditVersion, IsNewest, HasVersion, IInv, TypeOK
<1>4. /\ \A c \in Documents \ {d} : versionBody'[c] = versionBody[c]
      /\ \A m \in Numbers : HasVersion(d, m)' <=> HasVersion(d, m)
  BY <1>2, <1>3 DEF IInv, TypeOK, IsNewest, HasVersion
<1>5. PICK q \in Request : /\ req' = [req EXCEPT ![r] = q] /\ q.next = "update_document"
                           /\ q.doc = req[r].doc /\ q.number = req[r].number
                           /\ q.body = req[r].body
  BY <1>1, GoesOn DEF Steps
<1>6. IsNewest(d, n)'
  BY <1>2, <1>4 DEF IsNewest
<1>7. Progress(q.next, d, n, q.body)'
  BY <1>1, <1>2, <1>5, <1>6 DEF Progress
<1> QED BY <1>1, <1>2, <1>4, <1>5, <1>7, OneRequest

LEMMA InsertVersionInOrder ==
  ASSUME IInv, InOrder, NEW r \in Requests, \A s \in Requests \ {r} : Free(s),
         NEW b \in Bodies, InsertVersion(r, b)
  PROVE  InOrder'
<1> USE NoBodyNew
<1>1. /\ At(r, "insert_version") /\ ~Free(r) /\ Goto(r, "update_document")
      /\ UNCHANGED <<docStatus, docIndex, indexBody>>
  BY DEF InsertVersion, At, Free, docVars
<1>2. PICK d \in Documents, n \in Numbers :
        /\ d = req[r].doc /\ n = req[r].number /\ docStatus[d] # "none"
        /\ \A m \in Numbers : HasVersion(d, m) => m < n
  BY <1>1, Working DEF At, Progress
<1>3. PICK q \in Request : /\ req' = [req EXCEPT ![r] = q] /\ q.next = "update_document"
                           /\ q.doc = req[r].doc /\ q.number = req[r].number
                           /\ q.body = req[r].body
  BY <1>1, GoesOn DEF Steps
<1>4. CASE HasRow(d)
  <2>1. ~HasVersion(d, n)
    BY <1>2, BoundsType DEF Numbers
  <2>2. /\ versionBody' = [versionBody EXCEPT ![d][n] = b]
        /\ versionStatus' = [versionStatus EXCEPT ![d][n] = "draft"]
    BY <1>2, <1>4, <2>1 DEF InsertVersion, CanInsert, InsertDraft
  <2>3. /\ \A c \in Documents \ {d} : versionBody'[c] = versionBody[c] /\ versionStatus'[c] = versionStatus[c]
        /\ versionStatus'[d][n] = "draft"
        /\ \A m \in Numbers : HasVersion(d, m)' <=> m = n \/ HasVersion(d, m)
    BY <2>2 DEF IInv, TypeOK, HasVersion
  <2>4. IsNewest(d, n)'
    BY <1>2, <2>3, BoundsType DEF IsNewest, Numbers
  <2>5. Progress(q.next, d, n, q.body)'
    BY <1>3, <2>3, <2>4 DEF Progress
  <2> QED BY <1>1, <1>2, <1>3, <2>3, <2>5, OneRequest
<1>5. CASE ~HasRow(d)
  <2>1. UNCHANGED <<versionBody, versionStatus>> /\ ~HasRow(d)'
    BY <1>1, <1>2, <1>5 DEF InsertVersion, CanInsert, versionVars, HasRow
  <2>2. Progress(q.next, d, n, q.body)'
    BY <1>3, <2>1 DEF Progress
  <2> QED BY <1>1, <1>2, <1>3, <2>1, <2>2, OneRequest
<1> QED BY <1>4, <1>5

LEMMA UpdateDocumentInOrder ==
  ASSUME IInv, InOrder, NEW r \in Requests, \A s \in Requests \ {r} : Free(s), UpdateDocument(r)
  PROVE  InOrder'
<1>1. /\ At(r, "update_document") /\ ~Free(r) /\ Finish(r)
      /\ UNCHANGED <<versionBody, versionStatus, indexBody>>
  BY DEF UpdateDocument, At, Free, versionVars
<1>2. PICK d \in Documents, n \in Numbers :
        /\ d = req[r].doc /\ docStatus[d] # "none"
        /\ HasRow(d) => IsNewest(d, n) /\ versionStatus[d][n] = "draft"
  BY <1>1, Working DEF At, Progress
<1>3. SetDocument(d, "draft", "not_indexed")
  BY <1>2 DEF UpdateDocument
<1>4. /\ \A c \in Documents \ {d} : docStatus'[c] = docStatus[c] /\ docIndex'[c] = docIndex[c]
      /\ HasRow(d) => docStatus'[d] = "draft" /\ docIndex'[d] = "not_indexed"
      /\ ~HasRow(d) => docStatus'[d] = docStatus[d]
  BY <1>3 DEF SetDocument, docVars, IInv, TypeOK
<1>5. Shows(d)'
  <2> SUFFICES ASSUME NEW m \in Numbers, HasRow(d)', IsNewest(d, m)'
               PROVE  docStatus'[d] = versionStatus'[d][m] /\ docIndex'[d] # "indexed"
    BY DEF Shows
  <2>1. HasRow(d)
    BY <1>4 DEF HasRow
  <2>2. IsNewest(d, m)
    BY <1>1 DEF IsNewest, HasVersion
  <2>3. m = n
    BY <1>2, <2>1, <2>2, OneNewest
  <2> QED BY <1>1, <1>2, <1>4, <2>1, <2>3
<1>6. PICK q \in Request : q.next = "idle" /\ q.doc = NoDocument /\ req' = [req EXCEPT ![r] = q]
  BY <1>1, Ends
<1> QED BY <1>1, <1>2, <1>4, <1>5, <1>6, OneRequest

\* publishDocument
LEMMA PublishReadInOrder ==
  ASSUME IInv, InOrder, NEW r \in Requests, \A s \in Requests \ {r} : Free(s),
         NEW d \in Documents, PublishRead(r, d)
  PROVE  InOrder'
<1>1. /\ UNCHANGED <<docStatus, docIndex, versionBody, versionStatus, indexBody>> /\ Free(r)
  BY DEF PublishRead, docVars, versionVars
<1>2. PICK n \in Numbers : IsNewest(d, n) /\ Begin(r, "publish_version", d, n, versionBody[d][n])
  BY DEF PublishRead
<1>3. PICK b \in Bodies \cup {NoBody} : b = versionBody[d][n]
  BY DEF IInv, TypeOK
<1>4. PICK q \in Request : /\ req' = [req EXCEPT ![r] = q] /\ q.next = "publish_version"
                           /\ q.doc = d /\ q.number = n /\ q.body = b
  BY <1>2, <1>3, Begins DEF Steps
<1>5. Progress(q.next, d, n, b)'
  BY <1>1, <1>2, <1>3, <1>4 DEF Progress, IsNewest, HasVersion
<1>6. docStatus'[d] = "none" => indexBody'[d] = NoBody
  BY <1>1 DEF InOrder
<1> QED BY <1>1, <1>4, <1>5, <1>6, IdleRests, OneRequest

LEMMA PublishVersionInOrder ==
  ASSUME IInv, InOrder, NEW r \in Requests, \A s \in Requests \ {r} : Free(s), PublishVersion(r)
  PROVE  InOrder'
<1>1. /\ At(r, "publish_version") /\ ~Free(r) /\ Goto(r, "publish_document")
      /\ UNCHANGED <<docStatus, docIndex, versionBody, indexBody>>
  BY DEF PublishVersion, At, Free, docVars
<1>2. PICK d \in Documents, n \in Numbers, b \in Bodies \cup {NoBody} :
        /\ d = req[r].doc /\ n = req[r].number /\ b = req[r].body /\ docStatus[d] # "none"
        /\ IsNewest(d, n) /\ b = versionBody[d][n]
  BY <1>1, Working DEF At, Progress
<1>3. versionStatus' = [versionStatus EXCEPT ![d][n] = "published"]
  BY <1>2 DEF PublishVersion, IsNewest
<1>4. /\ \A c \in Documents \ {d} : versionStatus'[c] = versionStatus[c]
      /\ versionStatus'[d][n] = "published"
  BY <1>3 DEF IInv, TypeOK
<1>5. PICK q \in Request : /\ req' = [req EXCEPT ![r] = q] /\ q.next = "publish_document"
                           /\ q.doc = req[r].doc /\ q.number = req[r].number
                           /\ q.body = req[r].body
  BY <1>1, GoesOn DEF Steps
<1>6. Progress(q.next, d, n, b)'
  BY <1>1, <1>2, <1>4, <1>5 DEF Progress, IsNewest, HasVersion
<1> QED BY <1>1, <1>2, <1>4, <1>5, <1>6, OneRequest

LEMMA PublishDocumentInOrder ==
  ASSUME IInv, InOrder, NEW r \in Requests, \A s \in Requests \ {r} : Free(s), PublishDocument(r)
  PROVE  InOrder'
<1>1. /\ At(r, "publish_document") /\ ~Free(r) /\ Goto(r, "index")
      /\ UNCHANGED <<versionBody, versionStatus, indexBody>>
  BY DEF PublishDocument, At, Free, versionVars
<1>2. PICK d \in Documents, n \in Numbers, b \in Bodies \cup {NoBody} :
        /\ d = req[r].doc /\ n = req[r].number /\ b = req[r].body
        /\ IsNewest(d, n) /\ b = versionBody[d][n] /\ versionStatus[d][n] = "published"
  BY <1>1, Working DEF At, Progress
<1>3. HasRow(d)
  BY <1>2 DEF IsNewest, HasVersion, IInv, RowsAgree
<1>4. /\ \A c \in Documents \ {d} : docStatus'[c] = docStatus[c] /\ docIndex'[c] = docIndex[c]
      /\ docStatus'[d] = "published"
  BY <1>2, <1>3 DEF PublishDocument, SetDocument, IInv, TypeOK
<1>5. PICK q \in Request : /\ req' = [req EXCEPT ![r] = q] /\ q.next = "index"
                           /\ q.doc = req[r].doc /\ q.number = req[r].number
                           /\ q.body = req[r].body
  BY <1>1, GoesOn DEF Steps
<1>6. Progress(q.next, d, n, b)'
  BY <1>1, <1>2, <1>4, <1>5 DEF Progress, IsNewest, HasVersion
<1>7. /\ q.next # "idle" /\ q.doc = d /\ docStatus'[d] # "none" /\ req[r].doc = d
      /\ Progress(q.next, q.doc, q.number, q.body)'
  BY <1>2, <1>4, <1>5, <1>6
<1>8. req' = [req EXCEPT ![r] = q]
  BY <1>5
<1> QED BY <1>1, <1>4, <1>7, <1>8, OneRequest

LEMMA IndexDocumentInOrder ==
  ASSUME IInv, InOrder, NEW r \in Requests, \A s \in Requests \ {r} : Free(s), IndexDocument(r)
  PROVE  InOrder'
<1>1. /\ At(r, "index") /\ ~Free(r) /\ Goto(r, "mark_indexed")
      /\ UNCHANGED <<docStatus, docIndex, versionBody, versionStatus>>
  BY DEF IndexDocument, At, Free, versionVars, docVars
<1>2. PICK d \in Documents, n \in Numbers, b \in Bodies \cup {NoBody} :
        /\ d = req[r].doc /\ n = req[r].number /\ b = req[r].body
        /\ IsNewest(d, n) /\ b = versionBody[d][n] /\ versionStatus[d][n] = "published"
        /\ docStatus[d] = "published"
  BY <1>1, Working DEF At, Progress
<1>3. indexBody'[d] = b /\ \A c \in Documents \ {d} : indexBody'[c] = indexBody[c]
  BY <1>2 DEF IndexDocument, IInv, TypeOK
<1>4. PICK q \in Request : /\ req' = [req EXCEPT ![r] = q] /\ q.next = "mark_indexed"
                           /\ q.doc = req[r].doc /\ q.number = req[r].number
                           /\ q.body = req[r].body
  BY <1>1, GoesOn DEF Steps
<1>5. Progress(q.next, d, n, b)'
  BY <1>1, <1>2, <1>3, <1>4 DEF Progress, IsNewest, HasVersion
<1> QED BY <1>1, <1>2, <1>3, <1>4, <1>5, OneRequest

LEMMA MarkIndexedInOrder ==
  ASSUME IInv, InOrder, NEW r \in Requests, \A s \in Requests \ {r} : Free(s), MarkIndexed(r)
  PROVE  InOrder'
<1>1. /\ At(r, "mark_indexed") /\ ~Free(r) /\ Finish(r)
      /\ UNCHANGED <<versionBody, versionStatus, indexBody>>
  BY DEF MarkIndexed, At, Free, versionVars
<1>2. PICK d \in Documents, n \in Numbers, b \in Bodies \cup {NoBody} :
        /\ d = req[r].doc /\ n = req[r].number /\ b = req[r].body
        /\ IsNewest(d, n) /\ b = versionBody[d][n] /\ versionStatus[d][n] = "published"
        /\ docStatus[d] = "published" /\ indexBody[d] = b
  BY <1>1, Working DEF At, Progress
<1>3. /\ \A c \in Documents \ {d} : docStatus'[c] = docStatus[c] /\ docIndex'[c] = docIndex[c]
      /\ docStatus'[d] = "published"
  BY <1>2 DEF MarkIndexed, SetDocument, HasRow, IInv, TypeOK
<1>4. Shows(d)'
  <2> SUFFICES ASSUME NEW m \in Numbers, IsNewest(d, m)'
               PROVE  docStatus'[d] = versionStatus'[d][m] /\ indexBody'[d] = versionBody'[d][m]
    BY DEF Shows
  <2>1. IsNewest(d, m)
    BY <1>1 DEF IsNewest, HasVersion
  <2>2. m = n
    BY <1>2, <2>1, OneNewest
  <2> QED BY <1>1, <1>2, <1>3, <2>2
<1>5. PICK q \in Request : q.next = "idle" /\ q.doc = NoDocument /\ req' = [req EXCEPT ![r] = q]
  BY <1>1, Ends
<1> QED BY <1>1, <1>2, <1>3, <1>4, <1>5, OneRequest

\* Steps that need every request idle.
LEMMA DeleteDocumentInOrder ==
  ASSUME IInv, InOrder, \A r \in Requests : Free(r), NEW d \in Documents, DeleteDocument(d)
  PROVE  InOrder'
<1>1. /\ req' = req /\ indexBody' = indexBody
      /\ docStatus' = [docStatus EXCEPT ![d] = "removed"]
      /\ docIndex' = [docIndex EXCEPT ![d] = "not_indexed"]
      /\ versionBody' = [versionBody EXCEPT ![d] = [n \in Numbers |-> NoBody]]
      /\ versionStatus' = [versionStatus EXCEPT ![d] = [n \in Numbers |-> "none"]]
  BY DEF DeleteDocument
<1>2. /\ docStatus'[d] = "removed"
      /\ \A c \in Documents \ {d} :
           /\ docStatus'[c] = docStatus[c] /\ docIndex'[c] = docIndex[c]
           /\ versionBody'[c] = versionBody[c] /\ versionStatus'[c] = versionStatus[c]
  BY <1>1 DEF IInv, TypeOK
<1>3. Alone' /\ \A r \in Requests : Held(r)'
  <2>1. ASSUME NEW r \in Requests PROVE Held(r)'
    <3>1. req'[r].next = "idle" /\ req'[r].doc = NoDocument
      BY <1>1, IdleRests DEF Free
    <3> QED BY <3>1 DEF Held
  <2> QED BY <1>1, <2>1 DEF Alone, Free
<1>4. ASSUME NEW c \in Documents PROVE Shows(c)'
  <2>1. CASE c = d
    BY <1>2, <2>1 DEF Shows, HasRow
  <2>2. CASE c # d
    <3>1. Shows(c)
      BY IdleRests, NoDocumentNew DEF InOrder, AtRest
    <3> QED BY <1>1, <1>2, <2>2, <3>1 DEF Shows, HasRow, IsNewest, HasVersion
  <2> QED BY <2>1, <2>2
<1>5. \A c \in Documents : docStatus'[c] = "none" => indexBody'[c] = NoBody
  BY <1>1, <1>2 DEF InOrder
<1> QED BY <1>3, <1>4, <1>5 DEF InOrder

LEMMA RestartInOrder ==
  ASSUME IInv, InOrder, \A r \in Requests : Free(r), Restart
  PROVE  InOrder'
<1>1. indexBody' = indexBody /\ \A r \in Requests : req'[r] = Idle
  BY DEF Restart
<1>2. Alone' /\ \A r \in Requests : Held(r)'
  BY <1>1 DEF Alone, Free, Held, Idle, Ask
<1>3. \A c \in Documents : Shows(c)
  BY IdleRests, NoDocumentNew DEF InOrder, AtRest
<1>4. CASE UNCHANGED <<docVars, versionVars>>
  <2>1. UNCHANGED <<docStatus, docIndex, versionBody, versionStatus, indexBody>>
    BY <1>1, <1>4 DEF docVars, versionVars
  <2>2. \A c \in Documents : Shows(c)'
    BY <1>3, <2>1 DEF Shows, HasRow, IsNewest, HasVersion
  <2> QED BY <1>2, <2>1, <2>2 DEF InOrder
<1>5. ASSUME NEW d \in Documents, NEW b \in Bodies, docStatus[d] = "none",
             docStatus' = [docStatus EXCEPT ![d] = "published"],
             docIndex' = [docIndex EXCEPT ![d] = "indexed"],
             versionBody' = [versionBody EXCEPT ![d][1] = b],
             versionStatus' = [versionStatus EXCEPT ![d][1] = "published"]
      PROVE  InOrder'
  <2>1. 1 \in Numbers
    BY BoundsType DEF Numbers
  <2>2. /\ docStatus'[d] = "published" /\ versionStatus'[d][1] = "published"
        /\ \A m \in Numbers \ {1} : versionBody'[d][m] = versionBody[d][m]
        /\ \A c \in Documents \ {d} :
             /\ docStatus'[c] = docStatus[c] /\ docIndex'[c] = docIndex[c]
             /\ versionBody'[c] = versionBody[c] /\ versionStatus'[c] = versionStatus[c]
    BY <1>5, <2>1 DEF IInv, TypeOK
  <2>3. indexBody'[d] = NoBody /\ \A m \in Numbers : versionBody[d][m] = NoBody
    BY <1>1, <1>5 DEF InOrder, IInv, RowsAgree, HasRow
  <2>4. ASSUME NEW c \in Documents PROVE Shows(c)'
    <3>1. CASE c = d
      BY <2>2, <2>3, <3>1 DEF Shows, IsNewest, HasVersion
    <3>2. CASE c # d
      BY <1>1, <1>3, <2>2, <3>2 DEF Shows, HasRow, IsNewest, HasVersion
    <3> QED BY <3>1, <3>2
  <2>5. \A c \in Documents : docStatus'[c] = "none" => indexBody'[c] = NoBody
    BY <1>1, <2>2 DEF InOrder
  <2> QED BY <1>2, <2>4, <2>5 DEF InOrder
<1> QED BY <1>4, <1>5 DEF Restart

LEMMA SequenceStep ==
  ASSUME SequenceInv, [MCNext]_<<vars, disturbed>>
  PROVE  SequenceInv'
<1>1. IInv /\ IInv' /\ TypeOK
  <2>1. [Next]_vars
    BY DEF MCNext
  <2> QED BY <2>1, NextIInv DEF SequenceInv, IInv
<1> SUFFICES ASSUME ~disturbed' PROVE InOrder'
  BY <1>1 DEF SequenceInv
<1>2. CASE UNCHANGED <<vars, disturbed>>
  <2>1. InOrder /\ UNCHANGED <<docStatus, docIndex, versionBody, versionStatus, indexBody, req>>
    BY <1>2 DEF SequenceInv, vars, docVars, versionVars
  <2> QED
    BY <2>1 DEF InOrder, Alone, Free, Held, Progress, AtRest, Shows, HasRow, IsNewest, HasVersion,
      NoVersions
<1>3. CASE MCNext
  <2>1. InOrder /\ ~Interrupted
    BY <1>3 DEF SequenceInv, MCNext
  <2>2. ASSUME NEW r \in Requests, Handle(r) PROVE InOrder'
    <3>1. \A s \in Requests \ {r} : Free(s)
      <4>1. \E q : req' = [req EXCEPT ![r] = q]
        BY <2>2 DEF Handle, CreateDocument, UpdateRead, UpdateReadFails, PublishRead,
          InsertFirstVersion, EditVersion,
          InsertVersion, UpdateDocument, PublishVersion, PublishDocument, IndexDocument,
          MarkIndexed, StatementFails, Begin, Goto, Finish
      <4>2. \A s \in Requests \ {r} : req'[s] = req[s]
        BY <1>1, <4>1 DEF TypeOK
      <4> QED BY <2>1, <4>2 DEF Interrupted
    <3>2. ~StatementFails(r) /\ \A d \in Documents : ~UpdateReadFails(r, d)
      <4>1. StatementFails(r) \/ (\E d \in Documents : UpdateReadFails(r, d)) => errors' # errors
        BY <1>1 DEF StatementFails, UpdateReadFails, TypeOK
      <4> QED BY <2>1, <4>1 DEF Interrupted
    <3>3. CASE \E d \in Documents : CreateDocument(r, d) \/ UpdateRead(r, d) \/ PublishRead(r, d)
      BY <1>1, <2>1, <3>1, <3>3, CreateDocumentInOrder, UpdateReadInOrder, PublishReadInOrder
    <3>4. CASE \E b \in Bodies : InsertFirstVersion(r, b) \/ EditVersion(r, b) \/ InsertVersion(r, b)
      BY <1>1, <2>1, <3>1, <3>4, InsertFirstVersionInOrder, EditVersionInOrder, InsertVersionInOrder
    <3> QED
      BY <1>1, <2>1, <2>2, <3>1, <3>2, <3>3, <3>4, UpdateDocumentInOrder, PublishVersionInOrder,
        PublishDocumentInOrder, IndexDocumentInOrder, MarkIndexedInOrder DEF Handle
  <2>3. ASSUME NEW d \in Documents, DeleteDocument(d) PROVE InOrder'
    <3>1. \A r \in Requests : Free(r)
      BY <2>1, <2>3 DEF DeleteDocument, Interrupted
    <3> QED BY <1>1, <2>1, <2>3, <3>1, DeleteDocumentInOrder
  <2>4. CASE Restart
    <3>1. restarts' # restarts
      BY <1>1, <2>4 DEF Restart, TypeOK
    <3>2. \A r \in Requests : Free(r)
      BY <2>1, <3>1 DEF Interrupted
    <3> QED BY <1>1, <2>1, <2>4, <3>2, RestartInOrder
  <2> QED BY <1>3, <2>2, <2>3, <2>4 DEF MCNext, Next
<1> QED BY <1>2, <1>3

LEMMA InitSequence == MCInit => SequenceInv
<1> SUFFICES ASSUME MCInit PROVE SequenceInv
  OBVIOUS
<1>1. IInv
  BY InitIInv DEF MCInit
<1>2. \A r \in Requests : req[r] = Idle
  BY DEF MCInit, Init
<1>3. Alone /\ \A r \in Requests : Held(r)
  BY <1>2 DEF Alone, Free, Held, Idle, Ask
<1>4. \A d \in Documents : indexBody[d] = NoBody
  BY DEF MCInit, Init
<1>5. ASSUME NEW d \in Documents PROVE Shows(d)
  <2>1. ASSUME NEW n \in Numbers, HasRow(d), IsNewest(d, n) PROVE docStatus[d] = versionStatus[d][n]
    BY <2>1 DEF MCInit, Init, HasRow, IsNewest, HasVersion
  <2> QED BY <1>4, <2>1 DEF Shows
<1> QED BY <1>1, <1>3, <1>4, <1>5 DEF SequenceInv, InOrder

\* Handlers that run one after the other, no statement refused, leave a document
\* in agreement with its newest version.  (updateDocument, publishDocument)
THEOREM DocumentsShowNewest == MCSpec => []DocumentShowsNewestInSequence
<1>1. SequenceInv => DocumentShowsNewestInSequence
  BY DEF SequenceInv, InOrder, Shows, DocumentShowsNewestInSequence, DocumentShowsNewest
<1>2. SequenceInv /\ [MCNext]_<<vars, disturbed>> => SequenceInv'
  BY SequenceStep
<1> QED BY <1>1, <1>2, InitSequence, PTL DEF MCSpec

\* Handlers that run one after the other, no statement refused, never leave a
\* document marked as indexed whose content changed after it was handed to the
\* index.  (updateDocument, publishDocument)
THEOREM IndexShowsDocuments == MCSpec => []IndexShowsNewestInSequence
<1>1. SequenceInv => IndexShowsNewestInSequence
  BY DEF SequenceInv, InOrder, Shows, IndexShowsNewestInSequence, IndexShowsNewest
<1>2. SequenceInv /\ [MCNext]_<<vars, disturbed>> => SequenceInv'
  BY SequenceStep
<1> QED BY <1>1, <1>2, InitSequence, PTL DEF MCSpec

\* A statement of a handler that nothing interrupted writes no published version.
LEMMA FrozenStep ==
  ASSUME SequenceInv, [MCNext]_<<vars, disturbed>>
  PROVE  [~disturbed' => KeepsPublished]_vars
<1> SUFFICES ASSUME MCNext, ~disturbed', NEW d \in Documents, NEW n \in Numbers,
                    versionStatus[d][n] = "published", docStatus'[d] # "removed",
                    versionBody' # versionBody
             PROVE  versionBody'[d][n] = versionBody[d][n]
  BY DEF KeepsPublished, vars, versionVars
<1>1. IInv /\ InOrder /\ HasVersion(d, n)
  BY DEF SequenceInv, MCNext, IInv, RowsAgree, HasVersion
<1>2. ASSUME NEW r \in Requests, NEW b \in Bodies, EditVersion(r, b)
      PROVE  versionBody'[d][n] = versionBody[d][n]
  <2>1. At(r, "edit_version") /\ ~Free(r)
    BY <1>2 DEF EditVersion, At, Free
  <2>2. PICK c \in Documents, m \in Numbers :
          c = req[r].doc /\ m = req[r].number /\ versionStatus[c][m] = "draft"
    BY <1>1, <2>1, Working DEF At, Progress
  <2> QED BY <1>1, <1>2, <2>2 DEF EditVersion, IInv, TypeOK
<1>3. ASSUME NEW r \in Requests, NEW b \in Bodies, InsertFirstVersion(r, b) \/ InsertVersion(r, b)
      PROVE  versionBody'[d][n] = versionBody[d][n]
  <2>1. PICK c, m : ~HasVersion(c, m) /\ versionBody' = [versionBody EXCEPT ![c][m] = b]
    BY <1>3 DEF InsertFirstVersion, InsertVersion, CanInsert, InsertDraft, versionVars
  <2>2. ~(c = d /\ m = n)
    BY <1>1, <2>1
  <2> QED BY <1>1, <2>1, <2>2 DEF IInv, TypeOK
<1>4. ASSUME NEW c \in Documents, DeleteDocument(c) PROVE versionBody'[d][n] = versionBody[d][n]
  BY <1>1, <1>4 DEF DeleteDocument, IInv, TypeOK
<1>5. CASE Restart
  <2>1. PICK c \in Documents, b \in Bodies :
          docStatus[c] = "none" /\ versionBody' = [versionBody EXCEPT ![c][1] = b]
    BY <1>5 DEF Restart, versionVars
  <2>2. c # d
    BY <1>1, <2>1 DEF IInv, RowsAgree, HasVersion, HasRow
  <2> QED BY <1>1, <2>1, <2>2 DEF IInv, TypeOK
<1> QED
  BY <1>2, <1>3, <1>4, <1>5 DEF MCNext, Next, Handle, CreateDocument, UpdateRead, UpdateReadFails,
    PublishRead, UpdateDocument, PublishVersion, PublishDocument, IndexDocument, MarkIndexed, StatementFails,
    versionVars

\* Handlers that run one after the other, no statement refused, never change the
\* content of a published version: the edit finds the draft that updateDocument read.
THEOREM PublishedVersionStays == MCSpec => PublishedVersionFrozenInSequence
<1>1. SequenceInv /\ [MCNext]_<<vars, disturbed>> => [~disturbed' => KeepsPublished]_vars
  BY FrozenStep
<1>2. SequenceInv /\ [MCNext]_<<vars, disturbed>> => SequenceInv'
  BY SequenceStep
<1> QED BY <1>1, <1>2, InitSequence, PTL DEF MCSpec, PublishedVersionFrozenInSequence
=============================================================================
