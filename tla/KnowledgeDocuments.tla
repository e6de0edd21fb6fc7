-------------------------- MODULE KnowledgeDocuments --------------------------
(***************************************************************************)
(* The documents of one knowledge base and their versions.  Every handler  *)
(* issues one autocommit statement after another and, except for the two   *)
(* inserts of createDocument, discards the errors of what it writes.       *)
(* knowledge_bases.document_count, which createDocument recomputes for     *)
(* display, is left out.                                                   *)
(*                                                                         *)
(* The newest version of a document is the row with the largest number;    *)
(* the row of the document holds no content.  A handler that has read      *)
(* something and still has to write keeps it in req.  An operator named    *)
(* <Definition>_<Slip> is not part of the model: it is the definition      *)
(* after it with a plausible mistake.                                      *)
(***************************************************************************)
EXTENDS Integers

CONSTANTS
  Documents,    \* ids of knowledge_documents rows; ids are not used twice
  Bodies,       \* contents a client can write
  NoBody,       \* no row, or nothing handed to the index
  NoDocument,   \* the document of a request that works on none
  Requests,     \* HTTP requests the server handles at the same time
  MaxVersion,   \* bound: version numbers
  MaxRestarts,  \* bound: restarts of the server
  MaxErrors     \* bound: statements the database refuses

ASSUME NoBodyNew == NoBody \notin Bodies
ASSUME NoDocumentNew == NoDocument \notin Documents
ASSUME BoundsType == MaxVersion \in Nat \ {0} /\ MaxRestarts \in Nat /\ MaxErrors \in Nat

Numbers == 1..MaxVersion

VARIABLES
  docStatus,      \* knowledge_documents.status, "none" and "removed" without a row
  docIndex,       \* knowledge_documents.index_status
  versionBody,    \* content of the version row, NoBody while there is none
  versionStatus,  \* knowledge_document_versions.status
  indexBody,      \* what the index was handed last for the document
  req,            \* what each request has read and still has to do
  restarts, errors

docVars == <<docStatus, docIndex>>
versionVars == <<versionBody, versionStatus>>
faultVars == <<restarts, errors>>
vars == <<docVars, versionVars, indexBody, req, faultVars>>

DocStatuses == {"none", "draft", "published", "removed"}
VersionStatuses == {"none", "draft", "published"}
Steps == {"idle", "insert_first_version", "edit_version",
          "insert_version", "update_document", "publish_version",
          "publish_document", "index", "mark_indexed"}
Request == [next : Steps, doc : Documents \cup {NoDocument}, number : 0..MaxVersion,
            body : Bodies \cup {NoBody}]
Ask(step, d, n, b) == [next |-> step, doc |-> d, number |-> n, body |-> b]
Idle == Ask("idle", NoDocument, 0, NoBody)

TypeOK ==
  /\ docStatus \in [Documents -> DocStatuses]
  /\ docIndex \in [Documents -> {"not_indexed", "pending", "indexed"}]
  /\ versionBody \in [Documents -> [Numbers -> Bodies \cup {NoBody}]]
  /\ versionStatus \in [Documents -> [Numbers -> VersionStatuses]]
  /\ indexBody \in [Documents -> Bodies \cup {NoBody}]
  /\ req \in [Requests -> Request]
  /\ restarts \in 0..MaxRestarts
  /\ errors \in 0..MaxErrors

\* The first boot gives each of its knowledge bases a published document; a
\* base a client creates has none.
Init ==
  \E seeded \in SUBSET Documents, b \in Bodies :
    /\ docStatus = [d \in Documents |-> IF d \in seeded THEN "published" ELSE "none"]
    /\ docIndex = [d \in Documents |-> IF d \in seeded THEN "indexed" ELSE "not_indexed"]
    /\ versionBody = [d \in Documents |-> [n \in Numbers |->
         IF d \in seeded /\ n = 1 THEN b ELSE NoBody]]
    /\ versionStatus = [d \in Documents |-> [n \in Numbers |->
         IF d \in seeded /\ n = 1 THEN "published" ELSE "none"]]
    /\ indexBody = [d \in Documents |-> NoBody]
    /\ req = [r \in Requests |-> Idle]
    /\ restarts = 0
    /\ errors = 0

HasRow(d) == docStatus[d] \notin {"none", "removed"}
Free(r) == req[r].next = "idle"
At(r, step) == req[r].next = step
Begin(r, step, d, n, b) == req' = [req EXCEPT ![r] = Ask(step, d, n, b)]
Goto(r, step) == req' = [req EXCEPT ![r].next = step]
Finish(r) == req' = [req EXCEPT ![r] = Idle]

HasVersion(d, n) == versionBody[d][n] # NoBody
\* SELECT ... ORDER BY version DESC LIMIT 1
IsNewest(d, n) == HasVersion(d, n) /\ \A m \in Numbers : HasVersion(d, m) => m <= n
NoVersions(d) == \A n \in Numbers : ~HasVersion(d, n)

\* The INSERT of a draft: refused without the document and when the document
\* has a version of that number.
CanInsert(d, n) == HasRow(d) /\ ~HasVersion(d, n)
InsertDraft(d, n, b) ==
  /\ versionBody' = [versionBody EXCEPT ![d][n] = b]
  /\ versionStatus' = [versionStatus EXCEPT ![d][n] = "draft"]

-----------------------------------------------------------------------------
(* createDocument                                                          *)

CreateDocument(r, d) ==
  /\ Free(r)
  /\ docStatus[d] = "none"
  /\ docStatus' = [docStatus EXCEPT ![d] = "draft"]
  /\ Begin(r, "insert_first_version", d, 1, NoBody)
  /\ UNCHANGED <<docIndex, versionVars, indexBody, faultVars>>

InsertFirstVersion(r, b) ==
  LET d == req[r].doc IN
  /\ At(r, "insert_first_version")
  /\ IF CanInsert(d, 1)
       THEN InsertDraft(d, 1, b)
       ELSE UNCHANGED versionVars
  /\ Finish(r)
  /\ UNCHANGED <<docVars, indexBody, faultVars>>

-----------------------------------------------------------------------------
(* updateDocument                                                          *)

UpdateRead_NewVersion(r, d) ==
  /\ Free(r)
  /\ docStatus[d] # "none"
  /\ \E n \in Numbers \ {1} :
       /\ IsNewest(d, n - 1)
       /\ Begin(r, "insert_version", d, n, NoBody)
  /\ UNCHANGED <<docVars, versionVars, indexBody, faultVars>>

UpdateRead_EditsAnything(r, d) ==
  /\ Free(r)
  /\ \E n \in Numbers :
       /\ IsNewest(d, n)
       /\ Begin(r, "edit_version", d, n, NoBody)
  /\ UNCHANGED <<docVars, versionVars, indexBody, faultVars>>

\* Edit the newest version when it is a draft, insert the next one otherwise.
UpdateRead(r, d) ==
  /\ Free(r)
  /\ docStatus[d] # "none"
  /\ \E n \in Numbers :
       LET edit == IsNewest(d, n) /\ versionStatus[d][n] = "draft"
           insert == \/ n = 1 /\ NoVersions(d)
                     \/ n > 1 /\ IsNewest(d, n - 1) /\ versionStatus[d][n - 1] # "draft"
       IN
       /\ edit \/ insert
       /\ Begin(r, IF edit THEN "edit_version" ELSE "insert_version", d, n, NoBody)
  /\ UNCHANGED <<docVars, versionVars, indexBody, faultVars>>

\* The error of the SELECT is discarded: if it is refused, the handler goes on
\* as if there were no version.
UpdateReadFails(r, d) ==
  /\ Free(r)
  /\ docStatus[d] # "none"
  /\ errors < MaxErrors
  /\ errors' = errors + 1
  /\ Begin(r, "insert_version", d, 1, NoBody)
  /\ UNCHANGED <<docVars, versionVars, indexBody, restarts>>

\* The statement names the version and not its status.
EditVersion(r, b) ==
  LET d == req[r].doc n == req[r].number IN
  /\ At(r, "edit_version")
  /\ versionBody' = [versionBody EXCEPT ![d][n] = IF @ = NoBody THEN @ ELSE b]
  /\ Goto(r, "update_document")
  /\ UNCHANGED <<docVars, versionStatus, indexBody, faultVars>>

InsertVersion(r, b) ==
  LET d == req[r].doc n == req[r].number IN
  /\ At(r, "insert_version")
  /\ IF CanInsert(d, n) THEN InsertDraft(d, n, b) ELSE UNCHANGED versionVars
  /\ Goto(r, "update_document")
  /\ UNCHANGED <<docVars, indexBody, faultVars>>

SetDocument(d, status, index) ==
  IF HasRow(d)
    THEN /\ docStatus' = [docStatus EXCEPT ![d] = status]
         /\ docIndex' = [docIndex EXCEPT ![d] = index]
    ELSE UNCHANGED docVars

UpdateDocument_KeepsStatus(r) ==
  LET d == req[r].doc IN
  /\ At(r, "update_document")
  /\ SetDocument(d, docStatus[d], "not_indexed")
  /\ Finish(r)
  /\ UNCHANGED <<versionVars, indexBody, faultVars>>

UpdateDocument_KeepsIndex(r) ==
  LET d == req[r].doc IN
  /\ At(r, "update_document")
  /\ SetDocument(d, "draft", docIndex[d])
  /\ Finish(r)
  /\ UNCHANGED <<versionVars, indexBody, faultVars>>

UpdateDocument(r) ==
  /\ At(r, "update_document")
  /\ SetDocument(req[r].doc, "draft", "not_indexed")
  /\ Finish(r)
  /\ UNCHANGED <<versionVars, indexBody, faultVars>>

-----------------------------------------------------------------------------
(* publishDocument and deleteDocument                                      *)

PublishRead(r, d) ==
  /\ Free(r)
  /\ \E n \in Numbers :
       /\ IsNewest(d, n)
       /\ Begin(r, "publish_version", d, n, versionBody[d][n])
  /\ UNCHANGED <<docVars, versionVars, indexBody, faultVars>>

PublishVersion(r) ==
  LET d == req[r].doc n == req[r].number IN
  /\ At(r, "publish_version")
  /\ versionStatus' = [versionStatus EXCEPT ![d][n] =
       IF HasVersion(d, n) THEN "published" ELSE @]
  /\ Goto(r, "publish_document")
  /\ UNCHANGED <<docVars, versionBody, indexBody, faultVars>>

PublishDocument_SwapsColumns(r) ==
  /\ At(r, "publish_document")
  /\ SetDocument(req[r].doc, "pending", "published")
  /\ Goto(r, "index")
  /\ UNCHANGED <<versionVars, indexBody, faultVars>>

PublishDocument(r) ==
  /\ At(r, "publish_document")
  /\ SetDocument(req[r].doc, "published", "pending")
  /\ Goto(r, "index")
  /\ UNCHANGED <<versionVars, indexBody, faultVars>>

IndexDocument(r) ==
  /\ At(r, "index")
  /\ indexBody' = [indexBody EXCEPT ![req[r].doc] = req[r].body]
  /\ Goto(r, "mark_indexed")
  /\ UNCHANGED <<docVars, versionVars, faultVars>>

MarkIndexed(r) ==
  /\ At(r, "mark_indexed")
  /\ SetDocument(req[r].doc, docStatus[req[r].doc], "indexed")
  /\ Finish(r)
  /\ UNCHANGED <<versionVars, indexBody, faultVars>>

\* The foreign key deletes the versions with the document.  The index is not
\* told.
DeleteDocument(d) ==
  /\ HasRow(d)
  /\ docStatus' = [docStatus EXCEPT ![d] = "removed"]
  /\ docIndex' = [docIndex EXCEPT ![d] = "not_indexed"]
  /\ versionBody' = [versionBody EXCEPT ![d] = [n \in Numbers |-> NoBody]]
  /\ versionStatus' = [versionStatus EXCEPT ![d] = [n \in Numbers |-> "none"]]
  /\ UNCHANGED <<indexBody, req, faultVars>>

-----------------------------------------------------------------------------
(* Faults                                                                  *)

\* The database refuses a statement: createDocument reports it when it is the
\* insert of the version, every other handler goes on with its next statement.
StatementFails(r) ==
  /\ errors < MaxErrors
  /\ \/ At(r, "insert_first_version") /\ Finish(r)
     \/ At(r, "edit_version") /\ Goto(r, "update_document")
     \/ At(r, "insert_version") /\ Goto(r, "update_document")
     \/ At(r, "update_document") /\ Finish(r)
     \/ At(r, "publish_version") /\ Goto(r, "publish_document")
     \/ At(r, "publish_document") /\ Goto(r, "index")
     \/ At(r, "mark_indexed") /\ Finish(r)
  /\ errors' = errors + 1
  /\ UNCHANGED <<docVars, versionVars, indexBody, restarts>>

\* The server stops anywhere and boots again.  A knowledge base without any
\* document receives a published one.
Restart ==
  /\ restarts < MaxRestarts
  /\ restarts' = restarts + 1
  /\ req' = [r \in Requests |-> Idle]
  /\ IF \E d \in Documents : HasRow(d)
       THEN UNCHANGED <<docVars, versionVars>>
       ELSE \E d \in Documents, b \in Bodies :
         /\ docStatus[d] = "none"
         /\ docStatus' = [docStatus EXCEPT ![d] = "published"]
         /\ docIndex' = [docIndex EXCEPT ![d] = "indexed"]
         /\ versionBody' = [versionBody EXCEPT ![d][1] = b]
         /\ versionStatus' = [versionStatus EXCEPT ![d][1] = "published"]
  /\ UNCHANGED <<indexBody, errors>>

-----------------------------------------------------------------------------
Handle(r) ==
  \/ \E d \in Documents : CreateDocument(r, d) \/ UpdateRead(r, d) \/ PublishRead(r, d)
  \/ \E d \in Documents : UpdateReadFails(r, d)
  \/ \E b \in Bodies : InsertFirstVersion(r, b) \/ EditVersion(r, b) \/ InsertVersion(r, b)
  \/ UpdateDocument(r)
  \/ PublishVersion(r) \/ PublishDocument(r) \/ IndexDocument(r) \/ MarkIndexed(r)
  \/ StatementFails(r)

Next ==
  \/ \E r \in Requests : Handle(r)
  \/ \E d \in Documents : DeleteDocument(d)
  \/ Restart

Spec == Init /\ [][Next]_vars

-----------------------------------------------------------------------------
(* Properties                                                              *)

\* A document has at most one draft, its newest version, and no gap in its
\* numbers, although updateDocument takes the number and the status it read
\* before others wrote: a version follows only a published one.
OnlyNewestIsDraft == \A d \in Documents : \A n \in Numbers :
  n > 1 /\ HasVersion(d, n) => versionStatus[d][n - 1] = "published"

AtRest(d) == \A r \in Requests : req[r].doc # d

\* The status of a document is that of its newest version.
DocumentShowsNewest == \A d \in Documents, n \in Numbers :
  AtRest(d) /\ HasRow(d) /\ IsNewest(d, n) => docStatus[d] = versionStatus[d][n]

\* A document that says it is indexed is indexed with its newest content, as
\* far as the index was handed anything.
IndexShowsNewest == \A d \in Documents, n \in Numbers :
  AtRest(d) /\ HasRow(d) /\ IsNewest(d, n) /\ docIndex[d] = "indexed"
    /\ indexBody[d] # NoBody => indexBody[d] = versionBody[d][n]

\* Version records are immutable history (docs/knowledge-base.md): the content
\* of a published version stays what it was while the document exists.
KeepsPublished == \A d \in Documents, n \in Numbers :
  versionStatus[d][n] = "published" /\ docStatus'[d] # "removed" =>
    versionBody'[d][n] = versionBody[d][n]
PublishedVersionFrozen == [][KeepsPublished]_vars
=============================================================================
