---------------------------- MODULE KnowledgeItems ----------------------------
(***************************************************************************)
(* Knowledge items and their versions: the administration's handlers,      *)
(* which issue one autocommit statement after another, and those of the    *)
(* workspace and the imports, which use a transaction.                     *)
(*                                                                         *)
(* The content columns of an item and the payload of a version are one     *)
(* body.  The row of an item holds the body last written; each version has *)
(* a row of its own, UNIQUE (item_id, version), deleted with its item.     *)
(*                                                                         *)
(* A handler that has read something and still has to write keeps it in    *)
(* req.  An operator named <Definition>_<Slip> is not part of the model:   *)
(* it is the definition after it with a plausible mistake.                 *)
(***************************************************************************)
EXTENDS Integers, FiniteSets

CONSTANTS
  Items,        \* ids of knowledge_items rows; ids are not used twice
  Bodies,       \* contents a client can write
  NoBody,       \* no row, or nothing handed to the index
  NoItem,       \* the item of a request that works on none
  Requests,     \* HTTP requests the server handles at the same time
  MaxVersion,   \* bound: version numbers
  MaxRestarts,  \* bound: restarts of the server
  MaxErrors     \* bound: statements the database refuses

ASSUME NoBodyNew == NoBody \notin Bodies
ASSUME NoItemNew == NoItem \notin Items
ASSUME BoundsType == MaxVersion \in Nat \ {0} /\ MaxRestarts \in Nat /\ MaxErrors \in Nat

Numbers == 1..MaxVersion

VARIABLES
  itemStatus,     \* knowledge_items.status, "none" and "removed" without a row
  itemBody,       \* the content columns
  itemVersion,    \* knowledge_items.version
  itemIndex,      \* knowledge_items.index_status
  versionBody,    \* payload of the version row, NoBody while there is none
  versionStatus,  \* knowledge_item_versions.status
  indexBody,      \* what the index was handed last for the item
  req,            \* what each request has read and still has to do
  restarts, errors

itemVars == <<itemStatus, itemBody, itemVersion, itemIndex>>
versionVars == <<versionBody, versionStatus>>
faultVars == <<restarts, errors>>
vars == <<itemVars, versionVars, indexBody, req, faultVars>>

\* The status of a new item is the client's choice.
ClientStatuses == {"draft", "published"}
ItemStatuses == ClientStatuses \cup {"none", "deleted", "removed"}
VersionStatuses == ClientStatuses \cup {"none"}
Steps == {"idle", "insert_first_version", "update_item", "insert_version",
          "commit_update", "read_payload", "publish_item",
          "publish_version", "index", "mark_indexed"}
Request == [next : Steps, item : Items \cup {NoItem}, number : 0..MaxVersion,
            body : Bodies \cup {NoBody}, status : ClientStatuses]
Ask(step, i, n, b) ==
  [next |-> step, item |-> i, number |-> n, body |-> b, status |-> "draft"]
Idle == Ask("idle", NoItem, 0, NoBody)

TypeOK ==
  /\ itemStatus \in [Items -> ItemStatuses]
  /\ itemBody \in [Items -> Bodies \cup {NoBody}]
  /\ itemVersion \in [Items -> 0..MaxVersion]
  /\ itemIndex \in [Items -> {"not_indexed", "pending", "indexed"}]
  /\ versionBody \in [Items -> [Numbers -> Bodies \cup {NoBody}]]
  /\ versionStatus \in [Items -> [Numbers -> VersionStatuses]]
  /\ indexBody \in [Items -> Bodies \cup {NoBody}]
  /\ req \in [Requests -> Request]
  /\ restarts \in 0..MaxRestarts
  /\ errors \in 0..MaxErrors

Init ==
  \E seeded \in SUBSET Items, b \in Bodies :
    /\ itemStatus = [i \in Items |-> IF i \in seeded THEN "published" ELSE "none"]
    /\ itemBody = [i \in Items |-> IF i \in seeded THEN b ELSE NoBody]
    /\ itemVersion = [i \in Items |-> IF i \in seeded THEN 1 ELSE 0]
    /\ itemIndex = [i \in Items |-> IF i \in seeded THEN "indexed" ELSE "not_indexed"]
    /\ versionBody = [i \in Items |-> [n \in Numbers |->
         IF i \in seeded /\ n = 1 THEN b ELSE NoBody]]
    /\ versionStatus = [i \in Items |-> [n \in Numbers |->
         IF i \in seeded /\ n = 1 THEN "published" ELSE "none"]]
    /\ indexBody = [i \in Items |-> NoBody]
    /\ req = [r \in Requests |-> Idle]
    /\ restarts = 0
    /\ errors = 0

HasRow(i) == itemStatus[i] \notin {"none", "removed"}
Free(r) == req[r].next = "idle"
At(r, step) == req[r].next = step
Begin(r, step, i, n, b) == req' = [req EXCEPT ![r] = Ask(step, i, n, b)]
Goto(r, step) == req' = [req EXCEPT ![r].next = step]
Finish(r) == req' = [req EXCEPT ![r] = Idle]

\* INSERT INTO knowledge_item_versions: refused without the item and when
\* the item has a version of that number.
CanInsert_AnyNumber(i, n) == HasRow(i)
CanInsert(i, n) == HasRow(i) /\ versionBody[i][n] = NoBody
InsertVersion(i, n, b, status) ==
  /\ versionBody' = [versionBody EXCEPT ![i][n] = b]
  /\ versionStatus' = [versionStatus EXCEPT ![i][n] = status]

InsertItem(i, b, status) ==
  /\ itemStatus' = [itemStatus EXCEPT ![i] = status]
  /\ itemBody' = [itemBody EXCEPT ![i] = b]
  /\ itemVersion' = [itemVersion EXCEPT ![i] = 1]
  /\ UNCHANGED itemIndex

UpdateItem_KeepsIndex(i, b, n, status) ==
  /\ itemStatus' = [itemStatus EXCEPT ![i] = status]
  /\ itemBody' = [itemBody EXCEPT ![i] = b]
  /\ itemVersion' = [itemVersion EXCEPT ![i] = n]
  /\ UNCHANGED itemIndex

\* The UPDATE both update handlers issue.
UpdateItem(i, b, n, status) ==
  /\ itemStatus' = [itemStatus EXCEPT ![i] = status]
  /\ itemBody' = [itemBody EXCEPT ![i] = b]
  /\ itemVersion' = [itemVersion EXCEPT ![i] = n]
  /\ itemIndex' = [itemIndex EXCEPT ![i] = "not_indexed"]

-----------------------------------------------------------------------------
(* Administration: one action for each statement.                          *)

CreateItem(r, i, b, status) ==
  /\ Free(r)
  /\ itemStatus[i] = "none"
  /\ InsertItem(i, b, status)
  /\ req' = [req EXCEPT ![r] =
       [next |-> "insert_first_version", item |-> i, number |-> 1, body |-> b,
        status |-> status]]
  /\ UNCHANGED <<versionVars, indexBody, faultVars>>

\* Also the last statement of an update: a refused insert ends either handler.
InsertRow(r) ==
  LET q == req[r] IN
  /\ q.next \in {"insert_first_version", "insert_version"}
  /\ IF CanInsert(q.item, q.number)
       THEN InsertVersion(q.item, q.number, q.body, q.status)
       ELSE UNCHANGED versionVars
  /\ Finish(r)
  /\ UNCHANGED <<itemVars, indexBody, faultVars>>

UpdateRead_SameNumber(r, i) ==
  /\ Free(r)
  /\ HasRow(i)
  /\ Begin(r, "update_item", i, itemVersion[i], NoBody)
  /\ UNCHANGED <<itemVars, versionVars, indexBody, faultVars>>

\* Without a row the version is 0.
UpdateRead(r, i) ==
  LET current == IF HasRow(i) THEN itemVersion[i] ELSE 0 IN
  /\ Free(r)
  /\ itemStatus[i] # "none"
  /\ current < MaxVersion
  /\ Begin(r, "update_item", i, current + 1, NoBody)
  /\ UNCHANGED <<itemVars, versionVars, indexBody, faultVars>>

\* The error of this SELECT is discarded: if it is refused, the version is 0.
UpdateReadFails(r, i) ==
  /\ Free(r)
  /\ itemStatus[i] # "none"
  /\ errors < MaxErrors
  /\ errors' = errors + 1
  /\ Begin(r, "update_item", i, 1, NoBody)
  /\ UNCHANGED <<itemVars, versionVars, indexBody, restarts>>

UpdateWrite(r, b) ==
  LET q == req[r] IN
  /\ At(r, "update_item")
  /\ IF HasRow(q.item)
       THEN UpdateItem(q.item, b, q.number, "draft")
       ELSE UNCHANGED itemVars
  /\ req' = [req EXCEPT ![r].next = "insert_version", ![r].body = b]
  /\ UNCHANGED <<versionVars, indexBody, faultVars>>

PublishRead(r, i) ==
  /\ Free(r)
  /\ HasRow(i)
  /\ Begin(r, "read_payload", i, itemVersion[i], NoBody)
  /\ UNCHANGED <<itemVars, versionVars, indexBody, faultVars>>

\* There may be no such version: an update inserts it last.
PublishReadPayload(r) ==
  LET b == versionBody[req[r].item][req[r].number] IN
  /\ At(r, "read_payload")
  /\ IF b = NoBody
       THEN Finish(r)
       ELSE req' = [req EXCEPT ![r].next = "publish_item", ![r].body = b]
  /\ UNCHANGED <<itemVars, versionVars, indexBody, faultVars>>

PublishItem_SwapsColumns(r) ==
  LET i == req[r].item IN
  /\ At(r, "publish_item")
  /\ HasRow(i)
  /\ itemStatus' = [itemStatus EXCEPT ![i] = "pending"]
  /\ itemIndex' = [itemIndex EXCEPT ![i] = "published"]
  /\ Goto(r, "publish_version")
  /\ UNCHANGED <<itemBody, itemVersion, versionVars, indexBody, faultVars>>

PublishItem(r) ==
  LET i == req[r].item IN
  /\ At(r, "publish_item")
  /\ IF HasRow(i)
       THEN /\ itemStatus' = [itemStatus EXCEPT ![i] = "published"]
            /\ itemIndex' = [itemIndex EXCEPT ![i] = "pending"]
       ELSE UNCHANGED <<itemStatus, itemIndex>>
  /\ Goto(r, "publish_version")
  /\ UNCHANGED <<itemBody, itemVersion, versionVars, indexBody, faultVars>>

PublishVersion_Current(r) ==
  LET i == req[r].item IN
  /\ At(r, "publish_version")
  /\ versionStatus' = [versionStatus EXCEPT ![i] = [n \in Numbers |->
       IF n = itemVersion[i] /\ @[n] # "none" THEN "published" ELSE @[n]]]
  /\ Goto(r, "index")
  /\ UNCHANGED <<itemVars, versionBody, indexBody, faultVars>>

PublishVersion(r) ==
  LET q == req[r] IN
  /\ At(r, "publish_version")
  /\ versionStatus' = [versionStatus EXCEPT ![q.item][q.number] =
       IF @ = "none" THEN @ ELSE "published"]
  /\ Goto(r, "index")
  /\ UNCHANGED <<itemVars, versionBody, indexBody, faultVars>>

IndexDocument(r) ==
  /\ At(r, "index")
  /\ indexBody' = [indexBody EXCEPT ![req[r].item] = req[r].body]
  /\ Goto(r, "mark_indexed")
  /\ UNCHANGED <<itemVars, versionVars, faultVars>>

MarkIndexed(r) ==
  LET i == req[r].item IN
  /\ At(r, "mark_indexed")
  /\ itemIndex' = [itemIndex EXCEPT ![i] = IF HasRow(i) THEN "indexed" ELSE @]
  /\ Finish(r)
  /\ UNCHANGED <<itemStatus, itemBody, itemVersion, versionVars, indexBody,
                 faultVars>>

\* The foreign key deletes the versions with the item.  The index is not told.
DeleteItem(i) ==
  /\ HasRow(i)
  /\ itemStatus' = [itemStatus EXCEPT ![i] = "removed"]
  /\ itemBody' = [itemBody EXCEPT ![i] = NoBody]
  /\ itemVersion' = [itemVersion EXCEPT ![i] = 0]
  /\ itemIndex' = [itemIndex EXCEPT ![i] = "not_indexed"]
  /\ versionBody' = [versionBody EXCEPT ![i] = [n \in Numbers |-> NoBody]]
  /\ versionStatus' = [versionStatus EXCEPT ![i] = [n \in Numbers |-> "none"]]
  /\ UNCHANGED <<indexBody, req, faultVars>>

-----------------------------------------------------------------------------
(* Workspace and imports: transactions.                                    *)

\* Item and first version in one transaction.  An import writes drafts only.
CreateItemTx(i, b, status) ==
  /\ itemStatus[i] = "none"
  /\ InsertItem(i, b, status)
  /\ InsertVersion(i, 1, b, status)
  /\ UNCHANGED <<indexBody, req, faultVars>>

\* Whether the item was deleted is read before the transaction begins.
WorkspaceUpdateCheck(r, i) ==
  /\ Free(r)
  /\ HasRow(i)
  /\ itemStatus[i] # "deleted"
  /\ Begin(r, "commit_update", i, 0, NoBody)
  /\ UNCHANGED <<itemVars, versionVars, indexBody, faultVars>>

\* The transaction rolls back when the item is gone or the number is taken.
WorkspaceUpdate(r, b, status) ==
  LET i == req[r].item
      n == itemVersion[i] + 1
  IN
  /\ At(r, "commit_update")
  /\ n <= MaxVersion
  /\ IF CanInsert(i, n)
       THEN UpdateItem(i, b, n, status) /\ InsertVersion(i, n, b, status)
       ELSE UNCHANGED <<itemVars, versionVars>>
  /\ Finish(r)
  /\ UNCHANGED <<indexBody, faultVars>>

\* The row stays, with its versions.
WorkspaceDelete(i) ==
  /\ HasRow(i)
  /\ itemStatus[i] # "deleted"
  /\ itemStatus' = [itemStatus EXCEPT ![i] = "deleted"]
  /\ UNCHANGED <<itemBody, itemVersion, itemIndex, versionVars, indexBody, req,
                 faultVars>>

-----------------------------------------------------------------------------
(* Faults.                                                                 *)

\* The database refuses a statement.  A handler that discards the error goes
\* on with its next statement, the others answer with an error.
StatementFails(r) ==
  /\ errors < MaxErrors
  /\ req[r].next \notin {"idle", "index"}
  /\ IF At(r, "publish_version") THEN Goto(r, "index") ELSE Finish(r)
  /\ errors' = errors + 1
  /\ UNCHANGED <<itemVars, versionVars, indexBody, restarts>>

\* The server stops anywhere and boots again.  The boot inserts its items
\* when the table is empty, as published, without handing them to the index.
\* One item stands for the four.
Restart ==
  /\ restarts < MaxRestarts
  /\ restarts' = restarts + 1
  /\ req' = [r \in Requests |-> Idle]
  /\ IF \E i \in Items : HasRow(i)
       THEN UNCHANGED <<itemVars, versionVars>>
       ELSE \E i \in Items, b \in Bodies :
         /\ itemStatus[i] = "none"
         /\ itemStatus' = [itemStatus EXCEPT ![i] = "published"]
         /\ itemBody' = [itemBody EXCEPT ![i] = b]
         /\ itemVersion' = [itemVersion EXCEPT ![i] = 1]
         /\ itemIndex' = [itemIndex EXCEPT ![i] = "indexed"]
         /\ InsertVersion(i, 1, b, "published")
  /\ UNCHANGED <<indexBody, errors>>

-----------------------------------------------------------------------------
Handle(r) ==
  \/ \E i \in Items : UpdateRead(r, i) \/ PublishRead(r, i) \/ WorkspaceUpdateCheck(r, i)
  \/ \E i \in Items : UpdateReadFails(r, i)
  \/ \E i \in Items, b \in Bodies, s \in ClientStatuses : CreateItem(r, i, b, s)
  \/ InsertRow(r)
  \/ \E b \in Bodies : UpdateWrite(r, b)
  \/ \E b \in Bodies, s \in ClientStatuses : WorkspaceUpdate(r, b, s)
  \/ PublishReadPayload(r) \/ PublishItem(r) \/ PublishVersion(r)
  \/ IndexDocument(r) \/ MarkIndexed(r)
  \/ StatementFails(r)

Next ==
  \/ \E r \in Requests : Handle(r)
  \/ \E i \in Items, b \in Bodies, s \in ClientStatuses : CreateItemTx(i, b, s)
  \/ \E i \in Items : DeleteItem(i) \/ WorkspaceDelete(i)
  \/ Restart

Spec == Init /\ [][Next]_vars

-----------------------------------------------------------------------------
(* Properties.                                                             *)

\* Versions are immutable history (docs/knowledge-base.md calls item versions
\* immutable-oriented): whatever interleaves, no handler changes the payload
\* of a version row, takes a publication back or uses a number twice.
History == INSTANCE VersionHistory WITH
  Owners <- Items,
  body <- versionBody,
  released <- [i \in Items |-> {n \in Numbers : versionStatus[i][n] = "published"}],
  removed <- {i \in Items : itemStatus[i] = "removed"}

ImplementsHistory == History!Spec

Released(i, b) == \E n \in Numbers :
  versionStatus[i][n] = "published" /\ versionBody[i][n] = b

\* The index is only ever handed the payload of a published version, although
\* publishKnowledgeItem reads the payload three statements before: no draft
\* reaches it, also when an update or another publication runs in between.
\* The code discards the error of the statement that publishes the version,
\* so the property asks for a database that refuses none.
IndexedWasReleased ==
  errors = 0 =>
    \A i \in Items : HasRow(i) /\ indexBody[i] # NoBody => Released(i, indexBody[i])

\* No request works on the item.
AtRest(i) == \A r \in Requests : req[r].item # i

\* The row of an item and the version it names agree, in content and, unless
\* the item was deleted in the workspace, in status.
ItemShowsItsVersion == \A i \in Items :
  AtRest(i) /\ HasRow(i) =>
    /\ versionBody[i][itemVersion[i]] = itemBody[i]
    /\ itemStatus[i] # "deleted" => versionStatus[i][itemVersion[i]] = itemStatus[i]

\* An item that says it is indexed is indexed with its present content, as far
\* as the index was handed anything.
IndexShowsItem == \A i \in Items :
  AtRest(i) /\ HasRow(i) /\ itemIndex[i] = "indexed" /\ indexBody[i] # NoBody =>
    indexBody[i] = itemBody[i]

\* A draft is retained until it is published (docs/knowledge-base.md): what a
\* reader of a published item sees is the payload of a published version.
DraftRetained == \A i \in Items :
  AtRest(i) /\ itemStatus[i] = "published" => Released(i, itemBody[i])
=============================================================================
