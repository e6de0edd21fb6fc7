------------------------- MODULE KnowledgeItemsProofs -------------------------
(***************************************************************************)
(* Proofs about knowledge items: their versions implement VersionHistory,  *)
(* the index is handed published payloads only, and requests that nothing  *)
(* interrupts leave item, version and index in agreement.                  *)
(***************************************************************************)
EXTENDS MCKnowledgeItems, TLAPS

\* What a request may hold, by the statement it is about to issue.  The item it
\* works on has had a row.
Carries(r) ==
  LET q == req[r] IN
  /\ q.next # "idle" => q.item \in Items /\ itemStatus[q.item] # "none"
  /\ q.next \notin {"idle", "commit_update"} => q.number \in Numbers
  /\ q.next \notin {"idle", "commit_update", "update_item", "read_payload"} => q.body \in Bodies

\* An item with a row names a version number; only such items have versions;
\* a version has a payload if and only if it has a status; the index was handed
\* nothing for an item that never had a row.
RowsAgree == \A i \in Items :
  /\ HasRow(i) => itemVersion[i] \in Numbers
  /\ \A n \in Numbers :
       /\ versionBody[i][n] # NoBody => HasRow(i)
       /\ versionBody[i][n] = NoBody <=> versionStatus[i][n] = "none"
  /\ indexBody[i] # NoBody => itemStatus[i] # "none"

\* What a publication read is still the payload of that version, and once the
\* version is published the payload is released.
Follows(r) ==
  LET q == req[r] IN
  /\ q.next \in {"publish_item", "publish_version"} /\ HasRow(q.item) =>
       versionBody[q.item][q.number] = q.body
  /\ errors = 0 /\ q.next = "index" /\ HasRow(q.item) => Released(q.item, q.body)

IInv ==
  /\ TypeOK
  /\ \A r \in Requests : Carries(r)
  /\ RowsAgree
  /\ \A r \in Requests : Follows(r)
  /\ IndexedWasReleased

\* What every step does to rows that exist: ids are not used twice, and the
\* versions of an item that is not removed stay what they were.
Keeps == \A i \in Items :
  /\ HasRow(i)' => HasRow(i) \/ itemStatus[i] = "none"
  /\ itemStatus[i] # "none" => itemStatus'[i] # "none"
  /\ HasRow(i)' => \A n \in Numbers : versionBody[i][n] # NoBody =>
       /\ versionBody'[i][n] = versionBody[i][n]
       /\ versionStatus[i][n] = "published" => versionStatus'[i][n] = "published"

LEMMA InitIInv == Init => IInv
<1> SUFFICES ASSUME Init PROVE IInv
  OBVIOUS
<1> USE NoBodyNew, NoItemNew, BoundsType
<1>1. TypeOK
  BY SMTT(30) DEF Init, TypeOK, Numbers, ItemStatuses, ClientStatuses, VersionStatuses,
    Request, Idle, Ask, Steps
<1>2. \A r \in Requests : Carries(r)
  BY DEF Init, Carries, Idle, Ask
<1>3. RowsAgree
  BY SMTT(30) DEF Init, RowsAgree, HasRow, Numbers
<1>4. \A r \in Requests : Follows(r)
  BY DEF Init, Follows, Idle, Ask
<1>5. IndexedWasReleased
  BY DEF Init, IndexedWasReleased
<1> QED
  BY <1>1, <1>2, <1>3, <1>4, <1>5 DEF IInv

-----------------------------------------------------------------------------
(* Frames.                                                                 *)

\* The records a handler leaves in req.
LEMMA AskType ==
  ASSUME NEW step \in Steps, NEW i \in Items \cup {NoItem}, NEW n \in 0..MaxVersion,
         NEW b \in Bodies \cup {NoBody}
  PROVE  Ask(step, i, n, b) \in Request
BY DEF Ask, Request, ClientStatuses

LEMMA IdleType == Idle \in Request
BY AskType, BoundsType DEF Idle, Steps

LEMMA GotoType ==
  ASSUME NEW q \in Request, NEW step \in Steps
  PROVE  [q EXCEPT !.next = step] \in Request
BY DEF Request

LEMMA GotoBodyType ==
  ASSUME NEW q \in Request, NEW step \in Steps, NEW b \in Bodies
  PROVE  [q EXCEPT !.next = step, !.body = b] \in Request
BY DEF Request

\* The statement that inserts a version.
LEMMA InsertVersionEffect ==
  ASSUME TypeOK, NEW i \in Items, NEW n \in Numbers, NEW b \in Bodies,
         NEW s \in ClientStatuses, InsertVersion(i, n, b, s)
  PROVE  /\ versionBody' \in [Items -> [Numbers -> Bodies \cup {NoBody}]]
         /\ versionStatus' \in [Items -> [Numbers -> VersionStatuses]]
         /\ \A j \in Items, m \in Numbers :
              /\ versionBody'[j][m] = IF j = i /\ m = n THEN b ELSE versionBody[j][m]
              /\ versionStatus'[j][m] = IF j = i /\ m = n THEN s ELSE versionStatus[j][m]
BY DEF TypeOK, InsertVersion, VersionStatuses

\* A released body stays released while its item exists.
LEMMA ReleasedKept ==
  ASSUME RowsAgree, Keeps, NEW i \in Items, NEW b \in Bodies,
         Released(i, b), HasRow(i)'
  PROVE  Released(i, b)'
BY NoBodyNew DEF RowsAgree, Keeps, Released

\* A request that does not move goes on carrying and following what it did.
LEMMA OthersKept ==
  ASSUME IInv, Keeps, errors' = 0 => errors = 0,
         NEW r \in Requests, req'[r] = req[r]
  PROVE  Carries(r)' /\ Follows(r)'
<1> PICK q \in Request : q = req[r]
  BY DEF IInv, TypeOK
<1>1. Carries(r) /\ Follows(r)
  BY DEF IInv
<1>2. Carries(r)'
  BY <1>1 DEF Carries, Keeps
<1>3. ASSUME q.next \in {"publish_item", "publish_version"}, HasRow(q.item)'
      PROVE  versionBody'[q.item][q.number] = q.body
  <2>1. q.item \in Items /\ q.number \in Numbers /\ q.body \in Bodies
          /\ itemStatus[q.item] # "none"
    BY <1>1, <1>3 DEF Carries
  <2>2. HasRow(q.item) /\ versionBody[q.item][q.number] = q.body
    BY <1>1, <1>3, <2>1 DEF Follows, Keeps
  <2> QED
    BY <1>3, <2>1, <2>2, NoBodyNew DEF Keeps
<1>4. ASSUME errors' = 0, q.next = "index", HasRow(q.item)'
      PROVE  Released(q.item, q.body)'
  <2>1. q.item \in Items /\ q.body \in Bodies /\ itemStatus[q.item] # "none"
    BY <1>1, <1>4 DEF Carries
  <2>2. HasRow(q.item)
    BY <1>4, <2>1 DEF Keeps
  <2>3. Released(q.item, q.body)
    BY <1>1, <1>4, <2>2 DEF Follows
  <2> QED
    BY <1>4, <2>1, <2>3, ReleasedKept DEF IInv
<1>5. Follows(r)'
  BY <1>3, <1>4 DEF Follows, Released
<1> QED
  BY <1>2, <1>5

\* What the index holds stays released.
LEMMA IndexKept ==
  ASSUME IInv, Keeps, errors' = 0 => errors = 0, indexBody' = indexBody
  PROVE  IndexedWasReleased'
<1>1. SUFFICES ASSUME errors' = 0, NEW i \in Items, HasRow(i)',
                     NEW b \in Bodies, b = indexBody[i]
              PROVE  Released(i, b)'
  BY DEF IInv, TypeOK, IndexedWasReleased, Released
<1>2. HasRow(i)
  BY <1>1, NoBodyNew DEF IInv, RowsAgree, Keeps
<1>3. Released(i, b)
  BY <1>1, <1>2, NoBodyNew DEF IInv, IndexedWasReleased
<1> QED
  BY <1>1, <1>3, ReleasedKept DEF IInv

\* A step that leaves the versions alone and removes no row.
LEMMA VersionsKept ==
  ASSUME IInv, UNCHANGED versionVars,
         \A j \in Items : HasRow(j) => HasRow(j)',
         \A j \in Items : itemStatus[j] # "none" => itemStatus'[j] # "none",
         \A j \in Items : HasRow(j)' => HasRow(j) \/ itemStatus[j] = "none",
         \A j \in Items : HasRow(j)' => itemVersion'[j] \in Numbers,
         \A j \in Items : indexBody'[j] # NoBody => itemStatus'[j] # "none"
  PROVE  Keeps /\ RowsAgree'
<1>1. versionBody' = versionBody /\ versionStatus' = versionStatus
  BY DEF versionVars
<1> QED
  BY <1>1 DEF IInv, Keeps, RowsAgree

LEMMA NothingWritten ==
  ASSUME IInv, UNCHANGED <<itemVars, versionVars, indexBody>>
  PROVE  Keeps /\ RowsAgree'
BY DEF IInv, Keeps, RowsAgree, HasRow, itemVars, versionVars

\* A step that inserts a version with a new number.
LEMMA InsertKeeps ==
  ASSUME IInv, NEW i \in Items, NEW n \in Numbers, NEW b \in Bodies, NEW s \in ClientStatuses,
         InsertVersion(i, n, b, s), versionBody[i][n] = NoBody, HasRow(i)',
         \A j \in Items : HasRow(j) => HasRow(j)',
         \A j \in Items : itemStatus[j] # "none" => itemStatus'[j] # "none",
         \A j \in Items : HasRow(j)' => HasRow(j) \/ itemStatus[j] = "none",
         \A j \in Items : HasRow(j)' => itemVersion'[j] \in Numbers,
         \A j \in Items : indexBody'[j] # NoBody => itemStatus'[j] # "none"
  PROVE  /\ versionBody' \in [Items -> [Numbers -> Bodies \cup {NoBody}]]
         /\ versionStatus' \in [Items -> [Numbers -> VersionStatuses]]
         /\ Keeps /\ RowsAgree'
<1>1. /\ versionBody' \in [Items -> [Numbers -> Bodies \cup {NoBody}]]
      /\ versionStatus' \in [Items -> [Numbers -> VersionStatuses]]
      /\ \A j \in Items, m \in Numbers :
           /\ versionBody'[j][m] = IF j = i /\ m = n THEN b ELSE versionBody[j][m]
           /\ versionStatus'[j][m] = IF j = i /\ m = n THEN s ELSE versionStatus[j][m]
  BY InsertVersionEffect DEF IInv
<1>2. Keeps
  BY <1>1, NoBodyNew DEF IInv, RowsAgree, Keeps
<1>3. ASSUME NEW j \in Items, NEW m \in Numbers
      PROVE  /\ versionBody'[j][m] # NoBody => HasRow(j)'
             /\ versionBody'[j][m] = NoBody <=> versionStatus'[j][m] = "none"
  <2>1. CASE j = i /\ m = n
    BY <1>1, <2>1, NoBodyNew DEF ClientStatuses
  <2>2. CASE ~(j = i /\ m = n)
    <3>1. versionBody'[j][m] = versionBody[j][m] /\ versionStatus'[j][m] = versionStatus[j][m]
      BY <1>1, <2>2
    <3> QED
      BY <3>1 DEF IInv, RowsAgree
  <2> QED
    BY <2>1, <2>2
<1>4. RowsAgree'
  BY <1>3 DEF RowsAgree
<1> QED
  BY <1>1, <1>2, <1>4

\* A step of one request, from what it keeps and what that request then holds.
LEMMA StepOf ==
  ASSUME IInv, NEW r \in Requests, NEW q \in Request, req' = [req EXCEPT ![r] = q],
         TypeOK', Keeps, RowsAgree', errors' = 0 => errors = 0,
         indexBody' = indexBody \/ IndexedWasReleased', Carries(r)', Follows(r)'
  PROVE  IInv' /\ Keeps
<1>1. ASSUME NEW p \in Requests PROVE Carries(p)' /\ Follows(p)'
  <2>1. CASE p = r
    BY <2>1
  <2>2. CASE p # r
    <3>1. req'[p] = req[p]
      BY <2>2 DEF IInv, TypeOK
    <3> QED
      BY <3>1, OthersKept
  <2> QED
    BY <2>1, <2>2
<1>2. IndexedWasReleased'
  BY IndexKept
<1> QED
  BY <1>1, <1>2 DEF IInv

\* A step outside the requests.
LEMMA StepOfNone ==
  ASSUME IInv, UNCHANGED <<req, indexBody, faultVars>>, TypeOK', Keeps, RowsAgree'
  PROVE  IInv' /\ Keeps
<1>1. errors' = 0 => errors = 0
  BY DEF faultVars
<1>2. \A p \in Requests : Carries(p)' /\ Follows(p)'
  BY <1>1, OthersKept
<1>3. IndexedWasReleased'
  BY <1>1, IndexKept
<1> QED
  BY <1>2, <1>3 DEF IInv

-----------------------------------------------------------------------------
(* Steps.                                                                  *)

LEMMA InsertItemEffect ==
  ASSUME IInv, NEW i \in Items, NEW b \in Bodies, NEW s \in ClientStatuses,
         InsertItem(i, b, s), itemStatus[i] = "none"
  PROVE  /\ itemStatus' \in [Items -> ItemStatuses] /\ itemBody' \in [Items -> Bodies \cup {NoBody}]
         /\ itemVersion' \in [Items -> 0..MaxVersion] /\ itemIndex' = itemIndex
         /\ HasRow(i)'
         /\ \A j \in Items : itemStatus'[j] = IF j = i THEN s ELSE itemStatus[j]
         /\ \A j \in Items : itemVersion'[j] = IF j = i THEN 1 ELSE itemVersion[j]
BY BoundsType DEF IInv, TypeOK, InsertItem, ItemStatuses, ClientStatuses, HasRow

LEMMA UpdateItemEffect ==
  ASSUME IInv, NEW i \in Items, NEW b \in Bodies, NEW n \in Numbers, NEW s \in ClientStatuses,
         UpdateItem(i, b, n, s), HasRow(i)
  PROVE  /\ itemStatus' \in [Items -> ItemStatuses] /\ itemBody' \in [Items -> Bodies \cup {NoBody}]
         /\ itemVersion' \in [Items -> 0..MaxVersion]
         /\ itemIndex' \in [Items -> {"not_indexed", "pending", "indexed"}]
         /\ HasRow(i)'
         /\ \A j \in Items : HasRow(j)' <=> HasRow(j)
         /\ \A j \in Items : itemStatus'[j] = "none" <=> itemStatus[j] = "none"
         /\ \A j \in Items : itemVersion'[j] = IF j = i THEN n ELSE itemVersion[j]
<1>1. \A j \in Items : itemStatus'[j] = IF j = i THEN s ELSE itemStatus[j]
  BY DEF IInv, TypeOK, UpdateItem
<1>2. /\ itemStatus' \in [Items -> ItemStatuses] /\ itemBody' \in [Items -> Bodies \cup {NoBody}]
      /\ itemIndex' \in [Items -> {"not_indexed", "pending", "indexed"}]
  BY DEF IInv, TypeOK, UpdateItem, ItemStatuses
<1>3. /\ itemVersion' \in [Items -> 0..MaxVersion]
      /\ \A j \in Items : itemVersion'[j] = IF j = i THEN n ELSE itemVersion[j]
  BY BoundsType DEF IInv, TypeOK, UpdateItem, Numbers
<1> QED
  BY <1>1, <1>2, <1>3 DEF HasRow, ClientStatuses

LEMMA CreateItemKeeps ==
  ASSUME IInv, NEW r \in Requests, NEW i \in Items, NEW b \in Bodies, NEW s \in ClientStatuses,
         CreateItem(r, i, b, s)
  PROVE  IInv' /\ Keeps
<1> DEFINE q == [next |-> "insert_first_version", item |-> i, number |-> 1, body |-> b, status |-> s]
<1>1. /\ req' = [req EXCEPT ![r] = q]
      /\ InsertItem(i, b, s) /\ itemStatus[i] = "none"
      /\ UNCHANGED <<versionVars, indexBody, faultVars>>
  BY DEF CreateItem
<1>2. q \in Request
  BY BoundsType DEF Request, Steps
<1>3. TypeOK'
  BY <1>1, <1>2, InsertItemEffect DEF IInv, TypeOK, versionVars, faultVars
<1>4. Keeps /\ RowsAgree'
  BY <1>1, InsertItemEffect, VersionsKept, BoundsType DEF IInv, RowsAgree, HasRow, Numbers, ClientStatuses
<1>5. Carries(r)' /\ Follows(r)'
  BY <1>1, InsertItemEffect, BoundsType DEF IInv, TypeOK, Carries, Follows, ClientStatuses, Numbers
<1> QED
  BY <1>1, <1>2, <1>3, <1>4, <1>5, StepOf DEF faultVars

LEMMA InsertRowKeeps ==
  ASSUME IInv, NEW r \in Requests, InsertRow(r)
  PROVE  IInv' /\ Keeps
<1> PICK q \in Request : q = req[r]
  BY DEF IInv, TypeOK
<1>1. /\ q.item \in Items /\ itemStatus[q.item] # "none"
      /\ q.number \in Numbers /\ q.body \in Bodies /\ q.status \in ClientStatuses
  BY DEF IInv, Carries, InsertRow, Request
<1>2. /\ req' = [req EXCEPT ![r] = Idle]
      /\ UNCHANGED <<itemVars, indexBody, faultVars>>
  BY DEF InsertRow, Finish
<1>3. /\ versionBody' \in [Items -> [Numbers -> Bodies \cup {NoBody}]]
      /\ versionStatus' \in [Items -> [Numbers -> VersionStatuses]]
      /\ Keeps /\ RowsAgree'
  <2>1. CASE CanInsert(q.item, q.number)
    <3>1. InsertVersion(q.item, q.number, q.body, q.status)
      BY <2>1 DEF InsertRow
    <3> QED
      BY <1>1, <1>2, <2>1, <3>1, InsertKeeps DEF IInv, RowsAgree, CanInsert, HasRow, itemVars
  <2>2. CASE ~CanInsert(q.item, q.number)
    BY <1>2, <2>2, NothingWritten DEF IInv, TypeOK, InsertRow, versionVars
  <2> QED
    BY <2>1, <2>2
<1>4. TypeOK'
  BY <1>2, <1>3, IdleType DEF IInv, TypeOK, itemVars, faultVars
<1>5. Carries(r)' /\ Follows(r)'
  BY <1>2 DEF IInv, TypeOK, Carries, Follows, Idle, Ask
<1> QED
  BY <1>2, <1>3, <1>4, <1>5, IdleType, StepOf DEF faultVars

LEMMA UpdateReadKeeps ==
  ASSUME IInv, NEW r \in Requests, NEW i \in Items, UpdateRead(r, i)
  PROVE  IInv' /\ Keeps
<1> PICK n \in Numbers : n = (IF HasRow(i) THEN itemVersion[i] ELSE 0) + 1
  BY BoundsType DEF IInv, TypeOK, UpdateRead, Numbers
<1> DEFINE q == Ask("update_item", i, n, NoBody)
<1>1. /\ req' = [req EXCEPT ![r] = q] /\ itemStatus[i] # "none"
      /\ UNCHANGED <<itemVars, versionVars, indexBody, faultVars>>
  BY DEF UpdateRead, Begin
<1>2. q \in Request
  BY AskType, BoundsType DEF Steps, Numbers
<1>3. TypeOK'
  BY <1>1, <1>2 DEF IInv, TypeOK, itemVars, versionVars, faultVars
<1>4. Keeps /\ RowsAgree'
  BY <1>1, NothingWritten
<1>5. Carries(r)' /\ Follows(r)'
  BY <1>1 DEF IInv, TypeOK, Carries, Follows, Ask, itemVars
<1> QED
  BY <1>1, <1>2, <1>3, <1>4, <1>5, StepOf DEF faultVars

LEMMA UpdateReadFailsKeeps ==
  ASSUME IInv, NEW r \in Requests, NEW i \in Items, UpdateReadFails(r, i)
  PROVE  IInv' /\ Keeps
<1> DEFINE q == Ask("update_item", i, 1, NoBody)
<1>1. /\ req' = [req EXCEPT ![r] = q] /\ itemStatus[i] # "none"
      /\ UNCHANGED <<itemVars, versionVars, indexBody, restarts>>
      /\ errors < MaxErrors /\ errors' = errors + 1 /\ 1 \in Numbers
  BY BoundsType DEF UpdateReadFails, Begin, Numbers
<1>2. q \in Request
  BY <1>1, AskType, BoundsType DEF Steps, Numbers
<1>3. errors \in Nat /\ errors' \in 0..MaxErrors /\ errors' # 0
  BY <1>1, BoundsType DEF IInv, TypeOK
<1>4. TypeOK'
  BY <1>1, <1>2, <1>3 DEF IInv, TypeOK, itemVars, versionVars
<1>5. Keeps /\ RowsAgree'
  BY <1>1, NothingWritten
<1>6. Carries(r)' /\ Follows(r)'
  BY <1>1 DEF IInv, TypeOK, Carries, Follows, Ask, itemVars
<1> QED
  BY <1>1, <1>2, <1>3, <1>4, <1>5, <1>6, StepOf

LEMMA UpdateWriteKeeps ==
  ASSUME IInv, NEW r \in Requests, NEW b \in Bodies, UpdateWrite(r, b)
  PROVE  IInv' /\ Keeps
<1> PICK q \in Request : q = req[r]
  BY DEF IInv, TypeOK
<1> DEFINE p == [q EXCEPT !.next = "insert_version", !.body = b]
<1>1. q.item \in Items /\ itemStatus[q.item] # "none" /\ q.number \in Numbers
  BY DEF IInv, Carries, UpdateWrite, At
<1>2. /\ req' = [req EXCEPT ![r] = p]
      /\ UNCHANGED <<versionVars, indexBody, faultVars>>
  BY DEF UpdateWrite
<1>3. p \in Request
  BY GotoBodyType DEF Steps
<1>4. TypeOK' /\ Keeps /\ RowsAgree'
  <2>1. CASE HasRow(q.item)
    <3>1. UpdateItem(q.item, b, q.number, "draft") /\ "draft" \in ClientStatuses
      BY <2>1 DEF UpdateWrite, ClientStatuses
    <3>2. TypeOK'
      BY <1>1, <1>2, <1>3, <2>1, <3>1, UpdateItemEffect DEF IInv, TypeOK, versionVars, faultVars
    <3>3. Keeps /\ RowsAgree'
      BY <1>1, <1>2, <2>1, <3>1, UpdateItemEffect, VersionsKept DEF IInv, RowsAgree
    <3> QED
      BY <3>2, <3>3
  <2>2. CASE ~HasRow(q.item)
    <3>1. UNCHANGED itemVars
      BY <2>2 DEF UpdateWrite
    <3> QED
      BY <1>2, <1>3, <3>1, NothingWritten DEF IInv, TypeOK, itemVars, versionVars, faultVars
  <2> QED
    BY <2>1, <2>2
<1>5. Carries(r)' /\ Follows(r)'
  BY <1>1, <1>2, <1>4 DEF IInv, TypeOK, Carries, Follows, Keeps, Request
<1> QED
  BY <1>2, <1>3, <1>4, <1>5, StepOf DEF faultVars

LEMMA PublishReadKeeps ==
  ASSUME IInv, NEW r \in Requests, NEW i \in Items, PublishRead(r, i)
  PROVE  IInv' /\ Keeps
<1> PICK n \in Numbers : n = itemVersion[i]
  BY DEF IInv, RowsAgree, PublishRead
<1> DEFINE q == Ask("read_payload", i, n, NoBody)
<1>1. /\ req' = [req EXCEPT ![r] = q] /\ itemStatus[i] # "none"
      /\ UNCHANGED <<itemVars, versionVars, indexBody, faultVars>>
  BY DEF PublishRead, Begin, HasRow
<1>2. q \in Request
  BY AskType, BoundsType DEF Steps, Numbers
<1>3. TypeOK'
  BY <1>1, <1>2 DEF IInv, TypeOK, itemVars, versionVars, faultVars
<1>4. Keeps /\ RowsAgree'
  BY <1>1, NothingWritten
<1>5. Carries(r)' /\ Follows(r)'
  BY <1>1 DEF IInv, TypeOK, Carries, Follows, Ask, itemVars
<1> QED
  BY <1>1, <1>2, <1>3, <1>4, <1>5, StepOf DEF faultVars

LEMMA PublishReadPayloadKeeps ==
  ASSUME IInv, NEW r \in Requests, PublishReadPayload(r)
  PROVE  IInv' /\ Keeps
<1> PICK q \in Request : q = req[r]
  BY DEF IInv, TypeOK
<1> DEFINE b == versionBody[q.item][q.number]
           p == [q EXCEPT !.next = "publish_item", !.body = b]
<1>1. q.item \in Items /\ itemStatus[q.item] # "none" /\ q.number \in Numbers
  BY DEF IInv, Carries, PublishReadPayload, At
<1>2. UNCHANGED <<itemVars, versionVars, indexBody, faultVars>>
  BY DEF PublishReadPayload
<1>3. Keeps /\ RowsAgree'
  BY <1>2, NothingWritten
<1>4. CASE b = NoBody
  <2>1. req' = [req EXCEPT ![r] = Idle]
    BY <1>4 DEF PublishReadPayload, Finish
  <2>2. TypeOK'
    BY <1>2, <2>1, IdleType DEF IInv, TypeOK, itemVars, versionVars, faultVars
  <2>3. Carries(r)' /\ Follows(r)'
    BY <2>1 DEF IInv, TypeOK, Carries, Follows, Idle, Ask
  <2> QED
    BY <1>2, <1>3, <2>1, <2>2, <2>3, IdleType, StepOf DEF faultVars
<1>5. CASE b # NoBody
  <2>1. b \in Bodies
    BY <1>1, <1>5 DEF IInv, TypeOK
  <2>2. req' = [req EXCEPT ![r] = p] /\ p \in Request
    BY <1>5, <2>1, GotoBodyType DEF PublishReadPayload, Steps
  <2>3. TypeOK'
    BY <1>2, <2>2 DEF IInv, TypeOK, itemVars, versionVars, faultVars
  <2>4. Carries(r)' /\ Follows(r)'
    BY <1>1, <1>2, <2>1, <2>2 DEF IInv, TypeOK, Carries, Follows, Request, itemVars, versionVars
  <2> QED
    BY <1>2, <1>3, <2>2, <2>3, <2>4, StepOf DEF faultVars
<1> QED
  BY <1>4, <1>5

\* A row whose status and index are set is the row it was.
LEMMA SetItemKeeps ==
  ASSUME IInv, NEW i \in Items, NEW s \in ItemStatuses \ {"none", "removed"},
         NEW x \in {"not_indexed", "pending", "indexed"}, HasRow(i),
         itemStatus' = [itemStatus EXCEPT ![i] = s], itemIndex' = [itemIndex EXCEPT ![i] = x],
         UNCHANGED <<itemBody, itemVersion, versionVars, indexBody>>
  PROVE  /\ itemStatus' \in [Items -> ItemStatuses]
         /\ itemIndex' \in [Items -> {"not_indexed", "pending", "indexed"}]
         /\ Keeps /\ RowsAgree'
<1>1. /\ itemStatus' \in [Items -> ItemStatuses]
      /\ itemIndex' \in [Items -> {"not_indexed", "pending", "indexed"}]
      /\ \A j \in Items : itemStatus'[j] = IF j = i THEN s ELSE itemStatus[j]
  BY DEF IInv, TypeOK
<1>2. \A j \in Items : HasRow(j)' <=> HasRow(j)
  BY <1>1 DEF HasRow
<1>3. Keeps /\ RowsAgree'
  BY <1>1, <1>2, VersionsKept DEF IInv, RowsAgree, HasRow
<1> QED
  BY <1>1, <1>3

LEMMA PublishItemKeeps ==
  ASSUME IInv, NEW r \in Requests, PublishItem(r)
  PROVE  IInv' /\ Keeps
<1> PICK q \in Request : q = req[r]
  BY DEF IInv, TypeOK
<1> DEFINE p == [q EXCEPT !.next = "publish_version"]
<1>1. /\ q.item \in Items /\ itemStatus[q.item] # "none"
      /\ q.number \in Numbers /\ q.body \in Bodies
      /\ HasRow(q.item) => versionBody[q.item][q.number] = q.body
  BY DEF IInv, Carries, Follows, PublishItem, At
<1>2. /\ req' = [req EXCEPT ![r] = p]
      /\ UNCHANGED <<itemBody, itemVersion, versionVars, indexBody, faultVars>>
  BY DEF PublishItem, Goto
<1>3. p \in Request
  BY GotoType DEF Steps
<1>4. TypeOK' /\ Keeps /\ RowsAgree'
  <2>1. CASE HasRow(q.item)
    <3>1. /\ itemStatus' = [itemStatus EXCEPT ![q.item] = "published"]
          /\ itemIndex' = [itemIndex EXCEPT ![q.item] = "pending"]
          /\ "published" \in ItemStatuses \ {"none", "removed"}
      BY <2>1 DEF PublishItem, ItemStatuses, ClientStatuses
    <3>2. /\ itemStatus' \in [Items -> ItemStatuses]
          /\ itemIndex' \in [Items -> {"not_indexed", "pending", "indexed"}]
          /\ Keeps /\ RowsAgree'
      BY <1>1, <1>2, <2>1, <3>1, SetItemKeeps
    <3> QED
      BY <1>2, <1>3, <3>2 DEF IInv, TypeOK, versionVars, faultVars
  <2>2. CASE ~HasRow(q.item)
    <3>1. UNCHANGED itemVars
      BY <1>2, <2>2 DEF PublishItem, itemVars
    <3> QED
      BY <1>2, <1>3, <3>1, NothingWritten DEF IInv, TypeOK, itemVars, versionVars, faultVars
  <2> QED
    BY <2>1, <2>2
<1>5. Carries(r)' /\ Follows(r)'
  BY <1>1, <1>2, <1>4 DEF IInv, TypeOK, Carries, Follows, Keeps, Request, versionVars
<1> QED
  BY <1>2, <1>3, <1>4, <1>5, StepOf DEF faultVars

LEMMA PublishVersionKeeps ==
  ASSUME IInv, NEW r \in Requests, PublishVersion(r)
  PROVE  IInv' /\ Keeps
<1> PICK q \in Request : q = req[r]
  BY DEF IInv, TypeOK
<1> DEFINE p == [q EXCEPT !.next = "index"]
<1>1. /\ q.item \in Items /\ itemStatus[q.item] # "none"
      /\ q.number \in Numbers /\ q.body \in Bodies
      /\ HasRow(q.item) => versionBody[q.item][q.number] = q.body
  BY DEF IInv, Carries, Follows, PublishVersion, At
<1>2. /\ req' = [req EXCEPT ![r] = p]
      /\ versionStatus' = [versionStatus EXCEPT ![q.item][q.number] =
           IF @ = "none" THEN @ ELSE "published"]
      /\ UNCHANGED <<itemVars, versionBody, indexBody, faultVars>>
  BY DEF PublishVersion, Goto
<1>3. p \in Request
  BY GotoType DEF Steps
<1>4. /\ versionStatus' \in [Items -> [Numbers -> VersionStatuses]]
      /\ \A j \in Items, m \in Numbers : versionStatus'[j][m] =
           IF j = q.item /\ m = q.number /\ versionStatus[j][m] # "none"
             THEN "published" ELSE versionStatus[j][m]
  BY <1>1, <1>2 DEF IInv, TypeOK, VersionStatuses, ClientStatuses
<1>5. TypeOK'
  BY <1>2, <1>3, <1>4 DEF IInv, TypeOK, itemVars, faultVars
<1>6. Keeps /\ RowsAgree'
  BY <1>2, <1>4 DEF IInv, Keeps, RowsAgree, HasRow, itemVars
<1>7. Carries(r)'
  BY <1>1, <1>2 DEF IInv, TypeOK, Carries, Request, itemVars
<1>8. Follows(r)'
  <2>1. ASSUME HasRow(q.item) PROVE Released(q.item, q.body)'
    <3>1. versionStatus[q.item][q.number] # "none"
      BY <1>1, <2>1, NoBodyNew DEF IInv, RowsAgree
    <3> QED
      BY <1>1, <1>2, <1>4, <2>1, <3>1 DEF Released
  <2> QED
    BY <1>1, <1>2, <2>1 DEF IInv, TypeOK, Follows, Released, HasRow, Request, itemVars
<1> QED
  BY <1>2, <1>3, <1>5, <1>6, <1>7, <1>8, StepOf DEF faultVars

LEMMA IndexDocumentKeeps ==
  ASSUME IInv, NEW r \in Requests, IndexDocument(r)
  PROVE  IInv' /\ Keeps
<1> PICK q \in Request : q = req[r]
  BY DEF IInv, TypeOK
<1> DEFINE p == [q EXCEPT !.next = "mark_indexed"]
<1>1. /\ q.item \in Items /\ itemStatus[q.item] # "none"
      /\ q.number \in Numbers /\ q.body \in Bodies
      /\ errors = 0 /\ HasRow(q.item) => Released(q.item, q.body)
  BY DEF IInv, Carries, Follows, IndexDocument, At
<1>2. /\ req' = [req EXCEPT ![r] = p]
      /\ indexBody' = [indexBody EXCEPT ![q.item] = q.body]
      /\ UNCHANGED <<itemVars, versionVars, faultVars>>
  BY DEF IndexDocument, Goto
<1>3. p \in Request
  BY GotoType DEF Steps
<1>4. TypeOK'
  BY <1>1, <1>2, <1>3 DEF IInv, TypeOK, itemVars, versionVars, faultVars
<1>5. \A j \in Items : indexBody'[j] = IF j = q.item THEN q.body ELSE indexBody[j]
  BY <1>2 DEF IInv, TypeOK
<1>6. Keeps /\ RowsAgree'
  BY <1>1, <1>2, <1>5, VersionsKept DEF IInv, RowsAgree, HasRow, itemVars
<1>7. IndexedWasReleased'
  <2> SUFFICES ASSUME errors = 0, NEW i \in Items, HasRow(i), indexBody'[i] # NoBody
               PROVE  Released(i, indexBody'[i])
    BY <1>2 DEF IndexedWasReleased, HasRow, Released, itemVars, versionVars, faultVars
  <2> QED
    BY <1>1, <1>5 DEF IInv, IndexedWasReleased
<1>8. Carries(r)' /\ Follows(r)'
  BY <1>1, <1>2 DEF IInv, TypeOK, Carries, Follows, Request, itemVars
<1> QED
  BY <1>2, <1>3, <1>4, <1>6, <1>7, <1>8, StepOf DEF faultVars

LEMMA MarkIndexedKeeps ==
  ASSUME IInv, NEW r \in Requests, MarkIndexed(r)
  PROVE  IInv' /\ Keeps
<1>1. /\ req' = [req EXCEPT ![r] = Idle]
      /\ UNCHANGED <<itemStatus, itemBody, itemVersion, versionVars, indexBody, faultVars>>
  BY DEF MarkIndexed, Finish
<1>2. itemIndex' \in [Items -> {"not_indexed", "pending", "indexed"}]
  BY DEF IInv, TypeOK, MarkIndexed
<1>3. TypeOK'
  BY <1>1, <1>2, IdleType DEF IInv, TypeOK, versionVars, faultVars
<1>4. Keeps /\ RowsAgree'
  BY <1>1, VersionsKept DEF IInv, RowsAgree, HasRow
<1>5. Carries(r)' /\ Follows(r)'
  BY <1>1 DEF IInv, TypeOK, Carries, Follows, Idle, Ask
<1> QED
  BY <1>1, <1>3, <1>4, <1>5, IdleType, StepOf DEF faultVars

LEMMA DeleteItemKeeps ==
  ASSUME IInv, NEW i \in Items, DeleteItem(i)
  PROVE  IInv' /\ Keeps
<1>1. TypeOK'
  BY BoundsType DEF IInv, TypeOK, DeleteItem, ItemStatuses, VersionStatuses, faultVars
<1>2. \A j \in Items :
        /\ itemStatus'[j] = IF j = i THEN "removed" ELSE itemStatus[j]
        /\ j # i => itemVersion'[j] = itemVersion[j]
        /\ \A n \in Numbers :
             /\ versionBody'[j][n] = IF j = i THEN NoBody ELSE versionBody[j][n]
             /\ versionStatus'[j][n] = IF j = i THEN "none" ELSE versionStatus[j][n]
  BY DEF IInv, TypeOK, DeleteItem
<1>3. Keeps
  BY <1>2 DEF Keeps, HasRow
<1>4. RowsAgree'
  BY <1>2 DEF IInv, RowsAgree, HasRow, DeleteItem
<1> QED
  BY <1>1, <1>3, <1>4, StepOfNone DEF DeleteItem

LEMMA CreateItemTxKeeps ==
  ASSUME IInv, NEW i \in Items, NEW b \in Bodies, NEW s \in ClientStatuses, CreateItemTx(i, b, s)
  PROVE  IInv' /\ Keeps
<1>1. /\ itemStatus[i] = "none" /\ InsertItem(i, b, s) /\ InsertVersion(i, 1, b, s)
      /\ UNCHANGED <<indexBody, req, faultVars>>
  BY DEF CreateItemTx
<1>2. 1 \in Numbers /\ versionBody[i][1] = NoBody
  BY <1>1, BoundsType DEF IInv, RowsAgree, HasRow, Numbers
<1>3. \A j \in Items : /\ HasRow(j) => HasRow(j)'
                       /\ itemStatus[j] # "none" => itemStatus'[j] # "none"
                       /\ HasRow(j)' => HasRow(j) \/ itemStatus[j] = "none"
                       /\ HasRow(j)' => itemVersion'[j] \in Numbers
                       /\ indexBody'[j] # NoBody => itemStatus'[j] # "none"
  BY <1>1, <1>2, InsertItemEffect DEF IInv, RowsAgree, HasRow, ClientStatuses
<1>4. /\ versionBody' \in [Items -> [Numbers -> Bodies \cup {NoBody}]]
      /\ versionStatus' \in [Items -> [Numbers -> VersionStatuses]]
      /\ Keeps /\ RowsAgree'
  BY <1>1, <1>2, <1>3, InsertItemEffect, InsertKeeps
<1>5. TypeOK'
  BY <1>1, <1>4, InsertItemEffect DEF IInv, TypeOK, faultVars
<1> QED
  BY <1>1, <1>4, <1>5, StepOfNone

LEMMA WorkspaceUpdateCheckKeeps ==
  ASSUME IInv, NEW r \in Requests, NEW i \in Items, WorkspaceUpdateCheck(r, i)
  PROVE  IInv' /\ Keeps
<1> DEFINE q == Ask("commit_update", i, 0, NoBody)
<1>1. /\ req' = [req EXCEPT ![r] = q] /\ itemStatus[i] # "none"
      /\ UNCHANGED <<itemVars, versionVars, indexBody, faultVars>>
  BY DEF WorkspaceUpdateCheck, Begin, HasRow
<1>2. q \in Request
  BY AskType, BoundsType DEF Steps
<1>3. TypeOK'
  BY <1>1, <1>2 DEF IInv, TypeOK, itemVars, versionVars, faultVars
<1>4. Keeps /\ RowsAgree'
  BY <1>1, NothingWritten
<1>5. Carries(r)' /\ Follows(r)'
  BY <1>1 DEF IInv, TypeOK, Carries, Follows, Ask, itemVars
<1> QED
  BY <1>1, <1>2, <1>3, <1>4, <1>5, StepOf DEF faultVars

LEMMA WorkspaceUpdateKeeps ==
  ASSUME IInv, NEW r \in Requests, NEW b \in Bodies, NEW s \in ClientStatuses,
         WorkspaceUpdate(r, b, s)
  PROVE  IInv' /\ Keeps
<1> PICK q \in Request : q = req[r]
  BY DEF IInv, TypeOK
<1>1. q.item \in Items /\ itemStatus[q.item] # "none"
  BY DEF IInv, Carries, WorkspaceUpdate, At
<1> PICK n \in Numbers : n = itemVersion[q.item] + 1
  BY <1>1, BoundsType DEF IInv, TypeOK, WorkspaceUpdate, Numbers
<1>2. /\ req' = [req EXCEPT ![r] = Idle]
      /\ UNCHANGED <<indexBody, faultVars>>
  BY DEF WorkspaceUpdate, Finish
<1>3. TypeOK' /\ Keeps /\ RowsAgree'
  <2>1. CASE CanInsert(q.item, n)
    <3>1. /\ UpdateItem(q.item, b, n, s) /\ InsertVersion(q.item, n, b, s)
          /\ HasRow(q.item) /\ versionBody[q.item][n] = NoBody
      BY <2>1 DEF WorkspaceUpdate, CanInsert
    <3>2. /\ HasRow(q.item)'
          /\ \A j \in Items : HasRow(j)' <=> HasRow(j)
          /\ \A j \in Items : itemStatus'[j] = "none" <=> itemStatus[j] = "none"
          /\ \A j \in Items : HasRow(j)' => itemVersion'[j] \in Numbers
      BY <1>1, <3>1, UpdateItemEffect DEF IInv, RowsAgree
    <3>3. /\ versionBody' \in [Items -> [Numbers -> Bodies \cup {NoBody}]]
          /\ versionStatus' \in [Items -> [Numbers -> VersionStatuses]]
          /\ Keeps /\ RowsAgree'
      BY <1>1, <1>2, <3>1, <3>2, InsertKeeps DEF IInv, RowsAgree
    <3> QED
      BY <1>1, <1>2, <3>1, <3>3, UpdateItemEffect, IdleType DEF IInv, TypeOK, faultVars
  <2>2. CASE ~CanInsert(q.item, n)
    <3>1. UNCHANGED <<itemVars, versionVars>>
      BY <2>2 DEF WorkspaceUpdate
    <3> QED
      BY <1>2, <3>1, IdleType, NothingWritten DEF IInv, TypeOK, itemVars, versionVars, faultVars
  <2> QED
    BY <2>1, <2>2
<1>4. Carries(r)' /\ Follows(r)'
  BY <1>2 DEF IInv, TypeOK, Carries, Follows, Idle, Ask
<1> QED
  BY <1>2, <1>3, <1>4, IdleType, StepOf DEF faultVars

LEMMA WorkspaceDeleteKeeps ==
  ASSUME IInv, NEW i \in Items, WorkspaceDelete(i)
  PROVE  IInv' /\ Keeps
<1>1. /\ HasRow(i) /\ itemStatus' = [itemStatus EXCEPT ![i] = "deleted"]
      /\ UNCHANGED <<itemBody, itemVersion, itemIndex, versionVars, indexBody, req, faultVars>>
  BY DEF WorkspaceDelete
<1>2. \A j \in Items : itemStatus'[j] = IF j = i THEN "deleted" ELSE itemStatus[j]
  BY <1>1 DEF IInv, TypeOK
<1>3. TypeOK'
  BY <1>1 DEF IInv, TypeOK, ItemStatuses, versionVars, faultVars
<1>4. Keeps /\ RowsAgree'
  BY <1>1, <1>2, VersionsKept DEF IInv, RowsAgree, HasRow
<1> QED
  BY <1>1, <1>3, <1>4, StepOfNone

LEMMA StatementFailsKeeps ==
  ASSUME IInv, NEW r \in Requests, StatementFails(r)
  PROVE  IInv' /\ Keeps
<1> PICK q \in Request : q = req[r]
  BY DEF IInv, TypeOK
<1>1. /\ UNCHANGED <<itemVars, versionVars, indexBody, restarts>>
      /\ errors' \in 0..MaxErrors /\ errors' # 0
  BY BoundsType DEF IInv, TypeOK, StatementFails
<1>2. Keeps /\ RowsAgree'
  BY <1>1, NothingWritten
<1>3. CASE q.next = "publish_version"
  <2> DEFINE p == [q EXCEPT !.next = "index"]
  <2>1. req' = [req EXCEPT ![r] = p]
    BY <1>3 DEF StatementFails, At, Goto
  <2>2. p \in Request
    BY GotoType DEF Steps
  <2>3. TypeOK'
    BY <1>1, <2>1, <2>2 DEF IInv, TypeOK, itemVars, versionVars
  <2>4. Carries(r) /\ itemStatus' = itemStatus /\ req'[r] = p
    BY <1>1, <2>1 DEF IInv, TypeOK, itemVars
  <2>5. Carries(r)' /\ Follows(r)'
    BY <1>1, <1>3, <2>4 DEF Carries, Follows, Request
  <2> QED
    BY <1>1, <1>2, <2>1, <2>2, <2>3, <2>5, StepOf
<1>4. CASE q.next # "publish_version"
  <2>1. req' = [req EXCEPT ![r] = Idle]
    BY <1>4 DEF StatementFails, At, Finish
  <2>2. TypeOK'
    BY <1>1, <2>1, IdleType DEF IInv, TypeOK, itemVars, versionVars
  <2>3. Carries(r)' /\ Follows(r)'
    BY <2>1 DEF IInv, TypeOK, Carries, Follows, Idle, Ask
  <2> QED
    BY <1>1, <1>2, <2>1, <2>2, <2>3, IdleType, StepOf
<1> QED
  BY <1>3, <1>4

LEMMA RestartKeeps ==
  ASSUME IInv, Restart
  PROVE  IInv' /\ Keeps
<1>1. /\ req' = [r \in Requests |-> Idle] /\ restarts' = restarts + 1 /\ restarts < MaxRestarts
      /\ UNCHANGED <<indexBody, errors>>
  BY DEF Restart
<1>2. \A r \in Requests : Carries(r)' /\ Follows(r)'
  BY <1>1 DEF Carries, Follows, Idle, Ask
<1>3. req' \in [Requests -> Request] /\ restarts' \in 0..MaxRestarts
  BY <1>1, IdleType, BoundsType DEF IInv, TypeOK
<1>4. TypeOK' /\ Keeps /\ RowsAgree'
  <2>1. CASE \E i \in Items : HasRow(i)
    <3>1. UNCHANGED <<itemVars, versionVars>>
      BY <2>1 DEF Restart
    <3> QED
      BY <1>1, <1>3, <3>1, NothingWritten DEF IInv, TypeOK, itemVars, versionVars
  <2>2. CASE ~\E i \in Items : HasRow(i)
    <3>1. PICK i \in Items, b \in Bodies :
            /\ itemStatus[i] = "none"
            /\ itemStatus' = [itemStatus EXCEPT ![i] = "published"]
            /\ itemBody' = [itemBody EXCEPT ![i] = b]
            /\ itemVersion' = [itemVersion EXCEPT ![i] = 1]
            /\ itemIndex' = [itemIndex EXCEPT ![i] = "indexed"]
            /\ InsertVersion(i, 1, b, "published")
      BY <2>2 DEF Restart
    <3>2. 1 \in Numbers /\ 1 \in 0..MaxVersion /\ versionBody[i][1] = NoBody /\ "published" \in ClientStatuses
      BY <3>1, BoundsType DEF IInv, RowsAgree, HasRow, Numbers, ClientStatuses
    <3>3. /\ itemStatus' \in [Items -> ItemStatuses] /\ itemBody' \in [Items -> Bodies \cup {NoBody}]
          /\ itemVersion' \in [Items -> 0..MaxVersion]
          /\ itemIndex' \in [Items -> {"not_indexed", "pending", "indexed"}]
          /\ \A j \in Items : itemStatus'[j] = IF j = i THEN "published" ELSE itemStatus[j]
          /\ \A j \in Items : itemVersion'[j] = IF j = i THEN 1 ELSE itemVersion[j]
      BY <3>1, <3>2 DEF IInv, TypeOK, ItemStatuses, ClientStatuses
    <3>4. HasRow(i)' /\ \A j \in Items :
            /\ HasRow(j) => HasRow(j)'
            /\ itemStatus[j] # "none" => itemStatus'[j] # "none"
            /\ HasRow(j)' => HasRow(j) \/ itemStatus[j] = "none"
            /\ HasRow(j)' => itemVersion'[j] \in Numbers
            /\ indexBody'[j] # NoBody => itemStatus'[j] # "none"
      BY <1>1, <3>1, <3>2, <3>3 DEF IInv, RowsAgree, HasRow
    <3>5. /\ versionBody' \in [Items -> [Numbers -> Bodies \cup {NoBody}]]
          /\ versionStatus' \in [Items -> [Numbers -> VersionStatuses]]
          /\ Keeps /\ RowsAgree'
      BY <3>1, <3>2, <3>4, InsertKeeps
    <3> QED
      BY <1>1, <1>3, <3>3, <3>5 DEF IInv, TypeOK
  <2> QED
    BY <2>1, <2>2
<1>5. IndexedWasReleased'
  BY <1>1, <1>4, IndexKept
<1> QED
  BY <1>2, <1>4, <1>5 DEF IInv

-----------------------------------------------------------------------------
(* The invariant.                                                          *)

LEMMA NextIInv == ASSUME IInv, [Next]_vars PROVE IInv'
<1>1. CASE UNCHANGED vars
  BY <1>1 DEF IInv, TypeOK, Carries, Follows, RowsAgree, IndexedWasReleased, HasRow, Released,
    vars, itemVars, versionVars, faultVars
<1>2. ASSUME NEW r \in Requests, Handle(r) PROVE IInv'
  BY <1>2, CreateItemKeeps, InsertRowKeeps, UpdateReadKeeps, UpdateReadFailsKeeps,
    UpdateWriteKeeps,
    PublishReadKeeps, PublishReadPayloadKeeps, PublishItemKeeps, PublishVersionKeeps,
    IndexDocumentKeeps, MarkIndexedKeeps, WorkspaceUpdateCheckKeeps, WorkspaceUpdateKeeps,
    StatementFailsKeeps DEF Handle
<1>3. ASSUME NEW i \in Items, NEW b \in Bodies, NEW s \in ClientStatuses, CreateItemTx(i, b, s)
      PROVE  IInv'
  BY <1>3, CreateItemTxKeeps
<1>4. ASSUME NEW i \in Items, DeleteItem(i) \/ WorkspaceDelete(i) PROVE IInv'
  BY <1>4, DeleteItemKeeps, WorkspaceDeleteKeeps
<1>5. CASE Restart
  BY <1>5, RestartKeeps
<1> QED
  BY <1>1, <1>2, <1>3, <1>4, <1>5 DEF Next

\* The parts of the invariant hold together in every state the code reaches.
THEOREM InvariantHolds == Spec => []IInv
BY InitIInv, NextIInv, PTL DEF Spec

\* Every row and request keeps its type, whatever interleaves.
THEOREM TypeCorrect == Spec => []TypeOK
<1>1. IInv => TypeOK
  BY DEF IInv
<1> QED
  BY <1>1, InvariantHolds, PTL

\* The index is handed the payload of a published version only, with any number
\* of items, requests and restarts (publishKnowledgeItem).
THEOREM IndexIsReleased == Spec => []IndexedWasReleased
<1>1. IInv => IndexedWasReleased
  BY DEF IInv
<1> QED
  BY <1>1, InvariantHolds, PTL

-----------------------------------------------------------------------------
(* The refinement.                                                         *)

LEMMA InitHistory == Init => History!Init
<1> SUFFICES ASSUME Init PROVE History!Init
  OBVIOUS
<1>1. TypeOK
  BY InitIInv DEF IInv
<1>2. History!TypeOK
  BY <1>1 DEF TypeOK, History!TypeOK
<1>3. {i \in Items : itemStatus[i] = "removed"} = {}
  BY DEF Init
<1>4. \A i \in Items : \A n \in {m \in Numbers : versionStatus[i][m] = "published"} :
        versionBody[i][n] # NoBody
  BY <1>1, InitIInv DEF IInv, TypeOK, RowsAgree
<1> QED
  BY <1>2, <1>3, <1>4 DEF History!Init

\* A step that writes no version and removes no item.
LEMMA HistoryStutters ==
  ASSUME UNCHANGED versionVars,
         \A i \in Items : itemStatus'[i] = "removed" <=> itemStatus[i] = "removed"
  PROVE  UNCHANGED History!vars
BY DEF versionVars, History!vars

\* A row with a new number is an addition.
LEMMA InsertIsAdd ==
  ASSUME IInv, NEW i \in Items, NEW n \in Numbers, NEW b \in Bodies,
         NEW s \in ClientStatuses, InsertVersion(i, n, b, s),
         versionBody[i][n] = NoBody, itemStatus[i] # "removed",
         \A j \in Items : itemStatus'[j] = "removed" <=> itemStatus[j] = "removed"
  PROVE  History!Add(i, n, b, s = "published")
<1> DEFINE rel == [j \in Items |-> {m \in Numbers : versionStatus[j][m] = "published"}]
           now == s = "published"
<1>1. i \notin {j \in Items : itemStatus[j] = "removed"}
  OBVIOUS
<1>2. versionBody' = [versionBody EXCEPT ![i][n] = b]
  BY DEF InsertVersion
<1>3. rel' = [rel EXCEPT ![i] = IF now THEN @ \cup {n} ELSE @]
  <2>1. versionStatus[i][n] = "none"
    BY DEF IInv, RowsAgree
  <2>2. \A j \in Items, m \in Numbers :
          versionStatus'[j][m] = IF j = i /\ m = n THEN s ELSE versionStatus[j][m]
    BY InsertVersionEffect DEF IInv
  <2>3. ASSUME NEW j \in Items
        PROVE  {m \in Numbers : versionStatus'[j][m] = "published"}
                 = IF j = i /\ now THEN rel[j] \cup {n} ELSE rel[j]
    BY <2>1, <2>2
  <2>4. CASE now
    <3>1. rel' = [rel EXCEPT ![i] = @ \cup {n}]
      BY <2>3, <2>4
    <3> QED
      BY <2>4, <3>1
  <2>5. CASE ~now
    <3>1. rel' = rel
      BY <2>3, <2>5
    <3> QED
      BY <2>5, <3>1
  <2> QED
    BY <2>4, <2>5
<1>4. {j \in Items : itemStatus'[j] = "removed"} = {j \in Items : itemStatus[j] = "removed"}
  OBVIOUS
<1> QED
  BY <1>1, <1>2, <1>3, <1>4 DEF History!Add

\* One step of the handlers is one step of the history, or none.
LEMMA StepHistory == ASSUME IInv, [Next]_vars PROVE [History!Next]_(History!vars)
<1> USE NoBodyNew, NoItemNew, BoundsType
<1> DEFINE Same == \A i \in Items : itemStatus'[i] = "removed" <=> itemStatus[i] = "removed"
<1>1. ASSUME NEW i \in Items, NEW n \in Numbers, NEW b \in Bodies, NEW s \in ClientStatuses,
             InsertVersion(i, n, b, s), versionBody[i][n] = NoBody,
             itemStatus[i] # "removed", Same
      PROVE  History!Next
  <2>1. History!Add(i, n, b, s = "published")
    BY <1>1, InsertIsAdd
  <2>2. (s = "published") \in BOOLEAN
    OBVIOUS
  <2> QED
    BY <2>1, <2>2, Zenon DEF History!Next
<1>2. CASE UNCHANGED vars
  BY <1>2, HistoryStutters DEF vars, itemVars
<1>3. ASSUME NEW r \in Requests, Handle(r) PROVE [History!Next]_(History!vars)
  <2> PICK q \in Request : q = req[r]
    BY DEF IInv, TypeOK
  <2>1. ASSUME NEW i \in Items, \/ UpdateRead(r, i) \/ UpdateReadFails(r, i)
                                \/ PublishRead(r, i) \/ WorkspaceUpdateCheck(r, i)
        PROVE  UNCHANGED History!vars
    BY <2>1, HistoryStutters DEF UpdateRead, UpdateReadFails, PublishRead, WorkspaceUpdateCheck, itemVars
  <2>2. ASSUME NEW i \in Items, NEW b \in Bodies, NEW s \in ClientStatuses, CreateItem(r, i, b, s)
        PROVE  UNCHANGED History!vars
    BY <2>2, HistoryStutters DEF IInv, TypeOK, CreateItem, InsertItem, ClientStatuses
  <2>3. CASE InsertRow(r)
    <3>1. q.item \in Items /\ q.number \in Numbers /\ q.body \in Bodies /\ q.status \in ClientStatuses
      <4>1. Carries(r)
        BY DEF IInv
      <4>2. q.next = req[r].next /\ q.next \in {"insert_first_version", "insert_version"}
        BY <2>3 DEF InsertRow
      <4> QED
        BY <4>1, <4>2 DEF Carries, Request
    <3>2. CASE CanInsert(q.item, q.number)
      BY <1>1, <2>3, <3>1, <3>2 DEF InsertRow, CanInsert, HasRow, itemVars
    <3>3. CASE ~CanInsert(q.item, q.number)
      BY <2>3, <3>3, HistoryStutters DEF InsertRow, itemVars
    <3> QED
      BY <3>2, <3>3
  <2>4. ASSUME NEW b \in Bodies, UpdateWrite(r, b) PROVE UNCHANGED History!vars
    BY <2>4, HistoryStutters DEF IInv, TypeOK, UpdateWrite, UpdateItem, HasRow, itemVars
  <2>5. ASSUME NEW b \in Bodies, NEW s \in ClientStatuses, WorkspaceUpdate(r, b, s)
        PROVE  [History!Next]_(History!vars)
    <3> DEFINE n == itemVersion[q.item] + 1
    <3>1. q.item \in Items
      <4>1. Carries(r)
        BY DEF IInv
      <4>2. q.next = "commit_update"
        BY <2>5 DEF WorkspaceUpdate, At
      <4> QED
        BY <4>1, <4>2 DEF Carries
    <3>2. n \in Numbers
      BY <2>5, <3>1 DEF IInv, TypeOK, WorkspaceUpdate, Numbers
    <3>3. CASE CanInsert(q.item, n)
      <4>1. InsertVersion(q.item, n, b, s) /\ UpdateItem(q.item, b, n, s)
        BY <2>5, <3>3 DEF WorkspaceUpdate
      <4>2. Same
        BY <3>3, <4>1 DEF IInv, TypeOK, UpdateItem, CanInsert, HasRow, ClientStatuses
      <4>3. versionBody[q.item][n] = NoBody /\ itemStatus[q.item] # "removed"
        BY <3>3 DEF CanInsert, HasRow
      <4> HIDE DEF n
      <4> QED
        BY <1>1, <3>1, <3>2, <4>1, <4>2, <4>3
    <3>4. CASE ~CanInsert(q.item, n)
      BY <2>5, <3>4, HistoryStutters DEF WorkspaceUpdate, itemVars
    <3> QED
      BY <3>3, <3>4
  <2>6. CASE PublishItem(r)
    BY <2>6, HistoryStutters DEF IInv, TypeOK, PublishItem, HasRow
  <2>7. CASE PublishVersion(r)
    <3> DEFINE rel == [i \in Items |-> {m \in Numbers : versionStatus[i][m] = "published"}]
    <3>1. q.item \in Items /\ q.number \in Numbers
      <4>1. Carries(r)
        BY DEF IInv
      <4>2. q.next = "publish_version"
        BY <2>7 DEF PublishVersion, At
      <4> QED
        BY <4>1, <4>2 DEF Carries
    <3>2. versionStatus' = [versionStatus EXCEPT ![q.item][q.number] =
            IF @ = "none" THEN @ ELSE "published"]
      BY <2>7 DEF PublishVersion
    <3>3. UNCHANGED <<versionBody, itemStatus>>
      BY <2>7 DEF PublishVersion, itemVars
    <3>4. CASE versionBody[q.item][q.number] # NoBody
      <4>1. rel' = [rel EXCEPT ![q.item] = @ \cup {q.number}]
        <5>1. versionStatus[q.item][q.number] # "none"
          BY <3>1, <3>4 DEF IInv, RowsAgree
        <5>2. \A j \in Items, m \in Numbers : versionStatus'[j][m] =
                IF j = q.item /\ m = q.number THEN "published" ELSE versionStatus[j][m]
          BY <3>1, <3>2, <5>1 DEF IInv, TypeOK
        <5>3. ASSUME NEW j \in Items
              PROVE  {m \in Numbers : versionStatus'[j][m] = "published"}
                       = IF j = q.item THEN rel[j] \cup {q.number} ELSE rel[j]
          BY <3>1, <5>2
        <5> QED
          BY <3>1, <5>3
      <4>2. History!Release(q.item, q.number)
        BY <3>3, <3>4, <4>1 DEF History!Release
      <4> QED
        BY <3>1, <4>2 DEF History!Next
    <3>5. CASE versionBody[q.item][q.number] = NoBody
      <4>1. versionStatus[q.item][q.number] = "none"
        BY <3>1, <3>5 DEF IInv, RowsAgree
      <4>2. versionStatus' = versionStatus
        <5>1. [versionStatus[q.item] EXCEPT ![q.number] = "none"] = versionStatus[q.item]
          BY <3>1, <4>1 DEF IInv, TypeOK
        <5>2. versionStatus' = [versionStatus EXCEPT ![q.item] =
                [versionStatus[q.item] EXCEPT ![q.number] = "none"]]
          BY <3>1, <3>2, <4>1 DEF IInv, TypeOK
        <5> QED
          BY <3>1, <5>1, <5>2 DEF IInv, TypeOK
      <4> QED
        BY <3>3, <4>2, HistoryStutters DEF versionVars
    <3> QED
      BY <3>4, <3>5
  <2>8. CASE PublishReadPayload(r) \/ IndexDocument(r) \/ MarkIndexed(r) \/ StatementFails(r)
    BY <2>8, HistoryStutters DEF PublishReadPayload, IndexDocument, MarkIndexed, StatementFails, itemVars
  <2> QED
    BY <1>3, <2>1, <2>2, <2>3, <2>4, <2>5, <2>6, <2>7, <2>8 DEF Handle
<1>4. ASSUME NEW i \in Items, NEW b \in Bodies, NEW s \in ClientStatuses, CreateItemTx(i, b, s)
      PROVE  History!Next
  <2>1. 1 \in Numbers
    BY DEF Numbers
  <2>2. InsertVersion(i, 1, b, s) /\ itemStatus[i] = "none"
    BY <1>4 DEF CreateItemTx
  <2>3. versionBody[i][1] = NoBody
    BY <2>1, <2>2 DEF IInv, RowsAgree, HasRow
  <2>4. Same
    BY <1>4, <2>2 DEF IInv, TypeOK, CreateItemTx, InsertItem, ClientStatuses
  <2> QED
    BY <1>1, <2>1, <2>2, <2>3, <2>4
<1>5. ASSUME NEW i \in Items, DeleteItem(i) PROVE History!Next
  <2> DEFINE rel == [j \in Items |-> {m \in Numbers : versionStatus[j][m] = "published"}]
  <2>1. rel' = [rel EXCEPT ![i] = {}]
    BY <1>5 DEF IInv, TypeOK, DeleteItem
  <2>2. {j \in Items : itemStatus'[j] = "removed"} = {j \in Items : itemStatus[j] = "removed"} \cup {i}
    BY <1>5 DEF IInv, TypeOK, DeleteItem
  <2>3. versionBody' = [versionBody EXCEPT ![i] = [n \in Numbers |-> NoBody]]
    BY <1>5 DEF DeleteItem
  <2>4. History!Remove(i)
    BY <2>1, <2>2, <2>3 DEF History!Remove
  <2> QED
    BY <2>4 DEF History!Next
<1>6. ASSUME NEW i \in Items, WorkspaceDelete(i) PROVE UNCHANGED History!vars
  BY <1>6, HistoryStutters DEF IInv, TypeOK, WorkspaceDelete, HasRow
<1>7. CASE Restart
  <2>1. CASE \E i \in Items : HasRow(i)
    BY <1>7, <2>1, HistoryStutters DEF Restart, itemVars
  <2>2. CASE ~\E i \in Items : HasRow(i)
    <3>1. PICK i \in Items, b \in Bodies :
            /\ itemStatus[i] = "none"
            /\ itemStatus' = [itemStatus EXCEPT ![i] = "published"]
            /\ InsertVersion(i, 1, b, "published")
      BY <1>7, <2>2 DEF Restart
    <3>2. 1 \in Numbers /\ "published" \in ClientStatuses
      BY DEF Numbers, ClientStatuses
    <3>3. versionBody[i][1] = NoBody
      BY <3>1, <3>2 DEF IInv, RowsAgree, HasRow
    <3>4. Same
      BY <3>1 DEF IInv, TypeOK
    <3> QED
      BY <1>1, <3>1, <3>2, <3>3, <3>4
  <2> QED
    BY <2>1, <2>2
<1> QED
  BY <1>2, <1>3, <1>4, <1>5, <1>6, <1>7 DEF Next

\* The versions of knowledge items are immutable history, for any number of
\* items and of overlapping requests, refused statements and restarts.
THEOREM ItemsImplementHistory == Spec => ImplementsHistory
<1>1. IInv /\ [Next]_vars => [History!Next]_(History!vars)
  BY StepHistory
<1> QED
  BY <1>1, InitHistory, InvariantHolds, PTL DEF Spec, ImplementsHistory, History!Spec
-----------------------------------------------------------------------------
(* Requests that nothing interrupts.                                        *)

\* No version of item i has a number above n.
NoneAbove(i, n) == \A m \in Numbers : versionBody[i][m] # NoBody => m <= n

\* Version n is the one that item i names, with the same content.
Current(i, n, b) ==
  /\ HasRow(i) /\ NoneAbove(i, n)
  /\ itemVersion[i] = n /\ itemBody[i] = b /\ versionBody[i][n] = b

\* The item agrees with the version it names, which is its newest.
Shows(i) == HasRow(i) =>
  /\ Current(i, itemVersion[i], itemBody[i])
  /\ itemStatus[i] # "deleted" => versionStatus[i][itemVersion[i]] = itemStatus[i]
  /\ itemIndex[i] = "indexed" /\ indexBody[i] # NoBody => indexBody[i] = itemBody[i]

\* What is so of item i before statement s of a request that carries n, b and
\* status.  An update may work on an item that was removed.
Progress(s, i, n, b, status) ==
  /\ s = "insert_first_version" =>
       /\ n = 1 /\ itemVersion[i] = n /\ itemBody[i] = b /\ itemStatus[i] = status
       /\ indexBody[i] = NoBody /\ NoneAbove(i, 0)
  /\ s = "update_item" => status = "draft" /\ NoneAbove(i, n - 1)
  /\ s = "insert_version" /\ HasRow(i) =>
       /\ itemVersion[i] = n /\ itemBody[i] = b /\ itemStatus[i] = status
       /\ itemIndex[i] # "indexed" /\ NoneAbove(i, n - 1)
  /\ s = "insert_version" => status = "draft"
  /\ s \in {"commit_update", "read_payload"} => Shows(i)
  /\ s = "read_payload" => itemVersion[i] = n
  /\ s \in {"publish_item", "publish_version", "index", "mark_indexed"} => Current(i, n, b)
  /\ s \in {"publish_version", "index", "mark_indexed"} => itemStatus[i] = "published"
  /\ s \in {"index", "mark_indexed"} => versionStatus[i][n] = "published"
  /\ s = "mark_indexed" => indexBody[i] = b

Held(r) == \A q \in Request : req[r] = q =>
  IF q.next = "idle" THEN q.item = NoItem
                     ELSE Progress(q.next, q.item, q.number, q.body, q.status)

Alone == \A r, q \in Requests : ~Free(r) /\ ~Free(q) => r = q

InOrder ==
  /\ Alone
  /\ \A r \in Requests : Held(r)
  /\ \A i \in Items : AtRest(i) => Shows(i)

SequenceInv == IInv /\ (~disturbed => InOrder)

\* Nothing else about an item is changed.
SameItem(i) ==
  /\ itemStatus'[i] = itemStatus[i] /\ itemBody'[i] = itemBody[i]
  /\ itemVersion'[i] = itemVersion[i] /\ itemIndex'[i] = itemIndex[i]
  /\ versionBody'[i] = versionBody[i] /\ versionStatus'[i] = versionStatus[i]
  /\ indexBody'[i] = indexBody[i]

LEMMA SameShows ==
  ASSUME NEW i \in Items, Shows(i), SameItem(i)
  PROVE  Shows(i)'
BY DEF Shows, Current, NoneAbove, HasRow, SameItem

\* A step of one request while the others rest, about one item.
LEMMA OneRequest ==
  ASSUME IInv, InOrder, NEW r \in Requests, NEW q \in Request, NEW i \in Items,
         \A s \in Requests \ {r} : Free(s), req' = [req EXCEPT ![r] = q],
         req[r].item \in {i, NoItem},
         IF q.next = "idle"
           THEN q.item = NoItem /\ Shows(i)'
           ELSE q.item = i /\ Progress(q.next, q.item, q.number, q.body, q.status)',
         \A c \in Items \ {i} : SameItem(c)
  PROVE  InOrder'
<1> USE NoItemNew
<1>1. req'[r] = q /\ \A s \in Requests \ {r} : req'[s] = req[s]
  BY DEF IInv, TypeOK
<1>2. ASSUME NEW s \in Requests \ {r} PROVE req[s].item = NoItem /\ Held(s)'
  <2> PICK p \in Request : p = req[s]
    BY DEF IInv, TypeOK
  <2>1. p.next = "idle" /\ p.item = NoItem
    BY DEF InOrder, Held, Free
  <2> QED BY <1>1, <2>1 DEF Held
<1>3. Held(r)'
  BY <1>1 DEF Held
<1>4. ASSUME NEW c \in Items, AtRest(c)' PROVE Shows(c)'
  <2>1. CASE c = i
    <3>1. q.item # i
      BY <1>1, <1>4, <2>1 DEF AtRest
    <3> QED BY <2>1, <3>1
  <2>2. CASE c # i
    <3>1. AtRest(c)
      BY <1>2, <2>2 DEF AtRest
    <3>2. Shows(c)
      BY <3>1 DEF InOrder
    <3> QED BY <2>2, <3>2, SameShows
  <2> QED BY <2>1, <2>2
<1>5. Alone'
  BY <1>1 DEF Alone, Free
<1> QED BY <1>2, <1>3, <1>4, <1>5 DEF InOrder

\* A step about one item while every request is idle.
LEMMA NoRequest ==
  ASSUME IInv, InOrder, \A r \in Requests : Free(r), NEW i \in Items,
         req' = req \/ \A r \in Requests : req'[r] = Idle,
         Shows(i)',
         \A c \in Items \ {i} : SameItem(c)
  PROVE  InOrder'
<1>1. ASSUME NEW r \in Requests PROVE req[r].item = NoItem /\ Held(r)' /\ Free(r)'
  <2> PICK p \in Request : p = req[r]
    BY DEF IInv, TypeOK
  <2>1. p.next = "idle" /\ p.item = NoItem
    BY DEF InOrder, Held, Free
  <2>2. Idle.next = "idle" /\ Idle.item = NoItem
    BY DEF Idle, Ask
  <2>3. req'[r] = p \/ req'[r] = Idle
    OBVIOUS
  <2> QED BY <2>1, <2>2, <2>3 DEF Held, Free
<1>2. \A c \in Items : Shows(c)
  BY <1>1, NoItemNew DEF InOrder, AtRest
<1>3. \A c \in Items : Shows(c)'
  BY <1>2, SameShows
<1> QED BY <1>1, <1>3 DEF InOrder, Alone

\* What a request that goes on works on.
LEMMA Working ==
  ASSUME IInv, InOrder, NEW r \in Requests, ~Free(r)
  PROVE  \E q \in Request, i \in Items, n \in 0..MaxVersion, b \in Bodies \cup {NoBody} :
           /\ req[r] = q /\ q.item = i /\ q.number = n /\ q.body = b
           /\ Progress(q.next, i, n, b, q.status) /\ itemStatus[i] # "none"
           /\ q.next \notin {"idle", "commit_update"} => n \in Numbers
           /\ q.next \notin {"idle", "commit_update", "update_item", "read_payload"} => b \in Bodies
<1> PICK q \in Request : q = req[r]
  BY DEF IInv, TypeOK
<1>1. q.next # "idle" /\ q.body \in Bodies \cup {NoBody} /\ q.number \in 0..MaxVersion
  BY DEF Free, Request
<1>2. /\ q.item \in Items /\ itemStatus[q.item] # "none"
      /\ q.next \notin {"idle", "commit_update"} => q.number \in Numbers
      /\ q.next \notin {"idle", "commit_update", "update_item", "read_payload"} => q.body \in Bodies
  BY <1>1 DEF IInv, Carries
<1>3. Progress(q.next, q.item, q.number, q.body, q.status)
  BY <1>1 DEF InOrder, Held
<1> QED BY <1>1, <1>2, <1>3

\* The next statement of a request is about the same version.
LEMMA GoesOn ==
  ASSUME IInv, NEW r \in Requests, NEW step \in Steps, Goto(r, step)
  PROVE  \E q \in Request : /\ req' = [req EXCEPT ![r] = q] /\ q.next = step
                            /\ q.item = req[r].item /\ q.number = req[r].number
                            /\ q.body = req[r].body /\ q.status = req[r].status
<1> PICK p \in Request : p = req[r]
  BY DEF IInv, TypeOK
<1> DEFINE q == [p EXCEPT !.next = step]
<1>1. /\ q \in Request /\ q.next = step /\ q.item = p.item /\ q.number = p.number
      /\ q.body = p.body /\ q.status = p.status
  BY GotoType DEF Request
<1>2. req' = [req EXCEPT ![r] = q]
  BY DEF Goto, IInv, TypeOK
<1> HIDE DEF q
<1> QED BY <1>1, <1>2

GotoWith(r, step, b) == req' = [req EXCEPT ![r].next = step, ![r].body = b]

\* So is the next statement of a request that has learnt the content.
LEMMA GoesOnWith ==
  ASSUME IInv, NEW r \in Requests, NEW step \in Steps, NEW b \in Bodies, GotoWith(r, step, b)
  PROVE  \E q \in Request : /\ req' = [req EXCEPT ![r] = q] /\ q.next = step
                            /\ q.item = req[r].item /\ q.number = req[r].number
                            /\ q.body = b /\ q.status = req[r].status
<1> PICK p \in Request : p = req[r]
  BY DEF IInv, TypeOK
<1> DEFINE q == [p EXCEPT !.next = step, !.body = b]
<1>1. /\ q \in Request /\ q.next = step /\ q.item = p.item /\ q.number = p.number
      /\ q.body = b /\ q.status = p.status
  BY GotoBodyType DEF Request
<1>2. req' = [req EXCEPT ![r] = q]
  BY DEF GotoWith, IInv, TypeOK
<1> HIDE DEF q
<1> QED BY <1>1, <1>2

LEMMA Ends ==
  ASSUME NEW r \in Requests, Finish(r)
  PROVE  \E q \in Request : q.next = "idle" /\ q.item = NoItem /\ req' = [req EXCEPT ![r] = q]
<1>1. Idle.next = "idle" /\ Idle.item = NoItem
  BY DEF Idle, Ask
<1> QED BY <1>1, IdleType DEF Finish

LEMMA Begins ==
  ASSUME NEW r \in Requests, NEW step \in Steps, NEW i \in Items, NEW n \in 0..MaxVersion,
         NEW b \in Bodies \cup {NoBody}, Begin(r, step, i, n, b)
  PROVE  \E q \in Request : /\ req' = [req EXCEPT ![r] = q] /\ q.next = step /\ q.item = i
                            /\ q.number = n /\ q.body = b /\ q.status = "draft"
<1> DEFINE q == Ask(step, i, n, b)
<1>1. q \in Request
  BY AskType
<1>2. q.next = step /\ q.item = i /\ q.number = n /\ q.body = b /\ q.status = "draft"
  BY DEF Ask
<1>3. req' = [req EXCEPT ![r] = q]
  BY DEF Begin
<1> HIDE DEF q
<1> QED BY <1>1, <1>2, <1>3

\* An idle request works on no item.
LEMMA IdleRests ==
  ASSUME IInv, InOrder, NEW r \in Requests, Free(r)
  PROVE  req[r].item = NoItem
BY DEF IInv, TypeOK, InOrder, Held, Free

\* An item shows its version when the only request that may work on it is idle.
LEMMA RestsShows ==
  ASSUME IInv, InOrder, NEW r \in Requests, \A s \in Requests \ {r} : Free(s), Free(r),
         NEW i \in Items
  PROVE  Shows(i)
<1>1. \A s \in Requests : req[s].item = NoItem
  BY IdleRests
<1> QED BY <1>1, NoItemNew DEF InOrder, AtRest
\* createKnowledgeItem
LEMMA CreateItemInOrder ==
  ASSUME IInv, InOrder, NEW r \in Requests, \A s \in Requests \ {r} : Free(s),
         NEW i \in Items, NEW b \in Bodies, NEW status \in ClientStatuses,
         CreateItem(r, i, b, status)
  PROVE  InOrder'
<1> DEFINE q == [next |-> "insert_first_version", item |-> i, number |-> 1, body |-> b, status |-> status]
<1>1. /\ InsertItem(i, b, status) /\ itemStatus[i] = "none" /\ Free(r)
      /\ UNCHANGED <<itemIndex, versionBody, versionStatus, indexBody>>
      /\ req' = [req EXCEPT ![r] = q]
  BY DEF CreateItem, InsertItem, versionVars
<1>2. /\ itemStatus'[i] = status /\ itemBody'[i] = b /\ itemVersion'[i] = 1
      /\ \A c \in Items \ {i} : SameItem(c)
  BY <1>1 DEF IInv, TypeOK, InsertItem, SameItem
<1>3. q \in Request
  BY BoundsType DEF Request, Steps
<1>4. indexBody'[i] = NoBody /\ NoneAbove(i, 0)'
  BY <1>1 DEF NoneAbove, HasRow, IInv, RowsAgree
<1>5. Progress("insert_first_version", i, 1, b, status)'
  BY <1>2, <1>4 DEF Progress
<1>6. /\ q.next = "insert_first_version" /\ q.item = i /\ q.number = 1 /\ q.body = b
      /\ q.status = status
  OBVIOUS
<1> HIDE DEF q
<1> QED BY <1>1, <1>2, <1>3, <1>5, <1>6, IdleRests, OneRequest

\* The last statement of a creation and of an update.
LEMMA InsertRowInOrder ==
  ASSUME IInv, InOrder, NEW r \in Requests, \A s \in Requests \ {r} : Free(s), InsertRow(r)
  PROVE  InOrder'
<1> USE NoBodyNew
<1>1. /\ req[r].next \in {"insert_first_version", "insert_version"} /\ ~Free(r) /\ Finish(r)
      /\ UNCHANGED <<itemStatus, itemBody, itemVersion, itemIndex, indexBody>>
  BY DEF InsertRow, Free, itemVars
<1>2. PICK p \in Request, i \in Items, n \in Numbers, b \in Bodies :
        /\ req[r] = p /\ p.item = i /\ p.number = n /\ p.body = b
        /\ Progress(p.next, i, n, b, p.status) /\ itemStatus[i] # "none"
  BY <1>1, Working
<1>3. PICK q \in Request : q.next = "idle" /\ q.item = NoItem /\ req' = [req EXCEPT ![r] = q]
  BY <1>1, Ends
<1>4. p.status \in ClientStatuses
  BY DEF Request
<1>5. CASE HasRow(i)
  <2>1. /\ itemVersion[i] = n /\ itemBody[i] = b /\ itemStatus[i] = p.status
        /\ NoneAbove(i, n - 1) /\ (itemIndex[i] # "indexed" \/ indexBody[i] = NoBody)
    BY <1>1, <1>2, <1>5, BoundsType DEF Progress, Numbers
  <2>2. versionBody[i][n] = NoBody
    BY <2>1, BoundsType DEF NoneAbove, Numbers
  <2>3. InsertVersion(i, n, b, p.status)
    BY <1>2, <1>5, <2>2 DEF InsertRow, CanInsert
  <2>4. \A j \in Items, m \in Numbers :
          /\ versionBody'[j][m] = IF j = i /\ m = n THEN b ELSE versionBody[j][m]
          /\ versionStatus'[j][m] = IF j = i /\ m = n THEN p.status ELSE versionStatus[j][m]
    BY <1>4, <2>3, InsertVersionEffect DEF IInv
  <2>5. \A c \in Items \ {i} : SameItem(c)
    BY <1>1, <2>3 DEF SameItem, InsertVersion, IInv, TypeOK
  <2>6. NoneAbove(i, n)'
    BY <2>1, <2>4, BoundsType DEF NoneAbove, Numbers
  <2>7. Shows(i)'
    BY <1>1, <1>5, <2>1, <2>4, <2>6 DEF Shows, Current, HasRow
  <2> QED BY <1>2, <1>3, <2>5, <2>7, OneRequest
<1>6. CASE ~HasRow(i)
  <2>1. UNCHANGED <<versionBody, versionStatus>> /\ ~HasRow(i)'
    BY <1>1, <1>2, <1>6 DEF InsertRow, CanInsert, versionVars, HasRow
  <2>2. Shows(i)' /\ \A c \in Items \ {i} : SameItem(c)
    BY <1>1, <2>1 DEF Shows, SameItem
  <2> QED BY <1>2, <1>3, <2>2, OneRequest
<1> QED BY <1>5, <1>6

\* updateKnowledgeItem
LEMMA UpdateReadInOrder ==
  ASSUME IInv, InOrder, NEW r \in Requests, \A s \in Requests \ {r} : Free(s),
         NEW i \in Items, UpdateRead(r, i)
  PROVE  InOrder'
<1>1. PICK n \in Numbers : n = (IF HasRow(i) THEN itemVersion[i] ELSE 0) + 1
  BY BoundsType DEF UpdateRead, IInv, TypeOK, Numbers
<1>2. /\ Free(r) /\ Begin(r, "update_item", i, n, NoBody)
      /\ UNCHANGED <<itemStatus, itemBody, itemVersion, itemIndex, versionBody, versionStatus, indexBody>>
  BY <1>1 DEF UpdateRead, itemVars, versionVars
<1>3. NoneAbove(i, n - 1)
  <2>1. CASE HasRow(i)
    <3>1. Shows(i)
      BY <1>2, RestsShows
    <3>2. n - 1 = itemVersion[i]
      BY <1>1, <2>1 DEF IInv, TypeOK
    <3> QED BY <2>1, <3>1, <3>2 DEF Shows, Current
  <2>2. CASE ~HasRow(i)
    BY <2>2 DEF IInv, RowsAgree, NoneAbove
  <2> QED BY <2>1, <2>2
<1>4. PICK q \in Request : /\ req' = [req EXCEPT ![r] = q] /\ q.next = "update_item" /\ q.item = i
                           /\ q.number = n /\ q.body = NoBody /\ q.status = "draft"
  <2>1. n \in 0..MaxVersion
    BY BoundsType DEF Numbers
  <2> QED BY <1>2, <2>1, Begins DEF Steps
<1>5. Progress(q.next, i, n, NoBody, q.status)'
  BY <1>2, <1>3, <1>4 DEF Progress, NoneAbove
<1>6. \A c \in Items : SameItem(c)
  BY <1>2 DEF SameItem
<1> QED BY <1>2, <1>4, <1>5, <1>6, IdleRests, OneRequest

LEMMA UpdateWriteInOrder ==
  ASSUME IInv, InOrder, NEW r \in Requests, \A s \in Requests \ {r} : Free(s),
         NEW b \in Bodies, UpdateWrite(r, b)
  PROVE  InOrder'
<1>1. /\ req[r].next = "update_item" /\ ~Free(r)
      /\ GotoWith(r, "insert_version", b)
      /\ UNCHANGED <<versionBody, versionStatus, indexBody>>
  BY DEF UpdateWrite, GotoWith, At, Free, versionVars
<1>2. PICK i \in Items, n \in Numbers :
        /\ req[r].item = i /\ req[r].number = n /\ itemStatus[i] # "none"
        /\ req[r].status = "draft" /\ NoneAbove(i, n - 1)
  BY <1>1, Working DEF Progress
<1>3. PICK q \in Request : /\ req' = [req EXCEPT ![r] = q] /\ q.next = "insert_version"
                           /\ q.item = req[r].item /\ q.number = req[r].number
                           /\ q.body = b /\ q.status = req[r].status
  BY <1>1, GoesOnWith DEF Steps
<1>4. NoneAbove(i, n - 1)'
  BY <1>1, <1>2 DEF NoneAbove
<1>5. CASE HasRow(i)
  <2>1. UpdateItem(i, b, n, "draft")
    BY <1>2, <1>5 DEF UpdateWrite
  <2>2. /\ itemStatus'[i] = "draft" /\ itemBody'[i] = b /\ itemVersion'[i] = n
        /\ itemIndex'[i] = "not_indexed"
        /\ \A c \in Items \ {i} : SameItem(c)
    BY <1>1, <2>1 DEF IInv, TypeOK, UpdateItem, SameItem
  <2>3. Progress(q.next, i, n, b, q.status)'
    BY <1>2, <1>3, <1>4, <2>2 DEF Progress
  <2> QED BY <1>2, <1>3, <2>2, <2>3, OneRequest
<1>6. CASE ~HasRow(i)
  <2>1. UNCHANGED <<itemStatus, itemBody, itemVersion, itemIndex>>
    BY <1>2, <1>6 DEF UpdateWrite, itemVars
  <2>2. ~HasRow(i)' /\ \A c \in Items : SameItem(c)
    BY <1>1, <1>6, <2>1 DEF HasRow, SameItem
  <2>3. Progress(q.next, i, n, b, q.status)'
    BY <1>2, <1>3, <1>4, <2>2 DEF Progress
  <2> QED BY <1>2, <1>3, <2>2, <2>3, OneRequest
<1> QED BY <1>5, <1>6
\* publishKnowledgeItem
LEMMA PublishReadInOrder ==
  ASSUME IInv, InOrder, NEW r \in Requests, \A s \in Requests \ {r} : Free(s),
         NEW i \in Items, PublishRead(r, i)
  PROVE  InOrder'
<1>1. PICK n \in 0..MaxVersion : n = itemVersion[i]
  BY DEF IInv, TypeOK
<1>2. /\ Free(r) /\ Begin(r, "read_payload", i, n, NoBody)
      /\ UNCHANGED <<itemStatus, itemBody, itemVersion, itemIndex, versionBody, versionStatus, indexBody>>
  BY <1>1 DEF PublishRead, itemVars, versionVars
<1>3. PICK q \in Request : /\ req' = [req EXCEPT ![r] = q] /\ q.next = "read_payload" /\ q.item = i
                           /\ q.number = n /\ q.body = NoBody /\ q.status = "draft"
  BY <1>2, Begins DEF Steps
<1>4. \A c \in Items : SameItem(c)
  BY <1>2 DEF SameItem
<1>5. Shows(i)'
  BY <1>2, <1>4, RestsShows, SameShows
<1>6. Progress(q.next, i, n, NoBody, q.status)'
  BY <1>1, <1>2, <1>3, <1>5 DEF Progress
<1> QED BY <1>2, <1>3, <1>4, <1>6, IdleRests, OneRequest

LEMMA PublishReadPayloadInOrder ==
  ASSUME IInv, InOrder, NEW r \in Requests, \A s \in Requests \ {r} : Free(s), PublishReadPayload(r)
  PROVE  InOrder'
<1> USE NoBodyNew
<1>1. /\ req[r].next = "read_payload" /\ ~Free(r)
      /\ UNCHANGED <<itemStatus, itemBody, itemVersion, itemIndex, versionBody, versionStatus, indexBody>>
  BY DEF PublishReadPayload, At, Free, itemVars, versionVars
<1>2. PICK i \in Items, n \in Numbers :
        /\ req[r].item = i /\ req[r].number = n /\ itemStatus[i] # "none"
        /\ Shows(i) /\ itemVersion[i] = n
  BY <1>1, Working DEF Progress
<1>3. \A c \in Items : SameItem(c)
  BY <1>1 DEF SameItem
<1>4. Shows(i)'
  BY <1>2, <1>3, SameShows
<1>5. CASE versionBody[i][n] = NoBody
  <2>1. PICK q \in Request : q.next = "idle" /\ q.item = NoItem /\ req' = [req EXCEPT ![r] = q]
    BY <1>2, <1>5, Ends DEF PublishReadPayload
  <2> QED BY <1>2, <1>3, <1>4, <2>1, OneRequest
<1>6. CASE versionBody[i][n] # NoBody
  <2>1. PICK b \in Bodies : b = versionBody[i][n]
    BY <1>6 DEF IInv, TypeOK
  <2>2. GotoWith(r, "publish_item", b)
    BY <1>2, <1>6, <2>1 DEF PublishReadPayload, GotoWith
  <2>3. PICK q \in Request : /\ req' = [req EXCEPT ![r] = q] /\ q.next = "publish_item"
                             /\ q.item = req[r].item /\ q.number = req[r].number
                             /\ q.body = b /\ q.status = req[r].status
    BY <2>2, GoesOnWith DEF Steps
  <2>4. HasRow(i)
    BY <1>6 DEF IInv, RowsAgree
  <2>5. Current(i, n, b)
    BY <1>2, <2>1, <2>4 DEF Shows, Current
  <2>6. Current(i, n, b)'
    BY <1>1, <2>5 DEF Current, NoneAbove, HasRow
  <2>7. Progress(q.next, i, n, b, q.status)'
    BY <2>3, <2>6 DEF Progress
  <2> QED BY <1>2, <1>3, <2>3, <2>7, OneRequest
<1> QED BY <1>5, <1>6

LEMMA PublishItemInOrder ==
  ASSUME IInv, InOrder, NEW r \in Requests, \A s \in Requests \ {r} : Free(s), PublishItem(r)
  PROVE  InOrder'
<1>1. /\ req[r].next = "publish_item" /\ ~Free(r) /\ Goto(r, "publish_version")
      /\ UNCHANGED <<itemBody, itemVersion, versionBody, versionStatus, indexBody>>
  BY DEF PublishItem, At, Free, versionVars
<1>2. PICK i \in Items, n \in Numbers, b \in Bodies :
        /\ req[r].item = i /\ req[r].number = n /\ req[r].body = b /\ Current(i, n, b)
  BY <1>1, Working DEF Progress
<1>3. /\ itemStatus' = [itemStatus EXCEPT ![i] = "published"]
      /\ itemIndex' = [itemIndex EXCEPT ![i] = "pending"]
  BY <1>2 DEF PublishItem, Current
<1>4. itemStatus'[i] = "published" /\ \A c \in Items \ {i} : SameItem(c)
  BY <1>1, <1>3 DEF IInv, TypeOK, SameItem
<1>5. PICK q \in Request : /\ req' = [req EXCEPT ![r] = q] /\ q.next = "publish_version"
                           /\ q.item = req[r].item /\ q.number = req[r].number
                           /\ q.body = req[r].body /\ q.status = req[r].status
  BY <1>1, GoesOn DEF Steps
<1>6. Current(i, n, b)'
  BY <1>1, <1>2, <1>4 DEF Current, NoneAbove, HasRow
<1>7. Progress(q.next, i, n, b, q.status)'
  BY <1>4, <1>5, <1>6 DEF Progress
<1> QED BY <1>2, <1>4, <1>5, <1>7, OneRequest

LEMMA PublishVersionInOrder ==
  ASSUME IInv, InOrder, NEW r \in Requests, \A s \in Requests \ {r} : Free(s), PublishVersion(r)
  PROVE  InOrder'
<1> USE NoBodyNew
<1>1. /\ req[r].next = "publish_version" /\ ~Free(r) /\ Goto(r, "index")
      /\ UNCHANGED <<itemStatus, itemBody, itemVersion, itemIndex, versionBody, indexBody>>
  BY DEF PublishVersion, At, Free, itemVars
<1>2. PICK i \in Items, n \in Numbers, b \in Bodies :
        /\ req[r].item = i /\ req[r].number = n /\ req[r].body = b /\ Current(i, n, b)
        /\ itemStatus[i] = "published"
  BY <1>1, Working DEF Progress
<1>3. versionStatus[i][n] # "none"
  BY <1>2 DEF Current, IInv, RowsAgree
<1>4. versionStatus' = [versionStatus EXCEPT ![i][n] = "published"]
  BY <1>2, <1>3 DEF PublishVersion, IInv, TypeOK
<1>5. versionStatus'[i][n] = "published" /\ \A c \in Items \ {i} : SameItem(c)
  BY <1>1, <1>4 DEF IInv, TypeOK, SameItem
<1>6. PICK q \in Request : /\ req' = [req EXCEPT ![r] = q] /\ q.next = "index"
                           /\ q.item = req[r].item /\ q.number = req[r].number
                           /\ q.body = req[r].body /\ q.status = req[r].status
  BY <1>1, GoesOn DEF Steps
<1>7. Current(i, n, b)'
  BY <1>1, <1>2 DEF Current, NoneAbove, HasRow
<1>8. Progress(q.next, i, n, b, q.status)'
  BY <1>1, <1>2, <1>5, <1>6, <1>7 DEF Progress
<1> QED BY <1>2, <1>5, <1>6, <1>8, OneRequest

LEMMA IndexDocumentInOrder ==
  ASSUME IInv, InOrder, NEW r \in Requests, \A s \in Requests \ {r} : Free(s), IndexDocument(r)
  PROVE  InOrder'
<1>1. /\ req[r].next = "index" /\ ~Free(r) /\ Goto(r, "mark_indexed")
      /\ UNCHANGED <<itemStatus, itemBody, itemVersion, itemIndex, versionBody, versionStatus>>
  BY DEF IndexDocument, At, Free, itemVars, versionVars
<1>2. PICK i \in Items, n \in Numbers, b \in Bodies :
        /\ req[r].item = i /\ req[r].number = n /\ req[r].body = b /\ Current(i, n, b)
        /\ itemStatus[i] = "published" /\ versionStatus[i][n] = "published"
  BY <1>1, Working DEF Progress
<1>3. indexBody'[i] = b /\ \A c \in Items \ {i} : SameItem(c)
  BY <1>1, <1>2 DEF IndexDocument, IInv, TypeOK, SameItem
<1>4. PICK q \in Request : /\ req' = [req EXCEPT ![r] = q] /\ q.next = "mark_indexed"
                           /\ q.item = req[r].item /\ q.number = req[r].number
                           /\ q.body = req[r].body /\ q.status = req[r].status
  BY <1>1, GoesOn DEF Steps
<1>5. Current(i, n, b)'
  BY <1>1, <1>2 DEF Current, NoneAbove, HasRow
<1>6. Progress(q.next, i, n, b, q.status)'
  BY <1>1, <1>2, <1>3, <1>4, <1>5 DEF Progress
<1> QED BY <1>2, <1>3, <1>4, <1>6, OneRequest

LEMMA MarkIndexedInOrder ==
  ASSUME IInv, InOrder, NEW r \in Requests, \A s \in Requests \ {r} : Free(s), MarkIndexed(r)
  PROVE  InOrder'
<1>1. /\ req[r].next = "mark_indexed" /\ ~Free(r) /\ Finish(r)
      /\ UNCHANGED <<itemStatus, itemBody, itemVersion, versionBody, versionStatus, indexBody>>
  BY DEF MarkIndexed, At, Free, versionVars
<1>2. PICK i \in Items, n \in Numbers, b \in Bodies :
        /\ req[r].item = i /\ Current(i, n, b)
        /\ itemStatus[i] = "published" /\ versionStatus[i][n] = "published" /\ indexBody[i] = b
  BY <1>1, Working DEF Progress
<1>3. \A c \in Items \ {i} : SameItem(c)
  BY <1>1, <1>2 DEF MarkIndexed, IInv, TypeOK, SameItem
<1>4. Shows(i)'
  BY <1>1, <1>2 DEF Shows, Current, NoneAbove, HasRow
<1>5. PICK q \in Request : q.next = "idle" /\ q.item = NoItem /\ req' = [req EXCEPT ![r] = q]
  BY <1>1, Ends
<1> QED BY <1>2, <1>3, <1>4, <1>5, OneRequest
\* The workspace's update.
LEMMA WorkspaceUpdateCheckInOrder ==
  ASSUME IInv, InOrder, NEW r \in Requests, \A s \in Requests \ {r} : Free(s),
         NEW i \in Items, WorkspaceUpdateCheck(r, i)
  PROVE  InOrder'
<1>1. /\ Free(r) /\ Begin(r, "commit_update", i, 0, NoBody)
      /\ UNCHANGED <<itemStatus, itemBody, itemVersion, itemIndex, versionBody, versionStatus, indexBody>>
  BY DEF WorkspaceUpdateCheck, itemVars, versionVars
<1>2. PICK q \in Request : /\ req' = [req EXCEPT ![r] = q] /\ q.next = "commit_update" /\ q.item = i
                           /\ q.number = 0 /\ q.body = NoBody /\ q.status = "draft"
  <2>1. 0 \in 0..MaxVersion
    BY BoundsType
  <2> QED BY <1>1, <2>1, Begins DEF Steps
<1>3. \A c \in Items : SameItem(c)
  BY <1>1 DEF SameItem
<1>4. Shows(i)'
  BY <1>1, <1>3, RestsShows, SameShows
<1>5. Progress(q.next, i, 0, NoBody, q.status)'
  BY <1>2, <1>4 DEF Progress
<1> QED BY <1>1, <1>2, <1>3, <1>5, IdleRests, OneRequest

LEMMA WorkspaceUpdateInOrder ==
  ASSUME IInv, InOrder, NEW r \in Requests, \A s \in Requests \ {r} : Free(s),
         NEW b \in Bodies, NEW status \in ClientStatuses, WorkspaceUpdate(r, b, status)
  PROVE  InOrder'
<1>1. /\ req[r].next = "commit_update" /\ ~Free(r) /\ Finish(r) /\ UNCHANGED indexBody
  BY DEF WorkspaceUpdate, At, Free
<1>2. PICK i \in Items : req[r].item = i /\ Shows(i)
  BY <1>1, Working DEF Progress
<1>3. PICK n \in Numbers : n = itemVersion[i] + 1
  BY <1>2, BoundsType DEF WorkspaceUpdate, IInv, TypeOK, Numbers
<1>4. PICK q \in Request : q.next = "idle" /\ q.item = NoItem /\ req' = [req EXCEPT ![r] = q]
  BY <1>1, Ends
<1>5. CASE CanInsert(i, n)
  <2>1. UpdateItem(i, b, n, status) /\ InsertVersion(i, n, b, status) /\ HasRow(i)
    BY <1>2, <1>3, <1>5 DEF WorkspaceUpdate, CanInsert
  <2>2. /\ itemStatus'[i] = status /\ itemBody'[i] = b /\ itemVersion'[i] = n
        /\ itemIndex'[i] = "not_indexed"
    BY <2>1 DEF IInv, TypeOK, UpdateItem
  <2>3. \A c \in Items \ {i} : SameItem(c)
    BY <1>1, <2>1 DEF IInv, TypeOK, UpdateItem, InsertVersion, SameItem
  <2>4. \A m \in Numbers :
          /\ versionBody'[i][m] = IF m = n THEN b ELSE versionBody[i][m]
          /\ versionStatus'[i][m] = IF m = n THEN status ELSE versionStatus[i][m]
    BY <2>1, InsertVersionEffect DEF IInv
  <2>5. NoneAbove(i, itemVersion[i]) /\ itemVersion[i] = n - 1
    BY <1>2, <1>3, <2>1 DEF Shows, Current, IInv, TypeOK
  <2>6. NoneAbove(i, n)'
    BY <2>4, <2>5, BoundsType DEF NoneAbove, Numbers
  <2>7. Shows(i)'
    BY <2>2, <2>4, <2>6 DEF Shows, Current
  <2> QED BY <1>2, <1>4, <2>3, <2>7, OneRequest
<1>6. CASE ~CanInsert(i, n)
  <2>1. \A c \in Items : SameItem(c)
    BY <1>1, <1>2, <1>3, <1>6 DEF WorkspaceUpdate, itemVars, versionVars, SameItem
  <2>2. Shows(i)'
    BY <1>2, <2>1, SameShows
  <2> QED BY <1>2, <1>4, <2>1, <2>2, OneRequest
<1> QED BY <1>5, <1>6

\* Steps that need every request idle.
LEMMA DeleteItemInOrder ==
  ASSUME IInv, InOrder, \A r \in Requests : Free(r), NEW i \in Items, DeleteItem(i)
  PROVE  InOrder'
<1>1. req' = req /\ itemStatus'[i] = "removed" /\ \A c \in Items \ {i} : SameItem(c)
  BY DEF DeleteItem, IInv, TypeOK, SameItem
<1>2. Shows(i)'
  BY <1>1 DEF Shows, HasRow
<1> QED BY <1>1, <1>2, NoRequest

LEMMA WorkspaceDeleteInOrder ==
  ASSUME IInv, InOrder, \A r \in Requests : Free(r), NEW i \in Items, WorkspaceDelete(i)
  PROVE  InOrder'
<1>1. /\ req' = req /\ itemStatus'[i] = "deleted" /\ HasRow(i)
      /\ UNCHANGED <<itemBody, itemVersion, itemIndex, versionBody, versionStatus, indexBody>>
      /\ \A c \in Items \ {i} : SameItem(c)
  BY DEF WorkspaceDelete, IInv, TypeOK, SameItem, versionVars
<1>2. Shows(i)
  BY IdleRests, NoItemNew DEF InOrder, AtRest
<1>3. Shows(i)'
  BY <1>1, <1>2 DEF Shows, Current, NoneAbove, HasRow
<1> QED BY <1>1, <1>3, NoRequest

\* An item and its first version, inserted together.
LEMMA FirstVersionShows ==
  ASSUME IInv, NEW i \in Items, NEW b \in Bodies, NEW status \in ClientStatuses,
         itemStatus[i] = "none", InsertVersion(i, 1, b, status), indexBody' = indexBody,
         itemStatus' = [itemStatus EXCEPT ![i] = status], itemBody' = [itemBody EXCEPT ![i] = b],
         itemVersion' = [itemVersion EXCEPT ![i] = 1],
         itemIndex' = itemIndex \/ itemIndex' = [itemIndex EXCEPT ![i] = "indexed"]
  PROVE  Shows(i)' /\ \A c \in Items \ {i} : SameItem(c)
<1> USE NoBodyNew
<1>1. 1 \in Numbers
  BY BoundsType DEF Numbers
<1>2. \A m \in Numbers : versionBody[i][m] = NoBody
  BY DEF IInv, RowsAgree, HasRow
<1>3. indexBody'[i] = NoBody
  BY DEF IInv, RowsAgree
<1>4. \A m \in Numbers :
        /\ versionBody'[i][m] = IF m = 1 THEN b ELSE versionBody[i][m]
        /\ versionStatus'[i][m] = IF m = 1 THEN status ELSE versionStatus[i][m]
  BY <1>1, InsertVersionEffect DEF IInv
<1>5. /\ itemStatus'[i] = status /\ itemBody'[i] = b /\ itemVersion'[i] = 1
      /\ \A c \in Items \ {i} : SameItem(c)
  BY DEF IInv, TypeOK, InsertVersion, SameItem
<1>6. NoneAbove(i, 1)' /\ HasRow(i)'
  BY <1>2, <1>4, <1>5 DEF NoneAbove, HasRow, ClientStatuses
<1>7. Current(i, itemVersion[i], itemBody[i])'
  BY <1>1, <1>4, <1>5, <1>6 DEF Current, NoneAbove
<1> QED BY <1>1, <1>3, <1>4, <1>5, <1>7 DEF Shows

LEMMA CreateItemTxInOrder ==
  ASSUME IInv, InOrder, \A r \in Requests : Free(r), NEW i \in Items, NEW b \in Bodies,
         NEW status \in ClientStatuses, CreateItemTx(i, b, status)
  PROVE  InOrder'
<1>1. /\ itemStatus[i] = "none" /\ InsertVersion(i, 1, b, status) /\ req' = req
      /\ indexBody' = indexBody /\ itemStatus' = [itemStatus EXCEPT ![i] = status]
      /\ itemBody' = [itemBody EXCEPT ![i] = b] /\ itemVersion' = [itemVersion EXCEPT ![i] = 1]
      /\ itemIndex' = itemIndex
  BY DEF CreateItemTx, InsertItem
<1>2. Shows(i)' /\ \A c \in Items \ {i} : SameItem(c)
  BY <1>1, FirstVersionShows
<1> QED BY <1>1, <1>2, NoRequest

LEMMA RestartInOrder ==
  ASSUME IInv, InOrder, \A r \in Requests : Free(r), Restart
  PROVE  InOrder'
<1>1. indexBody' = indexBody /\ \A r \in Requests : req'[r] = Idle
  BY DEF Restart
<1>2. \A c \in Items : Shows(c)
  BY IdleRests, NoItemNew DEF InOrder, AtRest
<1>3. CASE UNCHANGED <<itemVars, versionVars>>
  <2>1. \A c \in Items : SameItem(c)
    BY <1>1, <1>3 DEF itemVars, versionVars, SameItem
  <2>2. \A c \in Items : Shows(c)'
    BY <1>2, <2>1, SameShows
  <2>3. \A r \in Requests : Free(r)' /\ Held(r)'
    BY <1>1 DEF Free, Held, Idle, Ask
  <2> QED BY <2>2, <2>3 DEF InOrder, Alone
<1>4. ASSUME NEW i \in Items, NEW b \in Bodies, itemStatus[i] = "none",
             itemStatus' = [itemStatus EXCEPT ![i] = "published"],
             itemBody' = [itemBody EXCEPT ![i] = b],
             itemVersion' = [itemVersion EXCEPT ![i] = 1],
             itemIndex' = [itemIndex EXCEPT ![i] = "indexed"],
             InsertVersion(i, 1, b, "published")
      PROVE  InOrder'
  <2>1. Shows(i)' /\ \A c \in Items \ {i} : SameItem(c)
    BY <1>1, <1>4, FirstVersionShows DEF ClientStatuses
  <2> QED BY <1>1, <2>1, NoRequest
<1> QED BY <1>3, <1>4 DEF Restart

LEMMA SequenceStep ==
  ASSUME SequenceInv, [MCNext]_<<vars, disturbed>>
  PROVE  SequenceInv'
<1>1. IInv /\ IInv' /\ TypeOK
  <2>1. [Next]_vars
    BY DEF MCNext
  <2> QED BY <2>1, NextIInv DEF SequenceInv, IInv
<1> SUFFICES ASSUME ~disturbed' PROVE InOrder'
  BY <1>1 DEF SequenceInv
<1>2. CASE UNCHANGED <<vars, disturbed>>
  <2>1. InOrder /\ req' = req /\ \A i \in Items : SameItem(i)
    BY <1>2 DEF SequenceInv, vars, itemVars, versionVars, SameItem
  <2>2. \A i \in Items : AtRest(i)' => Shows(i)'
    BY <2>1, SameShows DEF InOrder, AtRest
  <2>3. \A r \in Requests : Held(r)'
    BY <1>2, <2>1 DEF InOrder, Held, Progress, Shows, Current, NoneAbove, HasRow, vars, itemVars,
      versionVars
  <2> QED
    BY <2>1, <2>2, <2>3 DEF InOrder, Alone, Free
<1>3. CASE MCNext
  <2>1. InOrder /\ ~Interrupted
    BY <1>3 DEF SequenceInv, MCNext
  <2>2. ASSUME NEW r \in Requests, Handle(r) PROVE InOrder'
    <3>1. \A s \in Requests \ {r} : Free(s)
      <4>1. \A s \in Requests \ {r} : req'[s] = req[s]
        BY <1>1, <2>2 DEF TypeOK, Handle, CreateItem, InsertRow, UpdateRead, UpdateReadFails, UpdateWrite, PublishRead,
          PublishReadPayload, PublishItem, PublishVersion, IndexDocument, MarkIndexed,
          WorkspaceUpdateCheck, WorkspaceUpdate, StatementFails, Begin, Goto, Finish
      <4> QED BY <2>1, <4>1 DEF Interrupted
    <3>2. ~StatementFails(r) /\ \A i \in Items : ~UpdateReadFails(r, i)
      <4>1. StatementFails(r) \/ (\E i \in Items : UpdateReadFails(r, i)) => errors' # errors
        BY <1>1 DEF StatementFails, UpdateReadFails, TypeOK
      <4> QED BY <2>1, <4>1 DEF Interrupted
    <3>3. CASE \E i \in Items : UpdateRead(r, i) \/ PublishRead(r, i) \/ WorkspaceUpdateCheck(r, i)
      BY <1>1, <2>1, <3>1, <3>3, UpdateReadInOrder, PublishReadInOrder, WorkspaceUpdateCheckInOrder
    <3>4. CASE \E i \in Items, b \in Bodies, s \in ClientStatuses : CreateItem(r, i, b, s)
      BY <1>1, <2>1, <3>1, <3>4, CreateItemInOrder
    <3>5. CASE \/ \E b \in Bodies : UpdateWrite(r, b)
               \/ \E b \in Bodies, s \in ClientStatuses : WorkspaceUpdate(r, b, s)
      BY <1>1, <2>1, <3>1, <3>5, UpdateWriteInOrder, WorkspaceUpdateInOrder
    <3> QED
      BY <1>1, <2>1, <2>2, <3>1, <3>2, <3>3, <3>4, <3>5, InsertRowInOrder,
        PublishReadPayloadInOrder, PublishItemInOrder, PublishVersionInOrder,
        IndexDocumentInOrder, MarkIndexedInOrder DEF Handle
  <2>3. ASSUME req' = req PROVE \A r \in Requests : Free(r)
    BY <2>1, <2>3 DEF Interrupted
  <2>4. ASSUME NEW i \in Items, DeleteItem(i) \/ WorkspaceDelete(i) PROVE InOrder'
    <3>1. req' = req
      BY <2>4 DEF DeleteItem, WorkspaceDelete
    <3> QED BY <1>1, <2>1, <2>3, <2>4, <3>1, DeleteItemInOrder, WorkspaceDeleteInOrder
  <2>5. ASSUME NEW i \in Items, NEW b \in Bodies, NEW s \in ClientStatuses, CreateItemTx(i, b, s)
        PROVE  InOrder'
    <3>1. req' = req
      BY <2>5 DEF CreateItemTx
    <3> QED BY <1>1, <2>1, <2>3, <2>5, <3>1, CreateItemTxInOrder
  <2>6. CASE Restart
    <3>1. restarts' # restarts
      BY <1>1, <2>6 DEF Restart, TypeOK
    <3>2. \A r \in Requests : Free(r)
      BY <2>1, <3>1 DEF Interrupted
    <3> QED BY <1>1, <2>1, <2>6, <3>2, RestartInOrder
  <2> QED BY <1>3, <2>2, <2>4, <2>5, <2>6 DEF MCNext, Next
<1> QED BY <1>2, <1>3

LEMMA InitSequence == MCInit => SequenceInv
<1> SUFFICES ASSUME MCInit PROVE SequenceInv
  OBVIOUS
<1> USE NoBodyNew
<1>1. IInv
  BY InitIInv DEF MCInit
<1>2. \A r \in Requests : req[r] = Idle
  BY DEF MCInit, Init
<1>3. Alone /\ \A r \in Requests : Held(r)
  BY <1>2 DEF Alone, Free, Held, Idle, Ask
<1>4. \A i \in Items : indexBody[i] = NoBody
  BY DEF MCInit, Init
<1>5. 1 \in Numbers
  BY BoundsType DEF Numbers
<1>6. ASSUME NEW i \in Items, HasRow(i) PROVE Shows(i)
  <2>1. /\ itemStatus[i] = "published" /\ itemVersion[i] = 1 /\ versionBody[i][1] = itemBody[i]
        /\ versionStatus[i][1] = "published" /\ \A m \in Numbers \ {1} : versionBody[i][m] = NoBody
    BY <1>5, <1>6 DEF MCInit, Init, HasRow
  <2> QED BY <1>4, <1>6, <2>1 DEF Shows, Current, NoneAbove
<1> QED BY <1>1, <1>3, <1>6 DEF SequenceInv, InOrder, Shows

\* Handlers that run one after the other, no statement refused, leave an item and
\* the version it names in agreement.  (createKnowledgeItem, updateKnowledgeItem,
\* publishKnowledgeItem, the workspace's transactions)
THEOREM ItemsShowVersions == MCSpec => []ItemShowsItsVersionInSequence
<1>1. SequenceInv => ItemShowsItsVersionInSequence
  BY DEF SequenceInv, InOrder, Shows, Current, ItemShowsItsVersionInSequence, ItemShowsItsVersion
<1>2. SequenceInv /\ [MCNext]_<<vars, disturbed>> => SequenceInv'
  BY SequenceStep
<1> QED BY <1>1, <1>2, InitSequence, PTL DEF MCSpec

\* Handlers that run one after the other, no statement refused, never leave an
\* item marked as indexed whose content changed after it was handed to the index.
THEOREM IndexShowsItems == MCSpec => []IndexShowsItemInSequence
<1>1. SequenceInv => IndexShowsItemInSequence
  BY DEF SequenceInv, InOrder, Shows, IndexShowsItemInSequence, IndexShowsItem
<1>2. SequenceInv /\ [MCNext]_<<vars, disturbed>> => SequenceInv'
  BY SequenceStep
<1> QED BY <1>1, <1>2, InitSequence, PTL DEF MCSpec
=============================================================================
