--------------------------- MODULE KnowledgeImports ---------------------------
(***************************************************************************)
(* Imports of questions (CSV or rows) and of Markdown files into one       *)
(* knowledge base.                                                         *)
(*                                                                         *)
(* An import first looks for each row whether the base already has an item *)
(* of its type with its title, outside any transaction (a search that is   *)
(* refused finds none), and then inserts job and items in one.  An INSERT  *)
(* that is refused there only counts as a failure: if it is that of the    *)
(* version, the item stays and is committed without one.                   *)
(*                                                                         *)
(* A row is its title, Untitled when it has none; sizes, tags and contents *)
(* are left out, and a CSV that is refused as a whole.  An item also says  *)
(* which row of which import it is, and a job how many rows were sent.     *)
(* Items created one by one are left out; what becomes of an item later is *)
(* in KnowledgeItems.                                                      *)
(* <Definition>_<Slip> is the definition after it with a plausible mistake.*)
(***************************************************************************)
EXTENDS Integers, Sequences, FiniteSets

CONSTANTS
  Titles, Untitled,
  MaxItems,        \* completionImportMaxItems
  ImportRequests,
  MaxImports,      \* bound: imports that are started
  MaxInsertErrors  \* bound: refused INSERTs of one import

ASSUME ImportBounds == MaxItems \in Nat \ {0} /\ MaxImports \in Nat /\ MaxInsertErrors \in Nat

VARIABLES
  items,      \* knowledge_items of the base that are not deleted
  jobs,       \* knowledge_import_jobs
  importReq, imports

importVars == <<items, jobs, importReq, imports>>

RowNumbers == 1..MaxItems + 1   \* bound: one row more than the limit
Files == UNION {[1..n -> Titles \cup {Untitled}] : n \in 0..MaxItems + 1}
Kinds == {"csv", "rows", "markdown"}
Item == [title : Titles \cup {Untitled}, type : {"qa", "markdown"}, job : 1..MaxImports, row : RowNumbers,
         versioned : BOOLEAN]
Job == [rows : 0..MaxItems + 1, success : 0..MaxItems + 1, failed : 0..MaxItems + 2,
        duplicates : 0..MaxItems + 1, status : {"failed", "partial", "completed"}]
ImportRequest == [next : {"idle", "check", "write"}, kind : Kinds,
                  file : Files, at : 1..MaxItems + 2,
                  errors : 0..MaxItems + 1, bad : SUBSET RowNumbers,
                  duplicates : SUBSET RowNumbers,
                  missed : BOOLEAN]   \* history: did a refused search hide an item?
IdleImport == [next |-> "idle", kind |-> "csv", file |-> <<>>, at |-> 1,
               errors |-> 0, bad |-> {}, duplicates |-> {}, missed |-> FALSE]

ImportsTypeOK ==
  /\ items \subseteq Item
  /\ jobs \in Seq(Job) /\ Len(jobs) <= MaxImports
  /\ importReq \in [ImportRequests -> ImportRequest]
  /\ imports \in 0..MaxImports

ImportsInit ==
  /\ items = {} /\ jobs = <<>> /\ imports = 0
  /\ importReq = [q \in ImportRequests |-> IdleImport]

ImportAt(q, step) == importReq[q].next = step

-----------------------------------------------------------------------------

Untitleds(file) == {i \in DOMAIN file : file[i] = Untitled}

\* Of a CSV only the rows that parse count.
TooMany(kind, file) ==
  \/ kind = "markdown" /\ Len(file) > MaxItems
  \/ kind = "csv" /\ Len(file) - Cardinality(Untitleds(file)) > MaxItems

\* completionParseQA and validateMarkdownImportV033 refuse rows without title,
\* but rows sent as such are not validated, and of too many files none is.
Refused(kind, file) ==
  IF kind = "rows" \/ (kind = "markdown" /\ TooMany(kind, file)) THEN {} ELSE Untitleds(file)

\* knowledgeQADuplicatesV033 and validateMarkdownImportV033 look at row i; too
\* many Markdown files end the validation before the first.
StartImport(q) == \E kind \in Kinds, file \in Files :
  /\ ImportAt(q, "idle") /\ (kind = "rows" => file # <<>>)
  /\ imports < MaxImports /\ imports' = imports + 1
  /\ LET refused == Refused(kind, file)
     IN importReq' = [importReq EXCEPT ![q] =
          [next |-> IF file = <<>> \/ (kind = "markdown" /\ TooMany(kind, file)) THEN "write" ELSE "check",
           kind |-> kind, file |-> file, at |-> 1, bad |-> refused, duplicates |-> {},
           missed |-> FALSE,
           errors |-> Cardinality(refused) + (IF TooMany(kind, file) THEN 1 ELSE 0)]]
  /\ UNCHANGED <<items, jobs>>

Earlier_OtherFilesOnly(request) == {}
\* The rows before the one at hand that have its title.
Earlier(request) ==
  {j \in 1..request.at - 1 : j \notin request.bad /\ request.file[j] = request.file[request.at]}

TypeOf(kind) == IF kind = "markdown" THEN "markdown" ELSE "qa"

\* The items that count for the row at hand are those of the import's type.
SameTitle(request) == \E item \in items :
  item.type = TypeOf(request.kind) /\ item.title = request.file[request.at]

\* The error of the search is discarded: if it is refused, the count stays 0.
CheckRow(q) ==
  LET request == importReq[q]
      i == request.at
      searched == i \notin request.bad /\ Earlier(request) = {}
  IN \E refused \in BOOLEAN :
       LET missed == refused /\ searched /\ SameTitle(request)
           duplicate == i \notin request.bad /\ (searched => SameTitle(request) /\ ~refused)
       IN /\ ImportAt(q, "check")
          /\ importReq' = [importReq EXCEPT ![q] =
               [request EXCEPT !.duplicates = IF duplicate THEN @ \cup {i} ELSE @,
                               !.missed = @ \/ missed, !.at = i + 1,
                               !.next = IF i = Len(request.file) THEN "write" ELSE "check"]]
          /\ UNCHANGED <<items, jobs, imports>>

\* completionImportStatus
StatusOf(success, failed, duplicates) ==
  IF success = 0 /\ (failed > 0 \/ duplicates > 0) THEN "failed"
  ELSE IF failed > 0 \/ duplicates > 0 THEN "partial" ELSE "completed"

\* importKnowledgeQAV033Hotfix, importKnowledgeMarkdownV033Hotfix and
\* completionCreateKnowledgeItemTx: refused rows are those whose INSERT of the
\* item fails, orphans those whose INSERT of the version does.
WriteImport(q) ==
  LET request == importReq[q]
      wanted == DOMAIN request.file \ (request.bad \cup request.duplicates)
      id == Len(jobs) + 1
  IN /\ ImportAt(q, "write")
     /\ \E refused \in SUBSET wanted, orphans \in SUBSET wanted :
          LET written == wanted \ refused
              failed == request.errors + Cardinality(refused) + Cardinality(orphans)
              success == Cardinality(written \ orphans)
          IN /\ refused \cap orphans = {}
             /\ Cardinality(refused \cup orphans) <= MaxInsertErrors
             /\ items' = items \cup {[title |-> request.file[i], type |-> TypeOf(request.kind),
                                     job |-> id, row |-> i,
                                     versioned |-> i \notin orphans] : i \in written}
             /\ jobs' = Append(jobs,
                  [rows |-> Len(request.file), success |-> success, failed |-> failed,
                   duplicates |-> Cardinality(request.duplicates),
                   status |-> StatusOf(success, failed, Cardinality(request.duplicates))])
     /\ importReq' = [importReq EXCEPT ![q] = IdleImport]
     /\ UNCHANGED imports

\* The job cannot be written or committed, or the server stops.
ImportFails(q) ==
  /\ importReq[q].next # "idle"
  /\ importReq' = [importReq EXCEPT ![q] = IdleImport]
  /\ UNCHANGED <<items, jobs, imports>>

\* A deletion by the other handlers of items.
DeleteItem == \E item \in items :
  /\ items' = items \ {item}
  /\ UNCHANGED <<jobs, importReq, imports>>

ImportsNext ==
  \/ \E q \in ImportRequests : StartImport(q) \/ CheckRow(q) \/ WriteImport(q) \/ ImportFails(q)
  \/ DeleteItem

ImportsSpec == ImportsInit /\ [][ImportsNext]_importVars
=============================================================================
