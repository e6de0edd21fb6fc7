---------------------------- MODULE VersionHistory ----------------------------
(***************************************************************************)
(* What the documentation of the knowledge base promises of versions: they *)
(* are immutable history.  An owner (an item, a document) receives         *)
(* numbered versions; a version keeps its body for as long as its owner    *)
(* exists, one that is released stays released, and removing an owner      *)
(* removes all of its versions for good.                                   *)
(***************************************************************************)
CONSTANTS Owners, Numbers, Bodies, NoBody

VARIABLES
  body,       \* body of each version, NoBody while there is none
  released,   \* the numbers of the released versions
  removed     \* owners that are gone

vars == <<body, released, removed>>

TypeOK ==
  /\ body \in [Owners -> [Numbers -> Bodies \cup {NoBody}]]
  /\ released \in [Owners -> SUBSET Numbers]
  /\ removed \subseteq Owners

Init ==
  /\ TypeOK
  /\ removed = {}
  /\ \A o \in Owners : \A n \in released[o] : body[o][n] # NoBody

\* A new version takes a number no version of its owner has.
Add(o, n, b, now) ==
  /\ o \notin removed
  /\ body[o][n] = NoBody
  /\ body' = [body EXCEPT ![o][n] = b]
  /\ released' = [released EXCEPT ![o] = IF now THEN @ \cup {n} ELSE @]
  /\ UNCHANGED removed

Release(o, n) ==
  /\ body[o][n] # NoBody
  /\ released' = [released EXCEPT ![o] = @ \cup {n}]
  /\ UNCHANGED <<body, removed>>

Remove(o) ==
  /\ body' = [body EXCEPT ![o] = [n \in Numbers |-> NoBody]]
  /\ released' = [released EXCEPT ![o] = {}]
  /\ removed' = removed \cup {o}

Next == \E o \in Owners :
  \/ \E n \in Numbers, b \in Bodies, now \in BOOLEAN : Add(o, n, b, now)
  \/ \E n \in Numbers : Release(o, n)
  \/ Remove(o)

Spec == Init /\ [][Next]_vars
=============================================================================
