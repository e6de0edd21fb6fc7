------------------------ MODULE SchemaMigrationsProofs ------------------------
(***************************************************************************)
(* A recorded migration is complete, wherever boots were interrupted.      *)
(***************************************************************************)
EXTENDS SchemaMigrations, TLAPS

\* Does file f change data only?
DataOnly(f) == \A i \in DOMAIN Migrations[f] : Migrations[f][i] = "data"

\* Where a boot can be.
Place ==
  /\ effects \in [Statements -> Nat]
  /\ pending \subseteq Statements
  /\ recorded \subseteq DOMAIN Migrations
  /\ file \in 0..Len(Migrations) + 1
  /\ at \in Nat
  /\ boots \in 1..MaxBoots
  /\ file # 0 => at > 0

\* Files are recorded in order, and a boot has passed only recorded ones.
InOrder ==
  /\ \A f \in recorded : 1..f \subseteq recorded
  /\ file # 0 => 1..file - 1 \subseteq recorded

\* What has been passed took effect.
Passed ==
  /\ \A f \in recorded : \A i \in DOMAIN Migrations[f] : effects[<<f, i>>] > 0
  /\ Running /\ file \notin recorded =>
       \A i \in DOMAIN Migrations[file] : i < at => effects[<<file, i>>] > 0

\* A crash undoes only statements of the file at hand.
PendingHere == \A s \in pending :
  Running /\ file \notin recorded /\ s[1] = file /\ s[2] < at /\ effects[s] > 0

\* A file that changes data only is undone as a whole or recorded.
AllOrNothing == \A f \in DOMAIN Migrations : DataOnly(f) =>
  \A i \in DOMAIN Migrations[f] :
    /\ effects[<<f, i>>] <= 1
    /\ f \notin recorded /\ <<f, i>> \notin pending => effects[<<f, i>>] = 0
    /\ f = file /\ f \notin recorded /\ i < at => <<f, i>> \in pending

IInv == Place /\ InOrder /\ Passed /\ PendingHere /\ AllOrNothing

-----------------------------------------------------------------------------

LEMMA StatementsAre ==
  /\ \A f \in DOMAIN Migrations : \A i \in DOMAIN Migrations[f] : <<f, i>> \in Statements
  /\ \A s \in Statements : /\ s = <<s[1], s[2]>>
                           /\ s[1] \in DOMAIN Migrations
                           /\ s[2] \in DOMAIN Migrations[s[1]]
BY DEF Statements

LEMMA FilesAre ==
  /\ DOMAIN Migrations = 1..Len(Migrations)
  /\ Len(Migrations) \in Nat
  /\ \A f \in DOMAIN Migrations :
       /\ DOMAIN Migrations[f] = 1..Len(Migrations[f])
       /\ Len(Migrations[f]) \in Nat
       /\ \A i \in DOMAIN Migrations[f] : Migrations[f][i] \in {"define", "index", "data"}
<1>1. Migrations \in Seq(Seq({"define", "index", "data"}))
  BY MigrationsAreSequences
<1>2. DOMAIN Migrations = 1..Len(Migrations) /\ Len(Migrations) \in Nat
  BY <1>1
<1>3. ASSUME NEW f \in DOMAIN Migrations
      PROVE  Migrations[f] \in Seq({"define", "index", "data"})
  BY <1>1, <1>2
<1> QED
  BY <1>2, <1>3

LEMMA InitIInv == MigrationsInit => IInv
<1> SUFFICES ASSUME MigrationsInit PROVE IInv
  OBVIOUS
<1> USE DEF MigrationsInit
<1>1. Place
  BY FilesAre, MigrationsAreSequences DEF Place
<1>2. InOrder /\ PendingHere
  BY DEF InOrder, PendingHere
<1>3. Passed
  <2>1. file = 1 /\ at = 1 /\ recorded = {}
    OBVIOUS
  <2>2. \A f \in DOMAIN Migrations : \A i \in DOMAIN Migrations[f] : ~(i < 1)
    BY FilesAre
  <2> QED
    BY <2>1, <2>2 DEF Passed, Running
<1>4. AllOrNothing
  BY FilesAre, StatementsAre DEF AllOrNothing
<1> QED
  BY <1>1, <1>2, <1>3, <1>4 DEF IInv

\* A statement that took effect, whether by Apply or earlier.
LEMMA ApplyIs ==
  ASSUME Place, Running, at \in DOMAIN Migrations[file], Apply
  PROVE  /\ Here \in Statements
         /\ effects' \in [Statements -> Nat]
         /\ effects'[Here] = effects[Here] + 1
         /\ \A s \in Statements : s # Here => effects'[s] = effects[s]
BY StatementsAre DEF Place, Running, Apply, Here

LEMMA SkipKeeps == IInv /\ SkipRecorded => IInv'
<1> SUFFICES ASSUME IInv, SkipRecorded PROVE IInv'
  OBVIOUS
<1> USE DEF IInv, SkipRecorded
<1>0. pending = {}
  BY DEF PendingHere
<1>1. Place'
  BY FilesAre DEF Place, Running
<1>2. InOrder'
  BY FilesAre DEF Place, InOrder, Running
<1>3. Passed'
  BY FilesAre DEF Place, Passed, Running
<1>4. PendingHere'
  BY <1>0 DEF PendingHere
<1>5. AllOrNothing'
  BY FilesAre DEF Place, AllOrNothing, DataOnly
<1> QED
  BY <1>1, <1>2, <1>3, <1>4, <1>5

LEMMA ChangeDataKeeps == IInv /\ ChangeData => IInv'
<1> SUFFICES ASSUME IInv, ChangeData PROVE IInv'
  OBVIOUS
<1> USE DEF IInv, ChangeData, Statement, Advance
<1>1. /\ Here \in Statements
      /\ effects' \in [Statements -> Nat]
      /\ effects'[Here] = effects[Here] + 1
      /\ \A s \in Statements : s # Here => effects'[s] = effects[s]
  BY ApplyIs
<1>2. Here = <<file, at>> /\ file \in DOMAIN Migrations /\ file \notin recorded /\ at \in Nat
  BY DEF Here, Running, Place
<1>3. Place'
  BY <1>1 DEF Place
<1>4. InOrder'
  BY DEF InOrder
<1>5. Passed'
  <2>1. \A s \in Statements : effects'[s] >= effects[s]
    BY <1>1 DEF Place
  <2>2. \A f \in recorded : \A i \in DOMAIN Migrations[f] : effects'[<<f, i>>] > 0
    BY <1>1, <1>2, <2>1, StatementsAre DEF Passed, Place
  <2>3. ASSUME NEW i \in DOMAIN Migrations[file], i < at + 1
        PROVE  effects'[<<file, i>>] > 0
    <3>1. CASE i = at
      BY <3>1, <1>1, <1>2 DEF Place
    <3>2. CASE i # at
      <4>1. i < at
        BY <3>2, <2>3, <1>2, FilesAre
      <4>2. effects[<<file, i>>] > 0 /\ <<file, i>> \in Statements
        BY <4>1, <1>2, StatementsAre DEF Passed, Running
      <4> QED
        BY <4>2, <2>1, <1>1 DEF Place
    <3> QED
      BY <3>1, <3>2
  <2> QED
    BY <2>2, <2>3 DEF Passed
<1>6. PendingHere'
  <2> SUFFICES ASSUME NEW s \in pending'
               PROVE  s[1] = file /\ s[2] < at + 1 /\ effects'[s] > 0
    BY <1>2 DEF PendingHere, Running
  <2>1. CASE s = Here
    BY <2>1, <1>1, <1>2 DEF Place
  <2>2. CASE s # Here
    <3>1. s \in pending
      BY <2>2
    <3>2. s \in Statements /\ s[2] \in Nat /\ s[1] = file /\ s[2] < at /\ effects[s] > 0
      BY <3>1, StatementsAre, FilesAre DEF PendingHere, Place
    <3> QED
      BY <3>2, <2>2, <1>1, <1>2
  <2> QED
    BY <2>1, <2>2
<1>7. AllOrNothing'
  <2> SUFFICES ASSUME NEW f \in DOMAIN Migrations, DataOnly(f), NEW i \in DOMAIN Migrations[f]
               PROVE  /\ effects'[<<f, i>>] <= 1
                      /\ f \notin recorded /\ <<f, i>> \notin pending' => effects'[<<f, i>>] = 0
                      /\ f = file /\ f \notin recorded /\ i < at' => <<f, i>> \in pending'
    BY DEF AllOrNothing, DataOnly
  <2>1. CASE f # file
    BY <2>1, <1>1, <1>2, StatementsAre DEF AllOrNothing
  <2>2. CASE f = file
    <3>1. InTransaction
      BY <2>2, FilesAre, <1>2 DEF InTransaction, DataOnly, Statement
    <3>2. pending' = pending \cup {Here}
      BY <3>1
    <3>3. Here \notin pending /\ effects[Here] = 0
      BY <2>2, <1>2 DEF PendingHere, AllOrNothing, Statement
    <3>4. CASE i = at
      BY <3>4, <3>2, <3>3, <2>2, <1>1, <1>2
    <3>5. CASE i # at
      <4>1. <<f, i>> # Here /\ <<f, i>> \in Statements
        BY <3>5, <1>2, StatementsAre
      <4>2. effects'[<<f, i>>] = effects[<<f, i>>]
        BY <4>1, <1>1
      <4>3. i < at + 1 => i < at
        BY <3>5, <1>2, FilesAre
      <4> QED
        BY <4>1, <4>2, <4>3, <3>2 DEF AllOrNothing
    <3> QED
      BY <3>4, <3>5
  <2> QED
    BY <2>1, <2>2
<1> QED
  BY <1>3, <1>4, <1>5, <1>6, <1>7

\* What Define and ChangeIndex share: the statement has taken effect, and the
\* file changes more than data.
LEMMA SchemaChangeKeeps ==
  ASSUME IInv, Statement({"define", "index"}), Advance, pending' = {},
         effects' \in [Statements -> Nat], effects'[Here] > 0,
         \A s \in Statements : s # Here => effects'[s] = effects[s]
  PROVE  IInv'
<1> USE DEF IInv, Statement, Advance
<1>1. /\ Here = <<file, at>> /\ file \in DOMAIN Migrations /\ file \notin recorded
      /\ at \in Nat /\ Here \in Statements
  BY StatementsAre DEF Here, Running, Place
<1>2. Place' /\ InOrder' /\ PendingHere'
  BY DEF Place, InOrder, PendingHere
<1>3. Passed'
  <2>1. \A s \in Statements : effects[s] > 0 => effects'[s] > 0
    OBVIOUS
  <2>2. \A f \in recorded : \A i \in DOMAIN Migrations[f] : effects'[<<f, i>>] > 0
    BY <2>1, StatementsAre DEF Passed, Place
  <2>3. ASSUME NEW i \in DOMAIN Migrations[file], i < at + 1
        PROVE  effects'[<<file, i>>] > 0
    <3>1. CASE i = at
      BY <3>1, <1>1
    <3>2. CASE i # at
      <4>1. i < at
        BY <3>2, <2>3, <1>1, FilesAre
      <4> QED
        BY <4>1, <2>1, <1>1, StatementsAre DEF Passed, Running
    <3> QED
      BY <3>1, <3>2
  <2> QED
    BY <2>2, <2>3 DEF Passed
<1>4. ~DataOnly(file)
  BY <1>1 DEF DataOnly, Kind
<1>5. AllOrNothing'
  <2> SUFFICES ASSUME NEW f \in DOMAIN Migrations, DataOnly(f), NEW i \in DOMAIN Migrations[f]
               PROVE  /\ effects'[<<f, i>>] <= 1
                      /\ f \notin recorded => effects'[<<f, i>>] = 0
                      /\ ~(f = file /\ f \notin recorded /\ i < at')
    BY DEF AllOrNothing, DataOnly
  <2>1. f # file
    BY <1>4
  <2>2. <<f, i>> \notin pending
    BY <2>1 DEF PendingHere
  <2> QED
    BY <2>1, <2>2, <1>1, StatementsAre DEF AllOrNothing
<1> QED
  BY <1>2, <1>3, <1>5

LEMMA DefineKeeps == IInv /\ Define => IInv'
<1> SUFFICES ASSUME IInv, Define PROVE IInv'
  OBVIOUS
<1>1. Statement({"define", "index"}) /\ Running /\ at \in DOMAIN Migrations[file]
  BY DEF Define, Statement
<1>2. Place /\ Here \in Statements
  BY <1>1, StatementsAre DEF IInv, Here, Running
<1>3. /\ effects' \in [Statements -> Nat] /\ effects'[Here] > 0
      /\ \A s \in Statements : s # Here => effects'[s] = effects[s]
  <2>1. CASE effects[Here] = 0
    BY <2>1, <1>1, <1>2, ApplyIs DEF Define
  <2>2. CASE effects[Here] # 0
    BY <2>2, <1>2 DEF Define, Place
  <2> QED
    BY <2>1, <2>2
<1> QED
  BY <1>1, <1>3, SchemaChangeKeeps DEF Define

LEMMA ChangeIndexKeeps == IInv /\ ChangeIndex => IInv'
<1> SUFFICES ASSUME IInv, ChangeIndex PROVE IInv'
  OBVIOUS
<1>1. Statement({"define", "index"}) /\ Running /\ at \in DOMAIN Migrations[file]
  BY DEF ChangeIndex, Statement
<1>2. /\ effects' \in [Statements -> Nat] /\ effects'[Here] > 0
      /\ \A s \in Statements : s # Here => effects'[s] = effects[s]
  BY <1>1, ApplyIs DEF IInv, ChangeIndex
<1> QED
  BY <1>1, <1>2, SchemaChangeKeeps DEF ChangeIndex

LEMMA RecordKeeps == IInv /\ Record => IInv'
<1> SUFFICES ASSUME IInv, Record PROVE IInv'
  OBVIOUS
<1> USE DEF IInv, Record
<1>1. file \in 1..Len(Migrations) /\ Len(Migrations) \in Nat /\ at \in Nat /\ recorded' = recorded \cup {file}
  BY FilesAre DEF Running, Place
<1>2. Place'
  BY <1>1, FilesAre DEF Place
<1>3. InOrder'
  BY <1>1 DEF InOrder
<1>4. Passed'
  <2>1. \A i \in DOMAIN Migrations[file] : effects[<<file, i>>] > 0
    BY <1>1, FilesAre DEF Passed, Running, Complete
  <2> QED
    BY <2>1, <1>1, FilesAre DEF Passed, Running
<1>5. PendingHere'
  BY DEF PendingHere
<1>6. AllOrNothing'
  <2> SUFFICES ASSUME NEW f \in DOMAIN Migrations, DataOnly(f), NEW i \in DOMAIN Migrations[f]
               PROVE  /\ effects[<<f, i>>] <= 1
                      /\ f \notin recorded' => effects[<<f, i>>] = 0
                      /\ ~(f = file' /\ f \notin recorded' /\ i < at')
    BY DEF AllOrNothing, DataOnly
  <2>1. f \notin recorded' => <<f, i>> \notin pending
    BY <1>1 DEF PendingHere
  <2> QED
    BY <2>1, <1>1, FilesAre DEF AllOrNothing
<1> QED
  BY <1>2, <1>3, <1>4, <1>5, <1>6

LEMMA StopKeeps == IInv /\ Stop => IInv'
<1> SUFFICES ASSUME IInv, Stop PROVE IInv'
  OBVIOUS
<1> USE DEF IInv, Stop
<1>1. \A s \in Statements : effects'[s] = IF s \in pending THEN effects[s] - 1 ELSE effects[s]
  OBVIOUS
<1>2. \A s \in pending : s[1] \notin recorded /\ effects[s] > 0
  BY DEF PendingHere
<1>3. effects' \in [Statements -> Nat]
  BY <1>2 DEF Place
<1>4. Place'
  BY <1>3, FilesAre DEF Place
<1>5. InOrder' /\ PendingHere'
  BY DEF InOrder, PendingHere
<1>6. Passed'
  <2>1. ~Running'
    BY FilesAre DEF Running
  <2> QED
    BY <2>1, <1>1, <1>2, StatementsAre DEF Passed, Place
<1>7. AllOrNothing'
  <2> SUFFICES ASSUME NEW f \in DOMAIN Migrations, DataOnly(f), NEW i \in DOMAIN Migrations[f]
               PROVE  /\ effects'[<<f, i>>] <= 1
                      /\ f \notin recorded => effects'[<<f, i>>] = 0
                      /\ f # file'
    BY DEF AllOrNothing, DataOnly
  <2>1. f # file'
    BY FilesAre
  <2>2. <<f, i>> \in Statements /\ effects[<<f, i>>] \in Nat
    BY StatementsAre DEF Place
  <2>3. effects[<<f, i>>] <= 1 /\ (f \notin recorded /\ <<f, i>> \notin pending => effects[<<f, i>>] = 0)
    BY DEF AllOrNothing
  <2>4. <<f, i>> \in pending => effects[<<f, i>>] > 0
    BY <1>2
  <2> QED
    BY <2>1, <2>2, <2>3, <2>4, <1>1
<1> QED
  BY <1>4, <1>5, <1>6, <1>7

LEMMA BootKeeps == IInv /\ Boot => IInv'
<1> SUFFICES ASSUME IInv, Boot PROVE IInv'
  OBVIOUS
<1> USE DEF IInv, Boot
<1>0. pending = {}
  BY FilesAre DEF PendingHere, Running
<1>1. Place'
  BY FilesAre, MigrationsAreSequences DEF Place
<1>2. InOrder' /\ PendingHere'
  BY <1>0 DEF InOrder, PendingHere
<1>3. Passed'
  <2>1. \A f \in DOMAIN Migrations : \A i \in DOMAIN Migrations[f] : ~(i < 1)
    BY FilesAre
  <2> QED
    BY <2>1 DEF Passed, Running
<1>4. AllOrNothing'
  BY FilesAre DEF AllOrNothing, DataOnly
<1> QED
  BY <1>1, <1>2, <1>3, <1>4

\* The steps one by one.
LEMMA NextIInv == IInv /\ [MigrationsNext]_migrationVars => IInv'
<1> SUFFICES ASSUME IInv, [MigrationsNext]_migrationVars PROVE IInv'
  OBVIOUS
<1>1. CASE UNCHANGED migrationVars
  BY <1>1 DEF migrationVars, IInv, Place, InOrder, Passed, PendingHere, AllOrNothing,
              DataOnly, Running
<1> QED
  BY <1>1, SkipKeeps, ChangeDataKeeps, DefineKeeps, ChangeIndexKeeps, RecordKeeps,
     StopKeeps, BootKeeps DEF MigrationsNext

LEMMA IInvImplies == IInv => RecordedMigrationIsComplete
<1> SUFFICES ASSUME IInv PROVE RecordedMigrationIsComplete
  OBVIOUS
<1> USE DEF IInv
<1>1. ASSUME NEW f \in recorded
      PROVE  (\A i \in DOMAIN Migrations[f] : effects[<<f, i>>] > 0) /\ 1..f \subseteq recorded
  BY DEF Passed, InOrder
<1>2. Serving => recorded = DOMAIN Migrations
  <2> SUFFICES ASSUME Serving PROVE recorded = DOMAIN Migrations
    OBVIOUS
  <2>1. file # 0 /\ file - 1 = Len(Migrations)
    BY FilesAre DEF Serving
  <2> QED
    BY <2>1, FilesAre DEF InOrder, Place
<1>3. ASSUME NEW s \in Statements,
             \A i \in DOMAIN Migrations[s[1]] : Migrations[s[1]][i] = "data"
      PROVE  effects[s] <= 1
  BY <1>3, StatementsAre DEF AllOrNothing, DataOnly
<1> QED
  BY <1>1, <1>2, <1>3 DEF RecordedMigrationIsComplete

-----------------------------------------------------------------------------

\* For any files and any number of boots, wherever they stop: no file is recorded
\* before all of it took effect, the server serves only when all files are
\* recorded, and files that change data only take effect once.  (applyMigrations)
THEOREM MigrationsComplete == MigrationsSpec => []RecordedMigrationIsComplete
<1>1. MigrationsSpec => []IInv
  BY InitIInv, NextIInv, PTL DEF MigrationsSpec
<1> QED
  BY <1>1, IInvImplies, PTL

-----------------------------------------------------------------------------
(* The types, with the bound on how often a statement takes effect.          *)

\* A boot lets a statement take effect once, and what it has not reached yet took
\* effect in earlier boots only.
Counted == \A s \in Statements :
  /\ effects[s] <= boots
  /\ file # 0 /\ (s[1] > file \/ (s[1] = file /\ s[2] >= at)) => effects[s] < boots

TypedInv == IInv /\ Counted

LEMMA StatementCounts ==
  ASSUME IInv, Counted, Running, at \in DOMAIN Migrations[file], Apply \/ UNCHANGED effects, Advance
  PROVE  Counted'
<1> USE DEF IInv, Place
<1>1. /\ effects \in [Statements -> Nat] /\ Here \in Statements /\ boots \in Nat /\ at \in Nat
      /\ file \in Nat /\ file # 0 /\ boots' = boots /\ file' = file /\ at' = at + 1
  BY StatementsAre, FilesAre, MigrationsAreSequences DEF Running, Here, Advance
<1>2. \A s \in Statements :
        /\ s[1] \in Nat /\ s[2] \in Nat /\ s = <<s[1], s[2]>> /\ effects[s] \in Nat
        /\ s # Here => effects'[s] = effects[s]
        /\ s = Here => effects[s] < boots /\ effects'[s] <= effects[s] + 1
  <2> SUFFICES ASSUME NEW s \in Statements
               PROVE  /\ s[1] \in Nat /\ s[2] \in Nat /\ s = <<s[1], s[2]>> /\ effects[s] \in Nat
                      /\ s # Here => effects'[s] = effects[s]
                      /\ s = Here => effects[s] < boots /\ effects'[s] <= effects[s] + 1
    OBVIOUS
  <2>1. s[1] \in Nat /\ s[2] \in Nat /\ s = <<s[1], s[2]>>
    BY StatementsAre, FilesAre
  <2>2. effects[s] \in Nat /\ (s # Here => effects'[s] = effects[s])
    BY <1>1 DEF Apply
  <2>3. ASSUME s = Here PROVE effects[s] < boots /\ effects'[s] <= effects[s] + 1
    <3>1. s[1] = file /\ s[2] = at
      BY <2>3 DEF Here
    <3>2. effects[s] < boots
      BY <3>1, <1>1 DEF Counted
    <3>3. effects'[s] = effects[s] + 1 \/ effects'[s] = effects[s]
      BY <1>1, <2>3 DEF Apply
    <3> QED BY <3>2, <3>3, <2>2
  <2> QED BY <2>1, <2>2, <2>3
<1>3. ASSUME NEW s \in Statements
      PROVE  /\ effects'[s] <= boots
             /\ s[1] > file \/ (s[1] = file /\ s[2] >= at + 1) => effects'[s] < boots
  <2>0. s[1] \in Nat /\ s[2] \in Nat /\ effects[s] \in Nat
    BY <1>2
  <2>1. CASE s = Here
    <3>1. s[1] = file /\ s[2] = at
      BY <2>1 DEF Here
    <3>2. effects'[s] <= boots
      <4>1. effects[s] < boots /\ effects'[s] <= effects[s] + 1
        BY <2>1, <1>2
      <4>2. effects'[s] \in Nat
        BY <1>1, <2>1 DEF Apply
      <4> QED BY <4>1, <4>2, <2>0, <1>1
    <3> QED BY <3>1, <3>2, <1>1
  <2>2. CASE s # Here
    <3>1. effects'[s] = effects[s]
      BY <2>2, <1>2
    <3>2. /\ effects[s] <= boots
          /\ s[1] > file \/ (s[1] = file /\ s[2] >= at) => effects[s] < boots
      BY <1>1 DEF Counted
    <3> QED BY <3>1, <3>2, <2>0, <1>1
  <2> QED BY <2>1, <2>2
<1> QED BY <1>1, <1>3 DEF Counted

LEMMA TypedStep == TypedInv /\ [MigrationsNext]_migrationVars => TypedInv'
<1> SUFFICES ASSUME TypedInv, [MigrationsNext]_migrationVars PROVE Counted'
  BY NextIInv DEF TypedInv
<1> USE DEF TypedInv
<1>2. /\ effects \in [Statements -> Nat] /\ boots \in Nat /\ file \in Nat /\ at \in Nat
      /\ \A s \in Statements : s[1] \in Nat /\ s[2] \in Nat /\ effects[s] \in Nat
  BY StatementsAre, FilesAre, MigrationsAreSequences DEF IInv, Place
<1>3. CASE UNCHANGED migrationVars
  BY <1>3 DEF migrationVars, Counted
<1>4. CASE SkipRecorded \/ Record
  <2>1. UNCHANGED <<effects, boots>> /\ file' = file + 1 /\ at' = 1 /\ file # 0
    BY <1>4, FilesAre DEF SkipRecorded, Record, Running
  <2> QED BY <1>2, <2>1 DEF Counted
<1>5. CASE ChangeData \/ Define \/ ChangeIndex
  BY <1>5, StatementCounts DEF ChangeData, Define, ChangeIndex, Statement
<1>6. CASE Stop
  <2>1. ASSUME NEW s \in Statements PROVE effects'[s] <= boots
    BY <1>2, <1>6 DEF Counted, Stop
  <2> QED BY <1>6, <2>1 DEF Counted, Stop
<1>7. CASE Boot
  BY <1>2, <1>7 DEF Counted, Boot
<1> QED BY <1>3, <1>4, <1>5, <1>6, <1>7 DEF MigrationsNext

LEMMA InitTyped == MigrationsInit => TypedInv
<1>1. MigrationsInit => Counted
  BY DEF MigrationsInit, Counted
<1> QED BY <1>1, InitIInv DEF TypedInv

LEMMA TypedImplies == TypedInv => MigrationsTypeOK
<1> SUFFICES ASSUME TypedInv PROVE MigrationsTypeOK
  OBVIOUS
<1> USE DEF TypedInv, IInv, Place
<1>1. effects \in [Statements -> 0..MaxBoots]
  <2>1. ASSUME NEW s \in Statements PROVE effects[s] \in 0..MaxBoots
    BY MigrationsAreSequences DEF Counted
  <2> QED BY <2>1
<1> QED BY <1>1 DEF MigrationsTypeOK
=============================================================================
