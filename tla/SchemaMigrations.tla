--------------------------- MODULE SchemaMigrations ---------------------------
(***************************************************************************)
(* How a boot brings the schema up to date, across crashes.                *)
(*                                                                         *)
(* applyMigrations runs the statements of each unrecorded file in one      *)
(* transaction and records the file at its end; but the first statement    *)
(* that changes the schema makes MySQL commit and leave the transaction,   *)
(* so that what follows is committed statement by statement.  When a file  *)
(* runs again, a definition that is there already is skipped, an index     *)
(* that is there (or no longer there to be dropped) is an error, and what  *)
(* changes data runs again.                                                *)
(* <Definition>_<Slip> is the definition after it with a plausible mistake.*)
(***************************************************************************)
EXTENDS Integers, Sequences, FiniteSets

CONSTANTS
  Migrations,   \* the files in order, each the sequence of its statements:
                \* "define" (table, column, foreign key), "index" or "data"
  MaxBoots      \* bound: boots

ASSUME MigrationsAreSequences ==
  Migrations \in Seq(Seq({"define", "index", "data"})) /\ MaxBoots \in Nat \ {0}

VARIABLES
  effects,      \* how often each statement took effect
  pending,      \* statements of the open transaction that a crash undoes
  recorded,     \* schema_migrations
  file, at,     \* where applyMigrations is, 0 between two boots
  boots

migrationVars == <<effects, pending, recorded, file, at, boots>>

Statements == UNION {{f} \X DOMAIN Migrations[f] : f \in DOMAIN Migrations}

MigrationsTypeOK ==
  /\ effects \in [Statements -> 0..MaxBoots]
  /\ pending \subseteq Statements
  /\ recorded \subseteq DOMAIN Migrations
  /\ file \in 0..Len(Migrations) + 1
  /\ at \in Nat
  /\ boots \in 1..MaxBoots

MigrationsInit ==
  /\ effects = [s \in Statements |-> 0]
  /\ pending = {} /\ recorded = {}
  /\ file = 1 /\ at = 1 /\ boots = 1

-----------------------------------------------------------------------------

Here == <<file, at>>
Running == file \in DOMAIN Migrations
Serving == file = Len(Migrations) + 1
Kind == Migrations[file][at]
Statement(kinds) == Running /\ file \notin recorded /\ at \in DOMAIN Migrations[file] /\ Kind \in kinds
Apply == effects' = [effects EXCEPT ![Here] = @ + 1]
Advance == at' = at + 1 /\ UNCHANGED <<recorded, file, boots>>

SkipRecorded ==
  /\ Running /\ file \in recorded
  /\ file' = file + 1 /\ at' = 1
  /\ UNCHANGED <<effects, pending, recorded, boots>>

\* Has no statement of this file ended the transaction yet?
InTransaction == \A i \in 1..at - 1 : Migrations[file][i] = "data"

ChangeData ==
  /\ Statement({"data"}) /\ Apply
  /\ pending' = IF InTransaction THEN pending \cup {Here} ELSE pending
  /\ Advance

\* A statement that changes the schema commits what is pending, also when
\* ignorableSchemaError skips it (1050, 1060, 1826).
Define ==
  /\ Statement({"define"})
  /\ IF effects[Here] = 0 THEN Apply ELSE UNCHANGED effects
  /\ pending' = {} /\ Advance

ChangeIndex ==
  /\ Statement({"index"}) /\ effects[Here] = 0
  /\ Apply /\ pending' = {} /\ Advance

Complete_Started(f) == at > 0
Complete(f) == at > Len(Migrations[f])

Record ==
  /\ Running /\ file \notin recorded /\ Complete(file)
  /\ recorded' = recorded \cup {file}
  /\ pending' = {} /\ file' = file + 1 /\ at' = 1
  /\ UNCHANGED <<effects, boots>>

\* The process ends: by a crash, by an error that is not ignored (an index of an
\* earlier attempt among them: 1061, 1091), or because it is stopped.
Stop ==
  /\ file # 0
  /\ effects' = [s \in Statements |-> IF s \in pending THEN effects[s] - 1 ELSE effects[s]]
  /\ pending' = {} /\ file' = 0 /\ at' = 0
  /\ UNCHANGED <<recorded, boots>>

Boot ==
  /\ file = 0 /\ boots < MaxBoots
  /\ boots' = boots + 1 /\ file' = 1 /\ at' = 1
  /\ UNCHANGED <<effects, pending, recorded>>

MigrationsNext ==
  SkipRecorded \/ ChangeData \/ Define \/ ChangeIndex \/ Record \/ Stop \/ Boot

MigrationsSpec == MigrationsInit /\ [][MigrationsNext]_migrationVars

-----------------------------------------------------------------------------

\* applyMigrations: a file is recorded only when each of its statements took
\* effect and all files before it are recorded, wherever boots were interrupted;
\* the server serves only when all are; and a file that changes data only takes
\* effect once.
RecordedMigrationIsComplete ==
  /\ \A f \in recorded :
       /\ \A i \in DOMAIN Migrations[f] : effects[<<f, i>>] > 0
       /\ 1..f \subseteq recorded
  /\ Serving => recorded = DOMAIN Migrations
  /\ \A s \in Statements :
       (\A i \in DOMAIN Migrations[s[1]] : Migrations[s[1]][i] = "data") => effects[s] <= 1
=============================================================================
