------------------------------- MODULE Migrate -------------------------------
(***************************************************************************)
(* cmd/migrate: the SQL files of both stores, in order, each executed and  *)
(* then recorded in schema_migrations.  A process may die anywhere (a      *)
(* crash, a lost connection, its five minutes), be run again, and meet     *)
(* another one that is running.                                            *)
(*                                                                         *)
(* Files are numbered in the order they are applied, Postgres files first. *)
(* A Postgres file is sent as one query string, hence one transaction; a   *)
(* second execution fails unless the file is repeatable.  A ClickHouse     *)
(* file is executed statement by statement, and its statements all say IF  *)
(* NOT EXISTS.                                                             *)
(*                                                                         *)
(* Names that end in a parenthesised "Fault" comment are faulty variants   *)
(* of the definition that follows them.                                    *)
(***************************************************************************)
EXTENDS Naturals

CONSTANTS
  Procs,        \* processes that may run migrate
  PgFiles,      \* number of Postgres files
  ChFiles,      \* number of ClickHouse files
  Statements,   \* statements in a ClickHouse file
  Repeatable,   \* Postgres files that may be executed again
  MaxCrashes    \* bound: processes that die

ASSUME MigrateAssumption ==
  /\ PgFiles \in Nat /\ ChFiles \in Nat /\ PgFiles + ChFiles > 0
  /\ Statements \in Nat \ {0} /\ Repeatable \subseteq 1..PgFiles /\ MaxCrashes \in Nat

VARIABLES
  executed,  \* executed[f]: statements of f in effect (a Postgres file counts as one)
  recorded,  \* table schema_migrations
  pc,        \* pc[p]: where process p is with ...
  file,      \* ... file[p], and ...
  stmt,      \* ... the statement of it that is next
  crashes

vars == <<executed, recorded, pc, file, stmt, crashes>>

Files == 1..PgFiles + ChFiles
IsPg(f) == f <= PgFiles
Size(f) == IF IsPg(f) THEN 1 ELSE Statements

\* (Fault) ClickHouse is migrated first
FirstFileFault == IF ChFiles > 0 THEN PgFiles + 1 ELSE 1
FirstFile == 1

Init ==
  /\ executed = [f \in Files |-> 0] /\ recorded = {}
  /\ pc = [p \in Procs |-> "ended"] /\ file = [p \in Procs |-> 1]
  /\ stmt = [p \in Procs |-> 1] /\ crashes = 0

Goto(p, from, to) == pc[p] = from /\ pc' = [pc EXCEPT ![p] = to]

\* go run ./cmd/migrate
Start(p) ==
  /\ Goto(p, "ended", "check")
  /\ file' = [file EXCEPT ![p] = FirstFile]
  /\ UNCHANGED <<executed, recorded, stmt, crashes>>

HasNext(f) == f + 1 \in Files

\* The next file, or "migrations applied".
MoveOn(p, from) ==
  /\ Goto(p, from, IF HasNext(file[p]) THEN "check" ELSE "ended")
  /\ file' = [file EXCEPT ![p] = IF HasNext(@) THEN @ + 1 ELSE FirstFile]

\* applied
Skip(p) ==
  /\ file[p] \in recorded
  /\ MoveOn(p, "check")
  /\ UNCHANGED <<executed, recorded, stmt, crashes>>

Open(p) ==
  /\ file[p] \notin recorded
  /\ Goto(p, "check", "exec")
  /\ stmt' = [stmt EXCEPT ![p] = 1]
  /\ UNCHANGED <<executed, recorded, file, crashes>>

\* (Fault) the last statement is left out
LastFault(f, n) == n + 1 >= Size(f)
Last(f, n) == n = Size(f)

Fails(f) == IsPg(f) /\ executed[f] = 1 /\ f \notin Repeatable

\* One Exec; statements of a ClickHouse file that are in effect do nothing.
Exec(p) ==
  /\ ~Fails(file[p])
  /\ Goto(p, "exec", IF Last(file[p], stmt[p]) THEN "record" ELSE "exec")
  /\ stmt' = [stmt EXCEPT ![p] = @ + 1]
  /\ executed' = [executed EXCEPT ![file[p]] = IF @ < stmt[p] THEN stmt[p] ELSE @]
  /\ UNCHANGED <<recorded, file, crashes>>

\* log.Fatal
ExecFails(p) ==
  /\ Fails(file[p])
  /\ Goto(p, "exec", "ended")
  /\ UNCHANGED <<executed, recorded, file, stmt, crashes>>

Record(p) ==
  /\ file[p] \notin recorded
  /\ MoveOn(p, "record")
  /\ recorded' = recorded \cup {file[p]}
  /\ UNCHANGED <<executed, stmt, crashes>>

\* Another process recorded it first: the primary key refuses the row.
RecordFails(p) ==
  /\ file[p] \in recorded
  /\ Goto(p, "record", "ended")
  /\ UNCHANGED <<executed, recorded, file, stmt, crashes>>

Die(p) ==
  /\ crashes < MaxCrashes /\ pc[p] # "ended"
  /\ crashes' = crashes + 1
  /\ pc' = [pc EXCEPT ![p] = "ended"]
  /\ UNCHANGED <<executed, recorded, file, stmt>>

Work(p) == Skip(p) \/ Open(p) \/ Exec(p) \/ ExecFails(p) \/ Record(p) \/ RecordFails(p)

Next == \E p \in Procs : Start(p) \/ Work(p) \/ Die(p)

Spec == Init /\ [][Next]_vars

\* A process runs, and is run again when it has ended.
FairSpec == Spec /\ \A p \in Procs : WF_vars(Start(p)) /\ WF_vars(Work(p))

-----------------------------------------------------------------------------
(* Properties.                                                             *)

\* Every variable has its type.
TypeOK ==
  /\ executed \in [Files -> Nat] /\ \A f \in Files : executed[f] <= Size(f)
  /\ recorded \subseteq Files
  /\ pc \in [Procs -> {"ended", "check", "exec", "record"}]
  /\ file \in [Procs -> Files] /\ stmt \in [Procs -> 1..Statements + 1]

\* schema_migrations never claims what is not in effect, whichever
\* processes died half-way or ran side by side.
RecordedIsApplied == \A f \in recorded : executed[f] = Size(f)

\* A later file starts to take effect only on a schema that has all earlier
\* ones (migrate/main.go:1-2: "in filename order").
InOrder == \A f, g \in Files : f < g /\ executed[g] > 0 => executed[f] = Size(f)

\* Running migrate until it succeeds applies and records every file
\* (migrate/main.go:1-3: "applies the SQL files [...] once each. Applied
\* filenames (for both stores) are recorded").
Completes == <>(recorded = Files)

\* It does so, whoever dies and whoever interferes, unless a file that cannot
\* be executed again is left in effect with nobody to record it.
Torn == \E f \in 1..PgFiles : Fails(f) /\ f \notin recorded
           /\ \A p \in Procs : pc[p] = "record" => file[p] # f

CompletesUnlessTorn == []~Torn => Completes
=============================================================================
