---------------------------- MODULE MigrateProofs ----------------------------
(***************************************************************************)
(* Proofs about Migrate, for any number of processes, files and            *)
(* statements, and any crashes.  MigrateInv says what a process knows by   *)
(* its place in the code: which files are behind it, and how much of the   *)
(* file it is at has taken effect.                                         *)
(***************************************************************************)
EXTENDS Migrate, TLAPS

\* A process has passed only files that are recorded.
Behind == \A p \in Procs : pc[p] # "ended" => \A f \in Files : f < file[p] => f \in recorded

\* The statements of its file that a process has left behind are in effect.
Progress == \A p \in Procs :
  /\ pc[p] = "exec" => stmt[p] <= Size(file[p]) /\ executed[file[p]] >= stmt[p] - 1
  /\ pc[p] = "record" => executed[file[p]] = Size(file[p])

MigrateInv == TypeOK /\ RecordedIsApplied /\ InOrder /\ Behind /\ Progress

\* Sizes and file numbers are what they seem.
LEMMA Numbers ==
  /\ PgFiles \in Nat /\ ChFiles \in Nat /\ Statements \in Nat \ {0}
  /\ Files \subseteq Nat \ {0} /\ 1 \in Files
  /\ \A f \in Files : Size(f) \in 1..Statements \cup {1} /\ Size(f) \in Nat \ {0} /\ Size(f) <= Statements
  /\ \A f \in Files : HasNext(f) => f + 1 \in Files
  BY MigrateAssumption DEF Files, Size, IsPg, HasNext

\* Before anything is executed.
LEMMA InitEstablishes == Init => MigrateInv
  <1> SUFFICES ASSUME Init PROVE MigrateInv
    OBVIOUS
  <1> USE DEF Init
  <1>1. TypeOK
    BY Numbers DEF TypeOK
  <1>2. RecordedIsApplied /\ InOrder
    BY DEF RecordedIsApplied, InOrder
  <1>3. Behind /\ Progress
    BY DEF Behind, Progress
  <1> QED
    BY <1>1, <1>2, <1>3 DEF MigrateInv

\* What a step of p leaves of the processes q, when nothing but the place
\* of p has moved.
LEMMA MovePreserves ==
  ASSUME MigrateInv, NEW p \in Procs,
         executed' = executed, recorded \subseteq recorded', recorded' \subseteq Files,
         \A f \in recorded' : executed[f] = Size(f),
         NEW place \in {"ended", "check", "exec", "record"}, pc' = [pc EXCEPT ![p] = place],
         NEW f0 \in Files, file' = [file EXCEPT ![p] = f0],
         NEW n0 \in 1..Statements + 1, stmt' = [stmt EXCEPT ![p] = n0],
         place # "ended" => \A f \in Files : f < f0 => f \in recorded',
         place = "exec" => n0 = 1,
         place # "record"
  PROVE  MigrateInv'
  <1>1. TypeOK'
    BY DEF MigrateInv, TypeOK
  <1>2. RecordedIsApplied' /\ InOrder'
    BY DEF MigrateInv, RecordedIsApplied, InOrder
  <1>3. Behind'
    BY DEF MigrateInv, TypeOK, Behind
  <1>4. Progress'
    <2> SUFFICES ASSUME NEW q \in Procs
                 PROVE  /\ pc'[q] = "exec" => stmt'[q] <= Size(file'[q]) /\ executed[file'[q]] >= stmt'[q] - 1
                        /\ pc'[q] = "record" => executed[file'[q]] = Size(file'[q])
      BY DEF Progress
    <2>1. CASE q = p
      <3>1. pc'[q] = place /\ file'[q] = f0 /\ stmt'[q] = n0
        BY <2>1 DEF MigrateInv, TypeOK
      <3>2. executed[f0] \in Nat /\ Size(f0) \in Nat \ {0}
        BY Numbers DEF MigrateInv, TypeOK
      <3> QED
        BY <3>1, <3>2
    <2>2. CASE q # p
      <3>1. pc'[q] = pc[q] /\ file'[q] = file[q] /\ stmt'[q] = stmt[q]
        BY <2>2 DEF MigrateInv, TypeOK
      <3> QED
        BY <3>1 DEF MigrateInv, Progress
    <2> QED
      BY <2>1, <2>2
  <1> QED
    BY <1>1, <1>2, <1>3, <1>4 DEF MigrateInv

\* One statement takes effect.
LEMMA ExecPreserves ==
  ASSUME MigrateInv, NEW p \in Procs, Exec(p)
  PROVE  MigrateInv'
  <1> DEFINE f0 == file[p]
             n0 == stmt[p]
  <1>1. /\ pc[p] = "exec" /\ f0 \in Files /\ n0 \in Nat \ {0} /\ n0 <= Size(f0)
        /\ executed[f0] \in Nat /\ executed[f0] <= Size(f0) /\ executed[f0] >= n0 - 1
    BY DEF MigrateInv, TypeOK, Progress, Exec, Goto
  <1>2. /\ pc' = [pc EXCEPT ![p] = IF n0 = Size(f0) THEN "record" ELSE "exec"]
        /\ stmt' = [stmt EXCEPT ![p] = n0 + 1]
        /\ executed' = [executed EXCEPT ![f0] = IF executed[f0] < n0 THEN n0 ELSE executed[f0]]
        /\ recorded' = recorded /\ file' = file
    BY DEF Exec, Goto, Last
  <1>3. /\ \A f \in Files \ {f0} : executed'[f] = executed[f]
        /\ executed'[f0] \in {n0, executed[f0]} /\ executed'[f0] >= executed[f0] /\ executed'[f0] >= n0
    BY <1>1, <1>2 DEF MigrateInv, TypeOK
  <1> HIDE DEF f0, n0
  <1>4. \A f \in Files : /\ executed[f] \in Nat /\ executed'[f] \in Nat
                         /\ executed[f] <= executed'[f] /\ executed'[f] <= Size(f)
    BY <1>1, <1>3 DEF MigrateInv, TypeOK
  <1>5. TypeOK'
    <2>1. n0 + 1 \in 1..Statements + 1
      BY <1>1, Numbers
    <2>2. executed' \in [Files -> Nat]
      BY <1>2, <1>4 DEF MigrateInv, TypeOK
    <2>3. stmt' \in [Procs -> 1..Statements + 1]
      BY <1>2, <2>1 DEF MigrateInv, TypeOK
    <2> QED
      BY <1>2, <1>4, <2>2, <2>3 DEF MigrateInv, TypeOK
  <1>6. \A f \in Files : executed[f] = Size(f) => executed'[f] = Size(f)
    BY <1>4, Numbers
  <1>7. RecordedIsApplied'
    BY <1>2, <1>6 DEF MigrateInv, TypeOK, RecordedIsApplied
  <1>8. InOrder'
    <2> SUFFICES ASSUME NEW f \in Files, NEW g \in Files, f < g, executed'[g] > 0
                 PROVE  executed'[f] = Size(f)
      BY DEF InOrder
    <2>1. CASE g = f0
      <3>1. f \in recorded
        BY <2>1, <1>1 DEF MigrateInv, Behind, f0
      <3> QED
        BY <3>1, <1>6 DEF MigrateInv, RecordedIsApplied
    <2>2. CASE g # f0
      BY <2>2, <1>3, <1>6 DEF MigrateInv, InOrder
    <2> QED
      BY <2>1, <2>2
  <1>9. Behind'
    BY <1>1, <1>2 DEF MigrateInv, TypeOK, Behind
  <1>10. Progress'
    <2> SUFFICES ASSUME NEW q \in Procs
                 PROVE  /\ pc'[q] = "exec" => stmt'[q] <= Size(file[q]) /\ executed'[file[q]] >= stmt'[q] - 1
                        /\ pc'[q] = "record" => executed'[file[q]] = Size(file[q])
      BY <1>2 DEF Progress
    <2>0. file[q] \in Files /\ stmt[q] \in Nat
      BY DEF MigrateInv, TypeOK
    <2>1. CASE q = p
      <3>1. /\ pc'[q] = IF n0 = Size(f0) THEN "record" ELSE "exec"
            /\ stmt'[q] = n0 + 1 /\ file[q] = f0
        BY <2>1, <1>2 DEF MigrateInv, TypeOK, f0
      <3>2. /\ Size(f0) \in Nat /\ n0 \in Nat /\ n0 <= Size(f0)
            /\ executed'[f0] \in Nat /\ executed'[f0] >= n0 /\ executed'[f0] <= Size(f0)
        BY <1>1, <1>3, <1>4, Numbers
      <3>3. CASE n0 = Size(f0)
        BY <3>1, <3>2, <3>3
      <3>4. CASE n0 # Size(f0)
        BY <3>1, <3>2, <3>4
      <3> QED
        BY <3>3, <3>4
    <2>2. CASE q # p
      <3>1. pc'[q] = pc[q] /\ stmt'[q] = stmt[q]
        BY <2>2, <1>2 DEF MigrateInv, TypeOK
      <3>2. /\ pc[q] = "exec" => stmt[q] <= Size(file[q]) /\ executed[file[q]] >= stmt[q] - 1
            /\ pc[q] = "record" => executed[file[q]] = Size(file[q])
        BY DEF MigrateInv, Progress
      <3> QED
        BY <3>1, <3>2, <2>0, <1>4, <1>6
    <2> QED
      BY <2>1, <2>2
  <1> QED
    BY <1>5, <1>7, <1>8, <1>9, <1>10 DEF MigrateInv

\* A step that goes on to the next file knows that its own is recorded.
LEMMA MoveOnPreserves ==
  ASSUME MigrateInv, NEW p \in Procs, NEW from \in {"check", "record"}, MoveOn(p, from),
         executed' = executed, stmt' = stmt, recorded' = recorded \cup {file[p]},
         executed[file[p]] = Size(file[p])
  PROVE  MigrateInv'
  <1>1. pc[p] = from /\ pc[p] # "ended" /\ file[p] \in Files
    BY DEF MoveOn, Goto, MigrateInv, TypeOK
  <1>2. \A f \in Files : f < file[p] => f \in recorded
    BY <1>1 DEF MigrateInv, Behind
  <1>3. /\ recorded \subseteq recorded' /\ recorded' \subseteq Files
        /\ \A f \in recorded' : executed[f] = Size(f)
    BY <1>1 DEF MigrateInv, TypeOK, RecordedIsApplied
  <1>4. stmt' = [stmt EXCEPT ![p] = stmt[p]] /\ stmt[p] \in 1..Statements + 1
    BY DEF MigrateInv, TypeOK
  <1>5. CASE HasNext(file[p])
    <2>1. PICK f0 \in Files : f0 = file[p] + 1
      BY <1>1, <1>5, Numbers
    <2>2. pc' = [pc EXCEPT ![p] = "check"] /\ file' = [file EXCEPT ![p] = f0]
      BY <1>1, <1>5, <2>1 DEF MoveOn, Goto
    <2>3. \A f \in Files : f < f0 => f < file[p] \/ f = file[p]
      BY <1>1, <2>1, Numbers
    <2>4. \A f \in Files : f < f0 => f \in recorded'
      BY <1>2, <2>3
    <2>5. recorded \subseteq recorded'
      BY <1>3
    <2> QED
      BY <1>3, <1>4, <2>2, <2>4, <2>5, MovePreserves
  <1>6. CASE ~HasNext(file[p])
    <2>1. pc' = [pc EXCEPT ![p] = "ended"] /\ file' = [file EXCEPT ![p] = 1] /\ 1 \in Files
      BY <1>6, Numbers DEF MoveOn, Goto, FirstFile
    <2> QED
      BY <1>3, <1>4, <2>1, MovePreserves
  <1> QED
    BY <1>5, <1>6

\* A step that ends the process, or leaves everything but its place alone.
LEMMA EndPreserves ==
  ASSUME MigrateInv, NEW p \in Procs, pc' = [pc EXCEPT ![p] = "ended"],
         UNCHANGED <<executed, recorded, file, stmt>>
  PROVE  MigrateInv'
  <1>1. /\ file' = [file EXCEPT ![p] = file[p]] /\ file[p] \in Files
        /\ stmt' = [stmt EXCEPT ![p] = stmt[p]] /\ stmt[p] \in 1..Statements + 1
        /\ recorded' \subseteq Files /\ \A f \in recorded' : executed[f] = Size(f)
    BY DEF MigrateInv, TypeOK, RecordedIsApplied
  <1> QED
    BY <1>1, MovePreserves

\* Every step of the next-state relation preserves the invariant.
LEMMA NextPreserves ==
  ASSUME MigrateInv, [Next]_vars
  PROVE  MigrateInv'
  <1>1. CASE UNCHANGED vars
    BY <1>1 DEF vars, MigrateInv, TypeOK, RecordedIsApplied, InOrder, Behind, Progress
  <1>2. ASSUME NEW p \in Procs, Start(p) PROVE MigrateInv'
    <2>1. /\ pc' = [pc EXCEPT ![p] = "check"] /\ file' = [file EXCEPT ![p] = 1] /\ 1 \in Files
          /\ stmt' = [stmt EXCEPT ![p] = stmt[p]] /\ stmt[p] \in 1..Statements + 1
          /\ executed' = executed /\ recorded' = recorded
          /\ recorded' \subseteq Files /\ \A f \in recorded' : executed[f] = Size(f)
      BY <1>2, Numbers DEF Start, Goto, FirstFile, MigrateInv, TypeOK, RecordedIsApplied
    <2>2. \A f \in Files : ~(f < 1)
      BY Numbers
    <2> QED
      BY <2>1, <2>2, MovePreserves
  <1>3. ASSUME NEW p \in Procs, Skip(p) PROVE MigrateInv'
    <2>1. /\ MoveOn(p, "check") /\ executed' = executed /\ stmt' = stmt
          /\ recorded' = recorded \cup {file[p]} /\ executed[file[p]] = Size(file[p])
      BY <1>3 DEF Skip, MigrateInv, RecordedIsApplied
    <2> QED
      BY <2>1, MoveOnPreserves
  <1>4. ASSUME NEW p \in Procs, Open(p) PROVE MigrateInv'
    <2>1. /\ pc[p] = "check" /\ pc' = [pc EXCEPT ![p] = "exec"]
          /\ file' = [file EXCEPT ![p] = file[p]] /\ file[p] \in Files
          /\ stmt' = [stmt EXCEPT ![p] = 1] /\ 1 \in 1..Statements + 1
          /\ executed' = executed /\ recorded' = recorded
          /\ recorded' \subseteq Files /\ \A f \in recorded' : executed[f] = Size(f)
      BY <1>4, Numbers DEF Open, Goto, MigrateInv, TypeOK, RecordedIsApplied
    <2>2. \A f \in Files : f < file[p] => f \in recorded'
      BY <2>1 DEF MigrateInv, Behind
    <2> QED
      BY <2>1, <2>2, MovePreserves
  <1>5. ASSUME NEW p \in Procs, Exec(p) PROVE MigrateInv'
    BY <1>5, ExecPreserves
  <1>6. ASSUME NEW p \in Procs, ExecFails(p) \/ RecordFails(p) \/ Die(p) PROVE MigrateInv'
    <2>1. pc' = [pc EXCEPT ![p] = "ended"] /\ UNCHANGED <<executed, recorded, file, stmt>>
      BY <1>6 DEF ExecFails, RecordFails, Die, Goto
    <2> QED
      BY <2>1, EndPreserves
  <1>7. ASSUME NEW p \in Procs, Record(p) PROVE MigrateInv'
    <2>1. /\ MoveOn(p, "record") /\ pc[p] = "record" /\ executed' = executed /\ stmt' = stmt
          /\ recorded' = recorded \cup {file[p]}
      BY <1>7 DEF Record, MoveOn, Goto
    <2>2. executed[file[p]] = Size(file[p])
      BY <2>1 DEF MigrateInv, Progress
    <2> QED
      BY <2>1, <2>2, MoveOnPreserves
  <1> QED
    BY <1>1, <1>2, <1>3, <1>4, <1>5, <1>6, <1>7 DEF Next, Work

-----------------------------------------------------------------------------
\* What a process knows by its place (main.go:61-131) is always so.
THEOREM MigrateInvariant == Spec => []MigrateInv
  BY InitEstablishes, NextPreserves, PTL DEF Spec

\* schema_migrations never claims a file that is not in effect, whichever
\* processes died half-way or ran side by side (main.go:72-81).
THEOREM RecordedFilesAreApplied == Spec => []RecordedIsApplied
  <1>1. MigrateInv => RecordedIsApplied
    BY DEF MigrateInv
  <1> QED
    BY <1>1, MigrateInvariant, PTL

\* A file starts to take effect only on a schema that has all the files
\* before it (main.go:40-45, 66-71).
THEOREM FilesTakeEffectInOrder == Spec => []InOrder
  <1>1. MigrateInv => InOrder
    BY DEF MigrateInv
  <1> QED
    BY <1>1, MigrateInvariant, PTL
=============================================================================
