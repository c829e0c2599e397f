--------------------------- MODULE EmbeddingProofs ---------------------------
(***************************************************************************)
(* Proofs about Embedding, for any number of runs, products, starts and    *)
(* any batch size.  BackfillInv is RerunIsSafe made inductive: what a run  *)
(* knows once its loop has ended, and who will see to an index that has    *)
(* been dropped.                                                           *)
(***************************************************************************)
EXTENDS Embedding, TLAPS

States == {"idle", "select", "update", "drop", "look", "create", "done", "dead"}

\* The types of what the proofs are about.
Types ==
  /\ count \in Nat /\ embedded \subseteq 1..count
  /\ pc \in [Runs -> States] /\ ids \in [Runs -> SUBSET (1..count)]
  /\ met \in [Runs -> 0..count] /\ reindex \in [Runs -> BOOLEAN] /\ indexed \in BOOLEAN

\* Past its loop, a run has left no product that it met without an embedding.
LoopIsOver ==
  \A r \in Runs : pc[r] \in {"drop", "look", "create", "done"} => 1..met[r] \subseteq embedded

\* While there is no index although a run has completed, somebody who dropped
\* it is still under way, or has died.
IndexIsOwed == (\E r \in Runs : pc[r] = "done") /\ ~indexed => \E r \in Runs : pc[r] \notin {"idle", "done"}

\* Only a run with -reindex drops the index.
DropIsAsked == \A r \in Runs : pc[r] = "drop" => reindex[r]

BackfillInv == Types /\ LoopIsOver /\ IndexIsOwed /\ DropIsAsked

\* No run has started.
LEMMA InitEstablishes == Init => BackfillInv
  <1> SUFFICES ASSUME Init PROVE BackfillInv
    OBVIOUS
  <1>1. Types
    <2>1. count \in Nat /\ embedded \subseteq 1..count /\ indexed \in BOOLEAN
      BY EmbeddingAssumption DEF Init
    <2>2. pc \in [Runs -> States] /\ ids \in [Runs -> SUBSET (1..count)] /\ reindex \in [Runs -> BOOLEAN]
      BY DEF Init, States
    <2>3. met \in [Runs -> 0..count]
      <3>1. 0 \in 0..count
        BY <2>1
      <3> QED
        BY <3>1 DEF Init
    <2> QED
      BY <2>1, <2>2, <2>3 DEF Types
  <1>2. LoopIsOver /\ IndexIsOwed /\ DropIsAsked
    BY DEF Init, LoopIsOver, IndexIsOwed, DropIsAsked
  <1> QED
    BY <1>1, <1>2 DEF BackfillInv

\* The steps of ensureIndex, in both orders of main.go:104-119.
LEMMA StepsOfEnsureIndex ==
  ASSUME NEW r \in Runs, reindex[r] \in BOOLEAN
  PROVE  /\ IndexSteps(r)[1] \in {"drop", "look"} /\ (IndexSteps(r)[1] = "drop" => reindex[r])
         /\ \A found \in BOOLEAN : After(r, "look", found) = IF found THEN "done" ELSE "create"
         /\ \A found \in BOOLEAN : reindex[r] => After(r, "drop", found) = "look"
  BY DEF IndexSteps, After

\* A step of one run that only grows the embedded products.
LEMMA RunPreserves ==
  ASSUME BackfillInv, NEW r \in Runs, NEW to \in States \ {"idle"},
         pc' = [pc EXCEPT ![r] = to], NEW S \in SUBSET (1..count), ids' = [ids EXCEPT ![r] = S],
         UNCHANGED <<count, reindex, met>>,
         embedded \subseteq embedded', embedded' \subseteq 1..count, indexed' \in BOOLEAN,
         to \in {"drop", "look", "create", "done"} => 1..met[r] \subseteq embedded',
         to = "done" => indexed', to = "drop" => reindex[r]
  PROVE  BackfillInv'
  <1>1. Types'
    BY DEF BackfillInv, Types
  <1>2. LoopIsOver'
    BY DEF BackfillInv, Types, LoopIsOver
  <1>3. IndexIsOwed'
    <2>1. pc'[r] = to
      BY DEF BackfillInv, Types
    <2> QED
      BY <2>1 DEF IndexIsOwed
  <1>4. DropIsAsked'
    BY DEF BackfillInv, Types, DropIsAsked
  <1> QED
    BY <1>1, <1>2, <1>3, <1>4 DEF BackfillInv

\* The end of the loop: what is not pending is embedded.
LEMMA NothingPending ==
  ASSUME BackfillInv, NEW r \in Runs, Pending = {}
  PROVE  1..met[r] \subseteq embedded
  <1>1. 1..count \subseteq embedded
    BY DEF Pending
  <1>2. met[r] \in 0..count /\ count \in Nat
    BY DEF BackfillInv, Types
  <1>3. \A k \in 1..met[r] : k \in 1..count
    BY <1>2
  <1> QED
    BY <1>1, <1>3

\* Every step of the next-state relation preserves the invariant.
LEMMA NextPreserves ==
  ASSUME BackfillInv, [Next]_vars
  PROVE  BackfillInv'
  <1>0. /\ count \in Nat /\ embedded \subseteq 1..count /\ indexed \in BOOLEAN
        /\ \A r \in Runs : ids[r] \in SUBSET (1..count) /\ reindex[r] \in BOOLEAN /\ ids = [ids EXCEPT ![r] = ids[r]]
    BY DEF BackfillInv, Types
  <1>1. CASE UNCHANGED vars
    BY <1>1 DEF vars, table, BackfillInv, Types, LoopIsOver, IndexIsOwed, DropIsAsked
  <1>2. CASE Insert
    <2>1. /\ count' = count + 1
          /\ UNCHANGED <<embedded, indexed, pc, ids, reindex, met>>
      BY <1>2 DEF Insert
    <2>2. count' \in Nat /\ 1..count \subseteq 1..count' /\ 0..count \subseteq 0..count'
      BY <2>1, <1>0
    <2>3. Types'
      BY <2>1, <2>2 DEF BackfillInv, Types
    <2> QED
      BY <2>1, <2>3 DEF BackfillInv, LoopIsOver, IndexIsOwed, DropIsAsked
  <1>3. ASSUME NEW r \in Runs, Start(r) PROVE BackfillInv'
    <2>1. /\ pc' = [pc EXCEPT ![r] = "select"] /\ ids' = [ids EXCEPT ![r] = {}]
          /\ met' = [met EXCEPT ![r] = count]
          /\ UNCHANGED <<count, embedded, indexed>>
          /\ \E b \in BOOLEAN : reindex' = [reindex EXCEPT ![r] = b]
      BY <1>3 DEF Start, table
    <2>2. count \in 0..count
      BY <1>0
    <2>3. Types'
      BY <2>1, <2>2 DEF BackfillInv, Types, States
    <2>4. LoopIsOver'
      BY <2>1 DEF BackfillInv, Types, LoopIsOver
    <2>5. IndexIsOwed'
      <3>1. pc'[r] = "select"
        BY <2>1 DEF BackfillInv, Types
      <3> QED
        BY <3>1 DEF IndexIsOwed
    <2>6. DropIsAsked'
      BY <2>1 DEF BackfillInv, Types, DropIsAsked
    <2> QED
      BY <2>3, <2>4, <2>5, <2>6 DEF BackfillInv
  <1>4. ASSUME NEW r \in Runs, Die(r) PROVE BackfillInv'
    <2>1. /\ pc' = [pc EXCEPT ![r] = "dead"] /\ ids' = [ids EXCEPT ![r] = {}]
          /\ UNCHANGED <<count, embedded, indexed, reindex, met>>
      BY <1>4 DEF Die, table
    <2>2. "dead" \in States \ {"idle"} /\ {} \in SUBSET (1..count)
      BY DEF States
    <2> QED
      BY <2>1, <2>2, <1>0, RunPreserves
  <1>5. ASSUME NEW r \in Runs, Select(r) PROVE BackfillInv'
    <2>1. PICK to \in {IndexSteps(r)[1], "update"} :
            /\ to = IF Pending = {} THEN IndexSteps(r)[1] ELSE "update"
            /\ pc' = [pc EXCEPT ![r] = to] /\ ids' = [ids EXCEPT ![r] = Lowest(Pending, Batch)]
            /\ UNCHANGED <<count, embedded, indexed, reindex, met>>
      BY <1>5 DEF Select, Goto, table
    <2>2. Lowest(Pending, Batch) \in SUBSET (1..count)
      BY DEF Lowest, Pending
    <2>3. to \in States \ {"idle"}
      BY <2>1, <1>0, StepsOfEnsureIndex DEF States
    <2>4. to \in {"drop", "look", "create", "done"} => 1..met[r] \subseteq embedded
      BY <2>1, NothingPending
    <2>5. to # "done" /\ (to = "drop" => reindex[r])
      BY <2>1, <1>0, StepsOfEnsureIndex
    <2> QED
      BY <2>1, <2>2, <2>3, <2>4, <2>5, <1>0, RunPreserves
  <1>6. ASSUME NEW r \in Runs, Update(r) PROVE BackfillInv'
    <2>1. /\ pc' = [pc EXCEPT ![r] = "select"] /\ ids' = [ids EXCEPT ![r] = {}]
          /\ embedded' = embedded \cup ids[r]
          /\ UNCHANGED <<count, indexed, reindex, met>>
      BY <1>6 DEF Update, Goto
    <2>2. "select" \in States \ {"idle"} /\ {} \in SUBSET (1..count)
      BY DEF States
    <2>3. embedded \subseteq embedded' /\ embedded' \subseteq 1..count /\ indexed' \in BOOLEAN
      BY <2>1, <1>0
    <2> QED
      BY <2>1, <2>2, <2>3, RunPreserves
  <1>7. ASSUME NEW r \in Runs, Drop(r) \/ Look(r) \/ Create(r) PROVE BackfillInv'
    <2>1. PICK to \in {"look", "create", "done", "dead"} :
            /\ pc' = [pc EXCEPT ![r] = to]
            /\ to = "done" => indexed'
      <3>1. CASE Drop(r)
        <4>1. pc[r] = "drop" /\ pc' = [pc EXCEPT ![r] = After(r, "drop", indexed)]
          BY <3>1 DEF Drop, Goto
        <4>2. After(r, "drop", indexed) = "look"
          BY <4>1, <1>0, StepsOfEnsureIndex DEF BackfillInv, DropIsAsked
        <4> QED
          BY <4>1, <4>2
      <3>2. CASE Look(r)
        <4>1. pc' = [pc EXCEPT ![r] = After(r, "look", indexed)] /\ indexed' = indexed
          BY <3>2 DEF Look, Goto, table
        <4>2. After(r, "look", indexed) = IF indexed THEN "done" ELSE "create"
          BY <1>0, StepsOfEnsureIndex
        <4> QED
          BY <4>1, <4>2
      <3>3. CASE Create(r)
        BY <3>3 DEF Create, Goto
      <3> QED
        BY <1>7, <3>1, <3>2, <3>3
    <2>2. pc[r] \in {"drop", "look", "create"}
      BY <1>7 DEF Drop, Look, Create, Goto
    <2>3. 1..met[r] \subseteq embedded
      BY <2>2 DEF BackfillInv, LoopIsOver
    <2>4. /\ UNCHANGED <<count, embedded, ids, reindex, met>> /\ indexed' \in BOOLEAN
      BY <1>7, <1>0 DEF Drop, Look, Create, Goto, table
    <2>5. to \in States \ {"idle"} /\ to # "drop"
      BY <2>1 DEF States
    <2> QED
      BY <2>1, <2>3, <2>4, <2>5, <1>0, RunPreserves
  <1> QED
    BY <1>1, <1>2, <1>3, <1>4, <1>5, <1>6, <1>7 DEF Next, Step

-----------------------------------------------------------------------------
\* What a run knows by its place, and that a dropped index is owed by
\* somebody (main.go:46-130), is always so.
THEOREM BackfillInvariant == Spec => []BackfillInv
  BY InitEstablishes, NextPreserves, PTL DEF Spec

\* Runs may be repeated, overlap and die (main.go:3-5): a run that is done
\* leaves no product without an embedding that it met, and once all who
\* started are done there is an index.
THEOREM RerunsAreSafe == Spec => []RerunIsSafe
  <1>1. BackfillInv => RerunIsSafe
    BY DEF BackfillInv, LoopIsOver, IndexIsOwed, RerunIsSafe
  <1> QED
    BY <1>1, BackfillInvariant, PTL
=============================================================================
