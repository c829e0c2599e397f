------------------------------ MODULE Embedding ------------------------------
(***************************************************************************)
(* The backfill of cmd/embed: runs of the program, each a loop of one      *)
(* SELECT and one UPDATE per batch and then the statements of ensureIndex, *)
(* beside ingestd, which adds products, and beside other runs.  A failed   *)
(* statement ends a run (log.Fatal); a run may die anywhere, and may be    *)
(* started again.  Products are numbered in the order of their ids.        *)
(*                                                                         *)
(* Names that end in a parenthesised "Fault" comment are faulty variants   *)
(* of the definition that follows them.                                    *)
(***************************************************************************)
EXTENDS Integers, FiniteSets

CONSTANTS
  Runs,      \* runs that may be under way together
  First,     \* products at the start are 1..First
  Last,      \* bound: products that ingestd adds, up to Last
  Batch,     \* -batch
  MaxStarts  \* bound: starts of runs

ASSUME EmbeddingAssumption ==
  /\ First \in Nat /\ Last \in Nat /\ Batch \in Nat \ {0} /\ MaxStarts \in Nat

VARIABLES
  count,     \* table products: 1..count
  embedded,  \* those with an embedding
  indexed,   \* products_embedding_idx exists
  pc,        \* pc[r]: the next statement of run r; "idle", "done" or "dead"
  ids,       \* ids[r]: the batch it has read
  reindex,   \* reindex[r]: its flag
  starts,
  met,       \* history: met[r]: the products there were when it started
  trained    \* history: the products the index was built on

table == <<count, embedded, indexed, trained>>
vars == <<table, pc, ids, reindex, starts, met>>

Init ==
  /\ count = First /\ embedded = {} /\ indexed = FALSE /\ trained = {}
  /\ pc = [r \in Runs |-> "idle"] /\ ids = [r \in Runs |-> {}] /\ reindex = [r \in Runs |-> FALSE]
  /\ starts = 0 /\ met = [r \in Runs |-> 0]

Under(r) == pc[r] \notin {"idle", "done", "dead"}

Goto(r, from, to) == pc[r] = from /\ pc' = [pc EXCEPT ![r] = to] /\ UNCHANGED <<reindex, starts, met>>

-----------------------------------------------------------------------------
Start(r) ==
  /\ ~Under(r) /\ starts < MaxStarts
  /\ starts' = starts + 1
  /\ pc' = [pc EXCEPT ![r] = "select"] /\ ids' = [ids EXCEPT ![r] = {}]
  /\ reindex' \in {[reindex EXCEPT ![r] = b] : b \in BOOLEAN}
  /\ met' = [met EXCEPT ![r] = count]
  /\ UNCHANGED table

Die(r) ==
  /\ Under(r)
  /\ pc' = [pc EXCEPT ![r] = "dead"] /\ ids' = [ids EXCEPT ![r] = {}]
  /\ UNCHANGED <<table, reindex, starts, met>>

\* WHERE embedding IS NULL ORDER BY id LIMIT $1
\* (Fault) the rows from the last batch's first id on, embedded or not
PendingFault == 1..count
Pending == (1..count) \ embedded
Lowest(S, n) == {p \in S : Cardinality({q \in S : q < p}) < n}

\* ensureIndex drops first, and looks then.
\* (Fault) looks first
IndexStepsFault(r) == IF reindex[r] THEN <<"look", "drop">> ELSE <<"look", "end">>
IndexSteps(r) == IF reindex[r] THEN <<"drop", "look">> ELSE <<"look", "end">>

Select(r) ==
  /\ ids' = [ids EXCEPT ![r] = Lowest(Pending, Batch)]
  /\ Goto(r, "select", IF Pending = {} THEN IndexSteps(r)[1] ELSE "update")
  /\ UNCHANGED table

Update(r) ==
  /\ Goto(r, "update", "select")
  /\ embedded' = embedded \cup ids[r] /\ ids' = [ids EXCEPT ![r] = {}]
  /\ UNCHANGED <<count, indexed, trained>>

After(r, step, found) ==
  IF step = IndexSteps(r)[1] /\ IndexSteps(r)[2] # "end" THEN IndexSteps(r)[2]
  ELSE IF found THEN "done" ELSE "create"

Drop(r) ==
  /\ Goto(r, "drop", After(r, "drop", indexed))
  /\ indexed' = FALSE
  /\ UNCHANGED <<count, embedded, trained, ids>>

Look(r) ==
  /\ Goto(r, "look", After(r, "look", indexed))
  /\ UNCHANGED <<table, ids>>

\* Creating an index that exists is an error.
Create(r) ==
  /\ Goto(r, "create", IF indexed THEN "dead" ELSE "done")
  /\ indexed' = TRUE /\ trained' = (IF indexed THEN trained ELSE embedded)
  /\ UNCHANGED <<count, embedded, ids>>

\* resolveProducts of a worker
Insert ==
  /\ count < Last /\ count' = count + 1
  /\ UNCHANGED <<embedded, indexed, trained, pc, ids, reindex, starts, met>>

Step(r) == Select(r) \/ Update(r) \/ Drop(r) \/ Look(r) \/ Create(r)

Next == Insert \/ \E r \in Runs : Start(r) \/ Die(r) \/ Step(r)

\* A run goes on; products are added and runs started as they like.
Spec == Init /\ [][Next]_vars /\ \A r \in Runs : WF_vars(Step(r))

-----------------------------------------------------------------------------
(* Properties.                                                             *)

\* Runs may be repeated and overlap ("Safe to re-run", main.go:3-5): a run
\* that is done leaves no product without an embedding that it met, and
\* when no run is under way or failed, there is an index.
RerunIsSafe ==
  /\ \A r \in Runs : pc[r] = "done" => 1..met[r] \subseteq embedded
  /\ (\E r \in Runs : pc[r] = "done") /\ (\A r \in Runs : pc[r] \in {"idle", "done"}) => indexed

\* A run ends, whatever it shares the table with: no batch comes twice.
BackfillEnds == \A r \in Runs : Under(r) ~> ~Under(r)

\* The index is built on vectors (main.go:2-3: "it trains its centroids on
\* real vectors, not an empty table").
TrainedOnVectors == indexed => trained # {}
=============================================================================
