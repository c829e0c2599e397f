------------------------------ MODULE RowLocks ------------------------------
(***************************************************************************)
(* The row locks behind the multi-row inserts of internal/ingest/store.go. *)
(* The statement of resolveProducts inserts its rows one by one, in the    *)
(* order the code sorted them in, and keeps each row locked until the      *)
(* statement commits; another worker that comes to the same key waits.  A  *)
(* key that is already committed is a conflict that does nothing, so it is *)
(* not locked.  The offer rows of UpsertBatch, sorted the same way, belong *)
(* to one retailer, whose one worker cannot block itself.                  *)
(*                                                                         *)
(* A SKU is its rank in the order of sort.Strings.                         *)
(*                                                                         *)
(* Names that end in a parenthesised "Fault" comment are faulty variants   *)
(* of the definition that follows them.                                    *)
(***************************************************************************)
EXTENDS Naturals

CONSTANTS
  Workers,
  MaxKey     \* SKUs are 0..MaxKey

ASSUME KeysAssumption == MaxKey \in Nat

VARIABLES
  table,     \* committed keys
  todo,      \* todo[w]: keys w's statement has still to insert
  at,        \* at[w]: the key it inserts next
  locked,    \* locked[w]: keys it has inserted and not committed
  open       \* open[w]: w has a statement in progress

lockVars == <<table, todo, at, locked, open>>

Keys == 0..MaxKey

LockInit ==
  /\ table = {}
  /\ todo = [w \in Workers |-> {}] /\ at = [w \in Workers |-> 0]
  /\ locked = [w \in Workers |-> {}] /\ open = [w \in Workers |-> FALSE]

\* sort.Strings(misses) before the statement is built.
\* (Fault) the rows come in the order of a Go map
IsNextFault(k, rest) == k \in rest
IsNext(k, rest) == k \in rest /\ \A j \in rest : k <= j

\* Where a statement goes with `rest` left to insert.
GoesOn(w, rest) ==
  /\ todo' = [todo EXCEPT ![w] = rest]
  /\ IF rest = {} THEN UNCHANGED at
     ELSE \E k \in rest : IsNext(k, rest) /\ at' = [at EXCEPT ![w] = k]

Begin(w, keys) ==
  /\ ~open[w]
  /\ open' = [open EXCEPT ![w] = TRUE]
  /\ GoesOn(w, keys)
  /\ UNCHANGED <<table, locked>>

Waits(w, v) == v # w /\ todo[w] # {} /\ at[w] \in locked[v]

\* A free key is inserted and locked, a committed one skipped.
Insert(w) ==
  /\ todo[w] # {}
  /\ \A v \in Workers : ~Waits(w, v)
  /\ locked' = [locked EXCEPT ![w] = @ \cup ({at[w]} \ table)]
  /\ GoesOn(w, todo[w] \ {at[w]})
  /\ UNCHANGED <<table, open>>

Ends(w) ==
  /\ open' = [open EXCEPT ![w] = FALSE]
  /\ todo' = [todo EXCEPT ![w] = {}]
  /\ locked' = [locked EXCEPT ![w] = {}]
  /\ UNCHANGED at

Commit(w) ==
  /\ open[w] /\ todo[w] = {}
  /\ table' = table \cup locked[w]
  /\ Ends(w)

\* The statement fails, or its connection is lost.
Abort(w) ==
  /\ open[w]
  /\ UNCHANGED table
  /\ Ends(w)

LockNext ==
  \E w \in Workers :
    \/ \E keys \in (SUBSET Keys) \ {{}} : Begin(w, keys)
    \/ Insert(w) \/ Commit(w) \/ Abort(w)

LockSpec == LockInit /\ [][LockNext]_lockVars

\* Postgres runs what is not blocked, and queues waiters: one that waits is
\* not overtaken forever (strong fairness of Insert).  Nobody has to abort.
FairLockSpec == LockSpec /\ \A w \in Workers : SF_lockVars(Insert(w)) /\ WF_lockVars(Commit(w))

-----------------------------------------------------------------------------
(* Properties.                                                             *)

\* Every variable has its type, and only an open statement holds locks.
LockTypeOK ==
  /\ table \subseteq Keys
  /\ todo \in [Workers -> SUBSET Keys] /\ locked \in [Workers -> SUBSET Keys]
  /\ at \in [Workers -> Keys] /\ open \in [Workers -> BOOLEAN]
  /\ \A w \in Workers : open[w] \/ (todo[w] = {} /\ locked[w] = {})

\* No circular wait (store.go:154-155: "a deterministic row order keeps
\* their lock acquisition aligned and deadlock-free"): among any workers,
\* one is not waiting for another of them.
NoDeadlock ==
  \A group \in (SUBSET Workers) \ {{}} : \E w \in group : \A v \in group : ~Waits(w, v)

\* The order behind it: a statement locks below everything it still wants.
Ascending ==
  \A w \in Workers :
    /\ todo[w] # {} => IsNext(at[w], todo[w])
    /\ \A k \in locked[w], j \in todo[w] : k < j

\* Every statement ends, however the others' statements overlap (FairLockSpec).
StatementsEnd == \A w \in Workers : open[w] ~> ~open[w]
=============================================================================
