--------------------------- MODULE IngestPipeline ---------------------------
(***************************************************************************)
(* ingestd as a process (cmd/ingestd/main.go): one worker per retailer,    *)
(* each taking pages of its feed to the shared CHWriter and saving its     *)
(* cursor once WaitFlushed has returned (worker.go: processItems and the   *)
(* two steps), in a process that may die at any point and start again.     *)
(*                                                                         *)
(* A position is an accepted observation of one feed instance; the content *)
(* of a page, its offers and resyncs are the subject of FeedSync.          *)
(***************************************************************************)
EXTENDS Integers, Sequences, FiniteSets

CONSTANTS
  Workers,      \* one per retailer
  PageMax,      \* most observations one page yields (PageSize)
  FlushSize, MaxPending,
  MaxPosition,  \* bound: observations each feed offers
  MaxEnq,       \* bound: rows enqueued in one life of the process
  MaxCrashes    \* bound: restarts of the process

\* As long as every worker can have a page outstanding, nothing is dropped.
ASSUME PipelineAssumption ==
  /\ IsFiniteSet(Workers) /\ PageMax \in Nat \ {0}
  /\ MaxPending \in Nat \ {0} /\ FlushSize \in Nat \ {0}
  /\ MaxPosition \in Nat /\ MaxEnq \in Nat /\ MaxCrashes \in Nat
  /\ Cardinality(Workers) * PageMax <= MaxPending

VARIABLES
  rows, enqSeq, flushedSeq, kick, batch, run, draining, stop, cancelled,
  pc, wm, open, durable, dropped,  \* the writer and its callers
  at,       \* at[w]: the position in the worker's cursorState
  saved,    \* saved[w]: the position in ingest_cursors
  row,      \* row[k]: which observation the k-th enqueued row is
  history,  \* observations stored by earlier lives of the process
  crashes   \* restarts so far

writerVars == <<rows, enqSeq, flushedSeq, kick, batch, run, draining, stop, cancelled,
                pc, wm, open, durable, dropped>>
vars == <<writerVars, at, saved, row, history, crashes>>

W == INSTANCE CHWriter WITH Clients <- Workers, MaxBatch <- PageMax

Init ==
  /\ W!Init
  /\ at = [w \in Workers |-> 0] /\ saved = [w \in Workers |-> 0]
  /\ row = <<>> /\ history = {} /\ crashes = 0

\* The observations ClickHouse holds.
Stored == history \cup {row[k] : k \in durable}

\* The position w has reached when its wait returns: its last row is the
\* one its watermark names.
Reached(w) == row[wm[w]][2]

-----------------------------------------------------------------------------
\* (Fault) the cursor is saved when the page is handed over
SavedAtAddFault(w, n) == [saved EXCEPT ![w] = at[w] + n]
SavedAtAdd(w, n) == saved

\* A page of n observations has been upserted and goes to the writer.
AddPage(w, n) ==
  /\ at[w] + n <= MaxPosition
  /\ W!Add(w, n)
  /\ row' = row \o [i \in 1..n |-> <<w, at[w] + i>>]
  /\ saved' = SavedAtAdd(w, n)
  /\ UNCHANGED <<at, history, crashes>>

\* WaitFlushed returned nil: the position moves, and is saved unless the
\* write of the cursor fails.
Return(w) ==
  /\ W!Return(w)
  /\ at' = [at EXCEPT ![w] = Reached(w)]
  /\ saved' \in {saved, [saved EXCEPT ![w] = Reached(w)]}
  /\ UNCHANGED <<row, history, crashes>>

\* Everything else the writer and its callers do.
Inside ==
  /\ \/ \E w \in Workers :
          W!KickFull(w) \/ W!Release(w) \/ W!Block(w) \/ W!KickBlocked(w) \/ W!Wake(w) \/ W!GiveUp(w)
     \/ W!Run \/ W!Cancel \/ W!Stop
  /\ UNCHANGED <<at, saved, row, history, crashes>>

\* NewCHWriter and new goroutines: W!Init for the next life.
NewWriter ==
  /\ rows' = <<>> /\ enqSeq' = 0 /\ flushedSeq' = 0 /\ dropped' = {}
  /\ batch' = <<>> /\ run' = "select" /\ draining' = FALSE /\ durable' = {}
  /\ pc' = [w \in Workers |-> "idle"] /\ wm' = [w \in Workers |-> 0]
  /\ open' = [w \in Workers |-> FALSE]
  /\ kick' = FALSE /\ stop' = FALSE /\ cancelled' = FALSE

\* The process dies, or has shut down, and starts again: all that survives
\* is in the two databases.
Restart ==
  /\ crashes < MaxCrashes
  /\ crashes' = crashes + 1
  /\ history' = Stored
  /\ NewWriter
  /\ at' = saved /\ row' = <<>>
  /\ UNCHANGED saved

Next ==
  \/ \E w \in Workers : Return(w) \/ \E n \in 1..PageMax : AddPage(w, n)
  \/ Inside
  \/ Restart

Spec == Init /\ [][Next]_vars

-----------------------------------------------------------------------------
(* Properties.                                                             *)

\* Every variable has its type.
TypeOK ==
  /\ W!TypeOK
  /\ at \in [Workers -> Nat] /\ saved \in [Workers -> Nat]
  /\ row \in Seq(Workers \X Nat) /\ Len(row) = enqSeq
  /\ history \subseteq Workers \X Nat /\ crashes \in Nat

\* Because every worker waits for its page before it takes the next, the
\* buffer cap is never reached, however long ClickHouse is down: nothing is
\* dropped, so neither case of dropOverflowLocked's early release arises.
NothingDropped == dropped = {}

\* A worker that WaitFlushed has released is told the truth: everything it
\* ever added in this life is in ClickHouse, not merely in flight.
ReleasedIsStored ==
  \A w \in Workers : pc[w] = "released" => \A k \in 1..wm[w] : row[k] \in Stored

\* The persisted cursors keep the promise of HistoryCursor: no observation
\* at or before a saved cursor is missing from ClickHouse, through failed
\* flushes, failed cursor writes, shutdowns and crashes.
Promise == INSTANCE HistoryCursor WITH stored <- Stored
CursorPromise == Promise!Spec
=============================================================================
