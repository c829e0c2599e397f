------------------------------ MODULE CHWriter ------------------------------
(***************************************************************************)
(* The buffered ClickHouse writer of internal/ingest/chwriter.go, at the   *)
(* granularity of its mutex: every critical section is one action, and     *)
(* whatever the code does between two critical sections (the insert, the   *)
(* non-blocking send on kick, the select) is an action of its own.         *)
(*                                                                         *)
(* The clients are the workers: each call of Add is followed by a call of  *)
(* WaitFlushed for the watermark it returned (worker.go, processItems).    *)
(*                                                                         *)
(* A buffered row is named by its enqueue number, so `rows` and `batch`    *)
(* are sequences of numbers.  The channel `notify` is modelled by what its *)
(* holders can observe: open[c] says that the channel goroutine c captured *)
(* in WaitFlushed has not been closed since.                               *)
(*                                                                         *)
(* Names that end in a parenthesised "Fault" comment are faulty variants   *)
(* of the definition that follows them.  No specification uses them: they  *)
(* are what the mutation runs put in that definition's place.              *)
(***************************************************************************)
EXTENDS Integers, Sequences, FiniteSets

CONSTANTS
  Clients,      \* goroutines that call Add and WaitFlushed
  FlushSize,    \* buffered rows at which Add asks for an early flush
  MaxPending,   \* cap on buffered rows
  MaxBatch,     \* bound: most rows one Add call carries
  MaxEnq        \* bound: rows enqueued in one run of the process

ASSUME WriterAssumption ==
  /\ MaxPending \in Nat \ {0}
  /\ FlushSize \in Nat \ {0}
  /\ MaxBatch \in Nat
  /\ MaxEnq \in Nat

VARIABLES
  rows,         \* buffered rows, oldest first
  enqSeq,       \* rows ever enqueued
  flushedSeq,   \* rows flushed or dropped
  kick,         \* the one-slot kick channel holds a token
  batch,        \* rows taken by the flush in progress
  run,          \* where the Run goroutine is
  draining,     \* the flush in progress is the final drain
  stop,         \* the writer's context is cancelled
  cancelled,    \* the workers' context is cancelled
  pc,           \* pc[c]: where goroutine c is inside Add or WaitFlushed
  wm,           \* wm[c]: the watermark c's last Add returned
  open,         \* open[c]: the notify channel c captured is still open
  durable,      \* rows ClickHouse has stored
  dropped       \* rows dropped at the cap

bufferVars == <<rows, enqSeq, flushedSeq, dropped>>
runVars    == <<batch, run, draining, durable>>
clientVars == <<pc, wm>>
ctxVars    == <<stop, cancelled>>
vars == <<bufferVars, runVars, clientVars, ctxVars, kick, open>>

Elements(s) == {s[i] : i \in 1..Len(s)}
Fresh(n) == [i \in 1..n |-> enqSeq + i]

-----------------------------------------------------------------------------
(* dropOverflowLocked and advanceLocked: what a critical section that has  *)
(* grown the buffer to `grown` leaves behind.                              *)

Over(grown) == IF Len(grown) > MaxPending THEN Len(grown) - MaxPending ELSE 0

KeepNewest(grown) == SubSeq(grown, Over(grown) + 1, Len(grown))

Credit(grown) == flushedSeq + Over(grown)

\* (Fault) the cap is never applied
TrimFault(grown) ==
  /\ rows' = grown
  /\ UNCHANGED <<flushedSeq, dropped, open>>
Trim(grown) ==
  /\ rows' = KeepNewest(grown)
  /\ flushedSeq' = Credit(grown)
  /\ dropped' = dropped \cup Elements(SubSeq(grown, 1, Over(grown)))
  /\ open' = IF Over(grown) > 0 THEN [c \in Clients |-> FALSE] ELSE open

-----------------------------------------------------------------------------
(* Goroutines that add rows and wait for them.                             *)

Init ==
  /\ rows = <<>> /\ enqSeq = 0 /\ flushedSeq = 0 /\ dropped = {}
  /\ batch = <<>> /\ run = "select" /\ draining = FALSE /\ durable = {}
  /\ pc = [c \in Clients |-> "idle"] /\ wm = [c \in Clients |-> 0]
  /\ open = [c \in Clients |-> FALSE]
  /\ kick = FALSE /\ stop = FALSE /\ cancelled = FALSE

Goto(c, from, to) == pc[c] = from /\ pc' = [pc EXCEPT ![c] = to]

\* Add: append, trim to the cap and read the watermark under one lock; a
\* buffer at flushSize is kicked after the unlock.
Add(c, n) ==
  /\ enqSeq + n <= MaxEnq
  /\ enqSeq' = enqSeq + n
  /\ wm' = [wm EXCEPT ![c] = enqSeq + n]
  /\ Trim(rows \o Fresh(n))
  /\ Goto(c, "idle", IF Len(rows') >= FlushSize THEN "full" ELSE "added")
  /\ UNCHANGED <<runVars, ctxVars, kick>>

KickFull(c) ==
  /\ Goto(c, "full", "added")
  /\ kick' = TRUE
  /\ UNCHANGED <<bufferVars, runVars, wm, ctxVars, open>>

\* A caller whose context has ended makes no further call.
Onward == IF cancelled THEN "gone" ELSE "idle"

\* WaitFlushed, the locked test at the head of its loop.
\* (Fault) the last row of the batch is not waited for
HandledFault(c) == flushedSeq + 1 >= wm[c]
Handled(c) == flushedSeq >= wm[c]

Release(c) ==
  /\ Handled(c)
  /\ Goto(c, "added", "released")
  /\ UNCHANGED <<bufferVars, runVars, wm, ctxVars, kick, open>>

Block(c) ==
  /\ ~Handled(c)
  /\ Goto(c, "added", "blocked")
  /\ open' = [open EXCEPT ![c] = TRUE]
  /\ UNCHANGED <<bufferVars, runVars, wm, ctxVars, kick>>

KickBlocked(c) ==
  /\ Goto(c, "blocked", "waiting")
  /\ kick' = TRUE
  /\ UNCHANGED <<bufferVars, runVars, wm, ctxVars, open>>

Wake(c) ==
  /\ ~open[c]
  /\ Goto(c, "waiting", "added")
  /\ UNCHANGED <<bufferVars, runVars, wm, ctxVars, kick, open>>

\* WaitFlushed returned nil and the caller goes on.
Return(c) ==
  /\ Goto(c, "released", Onward)
  /\ UNCHANGED <<bufferVars, runVars, wm, ctxVars, kick, open>>

\* The workers' context ends: a waiter returns its error, and a worker whose
\* next fetch or write fails with it leaves too.  A worker that is past its
\* last database call may still make one Add.
GiveUp(c) ==
  /\ cancelled
  /\ \/ Goto(c, "waiting", "gone")
     \/ Goto(c, "idle", "gone")
  /\ UNCHANGED <<bufferVars, runVars, wm, ctxVars, kick, open>>

-----------------------------------------------------------------------------
(* The Run goroutine.                                                      *)

\* Back in Run after a flush.
\* (Fault) `break` for `return`: it only leaves the select
ResumeFault(final) == "select"
Resume(final) == IF final THEN "stopped" ELSE "select"

\* flush, first critical section; an empty buffer ends the flush at once.
Take(final) ==
  /\ run = "select"
  /\ batch' = rows
  /\ rows' = <<>>
  /\ run' = IF rows # <<>> THEN "insert" ELSE Resume(final)
  /\ draining' = final
  /\ UNCHANGED <<enqSeq, flushedSeq, dropped, durable, clientVars, ctxVars, open>>

FlushOnTick == Take(FALSE) /\ UNCHANGED kick
FlushOnKick == kick /\ Take(FALSE) /\ kick' = FALSE
FlushOnDone == stop /\ Take(TRUE) /\ UNCHANGED kick

InsertOk ==
  /\ run = "insert"
  /\ run' = "ack"
  /\ durable' = durable \cup Elements(batch)
  /\ UNCHANGED <<bufferVars, batch, draining, clientVars, ctxVars, kick, open>>

\* An insert that reports an error may still have stored any of its rows.
InsertFails ==
  /\ run = "insert"
  /\ run' = "requeue"
  /\ \E landed \in SUBSET Elements(batch) : durable' = durable \cup landed
  /\ UNCHANGED <<bufferVars, batch, draining, clientVars, ctxVars, kick, open>>

\* (Fault) the watermark advances but nobody is woken
WakeAllFault == open
WakeAll == [c \in Clients |-> FALSE]

\* (Fault) the watermark jumps to everything enqueued so far
LandedFault == enqSeq
Landed == flushedSeq + Len(batch)

Ack ==
  /\ run = "ack"
  /\ run' = Resume(draining)
  /\ batch' = <<>>
  /\ flushedSeq' = Landed
  /\ open' = WakeAll
  /\ UNCHANGED <<rows, enqSeq, dropped, draining, durable, clientVars, ctxVars, kick>>

\* (Fault) the failed batch is forgotten
ForgottenFault == rows
\* (Fault) failed rows go behind the rows that arrived meanwhile
RequeuedFault == rows \o batch
Requeued == batch \o rows

Requeue ==
  /\ run = "requeue"
  /\ run' = Resume(draining)
  /\ batch' = <<>>
  /\ Trim(Requeued)
  /\ UNCHANGED <<enqSeq, draining, durable, clientVars, ctxVars, kick>>

-----------------------------------------------------------------------------
(* Shutdown, in the order of cmd/ingestd/main.go.                          *)

Cancel ==
  /\ ~cancelled
  /\ cancelled' = TRUE
  /\ UNCHANGED <<bufferVars, runVars, clientVars, stop, kick, open>>

\* (Fault) the writer is stopped without waiting for the workers
WorkersDoneFault == cancelled
WorkersDone == cancelled /\ \A c \in Clients : pc[c] = "gone"

Stop ==
  /\ WorkersDone
  /\ ~stop
  /\ stop' = TRUE
  /\ UNCHANGED <<bufferVars, runVars, clientVars, cancelled, kick, open>>

-----------------------------------------------------------------------------
Run == FlushOnTick \/ FlushOnKick \/ FlushOnDone \/ InsertOk \/ InsertFails \/ Ack \/ Requeue

Proceed(c) ==
  KickFull(c) \/ Release(c) \/ Block(c) \/ KickBlocked(c) \/ Wake(c) \/ Return(c) \/ GiveUp(c)

Next ==
  \/ \E c \in Clients : Proceed(c) \/ \E n \in 1..MaxBatch : Add(c, n)
  \/ Run
  \/ Cancel
  \/ Stop

Spec == Init /\ [][Next]_vars

(***************************************************************************)
(* Goroutines are scheduled: weak fairness of their steps, of the Run      *)
(* loop, whose ticker always fires again, and of the insert, which its     *)
(* context bounds to a minute.  Go's select takes a ready case at random,  *)
(* so a Done that is ready again and again is taken: strong fairness of    *)
(* FlushOnDone.  Nothing obliges a caller to add, or anyone to shut down.  *)
(***************************************************************************)
Scheduled ==
  /\ \A c \in Clients : WF_vars(Proceed(c))
  /\ WF_vars(FlushOnTick) /\ SF_vars(FlushOnDone)
  /\ WF_vars(InsertOk \/ InsertFails) /\ WF_vars(Ack) /\ WF_vars(Requeue)
  /\ WF_vars(Stop)

ScheduledSpec == Spec /\ Scheduled

\* ClickHouse may fail as often as it likes, but not every insert forever.
Recovers == SF_vars(InsertOk)

-----------------------------------------------------------------------------
(* Properties.                                                             *)

\* Every variable has its type.
TypeOK ==
  /\ rows \in Seq(Nat) /\ batch \in Seq(Nat)
  /\ enqSeq \in Nat /\ flushedSeq \in Nat
  /\ durable \subseteq Nat /\ dropped \subseteq Nat
  /\ run \in {"select", "insert", "ack", "requeue", "stopped"}
  /\ pc \in [Clients -> {"idle", "full", "added", "released", "blocked", "waiting", "gone"}]
  /\ wm \in [Clients -> Nat] /\ open \in [Clients -> BOOLEAN]
  /\ kick \in BOOLEAN /\ draining \in BOOLEAN /\ stop \in BOOLEAN /\ cancelled \in BOOLEAN

\* The counter pair of the code accounts for exactly the rows that are not
\* buffered and not in flight (chwriter.go:61-63: "a single counter pair
\* tracks what has landed").
CountersAgree == flushedSeq + Len(batch) + Len(rows) = enqSeq

\* No row vanishes: every row ever enqueued is stored, counted as dropped,
\* in flight, or still buffered, through failed flushes and overflows.
NothingLost ==
  1..enqSeq \subseteq durable \cup dropped \cup Elements(batch) \cup Elements(rows)

\* The buffer stays FIFO through requeues and drops: it holds exactly the
\* newest rows, in order, and the rows in flight are older than them.
BufferIsNewest ==
  /\ \A i \in 1..Len(rows) : rows[i] = enqSeq - Len(rows) + i
  /\ \A i \in 1..Len(batch) : batch[i] = batch[1] + i - 1 /\ batch[i] + Len(rows) <= enqSeq

\* Memory is bounded whatever ClickHouse does: the cap on the buffer, and
\* as much again in a flush that has taken a full buffer.
BoundedMemory == Len(rows) <= MaxPending /\ Len(batch) <= MaxPending

\* A goroutine WaitFlushed has released has no row left in the buffer: each
\* of its rows is stored, counted as dropped, or in the insert in flight.
ReleasedNotBuffered ==
  \A c \in Clients : pc[c] = "released" =>
    1..wm[c] \subseteq durable \cup dropped \cup Elements(batch)

\* As long as the cap was never hit, WaitFlushed returns only once every
\* row up to the watermark is stored, however many flushes failed before.
ReleasedIsDurable ==
  dropped = {} => \A c \in Clients : pc[c] = "released" => 1..wm[c] \subseteq durable

\* The documented contract (chwriter.go:19-21): WaitFlushed blocks until
\* every row at or below the watermark "has been written (or dropped at the
\* buffer cap)".
ReleasedIsSettled ==
  \A c \in Clients : pc[c] = "released" => 1..wm[c] \subseteq durable \cup dropped

\* Nothing is added to a writer that has stopped, so the final drain covers
\* every row: what is left in the buffer then is what its one insert failed on.
NoRowAfterDrain == run = "stopped" => \A c \in Clients : pc[c] = "gone"

\* A blocked waiter is never forgotten: once ClickHouse accepts inserts again
\* it is released, or told that its context ended, although failed flushes
\* notify nobody and the kick channel holds one token for all waiters.
WaitersReturn ==
  Recovers => \A c \in Clients : pc[c] = "waiting" ~> pc[c] \in {"released", "gone"}

\* A cancelled process ends even when ClickHouse never comes back: the
\* workers leave, the writer drains once and stops.
ShutdownEnds == cancelled ~> run = "stopped"
=============================================================================
