------------------------ MODULE IngestPipelineProofs ------------------------
(***************************************************************************)
(* Proofs about IngestPipeline, for any number of workers, page size, cap  *)
(* and feed, and any sequence of failures and restarts: the cap is never   *)
(* reached, and the saved cursors implement HistoryCursor.                 *)
(*                                                                         *)
(* The writer's part of the invariant is WriterInv, proved in              *)
(* CHWriterProofs for the writer alone; what is added is why the workers   *)
(* cannot overflow it (OnePageEach: the rows the watermark does not cover  *)
(* belong to one last page of each worker) and what a page in the writer's *)
(* hands consists of (PageInHand).                                         *)
(***************************************************************************)
EXTENDS IngestPipeline, FiniteSetTheorems, TLAPS

\* The writer again, with its theorems.
WP == INSTANCE CHWriterProofs WITH Clients <- Workers, MaxBatch <- PageMax

\* Row k is in w's last page.
InLastPage(f, w, k) == f[w] - PageMax < k /\ k <= f[w]

\* Rows that are not credited belong to last pages; a worker that is about
\* to take another page has none.
OnePageEach ==
  /\ \A k \in flushedSeq + 1..enqSeq : \E w \in Workers : InLastPage(wm, w, k)
  /\ \A w \in Workers : wm[w] <= enqSeq /\ (pc[w] = "idle" => wm[w] <= flushedSeq)

DurableIsEnqueued == durable \subseteq 1..enqSeq

\* A worker between Add and the return of WaitFlushed has handed over every
\* position from its cursor to the one it is going to save.
PageInHand == \A w \in Workers : pc[w] \notin {"idle", "gone"} =>
  /\ wm[w] \in 1..enqSeq /\ Reached(w) \in Nat /\ at[w] <= Reached(w)
  /\ \A p \in at[w] + 1..Reached(w) : \E k \in 1..wm[w] : row[k] = <<w, p>>

\* Nothing at or before a cursor, in memory or saved, is missing.
CursorsAreCovered == \A w \in Workers :
  saved[w] <= at[w] /\ {w} \X (1..at[w]) \subseteq Stored

CursorTypes ==
  /\ at \in [Workers -> Nat] /\ saved \in [Workers -> Nat]
  /\ row \in Seq(Workers \X Nat) /\ Len(row) = enqSeq

PipeInv ==
  /\ WP!WriterInv
  /\ CursorTypes
  /\ OnePageEach
  /\ NothingDropped
  /\ DurableIsEnqueued
  /\ PageInHand
  /\ CursorsAreCovered

-----------------------------------------------------------------------------
(* The cap.                                                                *)

\* Rows that all lie in the last page of some worker fit under the cap: the
\* worker and the distance to its watermark tell them apart.
LEMMA OutstandingFits ==
  ASSUME NEW a \in Nat, NEW b \in Nat, NEW f \in [Workers -> Nat],
         \A k \in a + 1..b : \E w \in Workers : InLastPage(f, w, k)
  PROVE  b - a <= MaxPending
  <1> DEFINE S == a + 1..b
             T == Workers \X (0..PageMax - 1)
             owner(k) == CHOOSE w \in Workers : InLastPage(f, w, k)
             g == [k \in S |-> <<owner(k), f[owner(k)] - k>>]
  <1>0. IsFiniteSet(Workers) /\ PageMax \in Nat /\ PageMax > 0 /\ MaxPending \in Nat
        /\ Cardinality(Workers) * PageMax <= MaxPending
    BY PipelineAssumption
  <1>1. ASSUME NEW k \in S
        PROVE  owner(k) \in Workers /\ f[owner(k)] - k \in 0..PageMax - 1
    <2>1. owner(k) \in Workers /\ InLastPage(f, owner(k), k)
      OBVIOUS
    <2> HIDE DEF owner
    <2> QED
      BY <2>1, <1>0 DEF InLastPage
  <1> HIDE DEF owner
  <1>2. g \in Injection(S, T)
    <2>1. g \in [S -> T]
      BY <1>1
    <2>2. ASSUME NEW j \in S, NEW k \in S, g[j] = g[k] PROVE j = k
      <3>1. owner(j) = owner(k) /\ f[owner(j)] - j = f[owner(k)] - k
        BY <2>2
      <3> QED
        BY <3>1, <1>1
    <2> QED
      BY <2>1, <2>2 DEF Injection, IsInjective
  <1>3. /\ IsFiniteSet(T) /\ Cardinality(T) = Cardinality(Workers) * PageMax
    <2>1. IsFiniteSet(0..PageMax - 1) /\ Cardinality(0..PageMax - 1) = PageMax
      BY <1>0, FS_Interval
    <2> QED
      BY <2>1, <1>0, FS_Product
  <1>4. Cardinality(S) <= Cardinality(Workers) * PageMax
    <2> HIDE DEF g, S, T
    <2> QED
      BY <1>2, <1>3, FS_Injection
  <1>5. Cardinality(S) = IF a + 1 > b THEN 0 ELSE b - a
    BY FS_Interval
  <1>6. Cardinality(Workers) \in Nat
    BY <1>0, FS_CardinalityType
  <1>7. Cardinality(Workers) * PageMax \in Nat
    BY <1>6, <1>0
  <1> QED
    BY <1>0, <1>4, <1>5, <1>7

\* A critical section that leaves no more rows than the cap drops none.
LEMMA NoOverflow ==
  ASSUME NEW g \in Seq(Nat), Len(g) <= MaxPending, flushedSeq \in Nat, WP!Trim(g)
  PROVE  dropped' = dropped /\ flushedSeq' = flushedSeq
  <1>1. WP!Over(g) = 0
    BY PipelineAssumption DEF WP!Over
  <1>2. WP!Elements(SubSeq(g, 1, 0)) = {}
    <2>1. Len(SubSeq(g, 1, 0)) = 0
      OBVIOUS
    <2> QED
      BY <2>1 DEF WP!Elements
  <1> QED
    BY <1>1, <1>2 DEF WP!Trim, WP!Credit

\* The facts about the writer the steps below rest on.
LEMMA WriterFacts ==
  ASSUME PipeInv
  PROVE  /\ WP!WriterInv /\ WP!TypeOK
         /\ enqSeq \in Nat /\ flushedSeq \in Nat /\ wm \in [Workers -> Nat]
         /\ rows \in Seq(Nat) /\ Len(rows) \in Nat /\ batch \in Seq(Nat) /\ Len(batch) \in Nat
         /\ flushedSeq + Len(batch) + Len(rows) = enqSeq
         /\ WP!Elements(batch) \subseteq 1..enqSeq
         /\ \A w \in Workers : pc[w] = "released" => wm[w] <= flushedSeq
  <1>1. /\ WP!WriterInv /\ WP!TypeOK
        /\ flushedSeq + Len(batch) + Len(rows) = enqSeq
        /\ \A w \in Workers : pc[w] = "released" => wm[w] <= flushedSeq
    BY DEF PipeInv, WP!WriterInv, WP!CountersAgree, WP!ReleasedIsCredited
  <1>2. /\ enqSeq \in Nat /\ flushedSeq \in Nat /\ wm \in [Workers -> Nat]
        /\ rows \in Seq(Nat) /\ batch \in Seq(Nat)
    BY <1>1 DEF WP!TypeOK
  <1>3. Len(rows) \in Nat /\ Len(batch) \in Nat
    BY <1>2
  <1>4. \A i \in 1..Len(batch) : batch[i] = flushedSeq + i
    BY <1>1 DEF PipeInv, NothingDropped, WP!WriterInv, WP!Contiguous
  <1>5. WP!Elements(batch) \subseteq 1..enqSeq
    <2>1. ASSUME NEW i \in 1..Len(batch) PROVE batch[i] \in 1..enqSeq
      BY <1>1, <1>2, <1>3, <1>4
    <2> QED
      BY <2>1 DEF WP!Elements
  <1> QED
    BY <1>1, <1>2, <1>3, <1>5

-----------------------------------------------------------------------------
(* Steps of the writer and its callers that move no cursor.                *)

\* The steps of Inside, and the return of WaitFlushed, are steps of the
\* writer CHWriterProofs is about.
LEMMA StepsOfWriter ==
  ASSUME PipeInv, Inside \/ \E w \in Workers : W!Return(w)
  PROVE  WP!WriterInv'
  <1> USE DEF W!Goto, WP!Goto, W!bufferVars, WP!bufferVars, W!runVars, WP!runVars, W!ctxVars, WP!ctxVars
  <1>1. ASSUME NEW w \in Workers,
               W!KickFull(w) \/ W!Release(w) \/ W!Block(w) \/ W!KickBlocked(w) \/ W!Wake(w)
        PROVE  WP!Proceed(w)
    BY <1>1 DEF W!KickFull, WP!KickFull, W!Release, WP!Release, W!Block, WP!Block, W!KickBlocked,
       WP!KickBlocked, W!Wake, WP!Wake, W!Handled, WP!Handled, WP!Proceed
  <1>2. ASSUME NEW w \in Workers, W!GiveUp(w) \/ W!Return(w) PROVE WP!Proceed(w)
    BY <1>2 DEF W!GiveUp, WP!GiveUp, W!Return, WP!Return, W!Onward, WP!Onward, WP!Proceed
  <1> USE DEF W!clientVars, WP!clientVars
  <1>3. ASSUME W!FlushOnTick \/ W!FlushOnKick \/ W!FlushOnDone PROVE WP!Run
    BY <1>3 DEF W!FlushOnTick, WP!FlushOnTick, W!FlushOnKick, WP!FlushOnKick, W!FlushOnDone,
       WP!FlushOnDone, W!Take, WP!Take, W!Resume, WP!Resume, WP!Run
  <1>4. ASSUME W!InsertOk \/ W!InsertFails PROVE WP!Run
    BY <1>4 DEF W!InsertOk, WP!InsertOk, W!InsertFails, WP!InsertFails, W!Elements, WP!Elements, WP!Run
  <1>5. ASSUME W!Ack PROVE WP!Run
    BY <1>5 DEF W!Ack, WP!Ack, W!Resume, WP!Resume, W!Landed, WP!Landed, W!WakeAll, WP!WakeAll, WP!Run
  <1>6. ASSUME W!Requeue PROVE WP!Run
    BY <1>6 DEF W!Requeue, WP!Requeue, W!Resume, WP!Resume, W!Requeued, WP!Requeued, W!Trim, WP!Trim,
       W!KeepNewest, WP!KeepNewest, W!Credit, WP!Credit, W!Over, WP!Over, W!Elements, WP!Elements, WP!Run
  <1>7. ASSUME W!Cancel \/ W!Stop PROVE WP!Next
    BY <1>7 DEF W!Cancel, WP!Cancel, W!Stop, WP!Stop, W!WorkersDone, WP!WorkersDone, WP!Next
  <1>8. WP!Next
    BY <1>1, <1>2, <1>3, <1>4, <1>5, <1>6, <1>7 DEF Inside, W!Run, WP!Next
  <1>9. WP!WriterInv
    BY DEF PipeInv
  <1> QED
    BY <1>8, <1>9, WP!NextPreserves, PipelineAssumption

\* A failed flush puts its batch back without an overflow.
LEMMA RequeueFits ==
  ASSUME PipeInv, W!Requeue
  PROVE  dropped' = dropped /\ flushedSeq' = flushedSeq
  <1> DEFINE g == batch \o rows
  <1>1. g \in Seq(Nat) /\ Len(g) = Len(batch) + Len(rows)
    BY WriterFacts
  <1>2. enqSeq - flushedSeq <= MaxPending
    <2>1. \A k \in flushedSeq + 1..enqSeq : \E w \in Workers : InLastPage(wm, w, k)
      BY DEF PipeInv, OnePageEach
    <2> QED
      BY <2>1, WriterFacts, OutstandingFits
  <1>3. Len(g) <= MaxPending
    BY <1>1, <1>2, WriterFacts, PipelineAssumption
  <1>4. WP!Trim(g)
    BY DEF W!Requeue, W!Requeued, W!Trim, WP!Trim, W!KeepNewest, WP!KeepNewest, W!Credit, WP!Credit,
       W!Over, WP!Over, W!Elements, WP!Elements
  <1> HIDE DEF g
  <1> QED
    BY <1>1, <1>3, <1>4, WriterFacts, NoOverflow

\* What the other steps of Inside do to the watermark, the stored rows and
\* the places of the workers.
LEMMA InsideStep ==
  ASSUME PipeInv, Inside
  PROVE  /\ dropped' = dropped /\ enqSeq' = enqSeq /\ wm' = wm
         /\ flushedSeq' \in Nat /\ flushedSeq <= flushedSeq'
         /\ durable \subseteq durable' /\ durable' \subseteq 1..enqSeq
         /\ \A w \in Workers : pc'[w] = "idle" => pc[w] = "idle"
         /\ \A w \in Workers : pc'[w] \notin {"idle", "gone"} => pc[w] \notin {"idle", "gone"}
         /\ UNCHANGED <<at, saved, row, history>>
  <1>0. /\ flushedSeq \in Nat /\ enqSeq \in Nat /\ Len(batch) \in Nat /\ durable \subseteq 1..enqSeq
        /\ pc \in [Workers -> {"idle", "full", "added", "released", "blocked", "waiting", "gone"}]
        /\ WP!Elements(batch) \subseteq 1..enqSeq
    BY WriterFacts DEF PipeInv, DurableIsEnqueued, WP!TypeOK
  <1>1. UNCHANGED <<at, saved, row, history>>
    BY DEF Inside
  <1>2. ASSUME NEW w \in Workers,
               \/ W!KickFull(w) \/ W!Release(w) \/ W!Block(w) \/ W!KickBlocked(w)
               \/ W!Wake(w) \/ W!GiveUp(w)
        PROVE  /\ UNCHANGED <<dropped, enqSeq, wm, flushedSeq, durable>>
               /\ \/ /\ pc[w] \notin {"idle", "gone"}
                     /\ \E to \in {"added", "released", "blocked", "waiting"} :
                          pc' = [pc EXCEPT ![w] = to]
                  \/ pc' = [pc EXCEPT ![w] = "gone"]
    BY <1>2 DEF W!KickFull, W!Release, W!Block, W!KickBlocked, W!Wake, W!GiveUp, W!Goto,
       W!bufferVars, W!runVars
  <1>3. CASE \E w \in Workers : \/ W!KickFull(w) \/ W!Release(w) \/ W!Block(w) \/ W!KickBlocked(w)
                                \/ W!Wake(w) \/ W!GiveUp(w)
    <2>1. PICK w \in Workers :
            /\ UNCHANGED <<dropped, enqSeq, wm, flushedSeq, durable>>
            /\ \/ /\ pc[w] \notin {"idle", "gone"}
                  /\ \E to \in {"added", "released", "blocked", "waiting"} :
                       pc' = [pc EXCEPT ![w] = to]
               \/ pc' = [pc EXCEPT ![w] = "gone"]
      BY <1>2, <1>3
    <2> QED
      BY <2>1, <1>0, <1>1
  <1>4. CASE W!FlushOnTick \/ W!FlushOnKick \/ W!FlushOnDone \/ W!Cancel \/ W!Stop
    <2>1. UNCHANGED <<dropped, enqSeq, wm, flushedSeq, durable, pc>>
      BY <1>4 DEF W!FlushOnTick, W!FlushOnKick, W!FlushOnDone, W!Take, W!Cancel, W!Stop,
         W!bufferVars, W!runVars, W!clientVars
    <2> QED
      BY <2>1, <1>0, <1>1
  <1>5. CASE W!InsertOk \/ W!InsertFails
    <2>1. /\ UNCHANGED <<dropped, enqSeq, wm, flushedSeq, pc>>
          /\ durable \subseteq durable' /\ durable' \subseteq durable \cup WP!Elements(batch)
      BY <1>5 DEF W!InsertOk, W!InsertFails, W!Elements, WP!Elements, W!bufferVars, W!clientVars
    <2> QED
      BY <2>1, <1>0, <1>1
  <1>6. CASE W!Ack
    <2>1. UNCHANGED <<dropped, enqSeq, wm, durable, pc>> /\ flushedSeq' = flushedSeq + Len(batch)
      BY <1>6 DEF W!Ack, W!Landed, W!clientVars
    <2> QED
      BY <2>1, <1>0, <1>1
  <1>7. CASE W!Requeue
    <2>1. UNCHANGED <<enqSeq, wm, durable, pc>>
      BY <1>7 DEF W!Requeue, W!clientVars
    <2> QED
      BY <2>1, <1>0, <1>1, <1>7, RequeueFits
  <1> QED
    BY <1>3, <1>4, <1>5, <1>6, <1>7 DEF Inside, W!Run

-----------------------------------------------------------------------------
(* The invariant, action by action, and what becomes of what is stored.    *)

\* The rows after a watermark are after every earlier one.
LEMMA LaterRows ==
  ASSUME NEW a \in Nat, NEW b \in Nat, a <= b, NEW c \in Nat
  PROVE  \A k \in b + 1..c : k \in a + 1..c
  OBVIOUS

\* Inside moves no cursor and takes nothing out of ClickHouse.
LEMMA InsidePreserves ==
  ASSUME PipeInv, Inside
  PROVE  PipeInv' /\ Stored \subseteq Stored' /\ saved' = saved
  <1>0. /\ dropped' = dropped /\ enqSeq' = enqSeq /\ wm' = wm
        /\ flushedSeq' \in Nat /\ flushedSeq <= flushedSeq'
        /\ durable \subseteq durable' /\ durable' \subseteq 1..enqSeq
        /\ \A w \in Workers : pc'[w] = "idle" => pc[w] = "idle"
        /\ \A w \in Workers : pc'[w] \notin {"idle", "gone"} => pc[w] \notin {"idle", "gone"}
        /\ UNCHANGED <<at, saved, row, history>>
    BY InsideStep
  <1>1. /\ enqSeq \in Nat /\ flushedSeq \in Nat
        /\ wm \in [Workers -> Nat]
    BY WriterFacts
  <1>2. Stored \subseteq Stored'
    BY <1>0 DEF Stored
  <1>3. CursorTypes' /\ NothingDropped' /\ DurableIsEnqueued'
    BY <1>0 DEF PipeInv, CursorTypes, NothingDropped, DurableIsEnqueued
  <1>4. OnePageEach'
    <2>1. \A k \in flushedSeq' + 1..enqSeq : k \in flushedSeq + 1..enqSeq
      BY <1>0, <1>1, LaterRows
    <2>2. \A w \in Workers : wm'[w] <= enqSeq' /\ (pc'[w] = "idle" => wm'[w] <= flushedSeq')
      BY <1>0, <1>1 DEF PipeInv, OnePageEach
    <2> QED
      BY <2>1, <2>2, <1>0 DEF PipeInv, OnePageEach, InLastPage
  <1>5. PageInHand'
    BY <1>0 DEF PipeInv, PageInHand, Reached
  <1>6. CursorsAreCovered'
    BY <1>0, <1>2 DEF PipeInv, CursorsAreCovered
  <1> QED
    BY <1>0, <1>2, <1>3, <1>4, <1>5, <1>6, StepsOfWriter DEF PipeInv

\* The rows a page is appended to keep their numbers.
LEMMA Appended ==
  ASSUME NEW s \in Seq(Workers \X Nat), NEW t \in Seq(Workers \X Nat)
  PROVE  /\ s \o t \in Seq(Workers \X Nat) /\ Len(s \o t) = Len(s) + Len(t)
         /\ \A k \in 1..Len(s) : (s \o t)[k] = s[k]
         /\ \A i \in 1..Len(t) : (s \o t)[Len(s) + i] = t[i]
  OBVIOUS

\* A page fits under the cap, because the caller has no other one.
LEMMA AddPreserves ==
  ASSUME PipeInv, NEW w \in Workers, NEW n \in 1..PageMax, AddPage(w, n)
  PROVE  PipeInv' /\ Stored \subseteq Stored' /\ saved' = saved
  <1> DEFINE g == rows \o WP!Fresh(n)
             page == [i \in 1..n |-> <<w, at[w] + i>>]
  <1>0. /\ enqSeq \in Nat /\ flushedSeq \in Nat /\ wm \in [Workers -> Nat]
        /\ rows \in Seq(Nat) /\ Len(rows) \in Nat /\ Len(batch) \in Nat
        /\ flushedSeq + Len(batch) + Len(rows) = enqSeq
        /\ n \in Nat /\ n > 0 /\ n <= PageMax /\ PageMax \in Nat
        /\ pc \in [Workers -> {"idle", "full", "added", "released", "blocked", "waiting", "gone"}]
        /\ at \in [Workers -> Nat] /\ at[w] \in Nat
    BY WriterFacts, PipelineAssumption DEF WP!TypeOK, PipeInv, CursorTypes
  <1>1. WP!Add(w, n)
    BY DEF AddPage, W!Add, WP!Add, W!Fresh, WP!Fresh, W!Goto, WP!Goto, W!runVars, WP!runVars, W!ctxVars,
       WP!ctxVars, W!Trim, WP!Trim, W!KeepNewest, WP!KeepNewest, W!Credit, WP!Credit, W!Over, WP!Over,
       W!Elements, WP!Elements
  <1>2. /\ pc[w] = "idle" /\ enqSeq' = enqSeq + n /\ wm' = [wm EXCEPT ![w] = enqSeq + n]
        /\ pc' \in {[pc EXCEPT ![w] = "full"], [pc EXCEPT ![w] = "added"]}
        /\ durable' = durable /\ WP!Trim(g)
    BY <1>1 DEF WP!Add, WP!Goto, WP!runVars
  <1>3. row' = row \o page /\ UNCHANGED <<at, saved, history>>
    BY DEF AddPage, SavedAtAdd
  <1>4. \A k \in flushedSeq + 1..enqSeq + n : \E v \in Workers : InLastPage(wm', v, k)
    <2>1. ASSUME NEW k \in flushedSeq + 1..enqSeq PROVE \E v \in Workers : InLastPage(wm', v, k)
      <3>1. PICK v \in Workers : InLastPage(wm, v, k)
        BY <2>1 DEF PipeInv, OnePageEach
      <3>2. wm[w] <= flushedSeq
        BY <1>2 DEF PipeInv, OnePageEach
      <3>3. v # w
        BY <3>1, <3>2, <1>0 DEF InLastPage
      <3> QED
        BY <3>1, <3>3, <1>0, <1>2 DEF InLastPage
    <2>2. ASSUME NEW k \in enqSeq + 1..enqSeq + n PROVE InLastPage(wm', w, k)
      BY <1>0, <1>2 DEF InLastPage
    <2>3. \A k \in flushedSeq + 1..enqSeq + n : k \in flushedSeq + 1..enqSeq \/ k \in enqSeq + 1..enqSeq + n
      BY <1>0
    <2> QED
      BY <2>1, <2>2, <2>3
  <1>5. dropped' = dropped /\ flushedSeq' = flushedSeq
    <2>1. g \in Seq(Nat) /\ Len(g) = Len(rows) + n
      BY <1>0 DEF WP!Fresh
    <2>2. enqSeq + n \in Nat /\ wm' \in [Workers -> Nat]
      BY <1>0, <1>2
    <2>3. (enqSeq + n) - flushedSeq <= MaxPending
      BY <1>0, <1>4, <2>2, OutstandingFits
    <2>4. Len(g) <= MaxPending
      BY <1>0, <2>1, <2>3, PipelineAssumption
    <2> HIDE DEF g
    <2> QED
      BY <2>1, <2>4, <1>0, <1>2, NoOverflow
  <1>6. WP!WriterInv'
    <2>1. WP!WriterInv
      BY DEF PipeInv
    <2> QED
      BY <2>1, <1>0, <1>1, WP!AddPreserves, PipelineAssumption
  <1>7. /\ row' \in Seq(Workers \X Nat) /\ Len(row') = enqSeq + n
        /\ \A k \in 1..enqSeq : row'[k] = row[k]
        /\ \A i \in 1..n : row'[enqSeq + i] = <<w, at[w] + i>>
    <2>1. row \in Seq(Workers \X Nat) /\ Len(row) = enqSeq
      BY DEF PipeInv, CursorTypes
    <2>2. /\ page \in Seq(Workers \X Nat) /\ Len(page) = n
          /\ \A i \in 1..n : page[i] = <<w, at[w] + i>>
      BY <1>0
    <2> HIDE DEF page
    <2>3. /\ row \o page \in Seq(Workers \X Nat) /\ Len(row \o page) = Len(row) + Len(page)
          /\ \A k \in 1..Len(row) : (row \o page)[k] = row[k]
          /\ \A i \in 1..Len(page) : (row \o page)[Len(row) + i] = page[i]
      BY <2>1, <2>2, Appended
    <2> QED
      BY <2>1, <2>2, <2>3, <1>3
  <1>8. Stored' = Stored
    <2>1. \A k \in durable : row'[k] = row[k]
      BY <1>7 DEF PipeInv, DurableIsEnqueued
    <2> QED
      BY <2>1, <1>2, <1>3, ZenonT(40) DEF Stored
  <1>9. CursorTypes' /\ NothingDropped'
    BY <1>2, <1>3, <1>5, <1>7 DEF PipeInv, CursorTypes, NothingDropped
  <1>10. DurableIsEnqueued'
    BY <1>0, <1>2 DEF PipeInv, DurableIsEnqueued
  <1>11. OnePageEach'
    <2>1. ASSUME NEW v \in Workers
          PROVE  wm'[v] <= enqSeq' /\ (pc'[v] = "idle" => wm'[v] <= flushedSeq')
      BY <1>0, <1>2, <1>5 DEF PipeInv, OnePageEach
    <2> QED
      BY <2>1, <1>2, <1>4, <1>5 DEF OnePageEach
  <1>12. PageInHand'
    <2> SUFFICES ASSUME NEW v \in Workers, pc'[v] \notin {"idle", "gone"}
                 PROVE  /\ wm'[v] \in 1..enqSeq' /\ Reached(v)' \in Nat /\ at'[v] <= Reached(v)'
                        /\ \A p \in at'[v] + 1..Reached(v)' : \E k \in 1..wm'[v] : row'[k] = <<v, p>>
      BY DEF PageInHand
    <2>1. CASE v = w
      <3>1. wm'[w] = enqSeq + n /\ Reached(w)' = at[w] + n
        <4>1. wm'[w] = enqSeq + n
          BY <1>0, <1>2
        <4>2. row'[enqSeq + n] = <<w, at[w] + n>>
          BY <1>0, <1>7
        <4> QED
          BY <4>1, <4>2 DEF Reached
      <3>2. ASSUME NEW p \in at[w] + 1..at[w] + n
            PROVE  \E k \in 1..enqSeq + n : row'[k] = <<w, p>>
        <4>1. PICK i \in 1..n : p = at[w] + i
          <5>1. p - at[w] \in 1..n /\ p = at[w] + (p - at[w])
            BY <1>0
          <5> QED
            BY <5>1
        <4>2. enqSeq + i \in 1..enqSeq + n
          BY <1>0
        <4> QED
          BY <4>1, <4>2, <1>7
      <3>3. enqSeq + n \in 1..enqSeq + n /\ at[w] + n \in Nat /\ at[w] <= at[w] + n
        BY <1>0
      <3>4. at'[w] = at[w] /\ enqSeq' = enqSeq + n
        BY <1>2, <1>3
      <3> QED
        BY <2>1, <3>1, <3>2, <3>3, <3>4
    <2>2. CASE v # w
      <3>1. pc[v] \notin {"idle", "gone"} /\ wm'[v] = wm[v]
        BY <2>2, <1>0, <1>2
      <3>2. /\ wm[v] \in 1..enqSeq /\ Reached(v) \in Nat /\ at[v] <= Reached(v)
            /\ \A p \in at[v] + 1..Reached(v) : \E k \in 1..wm[v] : row[k] = <<v, p>>
        BY <3>1 DEF PipeInv, PageInHand
      <3>3. Reached(v)' = Reached(v)
        BY <3>1, <3>2, <1>7 DEF Reached
      <3>4. \A k \in 1..wm[v] : row'[k] = row[k]
        BY <3>2, <1>0, <1>7
      <3>5. wm[v] \in 1..enqSeq + n
        BY <3>2, <1>0
      <3> QED
        BY <3>1, <3>2, <3>3, <3>4, <3>5, <1>2, <1>3, ZenonT(40)
    <2> QED
      BY <2>1, <2>2
  <1>13. CursorsAreCovered'
    BY <1>3, <1>8 DEF PipeInv, CursorsAreCovered
  <1> QED
    BY <1>3, <1>6, <1>8, <1>9, <1>10, <1>11, <1>12, <1>13 DEF PipeInv

\* What WaitFlushed has released is stored, the page in hand included.
LEMMA ReleasedPageIsStored ==
  ASSUME PipeInv, NEW w \in Workers, pc[w] = "released"
  PROVE  /\ \A k \in 1..wm[w] : row[k] \in Stored
         /\ Reached(w) \in Nat /\ at[w] <= Reached(w)
         /\ {w} \X (1..Reached(w)) \subseteq Stored
  <1>1. /\ WP!WriterInv /\ dropped = {} /\ flushedSeq \in Nat /\ wm[w] \in Nat /\ wm[w] <= flushedSeq
        /\ at[w] \in Nat
    BY WriterFacts DEF PipeInv, NothingDropped, CursorTypes
  <1>2. ASSUME NEW k \in 1..wm[w] PROVE row[k] \in Stored
    <2>1. k \in Nat /\ k >= 1 /\ k <= flushedSeq
      BY <1>1
    <2>2. k \in durable
      BY <2>1, <1>1, WP!CreditedRows, PipelineAssumption
    <2> QED
      BY <2>2 DEF Stored
  <1>3. /\ Reached(w) \in Nat /\ at[w] <= Reached(w)
        /\ \A p \in at[w] + 1..Reached(w) : \E k \in 1..wm[w] : row[k] = <<w, p>>
    BY DEF PipeInv, PageInHand
  <1>4. ASSUME NEW p \in 1..Reached(w) PROVE <<w, p>> \in Stored
    <2>1. CASE p <= at[w]
      <3>1. <<w, p>> \in {w} \X (1..at[w])
        BY <2>1, <1>1, <1>3
      <3> QED
        BY <3>1 DEF PipeInv, CursorsAreCovered
    <2>2. CASE p > at[w]
      <3>1. p \in at[w] + 1..Reached(w)
        BY <2>2, <1>1, <1>3
      <3> QED
        BY <3>1, <1>2, <1>3
    <2> QED
      BY <2>1, <2>2, <1>1, <1>3
  <1> QED
    BY <1>2, <1>3, <1>4

\* A cursor moves to the end of a page that is stored, whether or not it is
\* saved as well.
LEMMA ReturnPreserves ==
  ASSUME PipeInv, NEW w \in Workers, Return(w)
  PROVE  /\ PipeInv' /\ Stored' = Stored
         /\ saved' = saved \/ saved' = [saved EXCEPT ![w] = Reached(w)]
  <1>0. /\ pc[w] = "released" /\ pc' \in {[pc EXCEPT ![w] = "idle"], [pc EXCEPT ![w] = "gone"]}
        /\ UNCHANGED <<rows, enqSeq, flushedSeq, dropped, batch, durable, wm>>
        /\ at' = [at EXCEPT ![w] = Reached(w)]
        /\ saved' = saved \/ saved' = [saved EXCEPT ![w] = Reached(w)]
        /\ UNCHANGED <<row, history>>
    BY DEF Return, W!Return, W!Goto, W!Onward, W!bufferVars, W!runVars
  <1>1. /\ at \in [Workers -> Nat] /\ saved \in [Workers -> Nat] /\ wm \in [Workers -> Nat]
        /\ pc \in [Workers -> {"idle", "full", "added", "released", "blocked", "waiting", "gone"}]
        /\ wm[w] <= flushedSeq
    BY <1>0, WriterFacts DEF WP!TypeOK, PipeInv, CursorTypes
  <1>2. /\ Reached(w) \in Nat /\ at[w] <= Reached(w) /\ {w} \X (1..Reached(w)) \subseteq Stored
    BY <1>0, ReleasedPageIsStored
  <1>3. Stored' = Stored
    BY <1>0 DEF Stored
  <1>4. CursorTypes' /\ NothingDropped' /\ DurableIsEnqueued'
    BY <1>0, <1>1, <1>2 DEF PipeInv, CursorTypes, NothingDropped, DurableIsEnqueued
  <1>5. OnePageEach'
    <2>1. \A v \in Workers : pc'[v] = "idle" => wm[v] <= flushedSeq
      BY <1>0, <1>1 DEF PipeInv, OnePageEach
    <2> QED
      BY <2>1, <1>0 DEF PipeInv, OnePageEach, InLastPage
  <1>6. PageInHand'
    <2>1. ASSUME NEW v \in Workers, pc'[v] \notin {"idle", "gone"}
          PROVE  pc[v] \notin {"idle", "gone"} /\ at'[v] = at[v] /\ Reached(v)' = Reached(v)
      BY <2>1, <1>0, <1>1 DEF Reached
    <2> QED
      BY <2>1, <1>0, SMTT(20) DEF PipeInv, PageInHand
  <1>7. CursorsAreCovered'
    <2>1. ASSUME NEW v \in Workers PROVE saved'[v] <= at'[v] /\ {v} \X (1..at'[v]) \subseteq Stored
      <3>1. saved[v] <= at[v] /\ {v} \X (1..at[v]) \subseteq Stored /\ saved[v] \in Nat /\ at[v] \in Nat
        BY <1>1 DEF PipeInv, CursorsAreCovered
      <3>2. CASE v = w
        <4>1. at'[v] = Reached(w) /\ saved'[v] \in {saved[v], Reached(w)}
          BY <3>2, <1>0, <1>1
        <4> QED
          BY <3>1, <3>2, <4>1, <1>2
      <3>3. CASE v # w
        <4>1. at'[v] = at[v] /\ saved'[v] = saved[v]
          BY <3>3, <1>0, <1>1
        <4> QED
          BY <3>1, <4>1
      <3> QED
        BY <3>2, <3>3
    <2> QED
      BY <2>1, <1>3 DEF CursorsAreCovered
  <1>8. WP!WriterInv'
    <2>1. W!Return(w)
      BY DEF Return
    <2> QED
      BY <2>1, StepsOfWriter
  <1> QED
    BY <1>0, <1>3, <1>4, <1>5, <1>6, <1>7, <1>8 DEF PipeInv

\* A writer that has just been made satisfies its invariant.
LEMMA FreshWriter == WP!Init' => WP!WriterInv'
  <1>1. WP!Init => WP!WriterInv
    BY WP!InitEstablishes, PipelineAssumption
  <1> QED
    BY <1>1, PTL

\* A restart forgets what only memory held, and begins where the databases
\* are.
LEMMA RestartPreserves ==
  ASSUME PipeInv, Restart
  PROVE  PipeInv' /\ Stored' = Stored /\ saved' = saved
  <1>0. /\ rows' = <<>> /\ enqSeq' = 0 /\ flushedSeq' = 0 /\ dropped' = {} /\ batch' = <<>>
        /\ run' = "select" /\ draining' = FALSE /\ durable' = {}
        /\ pc' = [w \in Workers |-> "idle"] /\ wm' = [w \in Workers |-> 0]
        /\ open' = [w \in Workers |-> FALSE] /\ kick' = FALSE /\ stop' = FALSE /\ cancelled' = FALSE
        /\ history' = Stored /\ at' = saved /\ row' = <<>> /\ saved' = saved
    BY DEF Restart, NewWriter
  <1>1. WP!WriterInv'
    <2>1. WP!Init'
      BY <1>0 DEF WP!Init
    <2> QED
      BY <2>1, FreshWriter
  <1>2. Stored' = Stored
    BY <1>0 DEF Stored
  <1>3. CursorTypes'
    BY <1>0 DEF PipeInv, CursorTypes
  <1>4. OnePageEach' /\ NothingDropped' /\ DurableIsEnqueued' /\ PageInHand'
    BY <1>0 DEF OnePageEach, NothingDropped, DurableIsEnqueued, PageInHand
  <1>5. CursorsAreCovered'
    <2>1. ASSUME NEW w \in Workers PROVE saved[w] <= saved[w] /\ {w} \X (1..saved[w]) \subseteq Stored
      <3>1. saved[w] \in Nat /\ at[w] \in Nat /\ saved[w] <= at[w] /\ {w} \X (1..at[w]) \subseteq Stored
        BY DEF PipeInv, CursorTypes, CursorsAreCovered
      <3>2. 1..saved[w] \subseteq 1..at[w]
        BY <3>1
      <3> QED
        BY <3>1, <3>2
    <2> QED
      BY <2>1, <1>0, <1>2 DEF CursorsAreCovered
  <1> QED
    BY <1>0, <1>1, <1>2, <1>3, <1>4, <1>5 DEF PipeInv

\* Nothing has been fetched.
LEMMA InitEstablishes == Init => PipeInv
  <1> SUFFICES ASSUME Init PROVE PipeInv
    OBVIOUS
  <1>0. /\ enqSeq = 0 /\ flushedSeq = 0 /\ dropped = {} /\ durable = {}
        /\ pc = [w \in Workers |-> "idle"] /\ wm = [w \in Workers |-> 0]
        /\ at = [w \in Workers |-> 0] /\ saved = [w \in Workers |-> 0] /\ row = <<>> /\ history = {}
    BY DEF Init, W!Init
  <1>1. WP!WriterInv
    <2>1. WP!Init
      BY DEF Init, W!Init, WP!Init
    <2> QED
      BY <2>1, WP!InitEstablishes, PipelineAssumption
  <1>2. CursorTypes /\ OnePageEach /\ NothingDropped /\ DurableIsEnqueued /\ PageInHand
    BY <1>0 DEF CursorTypes, OnePageEach, NothingDropped, DurableIsEnqueued, PageInHand
  <1>3. CursorsAreCovered
    BY <1>0 DEF CursorsAreCovered
  <1> QED
    BY <1>1, <1>2, <1>3 DEF PipeInv

\* Every step preserves the invariant.
LEMMA NextPreserves == PipeInv /\ [Next]_vars => PipeInv'
  <1> SUFFICES ASSUME PipeInv, [Next]_vars PROVE PipeInv'
    OBVIOUS
  <1>1. CASE UNCHANGED vars
    <2>1. WP!WriterInv'
      <3>1. WP!WriterInv /\ UNCHANGED WP!vars
        BY <1>1 DEF PipeInv, vars, writerVars, WP!vars, WP!bufferVars, WP!runVars, WP!clientVars, WP!ctxVars
      <3> QED
        BY <3>1, WP!NextPreserves, PipelineAssumption
    <2>2. /\ UNCHANGED <<enqSeq, flushedSeq, dropped, durable, pc, wm, at, saved, row, history>>
      BY <1>1 DEF vars, writerVars
    <2>3. CursorTypes' /\ OnePageEach' /\ NothingDropped' /\ DurableIsEnqueued'
      BY <2>2 DEF PipeInv, CursorTypes, OnePageEach, InLastPage, NothingDropped, DurableIsEnqueued
    <2>4. PageInHand'
      BY <2>2 DEF PipeInv, PageInHand, Reached
    <2>5. CursorsAreCovered'
      BY <2>2 DEF PipeInv, CursorsAreCovered, Stored
    <2> QED
      BY <2>1, <2>3, <2>4, <2>5 DEF PipeInv
  <1> QED
    BY <1>1, InsidePreserves, AddPreserves, ReturnPreserves, RestartPreserves DEF Next

-----------------------------------------------------------------------------
\* The strengthened invariant of the process: the writer's own, one page
\* per worker in the buffer, and cursors that stop at what is stored
\* (worker.go: processItems; cmd/ingestd/main.go).
THEOREM PipelineInvariant == Spec => []PipeInv
  BY InitEstablishes, NextPreserves, PTL DEF Spec

\* The buffer cap is never reached while every worker waits for its page:
\* no row is dropped however long ClickHouse is down (chwriter.go:162-172,
\* worker.go:206-207).
THEOREM CapIsNeverReached == Spec => []NothingDropped
  <1>1. PipeInv => NothingDropped
    BY DEF PipeInv
  <1> QED
    BY <1>1, PipelineInvariant, PTL

\* A released worker's rows are all in ClickHouse, whatever happened to the
\* flushes before (chwriter.go:79-97, 130-157).
THEOREM ReleasedRowsAreStored == Spec => []ReleasedIsStored
  <1>1. PipeInv => ReleasedIsStored
    BY ReleasedPageIsStored DEF ReleasedIsStored
  <1> QED
    BY <1>1, PipelineInvariant, PTL

\* The saved cursors implement HistoryCursor: a crash replays observations
\* and loses none (worker.go:201-219; cmd/ingestd/main.go).
THEOREM CursorsKeepThePromise == Spec => CursorPromise
  <1>1. Init => Promise!Init
    BY DEF Init, W!Init, Stored, Promise!Init
  <1>2. PipeInv /\ [Next]_vars => [Promise!Next]_(Promise!vars)
    <2> SUFFICES ASSUME PipeInv, [Next]_vars PROVE [Promise!Next]_(Promise!vars)
      OBVIOUS
    <2>1. ASSUME Stored \subseteq Stored', saved' = saved PROVE Promise!Next
      BY <2>1 DEF Promise!Next, Promise!Record
    <2>2. ASSUME NEW w \in Workers, Return(w) PROVE Promise!Next
      <3>1. /\ Stored' = Stored
            /\ saved' = saved \/ saved' = [saved EXCEPT ![w] = Reached(w)]
        BY <2>2, ReturnPreserves
      <3>2. CASE saved' = saved
        BY <3>1, <3>2, <2>1
      <3>3. CASE saved' = [saved EXCEPT ![w] = Reached(w)]
        <4>1. pc[w] = "released"
          BY <2>2 DEF Return, W!Return, W!Goto
        <4>2. /\ saved \in [Workers -> Nat] /\ at \in [Workers -> Nat]
              /\ Reached(w) \in Nat /\ saved[w] <= at[w] /\ at[w] <= Reached(w)
              /\ {w} \X (1..Reached(w)) \subseteq Stored
          BY <4>1, ReleasedPageIsStored DEF PipeInv, CursorTypes, CursorsAreCovered
        <4>3. saved'[w] = Reached(w) /\ Reached(w) \in saved[w]..saved'[w]
          BY <4>2, <3>3
        <4>4. Promise!Save(w, Reached(w))
          BY <4>2, <3>1, <3>3 DEF Promise!Save
        <4> QED
          BY <4>3, <4>4 DEF Promise!Next
      <3> QED
        BY <3>1, <3>2, <3>3
    <2>3. ASSUME UNCHANGED vars PROVE UNCHANGED Promise!vars
      BY <2>3 DEF vars, writerVars, Promise!vars, Stored
    <2> QED
      BY <2>1, <2>2, <2>3, InsidePreserves, AddPreserves, RestartPreserves DEF Next
  <1>3. Spec => Promise!Init /\ [][Promise!Next]_(Promise!vars)
    BY <1>1, <1>2, PipelineInvariant, PTL DEF Spec
  <1> QED
    BY <1>3 DEF CursorPromise, Promise!Spec
=============================================================================
