--------------------------- MODULE CHWriterProofs ---------------------------
(***************************************************************************)
(* Proofs about CHWriter, for any number of workers, any cap, batch size   *)
(* and number of rows, and any sequence of failed and successful flushes.  *)
(*                                                                         *)
(* The invariants are inductive only together with WriterInv: CountersAgree*)
(* says how many rows the watermark covers, not which.  What is missing is *)
(* Contiguous: between the rows in flight and the buffered ones there is a *)
(* gap only after an overflow, and then the buffer is exactly full, so     *)
(* that a failed flush drops its whole batch rather than part of it.       *)
(***************************************************************************)
EXTENDS CHWriter, TLAPS

InFlight == run \in {"insert", "ack", "requeue"}

\* A batch exists only while a flush is in progress, and an acknowledged one
\* has been stored.
BatchState ==
  /\ ~InFlight => batch = <<>>
  /\ run = "ack" => Elements(batch) \subseteq durable

\* The buffer continues where the batch ends, or has overflowed since.
Contiguous ==
  \/ \A i \in 1..Len(batch) : batch[i] = flushedSeq + i
  \/ Len(rows) = MaxPending /\ dropped # {}

\* WaitFlushed releases no watermark that is not credited.
ReleasedIsCredited == \A c \in Clients : pc[c] = "released" => wm[c] <= flushedSeq

WriterInv ==
  /\ TypeOK
  /\ CountersAgree
  /\ BufferIsNewest
  /\ BoundedMemory
  /\ NothingLost
  /\ BatchState
  /\ Contiguous
  /\ ReleasedIsCredited

-----------------------------------------------------------------------------
(* The buffer operators.                                                   *)

\* What dropOverflowLocked leaves is the end of the grown buffer, at most
\* the cap, and exactly the cap when anything was dropped.
LEMMA KeepNewestIsSuffix ==
  ASSUME NEW g \in Seq(Nat)
  PROVE  /\ Over(g) \in 0..Len(g)
         /\ KeepNewest(g) \in Seq(Nat)
         /\ Len(KeepNewest(g)) = Len(g) - Over(g)
         /\ Len(KeepNewest(g)) <= MaxPending
         /\ Over(g) > 0 => Len(KeepNewest(g)) = MaxPending
         /\ \A i \in 1..Len(KeepNewest(g)) : KeepNewest(g)[i] = g[Over(g) + i]
  <1>1. Over(g) \in 0..Len(g)
    BY WriterAssumption DEF Over
  <1>2. Over(g) + 1 \in 1..Len(g) + 1
    BY <1>1
  <1>3. /\ SubSeq(g, Over(g) + 1, Len(g)) \in Seq(Nat)
        /\ Len(SubSeq(g, Over(g) + 1, Len(g))) = Len(g) - Over(g)
        /\ \A i \in 1..Len(g) - Over(g) :
             SubSeq(g, Over(g) + 1, Len(g))[i] = g[Over(g) + i]
    BY <1>1, <1>2, SMTT(20)
  <1>4. Len(g) - Over(g) <= MaxPending /\ (Over(g) > 0 => Len(g) - Over(g) = MaxPending)
    BY WriterAssumption DEF Over
  <1> QED
    BY <1>1, <1>3, <1>4 DEF KeepNewest

\* dropOverflowLocked splits the buffer: every row is kept or dropped, and
\* something is dropped when the cap is exceeded.
LEMMA KeptOrDropped ==
  ASSUME NEW g \in Seq(Nat)
  PROVE  /\ Elements(g) \subseteq Elements(KeepNewest(g)) \cup Elements(SubSeq(g, 1, Over(g)))
         /\ Elements(SubSeq(g, 1, Over(g))) \subseteq Nat
         /\ Over(g) > 0 => Elements(SubSeq(g, 1, Over(g))) # {}
  <1>1. Over(g) \in 0..Len(g)
    BY KeepNewestIsSuffix
  <1>2. /\ Len(SubSeq(g, 1, Over(g))) = Over(g)
        /\ \A i \in 1..Over(g) : SubSeq(g, 1, Over(g))[i] = g[i] /\ g[i] \in Nat
    BY <1>1
  <1>3. ASSUME NEW i \in 1..Len(g)
        PROVE  g[i] \in Elements(KeepNewest(g)) \cup Elements(SubSeq(g, 1, Over(g)))
    <2>1. CASE i <= Over(g)
      BY <2>1, <1>1, <1>2 DEF Elements
    <2>2. CASE i > Over(g)
      <3>1. PICK k \in 1..Len(KeepNewest(g)) : Over(g) + k = i
        <4>1. i - Over(g) \in 1..Len(g) - Over(g) /\ Over(g) + (i - Over(g)) = i
          BY <2>2, <1>1
        <4>2. Len(KeepNewest(g)) = Len(g) - Over(g)
          BY KeepNewestIsSuffix
        <4> QED
          BY <4>1, <4>2
      <3>2. KeepNewest(g)[k] = g[i]
        BY <3>1, KeepNewestIsSuffix
      <3> QED
        BY <3>1, <3>2 DEF Elements
    <2> QED
      BY <2>1, <2>2, <1>1
  <1>4. Elements(SubSeq(g, 1, Over(g))) \subseteq Nat
    BY <1>2 DEF Elements
  <1>5. Over(g) > 0 => SubSeq(g, 1, Over(g))[1] \in Elements(SubSeq(g, 1, Over(g)))
    BY <1>1, <1>2 DEF Elements
  <1> QED
    BY <1>3, <1>4, <1>5 DEF Elements

\* Concatenation concatenates the rows.
LEMMA ConcatElements ==
  ASSUME NEW s \in Seq(Nat), NEW t \in Seq(Nat)
  PROVE  /\ s \o t \in Seq(Nat)
         /\ Len(s \o t) = Len(s) + Len(t)
         /\ \A i \in 1..Len(s) : (s \o t)[i] = s[i]
         /\ \A i \in 1..Len(t) : (s \o t)[Len(s) + i] = t[i]
         /\ \A i \in Len(s) + 1..Len(s) + Len(t) : (s \o t)[i] = t[i - Len(s)]
         /\ Elements(s) \cup Elements(t) \subseteq Elements(s \o t)
  <1>1. /\ s \o t \in Seq(Nat)
        /\ Len(s \o t) = Len(s) + Len(t)
        /\ \A i \in 1..Len(s) : (s \o t)[i] = s[i]
        /\ \A i \in 1..Len(t) : (s \o t)[Len(s) + i] = t[i]
        /\ \A i \in Len(s) + 1..Len(s) + Len(t) : (s \o t)[i] = t[i - Len(s)]
    OBVIOUS
  <1>2. ASSUME NEW i \in 1..Len(s) PROVE s[i] \in Elements(s \o t)
    <2>1. i \in 1..Len(s \o t) /\ (s \o t)[i] = s[i]
      BY <1>1
    <2> QED
      BY <2>1 DEF Elements
  <1>3. ASSUME NEW i \in 1..Len(t) PROVE t[i] \in Elements(s \o t)
    <2>1. Len(s) + i \in 1..Len(s \o t) /\ (s \o t)[Len(s) + i] = t[i]
      BY <1>1
    <2> QED
      BY <2>1 DEF Elements
  <1> QED
    BY <1>1, <1>2, <1>3 DEF Elements

\* The rows of one Add.
LEMMA FreshRows ==
  ASSUME enqSeq \in Nat, NEW n \in Nat
  PROVE  /\ Fresh(n) \in Seq(Nat)
         /\ Len(Fresh(n)) = n
         /\ \A i \in 1..n : Fresh(n)[i] = enqSeq + i
         /\ Elements(Fresh(n)) = enqSeq + 1..enqSeq + n
  <1>1. /\ Fresh(n) \in Seq(Nat)
        /\ Len(Fresh(n)) = n
        /\ \A i \in 1..n : Fresh(n)[i] = enqSeq + i
    BY DEF Fresh
  <1>2. ASSUME NEW k \in enqSeq + 1..enqSeq + n PROVE k \in Elements(Fresh(n))
    <2>1. k - enqSeq \in 1..n /\ Fresh(n)[k - enqSeq] = k
      BY <1>1
    <2> QED
      BY <2>1, <1>1 DEF Elements
  <1>3. Elements(Fresh(n)) \subseteq enqSeq + 1..enqSeq + n
    BY <1>1 DEF Elements
  <1> QED
    BY <1>1, <1>2, <1>3

\* A critical section that ends in dropOverflowLocked, on a buffer grown to g.
LEMMA TrimStep ==
  ASSUME TypeOK, NEW g \in Seq(Nat), Trim(g)
  PROVE  /\ Over(g) \in Nat /\ Over(g) <= Len(g)
         /\ rows' \in Seq(Nat) /\ Len(rows') \in Nat
         /\ Len(rows') = Len(g) - Over(g)
         /\ Len(rows') <= MaxPending
         /\ Over(g) > 0 => Len(rows') = MaxPending /\ dropped' # {}
         /\ \A i \in 1..Len(rows') : rows'[i] = g[Over(g) + i]
         /\ flushedSeq' = flushedSeq + Over(g) /\ flushedSeq' \in Nat
         /\ dropped \subseteq dropped' /\ dropped' \subseteq Nat
         /\ Elements(g) \subseteq Elements(rows') \cup dropped'
         /\ open' \in [Clients -> BOOLEAN]
  <1>1. /\ rows' = KeepNewest(g)
        /\ flushedSeq' = flushedSeq + Over(g)
        /\ dropped' = dropped \cup Elements(SubSeq(g, 1, Over(g)))
    BY DEF Trim, Credit
  <1>2. flushedSeq \in Nat /\ dropped \subseteq Nat
    BY DEF TypeOK
  <1>3. open' \in [Clients -> BOOLEAN]
    BY DEF Trim, TypeOK
  <1>4. flushedSeq' \in Nat
    BY <1>1, <1>2, KeepNewestIsSuffix
  <1>5. /\ Over(g) \in Nat /\ Over(g) <= Len(g)
        /\ rows' \in Seq(Nat) /\ Len(rows') \in Nat
        /\ Len(rows') = Len(g) - Over(g)
        /\ Len(rows') <= MaxPending
        /\ Over(g) > 0 => Len(rows') = MaxPending
        /\ \A i \in 1..Len(rows') : rows'[i] = g[Over(g) + i]
    BY <1>1, KeepNewestIsSuffix, SMTT(20)
  <1>6. /\ Over(g) > 0 => dropped' # {}
        /\ dropped \subseteq dropped' /\ dropped' \subseteq Nat
        /\ Elements(g) \subseteq Elements(rows') \cup dropped'
    BY <1>1, <1>2, KeptOrDropped
  <1> QED
    BY <1>1, <1>3, <1>4, <1>5, <1>6

-----------------------------------------------------------------------------
(* The invariant, action by action.                                        *)

\* A fresh writer (NewCHWriter) satisfies the invariant.
LEMMA InitEstablishes == Init => WriterInv
  <1> SUFFICES ASSUME Init PROVE WriterInv
    OBVIOUS
  <1> USE DEF Init
  <1>1. TypeOK
    <2>1. <<>> \in Seq(Nat)
      OBVIOUS
    <2>2. /\ pc \in [Clients -> {"idle", "full", "added", "released", "blocked", "waiting", "gone"}]
          /\ wm \in [Clients -> Nat] /\ open \in [Clients -> BOOLEAN]
      OBVIOUS
    <2> QED
      BY <2>1, <2>2 DEF TypeOK
  <1>2. CountersAgree /\ BufferIsNewest /\ Contiguous
    BY DEF CountersAgree, BufferIsNewest, Contiguous
  <1>3. BoundedMemory
    BY WriterAssumption DEF BoundedMemory
  <1>4. NothingLost /\ BatchState /\ ReleasedIsCredited
    BY DEF NothingLost, BatchState, InFlight, ReleasedIsCredited
  <1> QED
    BY <1>1, <1>2, <1>3, <1>4 DEF WriterInv

\* Add: fresh rows behind the buffered ones, trimmed to the cap.
LEMMA AddPreserves ==
  ASSUME WriterInv, NEW c \in Clients, NEW n \in Nat, n > 0, Add(c, n)
  PROVE  WriterInv'
  <1> DEFINE g == rows \o Fresh(n)
  <1>0. /\ TypeOK
        /\ enqSeq \in Nat /\ flushedSeq \in Nat /\ n \in Nat
        /\ rows \in Seq(Nat) /\ Len(rows) \in Nat
        /\ batch \in Seq(Nat) /\ Len(batch) \in Nat
    BY WriterAssumption DEF WriterInv, TypeOK
  <1>1. /\ g \in Seq(Nat)
        /\ Len(g) = Len(rows) + n
        /\ Elements(rows) \cup (enqSeq + 1..enqSeq + n) \subseteq Elements(g)
    <2>1. /\ Fresh(n) \in Seq(Nat) /\ Len(Fresh(n)) = n
          /\ Elements(Fresh(n)) = (enqSeq + 1..enqSeq + n)
      BY <1>0, FreshRows
    <2> QED
      BY <2>1, <1>0, ConcatElements
  <1>2. \A i \in 1..Len(g) : g[i] = enqSeq - Len(rows) + i
    <2>1. \A i \in 1..Len(rows) : g[i] = enqSeq - Len(rows) + i
      BY <1>0, FreshRows, ConcatElements DEF WriterInv, BufferIsNewest
    <2>2. \A i \in Len(rows) + 1..Len(g) : g[i] = Fresh(n)[i - Len(rows)]
      BY <1>0, FreshRows, ConcatElements
    <2>3. ASSUME NEW i \in Len(rows) + 1..Len(g) PROVE g[i] = enqSeq - Len(rows) + i
      <3>1. i - Len(rows) \in 1..n
        BY <1>0, <1>1
      <3>2. Fresh(n)[i - Len(rows)] = enqSeq + (i - Len(rows))
        BY <3>1, <1>0, FreshRows
      <3> QED
        BY <3>2, <2>2, <1>0
    <2> QED
      BY <2>1, <2>3, <1>0, <1>1
  <1> HIDE DEF g
  <1>3. Trim(g)
    BY DEF Add, g
  <1>4. /\ enqSeq' = enqSeq + n
        /\ batch' = batch /\ run' = run /\ draining' = draining /\ durable' = durable
        /\ stop' = stop /\ cancelled' = cancelled /\ kick' = kick
        /\ wm' = [wm EXCEPT ![c] = enqSeq + n]
        /\ pc' \in {[pc EXCEPT ![c] = "full"], [pc EXCEPT ![c] = "added"]}
    BY DEF Add, Goto, runVars, ctxVars
  <1>T. /\ Over(g) \in Nat /\ Over(g) <= Len(g)
        /\ rows' \in Seq(Nat) /\ Len(rows') \in Nat
        /\ Len(rows') = Len(g) - Over(g)
        /\ Len(rows') <= MaxPending
        /\ Over(g) > 0 => Len(rows') = MaxPending /\ dropped' # {}
        /\ \A i \in 1..Len(rows') : rows'[i] = g[Over(g) + i]
        /\ flushedSeq' = flushedSeq + Over(g) /\ flushedSeq' \in Nat
        /\ dropped \subseteq dropped' /\ dropped' \subseteq Nat
        /\ Elements(g) \subseteq Elements(rows') \cup dropped'
        /\ open' \in [Clients -> BOOLEAN]
    <2>1. TypeOK /\ g \in Seq(Nat) /\ Trim(g)
      BY <1>0, <1>1, <1>3
    <2> QED
      BY <2>1, TrimStep
  <1>5. TypeOK'
    <2>1. /\ enqSeq' \in Nat
          /\ wm' \in [Clients -> Nat]
          /\ pc' \in [Clients -> {"idle", "full", "added", "released", "blocked", "waiting", "gone"}]
      <3>1. enqSeq + n \in Nat
        BY <1>0
      <3>2. wm \in [Clients -> Nat] /\ pc \in [Clients -> {"idle", "full", "added", "released", "blocked", "waiting", "gone"}]
        BY <1>0 DEF TypeOK
      <3> QED
        BY <3>1, <3>2, <1>4
    <2>2. /\ rows' \in Seq(Nat) /\ flushedSeq' \in Nat /\ dropped' \subseteq Nat
          /\ open' \in [Clients -> BOOLEAN]
      BY <1>0, <1>1, <1>T
    <2> QED
      BY <2>1, <2>2, <1>0, <1>4 DEF TypeOK
  <1>6. CountersAgree'
    <2>1. flushedSeq + Len(batch) + Len(rows) = enqSeq
      BY DEF WriterInv, CountersAgree
    <2>2. Len(rows') = (Len(rows) + n) - Over(g) /\ flushedSeq' = flushedSeq + Over(g)
      BY <1>1, <1>T
    <2>3. Over(g) \in Nat
      BY <1>T
    <2>4. batch' = batch /\ enqSeq' = enqSeq + n
      BY <1>4
    <2>5. flushedSeq' + Len(batch) + Len(rows') = enqSeq + n
      <3>1. /\ enqSeq \in Nat /\ flushedSeq \in Nat /\ n \in Nat
            /\ Len(rows) \in Nat /\ Len(batch) \in Nat
            /\ flushedSeq' \in Nat /\ Len(rows') \in Nat
        BY <1>0, <1>T
      <3>2. flushedSeq' + Len(rows') = flushedSeq + Len(rows) + n
        BY <3>1, <2>2, <2>3
      <3> QED
        BY <3>1, <3>2, <2>1, SMTT(20)
    <2> QED
      BY <2>4, <2>5 DEF CountersAgree
  <1>7. BufferIsNewest'
    <2>1. /\ Over(g) \in Nat /\ Len(rows') \in Nat /\ Len(g) \in Nat
          /\ Len(g) = Len(rows) + n /\ Len(rows') = Len(g) - Over(g)
      BY <1>0, <1>1, <1>T
    <2>2. ASSUME NEW i \in 1..Len(rows') PROVE rows'[i] = enqSeq' - Len(rows') + i
      <3>1. Over(g) + i \in 1..Len(g)
        BY <2>1
      <3>2. rows'[i] = enqSeq - Len(rows) + (Over(g) + i)
        BY <3>1, <1>2, <1>T
      <3> QED
        BY <3>2, <2>1, <1>0, <1>4
    <2>3. Len(rows') <= Len(rows) + n
      BY <1>0, <1>1, <1>T
    <2>4. \A i \in 1..Len(batch) : batch[i] = batch[1] + i - 1 /\ batch[i] + Len(rows) <= enqSeq
      BY DEF WriterInv, BufferIsNewest
    <2>5. \A i \in 1..Len(batch) : batch[i] \in Nat
      BY <1>0
    <2>6. Len(rows') \in Nat
      BY <1>0, <1>1, <1>T
    <2>7. \A i \in 1..Len(batch) : batch[i] + Len(rows') <= enqSeq'
      BY <2>3, <2>4, <2>5, <2>6, <1>0, <1>4, SMTT(20)
    <2> QED
      BY <2>2, <2>4, <2>7, <1>4 DEF BufferIsNewest
  <1>8. BoundedMemory'
    BY <1>0, <1>1, <1>T, <1>4 DEF WriterInv, BoundedMemory
  <1>9. NothingLost'
    <2>1. /\ dropped \subseteq dropped'
          /\ Elements(rows) \cup (enqSeq + 1..enqSeq + n) \subseteq Elements(rows') \cup dropped'
      BY <1>0, <1>1, <1>T
    <2>2. 1..enqSeq \subseteq durable \cup dropped \cup Elements(batch) \cup Elements(rows)
      BY DEF WriterInv, NothingLost
    <2>3. Elements(batch)' = Elements(batch) /\ Elements(rows)' = Elements(rows')
      BY <1>4 DEF Elements
    <2>4. 1..enqSeq' \subseteq (1..enqSeq) \cup (enqSeq + 1..enqSeq + n)
      BY <1>0, <1>4
    <2> QED
      BY <2>1, <2>2, <2>3, <2>4, <1>4 DEF NothingLost
  <1>10. BatchState'
    BY <1>4 DEF WriterInv, BatchState, InFlight, Elements
  <1>11. Contiguous'
    <2>1. CASE Over(g) > 0
      BY <2>1, <1>0, <1>1, <1>T DEF Contiguous
    <2>2. CASE Over(g) = 0
      <3>1. Len(rows) # MaxPending
        BY <2>2, <1>0, <1>1, WriterAssumption DEF Over
      <3>2. flushedSeq' = flushedSeq
        BY <2>2, <1>0, <1>1, <1>T DEF TypeOK
      <3> QED
        BY <3>1, <3>2, <1>4 DEF WriterInv, Contiguous
    <2> QED
      BY <2>1, <2>2, <1>0, <1>1, <1>T
  <1>12. ReleasedIsCredited'
    <2>1. flushedSeq \in Nat /\ flushedSeq' \in Nat /\ flushedSeq <= flushedSeq'
      BY <1>0, <1>1, <1>T DEF TypeOK
    <2>2. ASSUME NEW d \in Clients, pc'[d] = "released" PROVE wm'[d] <= flushedSeq'
      <3>1. d # c /\ pc[d] = "released" /\ wm'[d] = wm[d] /\ wm[d] \in Nat
        BY <2>2, <1>0, <1>4 DEF TypeOK
      <3>2. wm[d] <= flushedSeq
        BY <3>1 DEF WriterInv, ReleasedIsCredited
      <3> QED
        BY <3>1, <3>2, <2>1
    <2> QED
      BY <2>2 DEF ReleasedIsCredited
  <1> QED
    BY <1>5, <1>6, <1>7, <1>8, <1>9, <1>10, <1>11, <1>12 DEF WriterInv

\* A failed flush: the batch returns to the front of the buffer.  This is
\* where Contiguous is needed.
LEMMA RequeuePreserves ==
  ASSUME WriterInv, Requeue
  PROVE  WriterInv'
  <1> DEFINE g == batch \o rows
  <1>0. /\ TypeOK /\ run = "requeue"
        /\ enqSeq \in Nat /\ flushedSeq \in Nat
        /\ rows \in Seq(Nat) /\ Len(rows) \in Nat
        /\ batch \in Seq(Nat) /\ Len(batch) \in Nat
        /\ flushedSeq + Len(batch) + Len(rows) = enqSeq
    BY DEF WriterInv, TypeOK, CountersAgree, Requeue
  <1>1. /\ g \in Seq(Nat)
        /\ Len(g) = Len(batch) + Len(rows)
        /\ \A i \in 1..Len(batch) : g[i] = batch[i]
        /\ \A i \in 1..Len(rows) : g[Len(batch) + i] = rows[i]
        /\ \A i \in Len(batch) + 1..Len(batch) + Len(rows) : g[i] = rows[i - Len(batch)]
        /\ Elements(batch) \cup Elements(rows) \subseteq Elements(g)
    BY <1>0, ConcatElements
  <1> HIDE DEF g
  <1>2. Trim(g)
    BY DEF Requeue, Requeued, g
  <1>3. /\ enqSeq' = enqSeq /\ draining' = draining /\ durable' = durable
        /\ pc' = pc /\ wm' = wm /\ kick' = kick /\ stop' = stop /\ cancelled' = cancelled
        /\ batch' = <<>> /\ run' \in {"select", "stopped"}
    BY DEF Requeue, clientVars, ctxVars, Resume
  <1>T. /\ Over(g) \in Nat /\ Over(g) <= Len(g)
        /\ rows' \in Seq(Nat) /\ Len(rows') \in Nat
        /\ Len(rows') = Len(g) - Over(g)
        /\ Len(rows') <= MaxPending
        /\ Over(g) > 0 => Len(rows') = MaxPending /\ dropped' # {}
        /\ \A i \in 1..Len(rows') : rows'[i] = g[Over(g) + i]
        /\ flushedSeq' = flushedSeq + Over(g) /\ flushedSeq' \in Nat
        /\ dropped \subseteq dropped' /\ dropped' \subseteq Nat
        /\ Elements(g) \subseteq Elements(rows') \cup dropped'
        /\ open' \in [Clients -> BOOLEAN]
    <2>1. TypeOK /\ g \in Seq(Nat) /\ Trim(g)
      BY <1>0, <1>1, <1>2
    <2> QED
      BY <2>1, TrimStep
  <1>4. <<>> \in Seq(Nat) /\ Len(<<>>) = 0
    OBVIOUS
  <1>5. TypeOK'
    BY <1>0, <1>3, <1>4, <1>T DEF TypeOK
  <1>6. CountersAgree'
    <2>1. flushedSeq' + 0 + Len(rows') = enqSeq
      <3>1. /\ flushedSeq' = flushedSeq + Over(g)
            /\ Len(rows') = Len(batch) + Len(rows) - Over(g)
            /\ Over(g) \in Nat
        BY <1>1, <1>T
      <3> QED
        BY <3>1, <1>0
    <2> QED
      BY <2>1, <1>3, <1>4 DEF CountersAgree
  <1>7. BufferIsNewest'
    <2>1. ASSUME NEW i \in 1..Len(rows') PROVE rows'[i] = enqSeq - Len(rows') + i
      <3>1. /\ Over(g) \in Nat /\ Len(rows') \in Nat
            /\ Len(rows') = Len(batch) + Len(rows) - Over(g)
            /\ rows'[i] = g[Over(g) + i]
        BY <1>1, <1>T
      <3>2. \A j \in 1..Len(rows) : rows[j] = enqSeq - Len(rows) + j
        BY DEF WriterInv, BufferIsNewest
      <3>3. CASE \A j \in 1..Len(batch) : batch[j] = flushedSeq + j
        <4>1. CASE Over(g) + i <= Len(batch)
          <5>1. Over(g) + i \in 1..Len(batch)
            BY <4>1, <3>1, <1>0
          <5>2. rows'[i] = flushedSeq + (Over(g) + i)
            BY <5>1, <3>1, <3>3, <1>1
          <5> QED
            BY <5>2, <3>1, <1>0, SMTT(20)
        <4>2. CASE Over(g) + i > Len(batch)
          <5>1. /\ Over(g) + i \in Len(batch) + 1..Len(batch) + Len(rows)
                /\ Over(g) + i - Len(batch) \in 1..Len(rows)
            BY <4>2, <3>1, <1>0, SMTT(20)
          <5>2. rows'[i] = enqSeq - Len(rows) + (Over(g) + i - Len(batch))
            BY <5>1, <3>1, <3>2, <1>1, SMTT(20)
          <5> QED
            BY <5>2, <3>1, <1>0, SMTT(20)
        <4> QED
          BY <4>1, <4>2, <3>1, <1>0
      <3>4. CASE Len(rows) = MaxPending
        <4>1. Over(g) = Len(batch) /\ Len(rows') = Len(rows)
          BY <3>4, <3>1, <1>0, <1>1, WriterAssumption DEF Over
        <4>2. rows'[i] = rows[i]
          BY <4>1, <3>1, <1>1
        <4> QED
          BY <4>1, <4>2, <3>2
      <3> QED
        BY <3>3, <3>4 DEF WriterInv, Contiguous
    <2> QED
      BY <2>1, <1>3, <1>4 DEF BufferIsNewest
  <1>8. BoundedMemory'
    BY <1>3, <1>4, <1>T, WriterAssumption DEF BoundedMemory
  <1>9. NothingLost'
    <2>1. /\ dropped \subseteq dropped'
          /\ Elements(batch) \cup Elements(rows) \subseteq Elements(rows') \cup dropped'
      BY <1>1, <1>T
    <2>2. 1..enqSeq \subseteq durable \cup dropped \cup Elements(batch) \cup Elements(rows)
      BY DEF WriterInv, NothingLost
    <2>3. Elements(rows)' = Elements(rows')
      BY DEF Elements
    <2> QED
      BY <2>1, <2>2, <2>3, <1>3 DEF NothingLost
  <1>10. BatchState' /\ Contiguous'
    BY <1>3, <1>4 DEF BatchState, InFlight, Contiguous
  <1>11. ReleasedIsCredited'
    <2>1. flushedSeq <= flushedSeq' /\ flushedSeq' \in Nat
      BY <1>0, <1>T
    <2>2. \A d \in Clients : pc[d] = "released" => wm[d] <= flushedSeq /\ wm[d] \in Nat
      BY <1>0 DEF WriterInv, ReleasedIsCredited, TypeOK
    <2> QED
      BY <2>1, <2>2, <1>0, <1>3 DEF ReleasedIsCredited
  <1> QED
    BY <1>5, <1>6, <1>7, <1>8, <1>9, <1>10, <1>11 DEF WriterInv

\* A flush begins: the whole buffer becomes the batch.
LEMMA TakePreserves ==
  ASSUME WriterInv, NEW final \in BOOLEAN, Take(final), kick' \in BOOLEAN
  PROVE  WriterInv'
  <1>0. /\ TypeOK /\ run = "select" /\ batch = <<>>
        /\ enqSeq \in Nat /\ flushedSeq \in Nat
        /\ rows \in Seq(Nat) /\ Len(rows) \in Nat
        /\ Len(rows) <= MaxPending
        /\ \A i \in 1..Len(rows) : rows[i] = enqSeq - Len(rows) + i
    BY DEF WriterInv, TypeOK, BatchState, InFlight, Take, BoundedMemory, BufferIsNewest
  <1>1. /\ batch' = rows /\ rows' = <<>> /\ draining' = final
        /\ enqSeq' = enqSeq /\ flushedSeq' = flushedSeq /\ dropped' = dropped
        /\ durable' = durable /\ pc' = pc /\ wm' = wm /\ open' = open
        /\ stop' = stop /\ cancelled' = cancelled
        /\ run' \in {"insert", "select", "stopped"}
        /\ run' = "insert" \/ rows = <<>>
    BY DEF Take, Resume, clientVars, ctxVars
  <1>2. <<>> \in Seq(Nat) /\ Len(<<>>) = 0
    OBVIOUS
  <1>3. flushedSeq + Len(rows) = enqSeq
    <2>1. flushedSeq + Len(batch) + Len(rows) = enqSeq
      BY DEF WriterInv, CountersAgree
    <2>2. Len(batch) = 0
      BY <1>0, <1>2
    <2> QED
      BY <2>1, <2>2, <1>0
  <1>4. TypeOK'
    BY <1>0, <1>1, <1>2 DEF TypeOK
  <1>5. CountersAgree' /\ BoundedMemory'
    BY <1>0, <1>1, <1>2, <1>3, WriterAssumption DEF CountersAgree, BoundedMemory
  <1>6. \A i \in 1..Len(rows) : rows[i] = flushedSeq + i
    <2>1. ASSUME NEW i \in 1..Len(rows) PROVE rows[i] = flushedSeq + i
      <3>1. rows[i] = enqSeq - Len(rows) + i /\ i \in Nat
        BY <1>0
      <3>2. enqSeq - Len(rows) = flushedSeq
        BY <1>0, <1>3
      <3> QED
        BY <3>1, <3>2
    <2> QED
      BY <2>1
  <1>7. BufferIsNewest'
    <2>1. ASSUME NEW i \in 1..Len(rows) PROVE rows[i] = rows[1] + i - 1 /\ rows[i] + 0 <= enqSeq
      <3>1. 1 \in 1..Len(rows) /\ rows[i] = flushedSeq + i /\ rows[1] = flushedSeq + 1
        BY <1>0, <1>6
      <3> QED
        BY <3>1, <1>0, <1>3
    <2> QED
      BY <2>1, <1>1, <1>2 DEF BufferIsNewest
  <1>8. NothingLost'
    <2>1. 1..enqSeq \subseteq durable \cup dropped \cup Elements(batch) \cup Elements(rows)
      BY DEF WriterInv, NothingLost
    <2>2. Elements(batch) = {} /\ Elements(batch)' = Elements(rows)
      BY <1>0, <1>1, <1>2 DEF Elements
    <2> QED
      BY <2>1, <2>2, <1>1 DEF NothingLost
  <1>9. BatchState'
    BY <1>1 DEF BatchState, InFlight
  <1>10. Contiguous'
    BY <1>1, <1>6 DEF Contiguous
  <1>11. ReleasedIsCredited'
    BY <1>1 DEF WriterInv, ReleasedIsCredited
  <1> QED
    BY <1>4, <1>5, <1>7, <1>8, <1>9, <1>10, <1>11 DEF WriterInv

\* Both outcomes of an insert: rows may become durable, nothing else moves.
LEMMA InsertPreserves ==
  ASSUME WriterInv, InsertOk \/ InsertFails
  PROVE  WriterInv'
  <1>1. /\ UNCHANGED <<bufferVars, batch, draining, clientVars, ctxVars, kick, open>>
        /\ run = "insert" /\ run' \in {"ack", "requeue"}
        /\ run' = "ack" => Elements(batch) \subseteq durable'
        /\ durable \subseteq durable' /\ durable' \subseteq durable \cup Elements(batch)
    BY DEF InsertOk, InsertFails
  <1>2. Elements(batch) \subseteq Nat
    BY DEF WriterInv, TypeOK, Elements
  <1>3. TypeOK'
    BY <1>1, <1>2 DEF WriterInv, TypeOK, bufferVars, clientVars, ctxVars
  <1>4. CountersAgree' /\ BufferIsNewest' /\ BoundedMemory' /\ Contiguous' /\ ReleasedIsCredited'
    BY <1>1 DEF WriterInv, CountersAgree, BufferIsNewest, BoundedMemory, Contiguous,
                ReleasedIsCredited, bufferVars, clientVars
  <1>5. NothingLost' /\ BatchState'
    <2>1. batch' = batch /\ rows' = rows /\ enqSeq' = enqSeq /\ dropped' = dropped
      BY <1>1 DEF bufferVars
    <2>2. Elements(batch)' = Elements(batch) /\ Elements(rows)' = Elements(rows)
      BY <2>1 DEF Elements
    <2> QED
      BY <2>1, <2>2, <1>1 DEF WriterInv, NothingLost, BatchState, InFlight
  <1> QED
    BY <1>3, <1>4, <1>5 DEF WriterInv

\* A flush succeeds: the watermark advances by the length of the batch.
LEMMA AckPreserves ==
  ASSUME WriterInv, Ack
  PROVE  WriterInv'
  <1>0. /\ TypeOK /\ run = "ack"
        /\ enqSeq \in Nat /\ flushedSeq \in Nat
        /\ Len(rows) \in Nat /\ Len(batch) \in Nat
        /\ flushedSeq + Len(batch) + Len(rows) = enqSeq
    BY DEF WriterInv, TypeOK, CountersAgree, Ack
  <1>1. /\ rows' = rows /\ enqSeq' = enqSeq /\ dropped' = dropped /\ draining' = draining
        /\ durable' = durable /\ pc' = pc /\ wm' = wm /\ kick' = kick
        /\ stop' = stop /\ cancelled' = cancelled
        /\ batch' = <<>> /\ flushedSeq' = flushedSeq + Len(batch)
        /\ run' \in {"select", "stopped"}
        /\ open' = [d \in Clients |-> FALSE]
    BY DEF Ack, Landed, WakeAll, Resume, clientVars, ctxVars
  <1>2. <<>> \in Seq(Nat) /\ Len(<<>>) = 0
    OBVIOUS
  <1>3. TypeOK'
    <2>1. flushedSeq' \in Nat /\ open' \in [Clients -> BOOLEAN]
      BY <1>0, <1>1
    <2> QED
      BY <2>1, <1>0, <1>1, <1>2 DEF TypeOK
  <1>4. CountersAgree'
    <2>1. (flushedSeq + Len(batch)) + 0 + Len(rows) = enqSeq
      BY <1>0
    <2> QED
      BY <2>1, <1>1, <1>2 DEF CountersAgree
  <1>5. BufferIsNewest' /\ BoundedMemory' /\ BatchState' /\ Contiguous'
    BY <1>0, <1>1, <1>2, WriterAssumption DEF WriterInv, BufferIsNewest, BoundedMemory,
       BatchState, InFlight, Contiguous
  <1>6. NothingLost'
    <2>1. Elements(batch) \subseteq durable
      BY <1>0 DEF WriterInv, BatchState
    <2>2. Elements(rows)' = Elements(rows)
      BY <1>1 DEF Elements
    <2> QED
      BY <2>1, <2>2, <1>1 DEF WriterInv, NothingLost
  <1>7. ReleasedIsCredited'
    <2>1. \A d \in Clients : pc[d] = "released" => wm[d] <= flushedSeq /\ wm[d] \in Nat
      BY <1>0 DEF WriterInv, ReleasedIsCredited, TypeOK
    <2> QED
      BY <2>1, <1>0, <1>1 DEF ReleasedIsCredited
  <1> QED
    BY <1>3, <1>4, <1>5, <1>6, <1>7 DEF WriterInv

\* The steps that only move a worker, the kick token or a context.
LEMMA MovePreserves ==
  ASSUME WriterInv,
         UNCHANGED <<bufferVars, runVars, wm>>,
         TypeOK',
         \A c \in Clients : pc'[c] = "released" => pc[c] = "released" \/ wm[c] <= flushedSeq
  PROVE  WriterInv'
  <1>1. CountersAgree' /\ BufferIsNewest' /\ BoundedMemory' /\ Contiguous'
    BY DEF WriterInv, CountersAgree, BufferIsNewest, BoundedMemory, Contiguous, bufferVars, runVars
  <1>2. NothingLost' /\ BatchState'
    <2>1. Elements(batch)' = Elements(batch) /\ Elements(rows)' = Elements(rows)
      BY DEF Elements, bufferVars, runVars
    <2> QED
      BY <2>1 DEF WriterInv, NothingLost, BatchState, InFlight, bufferVars, runVars
  <1>3. ReleasedIsCredited'
    BY DEF WriterInv, ReleasedIsCredited, bufferVars
  <1> QED
    BY <1>1, <1>2, <1>3 DEF WriterInv

\* The invariant is preserved by every step of the specification.
LEMMA NextPreserves == WriterInv /\ [Next]_vars => WriterInv'
  <1> SUFFICES ASSUME WriterInv, [Next]_vars PROVE WriterInv'
    OBVIOUS
  <1>0. TypeOK
    BY DEF WriterInv
  <1>1. ASSUME NEW c \in Clients, NEW n \in 1..MaxBatch, Add(c, n) PROVE WriterInv'
    <2>1. n \in Nat /\ n > 0
      BY WriterAssumption
    <2> QED
      BY <1>1, <2>1, AddPreserves
  <1>2. ASSUME NEW c \in Clients, KickFull(c) PROVE WriterInv'
    <2>1. UNCHANGED <<bufferVars, runVars, wm>> /\ TypeOK' /\ pc' = [pc EXCEPT ![c] = "added"]
      BY <1>0, <1>2 DEF KickFull, Goto, TypeOK, bufferVars, runVars, ctxVars
    <2> QED
      BY <2>1, <1>0, MovePreserves DEF TypeOK
  <1>3. ASSUME NEW c \in Clients, Release(c) PROVE WriterInv'
    <2>1. UNCHANGED <<bufferVars, runVars, wm>> /\ TypeOK' /\ pc' = [pc EXCEPT ![c] = "released"]
      BY <1>0, <1>3 DEF Release, Goto, TypeOK, bufferVars, runVars, ctxVars
    <2>2. wm[c] <= flushedSeq
      BY <1>0, <1>3 DEF Release, Handled, TypeOK
    <2>3. \A d \in Clients : pc'[d] = "released" => pc[d] = "released" \/ wm[d] <= flushedSeq
      BY <2>1, <2>2, <1>0 DEF TypeOK
    <2> QED
      BY <2>1, <2>3, MovePreserves
  <1>4. ASSUME NEW c \in Clients, Block(c) PROVE WriterInv'
    <2>1. UNCHANGED <<bufferVars, runVars, wm>> /\ TypeOK' /\ pc' = [pc EXCEPT ![c] = "blocked"]
      BY <1>0, <1>4 DEF Block, Goto, TypeOK, bufferVars, runVars, ctxVars
    <2> QED
      BY <2>1, <1>0, MovePreserves DEF TypeOK
  <1>5. ASSUME NEW c \in Clients, KickBlocked(c) PROVE WriterInv'
    <2>1. UNCHANGED <<bufferVars, runVars, wm>> /\ TypeOK' /\ pc' = [pc EXCEPT ![c] = "waiting"]
      BY <1>0, <1>5 DEF KickBlocked, Goto, TypeOK, bufferVars, runVars, ctxVars
    <2> QED
      BY <2>1, <1>0, MovePreserves DEF TypeOK
  <1>6. ASSUME NEW c \in Clients, Wake(c) PROVE WriterInv'
    <2>1. UNCHANGED <<bufferVars, runVars, wm>> /\ TypeOK' /\ pc' = [pc EXCEPT ![c] = "added"]
      BY <1>0, <1>6 DEF Wake, Goto, TypeOK, bufferVars, runVars, ctxVars
    <2> QED
      BY <2>1, <1>0, MovePreserves DEF TypeOK
  <1>7. ASSUME NEW c \in Clients, Return(c) PROVE WriterInv'
    <2>1. /\ UNCHANGED <<bufferVars, runVars, wm>> /\ TypeOK'
          /\ pc' \in {[pc EXCEPT ![c] = "idle"], [pc EXCEPT ![c] = "gone"]}
      BY <1>0, <1>7 DEF Return, Onward, Goto, TypeOK, bufferVars, runVars, ctxVars
    <2> QED
      BY <2>1, <1>0, MovePreserves DEF TypeOK
  <1>8. ASSUME NEW c \in Clients, GiveUp(c) PROVE WriterInv'
    <2>1. UNCHANGED <<bufferVars, runVars, wm>> /\ TypeOK' /\ pc' = [pc EXCEPT ![c] = "gone"]
      BY <1>0, <1>8 DEF GiveUp, Goto, TypeOK, bufferVars, runVars, ctxVars
    <2> QED
      BY <2>1, <1>0, MovePreserves DEF TypeOK
  <1>9. CASE FlushOnTick
    BY <1>9, <1>0, TakePreserves DEF FlushOnTick, TypeOK
  <1>10. CASE FlushOnKick
    BY <1>10, TakePreserves DEF FlushOnKick
  <1>11. CASE FlushOnDone
    BY <1>11, <1>0, TakePreserves DEF FlushOnDone, TypeOK
  <1>12. CASE InsertOk \/ InsertFails
    BY <1>12, InsertPreserves
  <1>13. CASE Ack
    BY <1>13, AckPreserves
  <1>14. CASE Requeue
    BY <1>14, RequeuePreserves
  <1>15. CASE Cancel \/ Stop
    <2>1. UNCHANGED <<bufferVars, runVars, wm>> /\ TypeOK' /\ pc' = pc
      BY <1>0, <1>15 DEF Cancel, Stop, TypeOK, bufferVars, runVars, clientVars
    <2> QED
      BY <2>1, MovePreserves
  <1>16. CASE UNCHANGED vars
    <2>1. UNCHANGED <<bufferVars, runVars, wm>> /\ TypeOK' /\ pc' = pc
      BY <1>0, <1>16 DEF vars, TypeOK, bufferVars, runVars, clientVars, ctxVars
    <2> QED
      BY <2>1, MovePreserves
  <1> QED
    BY <1>1, <1>2, <1>3, <1>4, <1>5, <1>6, <1>7, <1>8, <1>9, <1>10, <1>11, <1>12,
       <1>13, <1>14, <1>15, <1>16 DEF Next, Run, Proceed

\* WriterInv holds in every reachable state: types, the counters of
\* advanceLocked's callers, FIFO order through requeues, the cap, and no row
\* lost, whatever ClickHouse answers (chwriter.go: Add, flush).
THEOREM WriterInvariant == Spec => []WriterInv
  <1>1. Init => WriterInv
    BY InitEstablishes
  <1>2. WriterInv /\ [Next]_vars => WriterInv'
    BY NextPreserves
  <1> QED
    BY <1>1, <1>2, PTL DEF Spec

\* The counter pair of the code accounts for every row (Add, flush and
\* dropOverflowLocked move it together with the buffer).
THEOREM CountersAlwaysAgree == Spec => []CountersAgree
  <1>1. WriterInv => CountersAgree
    BY DEF WriterInv
  <1> QED
    BY <1>1, WriterInvariant, PTL

\* Every variable keeps its type, the counters included (Add, flush).
THEOREM WriterTypes == Spec => []TypeOK
  <1>1. WriterInv => TypeOK
    BY DEF WriterInv
  <1> QED
    BY <1>1, WriterInvariant, PTL

\* The buffer stays FIFO through requeues and drops (flush,
\* dropOverflowLocked).
THEOREM BufferStaysFifo == Spec => []BufferIsNewest
  <1>1. WriterInv => BufferIsNewest
    BY DEF WriterInv
  <1> QED
    BY <1>1, WriterInvariant, PTL

\* The buffer and the batch never exceed the cap (dropOverflowLocked).
THEOREM MemoryStaysBounded == Spec => []BoundedMemory
  <1>1. WriterInv => BoundedMemory
    BY DEF WriterInv
  <1> QED
    BY <1>1, WriterInvariant, PTL

\* No enqueued row vanishes through failed flushes and overflows (flush,
\* dropOverflowLocked).
THEOREM NothingIsLost == Spec => []NothingLost
  <1>1. WriterInv => NothingLost
    BY DEF WriterInv
  <1> QED
    BY <1>1, WriterInvariant, PTL

\* The rows up to a credited watermark have left the buffer, and only an
\* overflow lets them be in flight rather than stored.
LEMMA CreditedRows ==
  ASSUME WriterInv, NEW k \in Nat, k >= 1, k <= flushedSeq
  PROVE  /\ k \in durable \cup dropped \cup Elements(batch)
         /\ dropped = {} => k \in durable
  <1>0. /\ enqSeq \in Nat /\ flushedSeq \in Nat
        /\ Len(rows) \in Nat /\ Len(batch) \in Nat
        /\ flushedSeq + Len(batch) + Len(rows) = enqSeq
    BY DEF WriterInv, TypeOK, CountersAgree
  <1>1. k \in durable \cup dropped \cup Elements(batch) \cup Elements(rows)
    <2>1. k \in 1..enqSeq
      BY <1>0
    <2> QED
      BY <2>1 DEF WriterInv, NothingLost
  <1>2. k \notin Elements(rows)
    <2>1. ASSUME NEW i \in 1..Len(rows) PROVE rows[i] # k
      <3>1. rows[i] = enqSeq - Len(rows) + i
        BY DEF WriterInv, BufferIsNewest
      <3> QED
        BY <3>1, <1>0
    <2> QED
      BY <2>1 DEF Elements
  <1>3. ASSUME dropped = {} PROVE k \notin Elements(batch)
    <2>1. \A i \in 1..Len(batch) : batch[i] = flushedSeq + i
      BY <1>3 DEF WriterInv, Contiguous
    <2>2. ASSUME NEW i \in 1..Len(batch) PROVE batch[i] # k
      <3>1. batch[i] = flushedSeq + i /\ i >= 1 /\ i \in Nat
        BY <2>1, <1>0
      <3> QED
        BY <3>1, <1>0
    <2> QED
      BY <2>2 DEF Elements
  <1> QED
    BY <1>1, <1>2, <1>3

\* What WaitFlushed guarantees in general: the caller's rows are stored,
\* dropped or in the insert in flight (WaitFlushed, advanceLocked).
THEOREM ReleasedRowsLeftTheBuffer == Spec => []ReleasedNotBuffered
  <1>1. WriterInv => ReleasedNotBuffered
    <2> SUFFICES ASSUME WriterInv, NEW c \in Clients, pc[c] = "released", NEW k \in 1..wm[c]
                 PROVE  k \in durable \cup dropped \cup Elements(batch)
      BY DEF ReleasedNotBuffered
    <2>1. wm[c] \in Nat /\ flushedSeq \in Nat /\ wm[c] <= flushedSeq
      BY DEF WriterInv, TypeOK, ReleasedIsCredited
    <2>2. k \in Nat /\ k >= 1 /\ k <= flushedSeq
      BY <2>1
    <2> QED
      BY <2>2, CreditedRows
  <1> QED
    BY <1>1, WriterInvariant, PTL

\* What WaitFlushed guarantees below the cap: every row up to the watermark
\* is stored before the worker saves its cursor (WaitFlushed, flush).
THEOREM ReleasedRowsAreDurable == Spec => []ReleasedIsDurable
  <1>1. WriterInv => ReleasedIsDurable
    <2> SUFFICES ASSUME WriterInv, dropped = {}, NEW c \in Clients, pc[c] = "released",
                        NEW k \in 1..wm[c]
                 PROVE  k \in durable
      BY DEF ReleasedIsDurable
    <2>1. wm[c] \in Nat /\ flushedSeq \in Nat /\ wm[c] <= flushedSeq
      BY DEF WriterInv, TypeOK, ReleasedIsCredited
    <2>2. k \in Nat /\ k >= 1 /\ k <= flushedSeq
      BY <2>1
    <2> QED
      BY <2>2, CreditedRows
  <1> QED
    BY <1>1, WriterInvariant, PTL

-----------------------------------------------------------------------------
(* Shutdown: the order of cmd/ingestd/main.go makes the last drain final.  *)

\* The writer's context ends after the workers have left, and only a drain
\* started under a cancelled context ends the Run goroutine.
ShutdownInv ==
  /\ stop => cancelled /\ \A c \in Clients : pc[c] = "gone"
  /\ run \in {"insert", "ack", "requeue"} /\ draining => stop
  /\ run = "stopped" => stop

\* No row is added to a stopped writer (main.go: wg.Wait before chStop).
THEOREM NoRowAfterTheDrain == Spec => []NoRowAfterDrain
  <1>1. Init => ShutdownInv
    BY DEF Init, ShutdownInv
  <1>2. TypeOK /\ ShutdownInv /\ [Next]_vars => ShutdownInv'
    <2> SUFFICES ASSUME TypeOK, ShutdownInv, [Next]_vars PROVE ShutdownInv'
      OBVIOUS
    <2> USE DEF ShutdownInv
    <2>1. ASSUME NEW c \in Clients, NEW n \in 1..MaxBatch, Add(c, n) PROVE ShutdownInv'
      BY <2>1 DEF Add, Goto, runVars, ctxVars
    <2>2. ASSUME NEW c \in Clients, KickFull(c) \/ Release(c) \/ Block(c) \/ KickBlocked(c) \/ Wake(c)
          PROVE  ShutdownInv'
      BY <2>2 DEF KickFull, Release, Block, KickBlocked, Wake, Goto, runVars, ctxVars
    <2>3. ASSUME NEW c \in Clients, Return(c) \/ GiveUp(c) PROVE ShutdownInv'
      BY <2>3 DEF Return, GiveUp, Goto, runVars, ctxVars, TypeOK
    <2>4. CASE FlushOnTick \/ FlushOnKick
      BY <2>4 DEF FlushOnTick, FlushOnKick, Take, Resume, clientVars, ctxVars
    <2>5. CASE FlushOnDone
      BY <2>5 DEF FlushOnDone, Take, Resume, clientVars, ctxVars
    <2>6. CASE InsertOk \/ InsertFails
      BY <2>6 DEF InsertOk, InsertFails, clientVars, ctxVars
    <2>7. CASE Ack \/ Requeue
      BY <2>7 DEF Ack, Requeue, Resume, clientVars, ctxVars
    <2>8. CASE Cancel
      BY <2>8 DEF Cancel, runVars, clientVars
    <2>9. CASE Stop
      BY <2>9 DEF Stop, WorkersDone, runVars, clientVars
    <2>10. CASE UNCHANGED vars
      BY <2>10 DEF vars, runVars, clientVars, ctxVars
    <2> QED
      BY <2>1, <2>2, <2>3, <2>4, <2>5, <2>6, <2>7, <2>8, <2>9, <2>10 DEF Next, Run, Proceed
  <1>3. ShutdownInv => NoRowAfterDrain
    BY DEF ShutdownInv, NoRowAfterDrain
  <1>4. WriterInv => TypeOK
    BY DEF WriterInv
  <1> QED
    BY <1>1, <1>2, <1>3, <1>4, WriterInvariant, PTL DEF Spec
=============================================================================
