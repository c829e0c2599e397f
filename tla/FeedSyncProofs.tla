--------------------------- MODULE FeedSyncProofs ---------------------------
(***************************************************************************)
(* Proofs about FeedSync, for any buffer, page and number of products,     *)
(* through any ticks, restarts, crashes and failed saves.                  *)
(*                                                                         *)
(* The change feed: Since answers exactly, as the buffer is the end of the *)
(* history and the history is numbered without a gap (StreamInv).          *)
(*                                                                         *)
(* The worker, when the feed rests while it builds a catalog page: what a  *)
(* position claims is stored (SyncInv).  Without rest an item may bear a   *)
(* time later than its state, and its upsert wins over the update that the *)
(* position has passed.                                                    *)
(*                                                                         *)
(* The states, when a tick emits one update as well: all that bears a      *)
(* time bears the state its product had then (FaithInv), so that a later   *)
(* time is never an older state, and an empty backlog is the present.      *)
(***************************************************************************)
EXTENDS FeedSync, NaturalsInduction, WellFoundedInduction, TLAPS

\* The types of what Since reads.
HistoryTypes ==
  /\ buf \in Seq(Update) /\ log \in Seq(Update)
  /\ made \in Nat /\ clock \in Nat

\* Updates are numbered from one, and nextSeq is the next number.
Numbered == nextSeq = Len(log) + 1 /\ \A i \in 1..Len(log) : log[i].seq = i

StreamInv == HistoryTypes /\ Numbered /\ BufferIsSuffix

-----------------------------------------------------------------------------
(* Sequences.                                                              *)

\* Concatenation keeps the numbers of the first part and shifts those of
\* the second.
LEMMA Appended ==
  ASSUME NEW s \in Seq(Update), NEW t \in Seq(Update)
  PROVE  /\ s \o t \in Seq(Update) /\ Len(s \o t) = Len(s) + Len(t)
         /\ \A i \in 1..Len(s) : (s \o t)[i] = s[i]
         /\ \A i \in Len(s) + 1..Len(s) + Len(t) : (s \o t)[i] = t[i - Len(s)]
  OBVIOUS

\* The cap keeps the newest entries.
LEMMA Trimmed ==
  ASSUME NEW g \in Seq(Update)
  PROVE  /\ TrimToCap(g) \in Seq(Update)
         /\ Len(TrimToCap(g)) = Smaller(Len(g), MaxBuffered)
         /\ \A i \in 1..Len(TrimToCap(g)) : TrimToCap(g)[i] = g[Len(g) - Len(TrimToCap(g)) + i]
  <1>0. MaxBuffered \in Nat /\ MaxBuffered > 0 /\ Len(g) \in Nat
    BY StreamAssumption
  <1>1. CASE Len(g) <= MaxBuffered
    <2>1. TrimToCap(g) = g /\ Smaller(Len(g), MaxBuffered) = Len(g)
      BY <1>0, <1>1 DEF TrimToCap, Smaller
    <2>2. \A i \in 1..Len(g) : Len(g) - Len(g) + i = i
      BY <1>0
    <2> QED
      BY <2>1, <2>2
  <1>2. CASE Len(g) > MaxBuffered
    <2> DEFINE k == Len(g) - MaxBuffered
    <2>1. k \in Nat /\ k + 1 \in 1..Len(g) /\ Len(g) - k = MaxBuffered
      BY <1>0, <1>2
    <2>2. /\ SubSeq(g, k + 1, Len(g)) \in Seq(Update)
          /\ Len(SubSeq(g, k + 1, Len(g))) = Len(g) - k
          /\ \A i \in 1..Len(g) - k : SubSeq(g, k + 1, Len(g))[i] = g[k + i]
      BY <2>1
    <2>3. TrimToCap(g) = SubSeq(g, k + 1, Len(g)) /\ Smaller(Len(g), MaxBuffered) = MaxBuffered
      BY <1>0, <1>2 DEF TrimToCap, Smaller
    <2> HIDE DEF k
    <2> QED
      BY <2>1, <2>2, <2>3
  <1> QED
    BY <1>0, <1>1, <1>2

\* Two sequences of one length with the same entries are one.
LEMMA SameSequence ==
  ASSUME NEW s \in Seq(Update), NEW t \in Seq(Update), Len(s) = Len(t),
         \A i \in 1..Len(s) : s[i] = t[i]
  PROVE  s = t
  OBVIOUS

-----------------------------------------------------------------------------
(* The invariant.                                                          *)

\* An instance that has just started has an empty history.
LEMMA InitEstablishes == StreamInit => StreamInv
  BY StreamAssumption DEF StreamInit, StreamInv, HistoryTypes, Numbered, BufferIsSuffix, Smaller

\* A tick appends to the history and to the buffer alike.
LEMMA TickPreserves ==
  ASSUME StreamInv, NEW picks \in Picks, Tick(picks)
  PROVE  StreamInv'
  <1> DEFINE u == Updates(picks)
             g == buf \o u
  <1>0. /\ buf \in Seq(Update) /\ log \in Seq(Update) /\ Len(buf) \in Nat /\ Len(log) \in Nat
        /\ made \in Nat /\ clock \in Nat /\ nextSeq = Len(log) + 1 /\ nextSeq \in Nat
        /\ \A i \in 1..Len(log) : log[i].seq = i
        /\ Len(buf) = Smaller(Len(log), MaxBuffered)
        /\ \A i \in 1..Len(buf) : buf[i] = log[Len(log) - Len(buf) + i]
        /\ MaxBuffered \in Nat
    BY StreamAssumption DEF StreamInv, HistoryTypes, Numbered, BufferIsSuffix
  <1>1. PICK n \in Nat : picks \in [1..n -> Carried]
    BY StreamAssumption DEF Picks
  <1>2. Len(picks) = n
    BY <1>1
  <1>3. /\ u \in Seq(Update) /\ Len(u) = n
        /\ \A i \in 1..n : u[i].seq = Len(log) + i
    <2>1. u = [i \in 1..n |-> [seq |-> nextSeq + i - 1, product |-> picks[i], value |-> made + i,
                               at |-> 2 * (clock + 1)]]
      <3>1. u = [i \in 1..Len(picks) |-> [seq |-> nextSeq + i - 1, product |-> picks[i],
                                          value |-> made + i, at |-> 2 * (clock + 1)]]
        BY Zenon DEF Updates
      <3> HIDE DEF u
      <3> QED
        BY <3>1, <1>2
    <2>2. ASSUME NEW i \in 1..n
          PROVE  /\ nextSeq + i - 1 = Len(log) + i /\ nextSeq + i - 1 \in Nat \ {0}
                 /\ picks[i] \in Carried /\ made + i \in Nat /\ 2 * (clock + 1) \in Nat
      <3>1. picks[i] \in Carried
        BY <1>1
      <3>2. /\ i \in Nat /\ i > 0 /\ nextSeq \in Nat /\ Len(log) \in Nat /\ nextSeq = Len(log) + 1
            /\ made \in Nat /\ clock \in Nat
        BY <1>0, <1>1
      <3>3. /\ nextSeq + i - 1 = Len(log) + i /\ nextSeq + i - 1 \in Nat \ {0}
            /\ made + i \in Nat /\ 2 * (clock + 1) \in Nat
        BY <3>2
      <3> QED
        BY <3>1, <3>3
    <2> HIDE DEF u
    <2>3. ASSUME NEW i \in 1..n PROVE u[i] \in Update /\ u[i].seq = Len(log) + i
      <3>1. u[i] = [seq |-> nextSeq + i - 1, product |-> picks[i], value |-> made + i, at |-> 2 * (clock + 1)]
        BY <2>1
      <3> QED
        BY <3>1, <2>2 DEF Update
    <2>4. u = [i \in 1..n |-> u[i]]
      BY <2>1
    <2> QED
      BY <2>3, <2>4, <1>1
  <1>4. /\ buf' = TrimToCap(g) /\ log' = log \o u /\ nextSeq' = nextSeq + n
        /\ made' = made + n /\ clock' = clock + 1
    BY <1>2 DEF Tick
  <1> HIDE DEF u
  <1>5. /\ log' \in Seq(Update) /\ Len(log') = Len(log) + n
        /\ \A i \in 1..Len(log) : log'[i] = log[i]
        /\ \A i \in Len(log) + 1..Len(log) + n : log'[i] = u[i - Len(log)]
    BY <1>0, <1>3, <1>4, Appended
  <1>6. /\ g \in Seq(Update) /\ Len(g) = Len(buf) + n
        /\ \A i \in 1..Len(buf) : g[i] = buf[i]
        /\ \A i \in Len(buf) + 1..Len(buf) + n : g[i] = u[i - Len(buf)]
    BY <1>0, <1>3, Appended
  <1> HIDE DEF g
  <1>7. /\ buf' \in Seq(Update) /\ Len(buf') = Smaller(Len(g), MaxBuffered)
        /\ \A i \in 1..Len(buf') : buf'[i] = g[Len(g) - Len(buf') + i]
    BY <1>4, <1>6, Trimmed
  <1>8. Len(buf) <= Len(log)
    BY <1>0 DEF Smaller
  <1>9. \A i \in 1..Len(g) : g[i] = log'[Len(log) - Len(buf) + i]
    <2> SUFFICES ASSUME NEW i \in 1..Len(g) PROVE g[i] = log'[Len(log) - Len(buf) + i]
      OBVIOUS
    <2>1. CASE i <= Len(buf)
      <3>1. Len(log) - Len(buf) + i \in 1..Len(log) /\ i \in 1..Len(buf)
        BY <2>1, <1>0, <1>8
      <3> QED
        BY <3>1, <1>0, <1>5, <1>6
    <2>2. CASE i > Len(buf)
      <3> DEFINE j == Len(log) - Len(buf) + i
      <3>1. /\ i \in Len(buf) + 1..Len(buf) + n /\ j \in Len(log) + 1..Len(log) + n
            /\ j - Len(log) = i - Len(buf)
        BY <2>2, <1>0, <1>1, <1>6, <1>8, SMTT(30)
      <3> HIDE DEF j
      <3>2. g[i] = u[i - Len(buf)] /\ log'[j] = u[j - Len(log)]
        BY <3>1, <1>5, <1>6
      <3> QED
        BY <3>1, <3>2 DEF j
    <2> QED
      BY <2>1, <2>2, <1>0
  <1>10. BufferIsSuffix'
    <2>1. Len(buf') = Smaller(Len(log'), MaxBuffered)
      BY <1>0, <1>1, <1>5, <1>6, <1>7 DEF Smaller
    <2>2. ASSUME NEW i \in 1..Len(buf') PROVE buf'[i] = log'[Len(log') - Len(buf') + i]
      <3>1. /\ Len(buf') \in Nat /\ Len(buf') <= Len(g) /\ Len(g) \in Nat
        BY <1>0, <1>1, <1>6, <1>7 DEF Smaller
      <3>2. Len(g) - Len(buf') + i \in 1..Len(g)
        BY <3>1
      <3>3. buf'[i] = log'[Len(log) - Len(buf) + (Len(g) - Len(buf') + i)]
        BY <3>2, <1>7, <1>9
      <3>4. Len(log) - Len(buf) + (Len(g) - Len(buf') + i) = Len(log') - Len(buf') + i
        BY <3>1, <1>0, <1>1, <1>5, <1>6, SMTT(20)
      <3> QED
        BY <3>3, <3>4
    <2> QED
      BY <2>1, <2>2 DEF BufferIsSuffix
  <1>11. Numbered'
    <2>1. nextSeq' = Len(log') + 1
      BY <1>0, <1>1, <1>4, <1>5
    <2>2. ASSUME NEW i \in 1..Len(log') PROVE log'[i].seq = i
      <3>1. CASE i <= Len(log)
        <4>1. i \in 1..Len(log)
          BY <3>1, <1>0
        <4> QED
          BY <4>1, <1>0, <1>5
      <3>2. CASE i > Len(log)
        <4>1. i \in Len(log) + 1..Len(log) + n /\ i - Len(log) \in 1..n
          BY <3>2, <1>0, <1>1, <1>5
        <4>2. u[i - Len(log)].seq = Len(log) + (i - Len(log))
          BY <4>1, <1>3
        <4> QED
          BY <4>1, <4>2, <1>0, <1>5
      <3> QED
        BY <3>1, <3>2, <1>0, <1>5
    <2> QED
      BY <2>1, <2>2 DEF Numbered
  <1>12. HistoryTypes'
    BY <1>0, <1>1, <1>4, <1>5, <1>7 DEF HistoryTypes
  <1> QED
    BY <1>10, <1>11, <1>12 DEF StreamInv

\* Every step of the stream preserves the invariant.
LEMMA StreamPreserves == StreamInv /\ [StreamNext]_streamVars => StreamInv'
  <1> SUFFICES ASSUME StreamInv, [StreamNext]_streamVars PROVE StreamInv'
    OBVIOUS
  <1>1. ASSUME NEW picks \in Picks, Tick(picks) PROVE StreamInv'
    BY <1>1, TickPreserves
  <1>2. CASE UNCHANGED <<buf, log, nextSeq, clock, made>>
    BY <1>2 DEF StreamInv, HistoryTypes, Numbered, BufferIsSuffix
  <1>3. CASE Restart
    <2>1. /\ buf' = <<>> /\ nextSeq' = 1 /\ log' = <<>> /\ made' = made + 1 /\ clock' = clock + 1
      BY <1>3 DEF Restart
    <2>2. HistoryTypes'
      BY <2>1 DEF StreamInv, HistoryTypes
    <2>3. Numbered' /\ BufferIsSuffix'
      BY <2>1, StreamAssumption DEF Numbered, BufferIsSuffix, Smaller
    <2> QED
      BY <2>2, <2>3 DEF StreamInv
  <1> QED
    BY <1>1, <1>2, <1>3 DEF StreamNext, SetDead, streamVars

\* Worker, server and crashes leave the stream alone or take its steps.
LEMMA NextIsStreamNext == [Next]_vars => [StreamNext]_streamVars
  <1> SUFFICES ASSUME [Next]_vars PROVE [StreamNext]_streamVars
    OBVIOUS
  <1>1. CASE Serve
    BY <1>1 DEF Serve, RequestCatalog, SkipUncarried, Read, StampItem, RespondCatalog, RequestOffers,
       OffersGone, Resync
  <1>2. CASE Worker \/ RequestFails \/ CrashRestart
    BY <1>2 DEF Worker, HandleCatalog, HandleOffers, Advance, Poll, Process, Resync, RequestFails,
       CrashRestart
  <1>3. CASE FeedTicks \/ FeedStatus \/ FeedRestarts
    BY <1>3 DEF FeedTicks, FeedStatus, FeedRestarts, StreamNext
  <1>4. CASE UNCHANGED vars
    BY <1>4 DEF vars
  <1> QED
    BY <1>1, <1>2, <1>3, <1>4 DEF Next

-----------------------------------------------------------------------------
\* The feed, whatever the worker does, is a FeedStream whose buffer is the
\* end of its numbered history (stream.go: Tick, Since).
THEOREM StreamInvariant == Spec => []StreamInv
  <1>1. Init => StreamInv
    BY InitEstablishes DEF Init
  <1>2. StreamInv /\ [Next]_vars => StreamInv'
    BY StreamPreserves, NextIsStreamNext
  <1> QED
    BY <1>1, <1>2, PTL DEF Spec

\* Since is exact for one cursor and limit.
LEMMA ExactAtCursor ==
  ASSUME StreamInv, NEW since \in Nat, NEW limit \in Nat, limit > 0
  PROVE  ExactAt(since, limit)
  <1> DEFINE off == Len(log) - Len(buf)
             s == since - off
             last == Smaller(since + limit, Len(log))
  <1>0. /\ buf \in Seq(Update) /\ log \in Seq(Update) /\ Len(buf) \in Nat /\ Len(log) \in Nat
        /\ off \in Nat /\ MaxBuffered \in Nat /\ MaxBuffered > 0
        /\ nextSeq = Len(log) + 1
        /\ Len(buf) = 0 => Len(log) = 0
    BY StreamAssumption DEF StreamInv, HistoryTypes, Numbered, BufferIsSuffix, Smaller
  <1>1. ASSUME NEW i \in 1..Len(buf)
        PROVE  buf[i] = log[off + i] /\ buf[i].seq = off + i /\ off + i \in 1..Len(log)
    <2>1. buf[i] = log[off + i] /\ off + i \in 1..Len(log)
      BY <1>0 DEF StreamInv, BufferIsSuffix
    <2> HIDE DEF off
    <2> QED
      BY <2>1 DEF StreamInv, Numbered
  <1>2. Gone(since) <=> since > Len(log) \/ since < off
    <2>1. CASE buf = <<>>
      BY <2>1, <1>0 DEF Gone
    <2>2. CASE buf # <<>>
      <3>1. Len(buf) >= 1
        BY <2>2, <1>0
      <3>2. buf[1].seq = off + 1
        BY <3>1, <1>0, <1>1
      <3> QED
        BY <2>2, <3>2, <1>0 DEF Gone
    <2> QED
      BY <2>1, <2>2
  <1>3. ASSUME ~Gone(since)
        PROVE  /\ Window(since, limit) = SubSeq(log, since + 1, last)
               /\ HasMore(since, limit) <=> last < Len(log)
    <2>1. s \in 0..Len(buf) /\ since <= Len(log) /\ since = off + s
      BY <1>0, <1>2, <1>3
    <2> HIDE DEF off, s
    <2>2. Start(since) = s
      <3>1. /\ \A i \in s + 1..Len(buf) : buf[i].seq > since
            /\ s > 0 => buf[s].seq <= since
        BY <2>1, <1>0, <1>1
      <3>2. ASSUME NEW r \in 0..Len(buf),
                   \A i \in r + 1..Len(buf) : buf[i].seq > since,
                   r > 0 => buf[r].seq <= since
            PROVE  r = s
        <4>1. CASE r > s
          <5>1. buf[r].seq = off + r /\ r > 0
            BY <4>1, <2>1, <1>0, <1>1
          <5> QED
            BY <4>1, <5>1, <3>2, <2>1, <1>0
        <4>2. CASE r < s
          <5>1. r + 1 \in 1..Len(buf) /\ r + 1 \in r + 1..Len(buf)
            BY <4>2, <2>1, <1>0
          <5>2. buf[r + 1].seq = off + (r + 1)
            BY <5>1, <1>1
          <5> QED
            BY <4>2, <5>1, <5>2, <3>2, <2>1, <1>0
        <4> QED
          BY <4>1, <4>2, <2>1, <1>0
      <3> QED
        BY <3>1, <3>2, <2>1 DEF Start
    <2> DEFINE e == End(since, limit)
    <2>3. e = Smaller(s + limit, Len(buf))
      BY <2>2 DEF End
    <2>4. e \in s..Len(buf) /\ last = off + e /\ last \in since..Len(log) /\ Len(log) = off + Len(buf)
      BY <2>1, <2>3, <1>0 DEF Smaller, off
    <2>5. HasMore(since, limit) <=> last < Len(log)
      BY <2>4, <1>0, <2>1 DEF HasMore
    <2> HIDE DEF e, last
    <2>6. /\ SubSeq(buf, s + 1, e) \in Seq(Update) /\ Len(SubSeq(buf, s + 1, e)) = e - s
          /\ \A i \in 1..e - s : SubSeq(buf, s + 1, e)[i] = buf[s + i]
      BY <2>1, <2>4, <1>0
    <2>7. /\ SubSeq(log, since + 1, last) \in Seq(Update)
          /\ Len(SubSeq(log, since + 1, last)) = last - since
          /\ \A i \in 1..last - since : SubSeq(log, since + 1, last)[i] = log[since + i]
      BY <2>1, <2>4, <1>0
    <2>8. last - since = e - s
      BY <2>1, <2>4, <1>0
    <2>9. ASSUME NEW i \in 1..e - s PROVE buf[s + i] = log[since + i]
      <3>1. s + i \in 1..Len(buf) /\ off + (s + i) = since + i
        BY <2>1, <2>4, <1>0
      <3> QED
        BY <3>1, <1>1
    <2>10. SubSeq(buf, s + 1, e) = SubSeq(log, since + 1, last)
      BY <2>6, <2>7, <2>8, <2>9, SameSequence
    <2> QED
      BY <2>2, <2>5, <2>10 DEF Window, e
  <1> QED
    BY <1>2, <1>3 DEF ExactAt

\* The change feed answers exactly at every cursor: what follows it in the
\* history, or 410 when that is not buffered (stream.go:141-160).
THEOREM ChangeFeedIsExact == Spec => []SinceIsExact
  <1>1. StreamInv => SinceIsExact
    <2> SUFFICES ASSUME StreamInv, NEW since \in 0..MaxUpdates + 1, NEW limit \in 1..MaxUpdates
                 PROVE  ExactAt(since, limit)
      BY DEF SinceIsExact
    <2>1. since \in Nat /\ limit \in Nat /\ limit > 0
      BY StreamAssumption
    <2> QED
      BY <2>1, ExactAtCursor
  <1> QED
    BY <1>1, StreamInvariant, PTL

-----------------------------------------------------------------------------
(* What a position claims.                                                 *)

\* An item of /catalog has no sequence number, an update has one.
Item == Update \cup [product : Carried, value : Nat, at : Nat]
Row == [value : Nat, at : Nat, stored : BOOLEAN]
Cursor == [phase : {"catalog", "offers"}, epoch : Nat, cat : 0..Size, seq : Nat]

\* The sync has been at product p when it is at position c.
Passed(c, p) == c.phase = "catalog" => p < c.cat

\* Covers, of a history and rows of one's choice, with what a position must
\* be like for it to be kept: it names no epoch to come, and no update of
\* this one that is not made yet.
ClaimIn(c, e, history, rows) ==
  /\ c \in Cursor /\ c.epoch <= e
  /\ c.epoch = e =>
       /\ c.seq <= Len(history)
       /\ \A i \in 1..Len(history) :
            i <= c.seq /\ Passed(c, history[i].product) => rows[history[i].product].at >= history[i].at

Claim(c) == ClaimIn(c, epoch, log, offers)

\* Where Advance takes the position.
AdvancedTo(c, next) ==
  IF c.phase = "offers" THEN [c EXCEPT !.seq = next]
  ELSE IF next >= Size THEN [c EXCEPT !.phase = "offers", !.cat = 0]
  ELSE [c EXCEPT !.cat = next]

Advanced == AdvancedTo(cs, page.next)

LEMMA IndexesAreNat == \A p \in Carried : p \in Nat /\ p < Size /\ p \in 0..Size
  BY StreamAssumption

\* A claim survives new updates and newer rows.
LEMMA ClaimKept ==
  ASSUME NEW c, NEW e \in Nat, NEW h \in Seq(Update), NEW g \in Seq(Update),
         NEW old \in [Carried -> Row], NEW new \in [Carried -> Row],
         ClaimIn(c, e, h, old),
         Len(h) <= Len(g), \A i \in 1..Len(h) : g[i] = h[i],
         \A p \in Carried : old[p].at <= new[p].at
  PROVE  ClaimIn(c, e, g, new)
  <1>1. c \in Cursor /\ c.epoch <= e /\ Len(h) \in Nat /\ Len(g) \in Nat
    BY DEF ClaimIn
  <1>2. ASSUME c.epoch = e
        PROVE  /\ c.seq <= Len(g)
               /\ \A i \in 1..Len(g) : i <= c.seq /\ Passed(c, g[i].product)
                                         => new[g[i].product].at >= g[i].at
    <2>1. c.seq \in Nat /\ c.seq <= Len(h)
      BY <1>1, <1>2 DEF ClaimIn, Cursor
    <2>2. ASSUME NEW i \in 1..Len(g), i <= c.seq, Passed(c, g[i].product)
          PROVE  new[g[i].product].at >= g[i].at
      <3>1. i \in 1..Len(h)
        BY <1>1, <2>1, <2>2
      <3>2. g[i] = h[i] /\ h[i].product \in Carried /\ h[i].at \in Nat
        <4>1. h[i] \in Update
          BY <3>1
        <4> QED
          BY <3>1, <4>1 DEF Update
      <3>3. old[h[i].product].at >= h[i].at
        BY <1>2, <2>2, <3>1, <3>2 DEF ClaimIn
      <3>4. old[h[i].product].at \in Nat /\ new[h[i].product].at \in Nat
        BY <3>2 DEF Row
      <3> QED
        BY <3>2, <3>3, <3>4, SMTT(20)
    <2> QED
      BY <1>1, <2>1, <2>2
  <1> QED
    BY <1>1, <1>2 DEF ClaimIn

\* A position of an earlier instance, and the fresh one, claim nothing.
LEMMA OutdatedClaims ==
  ASSUME NEW c \in Cursor, NEW e \in Nat, NEW h, NEW rows, c.epoch < e
  PROVE  ClaimIn(c, e, h, rows)
  BY DEF ClaimIn, Cursor

LEMMA FreshIsCursor == Fresh \in Cursor /\ Fresh.epoch = 0
  BY StreamAssumption DEF Fresh, Cursor

\* What is read back says the same of every product.
LEMMA ReadBack ==
  ASSUME NEW c \in Cursor
  PROVE  /\ Parse(Encode(c)) \in Cursor
         /\ Parse(Encode(c)).epoch = c.epoch /\ Parse(Encode(c)).seq = c.seq
         /\ \A p : Passed(Parse(Encode(c)), p) <=> Passed(c, p)
  <1>1. CASE c.phase = "catalog"
    <2>1. Parse(Encode(c)) = [phase |-> "catalog", epoch |-> c.epoch, cat |-> c.cat, seq |-> c.seq]
      BY <1>1 DEF Encode, Parse
    <2> QED
      BY <1>1, <2>1 DEF Cursor, Passed
  <1>2. CASE c.phase = "offers"
    <2>1. Parse(Encode(c)) = [phase |-> "offers", epoch |-> c.epoch, cat |-> 0, seq |-> c.seq]
      BY <1>2 DEF Encode, Parse
    <2> QED
      BY <1>2, <2>1, StreamAssumption DEF Cursor, Passed
  <1> QED
    BY <1>1, <1>2 DEF Cursor

\* The position after a page has passed what the page made up for.
LEMMA Advances ==
  ASSUME NEW c \in Cursor, NEW next \in Nat
  PROVE  /\ AdvancedTo(c, next) \in Cursor /\ AdvancedTo(c, next).epoch = c.epoch
         /\ c.phase = "offers" => AdvancedTo(c, next).phase = "offers" /\ AdvancedTo(c, next).seq = next
         /\ c.phase = "catalog" =>
              /\ AdvancedTo(c, next).seq = c.seq
              /\ \A p \in Carried : Passed(AdvancedTo(c, next), p) <=> p < next
  <1>0. Size \in Nat /\ Carried \subseteq 0..Size-1
    BY StreamAssumption
  <1>1. CASE c.phase = "offers"
    <2>1. AdvancedTo(c, next) = [c EXCEPT !.seq = next]
      BY <1>1 DEF AdvancedTo
    <2> QED
      BY <1>1, <2>1 DEF Cursor
  <1>2. CASE c.phase = "catalog" /\ next >= Size
    <2>1. AdvancedTo(c, next) = [c EXCEPT !.phase = "offers", !.cat = 0]
      BY <1>2 DEF AdvancedTo
    <2>2. \A p \in Carried : p < next
      BY <1>0, <1>2
    <2>3. 0 \in 0..Size
      BY <1>0
    <2> QED
      BY <1>2, <2>1, <2>2, <2>3 DEF Cursor, Passed
  <1>3. CASE c.phase = "catalog" /\ ~(next >= Size)
    <2>1. AdvancedTo(c, next) = [c EXCEPT !.cat = next]
      BY <1>3 DEF AdvancedTo
    <2> QED
      BY <1>0, <1>3, <2>1 DEF Cursor, Passed
  <1> QED
    BY <1>1, <1>2, <1>3 DEF Cursor

LEMMA ReadBackClaims ==
  ASSUME NEW c, NEW e, NEW h, NEW rows, ClaimIn(c, e, h, rows)
  PROVE  ClaimIn(Parse(Encode(c)), e, h, rows)
  <1>1. c \in Cursor
    BY DEF ClaimIn
  <1> QED
    BY <1>1, ReadBack DEF ClaimIn

-----------------------------------------------------------------------------
(* The upsert.                                                             *)

\* The order of the naturals, as the set of pairs that WFMin takes.
LEMMA NatOrder == IsWellFoundedOn({ss \in Nat \X Nat : ss[1] < ss[2]}, Nat)
  BY NatLessThanWellFounded, Zenon DEF OpToRel

\* A set of naturals has a least member.
LEMMA LeastMember ==
  ASSUME NEW S \in SUBSET Nat, S # {}
  PROVE  \E x \in S : \A y \in S : x <= y
  <1>1. PICK x \in S : \A y \in S : ~(<<y, x>> \in {ss \in Nat \X Nat : ss[1] < ss[2]})
    BY NatOrder, WFMin
  <1>2. ASSUME NEW y \in S PROVE x <= y
    <2>1. ~(y < x)
      BY <1>1
    <2> QED
      BY <2>1
  <1> QED
    BY <1>2

\* The fields that every item has.
LEMMA ItemTypes ==
  ASSUME NEW items \in Seq(Item), NEW j \in 1..Len(items)
  PROVE  items[j].product \in Carried /\ items[j].value \in Nat /\ items[j].at \in Nat
  <1>1. items[j] \in Item
    OBVIOUS
  <1> QED
    BY <1>1 DEF Item, Update

\* The dedupe keeps a newest item of the product, when no item is newer than
\* some bound.
LEMMA DedupeIsNewest ==
  ASSUME NEW items \in Seq(Item), NEW top \in Nat, NEW p,
         \A j \in 1..Len(items) : items[j].at <= top,
         \E j \in 1..Len(items) : items[j].product = p
  PROVE  /\ Dedupe(items, p) \in 1..Len(items)
         /\ items[Dedupe(items, p)].product = p
         /\ \A j \in 1..Len(items) : items[j].product = p => items[j].at <= items[Dedupe(items, p)].at
  <1> DEFINE mine == {i \in 1..Len(items) : items[i].product = p}
             Ages == {top - items[i].at : i \in mine}
  <1>1. mine # {} /\ \A i \in mine : i \in Nat /\ items[i].at \in Nat /\ items[i].at <= top
    BY ItemTypes
  <1> HIDE DEF mine
  <1>2. PICK a \in mine : \A j \in mine : items[j].at <= items[a].at
    <2>1. Ages \in SUBSET Nat /\ Ages # {}
      BY <1>1
    <2>2. PICK age \in Ages : \A y \in Ages : age <= y
      <3> HIDE DEF Ages
      <3> QED
        BY <2>1, LeastMember
    <2>3. PICK a \in mine : age = top - items[a].at
      BY <2>2
    <2>4. ASSUME NEW j \in mine PROVE items[j].at <= items[a].at
      <3>1. age <= top - items[j].at
        BY <2>2
      <3>2. items[j].at \in Nat /\ items[a].at \in Nat
        BY <1>1
      <3> QED
        BY <2>3, <3>1, <3>2, SMTT(20)
    <2> QED
      BY <2>4
  <1> DEFINE newest == {i \in mine : items[i].at = items[a].at}
  <1>3. PICK b \in newest : \A j \in newest : b <= j
    <2>1. newest \in SUBSET Nat /\ newest # {}
      BY <1>1
    <2> HIDE DEF newest
    <2> QED
      BY <2>1, LeastMember
  <1>4. b \in mine /\ \A j \in mine : items[j].at < items[b].at \/ (items[j].at = items[b].at /\ b <= j)
    BY <1>1, <1>2, <1>3
  <1>5. /\ Dedupe(items, p) \in mine
        /\ \A j \in mine : \/ items[j].at < items[Dedupe(items, p)].at
                           \/ items[j].at = items[Dedupe(items, p)].at /\ Dedupe(items, p) <= j
    BY <1>4, Zenon DEF Dedupe, mine
  <1>6. ASSUME NEW j \in mine PROVE items[j].at <= items[Dedupe(items, p)].at
    <2>1. items[j].at \in Nat /\ items[Dedupe(items, p)].at \in Nat
      BY <1>1, <1>5
    <2> QED
      BY <1>5, <2>1
  <1> QED
    BY <1>5, <1>6 DEF mine

\* After an upsert a row is the old one or one of the items, and it is no
\* older than either of them.
LEMMA Upserted ==
  ASSUME NEW items \in Seq(Item), NEW top \in Nat, \A j \in 1..Len(items) : items[j].at <= top,
         offers \in [Carried -> Row], \A p \in Carried : ~offers[p].stored => offers[p] = NoOffer
  PROVE  /\ Upsert(items) \in [Carried -> Row]
         /\ \A p \in Carried :
              /\ Upsert(items)[p].at >= offers[p].at
              /\ offers[p].stored => Upsert(items)[p].stored
              /\ ~Upsert(items)[p].stored => Upsert(items)[p] = NoOffer
              /\ \/ Upsert(items)[p] = offers[p]
                 \/ \E j \in 1..Len(items) : items[j].product = p /\ Upsert(items)[p] = Offer(items[j])
              /\ \A j \in 1..Len(items) : items[j].product = p
                   => Upsert(items)[p].stored /\ Upsert(items)[p].at >= items[j].at
  <1> DEFINE up == Upsert(items)
  <1>1. up = [p \in Carried |-> up[p]]
    BY Zenon DEF Upsert
  <1>2. ASSUME NEW p \in Carried
        PROVE  /\ up[p] \in Row /\ up[p].at >= offers[p].at
               /\ offers[p].stored => up[p].stored
               /\ ~up[p].stored => up[p] = NoOffer
               /\ up[p] = offers[p] \/ \E j \in 1..Len(items) : items[j].product = p /\ up[p] = Offer(items[j])
               /\ \A j \in 1..Len(items) : items[j].product = p => up[p].stored /\ up[p].at >= items[j].at
    <2>0. offers[p] \in Row
      OBVIOUS
    <2>1. CASE ~\E i \in 1..Len(items) : items[i].product = p
      <3>1. up[p] = offers[p]
        BY <2>1, Zenon DEF Upsert
      <3> HIDE DEF up
      <3> QED
        BY <2>0, <2>1, <3>1 DEF Row
    <2>2. CASE \E i \in 1..Len(items) : items[i].product = p
      <3> DEFINE d == Dedupe(items, p)
      <3>1. /\ d \in 1..Len(items) /\ items[d].product = p
            /\ \A j \in 1..Len(items) : items[j].product = p => items[j].at <= items[d].at
        BY <2>2, DedupeIsNewest
      <3>2. up[p] = IF Replaces(items[d], offers[p]) THEN Offer(items[d]) ELSE offers[p]
        BY <2>2, Zenon DEF Upsert
      <3> HIDE DEF d, up
      <3>3. items[d].value \in Nat /\ items[d].at \in Nat /\ \A j \in 1..Len(items) : items[j].at \in Nat
        BY <3>1, ItemTypes
      <3>4. CASE Replaces(items[d], offers[p])
        <4>1. up[p] = [value |-> items[d].value, at |-> items[d].at, stored |-> TRUE]
          BY <3>2, <3>4 DEF Offer
        <4>2. offers[p].at <= items[d].at
          <5>1. CASE ~offers[p].stored
            BY <5>1, <3>3 DEF NoOffer
          <5>2. CASE offers[p].at <= items[d].at
            BY <5>2
          <5> QED
            BY <3>4, <5>1, <5>2 DEF Replaces
        <4>3. up[p] = Offer(items[d])
          BY <3>2, <3>4
        <4>4. up[p] \in Row /\ up[p].stored /\ up[p].at = items[d].at
          BY <3>3, <4>1 DEF Row
        <4>5. \A j \in 1..Len(items) : items[j].product = p => up[p].at >= items[j].at
          BY <3>1, <3>3, <4>4
        <4> QED
          BY <3>1, <3>3, <4>2, <4>3, <4>4, <4>5
      <3>5. CASE ~Replaces(items[d], offers[p])
        <4>1. up[p] = offers[p] /\ offers[p].stored /\ ~(offers[p].at <= items[d].at)
          BY <3>2, <3>5 DEF Replaces
        <4> QED
          BY <2>0, <3>1, <3>3, <4>1 DEF Row
      <3> QED
        BY <3>4, <3>5
    <2> QED
      BY <2>1, <2>2
  <1> HIDE DEF up
  <1>3. up \in [Carried -> Row]
    BY <1>1, <1>2
  <1> QED
    BY <1>2, <1>3 DEF up

-----------------------------------------------------------------------------
(* The invariant of the sync, in a feed that rests while a page is built.  *)

SyncTypes ==
  /\ epoch \in Nat /\ epoch >= 1 /\ current \in [Carried -> Nat] /\ wk \in States
  /\ offers \in [Carried -> Row] /\ \A p \in Carried : ~offers[p].stored => offers[p] = NoOffer
  /\ page.items \in Seq(Item)

PageTypes ==
  /\ wk = "building" =>
       /\ page \in [items : Seq(Item), next : 0..Size, read : 0..Unread, value : Nat]
       /\ page.read # Unread => page.read = page.next /\ page.read \in Carried
  /\ wk \in {"building", "catalog"} => cs.phase = "catalog" /\ cs.cat <= page.next
  /\ wk = "catalog" => page.next \in 0..Size /\ page.epoch \in 0..epoch /\ page.asOf \in Nat
  /\ wk = "offers" => cs.phase = "offers" /\ page.epoch \in 0..epoch /\ page.next \in Nat
  /\ wk = "wait" => page.next \in Nat

\* Nothing bears a time to come, and an update none at or after the present.
Dated ==
  /\ \A i \in 1..Len(log) : log[i].at <= 2 * clock
  /\ \A j \in 1..Len(page.items) : page.items[j].at <= Stamp

\* A page of the catalog has every carried product of its stretch,
Listed ==
  wk \in {"building", "catalog"} =>
    \A p \in Carried : cs.cat <= p /\ p < page.next
      => \E j \in 1..Len(page.items) : page.items[j].product = p

\* stamped with the present while it is built
JustStamped == wk = "building" => \A j \in 1..Len(page.items) : page.items[j].at = Stamp

\* and newer than every update it says it has.
CatalogPage ==
  wk = "catalog" /\ page.epoch = epoch =>
    /\ page.asOf <= Len(log)
    /\ cs.epoch = epoch => cs.seq <= page.asOf
    /\ \A i \in 1..Len(log), j \in 1..Len(page.items) :
         i <= page.asOf => log[i].at < page.items[j].at

\* A page of updates has every one between the position and the next.
OffersPage ==
  wk = "offers" /\ page.epoch = epoch =>
    /\ page.next <= Len(log)
    /\ \A i \in 1..Len(log) : cs.seq < i /\ i <= page.next =>
         \E j \in 1..Len(page.items) : page.items[j].product = log[i].product /\ page.items[j].at = log[i].at

\* When the page is stored, so is all that the next position will claim.
WaitClaims == wk = "wait" => Claim(Advanced)

Claims == Claim(cs) /\ Claim(Parse(saved))
Pages == PageTypes /\ Listed /\ JustStamped /\ CatalogPage /\ OffersPage /\ WaitClaims
SyncInv == SyncTypes /\ Claims /\ Dated /\ Pages

\* The covered updates are those at or before the position.
LEMMA ClaimsCover == StreamInv /\ SyncInv => NothingSkipped
  <1> SUFFICES ASSUME StreamInv, NEW c, Claim(c) PROVE Covers(c)
    BY DEF SyncInv, Claims, NothingSkipped
  <1> QED
    BY DEF Claim, ClaimIn, Passed, Covers, StreamInv, Numbered

\* The worker gives up its page: only the position changes.
LEMMA RestKeeps ==
  ASSUME SyncInv, UNCHANGED <<streamVars, offers>>, wk' \in {"fetch", "sleep"}, page' = NoPage, Claims'
  PROVE  SyncInv'
  <1>1. page'.items = <<>> /\ Len(page'.items) = 0
    BY DEF NoPage
  <1>2. SyncTypes'
    BY <1>1 DEF SyncInv, SyncTypes, streamVars, States
  <1>3. Dated'
    BY <1>1 DEF SyncInv, Dated, streamVars, Stamp
  <1>4. Pages'
    BY DEF Pages, PageTypes, Listed, JustStamped, CatalogPage, OffersPage, WaitClaims
  <1> QED
    BY <1>2, <1>3, <1>4 DEF SyncInv

\* A position that is saved, or is not, leaves a text that claims no more.
LEMMA SaveKeeps ==
  ASSUME SyncInv, UNCHANGED <<streamVars, offers>>, Claim(cs)', SaveOrNot(cs')
  PROVE  Claims'
  <1>1. epoch' = epoch /\ log' = log /\ offers' = offers
    BY DEF streamVars
  <1>2. ClaimIn(cs', epoch, log, offers)
    BY <1>1 DEF Claim
  <1>3. CASE saved' = Encode(cs')
    <2>1. ClaimIn(Parse(Encode(cs')), epoch, log, offers)
      BY <1>2, ReadBackClaims
    <2> QED
      BY <1>1, <1>2, <1>3, <2>1 DEF Claims, Claim
  <1>4. CASE saved' = saved
    BY <1>1, <1>2, <1>4 DEF Claims, Claim, SyncInv
  <1> QED
    BY <1>3, <1>4 DEF SaveOrNot

\* The fresh position claims nothing.
LEMMA FreshClaims == SyncInv => ClaimIn(Fresh, epoch, log, offers)
  BY FreshIsCursor, OutdatedClaims DEF SyncInv, SyncTypes

LEMMA ResyncKeeps == SyncInv /\ Resync => SyncInv'
  <1> SUFFICES ASSUME SyncInv, Resync PROVE SyncInv'
    OBVIOUS
  <1>1. /\ cs' = Fresh /\ SaveOrNot(cs') /\ wk' = "fetch" /\ page' = NoPage
        /\ UNCHANGED <<streamVars, offers>>
    BY DEF Resync, FromStart
  <1>2. Claim(cs)'
    BY <1>1, FreshClaims DEF Claim, streamVars
  <1>3. Claims'
    BY <1>1, <1>2, SaveKeeps
  <1> QED
    BY <1>1, <1>3, RestKeeps

\* A request fails, a poll is due, the daemon restarts.
LEMMA IdleKeeps == SyncInv /\ (RequestFails \/ Poll \/ CrashRestart) => SyncInv'
  <1> SUFFICES ASSUME SyncInv, RequestFails \/ Poll \/ CrashRestart PROVE SyncInv'
    OBVIOUS
  <1>1. CASE RequestFails
    <2>1. UNCHANGED <<streamVars, cs, saved, offers>> /\ wk' = "fetch" /\ page' = NoPage
      BY <1>1 DEF RequestFails
    <2>2. Claims'
      BY <2>1 DEF SyncInv, Claims, Claim, streamVars
    <2> QED
      BY <2>1, <2>2, RestKeeps
  <1>2. CASE Poll
    <2>1. UNCHANGED <<streamVars, cs, saved, offers, page>> /\ wk = "sleep" /\ wk' = "fetch"
      BY <1>2 DEF Poll
    <2>2. SyncTypes' /\ Claims' /\ Dated'
      BY <2>1 DEF SyncInv, SyncTypes, Claims, Claim, Dated, streamVars, States, Stamp
    <2>3. Pages'
      BY <2>1 DEF Pages, PageTypes, Listed, JustStamped, CatalogPage, OffersPage, WaitClaims
    <2> QED
      BY <2>2, <2>3 DEF SyncInv
  <1>3. CASE CrashRestart
    <2>1. /\ UNCHANGED <<streamVars, saved, offers>> /\ cs' \in {Parse(saved), Fresh}
          /\ wk' = "fetch" /\ page' = NoPage
      BY <1>3 DEF CrashRestart
    <2>2. Claims'
      BY <2>1, FreshClaims DEF SyncInv, Claims, Claim, streamVars
    <2> QED
      BY <2>1, <2>2, RestKeeps
  <1> QED
    BY <1>1, <1>2, <1>3

\* The handlers change nothing but the page.
LEMMA HandlerKeeps ==
  ASSUME SyncInv, UNCHANGED <<streamVars, cs, saved, offers>>,
         wk' \in {"building", "catalog", "offers"}, page'.items \in Seq(Item),
         \A j \in 1..Len(page'.items) : page'.items[j].at <= Stamp,
         PageTypes', Listed', JustStamped', CatalogPage', OffersPage'
  PROVE  SyncInv'
  <1>1. SyncTypes'
    BY DEF SyncInv, SyncTypes, streamVars, States
  <1>2. Claims' /\ Dated'
    BY DEF SyncInv, Claims, Claim, Dated, streamVars, Stamp
  <1>3. WaitClaims'
    BY DEF WaitClaims
  <1> QED
    BY <1>1, <1>2, <1>3 DEF SyncInv, Pages

\* Building a page of the catalog.
LEMMA BuildKeeps ==
  StreamInv /\ SyncInv /\ (RequestCatalog \/ SkipUncarried \/ Read \/ StampItem) => SyncInv'
  <1> SUFFICES ASSUME StreamInv, SyncInv, RequestCatalog \/ SkipUncarried \/ Read \/ StampItem PROVE SyncInv'
    OBVIOUS
  <1>0. /\ Size \in Nat /\ Carried \subseteq 0..Size-1 /\ Unread = Size + 1
        /\ cs \in Cursor /\ clock' = clock /\ UNCHANGED <<streamVars, cs, saved, offers>>
    BY StreamAssumption DEF Unread, SyncInv, Claims, Claim, ClaimIn, RequestCatalog, SkipUncarried, Read,
       StampItem, streamVars
  <1>1. CASE RequestCatalog
    <2>1. /\ wk' = "building" /\ cs.phase = "catalog" /\ cs' = cs
          /\ page' = [items |-> <<>>, next |-> cs.cat, read |-> Unread, value |-> 0]
      BY <1>1 DEF RequestCatalog
    <2>2. page'.items = <<>> /\ page'.next = cs.cat /\ page'.read = Unread /\ cs.cat \in 0..Size
      BY <1>0, <2>1 DEF Cursor
    <2>3. PageTypes'
      BY <1>0, <2>1, <2>2 DEF PageTypes
    <2>4. Len(page'.items) = 0 /\ \A p \in Carried : ~(cs.cat <= p /\ p < cs.cat)
      BY <1>0, <2>2
    <2>5. JustStamped' /\ CatalogPage' /\ OffersPage'
      BY <2>1, <2>4 DEF JustStamped, CatalogPage, OffersPage
    <2>6. Listed'
      BY <2>1, <2>2, <2>4 DEF Listed
    <2>7. page'.items \in Seq(Item)
      BY <2>2
    <2> QED
      BY <1>0, <2>1, <2>3, <2>4, <2>5, <2>6, <2>7, HandlerKeeps
  <1>2. ASSUME wk = "building", wk' = "building"
        PROVE  /\ page \in [items : Seq(Item), next : 0..Size, read : 0..Unread, value : Nat]
               /\ page.items \in Seq(Item) /\ page.next \in 0..Size
               /\ page.read # Unread => page.read = page.next /\ page.read \in Carried
               /\ cs.phase = "catalog" /\ cs.cat \in 0..Size /\ cs.cat <= page.next /\ Stamp' = Stamp
               /\ \A p \in Carried : cs.cat <= p /\ p < page.next
                     => \E j \in 1..Len(page.items) : page.items[j].product = p
               /\ \A j \in 1..Len(page.items) : page.items[j].at = Stamp
               /\ Stamp \in Nat /\ CatalogPage' /\ OffersPage'
    <2>1. Stamp \in Nat
      BY DEF Stamp, StreamInv, HistoryTypes
    <2>2. CatalogPage' /\ OffersPage'
      BY <1>2 DEF CatalogPage, OffersPage
    <2>3. page \in [items : Seq(Item), next : 0..Size, read : 0..Unread, value : Nat]
      BY <1>2 DEF SyncInv, Pages, PageTypes
    <2>4. page.items \in Seq(Item) /\ page.next \in 0..Size
      BY <2>3
    <2>5. Stamp' = Stamp
      BY <1>0 DEF Stamp
    <2>6. cs.phase = "catalog" /\ cs.cat \in 0..Size /\ cs.cat <= page.next
      BY <1>0, <1>2 DEF SyncInv, Pages, PageTypes, Cursor
    <2>7. page.read # Unread => page.read = page.next /\ page.read \in Carried
      BY <1>2 DEF SyncInv, Pages, PageTypes
    <2> QED
      BY <1>2, <2>1, <2>2, <2>3, <2>4, <2>5, <2>6, <2>7 DEF SyncInv, Pages, Listed, JustStamped
  <1>3. CASE SkipUncarried
    <2>1. /\ wk = "building" /\ wk' = "building" /\ ~PageFull /\ page.next \notin Carried
          /\ page' = [page EXCEPT !.next = page.next + 1]
      BY <1>3 DEF SkipUncarried
    <2>2. page.next + 1 \in 0..Size
      BY <1>0, <1>2, <2>1 DEF PageFull
    <2>3. /\ page' \in [items : Seq(Item), next : 0..Size, read : 0..Unread, value : Nat]
          /\ page'.items = page.items /\ page'.next = page.next + 1 /\ page'.read = page.read
      BY <1>2, <2>1, <2>2
    <2>4. page.read = Unread
      BY <1>2, <2>1
    <2>5. PageTypes'
      BY <1>0, <1>2, <2>1, <2>3, <2>4 DEF PageTypes
    <2>6. Listed'
      <3>1. ASSUME NEW p \in Carried, cs.cat <= p, p < page.next + 1
            PROVE  \E j \in 1..Len(page.items) : page.items[j].product = p
        <4>1. p # page.next /\ p \in Nat
          BY <1>0, <2>1
        <4> QED
          BY <1>2, <2>1, <3>1, <4>1
      <3> QED
        BY <1>0, <2>3, <3>1 DEF Listed
    <2>7. JustStamped' /\ \A j \in 1..Len(page'.items) : page'.items[j].at <= Stamp
      BY <1>2, <2>1, <2>3 DEF JustStamped
    <2> QED
      BY <1>0, <1>2, <2>1, <2>3, <2>5, <2>6, <2>7, HandlerKeeps
  <1>4. CASE Read
    <2>1. /\ wk = "building" /\ wk' = "building" /\ page.next \in Carried
          /\ page' = [page EXCEPT !.read = page.next, !.value = current[page.next]]
      BY <1>4 DEF Read
    <2>2. current[page.next] \in Nat /\ page.next \in 0..Unread
      BY <1>0, <1>2, <2>1 DEF SyncInv, SyncTypes
    <2>3. /\ page' \in [items : Seq(Item), next : 0..Size, read : 0..Unread, value : Nat]
          /\ page'.items = page.items /\ page'.next = page.next /\ page'.read = page.next
      BY <1>2, <2>1, <2>2
    <2>4. PageTypes'
      BY <1>0, <1>2, <2>1, <2>3 DEF PageTypes
    <2>5. Listed'
      BY <1>0, <1>2, <2>1, <2>3 DEF Listed
    <2>6. JustStamped' /\ \A j \in 1..Len(page'.items) : page'.items[j].at <= Stamp
      BY <1>2, <2>1, <2>3 DEF JustStamped
    <2> QED
      BY <1>0, <1>2, <2>1, <2>3, <2>4, <2>5, <2>6, HandlerKeeps
  <1>5. CASE StampItem
    <2> DEFINE item == [product |-> page.read, value |-> page.value, at |-> Stamp]
    <2>1. /\ wk = "building" /\ wk' = "building" /\ page.read # Unread
          /\ page' = [page EXCEPT !.items = Append(page.items, item),
                                  !.next = page.next + 1, !.read = Unread, !.value = 0]
      BY <1>5 DEF StampItem
    <2>2. page.read = page.next /\ page.read \in Carried /\ page.value \in Nat /\ page.next + 1 \in 0..Size
      BY <1>0, <1>2, <2>1
    <2>3. item \in Item /\ item.product = page.next /\ item.at = Stamp
      BY <1>2, <2>1, <2>2 DEF Item
    <2> HIDE DEF item
    <2> DEFINE grown == Append(page.items, item)
    <2>4. /\ grown \in Seq(Item) /\ Len(grown) = Len(page.items) + 1
          /\ grown[Len(page.items) + 1] = item
          /\ \A j \in 1..Len(page.items) : grown[j] = page.items[j]
          /\ Len(page.items) \in Nat
      BY <1>2, <2>1, <2>3
    <2> HIDE DEF grown
    <2>5. /\ page' \in [items : Seq(Item), next : 0..Size, read : 0..Unread, value : Nat]
          /\ page'.items = grown /\ page'.next = page.next + 1 /\ page'.read = Unread
      <3>1. page' = [page EXCEPT !.items = grown, !.next = page.next + 1, !.read = Unread, !.value = 0]
        BY <2>1 DEF grown
      <3>2. page.next + 1 \in 0..Size /\ Unread \in 0..Unread /\ grown \in Seq(Item)
        BY <1>0, <2>2, <2>4
      <3>3. page \in [items : Seq(Item), next : 0..Size, read : 0..Unread, value : Nat]
        BY <1>2, <2>1
      <3> QED
        BY <3>1, <3>2, <3>3
    <2>6. PageTypes'
      BY <1>0, <1>2, <2>1, <2>5 DEF PageTypes
    <2>7. Listed'
      <3>1. ASSUME NEW p \in Carried, cs.cat <= p, p < page.next + 1
            PROVE  \E j \in 1..Len(grown) : grown[j].product = p
        <4>1. CASE p < page.next
          <5>1. PICK j \in 1..Len(page.items) : page.items[j].product = p
            BY <1>2, <2>1, <3>1, <4>1
          <5>2. j \in 1..Len(grown) /\ grown[j].product = p
            BY <2>4, <5>1
          <5> QED
            BY <5>2
        <4>2. CASE p = page.next
          BY <2>3, <2>4, <4>2
        <4> QED
          BY <1>0, <1>2, <2>1, <3>1, <4>1, <4>2
      <3> QED
        BY <1>0, <2>5, <3>1 DEF Listed
    <2>8. \A j \in 1..Len(grown) : grown[j].at = Stamp
      <3> SUFFICES ASSUME NEW j \in 1..Len(grown) PROVE grown[j].at = Stamp
        OBVIOUS
      <3>1. j \in 1..Len(page.items) \/ j = Len(page.items) + 1
        BY <2>4
      <3> QED
        BY <1>2, <2>1, <2>3, <2>4, <3>1
    <2>9. JustStamped' /\ \A j \in 1..Len(page'.items) : page'.items[j].at <= Stamp
      BY <1>2, <2>1, <2>5, <2>8, SMTT(20) DEF JustStamped
    <2> QED
      BY <1>0, <1>2, <2>1, <2>4, <2>5, <2>6, <2>7, <2>9, HandlerKeeps
  <1> QED
    BY <1>1, <1>3, <1>4, <1>5

\* The answer to /catalog: the head is read after every item is stamped.
LEMMA RespondKeeps == StreamInv /\ SyncInv /\ RespondCatalog => SyncInv'
  <1> SUFFICES ASSUME StreamInv, SyncInv, RespondCatalog PROVE SyncInv'
    OBVIOUS
  <1>1. /\ wk = "building" /\ wk' = "catalog" /\ UNCHANGED <<streamVars, cs, saved, offers>>
        /\ page'.items = page.items /\ page'.next = page.next /\ page'.asOf = nextSeq - 1 /\ page'.epoch = epoch
    BY DEF RespondCatalog
  <1>2. /\ page.items \in Seq(Item) /\ page.next \in 0..Size /\ cs.phase = "catalog" /\ cs.cat <= page.next
        /\ nextSeq - 1 = Len(log) /\ Len(log) \in Nat /\ epoch \in Nat /\ clock \in Nat
        /\ log \in Seq(Update)
    BY <1>1 DEF SyncInv, Pages, PageTypes, SyncTypes, StreamInv, Numbered, HistoryTypes
  <1>3. \A j \in 1..Len(page.items) : page.items[j].at = Stamp
    BY <1>1 DEF SyncInv, Pages, JustStamped
  <1>4. Stamp \in Nat /\ 2 * clock < Stamp
    BY <1>2 DEF Stamp
  <1>5. epoch' = epoch /\ log' = log /\ Stamp' = Stamp
    BY <1>1 DEF streamVars, Stamp
  <1>6. PageTypes' /\ JustStamped' /\ OffersPage'
    BY <1>1, <1>2, <1>5 DEF PageTypes, JustStamped, OffersPage
  <1>7. Listed'
    BY <1>1 DEF SyncInv, Pages, Listed
  <1>8. CatalogPage'
    <2>1. cs.epoch = epoch => cs.seq <= Len(log)
      BY DEF SyncInv, Claims, Claim, ClaimIn
    <2>2. ASSUME NEW i \in 1..Len(log), NEW j \in 1..Len(page.items) PROVE log[i].at < page.items[j].at
      <3>1. log[i].at <= 2 * clock
        BY DEF SyncInv, Dated
      <3>2. log[i] \in Update
        BY <1>2
      <3>3. log[i].at \in Nat
        BY <3>2 DEF Update
      <3> QED
        BY <1>2, <1>3, <1>4, <3>1, <3>3
    <2> QED
      BY <1>1, <1>2, <1>5, <2>1, <2>2 DEF CatalogPage
  <1>9. \A j \in 1..Len(page'.items) : page'.items[j].at <= Stamp
    BY <1>1, <1>3, <1>4
  <1> QED
    BY <1>1, <1>2, <1>6, <1>7, <1>8, <1>9, HandlerKeeps

\* What /offers answers: the updates that follow the position, or none when
\* the backlog is empty.
LEMMA OffersAnswer ==
  ASSUME StreamInv, SyncInv, RequestOffers
  PROVE  /\ cs.seq \in Nat /\ cs.seq <= page'.next /\ page'.next \in Nat /\ page'.next <= Len(log)
         /\ page'.items \in Seq(Update) /\ Len(page'.items) = page'.next - cs.seq
         /\ \A j \in 1..Len(page'.items) : page'.items[j] = log[cs.seq + j]
         /\ page'.epoch = epoch /\ (page'.more <=> page'.next < Len(log))
         /\ page'.items = <<>> => ~page'.more
  <1> DEFINE items == Window(cs.seq, PageSize)
             last == Smaller(cs.seq + PageSize, Len(log))
  <1>0. /\ cs.seq \in Nat /\ log \in Seq(Update) /\ Len(log) \in Nat /\ PageSize \in Nat /\ PageSize > 0
        /\ \A i \in 1..Len(log) : log[i].seq = i
    BY SyncAssumption DEF SyncInv, Claims, Claim, ClaimIn, Cursor, StreamInv, HistoryTypes, Numbered
  <1>1. /\ ~Gone(cs.seq) /\ page'.items = items /\ page'.epoch = epoch
        /\ page'.more = HasMore(cs.seq, PageSize)
        /\ page'.next = IF items = <<>> THEN cs.seq ELSE items[Len(items)].seq
    BY DEF RequestOffers
  <1>2. /\ cs.seq <= Len(log) /\ items = SubSeq(log, cs.seq + 1, last)
        /\ HasMore(cs.seq, PageSize) <=> last < Len(log)
    BY <1>0, <1>1, ExactAtCursor DEF ExactAt
  <1>3. last \in Nat /\ cs.seq <= last /\ last <= Len(log) /\ (last = cs.seq => cs.seq = Len(log))
    BY <1>0, <1>2 DEF Smaller
  <1> HIDE DEF items, last
  <1>4. /\ items \in Seq(Update) /\ Len(items) = last - cs.seq
        /\ \A j \in 1..Len(items) : items[j] = log[cs.seq + j]
    BY <1>0, <1>2, <1>3, SMTT(20)
  <1>5. page'.next = last
    <2>1. CASE items = <<>>
      <3>1. Len(items) = 0
        BY <2>1
      <3> QED
        BY <1>0, <1>1, <1>3, <1>4, <2>1, <3>1
    <2>2. CASE items # <<>>
      <3>1. Len(items) \in 1..Len(items) /\ cs.seq + Len(items) = last /\ last \in 1..Len(log)
        BY <1>0, <1>3, <1>4, <2>2
      <3>2. items[Len(items)] = log[last]
        BY <1>4, <3>1
      <3> QED
        BY <1>0, <1>1, <2>2, <3>1, <3>2
    <2> QED
      BY <2>1, <2>2
  <1>6. items = <<>> => last = cs.seq
    <2>1. items = <<>> => Len(items) = 0
      OBVIOUS
    <2> QED
      BY <1>0, <1>3, <1>4, <2>1
  <1>7. page'.more <=> last < Len(log)
    BY <1>1, <1>2
  <1>8. last = cs.seq => ~(last < Len(log))
    BY <1>0, <1>3
  <1> QED
    BY <1>0, <1>1, <1>3, <1>4, <1>5, <1>6, <1>7, <1>8

LEMMA RequestOffersKeeps == StreamInv /\ SyncInv /\ RequestOffers => SyncInv'
  <1> SUFFICES ASSUME StreamInv, SyncInv, RequestOffers PROVE SyncInv'
    OBVIOUS
  <1>1. wk' = "offers" /\ cs.phase = "offers" /\ UNCHANGED <<streamVars, cs, saved, offers>>
    BY DEF RequestOffers
  <1>2. /\ cs.seq \in Nat /\ cs.seq <= page'.next /\ page'.next \in Nat /\ page'.next <= Len(log)
        /\ page'.items \in Seq(Update) /\ Len(page'.items) = page'.next - cs.seq
        /\ \A j \in 1..Len(page'.items) : page'.items[j] = log[cs.seq + j]
        /\ page'.epoch = epoch
    BY OffersAnswer
  <1>3. epoch' = epoch /\ log' = log /\ epoch \in Nat /\ log \in Seq(Update) /\ clock \in Nat
    BY <1>1 DEF streamVars, SyncInv, SyncTypes, StreamInv, HistoryTypes
  <1>4. page'.items \in Seq(Item)
    BY <1>2 DEF Item
  <1>5. \A j \in 1..Len(page'.items) : page'.items[j].at <= Stamp
    <2> SUFFICES ASSUME NEW j \in 1..Len(page'.items) PROVE page'.items[j].at <= Stamp
      OBVIOUS
    <2>0. /\ cs.seq \in Nat /\ page'.next \in Nat /\ Len(log) \in Nat /\ page'.next <= Len(log)
          /\ j \in Nat /\ 1 <= j /\ j <= page'.next - cs.seq
      BY <1>2, <1>3
    <2>1. cs.seq + j \in 1..Len(log) /\ page'.items[j] = log[cs.seq + j]
      <3>1. page'.items[j] = log[cs.seq + j]
        BY <1>2
      <3> QED
        BY <2>0, <3>1
    <2>2. log[cs.seq + j] \in Update /\ log[cs.seq + j].at <= 2 * clock
      BY <1>3, <2>1 DEF SyncInv, Dated
    <2>3. log[cs.seq + j].at \in Nat
      BY <2>2 DEF Update
    <2> QED
      BY <1>3, <2>1, <2>2, <2>3 DEF Stamp
  <1>6. PageTypes' /\ Listed' /\ JustStamped' /\ CatalogPage'
    BY <1>1, <1>2, <1>3 DEF PageTypes, Listed, JustStamped, CatalogPage
  <1>7. OffersPage'
    <2>1. ASSUME NEW i \in 1..Len(log), cs.seq < i, i <= page'.next
          PROVE  \E j \in 1..Len(page'.items) : /\ page'.items[j].product = log[i].product
                                                /\ page'.items[j].at = log[i].at
      <3>1. i - cs.seq \in 1..Len(page'.items) /\ cs.seq + (i - cs.seq) = i
        BY <1>2, <1>3, <2>1
      <3>2. page'.items[i - cs.seq] = log[i]
        BY <1>2, <3>1
      <3> QED
        BY <3>1, <3>2
    <2> QED
      BY <1>1, <1>2, <1>3, <2>1 DEF OffersPage
  <1> QED
    BY <1>1, <1>4, <1>5, <1>6, <1>7, HandlerKeeps

\* The upsert of the worker's page raises rows, and to the items' times.
LEMMA PageUpserted ==
  ASSUME StreamInv, SyncInv
  PROVE  /\ Upsert(page.items) \in [Carried -> Row]
         /\ \A p \in Carried :
              /\ offers[p].at <= Upsert(page.items)[p].at
              /\ offers[p].stored => Upsert(page.items)[p].stored
              /\ ~Upsert(page.items)[p].stored => Upsert(page.items)[p] = NoOffer
              /\ \/ Upsert(page.items)[p] = offers[p]
                 \/ \E j \in 1..Len(page.items) :
                      page.items[j].product = p /\ Upsert(page.items)[p] = Offer(page.items[j])
              /\ \A j \in 1..Len(page.items) : page.items[j].product = p
                   => Upsert(page.items)[p].stored /\ Upsert(page.items)[p].at >= page.items[j].at
  <1>1. /\ page.items \in Seq(Item) /\ offers \in [Carried -> Row]
        /\ \A p \in Carried : ~offers[p].stored => offers[p] = NoOffer
    BY DEF SyncInv, SyncTypes
  <1>2. Stamp \in Nat /\ \A j \in 1..Len(page.items) : page.items[j].at <= Stamp
    BY DEF SyncInv, Dated, Stamp, StreamInv, HistoryTypes
  <1>3. \A p \in Carried : offers[p].at \in Nat /\ Upsert(page.items)[p] \in Row
                             => (Upsert(page.items)[p].at >= offers[p].at <=> offers[p].at <= Upsert(page.items)[p].at)
    BY DEF Row
  <1>4. \A p \in Carried : offers[p].at \in Nat
    BY <1>1 DEF Row
  <1> QED
    BY <1>1, <1>2, <1>3, <1>4, Upserted

\* The worker's step with a page, stored or to be fetched again.
LEMMA ProcessKeeps ==
  ASSUME StreamInv, SyncInv, Process, page.next \in Nat,
         ClaimIn(cs', epoch, log, offers),
         ClaimIn(AdvancedTo(cs', page.next), epoch, log, Upsert(page.items))
  PROVE  SyncInv'
  <1>0. UNCHANGED <<streamVars, saved>> /\ epoch' = epoch /\ log' = log /\ Stamp' = Stamp
    BY DEF Process, streamVars, Stamp
  <1>1. CASE wk' = "wait" /\ offers' = Upsert(page.items) /\ page' = page
    <2>1. /\ offers' \in [Carried -> Row] /\ offers \in [Carried -> Row]
          /\ \A p \in Carried : offers[p].at <= offers'[p].at
          /\ \A p \in Carried : ~offers'[p].stored => offers'[p] = NoOffer
      BY <1>1, PageUpserted DEF SyncInv, SyncTypes
    <2>2. epoch \in Nat /\ log \in Seq(Update) /\ Len(log) \in Nat
      BY DEF SyncInv, SyncTypes, StreamInv, HistoryTypes
    <2>3. ClaimIn(cs', epoch, log, offers') /\ ClaimIn(Parse(saved), epoch, log, offers')
      BY <2>1, <2>2, ClaimKept DEF SyncInv, Claims, Claim
    <2>4. Claims'
      BY <1>0, <2>3 DEF Claims, Claim
    <2>5. SyncTypes'
      BY <1>0, <1>1, <2>1 DEF SyncInv, SyncTypes, States, streamVars
    <2>6. Dated'
      BY <1>0, <1>1 DEF SyncInv, Dated, streamVars
    <2>7. WaitClaims'
      BY <1>0, <1>1 DEF WaitClaims, Claim, Advanced
    <2>8. Pages'
      BY <1>1, <2>7 DEF Pages, PageTypes, Listed, JustStamped, CatalogPage, OffersPage
    <2> QED
      BY <2>4, <2>5, <2>6, <2>8 DEF SyncInv
  <1>2. CASE wk' = "fetch" /\ page' = NoPage /\ UNCHANGED offers
    <2>1. Claims'
      BY <1>0, <1>2 DEF SyncInv, Claims, Claim
    <2> QED
      BY <1>0, <1>2, <2>1, RestKeeps
  <1> QED
    BY <1>1, <1>2 DEF Process

\* A page of the catalog: the position is pinned on the first page, and what
\* the page makes up for is newer than the updates at or before the pin.
LEMMA HandleCatalogKeeps == StreamInv /\ SyncInv /\ HandleCatalog => SyncInv'
  <1> SUFFICES ASSUME StreamInv, SyncInv, HandleCatalog PROVE SyncInv'
    OBVIOUS
  <1> DEFINE up == Upsert(page.items)
  <1>0. /\ wk = "catalog" /\ cs \in Cursor /\ cs.phase = "catalog" /\ cs.cat \in Nat /\ cs.cat <= page.next
        /\ page.next \in 0..Size /\ page.next \in Nat /\ page.epoch \in Nat /\ page.epoch <= epoch /\ page.asOf \in Nat
        /\ epoch \in Nat /\ log \in Seq(Update) /\ Len(log) \in Nat /\ Size \in Nat
        /\ Carried \subseteq 0..Size-1
        /\ page.items \in Seq(Item) /\ offers \in [Carried -> Row] /\ up \in [Carried -> Row]
    <2>1. wk = "catalog"
      BY DEF HandleCatalog, Resync
    <2>2. cs \in Cursor
      BY DEF SyncInv, Claims, Claim, ClaimIn
    <2>3. /\ cs.phase = "catalog" /\ cs.cat <= page.next
          /\ page.next \in 0..Size /\ page.epoch \in 0..epoch /\ page.asOf \in Nat
      BY <2>1 DEF SyncInv, Pages, PageTypes
    <2>4. /\ epoch \in Nat /\ log \in Seq(Update) /\ Len(log) \in Nat /\ page.items \in Seq(Item)
          /\ offers \in [Carried -> Row]
      BY DEF SyncInv, SyncTypes, StreamInv, HistoryTypes
    <2>5. cs.cat \in Nat
      BY <2>2 DEF Cursor
    <2>6. page.next \in Nat /\ page.epoch \in Nat /\ page.epoch <= epoch
      BY <2>3, <2>4
    <2> HIDE DEF up
    <2> QED
      BY <2>1, <2>2, <2>3, <2>4, <2>5, <2>6, StreamAssumption, PageUpserted DEF up
  <1>1. CASE Resync
    BY <1>1, ResyncKeeps
  <1>2. CASE /\ Process
             /\ \/ FirstPage(cs) /\ cs' = [cs EXCEPT !.epoch = page.epoch, !.seq = page.asOf]
                \/ ~FirstPage(cs) /\ page.epoch = cs.epoch /\ cs' = cs
    <2>1. /\ cs' \in Cursor /\ cs'.phase = "catalog" /\ cs'.cat = cs.cat
          /\ cs'.epoch = page.epoch
          /\ cs'.seq \in Nat
          /\ \/ cs.cat = 0 /\ cs'.seq = page.asOf
             \/ cs' = cs
      BY <1>0, <1>2 DEF Cursor, FirstPage
    <2>2. ASSUME cs'.epoch = epoch
          PROVE  /\ cs'.seq <= page.asOf /\ cs'.seq <= Len(log)
                 /\ \A i \in 1..Len(log) : i <= cs'.seq /\ log[i].product < page.next
                      => up[log[i].product].at >= log[i].at
      <3>1. /\ page.asOf <= Len(log)
            /\ cs.epoch = epoch => cs.seq <= page.asOf
            /\ \A i \in 1..Len(log), j \in 1..Len(page.items) :
                 i <= page.asOf => log[i].at < page.items[j].at
        BY <1>0, <2>1, <2>2 DEF SyncInv, Pages, CatalogPage
      <3>2. cs'.seq <= page.asOf
        BY <1>0, <2>1, <2>2, <3>1
      <3>3. ASSUME NEW i \in 1..Len(log), i <= cs'.seq, log[i].product < page.next
            PROVE  up[log[i].product].at >= log[i].at
        <4> DEFINE p == log[i].product
        <4>0. log[i] \in Update
          BY <1>0
        <4>1. p \in Carried /\ log[i].at \in Nat /\ p \in Nat
          BY <4>0, IndexesAreNat DEF Update
        <4>2. up[p].at \in Nat /\ offers[p].at \in Nat /\ offers[p].at <= up[p].at
          BY <1>0, <4>1, PageUpserted DEF Row
        <4> HIDE DEF p, up
        <4>3. CASE cs.cat <= p
          <5>1. PICK j \in 1..Len(page.items) : page.items[j].product = p
            BY <1>0, <3>3, <4>1, <4>3 DEF SyncInv, Pages, Listed, p
          <5>2. up[p].at >= page.items[j].at
            BY <4>1, <5>1, PageUpserted DEF up
          <5>3. log[i].at < page.items[j].at
            BY <1>0, <2>1, <3>1, <3>2, <3>3
          <5>4. page.items[j].at \in Nat
            BY <1>0, ItemTypes
          <5> QED
            BY <4>1, <4>2, <5>2, <5>3, <5>4 DEF p
        <4>4. CASE p < cs.cat
          <5>1. cs' = cs
            BY <1>0, <2>1, <4>1, <4>4
          <5>2. ClaimIn(cs, epoch, log, offers)
            BY DEF SyncInv, Claims, Claim
          <5>3. offers[p].at >= log[i].at
            BY <2>2, <3>3, <4>4, <5>1, <5>2 DEF ClaimIn, Passed, p
          <5> QED
            BY <4>1, <4>2, <5>3 DEF p
        <4> QED
          BY <1>0, <4>1, <4>3, <4>4
      <3> QED
        BY <1>0, <2>1, <3>1, <3>2, <3>3
    <2> HIDE DEF up
    <2>3. ClaimIn(cs', epoch, log, offers)
      <3>1. ASSUME cs'.epoch = epoch, NEW i \in 1..Len(log), i <= cs'.seq, log[i].product < cs'.cat
            PROVE  offers[log[i].product].at >= log[i].at
        <4>0. log[i] \in Update
          BY <1>0
        <4>1. log[i].product \in Nat
          BY <4>0, IndexesAreNat DEF Update
        <4>2. cs' = cs
          BY <1>0, <2>1, <3>1, <4>1
        <4> QED
          BY <1>0, <3>1, <4>2 DEF SyncInv, Claims, Claim, ClaimIn, Passed
      <3> QED
        BY <1>0, <2>1, <2>2, <3>1 DEF ClaimIn, Passed
    <2>4. ClaimIn(AdvancedTo(cs', page.next), epoch, log, up)
      <3> DEFINE adv == AdvancedTo(cs', page.next)
      <3>1. /\ adv \in Cursor /\ adv.epoch = cs'.epoch /\ adv.seq = cs'.seq
            /\ \A p \in Carried : Passed(adv, p) <=> p < page.next
        BY <1>0, <2>1, Advances, ZenonT(40)
      <3> HIDE DEF adv
      <3>2. \A i \in 1..Len(log) : log[i].product \in Carried
        <4>1. \A i \in 1..Len(log) : log[i] \in Update
          BY <1>0
        <4> QED
          BY <4>1 DEF Update
      <3>3. ClaimIn(adv, epoch, log, up)
        BY <1>0, <2>1, <2>2, <3>1, <3>2 DEF ClaimIn
      <3> QED
        BY <3>3 DEF adv
    <2> QED
      BY <1>0, <1>2, <2>3, <2>4, ProcessKeeps DEF up
  <1> QED
    BY <1>1, <1>2 DEF HandleCatalog

\* A page of updates: all of them between the position and the next.
LEMMA HandleOffersKeeps == StreamInv /\ SyncInv /\ HandleOffers => SyncInv'
  <1> SUFFICES ASSUME StreamInv, SyncInv, HandleOffers PROVE SyncInv'
    OBVIOUS
  <1> DEFINE up == Upsert(page.items)
  <1>0. /\ wk = "offers" /\ cs \in Cursor /\ cs.phase = "offers" /\ cs.seq \in Nat
        /\ page.next \in Nat /\ page.epoch \in Nat
        /\ epoch \in Nat /\ log \in Seq(Update) /\ Len(log) \in Nat
        /\ page.items \in Seq(Item) /\ offers \in [Carried -> Row] /\ up \in [Carried -> Row]
        /\ ClaimIn(cs, epoch, log, offers)
    BY PageUpserted DEF HandleOffers, SyncInv, Claims, Claim, ClaimIn, Cursor, Pages, PageTypes,
       SyncTypes, StreamInv, HistoryTypes
  <1>1. CASE Resync
    BY <1>1, ResyncKeeps
  <1>2. CASE wk' = "sleep" /\ page' = NoPage /\ UNCHANGED <<streamVars, cs, saved, offers>>
    <2>1. Claims'
      BY <1>2 DEF SyncInv, Claims, Claim, streamVars
    <2> QED
      BY <1>2, <2>1, RestKeeps
  <1>3. CASE ~Foreign(cs) /\ cs' = cs /\ Process
    <2> DEFINE adv == AdvancedTo(cs', page.next)
    <2>1. adv \in Cursor /\ adv.epoch = cs.epoch /\ adv.phase = "offers" /\ adv.seq = page.next
      BY <1>0, <1>3, Advances
    <2> HIDE DEF adv, up
    <2>2. ASSUME cs.epoch = epoch
          PROVE  /\ page.next <= Len(log)
                 /\ \A i \in 1..Len(log) : i <= page.next => up[log[i].product].at >= log[i].at
      <3>1. /\ page.next <= Len(log)
            /\ \A i \in 1..Len(log) : cs.seq < i /\ i <= page.next =>
                 \E j \in 1..Len(page.items) : page.items[j].product = log[i].product /\ page.items[j].at = log[i].at
        BY <1>0, <1>3, <2>2 DEF Foreign, SyncInv, Pages, OffersPage
      <3>2. ASSUME NEW i \in 1..Len(log), i <= page.next PROVE up[log[i].product].at >= log[i].at
        <4> DEFINE p == log[i].product
        <4>0. log[i] \in Update
          BY <1>0
        <4>1. p \in Carried /\ log[i].at \in Nat
          BY <4>0 DEF Update
        <4>2. up[p].at \in Nat /\ offers[p].at \in Nat /\ offers[p].at <= up[p].at
          BY <1>0, <4>1, PageUpserted DEF Row, up
        <4> HIDE DEF p
        <4>3. CASE cs.seq < i
          <5>1. PICK j \in 1..Len(page.items) : page.items[j].product = p /\ page.items[j].at = log[i].at
            BY <3>1, <3>2, <4>3 DEF p
          <5> QED
            BY <4>1, <5>1, PageUpserted DEF up, p
        <4>4. CASE i <= cs.seq
          <5>1. offers[p].at >= log[i].at
            BY <1>0, <2>2, <4>4 DEF ClaimIn, Passed, p
          <5> QED
            BY <4>1, <4>2, <5>1 DEF p
        <4> QED
          BY <1>0, <4>3, <4>4
      <3> QED
        BY <3>1, <3>2
    <2>3. ClaimIn(adv, epoch, log, up)
      BY <1>0, <2>1, <2>2 DEF ClaimIn
    <2>4. ClaimIn(cs', epoch, log, offers)
      BY <1>0, <1>3
    <2> QED
      BY <1>0, <1>3, <2>3, <2>4, ProcessKeeps DEF adv, up
  <1> QED
    BY <1>1, <1>2, <1>3 DEF HandleOffers

\* The position moves over what is stored by now.
LEMMA AdvanceKeeps == SyncInv /\ Advance => SyncInv'
  <1> SUFFICES ASSUME SyncInv, Advance PROVE SyncInv'
    OBVIOUS
  <1>1. /\ wk = "wait" /\ cs' = Advanced /\ SaveOrNot(cs') /\ wk' \in {"fetch", "sleep"} /\ page' = NoPage
        /\ UNCHANGED <<streamVars, offers>>
    BY Zenon DEF Advance, Advanced, AdvancedTo
  <1>2. Claim(Advanced)
    BY <1>1 DEF SyncInv, Pages, WaitClaims
  <1>3. Claim(cs)'
    BY <1>1, <1>2 DEF Claim, streamVars
  <1>4. Claims'
    BY <1>1, <1>3, SaveKeeps
  <1> QED
    BY <1>1, <1>4, RestKeeps

-----------------------------------------------------------------------------
(* The feed's steps.                                                       *)

\* A tick adds an update to the history for every product it picks, newer
\* than any stamp so far.
LEMMA TickAppends ==
  ASSUME StreamInv, NEW picks \in Picks, Tick(picks)
  PROVE  \E n \in 1..Burst :
           /\ Len(picks) = n /\ picks \in [1..n -> Carried] /\ Len(log') = Len(log) + n
           /\ made' = made + n /\ clock' = clock + 1
           /\ \A i \in 1..Len(log) : log'[i] = log[i]
           /\ \A i \in Len(log) + 1..Len(log) + n :
                log'[i] = [seq |-> nextSeq + (i - Len(log)) - 1, product |-> picks[i - Len(log)],
                           value |-> made + (i - Len(log)), at |-> 2 * (clock + 1)]
  <1> DEFINE u == Updates(picks)
  <1>0. log \in Seq(Update) /\ Len(log) \in Nat /\ log' = log \o u /\ made' = made + Len(picks) /\ clock' = clock + 1
    BY DEF StreamInv, HistoryTypes, Tick
  <1>1. PICK n \in 1..Burst : picks \in [1..n -> Carried]
    BY DEF Picks
  <1>2. Len(picks) = n /\ n \in Nat
    BY <1>1, StreamAssumption
  <1>3. u = [i \in 1..Len(picks) |-> [seq |-> nextSeq + i - 1, product |-> picks[i],
                                       value |-> made + i, at |-> 2 * (clock + 1)]]
    BY Zenon DEF Updates
  <1> HIDE DEF u
  <1>4. u = [i \in 1..n |-> [seq |-> nextSeq + i - 1, product |-> picks[i],
                             value |-> made + i, at |-> 2 * (clock + 1)]]
    BY <1>2, <1>3
  <1>5. u \in Seq(Update) /\ Len(u) = n
    <2>1. ASSUME NEW i \in 1..n PROVE u[i] \in Update
      <3>1. u[i] = [seq |-> nextSeq + i - 1, product |-> picks[i], value |-> made + i, at |-> 2 * (clock + 1)]
        BY <1>4
      <3>2. picks[i] \in Carried
        BY <1>1
      <3>3. nextSeq + i - 1 \in Nat \ {0} /\ made + i \in Nat /\ 2 * (clock + 1) \in Nat
        BY <1>0, <1>2 DEF StreamInv, HistoryTypes, Numbered
      <3> QED
        BY <3>1, <3>2, <3>3 DEF Update
    <2> QED
      BY <1>2, <1>4, <2>1
  <1>6. /\ Len(log \o u) = Len(log) + n
        /\ \A i \in 1..Len(log) : (log \o u)[i] = log[i]
        /\ \A i \in Len(log) + 1..Len(log) + n : (log \o u)[i] = u[i - Len(log)]
    BY <1>0, <1>5, Appended
  <1>7. ASSUME NEW i \in Len(log) + 1..Len(log) + n
        PROVE  log'[i] = [seq |-> nextSeq + (i - Len(log)) - 1, product |-> picks[i - Len(log)],
                          value |-> made + (i - Len(log)), at |-> 2 * (clock + 1)]
    <2>1. i - Len(log) \in 1..n
      BY <1>0, <1>2
    <2>2. log'[i] = u[i - Len(log)]
      BY <1>0, <1>6
    <2> QED
      BY <1>4, <2>1, <2>2
  <1> QED
    BY <1>0, <1>1, <1>2, <1>6, <1>7

\* The state of a product after a tick is the one it had or one of the new.
LEMMA TickLatest ==
  ASSUME NEW picks \in Picks, NEW p \in Carried, made \in Nat
  PROVE  /\ \A i \in 1..Len(picks) : Updates(picks)[i].product = picks[i] /\ Updates(picks)[i].value = made + i
         /\ (\A i \in 1..Len(picks) : picks[i] # p) => Latest(Updates(picks), p) = current[p]
         /\ (\E i \in 1..Len(picks) : picks[i] = p)
              => \E i \in 1..Len(picks) : picks[i] = p /\ Latest(Updates(picks), p) = made + i
  <1> DEFINE u == Updates(picks)
             of == {i \in 1..Len(u) : u[i].product = p}
             Gaps == {Len(u) - i : i \in of}
  <1>1. PICK n \in 1..Burst : picks \in [1..n -> Carried]
    BY DEF Picks
  <1>2. Len(picks) = n /\ n \in Nat
    BY <1>1, StreamAssumption
  <1>3. u = [i \in 1..n |-> [seq |-> nextSeq + i - 1, product |-> picks[i],
                             value |-> made + i, at |-> 2 * (clock + 1)]]
    <2>1. u = [i \in 1..Len(picks) |-> [seq |-> nextSeq + i - 1, product |-> picks[i],
                                        value |-> made + i, at |-> 2 * (clock + 1)]]
      BY Zenon DEF Updates
    <2> HIDE DEF u
    <2> QED
      BY <1>2, <2>1
  <1> HIDE DEF u
  <1>4. Len(u) = n /\ \A i \in 1..n : u[i].product = picks[i] /\ u[i].value = made + i
    BY <1>2, <1>3
  <1>5. Latest(u, p) = IF of = {} THEN current[p] ELSE u[CHOOSE i \in of : \A j \in of : j <= i].value
    BY Zenon DEF Latest
  <1>6. ASSUME of # {} PROVE \E i \in 1..n : picks[i] = p /\ Latest(u, p) = made + i
    <2>1. Gaps \in SUBSET Nat /\ Gaps # {}
      BY <1>2, <1>4, <1>6
    <2>2. PICK g \in Gaps : \A y \in Gaps : g <= y
      <3> HIDE DEF Gaps
      <3> QED
        BY <2>1, LeastMember
    <2>3. PICK a \in of : g = Len(u) - a
      BY <2>2
    <2>4. ASSUME NEW j \in of PROVE j <= a
      <3>1. g <= Len(u) - j /\ a \in Nat /\ j \in Nat
        BY <2>2
      <3> QED
        BY <1>2, <1>4, <2>3, <3>1
    <2> DEFINE last == CHOOSE i \in of : \A j \in of : j <= i
    <2>5. last \in of
      BY <2>3, <2>4
    <2>6. Latest(u, p) = u[last].value
      BY <1>5, <1>6
    <2> HIDE DEF last
    <2>7. last \in 1..n /\ u[last].product = p
      BY <1>4, <2>5
    <2> QED
      BY <1>4, <2>6, <2>7
  <1>7. of = {} <=> \A i \in 1..n : picks[i] # p
    BY <1>4
  <1> QED
    BY <1>2, <1>4, <1>5, <1>6, <1>7 DEF u

\* A tick disturbs no claim and no page: what it adds is ahead of them all.
LEMMA TickKeeps ==
  ASSUME StreamInv, SyncInv, StreamInv', NEW picks \in Picks, Tick(picks), wk # "building",
         UNCHANGED workerVars
  PROVE  SyncInv'
  <1>0. /\ log \in Seq(Update) /\ log' \in Seq(Update) /\ Len(log) \in Nat /\ clock \in Nat /\ epoch \in Nat
        /\ epoch' = epoch /\ wk' = wk /\ page' = page /\ cs' = cs /\ saved' = saved /\ offers' = offers
        /\ offers \in [Carried -> Row]
    BY DEF StreamInv, HistoryTypes, SyncInv, SyncTypes, Tick, workerVars
  <1>1. PICK n \in 1..Burst :
           /\ Len(log') = Len(log) + n /\ clock' = clock + 1
           /\ \A i \in 1..Len(log) : log'[i] = log[i]
           /\ \A i \in Len(log) + 1..Len(log) + n :
                log'[i] = [seq |-> nextSeq + (i - Len(log)) - 1, product |-> picks[i - Len(log)],
                           value |-> made + (i - Len(log)), at |-> 2 * (clock + 1)]
    BY TickAppends
  <1>2. n \in Nat /\ Len(log) <= Len(log') /\ Len(log') \in Nat
    BY <1>0, <1>1, StreamAssumption
  <1>3. Claims'
    <2>1. \A p \in Carried : offers[p].at <= offers[p].at
      BY <1>0 DEF Row
    <2>2. ClaimIn(cs, epoch, log', offers) /\ ClaimIn(Parse(saved), epoch, log', offers)
      BY <1>0, <1>1, <1>2, <2>1, ClaimKept DEF SyncInv, Claims, Claim
    <2> QED
      BY <1>0, <2>2 DEF Claims, Claim
  <1>4. WaitClaims'
    <2>1. \A p \in Carried : offers[p].at <= offers[p].at
      BY <1>0 DEF Row
    <2>2. ASSUME wk = "wait" PROVE ClaimIn(Advanced, epoch, log', offers)
      <3>1. ClaimIn(Advanced, epoch, log, offers)
        BY <2>2 DEF SyncInv, Pages, WaitClaims, Claim
      <3> QED
        BY <1>0, <1>1, <1>2, <2>1, <3>1, ClaimKept
    <2>3. Advanced' = Advanced
      BY <1>0 DEF Advanced
    <2> QED
      BY <1>0, <2>2, <2>3 DEF WaitClaims, Claim
  <1>5. Dated'
    <2>1. ASSUME NEW i \in 1..Len(log') PROVE log'[i].at <= 2 * clock'
      <3>1. CASE i \in 1..Len(log)
        <4>0. log[i] \in Update
          BY <1>0, <3>1
        <4>1. log[i].at \in Nat /\ log[i].at <= 2 * clock /\ log'[i] = log[i]
          BY <1>1, <3>1, <4>0 DEF SyncInv, Dated, Update
        <4> QED
          BY <1>0, <1>1, <4>1
      <3>2. CASE i \in Len(log) + 1..Len(log) + n
        <4>1. log'[i].at = 2 * (clock + 1)
          <5>1. log'[i] = [seq |-> nextSeq + (i - Len(log)) - 1, product |-> picks[i - Len(log)],
                           value |-> made + (i - Len(log)), at |-> 2 * (clock + 1)]
            BY <1>1, <3>2
          <5> QED
            BY <5>1
        <4> QED
          BY <1>0, <1>1, <4>1
      <3> QED
        BY <1>0, <1>1, <1>2, <3>1, <3>2
    <2>2. ASSUME NEW j \in 1..Len(page.items) PROVE page.items[j].at <= Stamp'
      <3>1. page.items[j].at \in Nat /\ page.items[j].at <= Stamp
        BY ItemTypes DEF SyncInv, SyncTypes, Dated
      <3> QED
        BY <1>0, <1>1, <3>1 DEF Stamp
    <2> QED
      BY <1>0, <2>1, <2>2 DEF Dated
  <1>6. SyncTypes'
    <2>1. current' \in [Carried -> Nat]
      <3>1. PICK m \in 1..Burst :
               /\ made' = made + m /\ Len(picks) = m
        BY TickAppends
      <3>2. made \in Nat /\ m \in Nat
        BY <3>1, StreamAssumption DEF StreamInv, HistoryTypes
      <3>3. \A p \in Carried : current[p] \in Nat
        BY DEF SyncInv, SyncTypes
      <3>4. current' = [p \in Carried |-> Latest(Updates(picks), p)]
        BY DEF Tick
      <3>5. ASSUME NEW p \in Carried PROVE Latest(Updates(picks), p) \in Nat
        BY <3>1, <3>2, <3>3, TickLatest, SMTT(20)
      <3> QED
        BY <3>4, <3>5
    <2> QED
      BY <1>0, <2>1 DEF SyncInv, SyncTypes
  <1>7. CatalogPage'
    <2> SUFFICES ASSUME wk = "catalog", page.epoch = epoch
                 PROVE  /\ page.asOf <= Len(log')
                        /\ cs.epoch = epoch => cs.seq <= page.asOf
                        /\ \A i \in 1..Len(log'), j \in 1..Len(page.items) :
                              i <= page.asOf => log'[i].at < page.items[j].at
      BY <1>0 DEF CatalogPage
    <2>1. /\ page.asOf <= Len(log) /\ page.asOf \in Nat
          /\ cs.epoch = epoch => cs.seq <= page.asOf
          /\ \A i \in 1..Len(log), j \in 1..Len(page.items) :
               i <= page.asOf => log[i].at < page.items[j].at
      BY DEF SyncInv, Pages, PageTypes, CatalogPage
    <2>2. ASSUME NEW i \in 1..Len(log'), i <= page.asOf PROVE i \in 1..Len(log) /\ log'[i] = log[i]
      <3>1. i \in 1..Len(log)
        BY <1>0, <1>2, <2>1, <2>2
      <3> QED
        BY <1>1, <3>1
    <2>3. page.asOf <= Len(log')
      BY <1>0, <1>2, <2>1
    <2>4. \A i \in 1..Len(log'), j \in 1..Len(page.items) :
            i <= page.asOf => log'[i].at < page.items[j].at
      BY <2>1, <2>2
    <2> QED
      BY <2>1, <2>3, <2>4
  <1>8. OffersPage'
    <2> SUFFICES ASSUME wk = "offers", page.epoch = epoch
                 PROVE  /\ page.next <= Len(log')
                        /\ \A i \in 1..Len(log') : cs.seq < i /\ i <= page.next =>
                             \E j \in 1..Len(page.items) : /\ page.items[j].product = log'[i].product
                                                           /\ page.items[j].at = log'[i].at
      BY <1>0 DEF OffersPage
    <2>1. /\ page.next <= Len(log) /\ page.next \in Nat
          /\ \A i \in 1..Len(log) : cs.seq < i /\ i <= page.next =>
               \E j \in 1..Len(page.items) : page.items[j].product = log[i].product /\ page.items[j].at = log[i].at
      BY DEF SyncInv, Pages, PageTypes, OffersPage
    <2>2. ASSUME NEW i \in 1..Len(log'), i <= page.next PROVE i \in 1..Len(log) /\ log'[i] = log[i]
      <3>1. i \in 1..Len(log)
        BY <1>0, <1>2, <2>1, <2>2
      <3> QED
        BY <1>1, <3>1
    <2>3. ASSUME NEW i \in 1..Len(log'), cs.seq < i, i <= page.next
          PROVE  \E j \in 1..Len(page.items) : page.items[j].product = log'[i].product /\ page.items[j].at = log'[i].at
      <3>1. i \in 1..Len(log) /\ log'[i] = log[i]
        BY <2>2, <2>3
      <3> QED
        BY <2>1, <2>3, <3>1
    <2>4. page.next <= Len(log')
      BY <1>0, <1>2, <2>1
    <2> QED
      BY <2>3, <2>4
  <1>9. PageTypes' /\ Listed' /\ JustStamped'
    BY <1>0 DEF SyncInv, Pages, PageTypes, Listed, JustStamped
  <1> QED
    BY <1>3, <1>4, <1>5, <1>6, <1>7, <1>8, <1>9 DEF SyncInv, Pages

\* A restart outdates every position and every page.
LEMMA RestartKeeps == StreamInv /\ SyncInv /\ FeedRestarts => SyncInv'
  <1> SUFFICES ASSUME StreamInv, SyncInv, FeedRestarts PROVE SyncInv'
    OBVIOUS
  <1>0. /\ epoch' = epoch + 1 /\ log' = <<>> /\ clock' = clock + 1 /\ made' = made + 1 /\ current' = Base(made')
        /\ cs' = cs /\ saved' = saved /\ offers' = offers
        /\ epoch \in Nat /\ clock \in Nat /\ made \in Nat
        /\ \/ wk = "building" /\ wk' = "fetch" /\ page' = NoPage
           \/ wk # "building" /\ wk' = wk /\ page' = page
    BY DEF FeedRestarts, Restart, SyncInv, SyncTypes, StreamInv, HistoryTypes
  <1>1. Claims'
    <2>1. /\ cs \in Cursor /\ cs.epoch <= epoch /\ cs.epoch \in Nat
          /\ Parse(saved) \in Cursor /\ Parse(saved).epoch <= epoch /\ Parse(saved).epoch \in Nat
      BY DEF SyncInv, Claims, Claim, ClaimIn, Cursor
    <2>2. cs.epoch < epoch + 1 /\ Parse(saved).epoch < epoch + 1 /\ epoch + 1 \in Nat
      BY <1>0, <2>1
    <2>3. ClaimIn(cs, epoch + 1, log', offers) /\ ClaimIn(Parse(saved), epoch + 1, log', offers)
      BY <2>1, <2>2, OutdatedClaims
    <2> QED
      BY <1>0, <2>3 DEF Claims, Claim
  <1>2. SyncTypes'
    <2>1. current' \in [Carried -> Nat] /\ epoch' \in Nat /\ epoch' >= 1
      BY <1>0 DEF Base
    <2>2. page'.items \in Seq(Item)
      <3>1. NoPage.items \in Seq(Item)
        BY DEF NoPage
      <3> QED
        BY <1>0, <3>1 DEF SyncInv, SyncTypes
    <2> QED
      BY <1>0, <2>1, <2>2 DEF SyncInv, SyncTypes, States
  <1>3. Dated'
    <2>1. ASSUME NEW j \in 1..Len(page.items) PROVE page.items[j].at <= Stamp'
      <3>1. page.items[j].at \in Nat /\ page.items[j].at <= Stamp
        BY ItemTypes DEF SyncInv, SyncTypes, Dated
      <3> QED
        BY <1>0, <3>1 DEF Stamp
    <2> QED
      BY <1>0, <2>1 DEF Dated, NoPage
  <1>4. CASE wk' = "fetch"
    BY <1>1, <1>2, <1>3, <1>4 DEF SyncInv, Pages, PageTypes, Listed, JustStamped, CatalogPage, OffersPage, WaitClaims
  <1>5. CASE wk' # "fetch"
    <2>1. wk # "building" /\ wk' = wk /\ page' = page
      BY <1>0, <1>5
    <2>2. wk \in {"catalog", "offers"} => page.epoch \in 0..epoch' /\ page.epoch # epoch'
      BY <1>0 DEF SyncInv, Pages, PageTypes
    <2>3. PageTypes'
      BY <1>0, <2>1, <2>2 DEF SyncInv, Pages, PageTypes
    <2>4. Listed' /\ JustStamped' /\ CatalogPage' /\ OffersPage'
      BY <1>0, <2>1, <2>2 DEF SyncInv, Pages, Listed, JustStamped, CatalogPage, OffersPage
    <2>5. WaitClaims'
      <3>1. ASSUME wk = "wait" PROVE ClaimIn(Advanced, epoch + 1, log', offers)
        <4>1. Advanced \in Cursor /\ Advanced.epoch <= epoch /\ Advanced.epoch \in Nat
          BY <3>1 DEF SyncInv, Pages, WaitClaims, Claim, ClaimIn, Cursor
        <4>2. Advanced.epoch < epoch + 1 /\ epoch + 1 \in Nat
          BY <1>0, <4>1
        <4> QED
          BY <4>1, <4>2, OutdatedClaims
      <3>2. Advanced' = Advanced
        BY <1>0, <2>1 DEF Advanced
      <3> QED
        BY <1>0, <2>1, <3>1, <3>2 DEF WaitClaims, Claim
    <2> QED
      BY <1>1, <1>2, <1>3, <2>3, <2>4, <2>5 DEF SyncInv, Pages
  <1> QED
    BY <1>4, <1>5

\* A retailer's death, and a step that changes nothing.
LEMMA StatusKeeps ==
  ASSUME SyncInv, UNCHANGED <<buf, nextSeq, current, epoch, clock, made, log>>, UNCHANGED workerVars
  PROVE  SyncInv'
  <1>1. SyncTypes' /\ Claims' /\ Dated'
    BY DEF SyncInv, SyncTypes, Claims, Claim, Dated, Stamp, workerVars
  <1>2. PageTypes' /\ Listed' /\ JustStamped' /\ CatalogPage' /\ OffersPage'
    BY DEF SyncInv, Pages, PageTypes, Listed, JustStamped, CatalogPage, OffersPage, workerVars, Stamp
  <1>3. WaitClaims'
    BY DEF SyncInv, Pages, WaitClaims, Claim, Advanced, workerVars
  <1> QED
    BY <1>1, <1>2, <1>3 DEF SyncInv, Pages

\* The start: nothing is claimed.
LEMMA InitIsSynced == Init => StreamInv /\ SyncInv
  <1> SUFFICES ASSUME Init PROVE SyncInv
    BY InitEstablishes DEF Init
  <1>1. /\ epoch = 1 /\ current = Base(0) /\ wk = "fetch" /\ cs = Fresh /\ saved = <<>> /\ page = NoPage
        /\ offers = [p \in Carried |-> NoOffer] /\ log = <<>>
    BY DEF Init, StreamInit
  <1>2. SyncTypes
    BY <1>1 DEF SyncTypes, Base, States, Row, NoOffer, NoPage
  <1>3. Parse(saved) = Fresh
    BY <1>1 DEF Parse
  <1>4. Claims
    <2>1. ClaimIn(Fresh, 1, log, offers)
      BY FreshIsCursor, OutdatedClaims
    <2> QED
      BY <1>1, <1>3, <2>1 DEF Claims, Claim
  <1>5. Dated
    BY <1>1 DEF Dated, NoPage
  <1>6. Pages
    BY <1>1 DEF Pages, PageTypes, Listed, JustStamped, CatalogPage, OffersPage, WaitClaims
  <1> QED
    BY <1>2, <1>4, <1>5, <1>6 DEF SyncInv

\* Every step keeps what the positions claim.
LEMMA NextKeeps ==
  ASSUME Quiet, StreamInv, SyncInv, [Next]_vars
  PROVE  StreamInv' /\ SyncInv'
  <1>1. StreamInv'
    BY StreamPreserves, NextIsStreamNext
  <1>2. CASE Serve
    BY <1>1, <1>2, BuildKeeps, RespondKeeps, RequestOffersKeeps, ResyncKeeps DEF Serve, OffersGone
  <1>3. CASE Worker \/ RequestFails \/ CrashRestart
    BY <1>1, <1>3, HandleCatalogKeeps, HandleOffersKeeps, AdvanceKeeps, IdleKeeps DEF Worker
  <1>4. CASE FeedTicks
    <2>1. PICK picks \in Picks : Tick(picks)
      BY <1>4 DEF FeedTicks
    <2>2. wk # "building" /\ UNCHANGED workerVars
      BY <1>4 DEF FeedTicks, Undisturbed
    <2> QED
      BY <1>1, <2>1, <2>2, TickKeeps
  <1>5. CASE FeedStatus
    BY <1>1, <1>5, StatusKeeps DEF FeedStatus, SetDead
  <1>6. CASE FeedRestarts
    BY <1>1, <1>6, RestartKeeps
  <1>7. CASE UNCHANGED vars
    BY <1>1, <1>7, StatusKeeps DEF vars, streamVars, workerVars
  <1> QED
    BY <1>1, <1>2, <1>3, <1>4, <1>5, <1>6, <1>7 DEF Next

\* In a feed that rests while a page is built, whatever else happens, a
\* position and the saved one claim only what is stored (worker.go: step).
THEOREM SyncInvariant ==
  ASSUME Quiet
  PROVE  Spec => [](StreamInv /\ SyncInv)
  <1>1. StreamInv /\ SyncInv /\ [Next]_vars => (StreamInv /\ SyncInv)'
    BY NextKeeps
  <1> QED
    BY <1>1, InitIsSynced, PTL DEF Spec

\* "Updates that land mid-sync get replayed, not lost" (worker.go:88-89).
THEOREM NothingIsSkipped ==
  ASSUME Quiet
  PROVE  Spec => []NothingSkipped
  BY ClaimsCover, SyncInvariant, PTL

-----------------------------------------------------------------------------
(* What the stored states are, when no two updates of a product share a    *)
(* time: a tick emits at most one.                                         *)

\* A state of every product at every time, which never falls and stays as
\* it is from the present on.
Timeline(line) ==
  /\ \A p \in Carried : \A m, n \in Nat : m <= n => line[p][m] <= line[p][n]
  /\ \A p \in Carried : \A n \in Nat : n >= Stamp => line[p][n] = current[p]

\* Whatever bears a time bears the state of that time.
Shown(line) ==
  /\ \A p \in Carried : offers[p].stored => offers[p].at <= Stamp /\ offers[p].value = line[p][offers[p].at]
  /\ \A j \in 1..Len(page.items) : page.items[j].value = line[page.items[j].product][page.items[j].at]
  /\ \A i \in 1..Len(log) : log[i].value = line[log[i].product][log[i].at]

Dates == \E line \in [Carried -> [Nat -> Nat]] : Timeline(line) /\ Shown(line)

\* The history tells the state of every product it speaks of, after any
\* position too.
Tells ==
  \A p \in Carried, s \in 0..Len(log) :
    (\E i \in 1..Len(log) : i > s /\ log[i].product = p)
      => \E i \in 1..Len(log) : i > s /\ log[i].product = p /\ log[i].value = current[p]

\* A state of p as of seq is the present one unless an update follows.
FinalIn(p, seq, v, history, now) ==
  (\A i \in 1..Len(history) : i > seq => history[i].product # p) => v = now[p]

\* At a position, every product the sync has passed is stored, and stored as
\* it is unless an update follows.
HoldsIn(c, e, history, rows, now) ==
  c.epoch = e =>
    \A p \in Carried : Passed(c, p) =>
      rows[p].stored /\ FinalIn(p, c.seq, rows[p].value, history, now)

Holds(c) == HoldsIn(c, epoch, log, offers, current)

ReadIsCurrent == wk = "building" /\ page.read # Unread => page.value = current[page.read]

CatalogHolds ==
  wk = "catalog" /\ page.epoch = epoch =>
    \A j \in 1..Len(page.items) :
      FinalIn(page.items[j].product, page.asOf, page.items[j].value, log, current)

\* The last page of updates brings the offers to what the feed was when it
\* answered.
LastPage ==
  wk = "offers" =>
    /\ page.items = <<>> => ~page.more
    /\ page.epoch = cs.epoch /\ ~page.more =>
         \A p \in Carried :
           /\ offers[p].stored /\ offers[p].value <= seen[p]
           /\ \A j \in 1..Len(page.items) : page.items[j].product = p => page.items[j].value <= seen[p]
           /\ \/ offers[p].value = seen[p]
              \/ \E j \in 1..Len(page.items) : page.items[j].product = p /\ page.items[j].value = seen[p]

InSync == \A p \in Carried : offers[p].stored /\ offers[p].value = seen[p]

WaitHolds == wk = "wait" => Holds(Advanced) /\ (cs.phase = "offers" /\ ~page.more => InSync)

Bounded == made \in Nat /\ seen \in [Carried -> Nat] /\ \A p \in Carried : current[p] <= made

FeedFaith == Bounded /\ Dates /\ Tells
Positions == Holds(cs) /\ Holds(Parse(saved))
PagesFaith == ReadIsCurrent /\ CatalogHolds /\ LastPage /\ WaitHolds /\ Synced

FaithInv == FeedFaith /\ Positions /\ PagesFaith

-----------------------------------------------------------------------------
(* Lemmas about states and times.                                          *)

\* The types that the proofs below need again and again.
LEMMA BasicTypes ==
  ASSUME StreamInv, SyncInv
  PROVE  /\ log \in Seq(Update) /\ Len(log) \in Nat /\ clock \in Nat /\ Stamp \in Nat /\ epoch \in Nat
         /\ \A i \in 1..Len(log) : /\ log[i].product \in Carried /\ log[i].value \in Nat
                                   /\ log[i].at \in Nat /\ log[i].at <= Stamp
         /\ page.items \in Seq(Item) /\ Len(page.items) \in Nat
         /\ \A j \in 1..Len(page.items) :
              /\ page.items[j].product \in Carried /\ page.items[j].value \in Nat
              /\ page.items[j].at \in Nat /\ page.items[j].at <= Stamp
         /\ \A p \in Carried : offers[p].value \in Nat /\ offers[p].at \in Nat /\ current[p] \in Nat
         /\ cs \in Cursor /\ cs.seq \in Nat /\ cs.cat \in Nat
  <1>1. log \in Seq(Update) /\ Len(log) \in Nat /\ clock \in Nat /\ Stamp \in Nat /\ epoch \in Nat
    BY DEF StreamInv, HistoryTypes, SyncInv, SyncTypes, Stamp
  <1>2. ASSUME NEW i \in 1..Len(log)
        PROVE  log[i].product \in Carried /\ log[i].value \in Nat /\ log[i].at \in Nat /\ log[i].at <= Stamp
    <2>1. log[i] \in Update /\ log[i].at <= 2 * clock
      BY <1>1 DEF SyncInv, Dated
    <2> QED
      BY <1>1, <2>1 DEF Update, Stamp
  <1>3. page.items \in Seq(Item) /\ Len(page.items) \in Nat
    BY DEF SyncInv, SyncTypes
  <1>4. \A j \in 1..Len(page.items) :
              /\ page.items[j].product \in Carried /\ page.items[j].value \in Nat
              /\ page.items[j].at \in Nat /\ page.items[j].at <= Stamp
    BY <1>3, ItemTypes DEF SyncInv, Dated
  <1>5. \A p \in Carried : offers[p].value \in Nat /\ offers[p].at \in Nat /\ current[p] \in Nat
    BY DEF SyncInv, SyncTypes, Row
  <1>6. cs \in Cursor /\ cs.seq \in Nat /\ cs.cat \in Nat
    BY StreamAssumption DEF SyncInv, Claims, Claim, ClaimIn, Cursor
  <1> QED
    BY <1>1, <1>2, <1>3, <1>4, <1>5, <1>6

LEMMA OfferFields ==
  ASSUME NEW item
  PROVE  Offer(item).value = item.value /\ Offer(item).at = item.at /\ Offer(item).stored
  BY DEF Offer

\* A timeline at the present, and before it.
LEMMA Present ==
  ASSUME NEW line, Timeline(line), Stamp \in Nat, NEW p \in Carried
  PROVE  line[p][Stamp] = current[p] /\ \A n \in Nat : n <= Stamp => line[p][n] <= current[p]
  <1>1. Stamp >= Stamp
    OBVIOUS
  <1>2. line[p][Stamp] = current[p]
    BY <1>1 DEF Timeline
  <1>3. \A n \in Nat : n <= Stamp => line[p][n] <= line[p][Stamp]
    BY DEF Timeline
  <1> QED
    BY <1>2, <1>3

\* No state shown is ahead of the present one, and two of one product and
\* time are one.
LEMMA StatesAreBounded ==
  ASSUME StreamInv, SyncInv, Dates
  PROVE  /\ \A p \in Carried : offers[p].stored => offers[p].value <= current[p] /\ offers[p].at <= Stamp
         /\ \A j \in 1..Len(page.items) :
              /\ page.items[j].value <= current[page.items[j].product]
              /\ page.items[j].at = Stamp => page.items[j].value = current[page.items[j].product]
         /\ \A i \in 1..Len(log) :
              /\ log[i].value <= current[log[i].product]
              /\ \A j \in 1..Len(page.items) :
                   page.items[j].product = log[i].product /\ page.items[j].at = log[i].at
                     => page.items[j].value = log[i].value
  <1>1. PICK line \in [Carried -> [Nat -> Nat]] : Timeline(line) /\ Shown(line)
    BY DEF Dates
  <1>2. Stamp \in Nat
    BY BasicTypes
  <1>3. \A p \in Carried : \A n \in Nat : n <= Stamp => line[p][n] <= current[p]
    BY <1>1, <1>2, Present
  <1>4. \A p \in Carried : line[p][Stamp] = current[p]
    BY <1>1, <1>2, Present
  <1>5. \A p \in Carried : offers[p].stored => offers[p].value <= current[p] /\ offers[p].at <= Stamp
    BY <1>1, <1>3, BasicTypes DEF Shown
  <1>6. ASSUME NEW j \in 1..Len(page.items)
        PROVE  /\ page.items[j].value <= current[page.items[j].product]
               /\ page.items[j].at = Stamp => page.items[j].value = current[page.items[j].product]
    <2>1. /\ page.items[j].product \in Carried /\ page.items[j].at \in Nat /\ page.items[j].at <= Stamp
          /\ page.items[j].value = line[page.items[j].product][page.items[j].at]
      BY <1>1, BasicTypes DEF Shown
    <2> QED
      BY <1>3, <1>4, <2>1
  <1>7. ASSUME NEW i \in 1..Len(log)
        PROVE  /\ log[i].value <= current[log[i].product]
               /\ \A j \in 1..Len(page.items) :
                    page.items[j].product = log[i].product /\ page.items[j].at = log[i].at
                      => page.items[j].value = log[i].value
    <2>1. /\ log[i].product \in Carried /\ log[i].at \in Nat /\ log[i].at <= Stamp
          /\ log[i].value = line[log[i].product][log[i].at]
      BY <1>1, BasicTypes DEF Shown
    <2>2. \A j \in 1..Len(page.items) : page.items[j].value = line[page.items[j].product][page.items[j].at]
      BY <1>1 DEF Shown
    <2> QED
      BY <1>3, <2>1, <2>2
  <1> QED
    BY <1>5, <1>6, <1>7

\* The upsert of the page raises states, to those of the page, and not
\* beyond the present.
LEMMA PageRaises ==
  ASSUME StreamInv, SyncInv, Dates
  PROVE  \A p \in Carried :
           /\ Upsert(page.items)[p].value \in Nat
           /\ offers[p].value <= Upsert(page.items)[p].value
           /\ \A j \in 1..Len(page.items) :
                page.items[j].product = p => page.items[j].value <= Upsert(page.items)[p].value
           /\ Upsert(page.items)[p].stored =>
                Upsert(page.items)[p].value <= current[p] /\ Upsert(page.items)[p].at <= Stamp
  <1> DEFINE up == Upsert(page.items)
  <1>1. PICK line \in [Carried -> [Nat -> Nat]] : Timeline(line) /\ Shown(line)
    BY DEF Dates
  <1> SUFFICES ASSUME NEW p \in Carried
               PROVE  /\ up[p].value \in Nat
                      /\ offers[p].value <= up[p].value
                      /\ \A j \in 1..Len(page.items) : page.items[j].product = p => page.items[j].value <= up[p].value
                      /\ up[p].stored => up[p].value <= current[p] /\ up[p].at <= Stamp
    OBVIOUS
  <1>2. /\ up \in [Carried -> Row]
        /\ offers[p].at <= up[p].at
        /\ offers[p].stored => up[p].stored
        /\ ~up[p].stored => up[p] = NoOffer
        /\ \/ up[p] = offers[p]
           \/ \E j \in 1..Len(page.items) : page.items[j].product = p /\ up[p] = Offer(page.items[j])
        /\ \A j \in 1..Len(page.items) : page.items[j].product = p => up[p].stored /\ up[p].at >= page.items[j].at
    BY PageUpserted
  <1> HIDE DEF up
  <1>3. up[p].value \in Nat /\ up[p].at \in Nat /\ up[p].stored \in BOOLEAN
    BY <1>2 DEF Row
  <1>4. up[p].stored => up[p].value = line[p][up[p].at] /\ up[p].at <= Stamp
    <2>1. CASE up[p] = offers[p]
      BY <1>1, <2>1 DEF Shown
    <2>2. ASSUME NEW j \in 1..Len(page.items), page.items[j].product = p, up[p] = Offer(page.items[j])
          PROVE  up[p].value = line[p][up[p].at] /\ up[p].at <= Stamp
      <3>1. up[p].value = page.items[j].value /\ up[p].at = page.items[j].at
        BY <2>2, OfferFields
      <3> QED
        BY <1>1, <2>2, <3>1, BasicTypes DEF Shown
    <2> QED
      BY <1>2, <2>1, <2>2
  <1>5. \A m, n \in Nat : m <= n => line[p][m] <= line[p][n]
    BY <1>1 DEF Timeline
  <1>6. offers[p].value <= up[p].value
    <2>1. CASE offers[p].stored
      <3>1. offers[p].value = line[p][offers[p].at] /\ offers[p].at \in Nat
        BY <1>1, <2>1, BasicTypes DEF Shown
      <3> QED
        BY <1>2, <1>3, <1>4, <1>5, <2>1, <3>1
    <2>2. CASE ~offers[p].stored
      <3>1. offers[p].value = 0
        BY <2>2 DEF SyncInv, SyncTypes, NoOffer
      <3> QED
        BY <1>3, <3>1
    <2> QED
      BY <2>1, <2>2
  <1>7. ASSUME NEW j \in 1..Len(page.items), page.items[j].product = p
        PROVE  page.items[j].value <= up[p].value
    <2>1. /\ page.items[j].value = line[p][page.items[j].at] /\ page.items[j].at \in Nat
          /\ up[p].stored /\ page.items[j].at <= up[p].at
      BY <1>1, <1>2, <1>3, <1>7, BasicTypes DEF Shown
    <2> QED
      BY <1>3, <1>4, <1>5, <2>1
  <1>8. up[p].stored => up[p].value <= current[p]
    <2>1. line[p][Stamp] = current[p] /\ Stamp \in Nat
      BY <1>1, BasicTypes, Present
    <2> QED
      BY <1>3, <1>4, <1>5, <2>1
  <1> QED
    BY <1>3, <1>4, <1>6, <1>7, <1>8

\* Rows of the page's and the history's states keep the dates.
LEMMA DatesKept ==
  ASSUME StreamInv, SyncInv, SyncInv', Dates, UNCHANGED <<current, clock, log>>,
         \A p \in Carried :
           \/ offers'[p] = offers[p]
           \/ \E j \in 1..Len(page.items) : page.items[j].product = p /\ offers'[p] = Offer(page.items[j]),
         \A j \in 1..Len(page'.items) :
           \/ \E k \in 1..Len(page.items) : page'.items[j] = page.items[k]
           \/ \E i \in 1..Len(log) : page'.items[j] = log[i]
           \/ page'.items[j].product \in Carried /\ page'.items[j].at = Stamp
              /\ page'.items[j].value = current[page'.items[j].product]
  PROVE  Dates'
  <1>1. PICK line \in [Carried -> [Nat -> Nat]] : Timeline(line) /\ Shown(line)
    BY DEF Dates
  <1>2. Stamp' = Stamp /\ Stamp \in Nat
    BY BasicTypes DEF Stamp
  <1>3. Timeline(line)'
    BY <1>1, <1>2 DEF Timeline
  <1>4. ASSUME NEW p \in Carried, offers'[p].stored
        PROVE  offers'[p].at <= Stamp /\ offers'[p].value = line[p][offers'[p].at]
    <2>1. CASE offers'[p] = offers[p]
      BY <1>1, <1>4, <2>1 DEF Shown
    <2>2. ASSUME NEW j \in 1..Len(page.items), page.items[j].product = p, offers'[p] = Offer(page.items[j])
          PROVE  offers'[p].at <= Stamp /\ offers'[p].value = line[p][offers'[p].at]
      <3>1. offers'[p].value = page.items[j].value /\ offers'[p].at = page.items[j].at
        BY <2>2, OfferFields, SMTT(20)
      <3> QED
        BY <1>1, <2>2, <3>1, BasicTypes DEF Shown
    <2> QED
      BY <2>1, <2>2
  <1>5. ASSUME NEW j \in 1..Len(page'.items)
        PROVE  page'.items[j].value = line[page'.items[j].product][page'.items[j].at]
    <2>1. ASSUME NEW k \in 1..Len(page.items), page'.items[j] = page.items[k]
          PROVE  page'.items[j].value = line[page'.items[j].product][page'.items[j].at]
      BY <1>1, <2>1 DEF Shown
    <2>2. ASSUME NEW i \in 1..Len(log), page'.items[j] = log[i]
          PROVE  page'.items[j].value = line[page'.items[j].product][page'.items[j].at]
      BY <1>1, <2>2, ZenonT(40) DEF Shown
    <2>3. ASSUME page'.items[j].product \in Carried, page'.items[j].at = Stamp,
                 page'.items[j].value = current[page'.items[j].product]
          PROVE  page'.items[j].value = line[page'.items[j].product][page'.items[j].at]
      BY <1>1, <1>2, <2>3, Present
    <2>4. \/ \E k \in 1..Len(page.items) : page'.items[j] = page.items[k]
          \/ \E i \in 1..Len(log) : page'.items[j] = log[i]
          \/ page'.items[j].product \in Carried /\ page'.items[j].at = Stamp
             /\ page'.items[j].value = current[page'.items[j].product]
      OBVIOUS
    <2> QED
      BY <2>1, <2>2, <2>3, <2>4
  <1>6. Shown(line)'
    BY <1>1, <1>2, <1>4, <1>5 DEF Shown
  <1> QED
    BY <1>3, <1>6 DEF Dates

\* Between two events the timeline is extended by the state after the second.
LEMMA Extension ==
  ASSUME NEW line \in [Carried -> [Nat -> Nat]], NEW stamp \in Nat, NEW new \in [Carried -> Nat],
         \A p \in Carried : \A m, n \in Nat : m <= n => line[p][m] <= line[p][n],
         \A p \in Carried : line[p][stamp] <= new[p]
  PROVE  \E next \in [Carried -> [Nat -> Nat]] :
           /\ \A p \in Carried : \A m, n \in Nat : m <= n => next[p][m] <= next[p][n]
           /\ \A p \in Carried : \A n \in Nat : n <= stamp => next[p][n] = line[p][n]
           /\ \A p \in Carried : \A n \in Nat : n > stamp => next[p][n] = new[p]
  <1> DEFINE At(p, n) == IF n <= stamp THEN line[p][n] ELSE new[p]
             grown == [p \in Carried |-> [n \in Nat |-> At(p, n)]]
  <1>1. \A p \in Carried, n \in Nat : line[p][n] \in Nat /\ new[p] \in Nat
    OBVIOUS
  <1>2. \A p \in Carried, n \in Nat : At(p, n) \in Nat
    BY <1>1
  <1>3. ASSUME NEW p \in Carried, NEW m \in Nat, NEW n \in Nat, m <= n PROVE At(p, m) <= At(p, n)
    <2>1. /\ line[p][m] \in Nat /\ line[p][n] \in Nat /\ line[p][stamp] \in Nat /\ new[p] \in Nat
          /\ line[p][m] <= line[p][n] /\ line[p][stamp] <= new[p]
          /\ m <= stamp => line[p][m] <= line[p][stamp]
      BY <1>1, <1>3
    <2> QED
      BY <1>3, <2>1
  <1>4. \A p \in Carried, n \in Nat : /\ n <= stamp => At(p, n) = line[p][n]
                                      /\ n > stamp => At(p, n) = new[p]
    OBVIOUS
  <1> HIDE DEF At
  <1>5. grown \in [Carried -> [Nat -> Nat]] /\ \A p \in Carried, n \in Nat : grown[p][n] = At(p, n)
    BY <1>2
  <1> HIDE DEF grown
  <1>6. \A p \in Carried : \A m, n \in Nat : m <= n => grown[p][m] <= grown[p][n]
    BY <1>3, <1>5
  <1>7. /\ \A p \in Carried : \A n \in Nat : n <= stamp => grown[p][n] = line[p][n]
        /\ \A p \in Carried : \A n \in Nat : n > stamp => grown[p][n] = new[p]
    BY <1>4, <1>5
  <1> QED
    BY <1>5, <1>6, <1>7

\* What an event adds to the history is after all stamps, and the state that
\* is present from then on.
AddsPresent ==
  \A i \in 1..Len(log') :
    \/ i \in 1..Len(log) /\ log'[i] = log[i]
    \/ /\ log'[i].at > Stamp /\ log'[i].at \in Nat /\ log'[i].product \in Carried
       /\ log'[i].value = current'[log'[i].product]

LEMMA DatesGrow ==
  ASSUME StreamInv, SyncInv, Dates, clock' = clock + 1, offers' = offers,
         page' = page \/ page' = NoPage,
         current' \in [Carried -> Nat], \A p \in Carried : current[p] <= current'[p],
         AddsPresent
  PROVE  Dates'
  <1>1. PICK line \in [Carried -> [Nat -> Nat]] : Timeline(line) /\ Shown(line)
    BY DEF Dates
  <1>2. Stamp \in Nat /\ Stamp' \in Nat /\ Stamp < Stamp'
    <2>1. clock \in Nat
      BY BasicTypes
    <2> QED
      BY <2>1 DEF Stamp
  <1>3. PICK next \in [Carried -> [Nat -> Nat]] :
           /\ \A p \in Carried : \A m, n \in Nat : m <= n => next[p][m] <= next[p][n]
           /\ \A p \in Carried : \A n \in Nat : n <= Stamp => next[p][n] = line[p][n]
           /\ \A p \in Carried : \A n \in Nat : n > Stamp => next[p][n] = current'[p]
    <2>1. \A p \in Carried : \A m, n \in Nat : m <= n => line[p][m] <= line[p][n]
      BY <1>1 DEF Timeline
    <2>2. \A p \in Carried : line[p][Stamp] <= current'[p]
      BY <1>1, <1>2, Present
    <2> QED
      BY <1>2, <2>1, <2>2, Extension, ZenonT(40)
  <1>4. Timeline(next)'
    <2>1. \A n \in Nat : n >= Stamp' => n > Stamp
      BY <1>2
    <2> QED
      BY <1>3, <2>1 DEF Timeline
  <1>5. ASSUME NEW p \in Carried, offers[p].stored
        PROVE  offers[p].at <= Stamp' /\ offers[p].value = next[p][offers[p].at]
    <2>1. offers[p].at \in Nat /\ offers[p].at <= Stamp /\ offers[p].value = line[p][offers[p].at]
      BY <1>1, <1>5, BasicTypes DEF Shown
    <2>2. offers[p].at <= Stamp'
      BY <1>2, <2>1
    <2> QED
      BY <1>3, <2>1, <2>2
  <1>6. ASSUME NEW j \in 1..Len(page'.items)
        PROVE  page'.items[j].value = next[page'.items[j].product][page'.items[j].at]
    <2>1. page' = page
      BY <1>6 DEF NoPage
    <2>2. /\ page.items[j].product \in Carried /\ page.items[j].at \in Nat /\ page.items[j].at <= Stamp
          /\ page.items[j].value = line[page.items[j].product][page.items[j].at]
      BY <1>1, <1>6, <2>1, BasicTypes DEF Shown
    <2> QED
      BY <1>3, <2>1, <2>2
  <1>7. ASSUME NEW i \in 1..Len(log')
        PROVE  log'[i].value = next[log'[i].product][log'[i].at]
    <2>1. CASE i \in 1..Len(log) /\ log'[i] = log[i]
      <3>1. /\ log[i].product \in Carried /\ log[i].at \in Nat /\ log[i].at <= Stamp
            /\ log[i].value = line[log[i].product][log[i].at]
        BY <1>1, <2>1, BasicTypes DEF Shown
      <3>2. next[log[i].product][log[i].at] = line[log[i].product][log[i].at]
        BY <1>3, <3>1
      <3>3. log'[i].value = log[i].value /\ log'[i].product = log[i].product /\ log'[i].at = log[i].at
        BY <2>1
      <3> QED
        BY <3>1, <3>2, <3>3
    <2>2. CASE /\ log'[i].at > Stamp /\ log'[i].at \in Nat /\ log'[i].product \in Carried
               /\ log'[i].value = current'[log'[i].product]
      BY <1>3, <2>2
    <2> QED
      BY <2>1, <2>2 DEF AddsPresent
  <1>8. Shown(next)'
    BY <1>5, <1>6, <1>7 DEF Shown
  <1> QED
    BY <1>3, <1>4, <1>8 DEF Dates

-----------------------------------------------------------------------------
(* The steps of the worker and of its requests.                            *)

LEMMA ReadBackHolds ==
  ASSUME NEW c \in Cursor, NEW e, NEW h, NEW rows, NEW now, HoldsIn(c, e, h, rows, now)
  PROVE  HoldsIn(Parse(Encode(c)), e, h, rows, now)
  BY ReadBack, Zenon DEF HoldsIn

\* What the feed shows stays so while neither it nor the offers change.
LEMMA FeedFaithRests ==
  ASSUME StreamInv, SyncInv, SyncInv', FaithInv, UNCHANGED <<streamVars, offers, seen>>,
         \A j \in 1..Len(page'.items) :
           \/ \E k \in 1..Len(page.items) : page'.items[j] = page.items[k]
           \/ \E i \in 1..Len(log) : page'.items[j] = log[i]
           \/ page'.items[j].product \in Carried /\ page'.items[j].at = Stamp
              /\ page'.items[j].value = current[page'.items[j].product]
  PROVE  FeedFaith'
  <1>1. UNCHANGED <<current, clock, log, made, seen>> /\ offers' = offers
    BY DEF streamVars
  <1>2. Dates'
    BY <1>1, DatesKept DEF FaithInv, FeedFaith
  <1>3. Bounded' /\ Tells'
    BY <1>1 DEF FaithInv, FeedFaith, Bounded, Tells
  <1> QED
    BY <1>2, <1>3 DEF FeedFaith

\* The worker gives up its page.
LEMMA RestFaith ==
  ASSUME StreamInv, SyncInv, SyncInv', FaithInv, UNCHANGED <<streamVars, offers, seen>>,
         wk' \in {"fetch", "sleep"}, page' = NoPage, Positions', Synced'
  PROVE  FaithInv'
  <1>1. Len(page'.items) = 0
    BY DEF NoPage
  <1>2. FeedFaith'
    BY <1>1, FeedFaithRests
  <1>3. PagesFaith'
    BY DEF PagesFaith, ReadIsCurrent, CatalogHolds, LastPage, WaitHolds
  <1> QED
    BY <1>2, <1>3 DEF FaithInv

LEMMA SaveHolds ==
  ASSUME SyncInv, SyncInv', FaithInv, UNCHANGED <<streamVars, offers>>, Holds(cs)', SaveOrNot(cs')
  PROVE  Positions'
  <1>1. epoch' = epoch /\ log' = log /\ offers' = offers /\ current' = current
    BY DEF streamVars
  <1>2. HoldsIn(cs', epoch, log, offers, current) /\ cs' \in Cursor
    BY <1>1 DEF Holds, SyncInv, Claims, Claim, ClaimIn
  <1>3. CASE saved' = Encode(cs')
    <2>1. HoldsIn(Parse(Encode(cs')), epoch, log, offers, current)
      BY <1>2, ReadBackHolds
    <2> QED
      BY <1>1, <1>2, <1>3, <2>1 DEF Positions, Holds
  <1>4. CASE saved' = saved
    BY <1>1, <1>2, <1>4 DEF Positions, Holds, FaithInv
  <1> QED
    BY <1>3, <1>4 DEF SaveOrNot

LEMMA FreshIsFaithful == SyncInv => HoldsIn(Fresh, epoch, log, offers, current)
  BY FreshIsCursor DEF SyncInv, SyncTypes, HoldsIn

LEMMA ResyncFaith == StreamInv /\ SyncInv /\ SyncInv' /\ FaithInv /\ Resync => FaithInv'
  <1> SUFFICES ASSUME StreamInv, SyncInv, SyncInv', FaithInv, Resync PROVE FaithInv'
    OBVIOUS
  <1>1. /\ cs' = Fresh /\ SaveOrNot(cs') /\ wk' = "fetch" /\ page' = NoPage
        /\ UNCHANGED <<streamVars, offers, seen>>
    BY DEF Resync, FromStart
  <1>2. Holds(cs)'
    BY <1>1, FreshIsFaithful DEF Holds, streamVars
  <1>3. Positions' /\ Synced'
    BY <1>1, <1>2, SaveHolds DEF Synced
  <1> QED
    BY <1>1, <1>3, RestFaith

LEMMA IdleFaith ==
  StreamInv /\ SyncInv /\ SyncInv' /\ FaithInv /\ (RequestFails \/ Poll \/ CrashRestart) => FaithInv'
  <1> SUFFICES ASSUME StreamInv, SyncInv, SyncInv', FaithInv, RequestFails \/ Poll \/ CrashRestart
               PROVE FaithInv'
    OBVIOUS
  <1>1. CASE RequestFails
    <2>1. UNCHANGED <<streamVars, cs, saved, offers, seen>> /\ wk' = "fetch" /\ page' = NoPage
      BY <1>1 DEF RequestFails
    <2>2. Positions' /\ Synced'
      BY <2>1 DEF FaithInv, Positions, Holds, streamVars, Synced
    <2> QED
      BY <2>1, <2>2, RestFaith
  <1>2. CASE Poll
    <2>1. UNCHANGED <<streamVars, cs, saved, offers, page, seen>> /\ wk' = "fetch"
      BY <1>2 DEF Poll
    <2>2. Positions'
      BY <2>1 DEF FaithInv, Positions, Holds, streamVars
    <2>3. FeedFaith'
      BY <2>1, FeedFaithRests
    <2>4. PagesFaith'
      BY <2>1 DEF PagesFaith, ReadIsCurrent, CatalogHolds, LastPage, WaitHolds, Synced
    <2> QED
      BY <2>2, <2>3, <2>4 DEF FaithInv
  <1>3. CASE CrashRestart
    <2>1. /\ UNCHANGED <<streamVars, saved, offers, seen>> /\ cs' \in {Parse(saved), Fresh}
          /\ wk' = "fetch" /\ page' = NoPage
      BY <1>3 DEF CrashRestart
    <2>2. Positions' /\ Synced'
      BY <2>1, FreshIsFaithful DEF FaithInv, Positions, Holds, streamVars, Synced
    <2> QED
      BY <2>1, <2>2, RestFaith
  <1> QED
    BY <1>1, <1>2, <1>3

\* Building a page of the catalog: nothing ticks between a read and a stamp.
LEMMA BuildFaith ==
  ASSUME StreamInv, SyncInv, SyncInv', FaithInv,
         RequestCatalog \/ SkipUncarried \/ Read \/ StampItem \/ RespondCatalog
  PROVE  FaithInv'
  <1>1. /\ UNCHANGED <<streamVars, cs, saved, offers, seen>> /\ wk' \in {"building", "catalog"}
        /\ current' = current /\ log' = log /\ epoch' = epoch /\ Stamp' = Stamp
    BY DEF RequestCatalog, SkipUncarried, Read, StampItem, RespondCatalog, streamVars, Stamp
  <1>2. Positions'
    BY <1>1 DEF FaithInv, Positions, Holds
  <1>3. LastPage' /\ WaitHolds' /\ Synced'
    BY <1>1 DEF LastPage, WaitHolds, Synced
  <1>4. wk = "building" => page \in [items : Seq(Item), next : 0..Size, read : 0..Unread, value : Nat]
    BY DEF SyncInv, Pages, PageTypes
  <1>5. CASE RequestCatalog
    <2>1. /\ wk' = "building"
          /\ page' = [items |-> <<>>, next |-> cs.cat, read |-> Unread, value |-> 0]
      BY <1>5 DEF RequestCatalog
    <2>2. Len(page'.items) = 0 /\ page'.read = Unread
      BY <2>1
    <2>3. FeedFaith'
      BY <1>1, <2>2, FeedFaithRests
    <2>4. ReadIsCurrent' /\ CatalogHolds'
      BY <2>1, <2>2 DEF ReadIsCurrent, CatalogHolds, Unread
    <2> QED
      BY <1>2, <1>3, <2>3, <2>4 DEF FaithInv, PagesFaith
  <1>6. CASE SkipUncarried
    <2>1. wk = "building" /\ wk' = "building" /\ page' = [page EXCEPT !.next = page.next + 1]
      BY <1>6 DEF SkipUncarried
    <2>2. page'.items = page.items /\ page'.read = page.read /\ page'.value = page.value
      BY <1>4, <2>1
    <2>3. FeedFaith'
      BY <1>1, <2>2, FeedFaithRests
    <2>4. ReadIsCurrent' /\ CatalogHolds'
      BY <1>1, <2>1, <2>2 DEF FaithInv, PagesFaith, ReadIsCurrent, CatalogHolds, Unread
    <2> QED
      BY <1>2, <1>3, <2>3, <2>4 DEF FaithInv, PagesFaith
  <1>7. CASE Read
    <2>1. /\ wk = "building" /\ wk' = "building"
          /\ page' = [page EXCEPT !.read = page.next, !.value = current[page.next]]
      BY <1>7 DEF Read
    <2>2. page'.items = page.items /\ page'.read = page.next /\ page'.value = current[page.next]
      BY <1>4, <2>1
    <2>3. FeedFaith'
      BY <1>1, <2>2, FeedFaithRests
    <2>4. ReadIsCurrent' /\ CatalogHolds'
      BY <1>1, <2>1, <2>2 DEF ReadIsCurrent, CatalogHolds, Unread
    <2> QED
      BY <1>2, <1>3, <2>3, <2>4 DEF FaithInv, PagesFaith
  <1>8. CASE StampItem
    <2> DEFINE item == [product |-> page.read, value |-> page.value, at |-> Stamp]
    <2>1. /\ wk = "building" /\ wk' = "building" /\ page.read # Unread
          /\ page' = [page EXCEPT !.items = Append(page.items, item),
                                  !.next = page.next + 1, !.read = Unread, !.value = 0]
      BY <1>8 DEF StampItem
    <2>2. page.read \in Carried /\ page.value = current[page.read] /\ Stamp \in Nat /\ page.items \in Seq(Item)
      BY <1>4, <2>1, BasicTypes DEF FaithInv, PagesFaith, ReadIsCurrent, SyncInv, Pages, PageTypes
    <2>3. item.product = page.read /\ item.at = Stamp /\ item.value = current[page.read]
      BY <2>2
    <2>4. item \in Item
      <3>1. page.value \in Nat
        BY <1>4, <2>1
      <3> QED
        BY <2>2, <3>1 DEF Item
    <2> HIDE DEF item
    <2> DEFINE grown == Append(page.items, item)
    <2>5. /\ Len(grown) = Len(page.items) + 1 /\ Len(page.items) \in Nat
          /\ grown[Len(page.items) + 1] = item
          /\ \A j \in 1..Len(page.items) : grown[j] = page.items[j]
      BY <2>2, <2>4
    <2> HIDE DEF grown
    <2>6. page'.items = grown /\ page'.read = Unread
      BY <1>4, <2>1 DEF grown
    <2>7. ASSUME NEW j \in 1..Len(grown)
          PROVE  \/ \E k \in 1..Len(page.items) : grown[j] = page.items[k]
                 \/ grown[j].product \in Carried /\ grown[j].at = Stamp
                    /\ grown[j].value = current[grown[j].product]
      <3>1. CASE j \in 1..Len(page.items)
        BY <2>5, <3>1
      <3>2. CASE j = Len(page.items) + 1
        BY <2>2, <2>3, <2>5, <3>2
      <3> QED
        BY <2>5, <3>1, <3>2
    <2>8. FeedFaith'
      BY <1>1, <2>6, <2>7, FeedFaithRests
    <2>9. ReadIsCurrent' /\ CatalogHolds'
      BY <2>1, <2>6 DEF ReadIsCurrent, CatalogHolds, Unread
    <2> QED
      BY <1>2, <1>3, <2>8, <2>9 DEF FaithInv, PagesFaith
  <1>9. CASE RespondCatalog
    <2>1. /\ wk = "building" /\ wk' = "catalog" /\ page'.items = page.items
      BY <1>9 DEF RespondCatalog
    <2>2. FeedFaith'
      BY <1>1, <2>1, FeedFaithRests
    <2>3. \A j \in 1..Len(page.items) : page.items[j].value = current[page.items[j].product]
      BY <2>1, StatesAreBounded DEF SyncInv, Pages, JustStamped, FaithInv, FeedFaith
    <2>4. ReadIsCurrent' /\ CatalogHolds'
      BY <1>1, <2>1, <2>3 DEF ReadIsCurrent, CatalogHolds, FinalIn
    <2> QED
      BY <1>2, <1>3, <2>2, <2>4 DEF FaithInv, PagesFaith
  <1> QED
    BY <1>5, <1>6, <1>7, <1>8, <1>9

\* The answer to /offers; when it says there is no more, it and the offers
\* are the feed.
LEMMA RequestOffersFaith ==
  ASSUME StreamInv, SyncInv, SyncInv', FaithInv, RequestOffers
  PROVE  FaithInv'
  <1>1. /\ UNCHANGED <<streamVars, cs, saved, offers>> /\ wk' = "offers" /\ seen' = current
        /\ current' = current /\ log' = log /\ epoch' = epoch /\ clock' = clock /\ made' = made
        /\ cs.phase = "offers"
    BY DEF RequestOffers, streamVars
  <1>2. /\ cs.seq \in Nat /\ cs.seq <= page'.next /\ page'.next \in Nat /\ page'.next <= Len(log)
        /\ page'.items \in Seq(Update) /\ Len(page'.items) = page'.next - cs.seq
        /\ \A j \in 1..Len(page'.items) : page'.items[j] = log[cs.seq + j]
        /\ page'.epoch = epoch /\ (page'.more <=> page'.next < Len(log))
        /\ page'.items = <<>> => ~page'.more
    BY OffersAnswer
  <1>3. /\ Len(log) \in Nat /\ current \in [Carried -> Nat] /\ Dates /\ Tells /\ Bounded
        /\ \A p \in Carried : offers[p].value \in Nat /\ current[p] \in Nat
    BY BasicTypes DEF SyncInv, SyncTypes, FaithInv, FeedFaith
  <1>4. \A j \in 1..Len(page'.items) : cs.seq + j \in 1..Len(log) /\ page'.items[j] = log[cs.seq + j]
    BY <1>2, <1>3
  <1>5. Dates'
    BY <1>1, <1>3, <1>4, DatesKept
  <1>6. Bounded' /\ Tells'
    BY <1>1, <1>3, SMTT(20) DEF Bounded, Tells
  <1>7. Positions'
    BY <1>1 DEF FaithInv, Positions, Holds
  <1>8. LastPage'
    <2> SUFFICES ASSUME epoch = cs.epoch, ~page'.more, NEW p \in Carried
                 PROVE  /\ offers[p].stored /\ offers[p].value <= current[p]
                        /\ \A j \in 1..Len(page'.items) : page'.items[j].product = p => page'.items[j].value <= current[p]
                        /\ \/ offers[p].value = current[p]
                           \/ \E j \in 1..Len(page'.items) : page'.items[j].product = p /\ page'.items[j].value = current[p]
      BY <1>1, <1>2 DEF LastPage
    <2>1. offers[p].stored /\ FinalIn(p, cs.seq, offers[p].value, log, current)
      BY <1>1 DEF FaithInv, Positions, Holds, HoldsIn, Passed
    <2>2. offers[p].value <= current[p]
      BY <1>3, <2>1, StatesAreBounded
    <2>3. ASSUME NEW j \in 1..Len(page'.items), page'.items[j].product = p PROVE page'.items[j].value <= current[p]
      <3>1. cs.seq + j \in 1..Len(log) /\ page'.items[j] = log[cs.seq + j]
        BY <1>4
      <3> QED
        BY <1>3, <2>3, <3>1, StatesAreBounded
    <2>4. page'.next = Len(log)
      BY <1>2, <1>3
    <2>5. CASE \A i \in 1..Len(log) : i > cs.seq => log[i].product # p
      <3>1. offers[p].value = current[p]
        BY <2>1, <2>5 DEF FinalIn
      <3> QED
        BY <2>1, <2>2, <2>3, <3>1
    <2>6. CASE \E i \in 1..Len(log) : i > cs.seq /\ log[i].product = p
      <3>1. cs.seq \in 0..Len(log)
        BY <1>2, <1>3
      <3>2. PICK i \in 1..Len(log) : i > cs.seq /\ log[i].product = p /\ log[i].value = current[p]
        BY <1>3, <2>6, <3>1 DEF Tells
      <3>3. i - cs.seq \in 1..Len(page'.items) /\ cs.seq + (i - cs.seq) = i
        BY <1>2, <1>3, <2>4, <3>2
      <3>4. page'.items[i - cs.seq] = log[i]
        BY <1>2, <3>3
      <3>5. \E j \in 1..Len(page'.items) : page'.items[j].product = p /\ page'.items[j].value = current[p]
        BY <3>2, <3>3, <3>4
      <3> QED
        BY <2>1, <2>2, <2>3, <3>5
    <2> QED
      BY <2>5, <2>6
  <1>9. ReadIsCurrent' /\ CatalogHolds' /\ WaitHolds' /\ Synced'
    BY <1>1 DEF ReadIsCurrent, CatalogHolds, WaitHolds, Synced
  <1> QED
    BY <1>5, <1>6, <1>7, <1>8, <1>9 DEF FaithInv, FeedFaith, PagesFaith

\* A row that rises, and not beyond the present, holds what it held.
LEMMA RaisedHolds ==
  ASSUME StreamInv, SyncInv, Dates, NEW c, HoldsIn(c, epoch, log, offers, current)
  PROVE  HoldsIn(c, epoch, log, Upsert(page.items), current)
  <1> DEFINE up == Upsert(page.items)
  <1> SUFFICES ASSUME c.epoch = epoch, NEW p \in Carried, Passed(c, p)
               PROVE  up[p].stored /\ FinalIn(p, c.seq, up[p].value, log, current)
    BY DEF HoldsIn
  <1>1. offers[p].stored /\ FinalIn(p, c.seq, offers[p].value, log, current)
    BY DEF HoldsIn
  <1>2. up[p].stored
    BY <1>1, PageUpserted
  <1>3. /\ up[p].value \in Nat /\ offers[p].value \in Nat /\ current[p] \in Nat
        /\ offers[p].value <= up[p].value /\ up[p].value <= current[p]
    BY <1>2, PageRaises, BasicTypes
  <1> HIDE DEF up
  <1> QED
    BY <1>1, <1>2, <1>3 DEF FinalIn

\* The worker's step with a page.
LEMMA ProcessFaith ==
  ASSUME StreamInv, SyncInv, SyncInv', FaithInv, Process, wk \in {"catalog", "offers"},
         HoldsIn(cs', epoch, log, offers, current),
         HoldsIn(AdvancedTo(cs', page.next), epoch, log, Upsert(page.items), current),
         cs'.phase = "offers" /\ ~page.more =>
           \A p \in Carried : Upsert(page.items)[p].stored /\ Upsert(page.items)[p].value = seen[p]
  PROVE  FaithInv'
  <1>0. /\ UNCHANGED <<streamVars, saved, seen>> /\ epoch' = epoch /\ log' = log /\ current' = current
        /\ clock' = clock /\ made' = made
    BY DEF Process, streamVars
  <1>1. CASE wk' = "wait" /\ offers' = Upsert(page.items) /\ page' = page
    <2>1. Dates'
      <3>1. \A p \in Carried :
              \/ offers'[p] = offers[p]
              \/ \E j \in 1..Len(page.items) : page.items[j].product = p /\ offers'[p] = Offer(page.items[j])
        BY <1>1, PageUpserted
      <3> QED
        BY <1>0, <1>1, <3>1, DatesKept DEF FaithInv, FeedFaith
    <2>2. Bounded' /\ Tells'
      BY <1>0 DEF FaithInv, FeedFaith, Bounded, Tells
    <2>3. Positions'
      <3>1. HoldsIn(cs', epoch, log, Upsert(page.items), current)
        BY RaisedHolds DEF FaithInv, FeedFaith
      <3>2. HoldsIn(Parse(saved), epoch, log, Upsert(page.items), current)
        BY RaisedHolds DEF FaithInv, FeedFaith, Positions, Holds
      <3> QED
        BY <1>0, <1>1, <3>1, <3>2 DEF Positions, Holds
    <2>4. WaitHolds'
      BY <1>0, <1>1 DEF WaitHolds, Holds, Advanced, InSync
    <2>5. ReadIsCurrent' /\ CatalogHolds' /\ LastPage' /\ Synced'
      BY <1>1 DEF ReadIsCurrent, CatalogHolds, LastPage, Synced
    <2> QED
      BY <2>1, <2>2, <2>3, <2>4, <2>5 DEF FaithInv, FeedFaith, PagesFaith
  <1>2. CASE wk' = "fetch" /\ page' = NoPage /\ UNCHANGED offers
    <2>1. Positions' /\ Synced'
      BY <1>0, <1>2 DEF FaithInv, Positions, Holds, Synced
    <2> QED
      BY <1>0, <1>2, <2>1, RestFaith
  <1> QED
    BY <1>1, <1>2 DEF Process

\* A page of the catalog: a product of it that no later update names is in
\* its present state.
LEMMA HandleCatalogFaith ==
  ASSUME StreamInv, SyncInv, SyncInv', FaithInv, HandleCatalog
  PROVE  FaithInv'
  <1> DEFINE up == Upsert(page.items)
  <1>0. /\ wk = "catalog" /\ cs \in Cursor /\ cs.phase = "catalog" /\ cs.cat \in Nat /\ cs.seq \in Nat
        /\ page.next \in Nat /\ page.asOf \in Nat /\ Dates /\ epoch \in Nat /\ Len(log) \in Nat
        /\ Holds(cs)
    <2>1. wk = "catalog"
      BY DEF HandleCatalog, Resync
    <2>2. cs.phase = "catalog" /\ page.next \in 0..Size /\ page.asOf \in Nat
      BY <2>1 DEF SyncInv, Pages, PageTypes
    <2>3. page.next \in Nat
      BY <2>2
    <2> QED
      BY <2>1, <2>2, <2>3, BasicTypes DEF FaithInv, FeedFaith, Positions
  <1>1. CASE Resync
    BY <1>1, ResyncFaith
  <1>2. CASE /\ Process
             /\ \/ FirstPage(cs) /\ cs' = [cs EXCEPT !.epoch = page.epoch, !.seq = page.asOf]
                \/ ~FirstPage(cs) /\ page.epoch = cs.epoch /\ cs' = cs
    <2>0. cs' \in Cursor
      BY DEF SyncInv, Claims, Claim, ClaimIn
    <2>1. /\ cs'.phase = "catalog" /\ cs'.cat = cs.cat /\ cs'.epoch = page.epoch /\ cs'.seq \in Nat
          /\ \/ cs.cat = 0 /\ cs'.seq = page.asOf
             \/ cs' = cs
      BY <1>0, <1>2, <2>0 DEF Cursor, FirstPage
    <2>2. HoldsIn(cs', epoch, log, offers, current)
      <3>1. CASE cs.cat = 0
        <4>1. \A p \in Carried : ~Passed(cs', p)
          BY <2>1, <3>1, IndexesAreNat DEF Passed
        <4> QED
          BY <4>1 DEF HoldsIn
      <3>2. CASE cs' = cs
        BY <1>0, <3>2 DEF Holds
      <3> QED
        BY <2>1, <3>1, <3>2
    <2> DEFINE adv == AdvancedTo(cs', page.next)
    <2>3. /\ adv.epoch = cs'.epoch /\ adv.seq = cs'.seq
          /\ \A p \in Carried : Passed(adv, p) <=> p < page.next
      BY <1>0, <2>0, <2>1, Advances
    <2>4. ASSUME cs'.epoch = epoch, NEW p \in Carried, p < page.next
          PROVE  up[p].stored /\ FinalIn(p, cs'.seq, up[p].value, log, current)
      <3>0. p \in Nat /\ up[p].value \in Nat /\ current[p] \in Nat
        BY <1>0, IndexesAreNat, PageRaises, BasicTypes
      <3>1. CASE cs.cat <= p
        <4>1. PICK j \in 1..Len(page.items) : page.items[j].product = p
          BY <1>0, <2>4, <3>1 DEF SyncInv, Pages, Listed
        <4>2. up[p].stored
          BY <4>1, PageUpserted
        <4>3. page.items[j].value <= up[p].value /\ up[p].value <= current[p] /\ page.items[j].value \in Nat
          BY <1>0, <4>1, <4>2, PageRaises, BasicTypes
        <4>4. FinalIn(p, page.asOf, page.items[j].value, log, current)
          BY <1>0, <2>1, <2>4, <4>1 DEF FaithInv, PagesFaith, CatalogHolds
        <4>5. cs'.seq <= page.asOf
          <5>1. cs.epoch = epoch => cs.seq <= page.asOf
            BY <1>0, <2>1, <2>4 DEF SyncInv, Pages, CatalogPage
          <5> QED
            BY <1>0, <2>1, <2>4, <5>1
        <4> HIDE DEF up
        <4>6. ASSUME \A i \in 1..Len(log) : i > cs'.seq => log[i].product # p
              PROVE  up[p].value = current[p]
          <5>1. \A i \in 1..Len(log) : i > page.asOf => i > cs'.seq
            BY <1>0, <2>1, <4>5
          <5>2. page.items[j].value = current[p]
            BY <4>4, <4>6, <5>1 DEF FinalIn
          <5> QED
            BY <3>0, <4>3, <5>2
        <4> QED
          BY <4>2, <4>6 DEF FinalIn
      <3>2. CASE p < cs.cat
        <4>1. cs' = cs
          BY <1>0, <2>1, <3>0, <3>2
        <4>2. HoldsIn(cs', epoch, log, up, current)
          BY <1>0, <2>2, RaisedHolds
        <4> HIDE DEF up
        <4> QED
          BY <2>4, <3>2, <4>1, <4>2 DEF HoldsIn, Passed
      <3> QED
        BY <1>0, <3>0, <3>1, <3>2
    <2> HIDE DEF adv, up
    <2>5. HoldsIn(adv, epoch, log, up, current)
      BY <2>3, <2>4 DEF HoldsIn
    <2> QED
      BY <1>0, <1>2, <2>1, <2>2, <2>5, ProcessFaith DEF adv, up
  <1> QED
    BY <1>1, <1>2 DEF HandleCatalog

\* A page of updates: a product that no update after it names was last named
\* in it, or not since the position.
LEMMA HandleOffersFaith ==
  ASSUME StreamInv, SyncInv, SyncInv', FaithInv, HandleOffers
  PROVE  FaithInv'
  <1> DEFINE up == Upsert(page.items)
  <1>0. /\ wk = "offers" /\ cs \in Cursor /\ cs.phase = "offers" /\ cs.seq \in Nat
        /\ page.next \in Nat /\ Dates /\ Tells /\ epoch \in Nat /\ Len(log) \in Nat
        /\ Holds(cs) /\ LastPage /\ Bounded
    <2>1. wk = "offers"
      BY DEF HandleOffers, Resync
    <2>2. cs.phase = "offers" /\ page.next \in Nat
      BY <2>1 DEF SyncInv, Pages, PageTypes
    <2> QED
      BY <2>1, <2>2, BasicTypes DEF FaithInv, FeedFaith, Positions, PagesFaith
  <1>1. CASE Resync
    BY <1>1, ResyncFaith
  <1>2. CASE /\ ~Foreign(cs) /\ page.items = <<>>
             /\ wk' = "sleep" /\ page' = NoPage
             /\ UNCHANGED <<streamVars, cs, saved, offers, seen>>
    <2>1. Positions'
      BY <1>2 DEF FaithInv, Positions, Holds, streamVars
    <2>2. InSync
      <3>1. page.epoch = cs.epoch /\ ~page.more /\ ~\E j \in 1..Len(page.items) : TRUE
        BY <1>0, <1>2 DEF Foreign, LastPage
      <3> QED
        BY <1>0, <3>1 DEF LastPage, InSync
    <2>3. Synced'
      BY <1>2, <2>2 DEF InSync, Synced
    <2> QED
      BY <1>2, <2>1, <2>3, RestFaith
  <1>3. CASE ~Foreign(cs) /\ cs' = cs /\ Process
    <2> DEFINE adv == AdvancedTo(cs', page.next)
    <2>1. adv.epoch = cs.epoch /\ adv.phase = "offers" /\ adv.seq = page.next
      BY <1>0, <1>3, Advances
    <2>2. HoldsIn(cs', epoch, log, offers, current) /\ HoldsIn(cs', epoch, log, up, current)
      BY <1>0, <1>3, RaisedHolds DEF Holds
    <2>3. \A p \in Carried : up[p].value \in Nat /\ current[p] \in Nat
      BY <1>0, PageRaises, BasicTypes
    <2>4. ASSUME cs.epoch = epoch, NEW p \in Carried
          PROVE  up[p].stored /\ FinalIn(p, page.next, up[p].value, log, current)
      <3>1. up[p].stored /\ FinalIn(p, cs.seq, up[p].value, log, current)
        BY <1>0, <1>3, <2>2, <2>4 DEF HoldsIn, Passed
      <3>2. up[p].value <= current[p]
        BY <1>0, <3>1, PageRaises
      <3>3. ASSUME \A i \in 1..Len(log) : i > page.next => log[i].product # p
            PROVE  up[p].value = current[p]
        <4>1. CASE \A i \in 1..Len(log) : i > cs.seq => log[i].product # p
          BY <3>1, <4>1 DEF FinalIn
        <4>2. CASE \E i \in 1..Len(log) : i > cs.seq /\ log[i].product = p
          <5>1. cs.seq \in 0..Len(log)
            BY <1>0, <2>4 DEF SyncInv, Claims, Claim, ClaimIn
          <5>2. PICK i \in 1..Len(log) : i > cs.seq /\ log[i].product = p /\ log[i].value = current[p]
            BY <1>0, <4>2, <5>1 DEF Tells
          <5>3. i <= page.next
            BY <1>0, <3>3, <5>2
          <5>4. PICK j \in 1..Len(page.items) : page.items[j].product = log[i].product /\ page.items[j].at = log[i].at
            BY <1>0, <1>3, <2>4, <5>2, <5>3 DEF Foreign, SyncInv, Pages, OffersPage
          <5>5. page.items[j].value = current[p]
            BY <1>0, <5>2, <5>4, StatesAreBounded
          <5>6. page.items[j].value <= up[p].value
            BY <1>0, <5>2, <5>4, PageRaises
          <5> HIDE DEF up
          <5> QED
            BY <2>3, <3>2, <5>5, <5>6
        <4> QED
          BY <4>1, <4>2
      <3> QED
        BY <3>1, <3>3 DEF FinalIn
    <2>5. ASSUME ~page.more, NEW p \in Carried PROVE up[p].stored /\ up[p].value = seen[p]
      <3>1. /\ offers[p].stored /\ offers[p].value <= seen[p]
            /\ \A j \in 1..Len(page.items) : page.items[j].product = p => page.items[j].value <= seen[p]
            /\ \/ offers[p].value = seen[p]
               \/ \E j \in 1..Len(page.items) : page.items[j].product = p /\ page.items[j].value = seen[p]
        BY <1>0, <1>3, <2>5 DEF Foreign, LastPage
      <3>2. /\ offers[p].stored => up[p].stored
            /\ \/ up[p] = offers[p]
               \/ \E j \in 1..Len(page.items) : page.items[j].product = p /\ up[p] = Offer(page.items[j])
        BY PageUpserted
      <3>3. /\ offers[p].value <= up[p].value
            /\ \A j \in 1..Len(page.items) : page.items[j].product = p => page.items[j].value <= up[p].value
        BY <1>0, PageRaises
      <3>4. seen[p] \in Nat
        BY <1>0 DEF Bounded
      <3> HIDE DEF up
      <3>5. up[p].value <= seen[p]
        BY <3>1, <3>2, OfferFields
      <3>6. seen[p] <= up[p].value
        BY <3>1, <3>3
      <3> QED
        BY <2>3, <3>1, <3>2, <3>4, <3>5, <3>6
    <2> HIDE DEF adv, up
    <2>6. HoldsIn(adv, epoch, log, up, current)
      BY <2>1, <2>4 DEF HoldsIn
    <2> QED
      BY <1>0, <1>3, <2>2, <2>5, <2>6, ProcessFaith DEF adv, up
  <1> QED
    BY <1>1, <1>2, <1>3 DEF HandleOffers

\* The position moves, and the worker sleeps when there was no more.
LEMMA AdvanceFaith ==
  ASSUME StreamInv, SyncInv, SyncInv', FaithInv, Advance
  PROVE  FaithInv'
  <1>1. /\ wk = "wait" /\ cs' = Advanced /\ SaveOrNot(cs') /\ page' = NoPage
        /\ wk' = IF cs.phase = "offers" /\ ~page.more THEN "sleep" ELSE "fetch"
        /\ UNCHANGED <<streamVars, offers, seen>>
    BY Zenon DEF Advance, Advanced, AdvancedTo
  <1>2. Holds(Advanced) /\ (cs.phase = "offers" /\ ~page.more => InSync)
    BY <1>1 DEF FaithInv, PagesFaith, WaitHolds
  <1>3. Holds(cs)'
    BY <1>1, <1>2 DEF Holds, streamVars
  <1>4. Positions'
    BY <1>1, <1>3, SaveHolds
  <1>5. Synced'
    BY <1>1, <1>2 DEF Synced, InSync
  <1>6. wk' \in {"fetch", "sleep"}
    BY <1>1
  <1> QED
    BY <1>1, <1>4, <1>5, <1>6, RestFaith

-----------------------------------------------------------------------------
(* The feed's steps: one update, or a new instance.                        *)

\* A tick of at most one update changes the state of its product, and says so.
LEMMA OneTick ==
  ASSUME Burst <= 1, StreamInv, NEW picks \in Picks, Tick(picks)
  PROVE  \E q \in Carried :
           /\ Len(log') = Len(log) + 1 /\ \A i \in 1..Len(log) : log'[i] = log[i]
           /\ log'[Len(log) + 1].product = q /\ log'[Len(log) + 1].value = made + 1
           /\ log'[Len(log) + 1].at = 2 * (clock + 1)
           /\ made' = made + 1 /\ clock' = clock + 1
           /\ current'[q] = made + 1 /\ \A p \in Carried : p # q => current'[p] = current[p]
  <1>0. made \in Nat /\ Len(log) \in Nat
    BY DEF StreamInv, HistoryTypes
  <1>1. PICK n \in 1..Burst :
           /\ Len(picks) = n /\ picks \in [1..n -> Carried] /\ Len(log') = Len(log) + n
           /\ made' = made + n /\ clock' = clock + 1
           /\ \A i \in 1..Len(log) : log'[i] = log[i]
           /\ \A i \in Len(log) + 1..Len(log) + n :
                log'[i] = [seq |-> nextSeq + (i - Len(log)) - 1, product |-> picks[i - Len(log)],
                           value |-> made + (i - Len(log)), at |-> 2 * (clock + 1)]
    BY TickAppends
  <1>2. n = 1
    BY StreamAssumption
  <1>3. picks[1] \in Carried /\ Len(picks) = 1
    BY <1>1, <1>2
  <1>4. log'[Len(log) + 1] = [seq |-> nextSeq + 1 - 1, product |-> picks[1],
                              value |-> made + 1, at |-> 2 * (clock + 1)]
    <2>1. Len(log) + 1 \in Len(log) + 1..Len(log) + n /\ Len(log) + 1 - Len(log) = 1
      BY <1>0, <1>2
    <2> QED
      BY <1>1, <2>1
  <1>5. \A p \in Carried : current'[p] = Latest(Updates(picks), p)
    BY DEF Tick
  <1>6. current'[picks[1]] = made + 1
    <2>1. \E i \in 1..Len(picks) : picks[i] = picks[1] /\ Latest(Updates(picks), picks[1]) = made + i
      BY <1>0, <1>3, TickLatest
    <2> QED
      BY <1>3, <1>5, <2>1
  <1>7. ASSUME NEW p \in Carried, p # picks[1] PROVE current'[p] = current[p]
    <2>1. \A i \in 1..Len(picks) : picks[i] # p
      BY <1>3, <1>7
    <2> QED
      BY <1>0, <1>5, <2>1, TickLatest
  <1>8. /\ log'[Len(log) + 1].product = picks[1] /\ log'[Len(log) + 1].value = made + 1
        /\ log'[Len(log) + 1].at = 2 * (clock + 1)
    BY <1>4
  <1> QED
    BY <1>1, <1>2, <1>3, <1>6, <1>7, <1>8

\* The product of a new update has one after every position; nothing changes
\* for the others.
LEMMA FinalKept ==
  ASSUME NEW h \in Seq(Update), NEW g \in Seq(Update), NEW now, NEW new, NEW q \in Carried,
         Len(g) = Len(h) + 1, \A i \in 1..Len(h) : g[i] = h[i], g[Len(h) + 1].product = q,
         \A p \in Carried : p # q => new[p] = now[p],
         NEW p \in Carried, NEW seq \in Nat, seq <= Len(h), NEW v, FinalIn(p, seq, v, h, now)
  PROVE  FinalIn(p, seq, v, g, new)
  <1>0. Len(h) \in Nat
    OBVIOUS
  <1> SUFFICES ASSUME \A i \in 1..Len(g) : i > seq => g[i].product # p
               PROVE  v = new[p]
    BY DEF FinalIn
  <1>1. p # q
    BY <1>0
  <1>2. \A i \in 1..Len(h) : i > seq => h[i].product # p
    BY <1>0
  <1> QED
    BY <1>1, <1>2 DEF FinalIn

LEMMA HoldsKept ==
  ASSUME NEW h \in Seq(Update), NEW g \in Seq(Update), NEW now, NEW new, NEW q \in Carried,
         Len(g) = Len(h) + 1, \A i \in 1..Len(h) : g[i] = h[i], g[Len(h) + 1].product = q,
         \A p \in Carried : p # q => new[p] = now[p],
         NEW c, NEW e, NEW rows, ClaimIn(c, e, h, rows), HoldsIn(c, e, h, rows, now)
  PROVE  HoldsIn(c, e, g, rows, new)
  <1> SUFFICES ASSUME c.epoch = e, NEW p \in Carried, Passed(c, p)
               PROVE  rows[p].stored /\ FinalIn(p, c.seq, rows[p].value, g, new)
    BY DEF HoldsIn
  <1>1. rows[p].stored /\ FinalIn(p, c.seq, rows[p].value, h, now)
    BY DEF HoldsIn
  <1>2. c.seq \in Nat /\ c.seq <= Len(h)
    BY DEF ClaimIn, Cursor
  <1> QED
    BY <1>1, <1>2, FinalKept

LEMMA TickFaith ==
  ASSUME Burst <= 1, StreamInv, StreamInv', SyncInv, SyncInv', FaithInv, NEW picks \in Picks, Tick(picks),
         wk # "building", UNCHANGED workerVars
  PROVE  FaithInv'
  <1>0. /\ epoch' = epoch /\ wk' = wk /\ page' = page /\ cs' = cs /\ saved' = saved /\ offers' = offers
        /\ seen' = seen /\ log \in Seq(Update) /\ log' \in Seq(Update) /\ Len(log) \in Nat
        /\ clock \in Nat /\ made \in Nat
    BY DEF Tick, workerVars, StreamInv, HistoryTypes
  <1>1. PICK q \in Carried :
           /\ Len(log') = Len(log) + 1 /\ \A i \in 1..Len(log) : log'[i] = log[i]
           /\ log'[Len(log) + 1].product = q /\ log'[Len(log) + 1].value = made + 1
           /\ log'[Len(log) + 1].at = 2 * (clock + 1)
           /\ made' = made + 1 /\ clock' = clock + 1
           /\ current'[q] = made + 1 /\ \A p \in Carried : p # q => current'[p] = current[p]
    BY OneTick
  <1>2. /\ current \in [Carried -> Nat] /\ current' \in [Carried -> Nat]
        /\ \A p \in Carried : current[p] <= made
    BY DEF SyncInv, SyncTypes, FaithInv, FeedFaith, Bounded
  <1>3. \A i \in 1..Len(log') : i \in 1..Len(log) \/ i = Len(log) + 1
    BY <1>0, <1>1
  <1>4. Dates'
    <2>1. \A p \in Carried : current[p] <= current'[p]
      <3> SUFFICES ASSUME NEW p \in Carried PROVE current[p] <= current'[p]
        OBVIOUS
      <3>1. current[p] \in Nat /\ current[p] <= made /\ (p = q \/ current'[p] = current[p])
        BY <1>1, <1>2
      <3> QED
        BY <1>0, <1>1, <3>1
    <2>2. 2 * (clock + 1) > Stamp /\ 2 * (clock + 1) \in Nat
      BY <1>0 DEF Stamp
    <2>3. AddsPresent
      BY <1>1, <1>3, <2>2 DEF AddsPresent
    <2> QED
      BY <1>0, <1>1, <1>2, <2>1, <2>3, DatesGrow DEF FaithInv, FeedFaith
  <1>5. Tells'
    <2> SUFFICES ASSUME NEW p \in Carried, NEW s \in 0..Len(log'),
                        NEW i \in 1..Len(log'), i > s, log'[i].product = p
                 PROVE  \E k \in 1..Len(log') : k > s /\ log'[k].product = p /\ log'[k].value = current'[p]
      BY DEF Tells
    <2>1. CASE p = q
      <3>1. Len(log) + 1 \in 1..Len(log') /\ Len(log) + 1 > s
        BY <1>0, <1>1
      <3> QED
        BY <1>1, <2>1, <3>1
    <2>2. CASE p # q
      <3>1. i \in 1..Len(log) /\ log[i].product = p /\ current'[p] = current[p]
        BY <1>1, <1>3, <2>2
      <3>2. s \in 0..Len(log)
        BY <1>0, <1>1, <3>1
      <3>3. PICK k \in 1..Len(log) : k > s /\ log[k].product = p /\ log[k].value = current[p]
        BY <3>1, <3>2 DEF FaithInv, FeedFaith, Tells
      <3>4. k \in 1..Len(log') /\ log'[k] = log[k]
        BY <1>0, <1>1, <3>3
      <3> QED
        BY <3>1, <3>3, <3>4
    <2> QED
      BY <2>1, <2>2
  <1>6. Bounded'
    <2>1. \A p \in Carried : current'[p] <= made + 1
      <3> SUFFICES ASSUME NEW p \in Carried PROVE current'[p] <= made + 1
        OBVIOUS
      <3>1. current[p] \in Nat /\ current[p] <= made /\ (p = q \/ current'[p] = current[p])
        BY <1>1, <1>2
      <3> QED
        BY <1>0, <1>1, <3>1
    <2> QED
      BY <1>0, <1>1, <2>1 DEF FaithInv, FeedFaith, Bounded
  <1>7. /\ HoldsIn(cs, epoch, log', offers, current')
        /\ HoldsIn(Parse(saved), epoch, log', offers, current')
    BY <1>0, <1>1, HoldsKept, ZenonT(40) DEF SyncInv, Claims, Claim, FaithInv, Positions, Holds
  <1>8. Positions'
    BY <1>0, <1>7 DEF Positions, Holds
  <1>9. WaitHolds'
    <2>1. ASSUME wk = "wait" PROVE HoldsIn(Advanced, epoch, log', offers, current')
      <3>1. ClaimIn(Advanced, epoch, log, offers) /\ HoldsIn(Advanced, epoch, log, offers, current)
        BY <2>1 DEF SyncInv, Pages, WaitClaims, Claim, FaithInv, PagesFaith, WaitHolds, Holds
      <3> QED
        BY <1>0, <1>1, <3>1, HoldsKept, ZenonT(40)
    <2>2. Advanced' = Advanced
      BY <1>0 DEF Advanced
    <2> QED
      BY <1>0, <2>1, <2>2 DEF FaithInv, PagesFaith, WaitHolds, Holds, InSync
  <1>10. CatalogHolds'
    <2> SUFFICES ASSUME wk = "catalog", page.epoch = epoch, NEW j \in 1..Len(page.items)
                 PROVE  FinalIn(page.items[j].product, page.asOf, page.items[j].value, log', current')
      BY <1>0 DEF CatalogHolds
    <2>1. FinalIn(page.items[j].product, page.asOf, page.items[j].value, log, current)
      BY DEF FaithInv, PagesFaith, CatalogHolds
    <2>2. page.items[j].product \in Carried /\ page.asOf \in Nat /\ page.asOf <= Len(log)
      BY BasicTypes DEF SyncInv, Pages, PageTypes, CatalogPage
    <2> DEFINE p == page.items[j].product
               v == page.items[j].value
               asOf == page.asOf
    <2>3. p \in Carried /\ asOf \in Nat /\ asOf <= Len(log) /\ FinalIn(p, asOf, v, log, current)
      BY <2>1, <2>2
    <2> HIDE DEF p, v, asOf
    <2>4. /\ log \in Seq(Update) /\ log' \in Seq(Update)
          /\ Len(log') = Len(log) + 1 /\ \A i \in 1..Len(log) : log'[i] = log[i]
          /\ log'[Len(log) + 1].product = q
          /\ \A r \in Carried : r # q => current'[r] = current[r]
      BY <1>0, <1>1
    <2>5. FinalIn(p, asOf, v, log', current')
      BY <2>3, <2>4, FinalKept
    <2> QED
      BY <2>5 DEF p, v, asOf
  <1>11. ReadIsCurrent' /\ LastPage' /\ Synced'
    BY <1>0 DEF FaithInv, PagesFaith, ReadIsCurrent, LastPage, Synced
  <1> QED
    BY <1>4, <1>5, <1>6, <1>8, <1>9, <1>10, <1>11 DEF FaithInv, FeedFaith, PagesFaith

LEMMA RestartFaith ==
  ASSUME StreamInv, SyncInv, SyncInv', FaithInv, FeedRestarts
  PROVE  FaithInv'
  <1>0. /\ epoch' = epoch + 1 /\ log' = <<>> /\ clock' = clock + 1 /\ made' = made + 1 /\ current' = Base(made')
        /\ cs' = cs /\ saved' = saved /\ offers' = offers /\ seen' = seen
        /\ epoch \in Nat /\ clock \in Nat /\ made \in Nat
        /\ \/ wk = "building" /\ wk' = "fetch" /\ page' = NoPage
           \/ wk # "building" /\ wk' = wk /\ page' = page
    BY DEF FeedRestarts, Restart, SyncInv, SyncTypes, StreamInv, HistoryTypes
  <1>1. Len(log') = 0 /\ \A p \in Carried : current'[p] = made + 1
    BY <1>0 DEF Base
  <1>2. /\ current \in [Carried -> Nat] /\ current' \in [Carried -> Nat]
        /\ \A p \in Carried : current[p] <= made
    BY DEF SyncInv, SyncTypes, FaithInv, FeedFaith, Bounded
  <1>3. Dates'
    <2>1. ASSUME NEW p \in Carried PROVE current[p] <= current'[p]
      <3>1. current[p] \in Nat /\ current[p] <= made /\ current'[p] = made + 1
        BY <1>1, <1>2
      <3> QED
        BY <1>0, <3>1
    <2>2. AddsPresent
      BY <1>1 DEF AddsPresent
    <2> QED
      BY <1>0, <1>2, <2>1, <2>2, DatesGrow DEF FaithInv, FeedFaith
  <1>4. Tells' /\ Bounded'
    BY <1>0, <1>1 DEF Tells, Bounded, FaithInv, FeedFaith
  <1>5. Positions'
    <2>1. /\ cs.epoch \in Nat /\ cs.epoch <= epoch
          /\ Parse(saved).epoch \in Nat /\ Parse(saved).epoch <= epoch
      BY DEF SyncInv, Claims, Claim, ClaimIn, Cursor
    <2>2. cs.epoch # epoch + 1 /\ Parse(saved).epoch # epoch + 1
      BY <1>0, <2>1
    <2> QED
      BY <1>0, <2>2 DEF Positions, Holds, HoldsIn
  <1>6. CASE wk' = "fetch"
    BY <1>3, <1>4, <1>5, <1>6 DEF FaithInv, FeedFaith, PagesFaith, ReadIsCurrent, CatalogHolds, LastPage, WaitHolds, Synced
  <1>7. CASE wk' # "fetch"
    <2>1. wk # "building" /\ wk' = wk /\ page' = page
      BY <1>0, <1>7
    <2>2. wk \in {"catalog", "offers"} => page.epoch # epoch'
      BY <1>0 DEF SyncInv, Pages, PageTypes
    <2>3. WaitHolds'
      <3>1. ASSUME wk = "wait" PROVE HoldsIn(Advanced, epoch', log', offers, current')
        <4>1. Advanced.epoch <= epoch /\ Advanced.epoch \in Nat
          BY <3>1 DEF SyncInv, Pages, WaitClaims, Claim, ClaimIn, Cursor
        <4>2. Advanced.epoch # epoch'
          BY <1>0, <4>1
        <4> QED
          BY <4>2 DEF HoldsIn
      <3>2. Advanced' = Advanced
        BY <1>0, <2>1 DEF Advanced
      <3> QED
        BY <1>0, <2>1, <3>1, <3>2 DEF FaithInv, PagesFaith, WaitHolds, Holds, InSync
    <2>4. ReadIsCurrent' /\ CatalogHolds' /\ LastPage' /\ Synced'
      BY <1>0, <2>1, <2>2 DEF FaithInv, PagesFaith, ReadIsCurrent, CatalogHolds, LastPage, Synced
    <2> QED
      BY <1>3, <1>4, <1>5, <2>3, <2>4 DEF FaithInv, FeedFaith, PagesFaith
  <1> QED
    BY <1>6, <1>7

LEMMA StatusFaith ==
  ASSUME StreamInv, SyncInv, SyncInv', FaithInv,
         UNCHANGED <<buf, nextSeq, current, epoch, clock, made, log>>, UNCHANGED workerVars
  PROVE  FaithInv'
  <1>1. /\ wk' = wk /\ page' = page /\ cs' = cs /\ saved' = saved /\ offers' = offers /\ seen' = seen
        /\ UNCHANGED <<current, clock, log>>
    BY DEF workerVars
  <1>2. Dates'
    BY <1>1, DatesKept DEF FaithInv, FeedFaith
  <1>3. Bounded' /\ Tells' /\ Positions'
    BY <1>1 DEF FaithInv, FeedFaith, Bounded, Tells, Positions, Holds
  <1>4. WaitHolds'
    BY <1>1 DEF FaithInv, PagesFaith, WaitHolds, Holds, Advanced, InSync
  <1>5. ReadIsCurrent' /\ CatalogHolds' /\ LastPage' /\ Synced'
    BY <1>1 DEF FaithInv, PagesFaith, ReadIsCurrent, CatalogHolds, LastPage, Synced
  <1> QED
    BY <1>2, <1>3, <1>4, <1>5 DEF FaithInv, FeedFaith, PagesFaith

LEMMA InitIsFaithful == Init => FaithInv
  <1> SUFFICES ASSUME Init PROVE FaithInv
    OBVIOUS
  <1>1. /\ epoch = 1 /\ current = Base(0) /\ wk = "fetch" /\ cs = Fresh /\ saved = <<>> /\ page = NoPage
        /\ offers = [p \in Carried |-> NoOffer] /\ seen = Base(0) /\ log = <<>> /\ made = 0
    BY DEF Init, StreamInit
  <1>2. Dates
    <2> DEFINE line == [p \in Carried |-> [n \in Nat |-> 0]]
    <2>1. /\ line \in [Carried -> [Nat -> Nat]]
          /\ \A p \in Carried, n \in Nat : line[p][n] = 0
      OBVIOUS
    <2> HIDE DEF line
    <2>2. Timeline(line)
      <3>1. \A p \in Carried : current[p] = 0
        BY <1>1 DEF Base
      <3> QED
        BY <2>1, <3>1 DEF Timeline
    <2>3. Shown(line)
      BY <1>1, <2>1 DEF Shown, NoOffer, NoPage
    <2> QED
      BY <2>1, <2>2, <2>3 DEF Dates
  <1>3. Tells /\ Bounded
    BY <1>1 DEF Tells, Bounded, Base
  <1>4. Positions
    <2>1. Parse(saved) = Fresh
      BY <1>1 DEF Parse
    <2> QED
      BY <1>1, <2>1, FreshIsCursor DEF Positions, Holds, HoldsIn
  <1>5. PagesFaith
    BY <1>1 DEF PagesFaith, ReadIsCurrent, CatalogHolds, LastPage, WaitHolds, Synced
  <1> QED
    BY <1>2, <1>3, <1>4, <1>5 DEF FaithInv, FeedFaith

LEMMA NextIsFaithful ==
  ASSUME Quiet, Burst <= 1, StreamInv, SyncInv, FaithInv, [Next]_vars
  PROVE  FaithInv'
  <1>1. StreamInv' /\ SyncInv'
    BY NextKeeps
  <1>2. CASE Serve
    BY <1>1, <1>2, BuildFaith, RequestOffersFaith, ResyncFaith DEF Serve, OffersGone
  <1>3. CASE Worker \/ RequestFails \/ CrashRestart
    BY <1>1, <1>3, HandleCatalogFaith, HandleOffersFaith, AdvanceFaith, IdleFaith DEF Worker
  <1>4. CASE FeedTicks
    <2>1. PICK picks \in Picks : Tick(picks)
      BY <1>4 DEF FeedTicks
    <2>2. wk # "building" /\ UNCHANGED workerVars
      BY <1>4 DEF FeedTicks, Undisturbed
    <2> QED
      BY <1>1, <2>1, <2>2, TickFaith
  <1>5. CASE FeedStatus
    BY <1>1, <1>5, StatusFaith DEF FeedStatus, SetDead
  <1>6. CASE FeedRestarts
    BY <1>1, <1>6, RestartFaith
  <1>7. CASE UNCHANGED vars
    BY <1>1, <1>7, StatusFaith DEF vars, streamVars, workerVars
  <1> QED
    BY <1>2, <1>3, <1>4, <1>5, <1>6, <1>7 DEF Next

\* With one update a tick, in a feed that rests while a page is built, every
\* stored state is the one its product had at the row's time.
THEOREM FaithInvariant ==
  ASSUME Quiet, Burst <= 1
  PROVE  Spec => [](StreamInv /\ SyncInv /\ FaithInv)
  <1>1. Init => StreamInv /\ SyncInv /\ FaithInv
    BY InitIsSynced, InitIsFaithful
  <1>2. StreamInv /\ SyncInv /\ FaithInv /\ [Next]_vars => (StreamInv /\ SyncInv /\ FaithInv)'
    BY NextKeeps, NextIsFaithful
  <1> QED
    BY <1>1, <1>2, PTL DEF Spec

\* A worker with an empty backlog has the feed it was answered from
\* (worker.go:29-33).
THEOREM AnEmptyBacklogIsInSync ==
  ASSUME Quiet, Burst <= 1
  PROVE  Spec => []Synced
  <1>1. FaithInv => Synced
    BY DEF FaithInv, PagesFaith
  <1> QED
    BY <1>1, FaithInvariant, PTL

\* Only an upsert changes the offers.
LEMMA OthersLeaveOffers ==
  ASSUME [Next]_vars
  PROVE  offers' = offers \/ offers' = Upsert(page.items)
  <1>1. CASE Serve
    BY <1>1 DEF Serve, RequestCatalog, SkipUncarried, Read, StampItem, RespondCatalog, RequestOffers,
       OffersGone, Resync
  <1>2. CASE Worker \/ RequestFails \/ CrashRestart
    BY <1>2, Zenon DEF Worker, HandleCatalog, HandleOffers, Advance, Poll, Process, Resync, RequestFails,
       CrashRestart
  <1>3. CASE FeedTicks \/ FeedStatus \/ FeedRestarts
    BY <1>3 DEF FeedTicks, FeedStatus, FeedRestarts, workerVars
  <1>4. CASE UNCHANGED vars
    BY <1>4 DEF vars, workerVars
  <1> QED
    BY <1>1, <1>2, <1>3, <1>4 DEF Next

\* "Out-of-order updates cannot regress a price" (README:51).
THEOREM PricesNeverRegress ==
  ASSUME Quiet, Burst <= 1
  PROVE  Spec => NoRegress
  <1>1. ASSUME StreamInv, SyncInv, FaithInv, [Next]_vars
        PROVE  [\A p \in Carried : offers'[p].value >= offers[p].value]_vars
    <2> SUFFICES ASSUME NEW p \in Carried PROVE offers'[p].value >= offers[p].value
      OBVIOUS
    <2>1. offers[p].value \in Nat
      BY <1>1, BasicTypes
    <2>2. CASE offers' = offers
      BY <2>1, <2>2
    <2>3. CASE offers' = Upsert(page.items)
      <3>1. Upsert(page.items)[p].value \in Nat /\ offers[p].value <= Upsert(page.items)[p].value
        BY <1>1, PageRaises DEF FaithInv, FeedFaith
      <3> QED
        BY <2>1, <2>3, <3>1
    <2> QED
      BY <1>1, <2>2, <2>3, OthersLeaveOffers
  <1>2. Spec => [][Next]_vars
    BY PTL DEF Spec
  <1> QED
    BY <1>1, <1>2, FaithInvariant, PTL DEF NoRegress
=============================================================================
