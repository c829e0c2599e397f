----------------------------- MODULE FeedStream -----------------------------
(***************************************************************************)
(* One retailer's live feed (internal/feedgen/stream.go): a capped buffer  *)
(* of recent updates, the current state of every offer, and a process that *)
(* may restart and begin its sequence again.  Every method runs under the  *)
(* stream's mutex, so every method is one action or one operator.          *)
(*                                                                         *)
(* A price and stock state is abstracted to the number of the event that   *)
(* produced it, counted over the whole run: an update, or the start of an  *)
(* instance, whose products all have its base state.  Time is abstracted   *)
(* to its order: the k-th event that can change an offer happens at 2k,    *)
(* and whatever the server stamps before the next one is stamped 2k+1.     *)
(*                                                                         *)
(* Names that end in a parenthesised "Fault" comment are faulty variants   *)
(* of the definition that follows them.                                    *)
(***************************************************************************)
EXTENDS Naturals, Sequences

CONSTANTS
  Size,         \* product indexes are 0..Size-1
  Carried,      \* the indexes this retailer carries
  MaxBuffered,  \* cap on buffered updates
  Burst,        \* bound: most updates one Tick emits
  MaxUpdates,   \* bound: states made in a run before the last restart
  MaxRestarts   \* bound: restarts of the feed process

ASSUME StreamAssumption ==
  /\ Size \in Nat /\ Carried \subseteq 0..Size-1
  /\ MaxBuffered \in Nat \ {0}
  /\ Burst \in Nat /\ MaxUpdates \in Nat /\ MaxRestarts \in Nat

VARIABLES
  dead,     \* the retailer's status is "dead"
  buf,      \* buffered updates, oldest first
  nextSeq,  \* sequence number of the next update
  current,  \* current[p]: the state of product p
  epoch,    \* identity of the feed instance
  clock,    \* events so far that could change an offer
  made,     \* states made so far, by all instances
  log       \* history: every update of this instance, buffered or not

streamVars == <<dead, buf, nextSeq, current, epoch, clock, made, log>>

Base(state) == [p \in Carried |-> state]

Stamp == 2 * clock + 1

StreamInit ==
  /\ dead = FALSE /\ buf = <<>> /\ nextSeq = 1 /\ current = Base(0)
  /\ epoch = 1 /\ clock = 0 /\ made = 0 /\ log = <<>>

-----------------------------------------------------------------------------
(* Tick.                                                                   *)

\* The updates for a sequence of picked products share one timestamp.
Updates(picks) ==
  [i \in 1..Len(picks) |->
     [seq |-> nextSeq + i - 1, product |-> picks[i], value |-> made + i, at |-> 2 * (clock + 1)]]

Smaller(m, n) == IF m <= n THEN m ELSE n

TrimToCap(grown) ==
  IF Len(grown) > MaxBuffered
  THEN SubSeq(grown, Len(grown) - MaxBuffered + 1, Len(grown))
  ELSE grown

Latest(updates, p) ==
  LET of == {i \in 1..Len(updates) : updates[i].product = p}
  IN  IF of = {} THEN current[p] ELSE updates[CHOOSE i \in of : \A j \in of : j <= i].value

Tick(picks) ==
  /\ ~dead
  /\ made + Len(picks) <= MaxUpdates
  /\ buf' = TrimToCap(buf \o Updates(picks))
  /\ log' = log \o Updates(picks)
  /\ nextSeq' = nextSeq + Len(picks)
  /\ made' = made + Len(picks)
  /\ current' = [p \in Carried |-> Latest(Updates(picks), p)]
  /\ clock' = clock + 1
  /\ UNCHANGED <<dead, epoch>>

\* pickCarried
Picks == UNION {[1..n -> Carried] : n \in 1..Burst}

\* SetStatus; "degraded" only slows and fails requests.
SetDead(d) ==
  /\ dead # d
  /\ dead' = d
  /\ UNCHANGED <<buf, nextSeq, current, epoch, clock, made, log>>

\* NewStream and NewServer: a new instance starts from the base state.
Restart ==
  /\ epoch <= MaxRestarts
  /\ epoch' = epoch + 1
  /\ dead' = FALSE /\ buf' = <<>> /\ nextSeq' = 1 /\ log' = <<>>
  /\ made' = made + 1
  /\ current' = Base(made')
  /\ clock' = clock + 1

-----------------------------------------------------------------------------
(* Since.                                                                  *)

\* (Fault) a cursor one past the buffer's horizon is accepted
GoneFault(since) ==
  \/ since > nextSeq - 1
  \/ buf # <<>> /\ since + 2 < buf[1].seq
Gone(since) ==
  \/ since > nextSeq - 1
  \/ buf # <<>> /\ since + 1 < buf[1].seq
  \/ buf = <<>> /\ since + 1 < nextSeq

\* The scan from the back: entries before the window.
Start(since) ==
  CHOOSE s \in 0..Len(buf) :
    /\ \A i \in s+1..Len(buf) : buf[i].seq > since
    /\ s > 0 => buf[s].seq <= since

End(since, limit) == Smaller(Start(since) + limit, Len(buf))
Window(since, limit) == SubSeq(buf, Start(since) + 1, End(since, limit))
HasMore(since, limit) == End(since, limit) < Len(buf)

-----------------------------------------------------------------------------
StreamNext ==
  \/ \E picks \in Picks : Tick(picks)
  \/ \E d \in BOOLEAN : SetDead(d)
  \/ Restart

StreamSpec == StreamInit /\ [][StreamNext]_streamVars

-----------------------------------------------------------------------------
(* Properties.                                                             *)

Update == [seq : Nat \ {0}, product : Carried, value : Nat, at : Nat]

\* Every variable has its type, and the head of the sequence is the number
\* of updates this instance has made.
StreamTypeOK ==
  /\ dead \in BOOLEAN
  /\ buf \in Seq(Update) /\ log \in Seq(Update)
  /\ nextSeq \in Nat /\ epoch \in Nat /\ clock \in Nat /\ made \in Nat
  /\ current \in [Carried -> Nat]

\* The buffer is always the newest part of the history, without a gap: all
\* of it below the cap, exactly the cap beyond.
BufferIsSuffix ==
  /\ Len(buf) = Smaller(Len(log), MaxBuffered)
  /\ \A i \in 1..Len(buf) : buf[i] = log[Len(log) - Len(buf) + i]

\* Since answers exactly: 410 for the cursors ahead of the head and behind
\* the buffer and for no others, and otherwise the updates that follow the
\* cursor in the history, up to the limit, with an honest has_more.
ExactAt(since, limit) ==
  LET last == Smaller(since + limit, Len(log)) IN
  /\ Gone(since) <=> since > Len(log) \/ since < Len(log) - Len(buf)
  /\ ~Gone(since) =>
       /\ Window(since, limit) = SubSeq(log, since + 1, last)
       /\ HasMore(since, limit) <=> last < Len(log)

SinceIsExact == \A since \in 0..MaxUpdates + 1, limit \in 1..MaxUpdates : ExactAt(since, limit)
=============================================================================
