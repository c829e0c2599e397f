------------------------------ MODULE FeedSync ------------------------------
(***************************************************************************)
(* One retailer end to end: the feed (FeedStream), the HTTP handlers of    *)
(* internal/feedgen/server.go, the worker of internal/ingest/worker.go     *)
(* with its persisted cursor, and the offer rows of store.go under their   *)
(* last-write-wins guard.  The feed serves well-formed items (no quirks),  *)
(* and the wait for ClickHouse is a step that ends (CHWriter says when).   *)
(*                                                                         *)
(* handleCatalog reads one offer at a time and holds no lock over the      *)
(* page, so Read, StampItem and Respond are separate steps and the feed    *)
(* may tick between them, unless the environment is assumed Quiet.         *)
(***************************************************************************)
EXTENDS FeedStream

CONSTANTS
  PageSize,     \* items per response
  Quiet,        \* assumption: the feed does not tick while a page is built
  MaxCrashes    \* bound: crashes of ingestd

ASSUME SyncAssumption == PageSize \in Nat \ {0} /\ Quiet \in BOOLEAN /\ MaxCrashes \in Nat

VARIABLES
  wk,       \* where the worker is
  cs,       \* its cursorState
  saved,    \* the cursor text in ingest_cursors
  page,     \* the response being built, or in the worker's hands
  offers,   \* offers[p]: the stored row, or NoOffer
  seen,     \* history: the feed's state when it last answered /offers
  crashes   \* crashes of ingestd so far

workerVars == <<wk, cs, saved, page, offers, seen, crashes>>
vars == <<streamVars, workerVars>>

NoOffer == [value |-> 0, at |-> 0, stored |-> FALSE]
Offer(item) == [value |-> item.value, at |-> item.at, stored |-> TRUE]
NoPage == [items |-> <<>>]
Unread == Size + 1

-----------------------------------------------------------------------------
(* saveCursor and parseCursor: the fields that survive a restart.          *)

Encode(c) ==
  IF c.phase = "catalog" THEN <<"catalog", c.epoch, c.cat, c.seq>> ELSE <<"offers", c.epoch, c.seq>>

Fresh == [phase |-> "catalog", epoch |-> 0, cat |-> 0, seq |-> 0]

Parse(text) ==
  CASE Len(text) = 4 -> [phase |-> "catalog", epoch |-> text[2], cat |-> text[3], seq |-> text[4]]
    [] Len(text) = 3 -> [phase |-> "offers", epoch |-> text[2], cat |-> 0, seq |-> text[3]]
    [] OTHER         -> Fresh

\* A failed save is only logged.
SaveOrNot(c) == saved' \in {Encode(c), saved}

Init ==
  /\ StreamInit
  /\ wk = "fetch" /\ cs = Fresh /\ saved = <<>> /\ page = NoPage
  /\ offers = [p \in Carried |-> NoOffer] /\ seen = Base(0) /\ crashes = 0

-----------------------------------------------------------------------------
(* GET /catalog.                                                           *)

\* Items of the page in the making; `read` is the state Current returned
\* for index `next`, before the item is stamped.
RequestCatalog ==
  /\ wk = "fetch" /\ cs.phase = "catalog" /\ ~dead
  /\ wk' = "building"
  /\ page' = [items |-> <<>>, next |-> cs.cat, read |-> Unread, value |-> 0]
  /\ UNCHANGED <<streamVars, cs, saved, offers, seen, crashes>>

PageFull == page.next >= Size \/ Len(page.items) >= PageSize

SkipUncarried ==
  /\ wk = "building" /\ ~PageFull /\ page.next \notin Carried
  /\ page' = [page EXCEPT !.next = @ + 1]
  /\ UNCHANGED <<streamVars, wk, cs, saved, offers, seen, crashes>>

\* st.Current(i)
Read ==
  /\ wk = "building" /\ ~PageFull /\ page.next \in Carried /\ page.read = Unread
  /\ page' = [page EXCEPT !.read = page.next, !.value = current[page.next]]
  /\ UNCHANGED <<streamVars, wk, cs, saved, offers, seen, crashes>>

\* time.Now() and appendItem
StampItem ==
  /\ wk = "building" /\ page.read # Unread
  /\ page' = [page EXCEPT !.items = Append(@, [product |-> page.read, value |-> page.value, at |-> Stamp]),
                          !.next = @ + 1, !.read = Unread, !.value = 0]
  /\ UNCHANGED <<streamVars, wk, cs, saved, offers, seen, crashes>>

\* st.Stats() and the response
RespondCatalog ==
  /\ wk = "building" /\ PageFull /\ page.read = Unread
  /\ wk' = "catalog"
  /\ page' = [items |-> page.items, next |-> page.next, asOf |-> nextSeq - 1, epoch |-> epoch]
  /\ UNCHANGED <<streamVars, cs, saved, offers, seen, crashes>>

\* The request fails: a timeout, a lost connection.  A failure before the
\* handler is done has the same effect, as handlers change no state.
RequestFails ==
  /\ wk \in {"catalog", "offers"}
  /\ wk' = "fetch" /\ page' = NoPage
  /\ UNCHANGED <<streamVars, cs, saved, offers, seen, crashes>>

-----------------------------------------------------------------------------
(* ErrGone: forget the position and sync again from the start.             *)

\* (Fault) start over from the beginning of the change feed instead
FromStartFault(c) == [c EXCEPT !.seq = 0, !.phase = "offers"]
FromStart(c) == Fresh

Resync ==
  /\ cs' = FromStart(cs)
  /\ SaveOrNot(cs')
  /\ wk' = "fetch" /\ page' = NoPage
  /\ UNCHANGED <<streamVars, offers, seen, crashes>>

\* GET /offers answers from one critical section of Since.
RequestOffers ==
  /\ wk = "fetch" /\ cs.phase = "offers" /\ ~dead /\ ~Gone(cs.seq)
  /\ wk' = "offers"
  /\ LET items == Window(cs.seq, PageSize) IN
     page' = [items |-> items, epoch |-> epoch, more |-> HasMore(cs.seq, PageSize),
              next |-> IF items = <<>> THEN cs.seq ELSE items[Len(items)].seq]
  /\ seen' = current
  /\ UNCHANGED <<streamVars, cs, saved, offers, crashes>>

OffersGone ==
  /\ wk = "fetch" /\ cs.phase = "offers" /\ ~dead /\ Gone(cs.seq)
  /\ Resync

-----------------------------------------------------------------------------
(* The worker.                                                             *)

\* In-batch dedupe: of a product's items, a later one replaces an earlier
\* one only if its timestamp is After.
Dedupe(items, p) ==
  LET mine == {i \in 1..Len(items) : items[i].product = p}
  IN  CHOOSE i \in mine : \A j \in mine :
        items[j].at < items[i].at \/ (items[j].at = items[i].at /\ i <= j)

\* WHERE offers.updated_at <= EXCLUDED.updated_at
\* (Fault) no guard
ReplacesFault(item, row) == TRUE
Replaces(item, row) == ~row.stored \/ row.at <= item.at

Upsert(items) ==
  [p \in Carried |->
     IF \E i \in 1..Len(items) : items[i].product = p
     THEN LET item == items[Dedupe(items, p)]
          IN  IF Replaces(item, offers[p]) THEN Offer(item) ELSE offers[p]
     ELSE offers[p]]

\* processItems: the upsert commits, or fails and the step is retried.
Process ==
  /\ \/ wk' = "wait" /\ offers' = Upsert(page.items) /\ page' = page
     \/ wk' = "fetch" /\ page' = NoPage /\ UNCHANGED offers
  /\ UNCHANGED <<streamVars, saved, seen, crashes>>

\* The position is pinned on the first page.
\* (Fault) pinned while the position is zero
FirstPageFault(c) == c.seq = 0
FirstPage(c) == c.cat = 0

HandleCatalog ==
  /\ wk = "catalog"
  /\ \/ /\ FirstPage(cs)
        /\ cs' = [cs EXCEPT !.epoch = page.epoch, !.seq = page.asOf]
        /\ Process
     \/ /\ ~FirstPage(cs) /\ page.epoch = cs.epoch
        /\ UNCHANGED cs
        /\ Process
     \/ ~FirstPage(cs) /\ page.epoch # cs.epoch /\ Resync

\* (Fault) the epoch of the answer is not compared
ForeignFault(c) == FALSE
Foreign(c) == page.epoch # c.epoch

HandleOffers ==
  /\ wk = "offers"
  /\ \/ Foreign(cs) /\ Resync
     \/ /\ ~Foreign(cs) /\ page.items = <<>>
        /\ wk' = "sleep" /\ page' = NoPage
        /\ UNCHANGED <<streamVars, cs, saved, offers, seen, crashes>>
     \/ /\ ~Foreign(cs) /\ page.items # <<>>
        /\ UNCHANGED cs
        /\ Process

\* The end of a step: WaitFlushed has returned, the position moves and is
\* saved.  Only an empty backlog lets the worker sleep.
Advance ==
  /\ wk = "wait"
  /\ cs' = IF cs.phase = "offers" THEN [cs EXCEPT !.seq = page.next]
           ELSE IF page.next >= Size THEN [cs EXCEPT !.phase = "offers", !.cat = 0]
           ELSE [cs EXCEPT !.cat = page.next]
  /\ SaveOrNot(cs')
  /\ wk' = IF cs.phase = "offers" /\ ~page.more THEN "sleep" ELSE "fetch"
  /\ page' = NoPage
  /\ UNCHANGED <<streamVars, offers, seen, crashes>>

Poll ==
  /\ wk = "sleep"
  /\ wk' = "fetch"
  /\ UNCHANGED <<streamVars, cs, saved, page, offers, seen, crashes>>

\* ingestd dies and starts again; a cursor that cannot be loaded is a fresh one.
CrashRestart ==
  /\ crashes < MaxCrashes
  /\ crashes' = crashes + 1
  /\ cs' \in {Parse(saved), Fresh}
  /\ wk' = "fetch" /\ page' = NoPage
  /\ UNCHANGED <<streamVars, saved, offers, seen>>

-----------------------------------------------------------------------------
Undisturbed == Quiet => wk # "building"

FeedTicks ==
  /\ Undisturbed
  /\ \E picks \in Picks : Tick(picks)
  /\ UNCHANGED workerVars

FeedStatus == (\E d \in BOOLEAN : SetDead(d)) /\ UNCHANGED workerVars

\* A restart of the feed breaks the connection of a request in progress.
FeedRestarts ==
  /\ Restart
  /\ wk' = IF wk = "building" THEN "fetch" ELSE wk
  /\ page' = IF wk = "building" THEN NoPage ELSE page
  /\ UNCHANGED <<cs, saved, offers, seen, crashes>>

Serve == RequestCatalog \/ SkipUncarried \/ Read \/ StampItem \/ RespondCatalog \/ RequestOffers \/ OffersGone
Worker == HandleCatalog \/ HandleOffers \/ Advance \/ Poll

Next == Serve \/ Worker \/ RequestFails \/ CrashRestart \/ FeedTicks \/ FeedStatus \/ FeedRestarts

Spec == Init /\ [][Next]_vars

(***************************************************************************)
(* Server and worker are scheduled.  Requests, writes and saves may fail   *)
(* again and again, but not forever (strong fairness of the worker and of  *)
(* its upserts), and a dead retailer is revived.  Ticks, restarts and      *)
(* crashes are free.                                                       *)
(***************************************************************************)
Upserts == (HandleCatalog \/ HandleOffers) /\ wk' = "wait"
Revive == SetDead(FALSE) /\ UNCHANGED workerVars

Fairness ==
  /\ SF_vars(Serve)
  /\ SF_vars(Worker) /\ SF_vars(Upserts)
  /\ WF_vars(Revive)

FairSpec == Spec /\ Fairness

-----------------------------------------------------------------------------
(* Properties.                                                             *)

States == {"fetch", "building", "catalog", "offers", "wait", "sleep"}

\* Every variable has its type; the page is what the worker's place says.
TypeOK ==
  /\ StreamTypeOK
  /\ wk \in States
  /\ cs \in [phase : {"catalog", "offers"}, epoch : Nat, cat : 0..Size, seq : Nat]
  /\ offers \in [Carried -> [value : Nat, at : Nat, stored : BOOLEAN]]
  /\ seen \in [Carried -> Nat]
  /\ wk \in {"fetch", "sleep"} <=> page = NoPage
  /\ Parse(saved).seq \in Nat /\ Len(page.items) <= PageSize

\* A worker that finds its backlog empty is up to date: every carried
\* product is stored with the state the feed had when it answered, through
\* crashes, failed saves, expired cursors and feed restarts, whose sequence
\* numbers may alias the old ones (worker.go:29-33).
Synced == wk = "sleep" => \A p \in Carried : offers[p].stored /\ offers[p].value = seen[p]

\* The position claims nothing the offers do not have: every update at or
\* before it, of a product the sync has passed, is stored or superseded, so
\* that "updates that land mid-sync get replayed, not lost" (worker.go:88-89).
Covers(c) ==
  c.epoch = epoch =>
    \A i \in 1..Len(log) :
      log[i].seq <= c.seq /\ (c.phase = "catalog" => log[i].product < c.cat)
        => offers[log[i].product].at >= log[i].at

NothingSkipped == Covers(cs) /\ Covers(Parse(saved))

\* A page of updates leaves no product older than its last update in it
\* (store.go:110: "last update per sku_norm wins").
NewerWins ==
  [][wk = "offers" /\ wk' = "wait" =>
       \A i \in 1..Len(page.items) : offers'[page.items[i].product].value >= page.items[i].value]_vars

\* A replayed page never takes an offer back to an older state (README:51:
\* "out-of-order updates cannot regress a price").
NoRegress == [][\A p \in Carried : offers'[p].value >= offers[p].value]_vars

\* Once the feed rests, the offers become and stay what the feed says.
EventuallySynced == <>[](\A p \in Carried : offers[p].stored /\ offers[p].value = current[p])
=============================================================================
