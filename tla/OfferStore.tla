----------------------------- MODULE OfferStore -----------------------------
(***************************************************************************)
(* The Postgres side of ingestd: Store.UpsertBatch and its helpers of      *)
(* internal/ingest/store.go, called once per page by each retailer's       *)
(* worker (worker.go, processItems), in the order of its statements.       *)
(* Every statement is one action, since every one commits on its own; the  *)
(* workers share the products table, the id cache and the streak map.      *)
(*                                                                         *)
(* A worker's position in its feed holds offers, numbered in the order of  *)
(* the feed; an item is stamped with the number of its offer, with 0 when  *)
(* its timestamp is stale, and with the time it is processed when it has   *)
(* none.  A step that fails makes the worker fetch the same position       *)
(* again, and the feed draws its quirks anew (FeedItem).                   *)
(*                                                                         *)
(* Names that end in a parenthesised "Fault" comment are faulty variants   *)
(* of the definition that follows them.                                    *)
(***************************************************************************)
EXTENDS FeedItem, FiniteSets, Functions

CONSTANTS
  Retailers,    \* one worker each
  Products,     \* products of the universe
  Prices,       \* prices in cents that retailers ask
  Messes,       \* what the feeds do to items
  PageSize,     \* most offers of a page
  MaxItems,     \* bound: offers a feed serves
  MaxFailures,  \* bound: failed statements
  MaxCrashes    \* bound: crashes of ingestd

ASSUME StoreAssumption ==
  /\ IsFiniteSet(Products) /\ Prices \subseteq 1..PriceMaxCents
  /\ Messes \subseteq AllMesses
  /\ PageSize \in Nat \ {0} /\ MaxItems \in Nat
  /\ MaxFailures \in Nat /\ MaxCrashes \in Nat

VARIABLES
  products,  \* table products: products[sku] is its id, or Unknown
  offers,    \* table offers: a set of rows
  ids,       \* Store.ids, shared by the workers; Unknown where absent
  spikes,    \* Store.spikes, a partial map <<retailer, id>> -> streak
  pc,        \* pc[r]: the next statement of r's worker
  feed,      \* feed[r]: the offers at the worker's position; the next five
             \* variables are about them, and empty when they are not in work
  page,      \* page[r]: the items of them that passed Normalize
  refused,   \* refused[r]: the items of them that did not
  out,       \* out[r]: the ids resolveProducts has found so far
  held,      \* held[r]: the offer rows heldPrices read
  spiked,    \* spiked[r]: the SKUs rejected by the spike check
  quarantined,  \* table quarantine: <<retailer, item>>
  events,    \* price_events: an item and the row it was written as
  taken,     \* taken[r]: offers of r's feed so far
  failures, crashes,
  suspects,  \* history: suspects[r][sku]: items since the last plausible one
  rejected   \* history: rejected[r][sku]: items rejected since the last accepted one

tables  == <<products, offers>>
stores  == <<tables, ids, spikes>>
work    == <<page, refused, out, held, spiked>>
outcome == <<quarantined, events>>
bounds  == <<taken, failures, crashes>>
history == <<suspects, rejected>>
vars == <<stores, pc, feed, work, outcome, bounds, history>>

\* The SKUs as they are stored.
SkusOf(p) == {NormalizeSKU(Spell(p, s)) : s \in Styles \cup Mangles}
Skus == UNION {SkusOf(p) : p \in Products}

Unknown == 0
NoIds == [s \in Skus |-> Unknown]

Init ==
  /\ products = NoIds /\ offers = {} /\ ids = NoIds /\ spikes = <<>>
  /\ pc = [r \in Retailers |-> "fetch"] /\ feed = [r \in Retailers |-> <<>>]
  /\ page = [r \in Retailers |-> {}] /\ refused = page
  /\ out = [r \in Retailers |-> NoIds] /\ held = [r \in Retailers |-> {}]
  /\ spiked = [r \in Retailers |-> {}] /\ quarantined = {} /\ events = {}
  /\ taken = [r \in Retailers |-> 0] /\ failures = 0 /\ crashes = 0
  /\ suspects = [r \in Retailers |-> [s \in Skus |-> {}]] /\ rejected = suspects

-----------------------------------------------------------------------------
(* Control: a statement is done, or reports an error, and then the page is *)
(* tried again from the start.                                             *)

Goto(r, from, to) == pc[r] = from /\ pc' = [pc EXCEPT ![r] = to]

Done(r, from, to) == Goto(r, from, to) /\ UNCHANGED bounds

\* UpsertBatch and processItems return, and their variables are gone.
Drop(rs) ==
  /\ page' = [r \in Retailers |-> IF r \in rs THEN {} ELSE page[r]]
  /\ refused' = [r \in Retailers |-> IF r \in rs THEN {} ELSE refused[r]]
  /\ out' = [r \in Retailers |-> IF r \in rs THEN NoIds ELSE out[r]]
  /\ held' = [r \in Retailers |-> IF r \in rs THEN {} ELSE held[r]]
  /\ spiked' = [r \in Retailers |-> IF r \in rs THEN {} ELSE spiked[r]]

Fails(r, from) ==
  /\ failures < MaxFailures
  /\ failures' = failures + 1
  /\ Goto(r, from, "read") /\ Drop({r})
  /\ UNCHANGED <<feed, taken, crashes>>

Succeeds(r, from, to) ==
  /\ Done(r, from, to)
  /\ IF to = "fetch" THEN Drop({r}) /\ feed' = [feed EXCEPT ![r] = <<>>] ELSE UNCHANGED <<feed, work>>

\* A statement that writes may have committed when its error comes back.
Statement(r, from, to) == Succeeds(r, from, to) \/ Fails(r, from)

FailsBefore(r, from) ==
  /\ Fails(r, from)
  /\ UNCHANGED <<stores, outcome, history>>

\* What the feed says next.
Fetch(r) ==
  /\ Goto(r, "fetch", "read")
  /\ \E k \in 1..PageSize :
       /\ taken[r] + k <= MaxItems
       /\ taken' = [taken EXCEPT ![r] = @ + k]
       /\ \E said \in [1..k -> [product : Products, cents : Prices]] :
            feed' = [feed EXCEPT ![r] = [i \in 1..k |->
              [product |-> said[i].product, cents |-> said[i].cents, at |-> taken[r] + i]]]
  /\ UNCHANGED <<stores, work, outcome, failures, crashes, history>>

\* The items the feed makes of that, named by the number of the offer and
\* the place among its copies, and what passes Normalize.
Items(offer, mess) ==
  LET raws == AppendItem(offer, mess)
  IN  {[n |-> offer.at, copy |-> c, raw |-> raws[c]] : c \in DOMAIN raws}

Pages(r) ==
  {UNION {Items(feed[r][i], messes[i]) : i \in DOMAIN messes} : messes \in [DOMAIN feed[r] -> Messes]}

Read(r) ==
  /\ pc[r] = "read"
  /\ \E items \in Pages(r), now \in taken[r]..MaxItems :
       LET clean == {x \in items : Refusal(x.raw) = "none"} IN
       /\ page' = [page EXCEPT ![r] = {[n |-> x.n, copy |-> x.copy, item |-> Normalized(x.raw, now)] : x \in clean}]
       /\ refused' = [refused EXCEPT ![r] = {<<x.n, x.copy>> : x \in items \ clean}]
       /\ Done(r, "read", IF clean = {} THEN "quarantine" ELSE "resolve")
  /\ UNCHANGED <<stores, feed, out, held, spiked, outcome, history>>

-----------------------------------------------------------------------------
(* UpsertBatch.                                                            *)

\* In-batch dedupe: among equal timestamps the first item stays.
BatchSkus(r) == {x.item.sku : x \in page[r]}
First(x, y) == x.n < y.n \/ (x.n = y.n /\ x.copy <= y.copy)
Wins(x, y) == x.item.at > y.item.at \/ (x.item.at = y.item.at /\ First(x, y))
Chosen(r, sku) ==
  LET mine == {x \in page[r] : x.item.sku = sku}
  IN  CHOOSE x \in mine : \A y \in mine : Wins(x, y)

\* resolveProducts: the cached ids, ...
Misses(r) == {s \in BatchSkus(r) : out[r][s] = Unknown}

LookupIds(r) ==
  /\ out' = [out EXCEPT ![r] = [s \in Skus |-> IF s \in BatchSkus(r) THEN ids[s] ELSE Unknown]]
  /\ Done(r, "resolve", IF \A s \in BatchSkus(r) : ids[s] # Unknown THEN "price"
                      ELSE IF \E s \in BatchSkus(r) : ids[s] = Unknown /\ Chosen(r, s).item.titled THEN "insert"
                      ELSE "select")
  /\ UNCHANGED <<stores, feed, page, refused, held, spiked, outcome, history>>

\* ... an insert of the titled misses, if there are any, whose conflicts do nothing, ...
Inserted(r) == {s \in Misses(r) : Chosen(r, s).item.titled /\ products[s] = Unknown}

Identities == {products[s] : s \in Skus}
NextId == 1 + CHOOSE n \in Identities : \A m \in Identities : m <= n

InsertProducts(r) ==
  /\ Statement(r, "insert", "select")
  /\ \E new \in Injection(Inserted(r), NextId..NextId + Cardinality(Inserted(r)) - 1) :
       products' = [s \in Skus |-> IF s \in Inserted(r) THEN new[s] ELSE products[s]]
  /\ UNCHANGED <<offers, ids, spikes, outcome, history>>

\* ... and a look at the table, which also sees other workers' products.
SelectIds(r) ==
  /\ Done(r, "select", "price")
  /\ LET found == {s \in Misses(r) : products[s] # Unknown} IN
     /\ ids' = [s \in Skus |-> IF s \in found THEN products[s] ELSE ids[s]]
     /\ out' = [out EXCEPT ![r] = [s \in Skus |-> IF s \in found THEN products[s] ELSE @[s]]]
  /\ UNCHANGED <<tables, spikes, feed, page, refused, held, spiked, outcome, history>>

Resolved(r) == {s \in BatchSkus(r) : out[r][s] # Unknown}

\* heldPrices
ReadHeld(r) ==
  /\ Done(r, "price", "check")
  /\ held' = [held EXCEPT ![r] =
       {o \in offers : o.retailer = r /\ \E s \in Resolved(r) : o.id = out[r][s]}]
  /\ UNCHANGED <<stores, feed, page, refused, out, spiked, outcome, history>>

SpikeFactor == 20
SpikeSuspect(heldCents, newCents) ==
  newCents >= SpikeFactor * heldCents \/ SpikeFactor * newCents <= heldCents

Suspect(r, s) ==
  \E h \in held[r] : h.id = out[r][s] /\ SpikeSuspect(h.price, Chosen(r, s).item.price)

SpikeAcceptAfter == 3
Streak(r, s) ==
  LET k == <<r, out[r][s]>> IN IF k \in DOMAIN spikes THEN spikes[k] ELSE 0

\* (Fault) no streak is long enough
SpikeRejectFault(r, s) == Suspect(r, s)
SpikeReject(r, s) == Suspect(r, s) /\ Streak(r, s) + 1 < SpikeAcceptAfter

\* noteSpike and clearSpike: a rejection lengthens the streak, an override
\* and a plausible price end it.
\* (Fault) a plausible price does not end the streak
EndsStreakFault(r, s) == Suspect(r, s) /\ ~SpikeReject(r, s)
EndsStreak(r, s) == ~SpikeReject(r, s)

CheckSpikes(r) ==
  LET rejects == {s \in Resolved(r) : SpikeReject(r, s)}
      ended   == {<<r, out[r][s]>> : s \in {t \in Resolved(r) : EndsStreak(r, t)}}
      longer  == {<<r, out[r][s]>> : s \in rejects}
  IN
  /\ Done(r, "check", IF Resolved(r) = rejects THEN "quarantine" ELSE "write")
  /\ spiked' = [spiked EXCEPT ![r] = rejects]
  /\ spikes' = [k \in (DOMAIN spikes \ ended) \cup longer |->
                  (IF k \in DOMAIN spikes THEN spikes[k] ELSE 0) + (IF k \in longer THEN 1 ELSE 0)]
  /\ suspects' = [suspects EXCEPT ![r] = [s \in Skus |->
       IF s \notin Resolved(r) THEN @[s]
       ELSE IF Suspect(r, s) THEN @[s] \cup {[n |-> Chosen(r, s).n, price |-> Chosen(r, s).item.price]} ELSE {}]]
  /\ rejected' = [rejected EXCEPT ![r] = [s \in Skus |->
       IF s \in rejects THEN @[s] \cup {Chosen(r, s).n} ELSE @[s]]]
  /\ UNCHANGED <<tables, ids, feed, page, refused, out, held, outcome>>

Accepted(r) == Resolved(r) \ spiked[r]
Row(r, s) == [retailer |-> r, id |-> out[r][s], price |-> Chosen(r, s).item.price, at |-> Chosen(r, s).item.at]

\* WHERE offers.updated_at <= EXCLUDED.updated_at
\* (Fault) no guard
ReplacesFault(new) == TRUE
Replaces(new) == \A o \in offers : o.retailer = new.retailer /\ o.id = new.id => o.at <= new.at

UpsertOffers(r) ==
  LET new == {n \in {Row(r, s) : s \in Accepted(r)} : Replaces(n)} IN
  /\ Statement(r, "write", "quarantine")
  /\ offers' = {o \in offers : \A n \in new : n.retailer # o.retailer \/ n.id # o.id} \cup new
  /\ suspects' = [suspects EXCEPT ![r] = [s \in Skus |-> IF s \in Accepted(r) THEN {} ELSE @[s]]]
  /\ rejected' = [rejected EXCEPT ![r] = [s \in Skus |-> IF s \in Accepted(r) THEN {} ELSE @[s]]]
  /\ UNCHANGED <<products, ids, spikes, outcome>>

-----------------------------------------------------------------------------
(* The rest of processItems.                                               *)

Id(x) == <<x.n, x.copy>>

\* (Fault) items without a product are forgotten
RejectsFault(r) == refused[r] \cup {Id(Chosen(r, s)) : s \in spiked[r]}
Rejects(r) ==
  refused[r] \cup {Id(Chosen(r, s)) : s \in spiked[r] \cup {t \in BatchSkus(r) : out[r][t] = Unknown}}

\* Without rejects there is no statement.
Quarantine(r) ==
  /\ pc[r] = "quarantine"
  /\ LET then == IF Accepted(r) = {} THEN "fetch" ELSE "deliver" IN
     IF Rejects(r) = {} THEN Succeeds(r, "quarantine", then) ELSE Statement(r, "quarantine", then)
  /\ quarantined' = quarantined \cup {<<r, x>> : x \in Rejects(r)}
  /\ UNCHANGED <<stores, events, history>>

\* Add and WaitFlushed; a wait that ends with its context is a crash.
Deliver(r) ==
  /\ Succeeds(r, "deliver", "fetch")
  /\ events' = events \cup {[item |-> Id(Chosen(r, s)), row |-> Row(r, s)] : s \in Accepted(r)}
  /\ UNCHANGED <<stores, quarantined, history>>

\* NewStore: the maps are lost, and a page in hand comes again, since the
\* cursor has not passed it.
Crash ==
  /\ crashes < MaxCrashes
  /\ crashes' = crashes + 1
  /\ ids' = NoIds /\ spikes' = <<>> /\ Drop(Retailers)
  /\ pc' = [r \in Retailers |-> IF pc[r] = "fetch" THEN "fetch" ELSE "read"]
  /\ rejected' = [r \in Retailers |-> [s \in Skus |-> {}]]
  /\ UNCHANGED <<tables, feed, outcome, taken, failures, suspects>>

-----------------------------------------------------------------------------
Resolve(r) == LookupIds(r) \/ InsertProducts(r) \/ SelectIds(r)
Upsert(r) == ReadHeld(r) \/ CheckSpikes(r) \/ UpsertOffers(r)
Fail(r) ==
  \/ \E from \in {"insert", "select", "price", "write"} : FailsBefore(r, from)
  \/ FailsBefore(r, "quarantine") /\ Rejects(r) # {}

Next ==
  \/ \E r \in Retailers : Fetch(r) \/ Read(r) \/ Resolve(r) \/ Upsert(r) \/ Quarantine(r) \/ Deliver(r) \/ Fail(r)
  \/ Crash

Spec == Init /\ [][Next]_vars

-----------------------------------------------------------------------------
(* Properties.                                                             *)

\* Every variable has its type; a streak is shorter than what ends it.
TypeOK ==
  /\ products \in [Skus -> Nat] /\ ids \in [Skus -> Nat] /\ out \in [Retailers -> [Skus -> Nat]]
  /\ offers \subseteq [retailer : Retailers, id : Nat, price : PriceMinCents..PriceMaxCents, at : 0..MaxItems]
  /\ \A k \in DOMAIN spikes : k[1] \in Retailers /\ spikes[k] \in 1..SpikeAcceptAfter-1
  /\ pc \in [Retailers -> {"fetch", "read", "resolve", "insert", "select", "price", "check",
                           "write", "quarantine", "deliver"}]
  /\ \A r \in Retailers : spiked[r] \subseteq Skus /\ held[r] \subseteq [retailer : {r}, id : Nat, price : Nat, at : Nat]

\* One row per product of the universe, however the retailers spell its SKU
\* and whichever worker met it first: products do not share an id, and an id
\* in the cache or in a worker's hands is never stale.
OneProduct ==
  /\ \A p \in Products : \A s, t \in SkusOf(p) : products[s] # Unknown /\ products[t] # Unknown => s = t
  /\ \A s, t \in Skus : products[s] = products[t] /\ s # t => products[s] = Unknown
  /\ \A s \in Skus : ids[s] \in {Unknown, products[s]}
  /\ \A r \in Retailers, s \in Skus : pc[r] # "fetch" => out[r][s] \in {Unknown, products[s]}

\* The two databases agree: an observation in ClickHouse has an offer row
\* in Postgres that is as new, and the row of an id is unique per retailer.
OffersCoverEvents ==
  /\ \A o, q \in offers : o.retailer = q.retailer /\ o.id = q.id => o = q
  /\ \A e \in events : \E o \in offers :
       o.retailer = e.row.retailer /\ o.id = e.row.id /\ o.at >= e.row.at

\* Kept, not dropped (001_init.sql, "Rows that failed validation"): when a
\* worker moves past a page, every item of it is in ClickHouse, in
\* quarantine, or superseded in the page by an item for the same SKU.
Settled(r, id) ==
  \/ <<r, id>> \in quarantined'
  \/ \E e \in events' : e.item = id /\ e.row.retailer = r
  \/ \E x, y \in page[r] : Id(x) = id /\ x # y /\ x.item.sku = y.item.sku /\ x.item.at <= y.item.at

NothingVanishes ==
  [][\A r \in Retailers : pc[r] # "fetch" /\ pc'[r] = "fetch" =>
       \A id \in refused[r] \cup {Id(x) : x \in page[r]} : Settled(r, id)]_vars

\* A stored price is one a retailer asked, to the cent and whatever format
\* it came in, or the x100 unit bug on an item of at most $20.00
\* (normalize.go:62-63: "the cap alone catches the x100 bug for items from
\* $20 up"; the cap of 200000 cents lets through an item of exactly $20.00).
PricesAreMeant ==
  \A o \in offers : \E p \in Prices : o.price = p \/ (o.price = 100 * p /\ p <= 2000)

\* An offer's price jumps only after three consecutive suspect observations
\* (README:49: "if a "spike" persists across three consecutive observations").
Jump(o, q) == o.retailer = q.retailer /\ o.id = q.id /\ SpikeSuspect(o.price, q.price)

Jumps(evidence(_, _)) ==
  \A o \in offers, q \in offers' : Jump(o, q) =>
    \E s \in Skus : products[s] = o.id /\ Cardinality({x.n : x \in evidence(suspects[o.retailer][s], q)}) >= 3

All(seen, q) == seen
JumpsAreObserved == [][Jumps(All)]_vars

\* The price accepted at a jump is the one that persisted (store.go:35-36:
\* "a real feed bug is a blip, a persistent "spike" is the truth"): three
\* of the observations agree with it.
Agreeing(seen, q) == {x \in seen : ~SpikeSuspect(x.price, q.price)}
JumpsPersist == [][Jumps(Agreeing)]_vars

\* The check heals itself: no offer has three observations in a row
\* rejected, so a corrupt price cannot wedge it (store.go:32-37).
SelfHeals == \A r \in Retailers, s \in Skus : Cardinality(rejected[r][s]) < SpikeAcceptAfter
=============================================================================
