-------------------------- MODULE OfferStoreProofs --------------------------
(***************************************************************************)
(* Proofs about OfferStore, for any retailers, products, prices and messes *)
(* of the feeds, any page size and any bounds.                             *)
(*                                                                         *)
(* The first part allows failed statements and crashes between any two     *)
(* statements.  Its invariant follows an item through the page: what the   *)
(* feed says and Normalize leaves of it (FeedTypes, PageTypes), that an id *)
(* in hand is the one in the table (IdsAreCurrent), and that what a worker *)
(* has written or refused is in its table before it moves on               *)
(* (RowsAreWritten, RejectsAreKept).                                       *)
(*                                                                         *)
(* The second part is about the spike check.  A streak may count one       *)
(* observation twice when a later statement fails, so it supposes that no  *)
(* statement fails; crashes stay.                                          *)
(*                                                                         *)
(* The third part is about RowLocks, for any workers and any number of     *)
(* keys.  A statement locks below everything it still wants (Ascending),   *)
(* so around a circle of waiting workers the wanted keys would grow        *)
(* forever; the one that wants the greatest key waits for nobody in it.    *)
(* RowLocks shares no variable and no definition with OfferStore.          *)
(***************************************************************************)
EXTENDS OfferStore, RowLocks, NaturalsInduction, WellFoundedInduction, FiniteSetTheorems, TLAPS

-----------------------------------------------------------------------------
(* The invariant.                                                          *)

\* A price that a retailer asked, or the unit bug that the cap lets through.
Meant(price) == \E p \in Prices : price = p \/ (price = 100 * p /\ p <= 2000)

Offer == [product : Products, cents : Prices, at : 1..MaxItems]
PageItem ==
  [n : 1..MaxItems, copy : {1, 2},
   item : [sku : Skus, price : PriceMinCents..PriceMaxCents, titled : BOOLEAN, at : 0..MaxItems]]

Shape ==
  /\ DOMAIN taken = Retailers /\ DOMAIN feed = Retailers
  /\ DOMAIN page = Retailers /\ DOMAIN refused = Retailers
  /\ DOMAIN held = Retailers /\ DOMAIN spiked = Retailers
  /\ DOMAIN suspects = Retailers /\ DOMAIN rejected = Retailers

FeedTypes ==
  \A r \in Retailers :
    /\ taken[r] \in 0..MaxItems
    /\ \A i \in DOMAIN feed[r] : feed[r][i] \in Offer /\ feed[r][i].at <= taken[r]

\* An item in hand is one of the offers in hand, with the product and the
\* price that was meant.
PageTypes ==
  \A r \in Retailers : \A x \in page[r] :
    /\ x \in PageItem /\ Meant(x.item.price)
    /\ \E i \in DOMAIN feed[r] : x.n = feed[r][i].at

\* Between pages nothing is in hand.
Idle == \A r \in Retailers : pc[r] = "fetch" => page[r] = {}

\* Identities are given in order, so a greatest one exists.
IdsAreBounded == \E b \in Nat : \A s \in Skus : products[s] <= b

IdsAreCurrent == \A r \in Retailers, s \in Skus : out[r][s] \in {Unknown, products[s]}

EventTypes == \A e \in events : e.row.at \in 0..MaxItems

\* Past the upsert, an accepted item has a row that is as new.
RowsAreWritten ==
  \A r \in Retailers : pc[r] \in {"quarantine", "deliver"} =>
    \A s \in Accepted(r) : \E o \in offers :
      o.retailer = r /\ o.id = out[r][s] /\ o.at >= Chosen(r, s).item.at

RejectsAreKept ==
  \A r \in Retailers : pc[r] = "deliver" => \A x \in Rejects(r) : <<r, x>> \in quarantined

StoreInv ==
  /\ TypeOK /\ Shape /\ FeedTypes /\ PageTypes /\ Idle
  /\ IdsAreBounded /\ IdsAreCurrent /\ OneProduct
  /\ EventTypes /\ PricesAreMeant /\ OffersCoverEvents /\ RowsAreWritten /\ RejectsAreKept

-----------------------------------------------------------------------------
(* What the wire does to an item.                                          *)

\* Normalize reads every spelling of a SKU as its product.
LEMMA SpellingsAreOne ==
  ASSUME NEW p, NEW style
  PROVE  NormalizeSKU(Spell(p, style)) = p
BY DEF NormalizeSKU, Spell, Canonical

\* So the SKUs that are stored are the products.
LEMMA SkusAreProducts ==
  /\ \A p \in Products : SkusOf(p) = {p}
  /\ Skus = Products
<1>1. \A p : SkusOf(p) = {p}
  BY SpellingsAreOne DEF SkusOf, Styles, Mangles
<1> QED BY <1>1 DEF Skus

\* Whatever its format, a price is read to the cent.
LEMMA PricesAreExact ==
  ASSUME NEW cents \in Nat, NEW format
  PROVE  ParsePrice(Wire(cents, format)) = cents
<1>1. CASE format = "cents"
  BY <1>1 DEF ParsePrice, Wire
<1>2. CASE format # "cents"
  <2> DEFINE d == cents \div 100
             c == cents % 100
  <2>1. d \in Nat /\ c \in 0..99 /\ cents = 100 * d + c
    OBVIOUS
  <2>2. ParsePrice(Wire(cents, format)) = Round(1000 * (100 * d + c) - (IF c = 0 THEN 0 ELSE 1))
    BY <1>2 DEF ParsePrice, Wire, TimesHundred
  <2> HIDE DEF d, c
  <2>3. (1000 * (100 * d + c) - (IF c = 0 THEN 0 ELSE 1) + 500) \div 1000 = cents
    <3>1. CASE c = 0
      BY <2>1, <3>1
    <3>2. CASE c # 0
      BY <2>1, <3>2
    <3> QED BY <3>1, <3>2
  <2> QED BY <2>2, <2>3 DEF Round
<1> QED BY <1>1, <1>2

LEMMA PricesAreNat == Prices \subseteq Nat
<1>1. PriceMaxCents \in Nat
  BY DEF PriceMaxCents
<1>2. Prices \subseteq 1..PriceMaxCents
  BY StoreAssumption
<1>3. \A k \in 1..PriceMaxCents : k \in Nat
  BY <1>1
<1> QED BY <1>2, <1>3

\* The items of an offer, and what Normalize leaves of the ones it passes.
LEMMA ItemsAreTyped ==
  ASSUME NEW offer \in Offer, NEW mess \in Messes, NEW now \in 0..MaxItems,
         NEW x \in Items(offer, mess), Refusal(x.raw) = "none"
  PROVE  /\ x.n = offer.at /\ x.copy \in {1, 2}
         /\ Normalized(x.raw, now) \in
              [sku : Skus, price : PriceMinCents..PriceMaxCents, titled : BOOLEAN, at : 0..MaxItems]
         /\ Meant(Normalized(x.raw, now).price)
<1> DEFINE item == Serialize(offer, mess)
           asked == IF mess.unit THEN 100 * offer.cents ELSE offer.cents
<1>1. /\ x.n = offer.at /\ x.copy \in {1, 2}
      /\ x.raw.price = Wire(asked, mess.format)
      /\ x.raw.at = (IF mess.stale THEN 0 ELSE offer.at)
      /\ \E style : x.raw.sku = Spell(offer.product, style)
  BY DEF Items, AppendItem, Serialize
<1>2. offer.product \in Products /\ offer.cents \in Prices /\ offer.at \in 1..MaxItems
  BY DEF Offer
<1>3. offer.cents \in Nat
  BY <1>2, PricesAreNat
<1>4. asked \in Nat /\ ParsePrice(x.raw.price) = asked
  BY <1>1, <1>3, PricesAreExact
<1>5. asked \in PriceMinCents..PriceMaxCents
  BY <1>4 DEF Refusal
<1>6. Meant(asked)
  BY <1>2, <1>3, <1>5 DEF Meant, PriceMaxCents
<1>7. NormalizeSKU(x.raw.sku) \in Skus
  BY <1>1, <1>2, SpellingsAreOne, SkusAreProducts
<1>8. (IF x.raw.lacks = "updated_at" THEN now ELSE x.raw.at) \in 0..MaxItems
  BY <1>1, <1>2, StoreAssumption
<1> HIDE DEF asked
<1> QED BY <1>1, <1>4, <1>5, <1>6, <1>7, <1>8 DEF Normalized

-----------------------------------------------------------------------------
(* The dedupe of a page.                                                   *)

\* The order of the naturals, as the set of pairs that WFMin takes.
LEMMA NatOrder == IsWellFoundedOn({ss \in Nat \X Nat : ss[1] < ss[2]}, Nat)
BY NatLessThanWellFounded, Zenon DEF OpToRel

\* A set of naturals has a least member.
LEMMA LeastMember ==
  ASSUME NEW S \in SUBSET Nat, S # {}
  PROVE  \E x \in S : \A y \in S : x <= y
<1>1. PICK x \in S : \A y \in S : ~(<<y, x>> \in {ss \in Nat \X Nat : ss[1] < ss[2]})
  BY NatOrder, WFMin
<1>2. ASSUME NEW y \in S PROVE x <= y
  <2>1. ~(y < x)
    BY <1>1
  <2> QED BY <2>1
<1> QED BY <1>2

\* A SKU of the page has a winner: newest, then first, then the original.
LEMMA ChosenWins ==
  ASSUME StoreInv, NEW r \in Retailers, NEW s \in BatchSkus(r)
  PROVE  /\ Chosen(r, s) \in page[r] /\ Chosen(r, s).item.sku = s
         /\ \A y \in page[r] : y.item.sku = s => Wins(Chosen(r, s), y)
<1> DEFINE mine == {x \in page[r] : x.item.sku = s}
           Ages == {MaxItems - x.item.at : x \in mine}
<1>1. mine # {} /\ \A x \in mine : x.item.at \in 0..MaxItems /\ x.n \in Nat /\ x.copy \in Nat
  BY DEF BatchSkus, StoreInv, PageTypes, PageItem
<1> HIDE DEF mine
<1>2. PICK a \in mine : \A y \in mine : y.item.at <= a.item.at
  <2>1. Ages \in SUBSET Nat /\ Ages # {}
    BY <1>1, StoreAssumption
  <2>2. PICK age \in Ages : \A y \in Ages : age <= y
    <3> HIDE DEF Ages
    <3> QED BY <2>1, LeastMember
  <2>3. PICK a \in mine : age = MaxItems - a.item.at
    BY <2>2
  <2>4. ASSUME NEW y \in mine PROVE y.item.at <= a.item.at
    <3>1. age <= MaxItems - y.item.at
      BY <2>2
    <3> QED BY <1>1, <2>3, <3>1, StoreAssumption
  <2> QED BY <2>4
<1> DEFINE newest == {x \in mine : x.item.at = a.item.at}
           Ns == {x.n : x \in newest}
<1>3. PICK b \in newest : \A y \in newest : b.n <= y.n
  <2>1. Ns \in SUBSET Nat /\ Ns # {}
    BY <1>1
  <2>2. PICK n \in Ns : \A y \in Ns : n <= y
    <3> HIDE DEF Ns
    <3> QED BY <2>1, LeastMember
  <2> QED BY <2>2
<1> DEFINE first == {x \in newest : x.n = b.n}
           Copies == {x.copy : x \in first}
<1>4. PICK c \in first : \A y \in first : c.copy <= y.copy
  <2>1. Copies \in SUBSET Nat /\ Copies # {}
    BY <1>1, <1>3
  <2>2. PICK n \in Copies : \A y \in Copies : n <= y
    <3> HIDE DEF Copies
    <3> QED BY <2>1, LeastMember
  <2> QED BY <2>2
<1>5. ASSUME NEW y \in mine PROVE Wins(c, y)
  <2>1. c.item.at = a.item.at /\ c.n = b.n /\ y.item.at <= a.item.at
    BY <1>2, <1>3, <1>4
  <2>2. CASE y.item.at < c.item.at
    BY <1>1, <1>4, <2>2 DEF Wins
  <2>3. CASE y.item.at = c.item.at /\ y.n # b.n
    BY <1>1, <1>3, <1>4, <2>1, <2>3 DEF Wins, First
  <2>4. CASE y.item.at = c.item.at /\ y.n = b.n
    BY <1>1, <1>4, <2>1, <2>4 DEF Wins, First
  <2> QED BY <1>1, <1>4, <2>1, <2>2, <2>3, <2>4
<1>6. Chosen(r, s) \in mine /\ \A y \in mine : Wins(Chosen(r, s), y)
  BY <1>4, <1>5, Zenon DEF Chosen, mine
<1> QED BY <1>6 DEF mine

\* The rows a page makes are typed, and rows of different SKUs have
\* different ids.
LEMMA RowsAreTyped ==
  ASSUME StoreInv, NEW r \in Retailers, NEW s \in Accepted(r)
  PROVE  /\ s \in Skus /\ out[r][s] = products[s] /\ out[r][s] # Unknown
         /\ Row(r, s) \in [retailer : {r}, id : Nat, price : PriceMinCents..PriceMaxCents, at : 0..MaxItems]
         /\ Meant(Row(r, s).price)
         /\ \A t \in Accepted(r) : out[r][t] = out[r][s] => t = s
<1>1. s \in BatchSkus(r) /\ out[r][s] # Unknown
  BY DEF Accepted, Resolved
<1>2. Chosen(r, s) \in PageItem /\ Chosen(r, s).item.sku = s /\ Meant(Chosen(r, s).item.price)
  BY <1>1, ChosenWins DEF StoreInv, PageTypes
<1>3. \A t \in Accepted(r) : t \in Skus /\ out[r][t] # Unknown
  BY DEF Accepted, Resolved, BatchSkus, StoreInv, PageTypes, PageItem
<1>4. \A t \in Accepted(r) : out[r][t] = products[t]
  BY <1>3 DEF StoreInv, IdsAreCurrent
<1>5. \A t \in Accepted(r) : out[r][t] = out[r][s] => t = s
  BY <1>3, <1>4 DEF StoreInv, OneProduct
<1>6. out[r][s] \in Nat
  BY <1>3 DEF StoreInv, TypeOK
<1> QED BY <1>2, <1>3, <1>4, <1>5, <1>6 DEF Row, PageItem

-----------------------------------------------------------------------------
(* What a statement leaves of a worker's page: all of it, or nothing.      *)

Kept(q) ==
  /\ page'[q] = page[q] /\ refused'[q] = refused[q] /\ out'[q] = out[q]
  /\ held'[q] = held[q] /\ spiked'[q] = spiked[q]
Empty(q) ==
  /\ page'[q] = {} /\ refused'[q] = {} /\ out'[q] = NoIds
  /\ held'[q] = {} /\ spiked'[q] = {}

Stages == {"fetch", "read", "resolve", "insert", "select", "price", "check",
           "write", "quarantine", "deliver"}

\* r's statement is over, and led to a stage of tos; the others wait.
Moved(r, tos) ==
  /\ pc' \in [Retailers -> Stages] /\ taken' = taken
  /\ DOMAIN feed' = Retailers /\ DOMAIN page' = Retailers /\ DOMAIN refused' = Retailers
  /\ DOMAIN held' = Retailers /\ DOMAIN spiked' = Retailers
  /\ out' \in [Retailers -> [Skus -> Nat]]
  /\ \A q \in Retailers \ {r} : pc'[q] = pc[q] /\ Kept(q) /\ feed'[q] = feed[q]
  /\ \/ pc'[r] \in tos \ {"fetch"} /\ Kept(r) /\ feed'[r] = feed[r]
     \/ pc'[r] \in {"read", "fetch"} /\ Empty(r) /\ feed'[r] \in {feed[r], <<>>}

\* The winner for a SKU among the items of a page.
Winner(items, sku) ==
  LET mine == {x \in items : x.item.sku = sku}
  IN  CHOOSE x \in mine : \A y \in mine : Wins(x, y)

LEMMA ChosenIsWinner ==
  ASSUME NEW q, NEW s
  PROVE  Chosen(q, s) = Winner(page[q], s) /\ Chosen(q, s)' = Winner(page'[q], s)
BY DEF Chosen, Winner, Wins, First

\* What is derived from a page that is kept stays the same, ...
LEMMA KeptItems ==
  ASSUME NEW q \in Retailers, Kept(q)
  PROVE  /\ BatchSkus(q)' = BatchSkus(q) /\ Resolved(q)' = Resolved(q) /\ Accepted(q)' = Accepted(q)
         /\ Rejects(q)' = Rejects(q)
         /\ \A s : Chosen(q, s)' = Chosen(q, s) /\ Row(q, s)' = Row(q, s)
<1>1. \A s : Chosen(q, s)' = Chosen(q, s)
  BY ChosenIsWinner DEF Kept
<1>2. \A s : Row(q, s)' = Row(q, s)
  BY <1>1 DEF Row, Kept
<1>3. BatchSkus(q)' = BatchSkus(q)
  BY DEF BatchSkus, Kept
<1>4. Resolved(q)' = Resolved(q)
  BY <1>3 DEF Resolved, Kept
<1>5. Accepted(q)' = Accepted(q)
  BY <1>4 DEF Accepted, Kept
<1>6. Rejects(q)' = Rejects(q)
  BY <1>1, <1>3 DEF Rejects, Id, Kept
<1> QED BY <1>1, <1>2, <1>3, <1>4, <1>5, <1>6

\* ... and of an empty one nothing is left.
LEMMA EmptyItems ==
  ASSUME NEW q \in Retailers, page'[q] = {}
  PROVE  BatchSkus(q)' = {} /\ Resolved(q)' = {} /\ Accepted(q)' = {}
BY DEF BatchSkus, Resolved, Accepted

LEMMA NoIdsAreIds == NoIds \in [Skus -> Nat] /\ \A s \in Skus : NoIds[s] = Unknown
BY DEF NoIds, Unknown

\* A statement moves its worker on, or back to the start of the page.
LEMMA StatementMoves ==
  ASSUME StoreInv, NEW r \in Retailers, NEW from, NEW to \in Stages, Statement(r, from, to)
  PROVE  pc[r] = from /\ Moved(r, {to})
<1>1. pc[r] = from /\ pc \in [Retailers -> Stages]
  BY DEF Statement, Succeeds, Fails, Done, Goto, StoreInv, TypeOK, Stages
<1>2. CASE Succeeds(r, from, to)
  <2>1. pc' = [pc EXCEPT ![r] = to] /\ taken' = taken
    BY <1>2 DEF Succeeds, Done, Goto, bounds
  <2>2. CASE to = "fetch"
    <3>1. Drop({r}) /\ feed' = [feed EXCEPT ![r] = <<>>]
      BY <1>2, <2>2 DEF Succeeds
    <3> QED
      BY <1>1, <2>1, <2>2, <3>1, NoIdsAreIds
         DEF Drop, Moved, Kept, Empty, StoreInv, Shape, TypeOK, Stages
  <2>3. CASE to # "fetch"
    <3>1. UNCHANGED <<feed, page, refused, out, held, spiked>>
      BY <1>2, <2>3 DEF Succeeds, work
    <3> QED
      BY <1>1, <2>1, <2>3, <3>1 DEF Moved, Kept, StoreInv, Shape, TypeOK, Stages
  <2> QED BY <2>2, <2>3
<1>3. CASE Fails(r, from)
  <2>1. pc' = [pc EXCEPT ![r] = "read"] /\ taken' = taken /\ feed' = feed /\ Drop({r})
    BY <1>3 DEF Fails, Goto
  <2> QED
    BY <1>1, <2>1, NoIdsAreIds DEF Drop, Moved, Kept, Empty, StoreInv, Shape, TypeOK, Stages
<1> QED BY <1>2, <1>3 DEF Statement

\* A move keeps what is known of the pages, while ids only appear.
LEMMA MoveKeepsPages ==
  ASSUME StoreInv, NEW r \in Retailers, NEW tos, Moved(r, tos),
         \A s \in Skus : products[s] # Unknown => products'[s] = products[s]
  PROVE  FeedTypes' /\ PageTypes' /\ Idle' /\ IdsAreCurrent'
<1>1. \A q \in Retailers : feed'[q] = feed[q] \/ feed'[q] = <<>>
  BY DEF Moved
<1>2. \A q \in Retailers : (page'[q] = page[q] /\ feed'[q] = feed[q]) \/ page'[q] = {}
  BY DEF Moved, Kept, Empty
<1>3. FeedTypes'
  <2> SUFFICES ASSUME NEW q \in Retailers
               PROVE  /\ taken'[q] \in 0..MaxItems
                      /\ \A i \in DOMAIN feed'[q] : feed'[q][i] \in Offer' /\ feed'[q][i].at <= taken'[q]
    BY DEF FeedTypes
  <2>1. taken' = taken /\ Offer' = Offer
    BY DEF Moved, Offer
  <2>2. CASE feed'[q] = feed[q]
    BY <2>1, <2>2 DEF StoreInv, FeedTypes
  <2>3. CASE feed'[q] = <<>>
    BY <2>1, <2>3 DEF StoreInv, FeedTypes
  <2> QED BY <1>1, <2>2, <2>3
<1>4. PageTypes'
  <2> SUFFICES ASSUME NEW q \in Retailers, NEW x \in page'[q]
               PROVE  /\ x \in PageItem' /\ Meant(x.item.price)'
                      /\ \E i \in DOMAIN feed'[q] : x.n = feed'[q][i].at
    BY DEF PageTypes
  <2>1. x \in page[q] /\ feed'[q] = feed[q]
    BY <1>2
  <2> QED BY <2>1 DEF StoreInv, PageTypes, PageItem, Meant
<1>5. Idle'
  BY <1>2 DEF Moved, StoreInv, Idle, Kept, Empty
<1>6. IdsAreCurrent'
  <2> SUFFICES ASSUME NEW q \in Retailers, NEW s \in Skus, out'[q][s] # Unknown
               PROVE  out'[q][s] = products'[s]
    BY DEF IdsAreCurrent, Skus, SkusOf, Unknown
  <2>1. out'[q][s] = out[q][s]
    BY NoIdsAreIds DEF Moved, Kept, Empty
  <2> QED BY <2>1 DEF StoreInv, IdsAreCurrent
<1> QED BY <1>3, <1>4, <1>5, <1>6

\* What is derived from the tables follows them.
LEMMA TablesKept ==
  ASSUME StoreInv, UNCHANGED <<products, offers, ids>>, IdsAreCurrent'
  PROVE  IdsAreBounded' /\ OneProduct' /\ PricesAreMeant'
<1>1. IdsAreBounded'
  BY DEF StoreInv, IdsAreBounded, Skus, SkusOf
<1>2. OneProduct'
  BY DEF StoreInv, OneProduct, IdsAreCurrent
<1>3. PricesAreMeant'
  BY DEF StoreInv, PricesAreMeant
<1> QED BY <1>1, <1>2, <1>3

\* Before the upsert, a worker has written and refused nothing yet; the
\* others keep what they have.
LEMMA MoveKeepsWritten ==
  ASSUME StoreInv, NEW r \in Retailers, NEW tos, Moved(r, tos),
         offers' = offers, quarantined \subseteq quarantined', tos \subseteq Stages \ {"quarantine", "deliver"}
  PROVE  RowsAreWritten' /\ RejectsAreKept'
<1>1. ASSUME NEW q \in Retailers, pc'[q] \in {"quarantine", "deliver"}
      PROVE  q # r /\ pc[q] = pc'[q] /\ Kept(q)
  BY <1>1 DEF Moved
<1>2. RowsAreWritten'
  <2> SUFFICES ASSUME NEW q \in Retailers, pc'[q] \in {"quarantine", "deliver"}, NEW s \in Accepted(q)'
               PROVE  \E o \in offers' : o.retailer = q /\ o.id = out'[q][s] /\ o.at >= Chosen(q, s)'.item.at
    BY DEF RowsAreWritten
  <2>1. s \in Accepted(q) /\ Chosen(q, s)' = Chosen(q, s) /\ out'[q] = out[q] /\ pc[q] = pc'[q]
    BY <1>1, KeptItems DEF Kept
  <2> QED BY <2>1 DEF StoreInv, RowsAreWritten
<1>3. RejectsAreKept'
  <2> SUFFICES ASSUME NEW q \in Retailers, pc'[q] = "deliver", NEW x \in Rejects(q)'
               PROVE  <<q, x>> \in quarantined'
    BY DEF RejectsAreKept
  <2>1. x \in Rejects(q) /\ pc[q] = "deliver"
    BY <1>1, KeptItems
  <2> QED BY <2>1 DEF StoreInv, RejectsAreKept
<1> QED BY <1>2, <1>3

-----------------------------------------------------------------------------
(* The steps of a worker that leave the tables alone.                      *)

HeldTypes(q) == held[q] \subseteq [retailer : {q}, id : Nat, price : Nat, at : Nat]
SpikeTypes == \A k \in DOMAIN spikes : k[1] \in Retailers /\ spikes[k] \in 1..SpikeAcceptAfter-1

\* Such a step needs a look at its own worker only.
LEMMA LocalStep ==
  ASSUME StoreInv, NEW r \in Retailers, UNCHANGED <<tables, outcome>>, Shape',
         pc' \in [Retailers -> Stages], out' \in [Retailers -> [Skus -> Nat]], ids' \in [Skus -> Nat],
         \A q \in Retailers \ {r} :
           pc'[q] = pc[q] /\ Kept(q) /\ feed'[q] = feed[q] /\ taken'[q] = taken[q],
         taken'[r] \in 0..MaxItems,
         \A i \in DOMAIN feed'[r] : feed'[r][i] \in Offer /\ feed'[r][i].at <= taken'[r],
         \A x \in page'[r] : /\ x \in PageItem /\ Meant(x.item.price)
                             /\ \E i \in DOMAIN feed'[r] : x.n = feed'[r][i].at,
         pc'[r] = "fetch" => page'[r] = {},
         \A s \in Skus : out'[r][s] \in {Unknown, products[s]} /\ ids'[s] \in {Unknown, products[s]},
         SpikeTypes', spiked'[r] \subseteq Skus, HeldTypes(r)',
         pc'[r] = "quarantine" => Accepted(r)' = {}, pc'[r] # "deliver"
  PROVE  StoreInv'
<1>1. products' = products /\ offers' = offers /\ quarantined' = quarantined /\ events' = events
  BY DEF tables, outcome
<1>2. TypeOK'
  <2>1. ASSUME NEW q \in Retailers PROVE spiked'[q] \subseteq Skus /\ HeldTypes(q)'
    <3>1. CASE q = r
      BY <3>1
    <3>2. CASE q # r
      BY <3>2 DEF Kept, HeldTypes, StoreInv, TypeOK
    <3> QED BY <3>1, <3>2
  <2>2. products \in [Skus -> Nat]
        /\ offers \subseteq [retailer : Retailers, id : Nat, price : PriceMinCents..PriceMaxCents, at : 0..MaxItems]
    BY DEF StoreInv, TypeOK
  <2> QED BY <1>1, <2>1, <2>2, Zenon DEF TypeOK, Stages, SpikeTypes, HeldTypes, Skus, SkusOf
<1>3. FeedTypes'
  <2> SUFFICES ASSUME NEW q \in Retailers
               PROVE  /\ taken'[q] \in 0..MaxItems
                      /\ \A i \in DOMAIN feed'[q] : feed'[q][i] \in Offer /\ feed'[q][i].at <= taken'[q]
    BY DEF FeedTypes, Offer
  <2>1. CASE q = r
    BY <2>1
  <2>2. CASE q # r
    BY <2>2 DEF StoreInv, FeedTypes
  <2> QED BY <2>1, <2>2
<1>4. PageTypes'
  <2> SUFFICES ASSUME NEW q \in Retailers, NEW x \in page'[q]
               PROVE  /\ x \in PageItem /\ Meant(x.item.price)
                      /\ \E i \in DOMAIN feed'[q] : x.n = feed'[q][i].at
    BY DEF PageTypes, PageItem, Meant
  <2>1. CASE q = r
    BY <2>1
  <2>2. CASE q # r
    BY <2>2 DEF StoreInv, PageTypes, Kept
  <2> QED BY <2>1, <2>2
<1>5. Idle'
  BY DEF Idle, Kept, StoreInv
<1>6. IdsAreCurrent'
  BY <1>1 DEF IdsAreCurrent, Kept, StoreInv, Skus, SkusOf
<1>7. IdsAreBounded' /\ EventTypes' /\ PricesAreMeant' /\ OffersCoverEvents'
  BY <1>1 DEF StoreInv, IdsAreBounded, EventTypes, PricesAreMeant, OffersCoverEvents, Skus, SkusOf
<1>8. OneProduct'
  <2>1. \A p \in Products : \A s, t \in SkusOf(p) : products[s] # Unknown /\ products[t] # Unknown => s = t
    BY DEF StoreInv, OneProduct
  <2>2. \A s, t \in Skus : products[s] = products[t] /\ s # t => products[s] = Unknown
    BY DEF StoreInv, OneProduct
  <2>3. \A q \in Retailers, s \in Skus : out'[q][s] \in {Unknown, products[s]}
    BY <1>1, <1>6 DEF IdsAreCurrent, Skus, SkusOf
  <2>4. \A p \in Products : SkusOf(p)' = SkusOf(p)
    BY DEF SkusOf
  <2>5. Skus' = Skus
    BY DEF Skus, SkusOf
  <2> QED BY <1>1, <2>1, <2>2, <2>3, <2>4, <2>5 DEF OneProduct
<1>9. \A q \in Retailers \ {r} : /\ Accepted(q)' = Accepted(q) /\ Rejects(q)' = Rejects(q)
                                 /\ \A s : Chosen(q, s)' = Chosen(q, s)
                                 /\ out'[q] = out[q] /\ pc'[q] = pc[q]
  BY KeptItems DEF Kept
<1>10. RowsAreWritten'
  <2> SUFFICES ASSUME NEW q \in Retailers, pc'[q] \in {"quarantine", "deliver"}, NEW s \in Accepted(q)'
               PROVE  \E o \in offers : o.retailer = q /\ o.id = out'[q][s] /\ o.at >= Chosen(q, s)'.item.at
    BY <1>1 DEF RowsAreWritten
  <2>1. q # r
    OBVIOUS
  <2> QED BY <1>9, <2>1 DEF StoreInv, RowsAreWritten
<1>11. RejectsAreKept'
  <2> SUFFICES ASSUME NEW q \in Retailers, pc'[q] = "deliver", NEW x \in Rejects(q)'
               PROVE  <<q, x>> \in quarantined
    BY <1>1 DEF RejectsAreKept
  <2>1. q # r
    OBVIOUS
  <2> QED BY <1>9, <2>1 DEF StoreInv, RejectsAreKept
<1> QED BY <1>2, <1>3, <1>4, <1>5, <1>6, <1>7, <1>8, <1>10, <1>11 DEF StoreInv

\* What a worker and the tables have before any step.
LEMMA WorkerTypes ==
  ASSUME StoreInv, NEW r \in Retailers
  PROVE  /\ pc \in [Retailers -> Stages] /\ out \in [Retailers -> [Skus -> Nat]]
         /\ ids \in [Skus -> Nat] /\ products \in [Skus -> Nat]
         /\ taken[r] \in 0..MaxItems
         /\ \A i \in DOMAIN feed[r] : feed[r][i] \in Offer /\ feed[r][i].at <= taken[r]
         /\ \A x \in page[r] : /\ x \in PageItem /\ Meant(x.item.price)
                               /\ \E i \in DOMAIN feed[r] : x.n = feed[r][i].at
         /\ \A s \in Skus : out[r][s] \in {Unknown, products[s]} /\ ids[s] \in {Unknown, products[s]}
         /\ SpikeTypes /\ spiked[r] \subseteq Skus /\ HeldTypes(r)
         /\ BatchSkus(r) \subseteq Skus
<1>1. BatchSkus(r) \subseteq Skus
  BY DEF BatchSkus, StoreInv, PageTypes, PageItem
<1>2. \A s \in Skus : out[r][s] \in {Unknown, products[s]} /\ ids[s] \in {Unknown, products[s]}
  BY DEF StoreInv, IdsAreCurrent, OneProduct
<1>3. HeldTypes(r) /\ spiked[r] \subseteq Skus /\ SpikeTypes
  BY DEF StoreInv, TypeOK, HeldTypes, SpikeTypes
<1> QED BY <1>1, <1>2, <1>3 DEF StoreInv, TypeOK, Stages, FeedTypes, PageTypes

LEMMA FetchKeeps ==
  ASSUME StoreInv, NEW r \in Retailers, Fetch(r)
  PROVE  StoreInv'
<1>1. pc[r] = "fetch" /\ pc' = [pc EXCEPT ![r] = "read"]
  BY DEF Fetch, Goto
<1>2. PICK k \in 1..PageSize :
        /\ taken[r] + k <= MaxItems
        /\ taken' = [taken EXCEPT ![r] = @ + k]
        /\ \E said \in [1..k -> [product : Products, cents : Prices]] :
             feed' = [feed EXCEPT ![r] = [i \in 1..k |->
               [product |-> said[i].product, cents |-> said[i].cents, at |-> taken[r] + i]]]
  BY DEF Fetch
<1>3. PICK said \in [1..k -> [product : Products, cents : Prices]] :
        feed' = [feed EXCEPT ![r] = [i \in 1..k |->
          [product |-> said[i].product, cents |-> said[i].cents, at |-> taken[r] + i]]]
  BY <1>2
<1>4. UNCHANGED <<stores, work, outcome, failures, crashes, history>>
  BY DEF Fetch
<1>5. taken[r] \in 0..MaxItems /\ k \in Nat /\ MaxItems \in Nat
  BY StoreAssumption DEF StoreInv, FeedTypes
<1>6. page'[r] = {}
  BY <1>1, <1>4 DEF work, StoreInv, Idle
<1>7. taken'[r] \in 0..MaxItems /\ taken'[r] = taken[r] + k
  BY <1>2, <1>5 DEF StoreInv, Shape
<1>8. ASSUME NEW i \in DOMAIN feed'[r] PROVE feed'[r][i] \in Offer /\ feed'[r][i].at <= taken'[r]
  <2>1. /\ i \in 1..k
        /\ feed'[r][i] = [product |-> said[i].product, cents |-> said[i].cents, at |-> taken[r] + i]
    BY <1>3, <1>8 DEF StoreInv, Shape
  <2>2. said[i].product \in Products /\ said[i].cents \in Prices
    BY <2>1
  <2>3. taken[r] + i \in 1..MaxItems /\ taken[r] + i <= taken'[r]
    BY <1>2, <1>5, <1>7, <2>1
  <2> QED BY <2>1, <2>2, <2>3 DEF Offer
<1>9. Shape'
  BY <1>2, <1>3, <1>4 DEF work, history, StoreInv, Shape
<1>10. \A q \in Retailers \ {r} : pc'[q] = pc[q] /\ Kept(q) /\ feed'[q] = feed[q] /\ taken'[q] = taken[q]
  BY <1>1, <1>2, <1>3, <1>4, WorkerTypes DEF work, Kept, StoreInv, Shape
<1>11. /\ pc' \in [Retailers -> Stages] /\ out' \in [Retailers -> [Skus -> Nat]] /\ ids' \in [Skus -> Nat]
       /\ UNCHANGED <<tables, outcome>> /\ pc'[r] = "read"
       /\ \A s \in Skus : out'[r][s] \in {Unknown, products[s]} /\ ids'[s] \in {Unknown, products[s]}
       /\ spiked'[r] \subseteq Skus
  BY <1>1, <1>4, WorkerTypes DEF work, stores, Stages
<1>12. SpikeTypes' /\ HeldTypes(r)'
  BY <1>4, WorkerTypes DEF work, stores, SpikeTypes, HeldTypes
<1> QED BY <1>6, <1>7, <1>8, <1>9, <1>10, <1>11, <1>12, LocalStep

LEMMA ReadKeeps ==
  ASSUME StoreInv, NEW r \in Retailers, Read(r)
  PROVE  StoreInv'
<1>1. PICK items \in Pages(r), now \in taken[r]..MaxItems :
        LET clean == {x \in items : Refusal(x.raw) = "none"} IN
        /\ page' = [page EXCEPT ![r] = {[n |-> x.n, copy |-> x.copy, item |-> Normalized(x.raw, now)] : x \in clean}]
        /\ refused' = [refused EXCEPT ![r] = {<<x.n, x.copy>> : x \in items \ clean}]
        /\ Done(r, "read", IF clean = {} THEN "quarantine" ELSE "resolve")
  BY DEF Read
<1> DEFINE clean == {x \in items : Refusal(x.raw) = "none"}
<1>2. UNCHANGED <<stores, feed, out, held, spiked, outcome, history>> /\ taken' = taken
  BY <1>1 DEF Read, Done, bounds
<1>3. /\ page' = [page EXCEPT ![r] = {[n |-> x.n, copy |-> x.copy, item |-> Normalized(x.raw, now)] : x \in clean}]
      /\ DOMAIN refused' = Retailers
      /\ \A q \in Retailers \ {r} : refused'[q] = refused[q]
      /\ pc' = [pc EXCEPT ![r] = IF clean = {} THEN "quarantine" ELSE "resolve"]
  BY <1>1 DEF Done, Goto, StoreInv, Shape
<1>4. ASSUME NEW x \in page'[r]
      PROVE  /\ x \in PageItem /\ Meant(x.item.price)
             /\ \E i \in DOMAIN feed[r] : x.n = feed[r][i].at
  <2>1. PICK y \in clean : x = [n |-> y.n, copy |-> y.copy, item |-> Normalized(y.raw, now)]
    BY <1>3, <1>4 DEF StoreInv, Shape
  <2>2. PICK messes \in [DOMAIN feed[r] -> Messes] :
          items = UNION {Items(feed[r][i], messes[i]) : i \in DOMAIN messes}
    BY DEF Pages
  <2>3. PICK i \in DOMAIN feed[r] : y \in Items(feed[r][i], messes[i])
    BY <2>1, <2>2
  <2>4. feed[r][i] \in Offer /\ messes[i] \in Messes /\ now \in 0..MaxItems /\ Refusal(y.raw) = "none"
    BY <2>1, <2>2, WorkerTypes
  <2>5. /\ y.n = feed[r][i].at /\ y.copy \in {1, 2}
        /\ Normalized(y.raw, now) \in
             [sku : Skus, price : PriceMinCents..PriceMaxCents, titled : BOOLEAN, at : 0..MaxItems]
        /\ Meant(Normalized(y.raw, now).price)
    BY <2>3, <2>4, ItemsAreTyped
  <2>6. feed[r][i].at \in 1..MaxItems
    BY <2>4 DEF Offer
  <2> QED BY <2>1, <2>5, <2>6 DEF PageItem
<1>5. clean = {} => page'[r] = {}
  BY <1>3 DEF StoreInv, Shape
<1> HIDE DEF clean
<1>6. Shape'
  BY <1>2, <1>3 DEF history, StoreInv, Shape
<1>7. /\ pc' \in [Retailers -> Stages] /\ pc'[r] \in {"quarantine", "resolve"}
      /\ (pc'[r] = "quarantine" => page'[r] = {})
  BY <1>3, <1>5, WorkerTypes DEF Stages
<1>8. \A q \in Retailers \ {r} : pc'[q] = pc[q] /\ Kept(q) /\ feed'[q] = feed[q] /\ taken'[q] = taken[q]
  BY <1>2, <1>3, WorkerTypes DEF Kept, StoreInv, Shape
<1>9. /\ out' \in [Retailers -> [Skus -> Nat]] /\ ids' \in [Skus -> Nat] /\ UNCHANGED <<tables, outcome>>
      /\ \A s \in Skus : out'[r][s] \in {Unknown, products[s]} /\ ids'[s] \in {Unknown, products[s]}
      /\ spiked'[r] \subseteq Skus /\ taken'[r] \in 0..MaxItems
      /\ \A i \in DOMAIN feed'[r] : feed'[r][i] \in Offer /\ feed'[r][i].at <= taken'[r]
  BY <1>2, WorkerTypes DEF stores
<1>10. SpikeTypes' /\ HeldTypes(r)'
  BY <1>2, WorkerTypes DEF stores, SpikeTypes, HeldTypes
<1> QED BY <1>2, <1>4, <1>6, <1>7, <1>8, <1>9, <1>10, EmptyItems, LocalStep

LEMMA LookupIdsKeeps ==
  ASSUME StoreInv, NEW r \in Retailers, LookupIds(r)
  PROVE  StoreInv'
<1>1. /\ out' = [out EXCEPT ![r] = [s \in Skus |-> IF s \in BatchSkus(r) THEN ids[s] ELSE Unknown]]
      /\ UNCHANGED <<stores, feed, page, refused, held, spiked, outcome, history>> /\ taken' = taken
      /\ pc' = [pc EXCEPT ![r] = IF \A s \in BatchSkus(r) : ids[s] # Unknown THEN "price"
                                 ELSE IF \E s \in BatchSkus(r) : ids[s] = Unknown /\ Chosen(r, s).item.titled THEN "insert"
                                 ELSE "select"]
  BY DEF LookupIds, Done, Goto, bounds
<1>2. pc' \in [Retailers -> Stages] /\ pc'[r] \in {"price", "insert", "select"}
  BY <1>1, WorkerTypes DEF Stages
<1>3. \A q \in Retailers \ {r} : pc'[q] = pc[q] /\ Kept(q) /\ feed'[q] = feed[q] /\ taken'[q] = taken[q]
  BY <1>1, WorkerTypes DEF Kept
<1>4. /\ out' \in [Retailers -> [Skus -> Nat]]
      /\ \A s \in Skus : out'[r][s] \in {Unknown, products[s]}
  BY <1>1, WorkerTypes DEF Unknown
<1>5. Shape'
  BY <1>1 DEF history, StoreInv, Shape
<1>6. /\ ids' \in [Skus -> Nat] /\ UNCHANGED <<tables, outcome>>
      /\ \A s \in Skus : ids'[s] \in {Unknown, products[s]}
      /\ spiked'[r] \subseteq Skus /\ taken'[r] \in 0..MaxItems
      /\ \A i \in DOMAIN feed'[r] : feed'[r][i] \in Offer /\ feed'[r][i].at <= taken'[r]
      /\ \A x \in page'[r] : /\ x \in PageItem /\ Meant(x.item.price)
                             /\ \E i \in DOMAIN feed'[r] : x.n = feed'[r][i].at
  BY <1>1, WorkerTypes DEF stores
<1>7. SpikeTypes' /\ HeldTypes(r)'
  BY <1>1, WorkerTypes DEF stores, SpikeTypes, HeldTypes
<1> QED BY <1>2, <1>3, <1>4, <1>5, <1>6, <1>7, LocalStep

LEMMA SelectIdsKeeps ==
  ASSUME StoreInv, NEW r \in Retailers, SelectIds(r)
  PROVE  StoreInv'
<1> DEFINE found == {s \in Misses(r) : products[s] # Unknown}
<1>1. /\ ids' = [s \in Skus |-> IF s \in found THEN products[s] ELSE ids[s]]
      /\ out' = [out EXCEPT ![r] = [s \in Skus |-> IF s \in found THEN products[s] ELSE @[s]]]
      /\ UNCHANGED <<tables, spikes, feed, page, refused, held, spiked, outcome, history>> /\ taken' = taken
      /\ pc' = [pc EXCEPT ![r] = "price"]
  BY DEF SelectIds, Done, Goto, bounds
<1> HIDE DEF found
<1>2. pc' \in [Retailers -> Stages] /\ pc'[r] = "price"
  BY <1>1, WorkerTypes DEF Stages
<1>3. \A q \in Retailers \ {r} : pc'[q] = pc[q] /\ Kept(q) /\ feed'[q] = feed[q] /\ taken'[q] = taken[q]
  BY <1>1, WorkerTypes DEF Kept
<1>4. /\ out' \in [Retailers -> [Skus -> Nat]] /\ ids' \in [Skus -> Nat]
      /\ \A s \in Skus : out'[r][s] \in {Unknown, products[s]} /\ ids'[s] \in {Unknown, products[s]}
  BY <1>1, WorkerTypes
<1>5. Shape'
  BY <1>1 DEF history, StoreInv, Shape
<1>6. /\ UNCHANGED <<tables, outcome>>
      /\ spiked'[r] \subseteq Skus /\ taken'[r] \in 0..MaxItems
      /\ \A i \in DOMAIN feed'[r] : feed'[r][i] \in Offer /\ feed'[r][i].at <= taken'[r]
      /\ \A x \in page'[r] : /\ x \in PageItem /\ Meant(x.item.price)
                             /\ \E i \in DOMAIN feed'[r] : x.n = feed'[r][i].at
  BY <1>1, WorkerTypes
<1>7. SpikeTypes' /\ HeldTypes(r)'
  BY <1>1, WorkerTypes DEF SpikeTypes, HeldTypes
<1> QED BY <1>2, <1>3, <1>4, <1>5, <1>6, <1>7, LocalStep

LEMMA ReadHeldKeeps ==
  ASSUME StoreInv, NEW r \in Retailers, ReadHeld(r)
  PROVE  StoreInv'
<1>1. /\ held' = [held EXCEPT ![r] =
           {o \in offers : o.retailer = r /\ \E s \in Resolved(r) : o.id = out[r][s]}]
      /\ UNCHANGED <<stores, feed, page, refused, out, spiked, outcome, history>> /\ taken' = taken
      /\ pc' = [pc EXCEPT ![r] = "check"]
  BY DEF ReadHeld, Done, Goto, bounds
<1>2. pc' \in [Retailers -> Stages] /\ pc'[r] = "check"
  BY <1>1, WorkerTypes DEF Stages
<1>3. \A q \in Retailers \ {r} : pc'[q] = pc[q] /\ Kept(q) /\ feed'[q] = feed[q] /\ taken'[q] = taken[q]
  BY <1>1, WorkerTypes DEF Kept, StoreInv, Shape
<1>4. HeldTypes(r)'
  <2> SUFFICES ASSUME NEW o \in held'[r]
               PROVE  o \in [retailer : {r}, id : Nat, price : Nat, at : Nat]
    BY DEF HeldTypes
  <2>1. o \in offers /\ o.retailer = r
    BY <1>1 DEF StoreInv, Shape
  <2>2. o \in [retailer : Retailers, id : Nat, price : PriceMinCents..PriceMaxCents, at : 0..MaxItems]
    BY <2>1 DEF StoreInv, TypeOK
  <2>3. PriceMinCents \in Nat /\ PriceMaxCents \in Nat
    BY DEF PriceMinCents, PriceMaxCents
  <2>4. o.price \in Nat /\ o.at \in Nat
    BY <2>2, <2>3
  <2> QED BY <2>1, <2>2, <2>4
<1>5. Shape'
  BY <1>1 DEF history, StoreInv, Shape
<1>6. /\ UNCHANGED <<tables, outcome>>
      /\ out' \in [Retailers -> [Skus -> Nat]] /\ ids' \in [Skus -> Nat]
      /\ \A s \in Skus : out'[r][s] \in {Unknown, products[s]} /\ ids'[s] \in {Unknown, products[s]}
      /\ spiked'[r] \subseteq Skus /\ taken'[r] \in 0..MaxItems
      /\ \A i \in DOMAIN feed'[r] : feed'[r][i] \in Offer /\ feed'[r][i].at <= taken'[r]
      /\ \A x \in page'[r] : /\ x \in PageItem /\ Meant(x.item.price)
                             /\ \E i \in DOMAIN feed'[r] : x.n = feed'[r][i].at
  BY <1>1, WorkerTypes DEF stores
<1>7. SpikeTypes'
  BY <1>1, WorkerTypes DEF stores, SpikeTypes
<1> QED BY <1>2, <1>3, <1>4, <1>5, <1>6, <1>7, LocalStep

LEMMA CheckSpikesKeeps ==
  ASSUME StoreInv, NEW r \in Retailers, CheckSpikes(r)
  PROVE  StoreInv'
<1> DEFINE rejects == {s \in Resolved(r) : SpikeReject(r, s)}
           ended == {<<r, out[r][s]>> : s \in {t \in Resolved(r) : EndsStreak(r, t)}}
           longer == {<<r, out[r][s]>> : s \in rejects}
<1>1. /\ pc' = [pc EXCEPT ![r] = IF Resolved(r) = rejects THEN "quarantine" ELSE "write"]
      /\ spiked' = [spiked EXCEPT ![r] = rejects]
      /\ spikes' = [k \in (DOMAIN spikes \ ended) \cup longer |->
                      (IF k \in DOMAIN spikes THEN spikes[k] ELSE 0) + (IF k \in longer THEN 1 ELSE 0)]
      /\ UNCHANGED <<tables, ids, feed, page, refused, out, held, outcome>> /\ taken' = taken
  BY DEF CheckSpikes, Done, Goto, bounds
<1>2. DOMAIN suspects' = Retailers /\ DOMAIN rejected' = Retailers
  BY DEF CheckSpikes, StoreInv, Shape
<1>3. rejects \subseteq Skus
  BY WorkerTypes DEF Resolved
<1>4. SpikeTypes'
  <2> SUFFICES ASSUME NEW k \in DOMAIN spikes'
               PROVE  k[1] \in Retailers /\ spikes'[k] \in 1..SpikeAcceptAfter-1
    BY DEF SpikeTypes
  <2>1. CASE k \in longer
    <3>1. PICK s \in rejects : k = <<r, out[r][s]>>
      BY <2>1
    <3>2. Streak(r, s) = IF k \in DOMAIN spikes THEN spikes[k] ELSE 0
      BY <3>1 DEF Streak
    <3>3. Streak(r, s) \in Nat
      BY <3>2, WorkerTypes DEF SpikeTypes, SpikeAcceptAfter
    <3>4. Streak(r, s) + 1 < SpikeAcceptAfter
      BY DEF SpikeReject
    <3>5. spikes'[k] = Streak(r, s) + 1
      BY <1>1, <2>1, <3>2
    <3> QED BY <3>1, <3>3, <3>4, <3>5 DEF SpikeAcceptAfter
  <2>2. CASE k \notin longer
    <3>1. k \in DOMAIN spikes
      BY <1>1, <2>2
    <3>2. k[1] \in Retailers /\ spikes[k] \in 1..SpikeAcceptAfter-1
      BY <3>1, WorkerTypes DEF SpikeTypes
    <3>3. spikes'[k] = spikes[k] + 0
      BY <1>1, <2>2, <3>1
    <3> QED BY <3>2, <3>3 DEF SpikeAcceptAfter
  <2> QED BY <2>1, <2>2
<1>5. spiked'[r] = rejects /\ \A q \in Retailers \ {r} : spiked'[q] = spiked[q]
  BY <1>1 DEF StoreInv, Shape
<1>6. pc'[r] = "quarantine" => Accepted(r)' = {}
  <2>1. Resolved(r)' = Resolved(r)
    BY <1>1 DEF Resolved, BatchSkus
  <2>2. pc'[r] = "quarantine" => Resolved(r) = rejects
    BY <1>1, WorkerTypes
  <2> HIDE DEF rejects
  <2> QED BY <1>5, <2>1, <2>2 DEF Accepted
<1> HIDE DEF rejects, ended, longer
<1>7. pc' \in [Retailers -> Stages] /\ pc'[r] \in {"quarantine", "write"}
  BY <1>1, WorkerTypes DEF Stages
<1>8. \A q \in Retailers \ {r} : pc'[q] = pc[q] /\ Kept(q) /\ feed'[q] = feed[q] /\ taken'[q] = taken[q]
  BY <1>1, <1>5, WorkerTypes DEF Kept
<1>9. Shape'
  BY <1>1, <1>2 DEF StoreInv, Shape
<1>10. /\ UNCHANGED <<tables, outcome>>
       /\ out' \in [Retailers -> [Skus -> Nat]] /\ ids' \in [Skus -> Nat]
       /\ \A s \in Skus : out'[r][s] \in {Unknown, products[s]} /\ ids'[s] \in {Unknown, products[s]}
       /\ spiked'[r] \subseteq Skus /\ taken'[r] \in 0..MaxItems
       /\ \A i \in DOMAIN feed'[r] : feed'[r][i] \in Offer /\ feed'[r][i].at <= taken'[r]
       /\ \A x \in page'[r] : /\ x \in PageItem /\ Meant(x.item.price)
                              /\ \E i \in DOMAIN feed'[r] : x.n = feed'[r][i].at
  BY <1>1, <1>3, <1>5, WorkerTypes
<1>11. HeldTypes(r)'
  BY <1>1, WorkerTypes DEF HeldTypes
<1> QED BY <1>4, <1>6, <1>7, <1>8, <1>9, <1>10, <1>11, LocalStep

-----------------------------------------------------------------------------
(* The statements that write.                                              *)

OfferRow == [retailer : Retailers, id : Nat, price : PriceMinCents..PriceMaxCents, at : 0..MaxItems]

LEMMA MoveKeepsTypes ==
  ASSUME StoreInv, NEW r \in Retailers, NEW tos, Moved(r, tos),
         products' \in [Skus -> Nat], ids' \in [Skus -> Nat], offers' \subseteq OfferRow, SpikeTypes',
         DOMAIN suspects' = Retailers, DOMAIN rejected' = Retailers
  PROVE  TypeOK' /\ Shape'
<1>1. ASSUME NEW q \in Retailers PROVE spiked'[q] \subseteq Skus /\ HeldTypes(q)'
  <2>1. CASE Empty(q)
    BY <2>1 DEF Empty, HeldTypes
  <2>2. CASE Kept(q)
    BY <2>2, WorkerTypes DEF Kept, HeldTypes
  <2> QED BY <2>1, <2>2 DEF Moved
<1>2. pc' \in [Retailers -> Stages] /\ out' \in [Retailers -> [Skus -> Nat]]
  BY DEF Moved
<1>3. TypeOK'
  BY <1>1, <1>2, Zenon DEF TypeOK, Stages, SpikeTypes, HeldTypes, Skus, SkusOf, OfferRow
<1>4. Shape'
  BY DEF Moved, StoreInv, Shape
<1> QED BY <1>3, <1>4

LEMMA FailKeeps ==
  ASSUME StoreInv, NEW r \in Retailers, NEW from, FailsBefore(r, from)
  PROVE  StoreInv'
<1>1. UNCHANGED <<stores, outcome, history>> /\ Statement(r, from, "read")
  BY DEF FailsBefore, Statement
<1>2. Moved(r, {"read"})
  BY <1>1, StatementMoves DEF Stages
<1>3. /\ products' = products /\ offers' = offers /\ ids' = ids /\ spikes' = spikes
      /\ quarantined' = quarantined /\ events' = events
      /\ DOMAIN suspects' = Retailers /\ DOMAIN rejected' = Retailers
  BY <1>1 DEF stores, tables, outcome, history, StoreInv, Shape
<1>4. FeedTypes' /\ PageTypes' /\ Idle' /\ IdsAreCurrent'
  BY <1>2, <1>3, MoveKeepsPages
<1>5. EventTypes' /\ OffersCoverEvents'
  BY <1>3 DEF StoreInv, EventTypes, OffersCoverEvents
<1>6. IdsAreBounded' /\ OneProduct' /\ PricesAreMeant'
  BY <1>3, <1>4, TablesKept
<1>7. RowsAreWritten' /\ RejectsAreKept'
  BY <1>2, <1>3, MoveKeepsWritten DEF Stages
<1>8. TypeOK' /\ Shape'
  <2>1. SpikeTypes' /\ offers \subseteq OfferRow
    BY <1>3, WorkerTypes DEF SpikeTypes, OfferRow, StoreInv, TypeOK
  <2> QED BY <1>2, <1>3, <2>1, WorkerTypes, MoveKeepsTypes
<1> QED BY <1>4, <1>5, <1>6, <1>7, <1>8 DEF StoreInv

\* New products get ids that nobody has.
LEMMA NextIdIsFresh ==
  ASSUME StoreInv, NEW t \in Skus
  PROVE  NextId \in Nat /\ \A s \in Skus : products[s] < NextId
<1>1. PICK b \in Nat : \A s \in Skus : products[s] <= b
  BY DEF StoreInv, IdsAreBounded
<1> DEFINE Gaps == {b - m : m \in Identities}
<1>2. Identities # {} /\ \A m \in Identities : m \in Nat /\ m <= b
  BY <1>1, WorkerTypes DEF Identities, StoreInv, TypeOK
<1>3. Gaps \in SUBSET Nat /\ Gaps # {}
  BY <1>2
<1>4. PICK g \in Gaps : \A h \in Gaps : g <= h
  <2> HIDE DEF Gaps
  <2> QED BY <1>3, LeastMember
<1>5. PICK n \in Identities : g = b - n
  BY <1>4
<1>6. ASSUME NEW m \in Identities PROVE m <= n
  <2>1. g <= b - m
    BY <1>4
  <2> QED BY <1>2, <1>5, <2>1
<1> DEFINE top == CHOOSE n1 \in Identities : \A m \in Identities : m <= n1
<1>7. top \in Identities /\ \A m \in Identities : m <= top
  BY <1>6
<1>8. NextId = 1 + top
  BY DEF NextId
<1> HIDE DEF top
<1>9. ASSUME NEW s \in Skus PROVE products[s] <= top /\ products[s] \in Nat
  BY <1>2, <1>7 DEF Identities
<1>10. top \in Nat
  BY <1>2, <1>7
<1> QED BY <1>8, <1>9, <1>10

LEMMA InsertKeeps ==
  ASSUME StoreInv, NEW r \in Retailers, InsertProducts(r)
  PROVE  StoreInv'
<1> DEFINE M == NextId + Cardinality(Inserted(r)) - 1
<1>1. PICK new \in Injection(Inserted(r), NextId..M) :
        products' = [s \in Skus |-> IF s \in Inserted(r) THEN new[s] ELSE products[s]]
  BY DEF InsertProducts
<1>2. UNCHANGED <<offers, ids, spikes, outcome, history>> /\ Moved(r, {"select"})
  BY StatementMoves DEF InsertProducts, Stages
<1>3. /\ offers' = offers /\ ids' = ids /\ spikes' = spikes
      /\ quarantined' = quarantined /\ events' = events
      /\ DOMAIN suspects' = Retailers /\ DOMAIN rejected' = Retailers
  BY <1>2 DEF outcome, history, StoreInv, Shape
<1>4. /\ new \in [Inserted(r) -> NextId..M]
      /\ \A s, t \in Inserted(r) : new[s] = new[t] => s = t
  BY DEF Injection, IsInjective
<1>5. Inserted(r) \subseteq Skus /\ \A s \in Inserted(r) : products[s] = Unknown
  BY WorkerTypes DEF Inserted, Misses
<1>6. Cardinality(Inserted(r)) \in Nat
  BY <1>5, SkusAreProducts, StoreAssumption, FS_Subset, FS_CardinalityType
<1>7. ASSUME NEW s \in Inserted(r)
      PROVE  /\ products'[s] = new[s] /\ new[s] \in Nat /\ new[s] # Unknown /\ new[s] <= M /\ M \in Nat
             /\ \A t \in Skus : products[t] # new[s]
  <2>1. NextId \in Nat /\ \A t \in Skus : products[t] < NextId /\ products[t] \in Nat
    BY <1>5, NextIdIsFresh, WorkerTypes
  <2>2. new[s] \in NextId..M /\ products'[s] = new[s] /\ products[s] < NextId /\ products[s] \in Nat
    BY <1>1, <1>4, <1>5, <2>1
  <2>3. new[s] \in Nat /\ NextId <= new[s] /\ new[s] <= M /\ M \in Nat
    BY <1>6, <2>1, <2>2
  <2>4. \A t \in Skus : products[t] # new[s]
    BY <2>1, <2>3
  <2>5. new[s] # Unknown
    BY <2>1, <2>2, <2>3 DEF Unknown
  <2> HIDE DEF M
  <2> QED BY <2>2, <2>3, <2>4, <2>5
<1>8. \A s \in Skus \ Inserted(r) : products'[s] = products[s]
  BY <1>1
<1>9. products' \in [Skus -> Nat]
  BY <1>1, <1>7, WorkerTypes
<1>10. \A s \in Skus : products[s] # Unknown => products'[s] = products[s]
  BY <1>5, <1>8
<1>11. FeedTypes' /\ PageTypes' /\ Idle' /\ IdsAreCurrent'
  BY <1>2, <1>10, MoveKeepsPages
<1>12. IdsAreBounded'
  <2>1. PICK b \in Nat : \A s \in Skus : products[s] <= b
    BY DEF StoreInv, IdsAreBounded
  <2>2. \E c \in Nat : \A s \in Skus : products'[s] <= c
    <3>1. CASE Inserted(r) = {}
      BY <1>8, <2>1, <3>1
    <3>2. CASE Inserted(r) # {}
      <4>1. M \in Nat /\ \A s \in Inserted(r) : products'[s] <= M
        <5> HIDE DEF M
        <5> QED BY <1>7, <3>2
      <4>2. \A s \in Skus : products'[s] \in Nat
        BY <1>9
      <4> HIDE DEF M
      <4>3. \A s \in Skus : products'[s] <= b + M
        <5> SUFFICES ASSUME NEW s \in Skus PROVE products'[s] <= b + M
          OBVIOUS
        <5>1. CASE s \in Inserted(r)
          BY <4>1, <4>2, <5>1
        <5>2. CASE s \notin Inserted(r)
          BY <1>8, <2>1, <4>1, <4>2, <5>2
        <5> QED BY <5>1, <5>2
      <4> QED BY <4>1, <4>3
    <3> QED BY <3>1, <3>2
  <2> QED BY <2>2 DEF IdsAreBounded, Skus, SkusOf
<1> HIDE DEF M
<1>13. \A s, t \in Skus : products'[s] = products'[t] /\ s # t => products'[s] = Unknown
  <2> SUFFICES ASSUME NEW s \in Skus, NEW t \in Skus, products'[s] = products'[t], s # t
               PROVE  products'[s] = Unknown
    OBVIOUS
  <2>1. CASE s \in Inserted(r) /\ t \in Inserted(r)
    BY <1>4, <1>7, <2>1
  <2>2. CASE s \in Inserted(r) /\ t \notin Inserted(r)
    BY <1>7, <1>8, <2>2
  <2>3. CASE s \notin Inserted(r) /\ t \in Inserted(r)
    BY <1>7, <1>8, <2>3
  <2>4. CASE s \notin Inserted(r) /\ t \notin Inserted(r)
    BY <1>8, <2>4 DEF StoreInv, OneProduct
  <2> QED BY <2>1, <2>2, <2>3, <2>4
<1>14. OneProduct'
  <2>1. \A p \in Products : SkusOf(p) = {p} /\ SkusOf(p)' = SkusOf(p)
    BY SkusAreProducts DEF SkusOf
  <2>2. Skus' = Skus
    BY DEF Skus, SkusOf
  <2>3. \A s \in Skus : ids[s] \in {Unknown, products'[s]}
    BY <1>10 DEF StoreInv, OneProduct
  <2>4. \A q \in Retailers, s \in Skus : out'[q][s] \in {Unknown, products'[s]}
    BY <1>11, <2>2 DEF IdsAreCurrent
  <2>5. \A p \in Products : \A s, t \in SkusOf(p)' : s = t
    BY <2>1
  <2> QED BY <1>3, <1>13, <2>2, <2>3, <2>4, <2>5 DEF OneProduct
<1>15. EventTypes' /\ PricesAreMeant' /\ OffersCoverEvents'
  BY <1>3 DEF StoreInv, EventTypes, PricesAreMeant, OffersCoverEvents
<1>16. RowsAreWritten' /\ RejectsAreKept'
  BY <1>2, <1>3, MoveKeepsWritten DEF Stages
<1>17. TypeOK' /\ Shape'
  <2>1. SpikeTypes' /\ offers \subseteq OfferRow
    BY <1>3, WorkerTypes DEF SpikeTypes, OfferRow, StoreInv, TypeOK
  <2> QED BY <1>2, <1>3, <1>9, <2>1, WorkerTypes, MoveKeepsTypes
<1> QED BY <1>11, <1>12, <1>14, <1>15, <1>16, <1>17 DEF StoreInv

\* The upsert: a row goes only for one of its own key that is as new, and
\* an accepted item that does not get in leaves a row that is newer.
LEMMA UpsertKeeps ==
  ASSUME StoreInv, NEW r \in Retailers, UpsertOffers(r)
  PROVE  StoreInv'
<1> DEFINE new == {n \in {Row(r, s) : s \in Accepted(r)} : Replaces(n)}
<1>1. /\ offers' = {o \in offers : \A n \in new : n.retailer # o.retailer \/ n.id # o.id} \cup new
      /\ UNCHANGED <<products, ids, spikes, outcome>> /\ Moved(r, {"quarantine"})
      /\ DOMAIN suspects' = Retailers /\ DOMAIN rejected' = Retailers
  BY StatementMoves DEF UpsertOffers, Stages, StoreInv, Shape
<1>2. products' = products /\ ids' = ids /\ spikes' = spikes /\ quarantined' = quarantined /\ events' = events
  BY <1>1 DEF outcome
<1>3. \A o \in offers : o \in OfferRow
  BY DEF StoreInv, TypeOK, OfferRow
<1>4. ASSUME NEW n \in new
      PROVE  \E s \in Accepted(r) : n = Row(r, s) /\ n \in OfferRow /\ n.retailer = r /\ n.id = out[r][s]
  <2>1. PICK s \in Accepted(r) : n = Row(r, s)
    OBVIOUS
  <2>2. n \in [retailer : {r}, id : Nat, price : PriceMinCents..PriceMaxCents, at : 0..MaxItems]
    BY <2>1, RowsAreTyped
  <2> HIDE DEF new
  <2> QED BY <2>1, <2>2 DEF OfferRow, Row
<1>5. ASSUME NEW n \in new, NEW m \in new, n.id = m.id
      PROVE  n = m
  <2>1. PICK s \in Accepted(r) : n = Row(r, s) /\ n.id = out[r][s]
    BY <1>4
  <2>2. PICK t \in Accepted(r) : m = Row(r, t) /\ m.id = out[r][t]
    BY <1>4
  <2>3. s = t
    BY <1>5, <2>1, <2>2, RowsAreTyped
  <2> QED BY <2>1, <2>2, <2>3
\* A row is followed by one of its key that is as new.
<1>6. ASSUME NEW o \in offers, NEW v \in Nat, o.at >= v
      PROVE  \E q \in offers' : q.retailer = o.retailer /\ q.id = o.id /\ q.at >= v
  <2>1. CASE \A n \in new : n.retailer # o.retailer \/ n.id # o.id
    BY <1>1, <1>6, <2>1
  <2>2. CASE \E n \in new : n.retailer = o.retailer /\ n.id = o.id
    <3>1. PICK n \in new : n.retailer = o.retailer /\ n.id = o.id
      BY <2>2
    <3>2. o.at <= n.at /\ n \in offers' /\ n \in OfferRow
      BY <1>1, <1>4, <3>1 DEF Replaces
    <3>3. o.at \in Nat /\ n.at \in Nat
      BY <1>3, <3>2, StoreAssumption DEF OfferRow
    <3> HIDE DEF new
    <3> QED BY <1>6, <3>1, <3>2, <3>3
  <2> HIDE DEF new
  <2> QED BY <2>1, <2>2
<1>7. FeedTypes' /\ PageTypes' /\ Idle' /\ IdsAreCurrent'
  BY <1>1, <1>2, MoveKeepsPages
<1>8. OffersCoverEvents'
  <2>1. ASSUME NEW o \in offers', NEW q \in offers', o.retailer = q.retailer, o.id = q.id
        PROVE  o = q
    <3>1. CASE o \in new /\ q \in new
      <4> HIDE DEF new
      <4> QED BY <1>5, <2>1, <3>1
    <3>2. CASE o \notin new /\ q \notin new
      <4> HIDE DEF new
      <4> QED BY <1>1, <2>1, <3>2 DEF StoreInv, OffersCoverEvents
    <3>3. CASE ~(o \in new <=> q \in new)
      <4> HIDE DEF new
      <4> QED BY <1>1, <2>1, <3>3
    <3> QED BY <3>1, <3>2, <3>3
  <2>2. ASSUME NEW e \in events
        PROVE  \E o \in offers' : o.retailer = e.row.retailer /\ o.id = e.row.id /\ o.at >= e.row.at
    <3>1. PICK o \in offers : o.retailer = e.row.retailer /\ o.id = e.row.id /\ o.at >= e.row.at
      BY DEF StoreInv, OffersCoverEvents
    <3>2. e.row.at \in Nat
      BY StoreAssumption DEF StoreInv, EventTypes
    <3> HIDE DEF new
    <3> QED BY <1>6, <3>1, <3>2
  <2> HIDE DEF new
  <2> QED BY <1>2, <2>1, <2>2 DEF OffersCoverEvents
<1>9. IdsAreBounded' /\ OneProduct' /\ EventTypes'
  BY <1>2, <1>7 DEF StoreInv, IdsAreBounded, OneProduct, IdsAreCurrent, EventTypes, Skus, SkusOf
<1>10. PricesAreMeant'
  <2> SUFFICES ASSUME NEW o \in offers' PROVE Meant(o.price)
    BY DEF PricesAreMeant, Meant
  <2>1. CASE o \in new
    <3>1. PICK s \in Accepted(r) : o = Row(r, s)
      BY <1>4, <2>1
    <3> QED BY <3>1, RowsAreTyped
  <2>2. CASE o \notin new
    <3> HIDE DEF new
    <3> QED BY <1>1, <2>2 DEF StoreInv, PricesAreMeant, Meant
  <2> HIDE DEF new
  <2> QED BY <2>1, <2>2
<1>11. ASSUME NEW s \in Accepted(r)
       PROVE  \E o \in offers' : o.retailer = r /\ o.id = out[r][s] /\ o.at >= Chosen(r, s).item.at
  <2>1. /\ Row(r, s).retailer = r /\ Row(r, s).id = out[r][s]
        /\ Row(r, s).at = Chosen(r, s).item.at /\ Row(r, s).at \in Nat
    BY RowsAreTyped, StoreAssumption DEF Row
  <2>2. CASE Replaces(Row(r, s))
    <3>1. Row(r, s) \in offers'
      BY <1>1, <2>2
    <3> QED BY <2>1, <3>1
  <2>3. CASE ~Replaces(Row(r, s))
    <3>1. PICK o \in offers : o.retailer = r /\ o.id = out[r][s] /\ ~(o.at <= Row(r, s).at)
      BY <2>1, <2>3 DEF Replaces
    <3>2. o.at \in Nat /\ o.at >= Row(r, s).at
      BY <1>3, <2>1, <3>1, StoreAssumption DEF OfferRow
    <3> HIDE DEF new
    <3> QED BY <1>6, <2>1, <3>1, <3>2
  <2> QED BY <2>2, <2>3
<1>12. RowsAreWritten'
  <2> SUFFICES ASSUME NEW q \in Retailers, pc'[q] \in {"quarantine", "deliver"}, NEW s \in Accepted(q)'
               PROVE  \E o \in offers' : o.retailer = q /\ o.id = out'[q][s] /\ o.at >= Chosen(q, s)'.item.at
    BY DEF RowsAreWritten
  <2>1. s \in Accepted(q) /\ Chosen(q, s)' = Chosen(q, s) /\ out'[q] = out[q]
    BY <1>1, KeptItems DEF Moved, Kept
  <2>2. CASE q = r
    <3> HIDE DEF new
    <3> QED BY <1>11, <2>1, <2>2
  <2>3. CASE q # r
    <3>1. pc[q] \in {"quarantine", "deliver"}
      BY <1>1, <2>3 DEF Moved
    <3>2. PICK o \in offers : o.retailer = q /\ o.id = out[q][s] /\ o.at >= Chosen(q, s).item.at
      BY <2>1, <3>1 DEF StoreInv, RowsAreWritten
    <3>3. Chosen(q, s).item.at \in Nat
      BY <2>1, RowsAreTyped, StoreAssumption DEF Row
    <3> HIDE DEF new
    <3> QED BY <1>6, <2>1, <3>2, <3>3
  <2> QED BY <2>2, <2>3
<1>13. RejectsAreKept'
  <2> SUFFICES ASSUME NEW q \in Retailers, pc'[q] = "deliver", NEW x \in Rejects(q)'
               PROVE  <<q, x>> \in quarantined
    BY <1>2 DEF RejectsAreKept
  <2>1. pc[q] = "deliver" /\ x \in Rejects(q)
    BY <1>1, KeptItems DEF Moved
  <2> QED BY <2>1 DEF StoreInv, RejectsAreKept
<1>14. TypeOK' /\ Shape'
  <2>1. SpikeTypes' /\ offers' \subseteq OfferRow
    BY <1>1, <1>2, <1>3, <1>4, WorkerTypes DEF SpikeTypes
  <2> HIDE DEF new
  <2> QED BY <1>1, <1>2, <2>1, WorkerTypes, MoveKeepsTypes
<1> QED BY <1>7, <1>8, <1>9, <1>10, <1>12, <1>13, <1>14 DEF StoreInv

\* Where a worker goes from the quarantine, and what it has written there.
LEMMA QuarantineMoves ==
  ASSUME StoreInv, NEW r \in Retailers, Quarantine(r)
  PROVE  /\ pc[r] = "quarantine" /\ Moved(r, {"fetch", "deliver"})
         /\ pc'[r] = "fetch" => Accepted(r) = {}
         /\ quarantined' = quarantined \cup {<<r, x>> : x \in Rejects(r)}
         /\ UNCHANGED <<stores, events, history>>
<1>1. /\ pc[r] = "quarantine"
      /\ quarantined' = quarantined \cup {<<r, x>> : x \in Rejects(r)}
      /\ UNCHANGED <<stores, events, history>>
  BY DEF Quarantine
<1> DEFINE then == IF Accepted(r) = {} THEN "fetch" ELSE "deliver"
<1>2. Statement(r, "quarantine", then)
  BY DEF Quarantine, Statement
<1>3. then \in {"fetch", "deliver"} /\ then \in Stages
  BY DEF Stages
<1>4. pc'[r] = "fetch" => Accepted(r) = {}
  <2>1. pc'[r] \in {then, "read"}
    BY <1>2, WorkerTypes DEF Statement, Succeeds, Fails, Done, Goto
  <2> QED BY <2>1
<1>5. Moved(r, {then})
  <2> HIDE DEF then
  <2> QED BY <1>2, <1>3, StatementMoves
<1>6. Moved(r, {"fetch", "deliver"})
  <2> HIDE DEF then
  <2> QED BY <1>3, <1>5 DEF Moved
<1> QED BY <1>1, <1>4, <1>6

LEMMA QuarantineKeeps ==
  ASSUME StoreInv, NEW r \in Retailers, Quarantine(r)
  PROVE  StoreInv'
<1>1. /\ products' = products /\ offers' = offers /\ ids' = ids /\ spikes' = spikes /\ events' = events
      /\ DOMAIN suspects' = Retailers /\ DOMAIN rejected' = Retailers
      /\ Moved(r, {"fetch", "deliver"}) /\ pc[r] = "quarantine"
      /\ quarantined' = quarantined \cup {<<r, x>> : x \in Rejects(r)}
  BY QuarantineMoves DEF stores, tables, history, StoreInv, Shape
<1>2. FeedTypes' /\ PageTypes' /\ Idle' /\ IdsAreCurrent'
  BY <1>1, MoveKeepsPages
<1>3. EventTypes' /\ OffersCoverEvents' /\ IdsAreBounded' /\ OneProduct' /\ PricesAreMeant'
  BY <1>1, <1>2, TablesKept DEF StoreInv, EventTypes, OffersCoverEvents
<1>4. ASSUME NEW q \in Retailers, pc'[q] \in {"quarantine", "deliver"}
      PROVE  Kept(q) /\ pc[q] \in {"quarantine", "deliver"} /\ (q = r \/ pc'[q] = pc[q])
  BY <1>1, <1>4 DEF Moved
<1>5. RowsAreWritten'
  <2> SUFFICES ASSUME NEW q \in Retailers, pc'[q] \in {"quarantine", "deliver"}, NEW s \in Accepted(q)'
               PROVE  \E o \in offers : o.retailer = q /\ o.id = out'[q][s] /\ o.at >= Chosen(q, s)'.item.at
    BY <1>1 DEF RowsAreWritten
  <2>1. s \in Accepted(q) /\ Chosen(q, s)' = Chosen(q, s) /\ out'[q] = out[q]
    BY <1>4, KeptItems DEF Kept
  <2> QED BY <1>4, <2>1 DEF StoreInv, RowsAreWritten
<1>6. RejectsAreKept'
  <2> SUFFICES ASSUME NEW q \in Retailers, pc'[q] = "deliver", NEW x \in Rejects(q)'
               PROVE  <<q, x>> \in quarantined'
    BY DEF RejectsAreKept
  <2>1. x \in Rejects(q) /\ (q = r \/ pc[q] = "deliver")
    BY <1>4, KeptItems
  <2> QED BY <1>1, <2>1 DEF StoreInv, RejectsAreKept
<1>7. TypeOK' /\ Shape'
  <2>1. SpikeTypes' /\ offers \subseteq OfferRow
    BY <1>1, WorkerTypes DEF SpikeTypes, OfferRow, StoreInv, TypeOK
  <2> QED BY <1>1, <2>1, WorkerTypes, MoveKeepsTypes
<1> QED BY <1>2, <1>3, <1>5, <1>6, <1>7 DEF StoreInv

LEMMA DeliverKeeps ==
  ASSUME StoreInv, NEW r \in Retailers, Deliver(r)
  PROVE  StoreInv'
<1>1. /\ products' = products /\ offers' = offers /\ ids' = ids /\ spikes' = spikes
      /\ quarantined' = quarantined /\ pc[r] = "deliver"
      /\ events' = events \cup {[item |-> Id(Chosen(r, s)), row |-> Row(r, s)] : s \in Accepted(r)}
      /\ DOMAIN suspects' = Retailers /\ DOMAIN rejected' = Retailers
  BY DEF Deliver, Succeeds, Done, Goto, stores, tables, history, StoreInv, Shape
<1>2. Moved(r, {"fetch"})
  BY StatementMoves DEF Deliver, Statement, Stages
<1>3. FeedTypes' /\ PageTypes' /\ Idle' /\ IdsAreCurrent'
  BY <1>1, <1>2, MoveKeepsPages
<1>4. IdsAreBounded' /\ OneProduct' /\ PricesAreMeant'
  BY <1>1, <1>3, TablesKept
<1>5. ASSUME NEW e \in events'
      PROVE  /\ e.row.at \in 0..MaxItems
             /\ \E o \in offers : o.retailer = e.row.retailer /\ o.id = e.row.id /\ o.at >= e.row.at
  <2>1. CASE e \in events
    BY <2>1 DEF StoreInv, EventTypes, OffersCoverEvents
  <2>2. CASE e \notin events
    <3>1. PICK s \in Accepted(r) : e.row = Row(r, s)
      BY <1>1, <2>2
    <3>2. PICK o \in offers : o.retailer = r /\ o.id = out[r][s] /\ o.at >= Chosen(r, s).item.at
      BY <1>1 DEF StoreInv, RowsAreWritten
    <3>3. /\ Row(r, s).retailer = r /\ Row(r, s).id = out[r][s] /\ Row(r, s).at = Chosen(r, s).item.at
          /\ Row(r, s).at \in 0..MaxItems
      BY RowsAreTyped DEF Row
    <3> QED BY <3>1, <3>2, <3>3
  <2> QED BY <2>1, <2>2
<1>6. EventTypes' /\ OffersCoverEvents'
  BY <1>1, <1>5 DEF StoreInv, EventTypes, OffersCoverEvents
<1>7. RowsAreWritten' /\ RejectsAreKept'
  BY <1>1, <1>2, MoveKeepsWritten DEF Stages
<1>8. TypeOK' /\ Shape'
  <2>1. SpikeTypes' /\ offers \subseteq OfferRow
    BY <1>1, WorkerTypes DEF SpikeTypes, OfferRow, StoreInv, TypeOK
  <2> QED BY <1>1, <1>2, <2>1, WorkerTypes, MoveKeepsTypes
<1> QED BY <1>3, <1>4, <1>6, <1>7, <1>8 DEF StoreInv

\* A crash leaves the tables and the feed.
LEMMA CrashKeeps ==
  ASSUME StoreInv, Crash
  PROVE  StoreInv'
<1>1. /\ ids' = NoIds /\ spikes' = <<>> /\ Drop(Retailers)
      /\ pc' = [r \in Retailers |-> IF pc[r] = "fetch" THEN "fetch" ELSE "read"]
      /\ rejected' = [r \in Retailers |-> [s \in Skus |-> {}]]
      /\ products' = products /\ offers' = offers /\ quarantined' = quarantined /\ events' = events
      /\ feed' = feed /\ taken' = taken /\ suspects' = suspects
  BY DEF Crash, tables, outcome
<1>2. \A q \in Retailers : Empty(q) /\ pc'[q] \in {"fetch", "read"}
  BY <1>1 DEF Drop, Empty
<1>3. out' = [q \in Retailers |-> NoIds]
  BY <1>1 DEF Drop
<1>4. TypeOK'
  <2>1. \A q \in Retailers : spiked'[q] \subseteq Skus /\ HeldTypes(q)'
    BY <1>2 DEF Empty, HeldTypes
  <2>2. SpikeTypes'
    BY <1>1 DEF SpikeTypes
  <2>3. out' \in [Retailers -> [Skus -> Nat]] /\ ids' \in [Skus -> Nat] /\ pc' \in [Retailers -> Stages]
    BY <1>1, <1>3, NoIdsAreIds DEF Stages
  <2>4. products \in [Skus -> Nat] /\ offers \subseteq OfferRow
    BY DEF StoreInv, TypeOK, OfferRow
  <2> QED BY <1>1, <2>1, <2>2, <2>3, <2>4, Zenon
          DEF TypeOK, Stages, SpikeTypes, HeldTypes, Skus, SkusOf, OfferRow
<1>5. Shape'
  BY <1>1 DEF Drop, StoreInv, Shape
<1>6. FeedTypes' /\ PageTypes' /\ Idle'
  <2>1. FeedTypes'
    BY <1>1 DEF StoreInv, FeedTypes, Offer
  <2> QED BY <1>2, <2>1 DEF PageTypes, Idle, Empty
<1>7. IdsAreCurrent'
  <2>1. Skus' = Skus /\ \A s \in Skus : NoIds[s] = Unknown
    BY NoIdsAreIds DEF Skus, SkusOf
  <2> QED BY <1>3, <2>1 DEF IdsAreCurrent
<1>8. OneProduct'
  <2>1. Skus' = Skus /\ \A p \in Products : SkusOf(p)' = SkusOf(p)
    BY DEF Skus, SkusOf
  <2>2. \A s \in Skus : ids'[s] = Unknown
    BY <1>1, NoIdsAreIds
  <2> QED BY <1>1, <1>7, <2>1, <2>2 DEF StoreInv, OneProduct, IdsAreCurrent
<1>9. IdsAreBounded' /\ EventTypes' /\ PricesAreMeant' /\ OffersCoverEvents'
  BY <1>1 DEF StoreInv, IdsAreBounded, EventTypes, PricesAreMeant, OffersCoverEvents, Skus, SkusOf
<1>10. RowsAreWritten' /\ RejectsAreKept'
  BY <1>2 DEF RowsAreWritten, RejectsAreKept
<1> QED BY <1>4, <1>5, <1>6, <1>7, <1>8, <1>9, <1>10 DEF StoreInv

-----------------------------------------------------------------------------
(* The theorems, with failed statements and crashes anywhere.              *)

LEMMA InitIsStored == Init => StoreInv
<1> SUFFICES ASSUME Init PROVE StoreInv
  OBVIOUS
<1>1. /\ products = NoIds /\ offers = {} /\ ids = NoIds /\ spikes = <<>>
      /\ pc = [r \in Retailers |-> "fetch"] /\ feed = [r \in Retailers |-> <<>>]
      /\ page = [r \in Retailers |-> {}] /\ refused = page
      /\ out = [r \in Retailers |-> NoIds] /\ held = [r \in Retailers |-> {}]
      /\ spiked = [r \in Retailers |-> {}] /\ quarantined = {} /\ events = {}
      /\ taken = [r \in Retailers |-> 0]
      /\ suspects = [r \in Retailers |-> [s \in Skus |-> {}]] /\ rejected = suspects
  BY DEF Init
<1>2. TypeOK
  <2>1. \A k \in DOMAIN spikes : FALSE
    BY <1>1
  <2> QED BY <1>1, <2>1, NoIdsAreIds DEF TypeOK
<1>3. Shape /\ FeedTypes /\ PageTypes /\ Idle
  BY <1>1, StoreAssumption DEF Shape, FeedTypes, PageTypes, Idle
<1>4. IdsAreBounded /\ IdsAreCurrent
  BY <1>1, NoIdsAreIds DEF IdsAreBounded, IdsAreCurrent, Unknown
<1>5. OneProduct
  <2>1. \A p \in Products : SkusOf(p) = {p}
    BY SkusAreProducts
  <2> QED BY <1>1, <2>1, NoIdsAreIds DEF OneProduct
<1>6. EventTypes /\ PricesAreMeant /\ OffersCoverEvents /\ RowsAreWritten /\ RejectsAreKept
  BY <1>1 DEF EventTypes, PricesAreMeant, OffersCoverEvents, RowsAreWritten, RejectsAreKept
<1> QED BY <1>2, <1>3, <1>4, <1>5, <1>6 DEF StoreInv

LEMMA NextIsStored ==
  ASSUME StoreInv, [Next]_vars
  PROVE  StoreInv'
<1>1. ASSUME NEW r \in Retailers, Fetch(r) \/ Read(r) PROVE StoreInv'
  BY <1>1, FetchKeeps, ReadKeeps
<1>2. ASSUME NEW r \in Retailers, Resolve(r) PROVE StoreInv'
  BY <1>2, LookupIdsKeeps, InsertKeeps, SelectIdsKeeps DEF Resolve
<1>3. ASSUME NEW r \in Retailers, Upsert(r) PROVE StoreInv'
  BY <1>3, ReadHeldKeeps, CheckSpikesKeeps, UpsertKeeps DEF Upsert
<1>4. ASSUME NEW r \in Retailers, Quarantine(r) \/ Deliver(r) PROVE StoreInv'
  BY <1>4, QuarantineKeeps, DeliverKeeps
<1>5. ASSUME NEW r \in Retailers, Fail(r) PROVE StoreInv'
  BY <1>5, FailKeeps DEF Fail
<1>6. CASE Crash
  BY <1>6, CrashKeeps
<1>7. CASE UNCHANGED vars
  <2>1. /\ UNCHANGED <<products, offers, ids, spikes, pc, feed, page, refused, out, held, spiked>>
        /\ UNCHANGED <<quarantined, events, taken, suspects, rejected>>
    BY <1>7 DEF vars, stores, tables, work, outcome, bounds, history
  <2>2. \A q \in Retailers : Kept(q)
    BY <2>1 DEF Kept
  <2>3. RowsAreWritten' /\ RejectsAreKept'
    <3>1. \A q \in Retailers : /\ Accepted(q)' = Accepted(q) /\ Rejects(q)' = Rejects(q)
                               /\ \A s : Chosen(q, s)' = Chosen(q, s)
      BY <2>2, KeptItems
    <3> QED BY <2>1, <3>1 DEF StoreInv, RowsAreWritten, RejectsAreKept
  <2>4. TypeOK' /\ Shape'
    BY <2>1 DEF StoreInv, TypeOK, Shape, Skus, SkusOf
  <2>5. FeedTypes' /\ PageTypes' /\ Idle'
    BY <2>1 DEF StoreInv, FeedTypes, PageTypes, Idle, Offer, PageItem, Meant, Skus, SkusOf
  <2>6. IdsAreBounded' /\ IdsAreCurrent' /\ EventTypes' /\ PricesAreMeant' /\ OffersCoverEvents'
    BY <2>1 DEF StoreInv, IdsAreBounded, IdsAreCurrent, EventTypes, PricesAreMeant, OffersCoverEvents,
                Skus, SkusOf
  <2>7. OneProduct'
    BY <2>1 DEF StoreInv, OneProduct, Skus, SkusOf
  <2> QED BY <2>3, <2>4, <2>5, <2>6, <2>7 DEF StoreInv
<1> QED BY <1>1, <1>2, <1>3, <1>4, <1>5, <1>6, <1>7 DEF Next

\* The invariant, for any number of workers, products and failures.
THEOREM StoreInvariant == Spec => []StoreInv
BY InitIsStored, NextIsStored, PTL DEF Spec

\* One row per product (store.go, resolveProducts): however its SKU is spelt
\* and whichever worker meets it first, products never share an id, and an
\* id in the cache or in hand is the one in the table.
THEOREM ProductsAreOne == Spec => []OneProduct
<1>1. StoreInv => OneProduct
  BY DEF StoreInv
<1> QED BY <1>1, StoreInvariant, PTL

\* What is in ClickHouse is covered by Postgres (worker.go, processItems:
\* the upsert comes first, and its guard lets only newer rows in).
THEOREM EventsAreCovered == Spec => []OffersCoverEvents
<1>1. StoreInv => OffersCoverEvents
  BY DEF StoreInv
<1> QED BY <1>1, StoreInvariant, PTL

\* A stored price was asked, to the cent, or is the unit bug on an item of
\* at most $20.00 (normalize.go, parsePrice and its cap).
THEOREM StoredPricesAreMeant == Spec => []PricesAreMeant
<1>1. StoreInv => PricesAreMeant
  BY DEF StoreInv
<1> QED BY <1>1, StoreInvariant, PTL

\* The step that leaves a page accounts for every item of it.
LEMMA PageIsSettled ==
  ASSUME StoreInv, [Next]_vars, NEW r \in Retailers, pc[r] # "fetch", pc'[r] = "fetch",
         NEW id \in refused[r] \cup {Id(x) : x \in page[r]}
  PROVE  Settled(r, id)
<1> DEFINE Gone == \A x \in Rejects(r) : <<r, x>> \in quarantined'
           Sent == \A s \in Accepted(r) :
                     \E e \in events' : e.item = Id(Chosen(r, s)) /\ e.row.retailer = r
<1>1. Gone /\ Sent
  <2>1. ASSUME NEW q \in Retailers \ {r}, NEW tos, Moved(q, tos) PROVE FALSE
    BY <2>1 DEF Moved
  <2>2. ASSUME NEW q \in Retailers, NEW from, NEW to \in Stages \ {"fetch"}, pc' = [pc EXCEPT ![q] = to]
        PROVE  FALSE
    BY <2>2, WorkerTypes
  <2>3. ~\E q \in Retailers : Fetch(q) \/ Read(q) \/ LookupIds(q) \/ SelectIds(q) \/ ReadHeld(q) \/ CheckSpikes(q)
    <3>1. ASSUME NEW q \in Retailers,
                 Fetch(q) \/ Read(q) \/ LookupIds(q) \/ SelectIds(q) \/ ReadHeld(q) \/ CheckSpikes(q)
          PROVE  \E to \in Stages \ {"fetch"} : pc' = [pc EXCEPT ![q] = to]
      BY <3>1, Zenon DEF Fetch, Read, LookupIds, SelectIds, ReadHeld, CheckSpikes, Done, Goto, Stages
    <3> QED BY <2>2, <3>1
  <2>4. ~\E q \in Retailers : InsertProducts(q) \/ UpsertOffers(q) \/ Fail(q)
    <3>1. ASSUME NEW q \in Retailers, InsertProducts(q) \/ UpsertOffers(q) \/ Fail(q)
          PROVE  \E to \in Stages \ {"fetch"} : pc' = [pc EXCEPT ![q] = to]
      BY <3>1 DEF InsertProducts, UpsertOffers, Fail, FailsBefore, Statement, Succeeds, Fails, Done, Goto, Stages
    <3> QED BY <2>2, <3>1
  <2>5. ~Crash /\ ~UNCHANGED vars
    BY DEF Crash, vars
  <2>6. PICK q \in Retailers : Quarantine(q) \/ Deliver(q)
    BY <2>3, <2>4, <2>5, Zenon DEF Next, Resolve, Upsert
  <2>7. CASE Quarantine(q)
    <3>1. q = r
      BY <2>1, <2>7, QuarantineMoves
    <3>2. Accepted(r) = {} /\ quarantined' = quarantined \cup {<<r, x>> : x \in Rejects(r)}
      BY <2>7, <3>1, QuarantineMoves
    <3> QED BY <3>2
  <2>8. CASE Deliver(q)
    <3>1. Moved(q, {"fetch"}) /\ pc[q] = "deliver"
      BY <2>8, StatementMoves DEF Deliver, Statement, Stages
    <3>2. q = r
      BY <2>1, <3>1
    <3>3. /\ quarantined' = quarantined
          /\ events' = events \cup {[item |-> Id(Chosen(r, s)), row |-> Row(r, s)] : s \in Accepted(r)}
      BY <2>8, <3>2 DEF Deliver
    <3>4. Gone
      BY <3>1, <3>2, <3>3 DEF StoreInv, RejectsAreKept
    <3>5. ASSUME NEW s \in Accepted(r)
          PROVE  \E e \in events' : e.item = Id(Chosen(r, s)) /\ e.row.retailer = r
      <4>1. [item |-> Id(Chosen(r, s)), row |-> Row(r, s)] \in events' /\ Row(r, s).retailer = r
        BY <3>3 DEF Row
      <4> QED BY <4>1
    <3> QED BY <3>4, <3>5
  <2> QED BY <2>6, <2>7, <2>8
<1>2. CASE id \in refused[r]
  BY <1>1, <1>2 DEF Rejects, Settled
<1>3. CASE \E x \in page[r] : id = Id(x)
  <2>1. PICK x \in page[r] : id = Id(x)
    BY <1>3
  <2> DEFINE s == x.item.sku
             y == Chosen(r, s)
  <2>2. s \in BatchSkus(r)
    BY DEF BatchSkus
  <2>3. y \in page[r] /\ y.item.sku = s /\ Wins(y, x)
    <3> HIDE DEF s
    <3>1. x.item.sku = s
      BY DEF s
    <3> QED BY <2>2, <3>1, ChosenWins
  <2>4. CASE x # y
    <3>1. x.item.at <= y.item.at
      <4>1. x.item.at \in Nat /\ y.item.at \in Nat
        BY <2>3, WorkerTypes, StoreAssumption DEF PageItem
      <4> HIDE DEF s, y
      <4> QED BY <2>3, <4>1 DEF Wins
    <3> HIDE DEF s, y
    <3>2. x.item.sku = y.item.sku
      BY <2>3 DEF s
    <3> QED BY <2>1, <2>3, <2>4, <3>1, <3>2 DEF Settled
  <2>5. CASE x = y
    <3>1. id = Id(Chosen(r, s))
      BY <2>1, <2>5
    <3> HIDE DEF s, y
    <3>2. CASE s \in Accepted(r)
      BY <1>1, <3>1, <3>2 DEF Settled
    <3>3. CASE s \notin Accepted(r)
      <4>1. id \in Rejects(r)
        BY <2>2, <3>1, <3>3 DEF Accepted, Resolved, Rejects
      <4> QED BY <1>1, <4>1 DEF Settled
    <3> QED BY <3>2, <3>3
  <2> QED BY <2>4, <2>5
<1> QED BY <1>2, <1>3

\* Nothing vanishes (worker.go, processItems): when a worker leaves a page,
\* every item is delivered, quarantined or superseded in the page.
THEOREM EveryItemIsSettled == Spec => NothingVanishes
<1>1. StoreInv /\ [Next]_vars =>
        [\A r \in Retailers : pc[r] # "fetch" /\ pc'[r] = "fetch" =>
           \A id \in refused[r] \cup {Id(x) : x \in page[r]} : Settled(r, id)]_vars
  BY PageIsSettled
<1> QED BY <1>1, StoreInvariant, PTL DEF Spec, NothingVanishes

-----------------------------------------------------------------------------
(* The spike check, while no statement fails.                              *)

StreakOf(r, id) == IF <<r, id>> \in DOMAIN spikes THEN spikes[<<r, id>>] ELSE 0

\* The numbers of the suspect observations of an offer, those that came
\* before the page in hand, and those that the streak may have counted.
Numbers(r, s) == {x.n : x \in suspects[r][s]}
Before(r, s) == {n \in Numbers(r, s) : \A i \in DOMAIN feed[r] : n < feed[r][i].at}
PastCheck == {"write", "quarantine", "deliver"}
Tallied(r, s) == IF pc[r] \in PastCheck THEN Numbers(r, s) ELSE Before(r, s)

HistoryTypes ==
  \A r \in Retailers, s \in Skus : Numbers(r, s) \subseteq 1..taken[r] /\ rejected[r][s] \subseteq 1..MaxItems

\* A streak is of a product in the table.
SpikesAreKnown == \A k \in DOMAIN spikes : k[2] # Unknown /\ \E s \in Skus : k[2] = products[s]

\* The row that the check compared with is the row that the upsert meets.
HeldIsCurrent ==
  \A r \in Retailers : pc[r] \in {"check", "write"} =>
    \A o \in offers : o.retailer = r /\ (\E s \in Resolved(r) : o.id = out[r][s]) => o \in held[r]

\* A streak counts observations, each of them once.
StreaksAreEarned ==
  \A r \in Retailers, s \in Skus :
    products[s] # Unknown => StreakOf(r, products[s]) <= Cardinality(Tallied(r, s))

\* A rejection is counted by the streak, until an acceptance ends both.
RejectionsAreCounted ==
  \A r \in Retailers, s \in Skus :
    \/ rejected[r][s] = {}
    \/ products[s] # Unknown /\ Cardinality(rejected[r][s]) <= StreakOf(r, products[s])
    \/ pc[r] = "write" /\ s \in Accepted(r) /\ Cardinality(rejected[r][s]) < SpikeAcceptAfter

OverridesAreEarned ==
  \A r \in Retailers : pc[r] = "write" => \A s \in Accepted(r) :
    /\ StreakOf(r, products[s]) = 0
    /\ Suspect(r, s) => Cardinality(Numbers(r, s)) >= 3

HealInv ==
  /\ failures = 0 /\ HistoryTypes /\ SpikesAreKnown /\ HeldIsCurrent
  /\ StreaksAreEarned /\ RejectionsAreCounted /\ OverridesAreEarned

LEMMA NumbersAreFinite ==
  ASSUME StoreInv, HealInv, NEW r \in Retailers, NEW s \in Skus
  PROVE  /\ IsFiniteSet(Numbers(r, s)) /\ Cardinality(Numbers(r, s)) \in Nat
         /\ \A T \in SUBSET Numbers(r, s) :
              IsFiniteSet(T) /\ Cardinality(T) \in Nat /\ Cardinality(T) <= Cardinality(Numbers(r, s))
         /\ IsFiniteSet(rejected[r][s]) /\ Cardinality(rejected[r][s]) \in Nat
<1>1. Numbers(r, s) \subseteq 1..taken[r] /\ taken[r] \in Nat /\ rejected[r][s] \subseteq 1..MaxItems /\ MaxItems \in Nat
  BY WorkerTypes, StoreAssumption DEF HealInv, HistoryTypes
<1>2. IsFiniteSet(1..taken[r]) /\ IsFiniteSet(1..MaxItems)
  BY <1>1, FS_Interval
<1>3. IsFiniteSet(Numbers(r, s)) /\ IsFiniteSet(rejected[r][s])
  BY <1>1, <1>2, FS_Subset
<1> QED BY <1>3, FS_Subset, FS_CardinalityType

LEMMA StreaksAreShort ==
  ASSUME StoreInv, NEW r, NEW id
  PROVE  StreakOf(r, id) \in 0..2
BY DEF StreakOf, StoreInv, TypeOK, SpikeAcceptAfter

\* A step that leaves the rows and the spike check alone.
LEMMA HealLocal ==
  ASSUME StoreInv, HealInv, StoreInv', NEW r \in Retailers,
         UNCHANGED <<offers, spikes, suspects, rejected, failures>>,
         \A s \in Skus : products[s] # Unknown => products'[s] = products[s],
         \A q \in Retailers \ {r} :
           pc'[q] = pc[q] /\ Kept(q) /\ feed'[q] = feed[q] /\ taken'[q] = taken[q],
         taken'[r] >= taken[r], pc[r] # "write", pc'[r] # "write",
         pc'[r] = "check" =>
           \A o \in offers : o.retailer = r /\ (\E s \in Resolved(r)' : o.id = out'[r][s]) => o \in held'[r],
         \A s \in Skus : Tallied(r, s) \subseteq Tallied(r, s)'
  PROVE  HealInv'
<1>1. Skus' = Skus
  BY DEF Skus, SkusOf
<1>2. \A q \in Retailers, s \in Skus : Numbers(q, s)' = Numbers(q, s)
  BY DEF Numbers
<1>3. \A q, id : StreakOf(q, id)' = StreakOf(q, id)
  BY DEF StreakOf
<1>4. \A q \in Retailers \ {r} : Resolved(q)' = Resolved(q) /\ Accepted(q)' = Accepted(q)
                                 /\ \A s : Chosen(q, s)' = Chosen(q, s)
  BY KeptItems
<1>5. failures' = 0
  BY DEF HealInv
<1>6. HistoryTypes'
  <2> SUFFICES ASSUME NEW q \in Retailers, NEW s \in Skus
               PROVE  Numbers(q, s) \subseteq 1..taken'[q] /\ rejected[q][s] \subseteq 1..MaxItems
    BY <1>1, <1>2 DEF HistoryTypes
  <2>1. Numbers(q, s) \subseteq 1..taken[q] /\ rejected[q][s] \subseteq 1..MaxItems
    BY DEF HealInv, HistoryTypes
  <2>2. taken[q] \in Nat /\ taken'[q] \in Nat /\ taken'[q] >= taken[q]
    <3>1. taken[q] \in Nat /\ taken'[q] \in Nat
      BY StoreAssumption DEF StoreInv, FeedTypes
    <3> QED BY <3>1
  <2> QED BY <2>1, <2>2
<1>7. SpikesAreKnown'
  BY <1>1 DEF HealInv, SpikesAreKnown
<1>8. HeldIsCurrent'
  <2> SUFFICES ASSUME NEW q \in Retailers, pc'[q] \in {"check", "write"}, NEW o \in offers, o.retailer = q,
                      NEW s \in Resolved(q)', o.id = out'[q][s]
               PROVE  o \in held'[q]
    BY DEF HeldIsCurrent
  <2>1. CASE q = r
    BY <2>1
  <2>2. CASE q # r
    BY <1>4, <2>2 DEF HealInv, HeldIsCurrent, Kept
  <2> QED BY <2>1, <2>2
<1>9. StreaksAreEarned'
  <2> SUFFICES ASSUME NEW q \in Retailers, NEW s \in Skus, products'[s] # Unknown
               PROVE  StreakOf(q, products'[s]) <= Cardinality(Tallied(q, s)')
    BY <1>1, <1>3 DEF StreaksAreEarned
  <2>1. /\ Tallied(q, s) \subseteq Tallied(q, s)' /\ Tallied(q, s)' \subseteq Numbers(q, s)
        /\ Tallied(q, s) \subseteq Numbers(q, s)
    <3>1. CASE q = r
      BY <1>2, <3>1 DEF Tallied, Before
    <3>2. CASE q # r
      BY <1>2, <3>2 DEF Tallied, Before
    <3> QED BY <3>1, <3>2
  <2>2. /\ Cardinality(Tallied(q, s)) <= Cardinality(Tallied(q, s)')
        /\ Cardinality(Tallied(q, s)) \in Nat /\ Cardinality(Tallied(q, s)') \in Nat
    BY <2>1, NumbersAreFinite, FS_Subset
  <2>3. CASE products[s] # Unknown
    <3>1. StreakOf(q, products[s]) <= Cardinality(Tallied(q, s)) /\ products'[s] = products[s]
      BY <2>3 DEF HealInv, StreaksAreEarned
    <3> QED BY <2>2, <3>1, StreaksAreShort
  <2>4. CASE products[s] = Unknown
    <3>1. <<q, products'[s]>> \notin DOMAIN spikes
      <4> SUFFICES ASSUME <<q, products'[s]>> \in DOMAIN spikes PROVE FALSE
        OBVIOUS
      <4>1. PICK t \in Skus : products'[s] = products[t]
        BY DEF HealInv, SpikesAreKnown
      <4>2. products'[t] = products'[s]
        BY <4>1
      <4>3. t = s
        BY <1>1, <4>2 DEF StoreInv, OneProduct
      <4> QED BY <2>4, <4>1, <4>3
    <3> QED BY <2>2, <3>1 DEF StreakOf
  <2> QED BY <2>3, <2>4
<1>10. RejectionsAreCounted'
  <2> SUFFICES ASSUME NEW q \in Retailers, NEW s \in Skus
               PROVE  \/ rejected[q][s] = {}
                      \/ products'[s] # Unknown /\ Cardinality(rejected[q][s]) <= StreakOf(q, products'[s])
                      \/ pc'[q] = "write" /\ s \in Accepted(q)' /\ Cardinality(rejected[q][s]) < SpikeAcceptAfter
    BY <1>1, <1>3 DEF RejectionsAreCounted
  <2> QED BY <1>4 DEF HealInv, RejectionsAreCounted
<1>11. OverridesAreEarned'
  <2> SUFFICES ASSUME NEW q \in Retailers, pc'[q] = "write", NEW s \in Accepted(q)'
               PROVE  /\ StreakOf(q, products'[s]) = 0
                      /\ Suspect(q, s)' => Cardinality(Numbers(q, s)') >= 3
    BY <1>3 DEF OverridesAreEarned
  <2>1. q # r /\ pc[q] = "write" /\ s \in Accepted(q) /\ Kept(q) /\ Chosen(q, s)' = Chosen(q, s)
    BY <1>4
  <2>2. s \in Skus /\ products[s] # Unknown
    BY <2>1, RowsAreTyped
  <2>3. Suspect(q, s)' => Suspect(q, s)
    BY <2>1 DEF Suspect, SpikeSuspect, Kept
  <2> QED BY <1>2, <2>1, <2>2, <2>3 DEF HealInv, OverridesAreEarned
<1> QED BY <1>5, <1>6, <1>7, <1>8, <1>9, <1>10, <1>11 DEF HealInv

\* Without failures, a statement succeeds.
LEMMA StatementsSucceed ==
  ASSUME MaxFailures = 0, StoreInv, HealInv, NEW r \in Retailers, NEW from, NEW to \in Stages,
         Statement(r, from, to)
  PROVE  /\ pc[r] = from /\ pc'[r] = to /\ failures' = failures /\ taken' = taken
         /\ \A q \in Retailers \ {r} : pc'[q] = pc[q] /\ Kept(q) /\ feed'[q] = feed[q]
         /\ to # "fetch" => Kept(r) /\ feed'[r] = feed[r]
         /\ to = "fetch" => Empty(r) /\ feed'[r] = <<>>
<1>1. Succeeds(r, from, to)
  BY DEF Statement, Fails, HealInv
<1>2. pc[r] = from /\ pc'[r] = to /\ failures' = failures
  BY <1>1, WorkerTypes DEF Succeeds, Done, Goto, bounds
<1>3. Moved(r, {to})
  BY StatementMoves
<1>4. to = "fetch" => Empty(r) /\ feed'[r] = <<>>
  BY <1>1 DEF Succeeds, Drop, Empty, StoreInv, Shape
<1>5. to # "fetch" => Kept(r) /\ feed'[r] = feed[r]
  BY <1>1 DEF Succeeds, Kept, work
<1> QED BY <1>2, <1>3, <1>4, <1>5 DEF Moved

\* Before the check, the page in hand is not tallied yet, and stays so.
LEMMA NotYetTallied ==
  ASSUME NEW r \in Retailers, pc[r] \notin PastCheck, feed'[r] = feed[r], suspects' = suspects
  PROVE  \A s \in Skus : Tallied(r, s) \subseteq Tallied(r, s)'
BY DEF Tallied, Before, Numbers

LEMMA FetchHeals ==
  ASSUME StoreInv, HealInv, StoreInv', NEW r \in Retailers, Fetch(r)
  PROVE  HealInv'
<1>1. /\ pc[r] = "fetch" /\ pc' = [pc EXCEPT ![r] = "read"]
      /\ UNCHANGED <<products, offers, spikes, suspects, rejected, failures>>
      /\ UNCHANGED <<page, refused, out, held, spiked>>
  BY DEF Fetch, Goto, stores, tables, work, history
<1>2. PICK k \in 1..PageSize :
        /\ taken' = [taken EXCEPT ![r] = @ + k]
        /\ \E said \in [1..k -> [product : Products, cents : Prices]] :
             feed' = [feed EXCEPT ![r] = [i \in 1..k |->
               [product |-> said[i].product, cents |-> said[i].cents, at |-> taken[r] + i]]]
  BY DEF Fetch
<1>3. PICK said \in [1..k -> [product : Products, cents : Prices]] :
        feed' = [feed EXCEPT ![r] = [i \in 1..k |->
          [product |-> said[i].product, cents |-> said[i].cents, at |-> taken[r] + i]]]
  BY <1>2
<1>4. \A q \in Retailers \ {r} : pc'[q] = pc[q] /\ Kept(q) /\ feed'[q] = feed[q] /\ taken'[q] = taken[q]
  BY <1>1, <1>2, <1>3, WorkerTypes DEF Kept, StoreInv, Shape
<1>5. taken[r] \in Nat /\ k \in Nat /\ taken'[r] >= taken[r]
  <2>1. taken[r] \in Nat /\ k \in Nat
    BY WorkerTypes, StoreAssumption
  <2>2. taken'[r] = taken[r] + k
    BY <1>2 DEF StoreInv, Shape
  <2> QED BY <2>1, <2>2
<1>6. pc'[r] = "read"
  BY <1>1, WorkerTypes
<1>7. ASSUME NEW s \in Skus, NEW n \in Tallied(r, s)
      PROVE  n \in Tallied(r, s)'
  <2>1. n \in Numbers(r, s) /\ n \in 1..taken[r]
    BY DEF Tallied, Before, HealInv, HistoryTypes
  <2>2. \A i \in DOMAIN feed'[r] : n < feed'[r][i].at
    <3> SUFFICES ASSUME NEW i \in DOMAIN feed'[r] PROVE n < feed'[r][i].at
      OBVIOUS
    <3>1. i \in 1..k /\ feed'[r][i].at = taken[r] + i
      BY <1>3 DEF StoreInv, Shape
    <3> QED BY <1>5, <2>1, <3>1
  <2>3. n \in Numbers(r, s)'
    BY <1>1, <2>1 DEF Numbers
  <2> QED BY <1>6, <2>2, <2>3 DEF Tallied, Before, PastCheck
<1> QED BY <1>1, <1>4, <1>5, <1>6, <1>7, HealLocal

LEMMA ReadHeals ==
  ASSUME StoreInv, HealInv, StoreInv', NEW r \in Retailers, Read(r)
  PROVE  HealInv'
<1>1. /\ UNCHANGED <<products, offers, spikes, suspects, rejected, failures, feed, taken>>
      /\ UNCHANGED <<out, held, spiked>> /\ pc[r] = "read"
      /\ \A q \in Retailers \ {r} : pc'[q] = pc[q] /\ page'[q] = page[q] /\ refused'[q] = refused[q]
      /\ pc'[r] \in {"quarantine", "resolve"}
  BY WorkerTypes DEF Read, Done, Goto, bounds, stores, tables, history, StoreInv, Shape
<1>2. taken[r] \in Nat
  BY WorkerTypes, StoreAssumption
<1>3. \A s \in Skus : Tallied(r, s) \subseteq Tallied(r, s)'
  BY <1>1, NotYetTallied DEF PastCheck
<1> QED BY <1>1, <1>2, <1>3, HealLocal DEF Kept

LEMMA ResolveHeals ==
  ASSUME MaxFailures = 0, StoreInv, HealInv, StoreInv', NEW r \in Retailers, Resolve(r)
  PROVE  HealInv'
<1>1. /\ UNCHANGED <<offers, spikes, suspects, rejected, failures, taken>>
      /\ feed'[r] = feed[r] /\ pc[r] \in {"resolve", "insert", "select"}
      /\ pc'[r] \in {"price", "insert", "select"}
      /\ \A q \in Retailers \ {r} : pc'[q] = pc[q] /\ Kept(q) /\ feed'[q] = feed[q]
      /\ \A s \in Skus : products[s] # Unknown => products'[s] = products[s]
  <2>1. CASE LookupIds(r)
    BY <2>1, WorkerTypes
       DEF LookupIds, Done, Goto, bounds, stores, tables, history, Kept
  <2>2. CASE InsertProducts(r)
    <3>1. Statement(r, "insert", "select") /\ UNCHANGED <<offers, ids, spikes, outcome, history>>
      BY <2>2 DEF InsertProducts
    <3>2. \A s \in Skus : products[s] # Unknown => products'[s] = products[s]
      BY <2>2 DEF InsertProducts, Inserted
    <3> QED BY <3>1, <3>2, StatementsSucceed DEF Stages, history
  <2>3. CASE SelectIds(r)
    BY <2>3, WorkerTypes
       DEF SelectIds, Done, Goto, bounds, stores, tables, history, Kept
  <2> QED BY <2>1, <2>2, <2>3 DEF Resolve
<1>2. taken[r] \in Nat
  BY WorkerTypes, StoreAssumption
<1>3. \A s \in Skus : Tallied(r, s) \subseteq Tallied(r, s)'
  BY <1>1, NotYetTallied DEF PastCheck
<1> QED BY <1>1, <1>2, <1>3, HealLocal

LEMMA ReadHeldHeals ==
  ASSUME StoreInv, HealInv, StoreInv', NEW r \in Retailers, ReadHeld(r)
  PROVE  HealInv'
<1>1. /\ UNCHANGED <<products, offers, spikes, suspects, rejected, failures, feed, taken>>
      /\ UNCHANGED <<page, refused, out, spiked>> /\ pc[r] = "price" /\ pc'[r] = "check"
      /\ \A q \in Retailers \ {r} : pc'[q] = pc[q] /\ held'[q] = held[q]
      /\ held'[r] = {o \in offers : o.retailer = r /\ \E s \in Resolved(r) : o.id = out[r][s]}
  BY WorkerTypes DEF ReadHeld, Done, Goto, bounds, stores, tables, history, StoreInv, Shape
<1>2. taken[r] \in Nat
  BY WorkerTypes, StoreAssumption
<1>3. \A s \in Skus : Tallied(r, s) \subseteq Tallied(r, s)'
  BY <1>1, NotYetTallied DEF PastCheck
<1>4. Resolved(r)' = Resolved(r)
  BY <1>1 DEF Resolved, BatchSkus
<1> QED BY <1>1, <1>2, <1>3, <1>4, HealLocal DEF Kept

LEMMA LeavingHeals ==
  ASSUME MaxFailures = 0, StoreInv, HealInv, StoreInv', NEW r \in Retailers, Quarantine(r) \/ Deliver(r)
  PROVE  HealInv'
<1>1. PICK to \in {"fetch", "deliver"} : \E from \in {"quarantine", "deliver"} : Statement(r, from, to)
  BY DEF Quarantine, Deliver, Statement
<1>2. UNCHANGED <<products, offers, spikes, suspects, rejected>>
  BY DEF Quarantine, Deliver, stores, tables, history
<1>3. PICK from \in {"quarantine", "deliver"} : Statement(r, from, to)
  BY <1>1
<1>4. /\ pc[r] = from /\ pc'[r] = to /\ failures' = failures /\ taken' = taken
      /\ \A q \in Retailers \ {r} : pc'[q] = pc[q] /\ Kept(q) /\ feed'[q] = feed[q]
      /\ to = "fetch" => feed'[r] = <<>>
  BY <1>3, StatementsSucceed DEF Stages
<1>5. ASSUME NEW s \in Skus PROVE Tallied(r, s) \subseteq Tallied(r, s)'
  <2>1. Tallied(r, s) = Numbers(r, s) /\ Numbers(r, s)' = Numbers(r, s)
    BY <1>2, <1>4 DEF Tallied, PastCheck, Numbers
  <2>2. CASE to = "deliver"
    BY <1>4, <2>1, <2>2 DEF Tallied, PastCheck
  <2>3. CASE to = "fetch"
    <3>1. \A i \in DOMAIN feed'[r] : FALSE
      BY <1>4, <2>3
    <3> QED BY <1>4, <2>1, <2>3, <3>1 DEF Tallied, PastCheck, Before
  <2> QED BY <2>2, <2>3
<1>6. taken[r] \in Nat
  BY WorkerTypes, StoreAssumption
<1> QED BY <1>2, <1>4, <1>5, <1>6, HealLocal

\* The check: a streak grows by the observation in hand, which it has not
\* counted before, and ends otherwise.
LEMMA CheckHeals ==
  ASSUME StoreInv, HealInv, StoreInv', NEW r \in Retailers, CheckSpikes(r)
  PROVE  HealInv'
<1> DEFINE rejects == {s \in Resolved(r) : SpikeReject(r, s)}
           ended == {<<r, out[r][s]>> : s \in {t \in Resolved(r) : EndsStreak(r, t)}}
           longer == {<<r, out[r][s]>> : s \in rejects}
<1>1. /\ pc[r] = "check" /\ pc' = [pc EXCEPT ![r] = IF Resolved(r) = rejects THEN "quarantine" ELSE "write"]
      /\ spiked' = [spiked EXCEPT ![r] = rejects]
      /\ spikes' = [k \in (DOMAIN spikes \ ended) \cup longer |->
                      (IF k \in DOMAIN spikes THEN spikes[k] ELSE 0) + (IF k \in longer THEN 1 ELSE 0)]
      /\ UNCHANGED <<products, offers, feed, page, refused, out, held, taken, failures>>
      /\ suspects' = [suspects EXCEPT ![r] = [s \in Skus |->
           IF s \notin Resolved(r) THEN @[s]
           ELSE IF Suspect(r, s) THEN @[s] \cup {[n |-> Chosen(r, s).n, price |-> Chosen(r, s).item.price]} ELSE {}]]
      /\ rejected' = [rejected EXCEPT ![r] = [s \in Skus |->
           IF s \in rejects THEN @[s] \cup {Chosen(r, s).n} ELSE @[s]]]
  BY DEF CheckSpikes, Done, Goto, bounds, tables
<1>2. /\ pc'[r] \in {"quarantine", "write"} /\ spiked'[r] = rejects
      /\ \A s \in Skus : s \notin Resolved(r) => suspects'[r][s] = suspects[r][s]
      /\ \A s \in Resolved(r) : s \in Skus =>
           suspects'[r][s] = IF Suspect(r, s)
             THEN suspects[r][s] \cup {[n |-> Chosen(r, s).n, price |-> Chosen(r, s).item.price]} ELSE {}
      /\ \A s \in Skus : rejected'[r][s] = IF s \in rejects THEN rejected[r][s] \cup {Chosen(r, s).n} ELSE rejected[r][s]
      /\ \A q \in Retailers \ {r} : pc'[q] = pc[q] /\ spiked'[q] = spiked[q]
                                    /\ suspects'[q] = suspects[q] /\ rejected'[q] = rejected[q]
  BY <1>1, WorkerTypes DEF StoreInv, Shape
<1>3. \A s \in Resolved(r) : s \in Skus /\ s \in BatchSkus(r) /\ out[r][s] = products[s] /\ products[s] # Unknown
  BY WorkerTypes DEF Resolved
<1>4. \A s, t \in Skus : products[s] = products[t] /\ products[s] # Unknown => s = t
  BY DEF StoreInv, OneProduct
<1>5. \A q \in Retailers \ {r} : Kept(q)
  BY <1>1, <1>2 DEF Kept
<1>6. Skus' = Skus
  BY DEF Skus, SkusOf
\* The streaks after the check.
<1>7. \A s \in Resolved(r) : StreakOf(r, products[s])' = IF s \in rejects THEN StreakOf(r, products[s]) + 1 ELSE 0
  <2> SUFFICES ASSUME NEW s \in Resolved(r)
               PROVE  StreakOf(r, products[s])' = IF s \in rejects THEN StreakOf(r, products[s]) + 1 ELSE 0
    OBVIOUS
  <2> DEFINE k == <<r, products[s]>>
  <2>1. k = <<r, out[r][s]>> /\ products' = products
    BY <1>1, <1>3
  <2>2. CASE s \in rejects
    <3>1. k \in longer
      BY <2>1, <2>2
    <3>2. k \in DOMAIN spikes' /\ spikes'[k] = (IF k \in DOMAIN spikes THEN spikes[k] ELSE 0) + 1
      <4> HIDE DEF k, longer, ended
      <4> QED BY <1>1, <3>1
    <3> QED BY <2>1, <2>2, <3>2 DEF StreakOf
  <2>3. CASE s \notin rejects
    <3>1. k \in ended
      BY <2>1, <2>3 DEF EndsStreak
    <3>2. k \notin longer
      <4> SUFFICES ASSUME NEW t \in rejects, k = <<r, out[r][t]>> PROVE FALSE
        OBVIOUS
      <4>1. t \in Resolved(r) /\ products[t] = products[s]
        BY <1>3
      <4>2. t = s
        BY <1>3, <1>4, <4>1
      <4> QED BY <2>3, <4>2
    <3>3. k \notin DOMAIN spikes'
      <4> HIDE DEF k, longer, ended
      <4> QED BY <1>1, <3>1, <3>2
    <3> QED BY <2>1, <2>3, <3>3 DEF StreakOf
  <2> QED BY <2>2, <2>3
<1>8. ASSUME NEW q \in Retailers, NEW s \in Skus, products[s] # Unknown, q # r \/ s \notin Resolved(r)
      PROVE  StreakOf(q, products[s])' = StreakOf(q, products[s])
  <2> DEFINE k == <<q, products[s]>>
  <2>1. k \notin ended /\ k \notin longer
    <3> SUFFICES ASSUME NEW t \in Resolved(r), k = <<r, out[r][t]>> PROVE FALSE
      BY Zenon
    <3>1. q = r /\ products[t] = products[s]
      BY <1>3
    <3>2. t = s
      BY <1>3, <1>4, <1>8, <3>1
    <3> QED BY <1>8, <3>1, <3>2
  <2>2. k \in DOMAIN spikes' <=> k \in DOMAIN spikes
    <3> HIDE DEF k, longer, ended
    <3> QED BY <1>1, <2>1
  <2>3. k \in DOMAIN spikes => spikes'[k] = spikes[k]
    <3> SUFFICES ASSUME k \in DOMAIN spikes PROVE spikes'[k] = spikes[k]
      OBVIOUS
    <3> HIDE DEF k, longer, ended
    <3>1. spikes[k] \in Nat
      BY DEF StoreInv, TypeOK, SpikeAcceptAfter
    <3> QED BY <1>1, <2>1, <2>2, <3>1
  <2>4. StreakOf(q, products[s])' = IF k \in DOMAIN spikes' THEN spikes'[k] ELSE 0
    BY <1>1 DEF StreakOf
  <2>5. StreakOf(q, products[s]) = IF k \in DOMAIN spikes THEN spikes[k] ELSE 0
    BY DEF StreakOf
  <2> HIDE DEF k
  <2> QED BY <2>2, <2>3, <2>4, <2>5
\* What is in hand is new.
<1>9. ASSUME NEW s \in Resolved(r)
      PROVE  /\ Chosen(r, s).n \in 1..taken[r] /\ Chosen(r, s).n \in 1..MaxItems
             /\ Chosen(r, s).n \notin Before(r, s)
  <2>1. Chosen(r, s) \in page[r]
    BY <1>3, ChosenWins
  <2>2. PICK i \in DOMAIN feed[r] : Chosen(r, s).n = feed[r][i].at
    BY <2>1, WorkerTypes
  <2>3. feed[r][i].at <= taken[r] /\ feed[r][i] \in Offer /\ taken[r] \in Nat
    BY WorkerTypes, StoreAssumption
  <2>4. feed[r][i].at \in 1..MaxItems
    BY <2>3 DEF Offer
  <2>5. feed[r][i].at \in Nat
    BY <2>4, StoreAssumption
  <2>6. Chosen(r, s).n \notin Before(r, s)
    BY <2>2, <2>5 DEF Before
  <2> QED BY <2>2, <2>3, <2>4, <2>5, <2>6, StoreAssumption
<1> HIDE DEF rejects, ended, longer
<1>10. \A s \in rejects : s \in Resolved(r) /\ Suspect(r, s) /\ StreakOf(r, products[s]) + 1 < SpikeAcceptAfter
  <2>1. \A s \in Resolved(r) : Streak(r, s) = StreakOf(r, products[s])
    BY <1>3 DEF Streak, StreakOf
  <2> QED BY <2>1 DEF rejects, SpikeReject
<1>11. \A s \in Resolved(r) \ rejects : Suspect(r, s) => StreakOf(r, products[s]) + 1 >= SpikeAcceptAfter
  <2>1. \A s \in Resolved(r) : Streak(r, s) = StreakOf(r, products[s])
    BY <1>3 DEF Streak, StreakOf
  <2> QED BY <2>1, StreaksAreShort DEF rejects, SpikeReject, SpikeAcceptAfter
\* The numbers after the check.
<1>12. ASSUME NEW s \in Resolved(r), Suspect(r, s)
       PROVE  /\ Numbers(r, s)' = Numbers(r, s) \cup {Chosen(r, s).n}
              /\ IsFiniteSet(Numbers(r, s)')
              /\ Cardinality(Numbers(r, s)') \in Nat
              /\ Cardinality(Numbers(r, s)') >= StreakOf(r, products[s]) + 1
  <2>1. Numbers(r, s)' = Numbers(r, s) \cup {Chosen(r, s).n}
    <3> DEFINE seen == [n |-> Chosen(r, s).n, price |-> Chosen(r, s).item.price]
    <3>1. suspects'[r][s] = suspects[r][s] \cup {seen} /\ seen.n = Chosen(r, s).n
      BY <1>2, <1>3, <1>12
    <3> HIDE DEF seen
    <3> QED BY <3>1 DEF Numbers
  <2>2. Before(r, s) \subseteq Numbers(r, s) /\ Tallied(r, s) = Before(r, s)
    BY <1>1 DEF Before, Tallied, PastCheck
  <2>3. /\ IsFiniteSet(Before(r, s)) /\ Cardinality(Before(r, s)) \in Nat
        /\ IsFiniteSet(Numbers(r, s))
    BY <1>3, <2>2, NumbersAreFinite
  <2> DEFINE grown == Before(r, s) \cup {Chosen(r, s).n}
  <2>4. Cardinality(grown) = Cardinality(Before(r, s)) + 1
    BY <1>9, <2>3, FS_AddElement
  <2>5. IsFiniteSet(Numbers(r, s)')
    BY <2>1, <2>3, FS_AddElement
  <2>6. grown \subseteq Numbers(r, s)'
    BY <2>1, <2>2
  <2>7. Cardinality(grown) <= Cardinality(Numbers(r, s)') /\ Cardinality(Numbers(r, s)') \in Nat
    BY <2>5, <2>6, FS_Subset, FS_CardinalityType
  <2>8. StreakOf(r, products[s]) <= Cardinality(Before(r, s))
    BY <1>3, <2>2 DEF HealInv, StreaksAreEarned
  <2> HIDE DEF grown
  <2> QED BY <2>1, <2>3, <2>4, <2>5, <2>7, <2>8, StreaksAreShort
<1>13. \A q \in Retailers, s \in Skus : q # r \/ s \notin Resolved(r) => Numbers(q, s)' = Numbers(q, s)
  BY <1>2 DEF Numbers
<1>14. \A s \in Resolved(r) : ~Suspect(r, s) => Numbers(r, s)' = {}
  BY <1>2, <1>3 DEF Numbers
<1>15. failures' = 0
  BY <1>1 DEF HealInv
<1>16. HistoryTypes'
  <2> SUFFICES ASSUME NEW q \in Retailers, NEW s \in Skus
               PROVE  Numbers(q, s)' \subseteq 1..taken[q] /\ rejected'[q][s] \subseteq 1..MaxItems
    BY <1>1, <1>6 DEF HistoryTypes
  <2>1. Numbers(q, s) \subseteq 1..taken[q] /\ rejected[q][s] \subseteq 1..MaxItems
    BY DEF HealInv, HistoryTypes
  <2>2. Numbers(q, s)' \subseteq 1..taken[q]
    <3>1. CASE q = r /\ s \in Resolved(r)
      BY <1>9, <1>12, <1>14, <2>1, <3>1
    <3>2. CASE ~(q = r /\ s \in Resolved(r))
      BY <1>13, <2>1, <3>2
    <3> QED BY <3>1, <3>2
  <2>3. rejected'[q][s] \subseteq 1..MaxItems
    <3>1. CASE q = r /\ s \in rejects
      <4>1. rejected'[r][s] = rejected[r][s] \cup {Chosen(r, s).n} /\ Chosen(r, s).n \in 1..MaxItems
        BY <1>2, <1>9, <1>10, <3>1
      <4> QED BY <2>1, <3>1, <4>1
    <3>2. CASE ~(q = r /\ s \in rejects)
      BY <1>2, <2>1, <3>2
    <3> QED BY <3>1, <3>2
  <2> QED BY <2>2, <2>3
<1>17. SpikesAreKnown'
  <2> SUFFICES ASSUME NEW k \in DOMAIN spikes' PROVE k[2] # Unknown /\ \E s \in Skus : k[2] = products[s]
    BY <1>1, <1>6 DEF SpikesAreKnown
  <2>1. CASE k \in longer
    <3>1. PICK s \in rejects : k = <<r, out[r][s]>>
      BY <2>1 DEF longer
    <3> QED BY <1>3, <1>10, <3>1
  <2>2. CASE k \notin longer
    BY <1>1, <2>2 DEF HealInv, SpikesAreKnown
  <2> QED BY <2>1, <2>2
<1>18. \A q \in Retailers : Resolved(q)' = Resolved(q)
  BY <1>1 DEF Resolved, BatchSkus
<1>19. HeldIsCurrent'
  BY <1>1, <1>2, <1>18 DEF HealInv, HeldIsCurrent
<1>20. StreaksAreEarned'
  <2> SUFFICES ASSUME NEW q \in Retailers, NEW s \in Skus, products[s] # Unknown
               PROVE  StreakOf(q, products[s])' <= Cardinality(Tallied(q, s)')
    BY <1>1, <1>6 DEF StreaksAreEarned, StreakOf
  <2>1. CASE q # r
    <3>1. Tallied(q, s)' = Tallied(q, s)
      BY <1>1, <1>2, <1>13, <2>1 DEF Tallied, Before
    <3> QED BY <1>8, <2>1, <3>1 DEF HealInv, StreaksAreEarned
  <2>2. Tallied(r, s)' = Numbers(r, s)'
    BY <1>2 DEF Tallied, PastCheck
  <2>3. CASE q = r /\ s \notin Resolved(r)
    <3>1. Numbers(r, s)' = Numbers(r, s) /\ StreakOf(r, products[s])' = StreakOf(r, products[s])
      BY <1>8, <1>13, <2>3
    <3>2. StreakOf(r, products[s]) <= Cardinality(Tallied(r, s)) /\ Tallied(r, s) \subseteq Numbers(r, s)
      BY DEF HealInv, StreaksAreEarned, Tallied, Before
    <3>3. /\ Cardinality(Tallied(r, s)) <= Cardinality(Numbers(r, s))
          /\ Cardinality(Tallied(r, s)) \in Nat /\ Cardinality(Numbers(r, s)) \in Nat
      BY <3>2, NumbersAreFinite
    <3> QED BY <2>2, <2>3, <3>1, <3>2, <3>3, StreaksAreShort
  <2>4. CASE q = r /\ s \in rejects
    BY <1>7, <1>10, <1>12, <2>2, <2>4
  <2>5. CASE q = r /\ s \in Resolved(r) \ rejects
    <3>1. StreakOf(r, products[s])' = 0
      BY <1>7, <2>5
    <3>2. Cardinality(Numbers(r, s)') \in Nat
      BY <1>12, <1>14, <2>5, FS_EmptySet
    <3> QED BY <2>2, <2>5, <3>1, <3>2
  <2> QED BY <2>1, <2>3, <2>4, <2>5
<1>21. RejectionsAreCounted'
  <2> SUFFICES ASSUME NEW q \in Retailers, NEW s \in Skus
               PROVE  \/ rejected'[q][s] = {}
                      \/ products[s] # Unknown /\ Cardinality(rejected'[q][s]) <= StreakOf(q, products[s])'
                      \/ pc'[q] = "write" /\ s \in Accepted(q)' /\ Cardinality(rejected'[q][s]) < SpikeAcceptAfter
    BY <1>1, <1>6 DEF RejectionsAreCounted, StreakOf
  <2>1. CASE q # r
    <3>1. rejected'[q] = rejected[q] /\ pc'[q] = pc[q] /\ Accepted(q)' = Accepted(q)
      BY <1>2, <1>5, <2>1, KeptItems
    <3> QED BY <1>8, <2>1, <3>1 DEF HealInv, RejectionsAreCounted
  <2>2. \/ rejected[r][s] = {}
        \/ products[s] # Unknown /\ Cardinality(rejected[r][s]) <= StreakOf(r, products[s])
    BY <1>1 DEF HealInv, RejectionsAreCounted
  <2>3. IsFiniteSet(rejected[r][s]) /\ Cardinality(rejected[r][s]) \in Nat /\ Cardinality({}) = 0
    BY NumbersAreFinite, FS_EmptySet
  <2>4. Cardinality(rejected[r][s]) <= StreakOf(r, products[s])
    BY <2>2, <2>3, StreaksAreShort
  <2>5. CASE q = r /\ s \in rejects
    <3>1. rejected'[r][s] = rejected[r][s] \cup {Chosen(r, s).n}
      BY <1>2, <2>5
    <3>3. StreakOf(r, products[s])' = StreakOf(r, products[s]) + 1
      BY <1>7, <1>10, <2>5
    <3>2. Cardinality(rejected'[r][s]) \in Nat /\ Cardinality(rejected'[r][s]) <= Cardinality(rejected[r][s]) + 1
      <4> DEFINE n == Chosen(r, s).n
      <4>1. Cardinality(rejected[r][s] \cup {n})
              = IF n \in rejected[r][s] THEN Cardinality(rejected[r][s]) ELSE Cardinality(rejected[r][s]) + 1
        <5> HIDE DEF n
        <5> QED BY <2>3, FS_AddElement
      <4>2. rejected'[r][s] = rejected[r][s] \cup {n}
        BY <3>1
      <4> HIDE DEF n
      <4> QED BY <2>3, <4>1, <4>2
    <3>4. Cardinality(rejected'[r][s]) <= StreakOf(r, products[s])'
      BY <2>3, <2>4, <3>2, <3>3, StreaksAreShort
    <3> QED BY <1>3, <1>10, <2>5, <3>4
  <2>6. CASE q = r /\ s \in Resolved(r) \ rejects
    <3>1. s \in Accepted(r)' /\ rejected'[r][s] = rejected[r][s]
      BY <1>2, <1>18, <2>6 DEF Accepted
    <3>2. pc'[r] = "write"
      BY <1>1, <2>6, WorkerTypes DEF StoreInv
    <3>3. Cardinality(rejected[r][s]) < SpikeAcceptAfter
      BY <2>3, <2>4, StreaksAreShort DEF SpikeAcceptAfter
    <3> QED BY <2>6, <3>1, <3>2, <3>3
  <2>7. CASE q = r /\ s \notin Resolved(r)
    <3>1. rejected'[r][s] = rejected[r][s]
      BY <1>2, <1>10, <2>7
    <3> QED BY <1>8, <2>2, <2>7, <3>1
  <2> QED BY <1>10, <2>1, <2>5, <2>6, <2>7
<1>22. OverridesAreEarned'
  <2> SUFFICES ASSUME NEW q \in Retailers, pc'[q] = "write", NEW s \in Accepted(q)'
               PROVE  /\ StreakOf(q, products[s])' = 0
                      /\ Suspect(q, s)' => Cardinality(Numbers(q, s)') >= 3
    BY <1>1 DEF OverridesAreEarned, StreakOf
  <2>1. page' = page /\ out' = out /\ held' = held
    BY <1>1
  <2>2. Chosen(q, s)' = Chosen(q, s)
    BY <2>1, ChosenIsWinner
  <2>3. Suspect(q, s)' = Suspect(q, s)
    BY <2>1, <2>2 DEF Suspect, SpikeSuspect
  <2>4. CASE q = r
    <3>1. s \in Resolved(r) /\ s \notin rejects
      BY <1>2, <1>18, <2>4 DEF Accepted
    <3>2. StreakOf(r, products[s])' = 0
      BY <1>7, <3>1
    <3>3. Suspect(r, s) => Cardinality(Numbers(r, s)') >= 3
      BY <1>11, <1>12, <3>1, StreaksAreShort DEF SpikeAcceptAfter
    <3> QED BY <2>3, <2>4, <3>2, <3>3
  <2>5. CASE q # r
    <3>1. s \in Accepted(q) /\ pc[q] = "write"
      BY <1>2, <1>5, <2>5, KeptItems
    <3>2. s \in Skus /\ products[s] # Unknown
      BY <3>1, RowsAreTyped
    <3> QED BY <1>8, <1>13, <2>3, <2>5, <3>1, <3>2 DEF HealInv, OverridesAreEarned
  <2> QED BY <2>4, <2>5
<1> QED BY <1>15, <1>16, <1>17, <1>19, <1>20, <1>21, <1>22 DEF HealInv

\* The upsert ends the streaks of what it writes.
LEMMA UpsertHeals ==
  ASSUME MaxFailures = 0, StoreInv, HealInv, StoreInv', NEW r \in Retailers, UpsertOffers(r)
  PROVE  HealInv'
<1>1. /\ pc[r] = "write" /\ pc'[r] = "quarantine" /\ failures' = failures /\ taken' = taken
      /\ \A q \in Retailers : Kept(q) /\ feed'[q] = feed[q]
      /\ \A q \in Retailers \ {r} : pc'[q] = pc[q]
  BY StatementsSucceed DEF UpsertOffers, Stages
<1>2. /\ products' = products /\ spikes' = spikes
      /\ suspects' = [suspects EXCEPT ![r] = [s \in Skus |-> IF s \in Accepted(r) THEN {} ELSE @[s]]]
      /\ rejected' = [rejected EXCEPT ![r] = [s \in Skus |-> IF s \in Accepted(r) THEN {} ELSE @[s]]]
  BY DEF UpsertOffers
<1>3. /\ \A s \in Skus : s \in Accepted(r) => suspects'[r][s] = {} /\ rejected'[r][s] = {}
      /\ \A s \in Skus : s \notin Accepted(r) => suspects'[r][s] = suspects[r][s] /\ rejected'[r][s] = rejected[r][s]
      /\ \A q \in Retailers \ {r} : suspects'[q] = suspects[q] /\ rejected'[q] = rejected[q]
  BY <1>2 DEF StoreInv, Shape
<1>4. Skus' = Skus
  BY DEF Skus, SkusOf
<1>5. \A q \in Retailers, s \in Skus :
        Numbers(q, s)' = IF q = r /\ s \in Accepted(r) THEN {} ELSE Numbers(q, s)
  BY <1>3 DEF Numbers
<1>6. \A q, id : StreakOf(q, id)' = StreakOf(q, id)
  BY <1>2 DEF StreakOf
<1>7. \A q \in Retailers : Resolved(q)' = Resolved(q) /\ Accepted(q)' = Accepted(q)
                           /\ out'[q] = out[q] /\ held'[q] = held[q]
                           /\ \A s : Chosen(q, s)' = Chosen(q, s)
  BY <1>1, KeptItems DEF Kept
<1>8. failures' = 0
  BY <1>1 DEF HealInv
<1>9. HistoryTypes'
  <2> SUFFICES ASSUME NEW q \in Retailers, NEW s \in Skus
               PROVE  Numbers(q, s)' \subseteq 1..taken[q] /\ rejected'[q][s] \subseteq 1..MaxItems
    BY <1>1, <1>4 DEF HistoryTypes
  <2>1. Numbers(q, s) \subseteq 1..taken[q] /\ rejected[q][s] \subseteq 1..MaxItems
    BY DEF HealInv, HistoryTypes
  <2> QED BY <1>3, <1>5, <2>1
<1>10. SpikesAreKnown'
  BY <1>2, <1>4 DEF HealInv, SpikesAreKnown
<1>11. HeldIsCurrent'
  <2> SUFFICES ASSUME NEW q \in Retailers, pc'[q] \in {"check", "write"}, NEW o \in offers', o.retailer = q,
                      NEW s \in Resolved(q), o.id = out[q][s]
               PROVE  o \in held[q]
    BY <1>7 DEF HeldIsCurrent
  <2>1. q # r /\ pc[q] = pc'[q]
    BY <1>1
  <2>2. o \in offers
    BY <2>1 DEF UpsertOffers, Row
  <2> QED BY <2>1, <2>2 DEF HealInv, HeldIsCurrent
<1>12. StreaksAreEarned'
  <2> SUFFICES ASSUME NEW q \in Retailers, NEW s \in Skus, products[s] # Unknown
               PROVE  StreakOf(q, products[s]) <= Cardinality(Tallied(q, s)')
    BY <1>2, <1>4, <1>6 DEF StreaksAreEarned
  <2>1. CASE q = r /\ s \in Accepted(r)
    <3>1. StreakOf(r, products[s]) = 0
      BY <1>1, <2>1 DEF HealInv, OverridesAreEarned
    <3>2. Tallied(r, s)' = {}
      BY <1>1, <1>5, <2>1 DEF Tallied, PastCheck
    <3> QED BY <2>1, <3>1, <3>2, FS_EmptySet
  <2>2. CASE ~(q = r /\ s \in Accepted(r))
    <3>1. Tallied(q, s)' = Tallied(q, s)
      <4>1. Numbers(q, s)' = Numbers(q, s)
        BY <1>5, <2>2
      <4>2. pc'[q] \in PastCheck <=> pc[q] \in PastCheck
        BY <1>1 DEF PastCheck
      <4> QED BY <1>1, <4>1, <4>2 DEF Tallied, Before
    <3> QED BY <3>1 DEF HealInv, StreaksAreEarned
  <2> QED BY <2>1, <2>2
<1>13. RejectionsAreCounted'
  <2> SUFFICES ASSUME NEW q \in Retailers, NEW s \in Skus
               PROVE  \/ rejected'[q][s] = {}
                      \/ products[s] # Unknown /\ Cardinality(rejected'[q][s]) <= StreakOf(q, products[s])
                      \/ pc'[q] = "write" /\ s \in Accepted(q) /\ Cardinality(rejected'[q][s]) < SpikeAcceptAfter
    BY <1>2, <1>4, <1>6, <1>7 DEF RejectionsAreCounted
  <2>1. CASE q = r /\ s \in Accepted(r)
    BY <1>3, <2>1
  <2>2. CASE ~(q = r /\ s \in Accepted(r))
    <3>1. rejected'[q][s] = rejected[q][s]
      BY <1>3, <2>2
    <3> QED BY <1>1, <2>2, <3>1 DEF HealInv, RejectionsAreCounted
  <2> QED BY <2>1, <2>2
<1>14. OverridesAreEarned'
  <2> SUFFICES ASSUME NEW q \in Retailers, pc'[q] = "write", NEW s \in Accepted(q)
               PROVE  /\ StreakOf(q, products[s]) = 0
                      /\ Suspect(q, s)' => Cardinality(Numbers(q, s)') >= 3
    BY <1>2, <1>6, <1>7 DEF OverridesAreEarned
  <2>1. q # r /\ pc[q] = "write"
    BY <1>1
  <2>2. Suspect(q, s)' => Suspect(q, s)
    BY <1>7 DEF Suspect, SpikeSuspect
  <2>3. Numbers(q, s)' = Numbers(q, s)
    BY <1>5, <2>1, RowsAreTyped
  <2> QED BY <2>1, <2>2, <2>3 DEF HealInv, OverridesAreEarned
<1> QED BY <1>8, <1>9, <1>10, <1>11, <1>12, <1>13, <1>14 DEF HealInv

\* A crash forgets the streaks, and with them the rejections.
LEMMA CrashHeals ==
  ASSUME StoreInv, HealInv, Crash
  PROVE  HealInv'
<1>1. /\ spikes' = <<>> /\ products' = products /\ failures' = failures
      /\ pc' = [r \in Retailers |-> IF pc[r] = "fetch" THEN "fetch" ELSE "read"]
      /\ rejected' = [r \in Retailers |-> [s \in Skus |-> {}]]
      /\ taken' = taken /\ suspects' = suspects
  BY DEF Crash, tables
<1>2. Skus' = Skus /\ \A q, s : Numbers(q, s)' = Numbers(q, s)
  BY <1>1 DEF Skus, SkusOf, Numbers
<1>3. \A q \in Retailers : pc'[q] \in {"fetch", "read"}
  BY <1>1
<1>4. \A q, id : StreakOf(q, id)' = 0
  BY <1>1 DEF StreakOf
<1>5. HistoryTypes'
  BY <1>1, <1>2 DEF HealInv, HistoryTypes
<1>6. StreaksAreEarned'
  <2> SUFFICES ASSUME NEW q \in Retailers, NEW s \in Skus
               PROVE  0 <= Cardinality(Tallied(q, s)')
    BY <1>2, <1>4 DEF StreaksAreEarned
  <2>1. Tallied(q, s)' \subseteq Numbers(q, s)
    BY <1>2 DEF Tallied, Before
  <2> QED BY <2>1, NumbersAreFinite
<1>7. RejectionsAreCounted'
  BY <1>1, <1>2 DEF RejectionsAreCounted
<1>8. SpikesAreKnown' /\ HeldIsCurrent' /\ OverridesAreEarned'
  BY <1>1, <1>3 DEF SpikesAreKnown, HeldIsCurrent, OverridesAreEarned
<1> QED BY <1>1, <1>5, <1>6, <1>7, <1>8 DEF HealInv

-----------------------------------------------------------------------------
(* The theorems about the spike check.                                     *)

LEMMA InitHeals == Init => HealInv
<1> SUFFICES ASSUME Init PROVE HealInv
  OBVIOUS
<1>1. /\ products = NoIds /\ offers = {} /\ spikes = <<>> /\ failures = 0
      /\ pc = [r \in Retailers |-> "fetch"]
      /\ suspects = [r \in Retailers |-> [s \in Skus |-> {}]] /\ rejected = suspects
  BY DEF Init
<1>2. \A r \in Retailers, s \in Skus : Numbers(r, s) = {} /\ rejected[r][s] = {} /\ products[s] = Unknown
  BY <1>1, NoIdsAreIds DEF Numbers
<1>3. HistoryTypes /\ StreaksAreEarned /\ RejectionsAreCounted
  BY <1>2 DEF HistoryTypes, StreaksAreEarned, RejectionsAreCounted
<1>4. SpikesAreKnown /\ HeldIsCurrent /\ OverridesAreEarned
  BY <1>1 DEF SpikesAreKnown, HeldIsCurrent, OverridesAreEarned
<1> QED BY <1>1, <1>3, <1>4 DEF HealInv

LEMMA NextHeals ==
  ASSUME MaxFailures = 0, StoreInv, HealInv, [Next]_vars
  PROVE  HealInv'
<1>0. StoreInv'
  BY NextIsStored
<1>1. ASSUME NEW r \in Retailers, Fetch(r) \/ Read(r) PROVE HealInv'
  BY <1>0, <1>1, FetchHeals, ReadHeals
<1>2. ASSUME NEW r \in Retailers, Resolve(r) PROVE HealInv'
  BY <1>0, <1>2, ResolveHeals
<1>3. ASSUME NEW r \in Retailers, Upsert(r) PROVE HealInv'
  BY <1>0, <1>3, ReadHeldHeals, CheckHeals, UpsertHeals DEF Upsert
<1>4. ASSUME NEW r \in Retailers, Quarantine(r) \/ Deliver(r) PROVE HealInv'
  BY <1>0, <1>4, LeavingHeals
<1>5. ASSUME NEW r \in Retailers, Fail(r) PROVE HealInv'
  <2>1. ~(failures < MaxFailures)
    BY DEF HealInv
  <2> QED BY <1>5, <2>1 DEF Fail, FailsBefore, Fails
<1>6. CASE Crash
  BY <1>6, CrashHeals
<1>7. CASE UNCHANGED vars
  <2>1. /\ UNCHANGED <<products, offers, spikes, pc, feed, page, refused, out, held, spiked>>
        /\ UNCHANGED <<taken, failures, suspects, rejected>>
    BY <1>7 DEF vars, stores, tables, work, bounds, history
  <2>2. Skus' = Skus /\ \A q, s : Numbers(q, s)' = Numbers(q, s) /\ Tallied(q, s)' = Tallied(q, s)
    BY <2>1 DEF Skus, SkusOf, Numbers, Tallied, Before
  <2>3. \A q, id : StreakOf(q, id)' = StreakOf(q, id)
    BY <2>1 DEF StreakOf
  <2>4. \A q \in Retailers : Resolved(q)' = Resolved(q) /\ Accepted(q)' = Accepted(q)
                             /\ \A s : Chosen(q, s)' = Chosen(q, s)
    BY <2>1, KeptItems DEF Kept
  <2>5. \A q \in Retailers, s \in Skus : Suspect(q, s)' => Suspect(q, s)
    BY <2>1, <2>4 DEF Suspect, SpikeSuspect
  <2>6. HistoryTypes' /\ SpikesAreKnown' /\ HeldIsCurrent'
    BY <2>1, <2>2, <2>4 DEF HealInv, HistoryTypes, SpikesAreKnown, HeldIsCurrent
  <2>7. StreaksAreEarned' /\ RejectionsAreCounted'
    BY <2>1, <2>2, <2>3, <2>4 DEF HealInv, StreaksAreEarned, RejectionsAreCounted
  <2>8. OverridesAreEarned'
    <3> SUFFICES ASSUME NEW q \in Retailers, pc[q] = "write", NEW s \in Accepted(q)
                 PROVE  StreakOf(q, products[s]) = 0 /\ (Suspect(q, s)' => Cardinality(Numbers(q, s)) >= 3)
      BY <2>1, <2>2, <2>3, <2>4 DEF OverridesAreEarned
    <3> QED BY <2>5, RowsAreTyped DEF HealInv, OverridesAreEarned
  <2> QED BY <2>1, <2>6, <2>7, <2>8 DEF HealInv
<1> QED BY <1>1, <1>2, <1>3, <1>4, <1>5, <1>6, <1>7 DEF Next

\* The spike check counts what it sees, once, while no statement fails.
THEOREM HealInvariant ==
  ASSUME MaxFailures = 0
  PROVE  Spec => [](StoreInv /\ HealInv)
<1>1. Init => StoreInv /\ HealInv
  BY InitIsStored, InitHeals
<1>2. StoreInv /\ HealInv /\ [Next]_vars => (StoreInv /\ HealInv)'
  BY NextIsStored, NextHeals
<1> QED BY <1>1, <1>2, PTL DEF Spec

\* The check heals itself (store.go:32-37): while no statement fails, no
\* offer has three observations in a row rejected, crashes or not.
THEOREM SpikesHeal ==
  ASSUME MaxFailures = 0
  PROVE  Spec => []SelfHeals
<1>1. StoreInv /\ HealInv => SelfHeals
  <2> SUFFICES ASSUME StoreInv, HealInv, NEW r \in Retailers, NEW s \in Skus
               PROVE  Cardinality(rejected[r][s]) < SpikeAcceptAfter
    BY DEF SelfHeals
  <2>1. Cardinality(rejected[r][s]) \in Nat /\ Cardinality({}) = 0
    BY NumbersAreFinite, FS_EmptySet
  <2>2. StreakOf(r, products[s]) \in 0..2
    BY StreaksAreShort
  <2>3. \/ rejected[r][s] = {}
        \/ Cardinality(rejected[r][s]) <= StreakOf(r, products[s])
        \/ Cardinality(rejected[r][s]) < SpikeAcceptAfter
    BY DEF HealInv, RejectionsAreCounted
  <2> QED BY <2>1, <2>2, <2>3 DEF SpikeAcceptAfter
<1> QED BY <1>1, HealInvariant, PTL

\* A price jumps only at an upsert, over the row that the check has held.
LEMMA JumpsAreEarned ==
  ASSUME MaxFailures = 0, StoreInv, HealInv, [Next]_vars
  PROVE  Jumps(All)
<1> SUFFICES ASSUME NEW o \in offers, NEW q \in offers', Jump(o, q)
             PROVE  \E s \in Skus : products[s] = o.id /\ Cardinality({x.n : x \in suspects[o.retailer][s]}) >= 3
  BY DEF Jumps, All
<1>1. o.retailer = q.retailer /\ o.id = q.id /\ SpikeSuspect(o.price, q.price)
  BY DEF Jump
<1>2. o \in OfferRow /\ o.price \in Nat /\ o.price > 0
  <2>1. o \in OfferRow
    BY DEF StoreInv, TypeOK, OfferRow
  <2>2. PriceMaxCents \in Nat /\ PriceMinCents = 1
    BY DEF PriceMaxCents, PriceMinCents
  <2> QED BY <2>1, <2>2 DEF OfferRow
<1>3. q \notin offers
  <2> SUFFICES ASSUME q \in offers PROVE FALSE
    OBVIOUS
  <2>1. o = q
    BY <1>1 DEF StoreInv, OffersCoverEvents
  <2> QED BY <1>1, <1>2, <2>1 DEF SpikeSuspect, SpikeFactor
<1>4. PICK r \in Retailers : UpsertOffers(r)
  <2>1. offers' # offers
    BY <1>3
  <2>2. ASSUME ~\E r \in Retailers : UpsertOffers(r)
        PROVE  offers' = offers
    BY <2>2 DEF Next, Fetch, Read, Resolve, LookupIds, InsertProducts, SelectIds, Upsert, ReadHeld, CheckSpikes,
                Quarantine, Deliver, Fail, FailsBefore, Crash, vars, stores, tables
  <2> QED BY <2>1, <2>2
<1>5. PICK s \in Accepted(r) : q = Row(r, s)
  BY <1>3, <1>4 DEF UpsertOffers
<1>6. /\ q.retailer = r /\ q.id = out[r][s] /\ q.price = Chosen(r, s).item.price
      /\ s \in Skus /\ out[r][s] = products[s] /\ s \in Resolved(r)
  BY <1>5, RowsAreTyped DEF Row, Accepted
<1>7. pc[r] = "write"
  BY <1>4, StatementsSucceed DEF UpsertOffers, Stages
<1>8. o \in held[r]
  BY <1>1, <1>6, <1>7 DEF HealInv, HeldIsCurrent
<1>9. Suspect(r, s)
  BY <1>1, <1>6, <1>8 DEF Suspect
<1>10. Cardinality(Numbers(r, s)) >= 3
  BY <1>5, <1>7, <1>9 DEF HealInv, OverridesAreEarned
<1> QED BY <1>1, <1>6, <1>10 DEF Numbers

\* A price jumps only after three suspect observations (README:49), while no
\* statement fails: a failed one would count an observation twice.
THEOREM JumpsFollowObservations ==
  ASSUME MaxFailures = 0
  PROVE  Spec => JumpsAreObserved
<1>1. StoreInv /\ HealInv /\ [Next]_vars => [Jumps(All)]_vars
  BY JumpsAreEarned
<1> QED BY <1>1, HealInvariant, PTL DEF Spec, JumpsAreObserved

-----------------------------------------------------------------------------
(* Row locks.                                                              *)

LockInv == LockTypeOK /\ Ascending

\* The order of the naturals, as the set of pairs that WFMin takes.
LEMMA NatWF == IsWellFoundedOn({ss \in Nat \X Nat : ss[1] < ss[2]}, Nat)
BY NatLessThanWellFounded, Zenon DEF OpToRel

\* A set of naturals below a bound has a greatest member: the bound minus
\* the least distance to it.
LEMMA GreatestMember ==
  ASSUME NEW bound \in Nat, NEW S \in SUBSET (0..bound), S # {}
  PROVE  \E x \in S : \A y \in S : y <= x
<1> DEFINE Gaps == {n \in Nat : \E x \in S : n = bound - x}
<1>1. Gaps \subseteq Nat /\ Gaps # {}
  <2>1. PICK x \in S : TRUE
    OBVIOUS
  <2>2. bound - x \in Gaps
    BY <2>1
  <2> QED BY <2>2
<1>2. PICK n \in Gaps : \A m \in Gaps : ~(<<m, n>> \in {ss \in Nat \X Nat : ss[1] < ss[2]})
  <2> HIDE DEF Gaps
  <2> QED BY <1>1, NatWF, WFMin
<1>3. PICK x \in S : n = bound - x
  BY <1>2
<1>4. ASSUME NEW y \in S PROVE y <= x
  <2>1. bound - y \in Gaps
    OBVIOUS
  <2>2. ~(bound - y < n)
    BY <1>2, <2>1
  <2> QED BY <1>3, <2>2
<1> QED BY <1>4

-----------------------------------------------------------------------------

\* What GoesOn leaves: the rest of the statement, and its least key next.
LEMMA GoesOnAscending ==
  ASSUME NEW w \in Workers, NEW rest \in SUBSET Keys, LockInv, GoesOn(w, rest)
  PROVE  /\ todo' \in [Workers -> SUBSET Keys] /\ at' \in [Workers -> Keys]
         /\ todo'[w] = rest
         /\ rest # {} => IsNext(at'[w], rest)
         /\ \A v \in Workers \ {w} : todo'[v] = todo[v] /\ at'[v] = at[v]
BY DEF LockInv, LockTypeOK, GoesOn, IsNext

\* The end of a statement frees its locks and leaves the others alone.
LEMMA EndsAscending ==
  ASSUME NEW w \in Workers, LockInv, Ends(w), table' \subseteq Keys
  PROVE  LockInv'
BY DEF LockInv, LockTypeOK, Ascending, Ends, IsNext

\* Every step keeps the locks in order.
LEMMA NextKeepsOrder ==
  ASSUME LockInv, [LockNext]_lockVars
  PROVE  LockInv'
<1>1. ASSUME NEW w \in Workers, NEW keys \in (SUBSET Keys) \ {{}}, Begin(w, keys)
      PROVE  LockInv'
  <2>1. locked[w] = {}
    BY <1>1 DEF Begin, LockInv, LockTypeOK
  <2> QED BY <1>1, <2>1, GoesOnAscending DEF Begin, LockInv, LockTypeOK, Ascending
<1>2. ASSUME NEW w \in Workers, Insert(w)
      PROVE  LockInv'
  <2> DEFINE rest == todo[w] \ {at[w]}
  <2>1. /\ rest \in SUBSET Keys /\ GoesOn(w, rest)
        /\ todo[w] \subseteq Keys /\ at[w] \in todo[w] /\ at[w] \in Keys
    BY <1>2 DEF Insert, LockInv, LockTypeOK, Ascending, IsNext
  <2>2. \A j \in rest : at[w] < j
    BY <2>1 DEF LockInv, Ascending, IsNext, Keys
  <2>3. /\ locked' \in [Workers -> SUBSET Keys]
        /\ locked'[w] \subseteq locked[w] \cup {at[w]}
        /\ \A v \in Workers \ {w} : locked'[v] = locked[v]
    BY <1>2, <2>1 DEF Insert, LockInv, LockTypeOK
  <2>4. open[w] /\ UNCHANGED <<table, open>>
    BY <1>2 DEF Insert, LockInv, LockTypeOK
  <2> HIDE DEF rest
  <2>5. todo'[w] = rest /\ rest \subseteq todo[w]
    BY <2>1, GoesOnAscending DEF rest
  <2>6. LockTypeOK'
    BY <2>1, <2>3, <2>4, GoesOnAscending DEF LockInv, LockTypeOK
  <2>7. ASSUME NEW v \in Workers, NEW k \in locked'[v], NEW j \in todo'[v]
        PROVE  k < j
    <3>1. CASE v = w
      BY <2>2, <2>3, <2>5, <3>1 DEF LockInv, Ascending
    <3>2. CASE v # w
      BY <2>1, <2>3, <3>2, GoesOnAscending DEF LockInv, Ascending
    <3> QED BY <3>1, <3>2
  <2>8. ASSUME NEW v \in Workers, todo'[v] # {}
        PROVE  IsNext(at'[v], todo'[v])
    BY <2>1, <2>8, GoesOnAscending DEF LockInv, Ascending
  <2> QED BY <2>6, <2>7, <2>8 DEF LockInv, Ascending
<1>3. ASSUME NEW w \in Workers, Commit(w) \/ Abort(w)
      PROVE  LockInv'
  <2>1. table' \subseteq Keys
    BY <1>3 DEF Commit, Abort, LockInv, LockTypeOK
  <2> QED BY <1>3, <2>1, EndsAscending DEF Commit, Abort
<1>4. CASE UNCHANGED lockVars
  BY <1>4 DEF lockVars, LockInv, LockTypeOK, Ascending
<1> QED BY <1>1, <1>2, <1>3, <1>4 DEF LockNext

\* Initially nothing is locked.
LEMMA InitIsOrdered == LockInit => LockInv
BY KeysAssumption DEF LockInit, LockInv, LockTypeOK, Ascending, Keys

\* Locks are always taken in order.
THEOREM LocksAscend == LockSpec => []LockInv
BY InitIsOrdered, NextKeepsOrder, PTL DEF LockSpec

\* Locks taken in order leave no circular wait.
LEMMA OrderPreventsCircles == LockInv => NoDeadlock
<1> SUFFICES ASSUME LockInv, NEW group \in (SUBSET Workers) \ {{}},
                    \A w \in group : \E v \in group : Waits(w, v)
             PROVE  FALSE
  BY DEF NoDeadlock
<1> DEFINE Wanted == {at[w] : w \in group}
<1>1. Wanted \in SUBSET (0..MaxKey) /\ Wanted # {}
  BY DEF LockInv, LockTypeOK, Keys
<1>2. PICK w \in group : \A u \in group : at[u] <= at[w]
  <2>1. PICK k \in Wanted : \A j \in Wanted : j <= k
    <3> HIDE DEF Wanted
    <3> QED BY <1>1, GreatestMember, KeysAssumption
  <2> QED BY <2>1
<1>3. PICK v \in group : Waits(w, v)
  OBVIOUS
<1>4. PICK u \in group : Waits(v, u)
  OBVIOUS
<1>5. at[w] \in locked[v] /\ at[v] \in todo[v]
  BY <1>3, <1>4 DEF Waits, LockInv, Ascending, IsNext
<1>6. at[w] < at[v]
  BY <1>5 DEF LockInv, Ascending
<1>7. at[w] \in Nat /\ at[v] \in Nat
  BY DEF LockInv, LockTypeOK, Keys
<1> QED BY <1>2, <1>6, <1>7

\* Inserts in sorted order never deadlock, whatever the workers insert
\* concurrently and whichever statements fail (store.go:154-155, :220).
THEOREM SortedInsertsNeverDeadlock == LockSpec => []NoDeadlock
<1>1. LockInv => NoDeadlock
  BY OrderPreventsCircles
<1> QED BY <1>1, LocksAscend, PTL
=============================================================================
