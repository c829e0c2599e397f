-------------------------- MODULE StorefrontProofs --------------------------
(***************************************************************************)
(* Proofs about the api.                                                   *)
(*                                                                         *)
(* About Storefront, for any tables, rules, queries and limits: an outage  *)
(* is a 500 and the points of a history have names (FrontInv); a deal      *)
(* undercuts the others, because its own price can only pull the median    *)
(* down (MedianOfTheOthers); a search that is not marked has lost no match *)
(* (FewHitsAreAll); and a collection shows the cheapest products, and all  *)
(* of them unless a limit was hit (CountInv: between its two statements,   *)
(* the items are those of the walk).  FirstAreCheapest says what ORDER BY  *)
(* and LIMIT return.                                                       *)
(*                                                                         *)
(* About ConnPool, for any requests and any pool with more connections     *)
(* than there are collections: if every connection were held by a load     *)
(* waiting for its second, connection -> holder -> slug would be an        *)
(* injection of the connections into the collections.                      *)
(*                                                                         *)
(* The two specifications share no variable and no definition.             *)
(***************************************************************************)
EXTENDS Storefront, ConnPool, NaturalsInduction, WellFoundedInduction, FiniteSetTheorems, TLAPS

-----------------------------------------------------------------------------
(* The invariant: requests keep to their statements, only a history goes   *)
(* on after its rows broke off, and what has a price history is of a       *)
(* retailer that has a name.                                               *)

Price == [cents : Nat, stock : BOOLEAN]

Rows ==
  /\ offers \in [Products -> [Retailers -> Price]]
  /\ products \subseteq Products
  /\ \A p \in Products : Listed(offers, p) \subseteq shops
  /\ \A d \in daily : d[2] \in shops

\* The statements of a history are those of no other request.
Places == pc \in {"points", "names"} <=> pc # "idle" /\ req.kind = "history"

Underway ==
  /\ broken \in BOOLEAN
  /\ pc # "idle" => answer = NoAnswer
  /\ pc # "idle" /\ broken => req.kind = "history"
  /\ pc = "names" => rows \subseteq shops

FrontInv == Rows /\ Places /\ Underway /\ OutageIsA500 /\ PointsAreNamed

-----------------------------------------------------------------------------
(* The steps.                                                              *)

\* A statement that replies ends its request; one that does not goes on
\* with another of the same request.
LEMMA RepliesKeep ==
  ASSUME FrontInv, NEW from, from \notin {"idle", "points", "names"}, NEW a,
         Reply(from, a), broken' = broken
  PROVE  FrontInv'
<1>1. Rows' /\ Places' /\ Underway'
  BY DEF FrontInv, Rows, Places, Underway, Reply, tables
<1>2. OutageIsA500' /\ PointsAreNamed'
  BY DEF FrontInv, Places, Underway, OutageIsA500, PointsAreNamed, Reply, NoAnswer
<1> QED BY <1>1, <1>2 DEF FrontInv

\* A statement that goes on with another of its request.
LEMMA GoingOnKeeps ==
  ASSUME FrontInv, NEW from, NEW to, NEW got, Goto(from, to, got), broken' = broken,
         from \notin {"idle", "points", "names"}, to \notin {"idle", "points", "names"}
  PROVE  FrontInv'
BY DEF FrontInv, Rows, Places, Underway, OutageIsA500, PointsAreNamed, Goto, tables

\* What ingestd writes.
LEMMA WritesKeep ==
  ASSUME FrontInv, Ingest
  PROVE  FrontInv'
<1>1. ASSUME NEW p \in Products, Create(p)
      PROVE  FrontInv'
  BY <1>1 DEF Create, request, FrontInv, Rows, Places, Underway, OutageIsA500, PointsAreNamed, Listed
<1>2. ASSUME NEW p \in Products, NEW r \in Retailers, Upsert(p, r)
      PROVE  FrontInv'
  <2>1. PICK cents \in Nat, stock \in BOOLEAN :
          offers' = [offers EXCEPT ![p][r] = [cents |-> cents, stock |-> stock]]
    BY <1>2, StorefrontAssumption DEF Upsert
  <2>2. Rows'
    BY <1>2, <2>1 DEF Upsert, FrontInv, Rows, Price, Listed
  <2>3. Places' /\ Underway' /\ OutageIsA500' /\ PointsAreNamed'
    BY <1>2 DEF Upsert, request, FrontInv, Places, Underway, OutageIsA500, PointsAreNamed
  <2> QED BY <2>2, <2>3 DEF FrontInv
<1>3. ASSUME NEW p \in Products, NEW r \in Retailers, Observe(p, r)
      PROVE  FrontInv'
  BY <1>3 DEF Observe, request, FrontInv, Rows, Places, Underway, OutageIsA500, PointsAreNamed, Listed
<1>4. ASSUME NEW r \in Retailers, EnsureRetailer(r)
      PROVE  FrontInv'
  BY <1>4 DEF EnsureRetailer, request, FrontInv, Rows, Places, Underway, OutageIsA500, PointsAreNamed, Listed
<1> QED BY <1>1, <1>2, <1>3, <1>4 DEF Ingest

\* A new request, or a new refresh.
LEMMA BeginningsKeep ==
  ASSUME FrontInv, Ask \/ Refresh
  PROVE  FrontInv'
<1>1. CASE Refresh
  BY <1>1 DEF Refresh, tables, FrontInv, Rows, Places, Underway, OutageIsA500, PointsAreNamed, NoAnswer
<1>2. CASE Ask
  <2>1. req'.kind \in {"collection", "search", "product", "history", "deals"}
    BY <1>2 DEF Ask, Requests
  <2>2. pc' = FirstStatement(req') /\ answer' = NoAnswer /\ broken' = FALSE
    BY <1>2 DEF Ask
  <2>3. pc' # "idle" /\ (pc' \in {"points", "names"} <=> req'.kind = "history") /\ pc' # "names"
    BY <2>1, <2>2 DEF FirstStatement, HistoryOrder
  <2>4. Rows'
    BY <1>2 DEF Ask, tables, FrontInv, Rows, Listed
  <2>5. Places' /\ Underway'
    BY <2>2, <2>3 DEF Places, Underway
  <2>6. OutageIsA500' /\ PointsAreNamed'
    BY <2>2 DEF OutageIsA500, PointsAreNamed, NoAnswer
  <2> QED BY <2>4, <2>5, <2>6 DEF FrontInv
<1> QED BY <1>1, <1>2

\* The statements of a collection.
LEMMA CollectionsKeep ==
  ASSUME FrontInv, Rule \/ Walk \/ Count
  PROVE  FrontInv'
<1>1. CASE Rule
  <2>1. Reply("rules", [status |-> 404]) \/ Goto("rules", "walk", {})
    BY <1>1 DEF Rule, NotFound
  <2>2. broken' = broken
    BY <1>1 DEF Rule, NotFound, Plain
  <2> QED BY <2>1, <2>2, RepliesKeep, GoingOnKeeps
<1>2. CASE Walk
  <2>1. Reply("walk", [status |-> 200, items |-> {}]) \/ \E items : Goto("walk", "count", items)
    BY <1>2 DEF Walk
  <2>2. broken' = broken
    BY <1>2 DEF Walk
  <2> QED BY <2>1, <2>2, RepliesKeep, GoingOnKeeps
<1>3. CASE Count
  <2>1. \E items : Reply("count", [status |-> 200, items |-> items])
    BY <1>3 DEF Count
  <2>2. broken' = broken
    BY <1>3 DEF Count, Plain
  <2> QED BY <2>1, <2>2, RepliesKeep
<1> QED BY <1>1, <1>2, <1>3

\* A search, and the statements of a product.
LEMMA LookupsKeep ==
  ASSUME FrontInv, Search \/ Product \/ Offers
  PROVE  FrontInv'
<1>1. CASE Search
  <2>1. \E page, cut : Reply("search", [status |-> 200, page |-> page, truncated |-> cut])
    BY <1>1 DEF Search
  <2>2. broken' = broken
    BY <1>1 DEF Search, Plain
  <2> QED BY <2>1, <2>2, RepliesKeep
<1>2. CASE Product
  <2>1. Reply("product", [status |-> 404]) \/ Goto("product", "offers", {})
    BY <1>2 DEF Product, NotFound
  <2>2. broken' = broken
    BY <1>2 DEF Product, NotFound, Plain
  <2> QED BY <2>1, <2>2, RepliesKeep, GoingOnKeeps
<1>3. CASE Offers
  <2>1. PICK got : Reply("offers", [status |-> 200, offers |-> got]) /\ broken' = (broken \/ FALSE)
    BY <1>3 DEF Offers, Read, Unchecked, Ends
  <2>2. broken' = broken
    BY <2>1 DEF FrontInv, Underway
  <2> QED BY <2>1, <2>2, RepliesKeep
<1> QED BY <1>1, <1>2, <1>3

\* The statements of a history.
LEMMA HistoriesKeep ==
  ASSUME FrontInv, Points \/ RetailerNames
  PROVE  FrontInv'
<1>1. CASE Points
  <2>1. PICK got \in SUBSET {r \in Retailers : <<req.product, r>> \in daily} : Goto("points", "names", got)
    BY <1>1 DEF Points, Read, Unchecked, Onward, HistoryOrder
  <2>2. got \subseteq shops
    BY DEF FrontInv, Rows
  <2>3. broken' \in BOOLEAN
    BY <1>1 DEF Points, Ends
  <2>4. Rows' /\ Places'
    BY <2>1 DEF Goto, tables, FrontInv, Rows, Places
  <2>5. Underway' /\ OutageIsA500' /\ PointsAreNamed'
    BY <2>1, <2>2, <2>3 DEF Goto, tables, FrontInv, Places, Underway, OutageIsA500, PointsAreNamed, NoAnswer
  <2> QED BY <2>4, <2>5 DEF FrontInv
<1>2. CASE RetailerNames
  <2>1. Reply("names", Named(rows, names'[1], names = <<>>)) /\ broken' = broken
    BY <1>2 DEF RetailerNames, Onward, HistoryOrder
  <2>2. names = <<>> => names'[1] = shops
    BY <1>2 DEF RetailerNames
  <2>3. req.kind = "history" /\ rows \subseteq shops
    BY <2>1 DEF Reply, FrontInv, Places, Underway
  <2>4. PointsAreNamed'
    BY <2>1, <2>2, <2>3 DEF Reply, Named, PointsAreNamed
  <2> QED BY <2>1, <2>3, <2>4 DEF Reply, tables, FrontInv, Rows, Places, Underway, OutageIsA500
<1> QED BY <1>1, <1>2

\* The statements of the deals.
LEMMA DealsKeep ==
  ASSUME FrontInv, QueryDeals \/ SetDeals \/ Deals
  PROVE  FrontInv'
<1>1. CASE QueryDeals
  <2>1. \E list : Goto("query", "set", list)
    BY <1>1 DEF QueryDeals
  <2>2. broken' = broken
    BY <1>1 DEF QueryDeals, Plain
  <2> QED BY <2>1, <2>2, GoingOnKeeps
<1>2. CASE SetDeals
  BY <1>2, RepliesKeep DEF SetDeals
<1>3. CASE Deals
  <2>1. Reply("deals", [status |-> 200]) \/ Reply("deals", [status |-> 503])
    BY <1>3 DEF Deals
  <2>2. broken' = broken
    BY <1>3 DEF Deals, Plain
  <2> QED BY <2>1, <2>2, RepliesKeep
<1> QED BY <1>1, <1>2, <1>3

\* Every step keeps the invariant.
LEMMA NextKeepsFront ==
  ASSUME FrontInv, [Next]_vars
  PROVE  FrontInv'
<1>1. CASE Fails
  <2>1. PICK status \in {500, 503} : Reply(pc, [status |-> status]) /\ pc # "idle"
    BY <1>1 DEF Fails
  <2>2. broken' = TRUE
    BY <1>1 DEF Fails
  <2>3. Rows' /\ Places' /\ Underway'
    BY <2>1, <2>2 DEF Reply, tables, FrontInv, Rows, Places, Underway
  <2>4. OutageIsA500' /\ PointsAreNamed'
    BY <2>1 DEF Reply, OutageIsA500, PointsAreNamed
  <2> QED BY <2>3, <2>4 DEF FrontInv
<1>2. CASE Expire \/ Evict
  BY <1>2 DEF Expire, Evict, tables, request, FrontInv, Rows, Places, Underway, OutageIsA500, PointsAreNamed
<1>3. CASE UNCHANGED vars
  BY <1>3 DEF vars, tables, request, FrontInv, Rows, Places, Underway, OutageIsA500, PointsAreNamed
<1>4. CASE Handle \/ RefreshDeals
  BY <1>4, CollectionsKeep, LookupsKeep, HistoriesKeep, DealsKeep DEF Handle, RefreshDeals
<1> QED BY <1>1, <1>2, <1>3, <1>4, WritesKeep, BeginningsKeep DEF Next

\* Initially no request is under way.
LEMMA InitIsFront == Init => FrontInv
<1> SUFFICES ASSUME Init PROVE FrontInv
  OBVIOUS
<1>1. offers \in [Products -> [Retailers -> Price]]
  BY StorefrontAssumption DEF Init, Products, Price
<1>2. ASSUME NEW p \in Products, NEW r \in Listed(offers, p)
      PROVE  r \in shops
  <2>1. <<p, r>> \in daily
    BY <1>2 DEF Init, Listed
  <2> QED BY <2>1 DEF Init
<1>3. Rows
  BY <1>1, <1>2 DEF Init, Rows
<1> QED BY <1>3 DEF Init, FrontInv, Places, Underway, OutageIsA500, PointsAreNamed, NoAnswer

\* The invariant, for any tables, rules and queries.
THEOREM FrontInvariant == Spec => []FrontInv
BY InitIsFront, NextKeepsFront, PTL DEF Spec

\* "A database outage must surface as one" (products.go:65-67): a request
\* with a failed statement, or with rows that broke off, is never answered
\* as a success or as a missing product.
THEOREM OutagesAre500s == Spec => []OutageIsA500
<1>1. FrontInv => OutageIsA500
  BY DEF FrontInv
<1> QED BY <1>1, FrontInvariant, PTL

\* The points come before the names (products.go:113-126), so a history that
\* loads the names names them all, whichever retailers appear meanwhile.
THEOREM EveryPointIsNamed == Spec => []PointsAreNamed
<1>1. FrontInv => PointsAreNamed
  BY DEF FrontInv
<1> QED BY <1>1, FrontInvariant, PTL

-----------------------------------------------------------------------------
(* Least elements and medians.                                             *)

\* A set of naturals has a least element, and Min is it.
LEMMA MinIsLeast ==
  ASSUME NEW S \in SUBSET Nat, S # {}
  PROVE  Min(S) \in S /\ \A y \in S : Min(S) <= y
<1>1. IsWellFoundedOn({ss \in Nat \X Nat : ss[1] < ss[2]}, Nat)
  BY NatLessThanWellFounded, Zenon DEF OpToRel
<1>2. PICK x \in S : \A y \in S : ~(<<y, x>> \in {ss \in Nat \X Nat : ss[1] < ss[2]})
  BY <1>1, WFMin
<1>3. \E m \in S : \A y \in S : m <= y
  <2>1. ASSUME NEW y \in S PROVE x <= y
    <3>1. x \in Nat /\ y \in Nat
      OBVIOUS
    <3>2. ~(y < x)
      BY <1>2, <3>1
    <3> QED BY <3>1, <3>2
  <2> QED BY <2>1
<1> QED BY <1>3, Zenon DEF Min

\* Fewer elements, a greater least one.
LEMMA MinOfSubset ==
  ASSUME NEW S \in SUBSET Nat, NEW T \in SUBSET S, T # {}
  PROVE  Min(S) \in Nat /\ Min(T) \in Nat /\ Min(S) <= Min(T)
<1>1. Min(S) \in S /\ \A y \in S : Min(S) <= y
  BY MinIsLeast
<1>2. Min(T) \in T
  BY MinIsLeast
<1> QED BY <1>1, <1>2

\* Median2, as a function of the prices: who is not dearer than r, and the
\* prices from rank k on.
RankOf(f, rs, r) == {q \in rs : f[q].cents <= f[r].cents}
From(f, rs, k) == {f[r].cents : r \in {q \in rs : Cardinality(RankOf(f, rs, q)) >= k}}

\* Median2 adds two of those.
LEMMA MedianOfRanks ==
  ASSUME NEW t, NEW p, NEW rs
  PROVE  Median2(t, p, rs) = Min(From(t[p], rs, (Cardinality(rs) + 1) \div 2)) +
                             Min(From(t[p], rs, Cardinality(rs) \div 2 + 1))
BY Zenon DEF Median2, From, RankOf

\* The dearest has the greatest rank.
LEMMA RanksReachTheTop ==
  ASSUME NEW rs, IsFiniteSet(rs), rs # {}, NEW f, \A r \in rs : f[r].cents \in Nat
  PROVE  \E r \in rs : RankOf(f, rs, r) = rs
<1> DEFINE Above(r) == rs \ RankOf(f, rs, r)
           Sizes == {Cardinality(Above(r)) : r \in rs}
<1>1. \A r \in rs : IsFiniteSet(Above(r)) /\ Cardinality(Above(r)) \in Nat
  BY FS_Subset, FS_CardinalityType
<1>2. Sizes \in SUBSET Nat /\ Sizes # {}
  BY <1>1
<1>3. PICK top \in rs : \A r \in rs : Cardinality(Above(top)) <= Cardinality(Above(r))
  <2>1. Min(Sizes) \in Sizes /\ \A n \in Sizes : Min(Sizes) <= n
    <3> HIDE DEF Sizes
    <3> QED BY <1>2, MinIsLeast
  <2>2. PICK top \in rs : Min(Sizes) = Cardinality(Above(top))
    BY <2>1
  <2> QED BY <2>1, <2>2
<1>4. ASSUME NEW q \in Above(top) PROVE FALSE
  <2>1. q \in rs /\ f[top].cents < f[q].cents
    BY DEF RankOf
  <2>2. Above(q) \in SUBSET Above(top) /\ q \notin Above(q)
    BY <2>1 DEF RankOf
  <2>3. Cardinality(Above(q)) <= Cardinality(Above(top)) /\ Cardinality(Above(q)) # Cardinality(Above(top))
    <3> HIDE DEF Above
    <3> QED BY <1>1, <2>2, FS_Subset
  <2> HIDE DEF Above
  <2> QED BY <1>1, <1>3, <2>1, <2>3
<1> QED BY <1>4 DEF RankOf

\* Without the cheapest, every rank has a price that is no lower.
LEMMA RanksWithoutTheCheapest ==
  ASSUME NEW rs, IsFiniteSet(rs), NEW f, \A r \in rs : f[r].cents \in Nat,
         NEW low \in rs, \A r \in rs : f[low].cents <= f[r].cents,
         NEW k \in Nat \ {0}, NEW j \in Nat, j <= k + 1, k < Cardinality(rs)
  PROVE  /\ Min(From(f, rs, j)) \in Nat /\ Min(From(f, rs \ {low}, k)) \in Nat
         /\ Min(From(f, rs, j)) <= Min(From(f, rs \ {low}, k))
<1> DEFINE rest == rs \ {low}
<1>1. IsFiniteSet(rest) /\ Cardinality(rest) = Cardinality(rs) - 1 /\ Cardinality(rs) \in Nat
  BY FS_RemoveElement, FS_CardinalityType
<1>2. ASSUME NEW r \in rest
      PROVE  /\ Cardinality(RankOf(f, rs, r)) \in Nat
             /\ Cardinality(RankOf(f, rest, r)) = Cardinality(RankOf(f, rs, r)) - 1
  <2>1. RankOf(f, rest, r) = RankOf(f, rs, r) \ {low} /\ low \in RankOf(f, rs, r)
    BY DEF RankOf
  <2>2. IsFiniteSet(RankOf(f, rs, r))
    BY FS_Subset DEF RankOf
  <2> QED BY <2>1, <2>2, FS_RemoveElement, FS_CardinalityType, ZenonT(40)
<1>3. From(f, rest, k) \subseteq From(f, rs, j)
  BY <1>2, SMTT(20) DEF From
<1>4. From(f, rs, j) \subseteq Nat
  BY DEF From
<1>5. From(f, rest, k) # {}
  <2>1. CASE rest = {}
    BY <1>1, <2>1, FS_EmptySet
  <2>2. CASE rest # {}
    <3>1. PICK r \in rest : RankOf(f, rest, r) = rest
      <4>1. \A r \in rest : f[r].cents \in Nat
        OBVIOUS
      <4> HIDE DEF rest
      <4> QED BY <1>1, <2>2, <4>1, RanksReachTheTop
    <3>2. Cardinality(RankOf(f, rest, r)) >= k
      <4> HIDE DEF rest
      <4> QED BY <1>1, <3>1
    <3> HIDE DEF rest
    <3> QED BY <3>1, <3>2 DEF From
  <2> QED BY <2>1, <2>2
<1> HIDE DEF rest
<1>6. QED
  BY <1>3, <1>4, <1>5, MinOfSubset DEF rest

\* The median of the others is no lower than the median of all.
LEMMA MedianOfTheOthers ==
  ASSUME NEW rs, IsFiniteSet(rs), Cardinality(rs) >= 2,
         NEW t, NEW p, \A r \in rs : t[p][r].cents \in Nat,
         NEW low \in rs, \A r \in rs : t[p][low].cents <= t[p][r].cents
  PROVE  /\ Median2(t, p, rs) \in Nat /\ Median2(t, p, rs \ {low}) \in Nat
         /\ Median2(t, p, rs) <= Median2(t, p, rs \ {low})
<1> DEFINE n == Cardinality(rs)
           f == t[p]
           Of(j) == Min(From(f, rs, j))
           Other(k) == Min(From(f, rs \ {low}, k))
<1>1. n \in Nat /\ n >= 2 /\ Cardinality(rs \ {low}) = n - 1
  BY FS_RemoveElement, FS_CardinalityType
<1>2. ASSUME NEW k \in Nat \ {0}, NEW j \in Nat, j <= k + 1, k < n
      PROVE  Of(j) \in Nat /\ Other(k) \in Nat /\ Of(j) <= Other(k)
  BY <1>2, RanksWithoutTheCheapest
<1>3. Median2(t, p, rs) = Of((n + 1) \div 2) + Of(n \div 2 + 1)
  BY MedianOfRanks
<1>4. Median2(t, p, rs \ {low}) = Other((n - 1 + 1) \div 2) + Other((n - 1) \div 2 + 1)
  BY <1>1, MedianOfRanks
<1> HIDE DEF n, Of, Other
<1>5. n - 1 + 1 = n
  BY <1>1
<1>6. /\ n \div 2 \in Nat \ {0} /\ (n + 1) \div 2 \in Nat /\ (n + 1) \div 2 <= n \div 2 + 1 /\ n \div 2 < n
      /\ (n - 1) \div 2 + 1 \in Nat \ {0} /\ n \div 2 + 1 \in Nat
      /\ n \div 2 + 1 <= ((n - 1) \div 2 + 1) + 1 /\ (n - 1) \div 2 + 1 < n
  BY <1>1
<1>7. /\ Of((n + 1) \div 2) \in Nat /\ Other(n \div 2) \in Nat
      /\ Of((n + 1) \div 2) <= Other(n \div 2)
  BY <1>2, <1>6
<1>8. /\ Of(n \div 2 + 1) \in Nat /\ Other((n - 1) \div 2 + 1) \in Nat
      /\ Of(n \div 2 + 1) <= Other((n - 1) \div 2 + 1)
  BY <1>2, <1>6
<1> QED BY <1>3, <1>4, <1>5, <1>7, <1>8

\* A list of the first rows is a part of the rows.
LEMMA DealsAreSpreads ==
  ASSUME QueryDeals, NEW d \in rows'
  PROVE  d \in Spreads /\ Undercuts(d.best, d.median2)
BY Zenon DEF QueryDeals, First, kSubset, Goto

\* Only the query of a refresh finds deals.
LEMMA OnlyQueryDeals ==
  ASSUME [Next]_vars, pc = "query", pc' = "set"
  PROVE  QueryDeals
<1>1. ~Ask /\ ~Refresh /\ ~Fails /\ ~Expire /\ ~Evict /\ ~UNCHANGED vars
  BY DEF Ask, Refresh, Fails, Reply, Expire, Evict, vars, request
<1>2. ~Ingest
  BY DEF Ingest, Create, Upsert, Observe, EnsureRetailer, request
<1>3. ~Rule /\ ~Count /\ ~Product /\ ~Deals /\ ~SetDeals /\ ~Offers /\ ~Points /\ ~RetailerNames
  BY DEF Rule, Count, Product, Deals, SetDeals, Offers, Points, RetailerNames, Reply, Onward, HistoryOrder, Goto
<1>4. ~Walk /\ ~Search
  BY DEF Walk, Search
<1> QED BY <1>1, <1>2, <1>3, <1>4 DEF Next, Handle, RefreshDeals

\* A deal is 15 % below the median of the others (deals.go:13-15): its own
\* price can only pull the median of the query down.
THEOREM DealsUndercutTheOthers == Spec => DealsAreDislocations
<1>1. ASSUME FrontInv, QueryDeals, NEW d \in rows'
      PROVE  \E r \in InStock(offers, d.product) :
               /\ offers[d.product][r].cents = d.best
               /\ Undercuts(d.best, Median2(offers, d.product, InStock(offers, d.product) \ {r}))
  <2> DEFINE p == d.product
             rs == InStock(offers, p)
             prices == {offers[p][r].cents : r \in rs}
  <2>1. d \in Spreads /\ Undercuts(d.best, d.median2)
    BY <1>1, DealsAreSpreads
  <2>2. /\ p \in products /\ Cardinality(rs) >= 3
        /\ d.best = Min(prices) /\ d.median2 = Median2(offers, p, rs)
    <3>1. PICK q \in {x \in products : Cardinality(Spread(x)) >= 3} :
            d = [product |-> q, best |-> Min({offers[q][r].cents : r \in Spread(q)}),
                 median2 |-> Median2(offers, q, Spread(q))]
      BY <2>1, Zenon DEF Spreads
    <3>2. d.product = q /\ d.best = Min({offers[q][r].cents : r \in Spread(q)}) /\ d.median2 = Median2(offers, q, Spread(q))
      BY <3>1
    <3> QED BY <3>1, <3>2 DEF Spread
  <2>3. \A r \in Retailers : offers[p][r].cents \in Nat
    BY <1>1, <2>2 DEF FrontInv, Rows, Price
  <2>4. IsFiniteSet(rs) /\ rs \subseteq Retailers
    <3>1. rs \in SUBSET Retailers
      BY DEF InStock
    <3> HIDE DEF rs
    <3> QED BY <3>1, StorefrontAssumption, FS_Subset
  <2>5. Cardinality(rs) \in Nat /\ rs # {}
    BY <2>2, <2>4, FS_CardinalityType, FS_EmptySet
  <2> HIDE DEF p, rs
  <2>6. prices \in SUBSET Nat /\ prices # {}
    BY <2>3, <2>4, <2>5
  <2>7. Min(prices) \in prices /\ \A y \in prices : Min(prices) <= y
    <3> HIDE DEF prices
    <3> QED BY <2>6, MinIsLeast
  <2>8. PICK low \in rs : offers[p][low].cents = d.best /\ \A r \in rs : offers[p][low].cents <= offers[p][r].cents
    BY <2>2, <2>7
  <2>9. /\ Median2(offers, p, rs) \in Nat /\ Median2(offers, p, rs \ {low}) \in Nat
        /\ Median2(offers, p, rs) <= Median2(offers, p, rs \ {low})
    <3>1. Cardinality(rs) >= 2 /\ \A r \in rs : offers[p][r].cents \in Nat
      BY <2>2, <2>3, <2>4, <2>5
    <3> QED BY <2>4, <2>8, <3>1, MedianOfTheOthers
  <2>10. d.best \in Nat
    BY <2>3, <2>4, <2>8
  <2>11. Undercuts(d.best, Median2(offers, p, rs \ {low}))
    BY <2>1, <2>2, <2>9, <2>10 DEF Undercuts
  <2> QED BY <2>8, <2>11 DEF p, rs
<1>2. ASSUME FrontInv, [Next]_vars
      PROVE  [pc = "query" /\ pc' = "set" => \A d \in rows' : \E r \in InStock(offers, d.product) :
                /\ offers[d.product][r].cents = d.best
                /\ Undercuts(d.best, Median2(offers, d.product, InStock(offers, d.product) \ {r}))]_vars
  BY <1>1, <1>2, OnlyQueryDeals
<1> QED BY <1>2, FrontInvariant, PTL DEF Spec, DealsAreDislocations

-----------------------------------------------------------------------------
(* What a request asks stays what it was.                                  *)

Asked ==
  /\ pc = "search" => req.query \in Queries
  /\ pc = "rules" => req.rule \in Rules \cup {Unlisted}
  /\ pc \in {"walk", "count"} => req.rule \in Rules

\* The only steps that change what is asked, or what is done next.
LEMMA StepsOfARequest ==
  ASSUME [Next]_vars
  PROVE  \/ UNCHANGED request
         \/ Ask
         \/ Walk /\ pc = "walk" /\ pc' = "count" /\ UNCHANGED req
         \/ pc = "rules" /\ pc' = "walk" /\ req.rule # Unlisted /\ UNCHANGED req
         \/ pc' \notin {"search", "rules", "walk", "count"}
<1>1. CASE Ingest \/ Expire \/ Evict \/ UNCHANGED vars
  BY <1>1 DEF Ingest, Create, Upsert, Observe, EnsureRetailer, Expire, Evict, vars, request
<1>2. CASE Refresh \/ Fails
  BY <1>2 DEF Refresh, Fails, Reply
<1>3. CASE Rule
  BY <1>3 DEF Rule, NotFound, Reply, Goto
<1>4. CASE Walk
  <2>1. Reply("walk", [status |-> 200, items |-> {}]) \/ \E items : Goto("walk", "count", items)
    BY <1>4 DEF Walk
  <2> QED BY <1>4, <2>1 DEF Reply, Goto
<1>5. CASE Count
  <2>1. \E items : Reply("count", [status |-> 200, items |-> items])
    BY <1>5 DEF Count
  <2> QED BY <2>1 DEF Reply
<1>6. CASE Search
  <2>1. \E page, cut : Reply("search", [status |-> 200, page |-> page, truncated |-> cut])
    BY <1>6 DEF Search
  <2> QED BY <2>1 DEF Reply
<1>7. CASE Product \/ Offers \/ Points \/ RetailerNames
  BY <1>7 DEF Product, NotFound, Offers, Points, RetailerNames, Onward, HistoryOrder, Reply, Goto
<1>8. CASE QueryDeals
  <2>1. \E list : Goto("query", "set", list)
    BY <1>8 DEF QueryDeals
  <2> QED BY <2>1 DEF Goto
<1>9. CASE SetDeals \/ Deals
  BY <1>9 DEF SetDeals, Deals, Reply
<1> QED BY <1>1, <1>2, <1>3, <1>4, <1>5, <1>6, <1>7, <1>8, <1>9 DEF Next, Handle, RefreshDeals

\* What a statement reads was asked: a query of Queries, a rule of Rules.
LEMMA NextKeepsAsked ==
  ASSUME Asked, [Next]_vars
  PROVE  Asked'
<1>1. CASE Ask
  <2>1. req' \in Requests /\ pc' = FirstStatement(req')
    BY <1>1 DEF Ask
  <2>2. CASE req' \in [kind : {"collection"}, rule : Rules \cup {Unlisted}]
    BY <2>1, <2>2 DEF FirstStatement, Asked
  <2>3. CASE req' \in [kind : {"search"}, query : Queries]
    BY <2>1, <2>3 DEF FirstStatement, Asked
  <2>4. CASE req' \in [kind : {"product", "history"}, product : Products]
    BY <2>1, <2>4 DEF FirstStatement, HistoryOrder, Asked
  <2>5. CASE req' = [kind |-> "deals"]
    BY <2>1, <2>5 DEF FirstStatement, Asked
  <2> QED BY <2>1, <2>2, <2>3, <2>4, <2>5 DEF Requests
<1>2. CASE ~Ask
  BY <1>2, StepsOfARequest DEF Asked, request
<1> QED BY <1>1, <1>2

\* Every statement works on what the request asked (the handlers keep their
\* parameters in local variables).
THEOREM RequestsAreKept == Spec => []Asked
<1>1. Init => Asked
  BY DEF Init, Asked
<1> QED BY <1>1, NextKeepsAsked, PTL DEF Spec

-----------------------------------------------------------------------------
(* Searches.                                                               *)

\* Unless there are exactly as many hits as the query can return, they are
\* all the matches.
LEMMA FewHitsAreAll ==
  ASSUME NEW query \in Queries, Cardinality(Hits(query)) # CandidateCap
  PROVE  Hits(query) = query.matches \cap products
<1> DEFINE found == query.matches \cap products
           hits == Hits(query)
           rank == query.rank
           Below(p) == {q \in found : rank[q] < rank[p]}
<1> SUFFICES ASSUME hits # found PROVE Cardinality(hits) = CandidateCap
  OBVIOUS
<1>1. hits = {p \in found : Cardinality(Below(p)) < CandidateCap}
  BY DEF Hits
<1>2. IsFiniteSet(found) /\ \A p \in found : rank[p] \in Nat
  BY StorefrontAssumption, FS_Subset
<1>3. \A p, s \in found : rank[p] = rank[s] => p = s
  BY StorefrontAssumption
<1>4. \A p \in found : IsFiniteSet(Below(p)) /\ Cardinality(Below(p)) \in Nat
  <2> HIDE DEF found, rank
  <2> QED BY <1>2, FS_Subset, FS_CardinalityType
<1>5. CandidateCap \in Nat \ {0}
  BY StorefrontAssumption
<1> HIDE DEF found, hits, rank
<1>6. IsFiniteSet(hits) /\ hits \subseteq found /\ Cardinality(hits) \in Nat
  BY <1>1, <1>2, FS_Subset, FS_CardinalityType
\* The first match that is left out has all the hits below it ...
<1>7. PICK out \in found \ hits : \A p \in found \ hits : rank[out] <= rank[p]
  <2> DEFINE Ranks == {rank[p] : p \in found \ hits}
  <2>1. Ranks \in SUBSET Nat /\ Ranks # {}
    BY <1>2, <1>6
  <2>2. Min(Ranks) \in Ranks /\ \A n \in Ranks : Min(Ranks) <= n
    <3> HIDE DEF Ranks
    <3> QED BY <2>1, MinIsLeast
  <2>3. PICK p \in found \ hits : Min(Ranks) = rank[p]
    BY <2>2
  <2> QED BY <2>2, <2>3
<1>8. Below(out) \subseteq hits
  BY <1>2, <1>7
<1>9. Cardinality(hits) >= CandidateCap
  <2>1. Cardinality(Below(out)) >= CandidateCap
    BY <1>1, <1>4, <1>5, <1>7
  <2>2. Cardinality(Below(out)) <= Cardinality(hits)
    BY <1>6, <1>8, FS_Subset
  <2> QED BY <1>4, <1>5, <1>6, <1>7, <2>1, <2>2
\* ... and the last hit has all the others below it.
<1>10. PICK last \in hits : \A p \in hits : rank[p] <= rank[last]
  <2> DEFINE f == [p \in hits |-> [cents |-> rank[p]]]
  <2>1. hits # {} /\ \A p \in hits : f[p].cents \in Nat
    BY <1>2, <1>5, <1>6, <1>9, FS_EmptySet
  <2>2. PICK p \in hits : RankOf(f, hits, p) = hits
    <3> HIDE DEF f
    <3> QED BY <1>6, <2>1, RanksReachTheTop
  <2> QED BY <2>2 DEF RankOf
<1>11. hits \ {last} \subseteq Below(last)
  BY <1>2, <1>3, <1>6, <1>10
<1>12. Cardinality(hits) - 1 <= Cardinality(Below(last))
  <2>1. Cardinality(hits \ {last}) = Cardinality(hits) - 1
    BY <1>6, FS_RemoveElement
  <2>2. Cardinality(hits \ {last}) <= Cardinality(Below(last))
    BY <1>4, <1>6, <1>11, FS_Subset
  <2> QED BY <2>1, <2>2
<1>13. Cardinality(Below(last)) < CandidateCap
  BY <1>1, <1>10
<1> QED BY <1>4, <1>5, <1>6, <1>9, <1>10, <1>12, <1>13

\* Only a search answers a search.
LEMMA OnlySearch ==
  ASSUME [Next]_vars, pc = "search", pc' = "idle", answer'.status = 200
  PROVE  Search
<1>1. ~Ask /\ ~Refresh /\ ~Expire /\ ~Evict /\ ~UNCHANGED vars
  BY DEF Ask, Refresh, Expire, Evict, vars, request
<1>2. ~Fails
  BY DEF Fails, Reply
<1>3. ~Ingest
  BY DEF Ingest, Create, Upsert, Observe, EnsureRetailer, request
<1>4. ~Rule /\ ~Count /\ ~Product /\ ~Deals /\ ~SetDeals /\ ~Offers /\ ~Points /\ ~RetailerNames
  BY DEF Rule, Count, Product, Deals, SetDeals, Offers, Points, RetailerNames, Reply, Onward, HistoryOrder, Goto
<1>5. ~Walk /\ ~QueryDeals
  BY DEF Walk, QueryDeals, Goto
<1> QED BY <1>1, <1>2, <1>3, <1>4, <1>5 DEF Next, Handle, RefreshDeals

\* A page that is not marked is that of an unbounded search (search.go:23-28).
THEOREM UnmarkedPagesAreWhole == Spec => CutIsReported
<1>1. ASSUME Asked, Search, answer'.page # {}, ~answer'.truncated
      PROVE  answer'.page \in Slice(OnSale(offers, req.query.matches \cap products, req.query),
                                    LAMBDA p, q : Sorted(offers, req.query, p, q), req.query.offset, req.query.limit)
  <2>1. PICK page \in Slice(OnSale(offers, Hits(req.query), req.query),
                            LAMBDA p, q : Sorted(offers, req.query, p, q), req.query.offset, req.query.limit) :
          answer' = [status |-> 200, page |-> page, truncated |-> Truncated(page, req.query)]
    BY <1>1 DEF Search, Reply
  <2>2. answer'.page = page /\ answer'.truncated = Truncated(page, req.query)
    BY <2>1
  <2>3. Cardinality(Hits(req.query)) # CandidateCap
    BY <1>1, <2>2 DEF Truncated
  <2>4. Hits(req.query) = req.query.matches \cap products
    BY <1>1, <2>3, FewHitsAreAll DEF Search, Asked
  <2> QED BY <2>1, <2>2, <2>4
<1>2. ASSUME Asked, [Next]_vars
      PROVE  [Answers({"search"}) /\ answer'.page # {} /\ ~answer'.truncated =>
                answer'.page \in Slice(OnSale(offers, req.query.matches \cap products, req.query),
                                    LAMBDA p, q : Sorted(offers, req.query, p, q), req.query.offset, req.query.limit)]_vars
  BY <1>1, <1>2, OnlySearch DEF Answers
<1> QED BY <1>2, RequestsAreKept, PTL DEF Spec, CutIsReported

-----------------------------------------------------------------------------
(* ORDER BY and LIMIT, when the order is that of a cost.                   *)

NotBefore(S, c, x) == {y \in S : ~(c[x] < c[y])}
Before(S, c, x)    == {y \in S : c[y] < c[x]}
Sure(S, c, n)      == {x \in S : Cardinality(NotBefore(S, c, x)) <= n}
Tied(S, c, n)      == {x \in S \ Sure(S, c, n) : Cardinality(Before(S, c, x)) < n}
FirstBy(S, c, n) ==
  IF Cardinality(S) <= n THEN {S}
  ELSE {Sure(S, c, n) \cup T : T \in kSubset(n - Cardinality(Sure(S, c, n)), Tied(S, c, n))}

\* The first n: all there are, or n of them, and none that is left out costs
\* less than one of them.
LEMMA FirstAreCheapest ==
  ASSUME NEW S, IsFiniteSet(S), NEW c, \A x \in S : c[x] \in Nat, NEW n \in Nat, NEW Q \in FirstBy(S, c, n)
  PROVE  /\ Q \subseteq S /\ IsFiniteSet(Q) /\ Cardinality(Q) \in Nat
         /\ Cardinality(Q) = n \/ (Q = S /\ Cardinality(S) <= n)
         /\ Cardinality(S) <= n => Q = S
         /\ \A x \in S \ Q, y \in Q : c[y] <= c[x]
<1> DEFINE sure == Sure(S, c, n)
           tied == Tied(S, c, n)
<1>1. CASE Cardinality(S) <= n
  <2>1. Q = S
    BY <1>1 DEF FirstBy
  <2> QED BY <1>1, <2>1, FS_CardinalityType
<1>2. CASE ~(Cardinality(S) <= n)
  <2>1. PICK T \in kSubset(n - Cardinality(sure), tied) : Q = sure \cup T
    BY <1>2 DEF FirstBy
  <2>2. T \subseteq tied /\ Cardinality(T) = n - Cardinality(sure)
    BY <2>1 DEF kSubset
  <2>3. sure \subseteq S /\ tied \subseteq S \ sure
    BY DEF Sure, Tied
  <2>4. \A x \in S : /\ IsFiniteSet(NotBefore(S, c, x)) /\ Cardinality(NotBefore(S, c, x)) \in Nat
                     /\ IsFiniteSet(Before(S, c, x)) /\ Cardinality(Before(S, c, x)) \in Nat
    BY FS_Subset, FS_CardinalityType DEF NotBefore, Before
  <2>5. ASSUME NEW x \in S \ Q, NEW y \in Q, c[x] < c[y]
        PROVE  FALSE
    <3>1. x \notin sure /\ ~(Cardinality(NotBefore(S, c, x)) <= n) /\ x \in S /\ y \in S
      BY <2>1, <2>2, <2>3, <2>5 DEF Sure
    <3>2. CASE y \in sure
      <4>1. NotBefore(S, c, x) \in SUBSET NotBefore(S, c, y)
        BY <2>5, <3>1 DEF NotBefore
      <4>2. Cardinality(NotBefore(S, c, x)) <= Cardinality(NotBefore(S, c, y))
        BY <2>4, <3>1, <4>1, FS_Subset
      <4>3. Cardinality(NotBefore(S, c, y)) <= n
        BY <3>2 DEF Sure
      <4> QED BY <2>4, <3>1, <4>2, <4>3
    <3>3. CASE y \in T
      <4>1. NotBefore(S, c, x) \in SUBSET Before(S, c, y)
        BY <2>5, <3>1 DEF NotBefore, Before
      <4>2. Cardinality(NotBefore(S, c, x)) <= Cardinality(Before(S, c, y))
        BY <2>4, <3>1, <4>1, FS_Subset
      <4>3. Cardinality(Before(S, c, y)) < n
        BY <2>2, <3>3 DEF Tied
      <4> QED BY <2>4, <3>1, <4>2, <4>3
    <3> QED BY <2>1, <3>2, <3>3
  <2> HIDE DEF sure, tied
  <2>6. IsFiniteSet(sure) /\ IsFiniteSet(T) /\ Cardinality(sure) \in Nat /\ Cardinality(T) \in Nat
    BY <2>2, <2>3, FS_Subset, FS_CardinalityType
  <2>7. sure \cap T = {} /\ Q \subseteq S
    BY <2>1, <2>2, <2>3
  <2>8. IsFiniteSet(Q) /\ Cardinality(Q) = n
    <3>1. /\ IsFiniteSet(sure \cup T)
          /\ Cardinality(sure \cup T) = Cardinality(sure) + Cardinality(T) - Cardinality(sure \cap T)
      BY <2>6, FS_Union
    <3>2. Cardinality(sure \cap T) = 0
      BY <2>7, FS_EmptySet
    <3>3. n - Cardinality(sure) = Cardinality(T)
      BY <2>2
    <3> QED BY <2>1, <2>6, <3>1, <3>2, <3>3
  <2>9. \A x \in S \ Q, y \in Q : c[y] <= c[x]
    <3> SUFFICES ASSUME NEW x \in S \ Q, NEW y \in Q PROVE c[y] <= c[x]
      OBVIOUS
    <3>1. ~(c[x] < c[y])
      BY <2>5
    <3>2. c[x] \in Nat /\ c[y] \in Nat
      BY <2>7
    <3> QED BY <3>1, <3>2
  <2> QED BY <1>2, <2>7, <2>8, <2>9
<1> QED BY <1>1, <1>2

\* By the price of an item ...
LEMMA FirstItems ==
  ASSUME NEW S, NEW n
  PROVE  First(S, Cheaper, n) = FirstBy(S, [i \in S |-> i.cents], n)
<1> DEFINE c == [i \in S |-> i.cents]
<1>1. \A x \in S : {y \in S : ~(x.cents < y.cents)} = NotBefore(S, c, x)
  BY DEF NotBefore
<1>2. \A x \in S : {y \in S : y.cents < x.cents} = Before(S, c, x)
  BY DEF Before
<1>3. {x \in S : Cardinality({y \in S : ~(x.cents < y.cents)}) <= n} = Sure(S, c, n)
  BY <1>1 DEF Sure
<1>4. {x \in S \ Sure(S, c, n) : Cardinality({y \in S : y.cents < x.cents}) < n} = Tied(S, c, n)
  BY <1>2 DEF Tied
<1> QED BY <1>3, <1>4 DEF First, Cheaper, FirstBy

\* ... and by that of an offer.
LEMMA FirstOffers ==
  ASSUME NEW S, NEW n, NEW t
  PROVE  First(S, LAMBDA x, y : t[x.product][x.retailer].cents < t[y.product][y.retailer].cents, n) =
         FirstBy(S, [x \in S |-> t[x.product][x.retailer].cents], n)
<1> DEFINE c == [x \in S |-> t[x.product][x.retailer].cents]
<1>1. \A x \in S : {y \in S : ~(t[x.product][x.retailer].cents < t[y.product][y.retailer].cents)} = NotBefore(S, c, x)
  BY DEF NotBefore
<1>2. \A x \in S : {y \in S : t[y.product][y.retailer].cents < t[x.product][x.retailer].cents} = Before(S, c, x)
  BY DEF Before
<1>3. {x \in S : Cardinality({y \in S : ~(t[x.product][x.retailer].cents < t[y.product][y.retailer].cents)}) <= n} = Sure(S, c, n)
  BY <1>1 DEF Sure
<1>4. {x \in S \ Sure(S, c, n) : Cardinality({y \in S : t[y.product][y.retailer].cents < t[x.product][x.retailer].cents}) < n} = Tied(S, c, n)
  BY <1>2 DEF Tied
<1> QED BY <1>3, <1>4 DEF First, FirstBy

-----------------------------------------------------------------------------
(* The walk of a collection.                                               *)

Cost(t, S) == [x \in S |-> t[x.product][x.retailer].cents]
Cents(S) == [i \in S |-> i.cents]

\* What suits a rule, without its filter on the number of offers.
Suits(t, rule, p) == p \in rule.within /\ InStock(t, p) # {} /\ Best(t, p) <= rule.most

\* The matching offers are finitely many, with prices; a product suits if
\* one of them is of it, and the cheapest of those has its best price.
LEMMA MatchingOffers ==
  ASSUME NEW t \in [Products -> [Retailers -> Price]], NEW rule \in Rules
  PROVE  /\ IsFiniteSet(Matching(t, rule)) /\ Cardinality(Matching(t, rule)) \in Nat
         /\ \A x \in Matching(t, rule) : Cost(t, Matching(t, rule))[x] \in Nat
         /\ \A x \in Matching(t, rule) :
              Suits(t, rule, x.product) /\ Best(t, x.product) <= t[x.product][x.retailer].cents
         /\ \A p : Suits(t, rule, p) =>
              /\ Best(t, p) \in Nat
              /\ \E x \in Matching(t, rule) : x.product = p /\ t[p][x.retailer].cents = Best(t, p)
<1> DEFINE M == Matching(t, rule)
           f == [x \in M |-> <<x.product, x.retailer>>]
<1>1. /\ IsFiniteSet(rule.within) /\ rule.within \subseteq Products /\ rule.most \in Nat
      /\ IsFiniteSet(Retailers)
  BY StorefrontAssumption DEF Products
<1>2. IsFiniteSet(rule.within \X Retailers)
  BY <1>1, FS_Product
<1>3. f \in Injection(M, rule.within \X Retailers)
  BY DEF Injection, IsInjective, Matching
<1>4. IsFiniteSet(M) /\ Cardinality(M) \in Nat
  <2> HIDE DEF M, f
  <2> QED BY <1>2, <1>3, FS_Injection, FS_CardinalityType
<1>5. \A p \in rule.within, r \in Retailers : t[p][r].cents \in Nat
  BY <1>1 DEF Price
<1>6. ASSUME NEW p \in rule.within, InStock(t, p) # {}
      PROVE  /\ Best(t, p) \in Nat /\ \A r \in InStock(t, p) : Best(t, p) <= t[p][r].cents
             /\ \E r \in InStock(t, p) : t[p][r].cents = Best(t, p)
  <2> DEFINE C == {t[p][r].cents : r \in InStock(t, p)}
  <2>1. C \in SUBSET Nat /\ C # {}
    BY <1>5, <1>6 DEF InStock
  <2>2. Min(C) \in C /\ \A y \in C : Min(C) <= y
    <3> HIDE DEF C
    <3> QED BY <2>1, MinIsLeast
  <2> QED BY <2>1, <2>2 DEF Best
<1>7. ASSUME NEW x \in M
      PROVE  /\ x.product \in rule.within /\ x.retailer \in InStock(t, x.product)
             /\ t[x.product][x.retailer].cents \in Nat /\ t[x.product][x.retailer].cents <= rule.most
  BY <1>5 DEF Matching, InStock
<1>8. ASSUME NEW x \in M
      PROVE  Suits(t, rule, x.product) /\ Best(t, x.product) <= t[x.product][x.retailer].cents
  BY <1>1, <1>6, <1>7 DEF Suits
<1>9. ASSUME NEW p, Suits(t, rule, p)
      PROVE  \E x \in M : x.product = p /\ t[p][x.retailer].cents = Best(t, p)
  <2>1. PICK r \in InStock(t, p) : t[p][r].cents = Best(t, p)
    BY <1>6, <1>9 DEF Suits
  <2>2. [product |-> p, retailer |-> r] \in M
    BY <1>9, <2>1 DEF Matching, Suits, InStock
  <2> QED BY <2>1, <2>2
<1>10. \A x \in M : Cost(t, M)[x] \in Nat
  BY <1>7 DEF Cost
<1> QED BY <1>4, <1>6, <1>8, <1>9, <1>10 DEF Suits

\* The walk's window.
Windows(rule) == FirstBy(Matching(offers, rule), Cost(offers, Matching(offers, rule)), ScanCap)
Candidates(window) == {[product |-> p, cents |-> FirstSeen(window, p)] : p \in {x.product : x \in window}}

\* The first offer seen of a product has its best price, and no product the
\* window misses is cheaper than one it has.
LEMMA WindowsAreCheapest ==
  ASSUME FrontInv, NEW rule \in Rules, NEW window \in Windows(rule)
  PROVE  /\ IsFiniteSet(window) /\ Cardinality(window) \in Nat /\ Cardinality(window) <= ScanCap
         /\ Cardinality(Matching(offers, rule)) <= ScanCap => window = Matching(offers, rule)
         /\ window = {} => Matching(offers, rule) = {}
         /\ \A x \in window : Suits(offers, rule, x.product) /\ FirstSeen(window, x.product) = Best(offers, x.product)
         /\ \A p : Suits(offers, rule, p) /\ (\A x \in window : x.product # p) =>
              \A x \in window : Best(offers, x.product) <= Best(offers, p)
<1> DEFINE M == Matching(offers, rule)
           cents(x) == offers[x.product][x.retailer].cents
<1>1. offers \in [Products -> [Retailers -> Price]]
  BY DEF FrontInv, Rows
<1>2. /\ IsFiniteSet(M) /\ Cardinality(M) \in Nat
      /\ \A x \in M : Cost(offers, M)[x] \in Nat /\ Cost(offers, M)[x] = cents(x)
      /\ \A x \in M : Suits(offers, rule, x.product) /\ Best(offers, x.product) <= cents(x)
  BY <1>1, MatchingOffers DEF Cost
<1>3. ASSUME NEW p, Suits(offers, rule, p)
      PROVE  Best(offers, p) \in Nat /\ \E x \in M : x.product = p /\ cents(x) = Best(offers, p)
  BY <1>1, <1>3, MatchingOffers
<1>4. ScanCap \in Nat /\ ScanCap # 0
  BY StorefrontAssumption
<1>5. /\ window \subseteq M /\ IsFiniteSet(window) /\ Cardinality(window) \in Nat
      /\ Cardinality(window) = ScanCap \/ (window = M /\ Cardinality(M) <= ScanCap)
      /\ Cardinality(M) <= ScanCap => window = M
      /\ \A x \in M \ window, y \in window : Cost(offers, M)[y] <= Cost(offers, M)[x]
  <2> HIDE DEF M
  <2> QED BY <1>2, <1>4, FirstAreCheapest DEF Windows, M
<1> HIDE DEF M, cents
<1>6. \A x \in M \ window, y \in window : cents(y) <= cents(x)
  BY <1>2, <1>5
<1>7. ASSUME NEW x \in window
      PROVE  FirstSeen(window, x.product) = Best(offers, x.product)
  <2> DEFINE p == x.product
             C == {cents(u) : u \in {z \in window : z.product = p}}
  <2>1. C \in SUBSET Nat /\ cents(x) \in C /\ Best(offers, p) \in Nat /\ \A c \in C : Best(offers, p) <= c
    BY <1>2, <1>3, <1>5
  <2>2. PICK y \in M : y.product = p /\ cents(y) = Best(offers, p)
    BY <1>2, <1>3, <1>5
  <2>3. Best(offers, p) \in C
    <3>1. CASE y \in window
      BY <2>2, <3>1
    <3>2. CASE y \notin window
      <4>1. cents(x) <= Best(offers, p)
        BY <1>6, <2>2, <3>2
      <4> QED BY <2>1, <4>1
    <3> QED BY <3>1, <3>2
  <2>4. Min(C) \in C /\ \A c \in C : Min(C) <= c
    <3> HIDE DEF C
    <3> QED BY <2>1, MinIsLeast
  <2>5. Min(C) = Best(offers, p)
    <3> HIDE DEF C
    <3>1. Min(C) <= Best(offers, p) /\ Best(offers, p) <= Min(C) /\ Min(C) \in Nat
      BY <2>1, <2>3, <2>4
    <3> QED BY <2>1, <3>1
  <2>6. FirstSeen(window, p) = Min(C)
    <3>1. \A u \in {z \in window : z.product = p} : cents(u) = offers[p][u.retailer].cents
      BY DEF cents
    <3>2. C = {offers[p][u.retailer].cents : u \in {z \in window : z.product = p}}
      BY <3>1
    <3> QED BY <3>2 DEF FirstSeen
  <2> QED BY <2>5, <2>6
<1>8. ASSUME NEW p, Suits(offers, rule, p), \A x \in window : x.product # p, NEW y \in window
      PROVE  Best(offers, y.product) <= Best(offers, p)
  <2>1. PICK x \in M : x.product = p /\ cents(x) = Best(offers, p)
    BY <1>3, <1>8
  <2>2. cents(y) <= Best(offers, p) /\ Best(offers, y.product) <= cents(y) /\ cents(y) \in Nat
    BY <1>2, <1>5, <1>6, <1>8, <2>1
  <2>3. Best(offers, p) \in Nat /\ Best(offers, y.product) \in Nat
    BY <1>2, <1>3, <1>5, <1>8
  <2> QED BY <2>2, <2>3
<1>9. window = {} => M = {}
  BY <1>4, <1>5, FS_EmptySet
<1> QED BY <1>2, <1>4, <1>5, <1>7, <1>8, <1>9 DEF M

\* What a walk shows: products that suit the rule at their best prices, none
\* dearer than one it leaves out, and all of them, unless the scan hit its
\* cap or a full page is enough.
Shows(t, rule, items) ==
  /\ IsFiniteSet(items) /\ Cardinality(items) \in Nat
  /\ \A i \in items :
       i = [product |-> i.product, cents |-> Best(t, i.product)] /\ i.cents \in Nat /\ Suits(t, rule, i.product)
  /\ \A p : Suits(t, rule, p) /\ (\A i \in items : i.product # p) => \A i \in items : i.cents <= Best(t, p)
  /\ \/ Cardinality(Matching(t, rule)) > ScanCap
     \/ \A p : Suits(t, rule, p) => \E i \in items : i.product = p
     \/ ~(rule.min > 1) /\ Cardinality(items) = CollectionSize

\* The items of a window are what a walk should show ...
LEMMA ItemsOfAWalk ==
  ASSUME FrontInv, NEW rule \in Rules, NEW window \in Windows(rule),
         NEW items \in FirstBy(Candidates(window), Cents(Candidates(window)), Target(rule))
  PROVE  /\ Shows(offers, rule, items)
         /\ items = {} => \A p : ~Suits(offers, rule, p)
<1> DEFINE C == Candidates(window)
           M == Matching(offers, rule)
           f == [x \in window |-> [product |-> x.product, cents |-> FirstSeen(window, x.product)]]
<1>1. /\ IsFiniteSet(window) /\ Cardinality(window) \in Nat /\ Cardinality(window) <= ScanCap
      /\ Cardinality(M) <= ScanCap => window = M
      /\ window = {} => M = {}
      /\ \A x \in window : Suits(offers, rule, x.product) /\ FirstSeen(window, x.product) = Best(offers, x.product)
      /\ \A p : Suits(offers, rule, p) /\ (\A x \in window : x.product # p) =>
           \A x \in window : Best(offers, x.product) <= Best(offers, p)
  BY WindowsAreCheapest
<1>2. /\ Cardinality(M) \in Nat
      /\ \A p : Suits(offers, rule, p) => Best(offers, p) \in Nat /\ \E x \in M : x.product = p
  BY MatchingOffers DEF FrontInv, Rows
<1>3. f \in Surjection(window, C)
  BY DEF Surjection, Candidates
<1>4. IsFiniteSet(C) /\ Cardinality(C) <= Cardinality(window) /\ Cardinality(C) \in Nat
  <2> HIDE DEF C, f
  <2> QED BY <1>1, <1>3, FS_Surjection, FS_CardinalityType
<1>5. ASSUME NEW i \in C
      PROVE  /\ \E x \in window : x.product = i.product
             /\ i = [product |-> i.product, cents |-> Best(offers, i.product)]
             /\ i.cents \in Nat /\ Suits(offers, rule, i.product) /\ Cents(C)[i] = i.cents
  <2>1. PICK x \in window : i = [product |-> x.product, cents |-> FirstSeen(window, x.product)]
    BY <1>5 DEF Candidates
  <2>2. i.product = x.product /\ i.cents = Best(offers, x.product) /\ Suits(offers, rule, x.product)
    BY <1>1, <2>1
  <2> QED BY <1>1, <1>2, <2>1, <2>2 DEF Cents
<1>6. ASSUME NEW x \in window
      PROVE  \E i \in C : i.product = x.product
  <2>1. [product |-> x.product, cents |-> FirstSeen(window, x.product)] \in C
    BY DEF Candidates
  <2> QED BY <2>1
<1>7. Target(rule) \in Nat /\ Target(rule) # 0 /\ Target(rule) = IF rule.min > 1 THEN ScanCap ELSE CollectionSize
  BY StorefrontAssumption DEF Target
<1> HIDE DEF C, M, f
<1>8. /\ items \subseteq C /\ IsFiniteSet(items) /\ Cardinality(items) \in Nat
      /\ Cardinality(items) = Target(rule) \/ (items = C /\ Cardinality(C) <= Target(rule))
      /\ Cardinality(C) <= Target(rule) => items = C
      /\ \A x \in C \ items, y \in items : Cents(C)[y] <= Cents(C)[x]
  BY <1>4, <1>5, <1>7, FirstAreCheapest DEF C
<1>9. ASSUME NEW p, Suits(offers, rule, p), \A i \in items : i.product # p, NEW i \in items
      PROVE  i.cents <= Best(offers, p)
  <2>1. CASE \E x \in window : x.product = p
    <3>1. PICK j \in C : j.product = p
      BY <1>6, <2>1
    <3>2. Cents(C)[i] <= Cents(C)[j]
      BY <1>8, <1>9, <3>1
    <3> QED BY <1>5, <1>8, <3>1, <3>2
  <2>2. CASE \A x \in window : x.product # p
    <3>1. PICK x \in window : x.product = i.product
      BY <1>5, <1>8
    <3>2. Best(offers, x.product) <= Best(offers, p)
      BY <1>1, <1>9, <2>2
    <3>3. i.cents = Best(offers, i.product)
      BY <1>5, <1>8
    <3> QED BY <3>1, <3>2, <3>3
  <2> QED BY <2>1, <2>2
<1>10. ASSUME ~(Cardinality(M) > ScanCap), NEW p, Suits(offers, rule, p), \A i \in items : i.product # p
       PROVE  ~(rule.min > 1) /\ Cardinality(items) = CollectionSize
  <2>1. ScanCap \in Nat
    BY StorefrontAssumption
  <2>2. window = M
    BY <1>1, <1>2, <1>10, <2>1
  <2>3. items # C
    BY <1>2, <1>6, <1>10, <2>2
  <2>4. ~(Cardinality(C) <= Target(rule))
    BY <1>8, <2>3
  <2>5. ~(Cardinality(C) > ScanCap)
    BY <1>1, <1>4, <2>1
  <2>6. ~(rule.min > 1)
    BY <1>4, <1>7, <2>1, <2>4, <2>5
  <2> QED BY <1>7, <1>8, <2>3, <2>6
<1>11. Shows(offers, rule, items)
  <2>1. \A i \in items :
          i = [product |-> i.product, cents |-> Best(offers, i.product)] /\ i.cents \in Nat /\ Suits(offers, rule, i.product)
    BY <1>5, <1>8
  <2> QED BY <1>8, <1>9, <1>10, <2>1 DEF Shows, M
<1>12. items = {} => \A p : ~Suits(offers, rule, p)
  <2> SUFFICES ASSUME items = {}, NEW p, Suits(offers, rule, p) PROVE FALSE
    OBVIOUS
  <2>1. C = {}
    BY <1>7, <1>8, FS_EmptySet
  <2>2. window = {}
    BY <1>6, <2>1
  <2> QED BY <1>1, <1>2, <2>2
<1> QED BY <1>11, <1>12

\* ... which is what Walk takes.
LEMMA WalkShows ==
  ASSUME FrontInv, Asked, Walk
  PROVE  \E items :
           /\ Shows(offers, req.rule, items)
           /\ items = {} => \A p : ~Suits(offers, req.rule, p)
           /\ IF items = {} THEN Reply("walk", [status |-> 200, items |-> {}]) ELSE Goto("walk", "count", items)
           /\ walked' = offers
<1>1. req.rule \in Rules
  BY DEF Walk, Asked
<1>2. PICK window \in First(Matching(offers, req.rule),
                        LAMBDA x, y : offers[x.product][x.retailer].cents < offers[y.product][y.retailer].cents, ScanCap) :
        \E items \in First(Candidates(window), Cheaper, Target(req.rule)) :
          IF items = {} THEN Reply("walk", [status |-> 200, items |-> {}]) ELSE Goto("walk", "count", items)
  BY DEF Walk, Candidates
<1>3. PICK items \in First(Candidates(window), Cheaper, Target(req.rule)) :
        IF items = {} THEN Reply("walk", [status |-> 200, items |-> {}]) ELSE Goto("walk", "count", items)
  BY <1>2
<1>4. window \in Windows(req.rule)
  BY <1>2, FirstOffers DEF Windows, Cost
<1>5. items \in FirstBy(Candidates(window), Cents(Candidates(window)), Target(req.rule))
  BY <1>3, FirstItems DEF Cents
<1>6. walked' = offers
  BY DEF Walk
<1> QED BY <1>1, <1>2, <1>3, <1>4, <1>5, <1>6, ItemsOfAWalk

\* Between the walk and the count, the items are those of the walk.
CountInv ==
  pc = "count" => walked \in [Products -> [Retailers -> Price]] /\ Shows(walked, req.rule, rows)

\* Nothing touches them in between.
LEMMA NextKeepsCount ==
  ASSUME FrontInv, Asked, CountInv, [Next]_vars
  PROVE  CountInv'
<1> SUFFICES ASSUME pc' = "count"
             PROVE  walked' \in [Products -> [Retailers -> Price]] /\ Shows(walked', req'.rule, rows')
  BY DEF CountInv, Shows, Suits, Matching, Best, InStock
<1>1. CASE UNCHANGED request
  BY <1>1 DEF request, CountInv
<1>2. CASE Walk /\ UNCHANGED req
  <2>1. PICK items : Shows(offers, req.rule, items) /\ walked' = offers /\
                     IF items = {} THEN Reply("walk", [status |-> 200, items |-> {}]) ELSE Goto("walk", "count", items)
    BY <1>2, WalkShows
  <2>2. rows' = items
    BY <2>1 DEF Reply, Goto
  <2> QED BY <1>2, <2>1, <2>2 DEF FrontInv, Rows
<1>3. ~Ask
  <2> SUFFICES ASSUME Ask PROVE FALSE
    OBVIOUS
  <2>1. pc' = FirstStatement(req') /\ req'.kind \in {"collection", "search", "product", "history", "deals"}
    BY DEF Ask, Requests
  <2> QED BY <2>1 DEF FirstStatement, HistoryOrder
<1> QED BY <1>1, <1>2, <1>3, StepsOfARequest

\* The invariant of collections: whatever is written in between, the count
\* finds the items of the walk (collections.go:98-151).
THEOREM CollectionInvariant == Spec => [](FrontInv /\ Asked /\ CountInv)
<1>1. Init => CountInv
  BY DEF Init, CountInv
<1>2. Spec => []CountInv
  BY <1>1, NextKeepsCount, FrontInvariant, RequestsAreKept, PTL DEF Spec
<1> QED BY <1>2, FrontInvariant, RequestsAreKept, PTL

\* Only the walk, when it finds nothing, and the count answer a collection.
LEMMA OnlyCollections ==
  ASSUME [Next]_vars, Answers({"walk", "count"})
  PROVE  Walk \/ Count
<1> USE DEF Answers
<1>1. ~Ask /\ ~Refresh /\ ~Expire /\ ~Evict /\ ~UNCHANGED vars
  BY DEF Ask, Refresh, Expire, Evict, vars, request
<1>2. ~Fails
  BY DEF Fails, Reply
<1>3. ~Ingest
  BY DEF Ingest, Create, Upsert, Observe, EnsureRetailer, request
<1>4. ~Rule /\ ~Product /\ ~Deals /\ ~SetDeals /\ ~Offers /\ ~Points /\ ~RetailerNames
  BY DEF Rule, Product, Deals, SetDeals, Offers, Points, RetailerNames, NotFound, Reply, Onward, HistoryOrder, Goto
<1>5. ~Search /\ ~QueryDeals
  BY DEF Search, QueryDeals, Goto
<1> QED BY <1>1, <1>2, <1>3, <1>4, <1>5 DEF Next, Handle, RefreshDeals

\* The filter on the number of offers.
Filter(p) == req.rule.min > 1 => Cardinality(Listed(offers, p)) >= req.rule.min

\* What qualifies suits the rule and passes the filter.
LEMMA QualifiesIsSuits ==
  ASSUME NEW p
  PROVE  Qualifies(p) <=> Suits(walked', req.rule, p) /\ Filter(p)
BY DEF Qualifies, Suits, Filter

\* The page of a walk that ends there, or of the count that follows it.
LEMMA AnswersOfCollections ==
  ASSUME FrontInv, Asked, CountInv, [Next]_vars, Answers({"walk", "count"})
  PROVE  /\ \A i \in answer'.items : Qualifies(i.product) /\ i.cents = Best(walked', i.product)
         /\ \A p : p \notin Page /\ Qualifies(p) => \A i \in answer'.items : i.cents <= Best(walked', p)
         /\ Cardinality(Page) < CollectionSize =>
              \/ \A p : Qualifies(p) => p \in Page
              \/ Cardinality(Matching(walked', req.rule)) > ScanCap
<1>1. CASE Walk
  <2>1. PICK items : /\ items = {} => \A p : ~Suits(offers, req.rule, p)
                     /\ IF items = {} THEN Reply("walk", [status |-> 200, items |-> {}]) ELSE Goto("walk", "count", items)
                     /\ walked' = offers
    BY <1>1, WalkShows
  <2>2. items = {} /\ answer' = [status |-> 200, items |-> {}]
    BY <2>1 DEF Answers, Reply, Goto
  <2>3. answer'.items = {}
    BY <2>2
  <2>4. \A p : ~Qualifies(p)
    BY <2>1, <2>2, QualifiesIsSuits
  <2> QED BY <2>3, <2>4
<1>2. CASE Count
  <2> DEFINE passing == {i \in rows : Filter(i.product)}
             rule == req.rule
  <2>1. PICK items \in First(passing, Cheaper, CollectionSize) :
          /\ answer' = [status |-> 200, items |-> items]
          /\ walked' = walked
    BY <1>2 DEF Count, Reply, Plain, Filter
  <2>2. answer'.items = items /\ Page = {i.product : i \in items}
    BY <2>1 DEF Page
  <2>3. pc = "count" /\ rule \in Rules /\ walked \in [Products -> [Retailers -> Price]] /\ Shows(walked, rule, rows)
    BY <1>2 DEF Count, Reply, CountInv, Asked
  <2>4. IsFiniteSet(passing) /\ Cardinality(passing) \in Nat /\ \A i \in passing : Cents(passing)[i] = i.cents /\ i.cents \in Nat
    <3>1. IsFiniteSet(rows) /\ passing \in SUBSET rows /\ \A i \in rows : i.cents \in Nat
      BY <2>3 DEF Shows
    <3> QED BY <3>1, FS_Subset, FS_CardinalityType DEF Cents
  <2>5. CollectionSize \in Nat
    BY StorefrontAssumption
  <2> HIDE DEF passing, rule
  <2>6. /\ items \subseteq passing
        /\ Cardinality(items) = CollectionSize \/ (items = passing /\ Cardinality(passing) <= CollectionSize)
        /\ Cardinality(items) \in Nat /\ IsFiniteSet(items)
        /\ \A x \in passing \ items, y \in items : y.cents <= x.cents
    <3>1. items \in FirstBy(passing, Cents(passing), CollectionSize)
      BY <2>1, FirstItems DEF Cents
    <3>2. \A x \in passing : Cents(passing)[x] \in Nat
      BY <2>4
    <3> QED BY <2>4, <2>5, <3>1, <3>2, FirstAreCheapest
  <2>7. \A i \in rows :
          i = [product |-> i.product, cents |-> Best(walked, i.product)] /\ i.cents \in Nat /\ Suits(walked, rule, i.product)
    BY <2>3 DEF Shows
  <2>8. \A p : Qualifies(p) <=> Suits(walked, rule, p) /\ Filter(p)
    BY <2>1, QualifiesIsSuits DEF rule
  <2>9. \A i \in items : i \in rows /\ Filter(i.product) /\ Qualifies(i.product) /\ i.cents = Best(walked, i.product)
    BY <2>6, <2>7, <2>8 DEF passing
  <2>10. ASSUME NEW p, p \notin Page, Qualifies(p), NEW i \in items
         PROVE  i.cents <= Best(walked, p)
    <3>1. CASE \E j \in rows : j.product = p
      <4>1. PICK j \in rows : j.product = p /\ j.cents = Best(walked, p)
        BY <2>7, <3>1
      <4>2. j \in passing \ items
        BY <2>2, <2>8, <2>10, <4>1 DEF passing
      <4> QED BY <2>6, <4>1, <4>2
    <3>2. CASE \A j \in rows : j.product # p
      BY <2>3, <2>8, <2>9, <2>10, <3>2 DEF Shows
    <3> QED BY <3>1, <3>2
  <2>11. Cardinality(Page) = Cardinality(items)
    <3> DEFINE f == [i \in items |-> i.product]
    <3>1. \A i, j \in items : f[i] = f[j] => i = j
      BY <2>7, <2>9
    <3>2. f \in Surjection(items, Page) /\ f \in Injection(items, Page)
      BY <2>2, <3>1 DEF Surjection, Injection, IsInjective
    <3> HIDE DEF f
    <3> QED BY <2>6, <3>2, FS_Surjection
  <2>12. ASSUME Cardinality(Page) < CollectionSize, ~(Cardinality(Matching(walked, rule)) > ScanCap),
                NEW p, Qualifies(p), p \notin Page
         PROVE  FALSE
    <3>1. items = passing /\ Cardinality(items) # CollectionSize
      BY <2>5, <2>6, <2>11, <2>12
    <3>2. \A j \in rows : j.product # p
      BY <2>2, <2>8, <2>12, <3>1 DEF passing
    <3>3. ~(rule.min > 1) /\ Cardinality(rows) = CollectionSize
      BY <2>3, <2>8, <2>12, <3>2 DEF Shows
    <3>4. passing = rows
      BY <3>3 DEF passing, Filter, rule
    <3> QED BY <3>1, <3>3, <3>4
  <2> QED BY <2>1, <2>2, <2>9, <2>10, <2>12 DEF rule
<1> QED BY <1>1, <1>2, OnlyCollections

\* Stopping early costs nothing (collections.go:76-80).
THEOREM CollectionsAreCheapest == Spec => CheapestFirst
<1>1. FrontInv /\ Asked /\ CountInv /\ [Next]_vars =>
        [Answers({"walk", "count"}) =>
           /\ \A i \in answer'.items : Qualifies(i.product) /\ i.cents = Best(walked', i.product)
           /\ \A p \in Products \ Page : Qualifies(p) => \A i \in answer'.items : i.cents <= Best(walked', p)]_vars
  BY AnswersOfCollections
<1> QED BY <1>1, CollectionInvariant, PTL DEF Spec, CheapestFirst

\* A page is short only for a reason (collections.go:118-121).
THEOREM ShortPagesAreComplete == Spec => PageComplete
<1>1. FrontInv /\ Asked /\ CountInv /\ [Next]_vars =>
        [Answers({"walk", "count"}) /\ Cardinality(Page) < CollectionSize =>
           \/ {p \in Products : Qualifies(p)} \subseteq Page
           \/ Cardinality(Matching(walked', req.rule)) > ScanCap]_vars
  BY AnswersOfCollections
<1> QED BY <1>1, CollectionInvariant, PTL DEF Spec, PageComplete

-----------------------------------------------------------------------------
(* Connections.                                                            *)

PoolInv == PoolTypeOK /\ OneLoad

\* Initially nobody holds anything.
LEMMA InitIsFree == PoolInit => PoolInv
BY PoolAssumption DEF PoolInit, PoolInv, PoolTypeOK, OneLoad

\* A request that gives everything back leaves the others as they were.
LEMMA ReleaseKeeps ==
  ASSUME NEW r \in Handlers, PoolInv, holder' = Released(r),
         NEW to \in {"idle", "get"}, stage' = [stage EXCEPT ![r] = to],
         \/ slug' = slug
         \/ slug' = [slug EXCEPT ![r] = None],
         mutex' \in Handlers \cup {None}
  PROVE  PoolInv'
<1>1. PoolTypeOK'
  BY DEF PoolInv, PoolTypeOK, Released
<1>2. \A c \in Conns : holder'[c] # None =>
        holder'[c] = holder[c] /\ holder[c] \in Handlers /\ holder[c] # r /\ stage'[holder[c]] = stage[holder[c]]
  BY DEF PoolInv, PoolTypeOK, Released
<1>3. OneLoad'
  BY <1>2 DEF PoolInv, PoolTypeOK, OneLoad
<1> QED BY <1>1, <1>3 DEF PoolInv

\* Every step keeps the facts of OneLoad.
LEMMA NextKeepsPool ==
  ASSUME PoolInv, [PoolNext]_poolVars
  PROVE  PoolInv'
<1>1. ASSUME NEW r \in Handlers, BeginPlain(r) \/ BeginHistory(r) \/ Lock(r)
      PROVE  PoolInv'
  BY <1>1, PoolAssumption DEF BeginPlain, BeginHistory, Lock, Moves, PoolInv, PoolTypeOK, OneLoad
<1>2. ASSUME NEW r \in Handlers, NEW s \in Slugs, BeginLoad(r, s)
      PROVE  PoolInv'
  BY <1>2, PoolAssumption DEF BeginLoad, Filling, Moves, PoolInv, PoolTypeOK, OneLoad
<1>3. ASSUME NEW r \in Handlers, Acquire(r)
      PROVE  PoolInv'
  <2>1. PICK c \in Conns : holder[c] = None /\ holder' = [holder EXCEPT ![c] = r]
    BY <1>3 DEF Acquire
  <2>2. \/ stage[r] = "get" /\ stage' = [stage EXCEPT ![r] = "use"]
        \/ stage[r] = "more" /\ stage' = [stage EXCEPT ![r] = "count"]
    BY <1>3 DEF Acquire, Moves
  <2> QED BY <1>3, <2>1, <2>2, PoolAssumption DEF Acquire, PoolInv, PoolTypeOK, OneLoad
<1>4. ASSUME NEW r \in Handlers, BreakOff(r)
      PROVE  PoolInv'
  BY <1>4, PoolAssumption DEF BreakOff, Moves, PoolInv, PoolTypeOK, OneLoad
<1>5. ASSUME NEW r \in Handlers, Requery(r)
      PROVE  PoolInv'
  BY <1>5, ReleaseKeeps DEF Requery, Moves, PoolInv, PoolTypeOK
<1>6. ASSUME NEW r \in Handlers, Respond(r) \/ HangUp(r)
      PROVE  PoolInv'
  BY <1>6, ReleaseKeeps DEF Respond, HangUp, Finish, Moves, PoolInv, PoolTypeOK
<1>7. CASE UNCHANGED poolVars
  BY <1>7 DEF poolVars, PoolInv, PoolTypeOK, OneLoad
<1> QED BY <1>1, <1>2, <1>3, <1>4, <1>5, <1>6, <1>7 DEF PoolNext, Known

\* Loads and connections are always one to one as OneLoad says.
THEOREM PoolInvariant == PoolSpec => []PoolInv
BY InitIsFree, NextKeepsPool, PTL DEF PoolSpec

\* Fewer collections than connections cannot use up the pool.
LEMMA FewCollections == PoolInv => PoolDrains
<1> SUFFICES ASSUME PoolInv, \A c \in Conns : holder[c] # None /\ stage[holder[c]] = "more"
             PROVE  FALSE
  BY DEF PoolDrains
<1> DEFINE f == [c \in Conns |-> slug[holder[c]]]
<1>1. \A c \in Conns : holder[c] \in Handlers /\ slug[holder[c]] \in Slugs
  BY DEF PoolInv, PoolTypeOK, OneLoad
<1>2. \A c, d \in Conns : f[c] = f[d] => c = d
  BY <1>1, PoolAssumption DEF PoolInv, OneLoad
<1>3. f \in Injection(Conns, Slugs)
  BY <1>1, <1>2 DEF Injection, IsInjective
<1>4. Cardinality(Conns) <= Cardinality(Slugs)
  BY <1>3, FS_Injection, PoolAssumption
<1> QED BY <1>4, PoolAssumption, FS_CardinalityType

\* The loads that hold one connection and wait for another never hold them
\* all (collections.go:116, :139-141 and :156; cmd/api/main.go:42).
THEOREM PoolNeverRunsDry == PoolSpec => []PoolDrains
<1>1. PoolInv => PoolDrains
  BY FewCollections
<1> QED BY <1>1, PoolInvariant, PTL
=============================================================================
