----------------------------- MODULE Storefront -----------------------------
(***************************************************************************)
(* The read side: what the handlers of internal/api answer out of tables   *)
(* that ingestd goes on writing.  Every statement is one action, since     *)
(* each sees its own snapshot; a request makes one to three of them, any   *)
(* of which may fail, or break while its rows are read.  One request, or   *)
(* one refresh of the deals, is in progress at a time: they share nothing  *)
(* but the retailer names and the list of deals, which are read and        *)
(* written in one step (cache and connections are modules of their own).   *)
(*                                                                         *)
(* Products are numbered in the order of their ids.  What a rule's         *)
(* category and brand, or a query's text and filters, select is a set of   *)
(* products; a query's rank[p] is the place of p in the order in which it  *)
(* takes its candidates (by id, or by relevance).  Rows that an ORDER BY   *)
(* leaves tied come in any order.  A price of 0 is an offer that does not  *)
(* exist.                                                                  *)
(*                                                                         *)
(* Names that end in a parenthesised "Fault" comment are faulty variants   *)
(* of the definition that follows them.                                    *)
(***************************************************************************)
EXTENDS Integers, FiniteSets, FiniteSetsExt, Sequences

CONSTANTS
  Retailers, Prices,
  Tables,          \* offers a run starts with: table[product][retailer]
  Rules,           \* rules of collections
  Queries,         \* searches
  CollectionSize, ScanCap, CandidateCap, DealsMax,
  MaxWrites        \* bound: rows ingestd writes

ASSUME StorefrontAssumption ==
  /\ {CollectionSize, ScanCap, CandidateCap, DealsMax} \subseteq Nat \ {0}
  /\ MaxWrites \in Nat
  /\ IsFiniteSet(Retailers) /\ Prices \subseteq Nat
  /\ Tables \subseteq [UNION {DOMAIN t : t \in Tables} -> [Retailers -> [cents : Nat, stock : BOOLEAN]]]
  /\ \A r \in Rules :
       /\ r.within \subseteq UNION {DOMAIN t : t \in Tables} /\ IsFiniteSet(r.within)
       /\ {r.most, r.min} \subseteq Nat
  /\ \A q \in Queries :
       /\ IsFiniteSet(q.matches)
       /\ \A p, s \in q.matches : q.rank[p] \in Nat /\ (q.rank[p] = q.rank[s] => p = s)

VARIABLES
  offers,    \* table offers
  products,  \* table products: those that have a row
  shops,     \* table retailers
  daily,     \* ClickHouse: <<product, retailer>> with a price history
  writes,
  names,     \* Server.retailers: <<names>> while younger than five minutes, or <<>>
  pc,        \* the next statement of the request or refresh, or "idle"
  req,       \* the request
  rows,      \* what its statements have returned so far
  answer,
  walked,    \* history: the offers when the collection was walked
  broken,    \* history: a statement of the request failed or broke
  deals      \* Redis holds deals:top

tables  == <<offers, products, shops, daily, writes>>
request == <<pc, req, rows, answer, walked, broken>>
vars == <<tables, names, request, deals>>

Products == UNION {DOMAIN t : t \in Tables}
NoOffer  == [cents |-> 0, stock |-> FALSE]
NoAnswer == [status |-> 0]

Listed(t, p)  == {r \in Retailers : t[p][r] # NoOffer}
InStock(t, p) == {r \in Retailers : t[p][r].stock}
Best(t, p)    == Min({t[p][r].cents : r \in InStock(t, p)})

Init ==
  /\ offers \in Tables
  /\ products = {p \in Products : Listed(offers, p) # {}}
  /\ daily = {d \in Products \X Retailers : d[2] \in Listed(offers, d[1])}
  /\ shops = {d[2] : d \in daily} /\ writes = 0 /\ names = <<>>
  /\ pc = "idle" /\ req = [kind |-> "none"] /\ rows = {} /\ answer = NoAnswer
  /\ walked = <<>> /\ broken = FALSE
  /\ deals = FALSE

\* ORDER BY, LIMIT and OFFSET: the first n elements, and those from offset on.
First(S, Ahead(_, _), n) ==
  IF Cardinality(S) <= n THEN {S}
  ELSE LET sure == {x \in S : Cardinality({y \in S : ~Ahead(x, y)}) <= n}
           tied == {x \in S \ sure : Cardinality({y \in S : Ahead(y, x)}) < n}
       IN  {sure \cup T : T \in kSubset(n - Cardinality(sure), tied)}

Slice(S, Ahead(_, _), offset, limit) ==
  UNION {{Q \ B : B \in First(S, Ahead, offset) \cap SUBSET Q} : Q \in First(S, Ahead, offset + limit)}

-----------------------------------------------------------------------------
(* ingestd.                                                                *)

Create(p) ==
  /\ writes < MaxWrites /\ p \notin products
  /\ products' = products \cup {p} /\ writes' = writes + 1
  /\ UNCHANGED <<offers, shops, daily, names, request, deals>>

Upsert(p, r) ==
  /\ writes < MaxWrites /\ p \in products /\ r \in shops
  /\ \E cents \in Prices, stock \in BOOLEAN :
       offers' = [offers EXCEPT ![p][r] = [cents |-> cents, stock |-> stock]]
  /\ writes' = writes + 1
  /\ UNCHANGED <<products, shops, daily, names, request, deals>>

Observe(p, r) ==
  /\ r \in Listed(offers, p) /\ <<p, r>> \notin daily
  /\ daily' = daily \cup {<<p, r>>}
  /\ UNCHANGED <<offers, products, shops, writes, names, request, deals>>

EnsureRetailer(r) ==
  /\ r \notin shops /\ shops' = shops \cup {r}
  /\ UNCHANGED <<offers, products, daily, writes, names, request, deals>>

-----------------------------------------------------------------------------
(* Requests.                                                               *)

Unlisted == [within |-> {}, most |-> 0, min |-> 0]  \* a slug without a row

\* (Fault) the names first
HistoryOrderFault == <<"names", "points">>
HistoryOrder == <<"points", "names">>

Requests ==
  [kind : {"collection"}, rule : Rules \cup {Unlisted}] \cup [kind : {"search"}, query : Queries]
    \cup [kind : {"product", "history"}, product : Products] \cup {[kind |-> "deals"]}

FirstStatement(r) ==
  CASE r.kind = "collection" -> "rules"
    [] r.kind = "search"     -> "search"
    [] r.kind = "product"    -> "product"
    [] r.kind = "history"    -> HistoryOrder[1]
    [] r.kind = "deals"      -> "deals"

Ask ==
  /\ pc = "idle"
  /\ req' \in Requests
  /\ pc' = FirstStatement(req') /\ rows' = {} /\ answer' = NoAnswer /\ walked' = <<>> /\ broken' = FALSE
  /\ UNCHANGED <<tables, names, deals>>

Goto(from, to, got) ==
  /\ pc = from /\ pc' = to /\ rows' = got
  /\ UNCHANGED <<tables, req, answer>>

Reply(from, a) ==
  /\ pc = from /\ pc' = "idle" /\ rows' = {} /\ answer' = a
  /\ UNCHANGED <<tables, req>>

Plain == UNCHANGED <<names, walked, broken, deals>>

NotFound(from) == Reply(from, [status |-> 404]) /\ Plain

\* A failed statement, and rows that break off, end the request ...
Fails ==
  /\ pc # "idle" /\ Reply(pc, [status |-> IF pc = "deals" THEN 503 ELSE 500])
  /\ broken' = TRUE /\ UNCHANGED <<names, walked, deals>>

\* ... where the handler looks at rows.Err.
\* (Fault) loadProduct does not
UncheckedFault == {"points", "offers"}
Unchecked == {"points"}
Read(from, all) == IF from \in Unchecked THEN SUBSET all ELSE {all}
Ends(got, all) == broken' = (broken \/ got # all)

-----------------------------------------------------------------------------
(* loadCollection.                                                         *)

Rule ==
  /\ pc = "rules"
  /\ IF req.rule = Unlisted THEN NotFound("rules") ELSE Goto("rules", "walk", {}) /\ Plain

Matching(t, rule) ==
  {x \in [product : rule.within, retailer : Retailers] :
     t[x.product][x.retailer].stock /\ t[x.product][x.retailer].cents <= rule.most}

\* The first offer seen of a product is its best price.
\* (Fault) the last one seen
FirstSeenFault(window, p) == Max({offers[p][x.retailer].cents : x \in {y \in window : y.product = p}})
FirstSeen(window, p) == Min({offers[p][x.retailer].cents : x \in {y \in window : y.product = p}})

Cheaper(x, y) == x.cents < y.cents

\* (Fault) stop at a full page, whatever the counts will say
TargetFault(rule) == CollectionSize
Target(rule) == IF rule.min > 1 THEN ScanCap ELSE CollectionSize

Walk ==
  /\ pc = "walk"
  /\ LET Lower(x, y) == offers[x.product][x.retailer].cents < offers[y.product][y.retailer].cents IN
     \E window \in First(Matching(offers, req.rule), Lower, ScanCap) :
       \E items \in First({[product |-> p, cents |-> FirstSeen(window, p)] : p \in {x.product : x \in window}},
                          Cheaper, Target(req.rule)) :
         IF items = {} THEN Reply("walk", [status |-> 200, items |-> {}]) ELSE Goto("walk", "count", items)
  /\ walked' = offers /\ UNCHANGED <<names, broken, deals>>

Count ==
  /\ pc = "count"
  /\ \E items \in First({i \in rows : req.rule.min > 1 => Cardinality(Listed(offers, i.product)) >= req.rule.min},
                        Cheaper, CollectionSize) :
       Reply("count", [status |-> 200, items |-> items])
  /\ Plain

-----------------------------------------------------------------------------
(* runSearch.                                                              *)

\* ORDER BY relevance or id, LIMIT candidateCap
Hits(query) ==
  LET found == query.matches \cap products IN
  {p \in found : Cardinality({q \in found : query.rank[q] < query.rank[p]}) < CandidateCap}

\* JOIN offers and HAVING: hits on sale at a price asked for.
OnSale(t, S, query) == {p \in S : InStock(t, p) # {} /\ Best(t, p) <= query.most}

Sorted(t, query, p, q) ==
  CASE query.sort = "price_asc"  -> Best(t, p) < Best(t, q)
    [] query.sort = "price_desc" -> Best(t, p) > Best(t, q)
    [] OTHER                     -> p < q

\* The count of hits comes with the rows.
\* (Fault) more hits than the query can return
TruncatedFault(page, query) == page # {} /\ Cardinality(Hits(query)) > CandidateCap
Truncated(page, query) == page # {} /\ Cardinality(Hits(query)) = CandidateCap

Search ==
  /\ pc = "search"
  /\ LET query == req.query
         Ahead(p, q) == Sorted(offers, query, p, q) IN
     \E page \in Slice(OnSale(offers, Hits(query), query), Ahead, query.offset, query.limit) :
       Reply("search", [status |-> 200, page |-> page, truncated |-> Truncated(page, query)])
  /\ Plain

-----------------------------------------------------------------------------
(* loadProduct and handleHistory.                                          *)

Product ==
  /\ pc = "product"
  /\ IF req.product \notin products THEN NotFound("product") ELSE Goto("product", "offers", {}) /\ Plain

Offers ==
  /\ pc = "offers"
  /\ LET all == Listed(offers, req.product) IN
     \E got \in Read("offers", all) : Reply("offers", [status |-> 200, offers |-> got]) /\ Ends(got, all)
  /\ UNCHANGED <<names, walked, deals>>

Named(points, ns, loaded) == [status |-> 200, points |-> points, unnamed |-> points \ ns, loaded |-> loaded]

Onward(from, got, points, ns, loaded) ==
  IF from = HistoryOrder[1] THEN Goto(from, HistoryOrder[2], got) ELSE Reply(from, Named(points, ns, loaded))

\* rows holds the points, or the names, whichever came first.
Points ==
  /\ pc = "points"
  /\ LET all == {r \in Retailers : <<req.product, r>> \in daily} IN
     \E got \in Read("points", all) : Onward("points", got, got, rows, TRUE) /\ Ends(got, all)
  /\ UNCHANGED <<names, walked, deals>>

RetailerNames ==
  /\ pc = "names"
  /\ names' = IF names = <<>> THEN <<shops>> ELSE names
  /\ Onward("names", names'[1], rows, names'[1], names = <<>>)
  /\ UNCHANGED <<walked, broken, deals>>

Expire == names # <<>> /\ names' = <<>> /\ UNCHANGED <<tables, request, deals>>

-----------------------------------------------------------------------------
(* refreshDeals, with prices in half cents: percentile_cont(0.5) is the    *)
(* middle price, or half-way between the middle two.                       *)

Median2(t, p, rs) ==
  LET n == Cardinality(rs)
      Rank(r) == {q \in rs : t[p][q].cents <= t[p][r].cents}
      At(k) == Min({t[p][r].cents : r \in {q \in rs : Cardinality(Rank(q)) >= k}})
  IN  At((n + 1) \div 2) + At(n \div 2 + 1)

Undercuts(best, median2) == 100 * (median2 - 2 * best) >= 15 * median2

\* (Fault) offers that are out of stock
SpreadFault(p) == Listed(offers, p)
Spread(p) == InStock(offers, p)

SavingsPct(d) == (200 * (d.median2 - 2 * d.best) + d.median2) \div (2 * d.median2)
Better(d, e) == SavingsPct(d) > SavingsPct(e) \/ (SavingsPct(d) = SavingsPct(e) /\ d.best < e.best)

Spreads ==
  {[product |-> p, best |-> Min({offers[p][r].cents : r \in Spread(p)}), median2 |-> Median2(offers, p, Spread(p))] :
     p \in {q \in products : Cardinality(Spread(q)) >= 3}}

Refresh ==
  /\ pc = "idle" /\ pc' = "query" /\ req' = [kind |-> "refresh"]
  /\ rows' = {} /\ answer' = NoAnswer /\ walked' = <<>> /\ broken' = FALSE
  /\ UNCHANGED <<tables, names, deals>>

QueryDeals ==
  /\ pc = "query"
  /\ \E list \in First({d \in Spreads : Undercuts(d.best, d.median2)}, Better, DealsMax) : Goto("query", "set", list)
  /\ Plain

\* (Fault) an empty list is not stored
StoredFault(list) == list # {}
Stored(list) == TRUE

\* Without an expiry; but Redis runs as an LRU.
SetDeals ==
  /\ Reply("set", NoAnswer)
  /\ deals' = (deals \/ Stored(rows))
  /\ UNCHANGED <<names, walked, broken>>

Evict == deals /\ deals' = FALSE /\ UNCHANGED <<tables, names, request>>

Deals ==
  /\ pc = "deals"
  /\ Reply("deals", [status |-> IF deals THEN 200 ELSE 503])
  /\ Plain

-----------------------------------------------------------------------------
Ingest ==
  \/ \E p \in Products : Create(p) \/ \E r \in Retailers : Upsert(p, r) \/ Observe(p, r)
  \/ \E r \in Retailers : EnsureRetailer(r)
Handle == Rule \/ Walk \/ Count \/ Search \/ Product \/ Offers \/ Points \/ RetailerNames \/ Deals
RefreshDeals == QueryDeals \/ SetDeals

Next == Ingest \/ Ask \/ Refresh \/ Handle \/ RefreshDeals \/ Fails \/ Expire \/ Evict

\* Requests and refreshes end, and a refresh that is started again and again
\* does not fail for ever.
Spec == Init /\ [][Next]_vars /\ WF_vars(Handle) /\ SF_vars(Refresh) /\ SF_vars(QueryDeals) /\ SF_vars(SetDeals)

-----------------------------------------------------------------------------
(* Properties.                                                             *)

Answers(from) == pc \in from /\ pc' = "idle" /\ answer'.status = 200
Page == {i.product : i \in answer'.items}

\* What a collection could show: on sale when it was walked, and with
\* enough offers when they were counted.
Qualifies(p) ==
  /\ p \in req.rule.within
  /\ InStock(walked', p) # {} /\ Best(walked', p) <= req.rule.most
  /\ req.rule.min > 1 => Cardinality(Listed(offers, p)) >= req.rule.min

\* Stopping early costs nothing (collections.go:76-80): every item of a
\* collection carries its product's best price, and no product that
\* qualifies and is cheaper than an item is missing.
CheapestFirst ==
  [][Answers({"walk", "count"}) =>
       /\ \A i \in answer'.items : Qualifies(i.product) /\ i.cents = Best(walked', i.product)
       /\ \A p \in Products \ Page : Qualifies(p) => \A i \in answer'.items : i.cents <= Best(walked', p)]_vars

\* A page is short only if all that qualifies is on it, or the walk has hit
\* its cap (collections.go:118-121: stopping first "would under-fill the
\* page whenever the filter rejects some of the earliest hits").
PageComplete ==
  [][Answers({"walk", "count"}) /\ Cardinality(Page) < CollectionSize =>
       \/ {p \in Products : Qualifies(p)} \subseteq Page
       \/ Cardinality(Matching(walked', req.rule)) > ScanCap]_vars

\* A page of a search that is not marked truncated is the page of an
\* unbounded search (search.go:23-28: "the response says when the cap
\* truncated the match set").
CutIsReported ==
  [][Answers({"search"}) /\ answer'.page # {} /\ ~answer'.truncated =>
       LET query == req.query
           Ahead(p, q) == Sorted(offers, query, p, q) IN
       answer'.page \in Slice(OnSale(offers, query.matches \cap products, query), Ahead, query.offset, query.limit)]_vars

\* ... and one that is marked has matches the search has not looked at
\* (search.go:134: "truncated says the match set outran the candidate cap").
TruncatedIsCut ==
  [][Answers({"search"}) /\ answer'.truncated =>
       Cardinality(req.query.matches \cap products) > CandidateCap]_vars

\* Without a price order, a search shows the most relevant first (its form
\* calls that order "relevance", showcase.go:470).
RelevantFirst ==
  [][Answers({"search"}) /\ req.query.sort = "id" =>
       \A p \in answer'.page, q \in OnSale(offers, Hits(req.query), req.query) \ answer'.page :
         req.query.offset = 0 => req.query.rank[p] < req.query.rank[q]]_vars

\* A deal is a retailer in stock at least 15 % below the median of the
\* others (deals.go:13-15), although the query's median includes it.
DealsAreDislocations ==
  [][pc = "query" /\ pc' = "set" => \A d \in rows' : \E r \in InStock(offers, d.product) :
       /\ offers[d.product][r].cents = d.best
       /\ Undercuts(d.best, Median2(offers, d.product, InStock(offers, d.product) \ {r}))]_vars

\* Deals that were evicted, or never there, come back.
DealsComeBack == ~deals ~> deals

\* An outage is a 500, not an empty catalog (products.go:65-67), and no
\* answer passes off a part of the rows as all of them.
OutageIsA500 == req.kind # "history" /\ broken /\ answer # NoAnswer => answer.status >= 500

\* The same of a history.
HistoryIsWhole == req.kind = "history" /\ broken /\ answer # NoAnswer => answer.status >= 500

\* A history whose request loaded the retailers' names names every point,
\* also of a retailer taken up while it ran.
PointsAreNamed == req.kind = "history" /\ answer.status = 200 /\ answer.loaded => answer.unnamed = {}
=============================================================================
