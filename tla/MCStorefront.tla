---------------------------- MODULE MCStorefront ----------------------------
(* Instances of Storefront for TLC.                                        *)
EXTENDS Storefront

On(cents)  == [cents |-> cents, stock |-> TRUE]
Off(cents) == [cents |-> cents, stock |-> FALSE]
ThreeShops == {1, 2, 3}

\* A product is nowhere, in one shop, a deal, a deal but for stock, or dear.
Nowhere == <<NoOffer, NoOffer, NoOffer>>
OneShop == <<On(80), NoOffer, NoOffer>>
ADeal   == <<On(100), On(80), On(100)>>
NoDeal  == <<Off(80), On(100), On(95)>>
Dear    == <<On(100), On(100), NoOffer>>
ShapeTables ==
  {<<a, b, Nowhere>> : a \in {Nowhere, OneShop, ADeal, NoDeal, Dear}, b \in {OneShop, ADeal}}
    \cup {<<OneShop, ADeal, Dear>>, <<Dear, OneShop, Dear>>}

SomeRules ==
  {[within |-> 1..3, most |-> 1000, min |-> 0], [within |-> {2}, most |-> 80, min |-> 0],
   [within |-> 1..3, most |-> 1000, min |-> 3]}

\* By id and by relevance; a page, the next page; narrow and broad.
Wide(sort, offset, rank) ==
  [matches |-> 1..3, rank |-> rank, most |-> 1000, sort |-> sort, offset |-> offset, limit |-> 1]
SomeQueries ==
  {Wide("id", 0, <<3, 2, 1>>), Wide("price_asc", 0, <<1, 2, 3>>), Wide("price_desc", 0, <<3, 1, 2>>),
   Wide("price_asc", 1, <<2, 3, 1>>),
   [matches |-> {1}, rank |-> <<1, 2, 3>>, most |-> 80, sort |-> "price_asc", offset |-> 0, limit |-> 2]}
=============================================================================
