---------------------------- MODULE MCOfferStore ----------------------------
(* Instances of OfferStore for TLC.                                        *)
EXTENDS OfferStore, TLC

Clean == [unit |-> FALSE, foreign |-> FALSE, stale |-> FALSE, lacks |-> "none",
          format |-> "cents", style |-> "canonical", copy |-> "none"]

\* Spellings and near-duplicates; late items without a title; refused items.
CatalogMesses == {
  [Clean EXCEPT !.style = "lower", !.copy = "underscore"],
  [Clean EXCEPT !.style = "dashed", !.stale = TRUE, !.lacks = "title"],
  [Clean EXCEPT !.foreign = TRUE]}

\* Price formats, the unit bug and late items, for the spike check.
PriceMesses == {Clean,
  [Clean EXCEPT !.format = "float"],
  [Clean EXCEPT !.unit = TRUE, !.format = "string"],
  [Clean EXCEPT !.stale = TRUE]}

\* Items without a timestamp.
UndatedMesses == {Clean, [Clean EXCEPT !.lacks = "updated_at"]}

Symmetry == Permutations(Retailers) \cup Permutations(Products)
=============================================================================
