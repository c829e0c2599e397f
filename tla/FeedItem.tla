------------------------------ MODULE FeedItem ------------------------------
(***************************************************************************)
(* One offer on its way through the wire: what appendItem of               *)
(* internal/feedgen/server.go makes of it under a retailer's quirks, and   *)
(* what Normalize of internal/ingest/normalize.go makes of that.           *)
(*                                                                         *)
(* The random draws of appendItem for one item are a record, its mess:     *)
(* unit (price x100), foreign (wrong currency), stale (old timestamp),     *)
(* lacks (the field left out, or "none"), format (of the price, drift      *)
(* included), style (the retailer's SKU style), copy (how the SKU of the   *)
(* near-duplicate is mangled, or "none").  The feed omits or breaks no     *)
(* other field, so the refusals for those are left out.                    *)
(*                                                                         *)
(* Names that end in a parenthesised "Fault" comment are faulty variants   *)
(* of the definition that follows them.                                    *)
(***************************************************************************)
EXTENDS Integers

Fields  == {"title", "currency", "updated_at"}
Formats == {"cents", "float", "string"}
Styles  == {"canonical", "lower", "dashed"}
Mangles == {"lower", "underscore", "padded"}

AllMesses ==
  [unit : BOOLEAN, foreign : BOOLEAN, stale : BOOLEAN, lacks : Fields \cup {"none"},
   format : Formats, style : Styles, copy : Mangles \cup {"none"}]

-----------------------------------------------------------------------------
(* SKUs.  A spelling of DS-00000042 is the product with its letter case,   *)
(* what stands between DS and the digits, and the padding.                 *)

Canonical(product) == [product |-> product, case |-> "upper", sep |-> "-", pad |-> ""]

\* styleSKU and mangleSKU
Spell(product, style) ==
  LET sku == Canonical(product) IN
  CASE style = "lower"      -> [sku EXCEPT !.case = "lower"]
    [] style = "dashed"     -> [sku EXCEPT !.sep = "--"]
    [] style = "underscore" -> [sku EXCEPT !.sep = "_"]
    [] style = "padded"     -> [sku EXCEPT !.pad = " "]
    [] OTHER                -> sku

\* Letters, in upper case, and digits stay: they name the product, and what
\* else a spelling has is gone.
\* (Fault) underscores stay too
NormalizeSKUFault(sku) == IF sku.sep = "_" THEN sku ELSE sku.product
NormalizeSKU(sku) == sku.product

-----------------------------------------------------------------------------
(* Prices.                                                                 *)

Wire(cents, format) ==
  IF format = "cents" THEN [format |-> "cents", cents |-> cents]
  ELSE [format |-> format, dollars |-> cents \div 100, cents |-> cents % 100]

\* f * 100, in thousandths of a cent: fractions of a dollar are not exact,
\* so that 19.99 * 100 is a little less than 1999.
TimesHundred(w) == 1000 * (100 * w.dollars + w.cents) - (IF w.cents = 0 THEN 0 ELSE 1)

\* (Fault) the product is truncated
RoundFault(thousandths) == thousandths \div 1000
Round(thousandths) == (thousandths + 500) \div 1000

ParsePrice(w) == IF w.format = "cents" THEN w.cents ELSE Round(TimesHundred(w))

PriceMinCents == 1
PriceMaxCents == 200000

-----------------------------------------------------------------------------
(* appendItem: one item, and a near-duplicate after it.                    *)

Serialize(offer, m) ==
  [sku   |-> Spell(offer.product, m.style),
   price |-> Wire(IF m.unit THEN 100 * offer.cents ELSE offer.cents, m.format),
   usd   |-> ~m.foreign,
   at    |-> IF m.stale THEN 0 ELSE offer.at,
   lacks |-> m.lacks]

AppendItem(offer, m) ==
  LET item == Serialize(offer, m) IN
  IF m.copy = "none" THEN <<item>>
  ELSE <<item, [item EXCEPT !.sku = Spell(offer.product, m.copy)]>>

-----------------------------------------------------------------------------
(* Normalize, at time now.                                                 *)

\* A currency that is missing is taken for USD.
Refusal(raw) ==
  IF ParsePrice(raw.price) \notin PriceMinCents..PriceMaxCents THEN "price_out_of_range"
  ELSE IF ~raw.usd /\ raw.lacks # "currency" THEN "unsupported_currency"
  ELSE "none"

\* A timestamp that is missing is taken for now.
Normalized(raw, now) ==
  [sku    |-> NormalizeSKU(raw.sku),
   price  |-> ParsePrice(raw.price),
   titled |-> raw.lacks # "title",
   at     |-> IF raw.lacks = "updated_at" THEN now ELSE raw.at]
=============================================================================
