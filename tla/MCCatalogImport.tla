--------------------------- MODULE MCCatalogImport ---------------------------
(***************************************************************************)
(* A small instance of CatalogImport: two products and a location, sku a   *)
(* and b, prices lo and hi.                                                *)
(***************************************************************************)
EXTENDS CatalogImport

CONSTANTS h1, h2, h3, k1, k2, d1, a, b, shop, lo, hi, warehouse

MCProduct == {1, 2}
MCLocation == {3}
MCKey ==
  {k1, k2} \cup
  [ref : Ref, label : Label, detail : Detail \cup {NoPrice}, version : 0..MaxChanges \cup {NoVersion},
   marked : BOOLEAN]

Row1(label, detail, active) == [label |-> label, detail |-> detail, active |-> active]
MCExisting ==
  {[r \in Ref |-> IF r = 1 THEN Row1(a, lo, TRUE)
                  ELSE IF r = 3 THEN Row1(shop, warehouse, TRUE) ELSE NoEntry]}
MCOpening == [p \in Product |-> 0]

Card(label, detail, marked) == [label |-> label, detail |-> detail, marked |-> marked]
MCCards ==
  [r \in Ref |->
     CASE r = 1 -> {Card(a, lo, FALSE), Card(b, lo, FALSE), Card(a, lo, TRUE)}
       [] r = 2 -> {Card(b, lo, FALSE), Card(b, hi, FALSE), Card(b, BadPrice, FALSE)}
       [] OTHER -> {Card(shop, warehouse, FALSE)}]
MCAtFirst ==
  [r \in Ref |-> IF r = 1 THEN Card(a, lo, FALSE) ELSE IF r = 2 THEN Card(b, lo, FALSE)
                 ELSE Card(shop, warehouse, FALSE)]

Product1(key, detail, active) ==
  [kind |-> "product", key |-> key, id |-> 1, label |-> a, detail |-> detail, active |-> active]
Adjustment(key) ==
  [kind |-> "adjustment", key |-> key, id |-> d1, place |-> 3,
   delta |-> [p \in Product |-> IF p = 1 THEN 1 ELSE 0]]
MCDirect ==
  {Product1(k1, hi, TRUE), Product1(k2, lo, FALSE), Adjustment(k1), Adjustment(k2),
   [kind |-> "archive", key |-> k2, id |-> 1]}
=============================================================================
