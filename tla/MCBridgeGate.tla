---------------------------- MODULE MCBridgeGate ----------------------------
(***************************************************************************)
(* BridgeGate with one operation of each kind, two structures, and a       *)
(* mapping that an edit makes lack something, name another provider or     *)
(* look for a document elsewhere.  A run writes a page of two operations,  *)
(* health looks at three.                                                  *)
(***************************************************************************)
EXTENDS BridgeGate

CONSTANTS store, van, newVan, nut, bolt, f1, f2, f3

MCProduct == {nut, bolt}
MCPlace == {store, van, newVan}
MCRep == {van, newVan}
MCField == {f1, f2, f3}
MCFirstMapped == MCPlace \cup {nut}

Move(kind, price, from, to, n, b) ==
  [kind |-> kind, price |-> price, from |-> from, to |-> to,
   moves |-> [p \in MCProduct |-> IF p = nut THEN n ELSE b]]

\* Operation 1 is blocked until bolt has an identifier.
MCOp == 1..4
MCAbout ==
  <<Move("sale", "wholesale", van, van, 2, 1),
    Move("adjustment", "none", store, store, 2, -1),
    Move("transfer", "none", store, van, 1, 0),
    Move("handover", "none", newVan, newVan, 0, 0)>>

Old == [fields |-> {f1, f2}, opaque |-> {}]
New == [fields |-> {f1, f3}, opaque |-> {f2}]
MCPublished == {Old, New}

Good ==
  [provider |-> "1cfresh", parses |-> {"tenant", "products", "locations"},
   fields |-> {f1, f2}, catalogue |-> {f1}, key |-> [a \in Alias |-> f1],
   lock |-> Old, constants |-> Constant, complete |-> Alias,
   allow |-> {store, van}, payers |-> {van, newVan}]

MCMapping ==
  {Good,
   [Good EXCEPT !.lock = NoLock],
   [Good EXCEPT !.payers = {van}],
   [Good EXCEPT !.constants = @ \ {"wholesale"}, !.complete = @ \ {"stock_writeoff"}],
   [Good EXCEPT !.parses = {}],
   [Good EXCEPT !.provider = "other"],
   [Good EXCEPT !.key = [@ EXCEPT !["stock_receipt"] = f2]],
   [Good EXCEPT !.fields = {f1, f3}, !.lock = New]}

MCFirstMapping == {Good}
=============================================================================
