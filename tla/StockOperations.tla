---------------------------- MODULE StockOperations ----------------------------
(***************************************************************************)
(* The requests that change stock, debt or the archive flag of a product   *)
(* or a location, and what each of them asks for.  Shared by the abstract  *)
(* StockLedger and by StockTransactions, which implements it.              *)
(*                                                                         *)
(* A request is the payload after _aggregate_movement_items or             *)
(* _aggregate_adjustment_items: one quantity for each product, zero for a  *)
(* product it does not mention.  Units are whole numbers here; the         *)
(* rounding of Numeric(16,3) columns is not modelled.                      *)
(***************************************************************************)
EXTENDS Integers

CONSTANTS
  Product,        \* products, numbered in the order of their ids
  Location,       \* warehouses and virtual stores of representatives
  Representative, \* the locations of kind REPRESENTATIVE
  Key,            \* client operation keys
  Request,        \* the requests clients may send
  NoKey,          \* operation_key is None
  NoLocation,     \* a location column that is NULL
  NoRequest,      \* no row with this key
  Opening,        \* the stock at the start, posted by earlier documents
  OpeningDebt     \* the debt at the start, posted by earlier sales

TransferKinds == {"TRANSFER", "ISSUE_TO_REPRESENTATIVE", "REPRESENTATIVE_RETURN"}
DocumentKinds == TransferKinds \cup {"SALE", "ADJUSTMENT"}
OperationKinds == DocumentKinds \cup {"CASH_HANDOVER"}
ArchiveKinds == {"archive_product", "update_product", "update_location"}

\* "amount" is the money of a sale (quantity times the price of the locked
\* product row) or the sum handed over; "active" is what an archive request
\* sets is_active to.
RequestRecord ==
  [kind : OperationKinds \cup ArchiveKinds,
   key : Key \cup {NoKey},
   source : Location \cup {NoLocation},
   destination : Location \cup {NoLocation},
   quantity : [Product -> Int],
   amount : Nat,
   active : BOOLEAN]

\* What the pydantic schemas accept before a service runs: only movements of an
\* adjustment may be negative, a sale and a handover name a source, a handover
\* and an archived location no product, an archived product exactly one.
WellFormed(r) ==
  /\ r \in RequestRecord
  /\ r.kind # "ADJUSTMENT" => \A p \in Product : r.quantity[p] >= 0
  /\ r.kind = "ADJUSTMENT" =>
       r.source = NoLocation /\ r.destination \in Location /\ r.key = NoKey
  /\ r.kind \in {"SALE", "CASH_HANDOVER", "update_location"} =>
       r.source \in Location /\ r.destination = NoLocation
  /\ r.kind \in {"CASH_HANDOVER", "update_location"} =>
       \A p \in Product : r.quantity[p] = 0
  /\ r.kind \in TransferKinds => r.source \in Location /\ r.destination \in Location
  /\ r.kind \in {"archive_product", "update_product"} =>
       /\ r.source = NoLocation /\ r.destination = NoLocation
       /\ \E p \in Product : \A q \in Product : (r.quantity[q] # 0) <=> (q = p)
  /\ r.kind = "archive_product" => ~r.active

ASSUME StockAssumption ==
  /\ Product \subseteq Nat
  /\ NoLocation \notin Location
  /\ NoKey \notin Key
  /\ NoRequest \notin Request
  /\ Representative \subseteq Location
  /\ \A r \in Request : WellFormed(r)
  /\ Opening \in [Location -> [Product -> Nat]]
  /\ OpeningDebt \in [Location -> Nat]

-----------------------------------------------------------------------------
\* The products a request names and the locations it touches.
Wanted(r) == {p \in Product : r.quantity[p] # 0}
Places(r) == {r.source, r.destination} \ {NoLocation}

\* quantity_delta of the movement rows of r at location l for product p.
Delta(r, l, p) ==
  (IF l = r.destination THEN r.quantity[p] ELSE 0)
    - (IF l = r.source THEN r.quantity[p] ELSE 0)

\* The MoneyTransaction row of r, as a change of the debt of location l.
MoneyDelta(r, l) ==
  IF l # r.source THEN 0
  ELSE IF r.kind = "SALE" THEN r.amount
  ELSE IF r.kind = "CASH_HANDOVER" THEN -r.amount ELSE 0

\* _require_location_kind of each endpoint.
KindsFit(r) ==
  LET From == r.source \in Representative
      To == r.destination \in Representative
  IN  CASE r.kind = "TRANSFER" -> ~From /\ ~To
        [] r.kind = "ISSUE_TO_REPRESENTATIVE" -> ~From /\ To
        [] r.kind = "REPRESENTATIVE_RETURN" -> From /\ ~To
        [] r.kind \in {"SALE", "CASH_HANDOVER"} -> From
        [] OTHER -> TRUE

\* The 422 answers of the services: same source and destination, no product left.
Acceptable(r) ==
  /\ r.kind \in TransferKinds => r.source # r.destination
  /\ r.kind \in DocumentKinds => Wanted(r) # {}
=============================================================================
