------------------------------ MODULE StockLedger ------------------------------
(***************************************************************************)
(* What the stock services promise, with no transactions, locks or         *)
(* retries: documents and handovers are posted one at a time, each as a    *)
(* whole, each key at most once, never beyond the stock or the debt there  *)
(* is.  StockTransactions implements this specification.                   *)
(***************************************************************************)
EXTENDS StockOperations

VARIABLES
  balance,        \* InventoryBalance.quantity by location and product
  journal,        \* sum of StockMovement.quantity_delta by location and product
  debt,           \* sum of MoneyTransaction.amount by location
  document,       \* the request whose StockDocument row carries a key
  handover,       \* the request whose MoneyTransaction row carries a key
  product_active  \* Product.is_active

vars == <<balance, journal, debt, document, handover, product_active>>

TypeOK ==
  /\ balance \in [Location -> [Product -> Int]]
  /\ journal \in [Location -> [Product -> Int]]
  /\ debt \in [Location -> Int]
  /\ document \in [Key -> Request \cup {NoRequest}]
  /\ handover \in [Key -> Request \cup {NoRequest}]
  /\ product_active \in [Product -> BOOLEAN]

Init ==
  /\ balance = Opening
  /\ journal = Opening
  /\ debt = OpeningDebt
  /\ document = [k \in Key |-> NoRequest]
  /\ handover = [k \in Key |-> NoRequest]
  /\ product_active = [p \in Product |-> TRUE]

-----------------------------------------------------------------------------
Posted(stock, r) ==
  [l \in Location |-> [p \in Product |-> stock[l][p] + Delta(r, l, p)]]

\* The documents table after r is inserted with its key, if it has one.
Registered(table, r) ==
  [k \in Key |-> IF k = r.key THEN r ELSE table[k]]

KeyUnused(table, r) == r.key \in Key => table[r.key] = NoRequest

\* A stock document: lines, movements, balances and money of a sale at once.
PostDocument(r) ==
  /\ r.kind \in DocumentKinds
  /\ Acceptable(r)
  /\ KeyUnused(document, r)
  /\ \A p \in Wanted(r) : product_active[p]
  /\ \A l \in Location, p \in Wanted(r) :
       l \in Places(r) => balance[l][p] + Delta(r, l, p) >= 0
  /\ balance' = Posted(balance, r)
  /\ journal' = Posted(journal, r)
  /\ debt' = [l \in Location |-> debt[l] + MoneyDelta(r, l)]
  /\ document' = Registered(document, r)
  /\ UNCHANGED <<handover, product_active>>

\* A cash handover never exceeds the debt of the representative.
PostHandover(r) ==
  /\ r.kind = "CASH_HANDOVER"
  /\ KeyUnused(handover, r)
  /\ r.amount <= debt[r.source]
  /\ debt' = [l \in Location |-> debt[l] + MoneyDelta(r, l)]
  /\ handover' = Registered(handover, r)
  /\ UNCHANGED <<balance, journal, document, product_active>>

\* archive_product archives only what has no stock.
Archive(r) ==
  /\ r.kind = "archive_product"
  /\ \A l \in Location, p \in Wanted(r) : balance[l][p] = 0
  /\ product_active' = [p \in Product |-> IF p \in Wanted(r) THEN FALSE ELSE product_active[p]]
  /\ UNCHANGED <<balance, journal, debt, document, handover>>

\* The catalogue form: its stock check is not part of what the ledger promises.
SetActive(r) ==
  /\ r.kind = "update_product"
  /\ product_active' = [p \in Product |-> IF p \in Wanted(r) THEN r.active ELSE product_active[p]]
  /\ UNCHANGED <<balance, journal, debt, document, handover>>

Next ==
  \E r \in Request :
    PostDocument(r) \/ PostHandover(r) \/ Archive(r) \/ SetActive(r)

Spec == Init /\ [][Next]_vars
=============================================================================
