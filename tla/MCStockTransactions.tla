-------------------------- MODULE MCStockTransactions --------------------------
(***************************************************************************)
(* Small instances of StockTransactions: two products, one warehouse, one  *)
(* or two representatives, two keys, two or three concurrent requests.     *)
(***************************************************************************)
EXTENDS StockTransactions, TLC

CONSTANTS h1, h2, h3, w, r1, r2, k1, k2

MCProduct == 1..2

Ask(kind, key, source, destination, quantity, amount, active) ==
  [kind |-> kind, key |-> key, source |-> source, destination |-> destination,
   quantity |-> quantity, amount |-> amount, active |-> active]

Issue(key, quantity) == Ask("ISSUE_TO_REPRESENTATIVE", key, w, r1, quantity, 0, FALSE)
Return(key, quantity) == Ask("REPRESENTATIVE_RETURN", key, r1, w, quantity, 0, FALSE)
Sale(key, quantity, amount) == Ask("SALE", key, r1, NoLocation, quantity, amount, FALSE)
Adjust(quantity) == Ask("ADJUSTMENT", NoKey, NoLocation, w, quantity, 0, FALSE)
Handover(key, rep, amount) == Ask("CASH_HANDOVER", key, rep, NoLocation, <<0, 0>>, amount, FALSE)
Archive(p) ==
  Ask("archive_product", NoKey, NoLocation, NoLocation, [q \in 1..2 |-> IF q = p THEN 1 ELSE 0], 0, FALSE)
SetProduct(p, active) == [Archive(p) EXCEPT !.kind = "update_product", !.active = active]
SetLocation(l, active) == Ask("update_location", NoKey, l, NoLocation, <<0, 0>>, 0, active)

\* Stock: two products moved in one document both ways, the last unit wanted by
\* several, a key sent twice, a key reused for another payload, for other products
\* and for a sale.
StockRequests ==
  {Issue(k1, <<1, 1>>), Issue(k1, <<1, 0>>), Return(k2, <<1, 1>>), Sale(k1, <<1, 0>>, 2),
   Adjust(<<-1, 1>>), Adjust(<<0, 0>>), Issue(k1, <<0, 1>>),
   Ask("TRANSFER", k2, w, r1, <<1, 0>>, 0, FALSE)}

\* Money: handovers against a debt that covers only one of them, with one key for
\* two representatives, next to a sale that raises the debt.
MoneyRequests ==
  {Handover(k1, r1, 2), Handover(k1, r2, 2), Handover(k2, r1, 1), Handover(NoKey, r1, 2),
   Sale(k1, <<1, 0>>, 2), Return(k2, <<1, 0>>), SetLocation(r1, FALSE), SetLocation(r1, TRUE)}

\* Archiving under the row lock, racing documents that take the last stock away and
\* bring it back.
ArchiveRequests ==
  {Archive(1), Archive(2), Sale(k1, <<1, 0>>, 1), Return(k1, <<1, 0>>), Adjust(<<0, 1>>),
   Adjust(<<0, -1>>), Issue(NoKey, <<1, 0>>), SetProduct(1, TRUE), SetProduct(2, TRUE)}

\* The requests at once belong to one scenario.
Scenario == {StockRequests, MoneyRequests, ArchiveRequests}
AllRequests == UNION Scenario
OneScenario == \E S \in Scenario : \A h \in Handler : req[h] \in S \cup {NoRequest}

\* The last unit of product 2, one unit of product 1 in each place.
MCOpening == (w :> <<1, 1>>) @@ (r1 :> <<1, 0>>) @@ (r2 :> <<0, 0>>)
MCOpeningDebt == (w :> 0) @@ (r1 :> 2) @@ (r2 :> 2)

\* Archiving with the check of the catalogue form.
CatalogueRequests == {SetProduct(2, FALSE), Adjust(<<0, 1>>), Adjust(<<0, -1>>)}

\* Liveness and refinement: opposite documents over both products and both ways to
\* archive, or handovers next to a sale and a document of another key.
ProgressStock ==
  {Issue(k1, <<1, 1>>), Return(k1, <<1, 1>>), Sale(k2, <<1, 0>>, 1), Adjust(<<0, -1>>),
   Archive(2), SetProduct(2, FALSE)}
ProgressMoney ==
  {Handover(k1, r1, 1), Handover(k2, r1, 2), Sale(k2, <<1, 0>>, 2), Issue(k1, <<1, 0>>)}
ProgressRequests == ProgressStock \cup ProgressMoney
OneProgressScenario ==
  \E S \in {ProgressStock, ProgressMoney} : \A h \in Handler : req[h] \in S \cup {NoRequest}
SmallOpening == (w :> <<1, 1>>) @@ (r1 :> <<1, 0>>)
SmallOpeningDebt == (w :> 0) @@ (r1 :> 1)

HandlerSymmetry == Permutations(Handler)
=============================================================================
