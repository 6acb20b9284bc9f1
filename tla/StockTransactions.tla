--------------------------- MODULE StockTransactions ---------------------------
(***************************************************************************)
(* backend/app/services.py and the archive paths, as PostgreSQL runs them: *)
(* every handler is one request with its own READ COMMITTED transaction,   *)
(* and its steps are the statements of the service.  A plain SELECT reads  *)
(* what is committed at that step; FOR UPDATE and an INSERT under a unique *)
(* key wait for the handlers in Blockers; nothing a transaction writes is  *)
(* visible before its Commit; an HTTPException rolls it back.              *)
(***************************************************************************)
EXTENDS StockOperations, FiniteSets, Functions

CONSTANT Handler   \* concurrent requests; each handles one

VARIABLES
  balance, journal, debt, document, handover, product_active, \* committed rows
  location_active,  \* Location.is_active, committed
  pc,               \* the statement a handler executes next
  req,              \* its request
  reply,            \* its answer
  locked,           \* product rows it holds FOR UPDATE
  moved,            \* products whose item it has processed
  buf               \* the balances it has written and not yet committed

rows == <<balance, journal, debt, document, handover, product_active, location_active>>
session == <<locked, moved, buf>>
vars == <<rows, pc, req, reply, session>>

Phases == {"idle", "locations", "lookup", "lock", "representative", "debt",
           "insert", "items", "reselect", "stock", "update", "done"}
Replies == {"none", "ok", "repeated", "conflict", "invalid", "lost"}

TypeOK ==
  /\ balance \in [Location -> [Product -> Int]]
  /\ journal \in [Location -> [Product -> Int]]
  /\ debt \in [Location -> Int]
  /\ document \in [Key -> Request \cup {NoRequest}]
  /\ handover \in [Key -> Request \cup {NoRequest}]
  /\ product_active \in [Product -> BOOLEAN]
  /\ location_active \in [Location -> BOOLEAN]
  /\ pc \in [Handler -> Phases]
  /\ req \in [Handler -> Request \cup {NoRequest}]
  /\ \A h \in Handler : pc[h] # "idle" => req[h] \in Request
  /\ reply \in [Handler -> Replies]
  /\ \A h \in Handler : pc[h] = "done" <=> reply[h] # "none"
  /\ locked \in [Handler -> SUBSET Product]
  /\ moved \in [Handler -> SUBSET Product]
  /\ buf \in [Handler -> [Location -> [Product -> Int]]]

NothingWritten == [l \in Location |-> [p \in Product |-> 0]]

Init ==
  /\ balance = Opening
  /\ journal = Opening
  /\ debt = OpeningDebt
  /\ document = [k \in Key |-> NoRequest]
  /\ handover = [k \in Key |-> NoRequest]
  /\ product_active = [p \in Product |-> TRUE]
  /\ location_active = [l \in Location |-> TRUE]
  /\ pc = [h \in Handler |-> "idle"]
  /\ req = [h \in Handler |-> NoRequest]
  /\ reply = [h \in Handler |-> "none"]
  /\ locked = [h \in Handler |-> {}]
  /\ moved = [h \in Handler |-> {}]
  /\ buf = [h \in Handler |-> NothingWritten]

-----------------------------------------------------------------------------
\* Who holds which row, and whom a handler has to wait for.

IsHandover(h) == req[h].kind = "CASH_HANDOVER"

\* Mutant: lock_active_products without with_for_update.
ProductHoldersNone(p) == {}

\* FOR UPDATE on product p; the UPDATE of update_product commits as it locks.
ProductHolders(p) == {h \in Handler : p \in locked[h]}

\* FOR UPDATE on the balance row of p at l, from its item to the commit.
BalanceHolders(l, p) ==
  {h \in Handler : p \in moved[h] /\ l \in Places(req[h])}

\* Mutant: create_cash_handover without with_for_update.
LocationHoldersNone(l) == {}

\* FOR UPDATE on a location, taken by create_cash_handover.
LocationHolders(l) ==
  {h \in Handler : /\ pc[h] \in {"debt", "insert", "items"}
                   /\ IsHandover(h)
                   /\ l = req[h].source}

\* KEY SHARE on a location, taken by the foreign keys of an inserted document;
\* an adjustment names its location only in its movement rows.
LocationSharers(l) ==
  {h \in Handler : /\ pc[h] = "items"
                   /\ ~IsHandover(h)
                   /\ l \in Places(req[h])
                   /\ req[h].kind = "ADJUSTMENT" => moved[h] # {}}

\* Mutant: client_operation_key without its unique index.
KeyHoldersNone(r) == {}

\* An uncommitted row with the same unique key, in the same table.
KeyHolders(r) ==
  {h \in Handler : /\ pc[h] = "items"
                   /\ r.key \in Key
                   /\ req[h].key = r.key
                   /\ IsHandover(h) <=> (r.kind = "CASH_HANDOVER")}

ToLock(h) == Wanted(req[h]) \ locked[h]
ToMove(h) == Wanted(req[h]) \ moved[h]

Least(S) == CHOOSE p \in S : \A q \in S : p <= q

\* Mutant: the rows are locked in an order that depends on the request.
NextToLockUnordered(h) ==
  IF req[h].source \in Representative
  THEN CHOOSE p \in ToLock(h) : \A q \in ToLock(h) : q <= p
  ELSE Least(ToLock(h))

\* The next row of lock_active_products and of the items loop: both go by id.
NextToLock(h) == Least(ToLock(h))
NextToMove(h) == Least(ToMove(h))

\* Mutant: only the unique index is waited for, no row is read FOR UPDATE.
BlockersWithoutRowLocks(h) ==
  IF pc[h] = "insert" THEN KeyHolders(req[h]) \ {h} ELSE {}

\* The next statement of h needs a row that u has.
WaitsFor(h, u) ==
  LET r == req[h]
  IN  \/ /\ pc[h] = "lock" /\ ToLock(h) # {}
         /\ u \in ProductHolders(NextToLock(h))
      \/ /\ pc[h] = "insert"
         /\ u \in KeyHolders(r) \/ \E l \in Places(r) : u \in LocationHolders(l)
      \/ /\ pc[h] = "items" /\ ToMove(h) # {}
         /\ \E l \in Places(r) :
              u \in LocationHolders(l) \cup BalanceHolders(l, NextToMove(h))
      \/ /\ pc[h] = "representative"
         /\ u \in LocationHolders(r.source) \cup LocationSharers(r.source)
      \/ /\ pc[h] = "update"
         /\ \/ \E p \in Wanted(r) : u \in ProductHolders(p)
            \/ \E l \in Places(r) : u \in LocationHolders(l)

\* Whom h has to wait for; its own locks do not block it.
Blockers(h) == {u \in Handler \ {h} : WaitsFor(h, u)}

-----------------------------------------------------------------------------
Goto(h, phase) == pc' = [pc EXCEPT ![h] = phase]

\* Mutant: the transaction ends and keeps its product rows locked.
ReleaseLeaking(h) ==
  /\ moved' = [moved EXCEPT ![h] = {}]
  /\ buf' = [buf EXCEPT ![h] = NothingWritten]
  /\ UNCHANGED locked

\* The end of the transaction, committed or rolled back, releases its locks.
Release(h) ==
  /\ locked' = [locked EXCEPT ![h] = {}]
  /\ moved' = [moved EXCEPT ![h] = {}]
  /\ buf' = [buf EXCEPT ![h] = NothingWritten]

\* Mutant: the handler ends without an answer.
AnswerNothing(h, a) ==
  /\ Goto(h, "done")
  /\ UNCHANGED <<req, reply>>
  /\ Release(h)

Answer(h, a) ==
  /\ Goto(h, "done")
  /\ reply' = [reply EXCEPT ![h] = a]
  /\ UNCHANGED req
  /\ Release(h)

\* The balances after the writes of h.
Written(h) ==
  [l \in Location |-> [p \in Product |->
     IF l \in Places(req[h]) /\ p \in moved[h] THEN buf[h][l][p] ELSE balance[l][p]]]

\* Mutant: an HTTPException commits the items processed so far.
RefuseCommitting(h, a) ==
  /\ Answer(h, a)
  /\ balance' = Written(h) /\ journal' = Written(h)
  /\ UNCHANGED <<debt, document, handover, product_active, location_active>>

\* A request answered without writing a row: its transaction is rolled back.
Refuse(h, a) == Answer(h, a) /\ UNCHANGED rows

Continue(h, phase) == Goto(h, phase) /\ UNCHANGED <<rows, req, reply>>

\* Mutant: the key is looked up among the documents only.
ExistingDocument(r) == IF r.key \notin Key THEN NoRequest ELSE document[r.key]

\* The committed row with the key of r, in the table r would be inserted into.
Existing(r) ==
  IF r.key \notin Key THEN NoRequest
  ELSE IF r.kind = "CASH_HANDOVER" THEN handover[r.key] ELSE document[r.key]

\* Mutant: a known key is answered without comparing the contents.
KeyAnswerUnchecked(r) == "repeated"

\* _check_document_key and _check_money_key compare kind and payload hash.
KeyAnswer(r) == IF Existing(r) = r THEN "repeated" ELSE "conflict"

-----------------------------------------------------------------------------
\* A request arrives at its endpoint.
Receive(h, r) ==
  /\ pc[h] = "idle"
  /\ req' = [req EXCEPT ![h] = r]
  /\ Goto(h, IF r.kind \in OperationKinds THEN "locations"
             ELSE IF r.kind = "archive_product" THEN "lock" ELSE "stock")
  /\ UNCHANGED <<rows, reply, session>>

\* _require_location_kind: plain reads, before the key is looked up.
CheckLocations(h) ==
  /\ pc[h] = "locations"
  /\ IF \E l \in Places(req[h]) : ~location_active[l] THEN Refuse(h, "conflict")
     ELSE IF ~KindsFit(req[h]) \/ ~Acceptable(req[h]) THEN Refuse(h, "invalid")
     ELSE Continue(h, "lookup") /\ UNCHANGED session

\* _existing_document: a plain read of the unique key.
Lookup(h) ==
  /\ pc[h] = "lookup"
  /\ IF Existing(req[h]) # NoRequest THEN Refuse(h, KeyAnswer(req[h]))
     ELSE /\ Continue(h, IF IsHandover(h) THEN "representative" ELSE "lock")
          /\ UNCHANGED session

\* One row of SELECT ... ORDER BY id FOR UPDATE in lock_active_products, or the
\* single row of archive_product.
LockProduct(h) ==
  /\ pc[h] = "lock" /\ ToLock(h) # {}
  /\ Blockers(h) = {}
  /\ locked' = [locked EXCEPT ![h] = @ \cup {NextToLock(h)}]
  /\ UNCHANGED <<rows, pc, req, reply, moved, buf>>

\* Mutant: only archive_product looks at is_active.
FindsArchivedUnchecked(h) ==
  /\ req[h].kind = "archive_product"
  /\ \E p \in Wanted(req[h]) : ~product_active[p]

FindsArchived(h) == \E p \in Wanted(req[h]) : ~product_active[p]

\* All rows are locked: lock_active_products refuses an archived product, and
\* archive_product has nothing to do with one.
CheckProducts(h) ==
  /\ pc[h] = "lock" /\ ToLock(h) = {}
  /\ IF FindsArchived(h)
     THEN Refuse(h, IF req[h].kind = "archive_product" THEN "repeated" ELSE "conflict")
     ELSE /\ Continue(h, IF req[h].kind = "archive_product" THEN "stock" ELSE "insert")
          /\ UNCHANGED session

\* The flush of the new row under its unique key.  It waits for an uncommitted
\* row with that key; a committed one is an IntegrityError and a rollback.
InsertRow(h) ==
  /\ pc[h] = "insert"
  /\ Blockers(h) = {}
  /\ IF Existing(req[h]) = NoRequest
     THEN Continue(h, "items") /\ UNCHANGED session
     ELSE Continue(h, "reselect") /\ Release(h)

\* After the rollback the row is selected again and decides the answer.
Reselect(h) ==
  /\ pc[h] = "reselect"
  /\ Refuse(h, KeyAnswer(req[h]))

After(r, l, p) == balance[l][p] + Delta(r, l, p)

\* Mutant: an adjustment is not checked against the stock.
ShortUnlessAdjusted(r, p) ==
  r.kind # "ADJUSTMENT" /\ \E l \in Places(r) : After(r, l, p) < 0

Short(r, p) == \E l \in Places(r) : After(r, l, p) < 0

\* One item of the loop: lock its balance rows, check and write them.
MoveItem(h) ==
  LET r == req[h]
      p == NextToMove(h)
  IN  /\ pc[h] = "items" /\ ToMove(h) # {}
      /\ Blockers(h) = {}
      /\ IF Short(r, p)
         THEN Refuse(h, "conflict")
         ELSE /\ moved' = [moved EXCEPT ![h] = @ \cup {p}]
              /\ buf' = [buf EXCEPT ![h] = [l \in Location |->
                   IF l \in Places(r) THEN [buf[h][l] EXCEPT ![p] = After(r, l, p)]
                   ELSE buf[h][l]]]
              /\ UNCHANGED <<rows, pc, req, reply, locked>>

Charged(r) == [l \in Location |-> debt[l] + MoneyDelta(r, l)]

\* COMMIT publishes the balances the handler wrote, the movement and money rows
\* and the document or handover row under its key.
Commit(h) ==
  LET r == req[h]
      Table(t) == [k \in Key |-> IF k = r.key THEN r ELSE t[k]]
  IN  /\ pc[h] = "items" /\ ToMove(h) = {}
      /\ balance' = Written(h)
      /\ journal' = [l \in Location |-> [p \in Product |->
           journal[l][p] + Delta(r, l, p)]]
      /\ debt' = Charged(r)
      /\ document' = IF IsHandover(h) THEN document ELSE Table(document)
      /\ handover' = IF IsHandover(h) THEN Table(handover) ELSE handover
      /\ UNCHANGED <<product_active, location_active>>
      /\ Answer(h, "ok")

\* SELECT location FOR UPDATE in create_cash_handover.
LockRepresentative(h) ==
  /\ pc[h] = "representative"
  /\ Blockers(h) = {}
  /\ Continue(h, "debt")
  /\ UNCHANGED session

\* representative_debt, summed under the lock of the location.
CheckDebt(h) ==
  /\ pc[h] = "debt"
  /\ IF req[h].amount > debt[req[h].source] THEN Refuse(h, "conflict")
     ELSE Continue(h, "insert") /\ UNCHANGED session

-----------------------------------------------------------------------------
\* What an archive request finds when it reads the row and its stock: nothing to
\* change, stock left, or a row it may update.  Only archive_product holds the
\* row lock here.
ReadStock(h) ==
  LET r == req[h]
      Same == IF r.kind = "update_location"
              THEN location_active[r.source] = r.active
              ELSE \A p \in Wanted(r) : product_active[p] = r.active
      Stocked == IF r.kind = "update_location"
                 THEN \E p \in Product : balance[r.source][p] # 0
                 ELSE \E l \in Location, p \in Wanted(r) : balance[l][p] # 0
  IN  /\ pc[h] = "stock"
      /\ IF Same THEN Refuse(h, "repeated")
         ELSE IF ~r.active /\ Stocked THEN Refuse(h, "conflict")
         ELSE Continue(h, "update") /\ UNCHANGED session

\* UPDATE ... SET is_active, and COMMIT.
UpdateActive(h) ==
  LET r == req[h]
  IN  /\ pc[h] = "update"
      /\ Blockers(h) = {}
      /\ product_active' = [p \in Product |->
           IF p \in Wanted(r) THEN r.active ELSE product_active[p]]
      /\ location_active' = [l \in Location |->
           IF r.kind = "update_location" /\ l = r.source THEN r.active
           ELSE location_active[l]]
      /\ UNCHANGED <<balance, journal, debt, document, handover>>
      /\ Answer(h, "ok")

\* The process or its connection dies: PostgreSQL rolls the transaction back.
Crash(h) ==
  /\ pc[h] \notin {"idle", "done"}
  /\ Refuse(h, "lost")

Step(h) ==
  \/ CheckLocations(h) \/ Lookup(h)
  \/ LockProduct(h) \/ CheckProducts(h)
  \/ InsertRow(h) \/ Reselect(h) \/ MoveItem(h) \/ Commit(h)
  \/ LockRepresentative(h) \/ CheckDebt(h)
  \/ ReadStock(h) \/ UpdateActive(h)

Next ==
  \E h \in Handler :
    \/ \E r \in Request : Receive(h, r)
    \/ Step(h)
    \/ Crash(h)

Spec == Init /\ [][Next]_vars
\* The event loop runs every handler that can take a step and PostgreSQL grants
\* a free lock; neither a client nor a crash is obliged to act.
FairSpec == Spec /\ \A h \in Handler : WF_vars(Step(h))

-----------------------------------------------------------------------------
\* A handler whose document or handover is committed, whether or not its client
\* ever reads the answer.
Posted(h) == reply[h] = "ok" /\ req[h].kind \in OperationKinds

Done == {h \in Handler : Posted(h)}

\* The stock and the debt are exactly what the posted documents and handovers add
\* to the opening: nothing is applied in part, twice, or without its row.
DocumentsExplainState ==
  \A l \in Location :
    /\ debt[l] = OpeningDebt[l] + SumFunction([h \in Done |-> MoneyDelta(req[h], l)])
    /\ \A p \in Product :
         balance[l][p] = Opening[l][p] + SumFunction([h \in Done |-> Delta(req[h], l, p)])

\* Every write of a balance is a write of the same movements: no interleaving
\* of read-modify-write loops loses one (README: a balance changes only together
\* with its document and movements).
BalanceMatchesMovements == balance = journal

\* One key never posts two documents, or two handovers, however many times and
\* however concurrently the request is sent.
OneRowPerKey ==
  \A h, u \in Handler :
    /\ Posted(h) /\ Posted(u) /\ h # u
    /\ req[h].key = req[u].key
    /\ IsHandover(h) <=> IsHandover(u)
    => req[h].key = NoKey

\* "repeated" is told only to a client whose very request has been posted.
RepeatedMeansPosted ==
  \A h \in Handler :
    reply[h] = "repeated" /\ req[h].kind \in OperationKinds
      => \E u \in Handler : Posted(u) /\ req[u] = req[h]

\* Concurrent sales and handovers never leave a negative balance or a debt
\* handed over twice; only the balance has a CHECK constraint behind it.
StockNeverNegative == \A l \in Location, p \in Product : balance[l][p] >= 0
DebtNeverNegative == \A l \in Location : debt[l] >= 0

\* An archived product has no stock anywhere (the 409 messages of archive_product
\* and update_product).
ArchivedHasNoStock ==
  \A p \in Product : ~product_active[p] => \A l \in Location : balance[l][p] = 0

\* No set of handlers waits only on each other: PostgreSQL never has to abort one
\* with deadlock_detected, which no caller retries.
NoDeadlock ==
  \A S \in (SUBSET Handler) \ {{}} : \E h \in S : Blockers(h) \cap S = {}

\* The product rows alone serialise the balances: a handler in its items loop
\* never finds a balance row locked by another one.
BalanceRowsUncontended ==
  \A h \in Handler :
    pc[h] = "items" =>
      \A l \in Places(req[h]), p \in ToMove(h) : BalanceHolders(l, p) \subseteq {h}

\* Every request that arrives is answered.
EveryRequestAnswered == \A h \in Handler : pc[h] # "idle" ~> pc[h] = "done"

\* The transactions implement the ledger: every step is one whole operation of
\* StockLedger or changes nothing it can see.
Ledger == INSTANCE StockLedger WITH
            balance <- balance, journal <- journal, debt <- debt,
            document <- document, handover <- handover, product_active <- product_active
LedgerSpec == Ledger!Spec
=============================================================================
