# Formal models of «Цех Склад»

TLA+ modules of the program in this repository, the TLC configurations that check them on small
instances, and proofs for every value of the constants.  Paths below are relative to the
repository.

- `tlc -config StockSafety.cfg MCStockTransactions` runs one configuration;
- `tlapm StockInvariant_proofs.tla` checks the proofs of one module.

## 1. The system

| Part | Code | State it keeps | Operations |
|---|---|---|---|
| Stock and money services | `backend/app/services.py`, endpoints in `api.py` | balances, documents with lines and movements, money transactions (PostgreSQL) | transfer, issue to a representative, return, sale, adjustment, cash handover |
| Catalogue administration | `backend/app/admin_catalog.py` | products and locations, `is_active` | create, update, archive, restore |
| Product archive for 1C | `backend/app/integration_archive_check.py` | `is_active`, exchange log | check, archive |
| Imports from 1C | `backend/app/integration_1c.py` | exchange log (`processing`, `completed`, `failed`) | import a product, a location, an adjustment |
| Outbox | `integration_1c.py`, `unf_cloud.py` | none: the operations without `synced_1c_at` | list, oldest first, at most 100 |
| Export confirmation | `integration_1c.py`, `integration_export_api.py`, `integration_export.py` | `external_1c_id`, `synced_1c_at`, export links, exchange log | confirm one document, confirm a batch |
| Accounts and login | `auth.py`, `account_security.py`, `admin_users.py`, `api.py`, `bootstrap.py` | password hash, failed attempts, lock, `is_active` | login, change and reset a password, enable, disable and create accounts |
| Realtime | `realtime.py`, `api.py` | open websockets | connect, broadcast `stock_changed` |
| Bridge to 1C:UNF | `unf-bridge/unf_bridge` | none of its own: the documents of 1C:UNF | plan, find, create, post, confirm; import of products and locations |
| Bridge configuration and gate | `tenant_config.py`, `tenant_audit.py`, `schema_lock.py`, `operation_payloads.py`, `payload_builder.py`, `health.py` | the mapping file, the accepted structure | load, audit, compare, build payloads, report ready |
| Mobile client | `android/.../data`, `ui/CehSkladApp.kt` | queue of pending operations, session, snapshot (Room and preferences) | submit or queue, synchronise on the screen and in a worker, discard, login, restore, logout |
| Web client, reports, scripts | `admin-web`, `reporting.py`, `scripts` | none that matters here | forms, queries, deployment |

How they interact.  Web and mobile clients call the API over HTTP; each request runs in one database
session.  The mobile client repeats an operation with the same `operation_key` until it has an
answer.  The bridge is a oneshot timer under a file lock: it reads the outbox, writes documents into
1C:UNF by OData and reports their references, after which the operation leaves the outbox.  1C
catalogues come back through the import endpoints, each with its own `operation_key`.

What is hard here.  Every service is a chain of `await`ed statements of a READ COMMITTED
transaction, so between any two statements other requests commit; what holds them apart is a few
row locks, three unique indexes and one CHECK.  Answers get lost, so clients and the bridge repeat
requests, at once or much later.  Processes die between two writes, in 1C:UNF without a
transaction around them.

What makes each part correct:

- stock and money: balances equal the sum of their movements; nothing applied in part or twice;
  no negative stock; no handover beyond the debt; no deadlock; every request answered;
- archive: nothing archived has stock;
- confirmation: an operation leaves the outbox exactly with its documents; a confirmed set never
  changes; a document of 1C:UNF belongs to one operation;
- imports: a key is executed once; the log says what happened; a repeated key never undoes a newer one;
- bridge: at most one document for each key in 1C:UNF; confirmed means created and posted; every
  ready operation is delivered in the end;
- mobile queue: an operation is applied at most once and is never lost without the user's word;
- accounts: the number of guesses is bounded; a token dies with its password; an active administrator
  remains and a virtual warehouse has one representative, but for one race each;
- gate: what health called ready is delivered; documents are written under the accepted structure and
  carry what the operation moved.

`PROJECT.json` lists these hazards at their lines, with the properties that cover them.

## 2. Modules and plan

| # | Module | About | State |
|---|---|---|---|
| 1 | `StockOperations` | requests, what they ask for, their validation | done |
| 2 | `StockLedger` | abstract: whole operations, one at a time | done |
| 3 | `StockTransactions`, `MCStockTransactions` | the services as concurrent transactions; implements 2 | done |
| 4 | `StockTransactions_proofs`, `StockInvariant_proofs` | proofs about 3 | done |
| 5 | `ExportConfirm`, `MCExportConfirm`, `ExportConfirm_proofs` | concurrent confirmations; proofs | done |
| 6 | `UnfBridge`, `MCUnfBridge`, `UnfBridge_proofs` | outbox, delivery, early ends, confirmation, the lock; proofs | done |
| 7 | `ImportLog` | endpoints of 1C: exchange log, imports, retries, archive keys | done |
| 8 | `CatalogImport`, `MCCatalogImport`, `CatalogImport_proofs` | the import units of the bridge, composed with 7; proofs about both | done |
| 9 | `AccountAccess`, `MCAccountAccess`, `AccountAccess_proofs` | login lock, tokens, resets, accounts; proofs | done |
| 10 | `BridgeGate`, `MCBridgeGate`, `BridgeGate_proofs` | mapping, structure lock, payloads, health and synchronisation side by side; proofs | done |
| 11 | `OperationPromise`, `MobileQueue`, `MCMobileQueue`, `MobileQueue_proofs` | queue, screen, worker and session of the mobile client; implements the promise; proofs | done |

Every safety property of a passing run is proved.  Worth proving next: what the runs do not ask yet, as that the handlers of `ExportConfirm` and
`AccountAccess` never wait for each other in a circle.

## 3. Stock: how the modules correspond to the code

`StockOperations` has the requests.  A request is what a service sees after `_aggregate_*`: a kind, a
key or `NoKey`, source, destination, one quantity for each product.  `WellFormed` is what the
pydantic schemas let through, `KindsFit` the `_require_location_kind` calls, `Acceptable` the 422
answers, `Delta` and `MoneyDelta` the movement and money rows.

`StockLedger` is the promise: `PostDocument`, `PostHandover`, `Archive`, `SetActive`, each whole.

`StockTransactions` runs handlers, one request each.  Its actions are the statements:

| Action | Code |
|---|---|
| `Receive`, `CheckLocations` | endpoint, `_location`, `_require_location_kind` |
| `Lookup` | `_existing_document`, the key lookup of `create_cash_handover` |
| `LockProduct`, `CheckProducts` | `lock_active_products`, row by row in the order of ids |
| `InsertRow`, `Reselect` | `_flush_new_document`: unique key, rollback, second look |
| `MoveItem` | one turn of the items loop: balance rows FOR UPDATE, check, write |
| `LockRepresentative`, `CheckDebt` | `create_cash_handover` |
| `Commit` | everything the session wrote, at once |
| `ReadStock`, `UpdateActive` | `archive_product`, `update_product`, `update_location` |
| `Crash` | loss of the process or its connection, at any statement |

PostgreSQL is external and modelled from how the code uses it: `Blockers` says for whom a
statement waits (row locks, a unique key inserted and not committed, the KEY SHARE lock of a foreign key
against FOR UPDATE).  A plain SELECT never waits and reads what is committed.  `Refuse` is a rollback.
`journal` is the sum of movement rows; it exists to be compared with `balance`.

Left out: names, prices as such (a sale carries its amount), comments, audit rows, the answer 404,
the 409 of `update_location` for a location with active users (it only refuses more), missing balance rows (`_ensure_balance_row` inserts a zero row, which is what a missing row reads as),
rounding.

## 4. Export confirmation

`ExportConfirm` follows `confirm_export` (path "single") and `confirm_export_batch` (path "batch"):
`Get` is `session.get`, whose result stays in the session (`seen`), `ReadLinks` compares the set of links,
`Sync` is the branch that only sets `synced_1c_at`, `CheckFree` is `_ensure_external_ids_are_free`,
`Flush` sends UPDATE and INSERT before the log is read, `ReadLog` compares the hash of the log,
`Commit` publishes all.  Handlers that have flushed and not committed hold the row and the unique keys
(`Blockers`).  Left out: `external_kind`; unknown entities; the order in which the rows of one flush
are locked, so a deadlock of two batches that name the same ids in opposite orders is outside the model.

## 5. Delivery to 1C:UNF

`UnfBridge` runs processes of `ceh-unf-fresh-sync --execute`: those of `Locking` as the systemd unit
starts them, under `flock -n`, the others as the runbook has an operator start them.

| Action | Code |
|---|---|
| `Record` | commit of a document or a handover by a service |
| `Start`, `End` | start and end of the process; the kernel lets go of the lock |
| `ReadOutbox` | `outbox(limit)` and `build_plan`: `Page` is what `unf_outbox` returns, blocked items are skipped |
| `Build` | the payloads of the item; `ValueError` ends the run |
| `Find` | `find_one_by_text_field`: none, one, or several (`RuntimeError`) |
| `Create`, `Post` | `ensure_document`: POST of the document, then `Post()` if `post_documents` |
| `Confirm` | the server reads what is confirmed, by a plain `session.get` or SELECT, and lets the confirmation through, repeats it or answers 409 (`LetsThrough`) |
| `Write` | it writes and commits, `confirm_export` over whatever was confirmed since, a batch against the unique keys (`Writes`) |
| `Fail` | whatever ends the run between two calls |

The documents of an operation go in the order of `build_plan`, receipt before write-off.  `key` maps
the documents of 1C:UNF to their external keys; 1C:UNF does not keep that key unique, and
neither does the model.  Whether an operation is blocked is a constant: `external_1c_id` is written only when a
product or a location is created (`api.py`, `import_product`, `import_location`) and the price type
with the sale, so a blocked operation stays blocked until someone edits the database.  Left out: dry
runs, which write nothing; the profile and schema checks before the page is read (a failure there is a
`Fail` in phase "outbox"); the statements within `unf_outbox`.  A call that has failed takes no effect
later: an answer that comes after the timeout of `httpx` is lost, but the model does not delay the write itself.

## 6. Imports, accounts, gate, mobile queue

`ImportLog` has the endpoints that 1C and the bridge call.  `ReadLog` and `Claim` are `_begin_import`
(a plain SELECT, then an INSERT or UPDATE that waits for the row), `ReadEntry` and `WriteEntry`
`import_product` and `import_location`, `ReadDocument`, `ReadItems` and `PostAdjustment`
`import_stock_adjustment`, `ArchiveProduct` the archive endpoint, `ReadMark` and `WriteMark` `_mark_failed`
after the rollback.  The session writes only the columns that differ from what it read (`Written`).
Beside it `MoveStock` stands for the documents of the application, which look at the product under its lock, and `ReadUpdate` and
`WriteUpdate` for `update_product`, which reads the stock without the lock and writes `is_active` later; any number of steps may come in between.

`CatalogImport` adds the two units: `Start` reads the rows and plans a request for each, `Send` and `Hear` go
through the plan, the first refusal ends it, `GiveUp` is a client that stops while its request goes on.  `KeyOf`
is `_operation_key`.  `former` and `writer` are history: the contents a row had before, and the request that made its entry, if it
made it alone (the merge of a session may leave an entry that is nobody's).  The policy `NoBridge` takes the units away: then 1C sends any of `Direct` at any time.

`AccountAccess`: a login is `ReadAccount` (it locks the row) and `VerifyPassword`, the other requests are
`Admit` (token and role), `ReadTarget` or `CheckNewUser`, and `CommitAccount` or `CreateUser`.  `Expire` is the end of the five minutes.
Hashes carry a salt, tokens the hash.  Left out: rules for new passwords, the CSRF check of the web session, the expiry of tokens,
`Retry-After`: they only refuse more.

`BridgeGate`: one run of `ceh-unf-fresh-sync --execute` (`Load`, `Check`, `ReadOutbox`, then for each operation
`SkipItem`, or `BuildItem`, `Write`, `Confirm`) and one of `ceh-unf-fresh-health` (`HealthLoad`, `HealthMetadata`, `HealthVerdict`) go on while
`EditMapping`, `Publish`, `Record` and `Map` change the file, the structure, the outbox and the identifiers.  A
mapping is a record of what its parts make possible, and a payload is its rows.  A document is kept with the field of the EntitySet
that holds its key (`key`, for `resources` and `external_key_fields`), and `Documents` finds it only under a mapping that looks there.
A run needs what `Starts` says of the file, health only what `Parses` says: the difference is the provider.  All mappings are of one
application of 1C:UNF.  `UnfBridge` has the same run with its failures between
create and post and with several writers; here posting is left out.

`MobileQueue`: the activity and the background worker have a `WarehouseRepository` each, with a `token` and an active user of its own,
over one database and one set of preferences.

| Action | Code |
|---|---|
| `EnterPassword`, `Login`, `Logout`, `RestoreSession` | the repository and the callers in `CehSkladApp` |
| `Submit`, `SubmitOrQueue`, `Schedule` | `runOperation`, `submitOrQueue`, `queueOperation`, `PendingSyncScheduler` |
| `Refresh`, `DoWork`, `WorkerReadsRows`, `Synchronise`, `RefreshEnds`, `WorkEnds` | `syncPendingOperations` on both sides and what comes after it |
| `DiscardPending` | the button of a conflict |
| `Revoke`, `Restart`, `WorkFinished` | the server, Android: a token dies, the activity is created again or the process killed, work is noted as done |

`Logout` is `repository.logout()` with the `clearUiSession()` that follows it: what may come in between, the preferences cleared and the
screen not yet, is not a state of the model.  What a server does with a request and the arrival of the answer are one step, because a request whose sender gave up may as
well be handled at once: a repetition is answered by the key either way (`OneRowPerKey`, `RepeatedMeansPosted` of the stock
runs).  `OperationPromise` is what the queue promises, `PromiseSpec` that it keeps it.  `left` and `missed` are history: they name the
cases in which the code does lose an operation or leave a row without work (section 9).

## 7. Runs

Constants are named in the `.cfg` files, request sets in the MC modules.

| Run | Expectation | Shows |
|---|---|---|
| `StockSafety` | pass | three concurrent requests of one scenario (stock, money, archiving): no lost update, nothing in part or twice, keys, no negative stock or debt, no archived product with stock, no deadlock |
| `StockProgress` | pass | `StockTransactions` implements `StockLedger`; every request is answered |
| `CatalogueRace` | violation | `update_product` archives a product that gets stock |
| `ExportConfirmations` | pass | concurrent confirmations: one set wins, log and links agree, each is answered |
| `ReplacedId` | violation | two single confirmations replace each other |
| `BridgeDelivery` | pass | two processes under the lock, two early ends: no duplicate, confirmed with all documents, every ready operation delivered, except behind what `Obstructed` names |
| `BridgeTwoWriters` | pass | a second process without the lock: what a mixed adjustment is confirmed to be never changes, and another operation changes only by a confirmation let through before it had any |
| `BridgeUnposted` | violation | a document is confirmed and never posted |
| `Imports` | pass | keys stay completed, documents are posted once, an archive key archives once, archived stock comes only from a check that is old when it is used, and every row of 1C:UNF is imported but for the reasons `Imported` names |
| `Accounts` | pass | the lock comes in time, old tokens stay dead, the last administrator and a second representative of a warehouse are matters of one race each |
| `BridgeGate` | pass | what a standing ready verdict covers is delivered, but for a mapping of another provider; documents are written under the accepted structure; those of a confirmed operation carry it, but for keys an edit has moved |
| `MobileQueue` | pass | operations are lost only when their maker leaves while they are sent, waiting rows have work, the promise is kept |

Bounds.  Three handlers: the shortest trace of every violation has two or three, and a waiting cycle or a race of a
retry needs at most the holder, the waiter and one that commits in between.  Two products: the least
that gives a lock order.  Two keys and requests that differ in payload and table: equal key and payload,
equal key with another payload, equal key in the other table.  Handlers take one request each, so the graphs are
finite; the state constraints `OneScenario` and `OneProgressScenario` only keep the three handlers to requests
of one scenario, whose mixtures add nothing but states.  Symmetry over handlers
is used only in runs without temporal properties.  The runs stop when all handlers are done, hence
`CHECK_DEADLOCK FALSE`; that no handler is stuck is the property `NoDeadlock` or `EveryRequestAnswered`.

`BridgeDelivery` has four operations, one of each sort: blocked, mixed adjustment, unbuildable,
and one behind them; a page of two, so that the page is full and cut; two early ends, so that a repeated
delivery can end early too.  Its `Ref` has room for one document more than the operations have keys, so no step under
the lock is lost to that bound and a duplicate would fit; `BridgeTwoWriters`, where duplicates do happen, has
two references for each key.

`Imports` has two products and a location, three handlers, two changes of 1C:UNF (so that a row can return to earlier content) and
one loss, time-out or request of another endpoint (a write of `update_product` that has been read is free).  Without the bridge, three of five requests meet: two with one key and different bodies, two
keys for one document, an archive beside an import of the same product.  `Accounts` has three logins, two requests at a time, a
limit of two attempts, three changes and two tokens: enough for a token that is older than a change and a change
back, and for two administrators; three requests would add a queue for the row lock and nothing a second one does
not show.  `BridgeGate` has one operation of each kind, pages of two and three, two structures, mappings that lack something
each, are of another provider or look for the receipt in another field, and one edit.  `MobileQueue` has two users of one device, two operations of the first of them (one queued at first), two logins, one
request without an answer and one event from outside, which may cut off another; with one operation nothing could be counted wrongly by `WorkEnds`.
With two events from outside (`MaxOutside = 2`, 2.8 million states) the same properties and the invariant of the proofs hold.
Its `CHECK_DEADLOCK FALSE` is for the state in which all is delivered and no bound is left; in `Imports` and `Accounts` requests end for want of handlers or bounds.

Fairness.  In the stock and export modules `FairSpec` is weak fairness of `Step(h)` for each handler: the event loop resumes a coroutine
whose statement has returned, and PostgreSQL grants a free lock.  No client has to send anything and
nothing has to crash.  Weak fairness is enough because lock waits here end once the holder is done.

In `UnfBridge` the timer starts its unit again (`OnUnitActiveSec`), hence weak fairness of `Start` for processes under the lock, and a
process that lives makes its next call, hence weak fairness of `Step`.  Failures are bounded by `MaxFailures`:
`Delivered` is what holds once they cease.

In `CatalogImport`, handlers and the run in progress go on (weak), and a unit starts if it finds the lock free again and again
(strong: the two timers fire at different times, and a unit that finds the lock taken gives up until the next time).

`Accounts`, `BridgeGate` and `MobileQueue` state no fairness: nothing obliges a user, an administrator or Android's work manager to act at any time,
so what the queue owes a row is stated as a safety property: there is work that will come to it.

Each property of a passing run has a mutant in `PROJECT.json`: a definition changed the way a bug would
change it, under which the same run must fail.

## 8. What is proved

Each theorem holds for all values of the constants that satisfy the `ASSUME` of its model; TLC evaluates that
assumption on every run.  The assumptions give constants their types and keep the markers for "none" apart from values;
where one says more, it is named below.

| Theorem | Module | Statement |
|---|---|---|
| `TypeCorrect` | `StockTransactions_proofs` | `Spec => []TypeOK` |
| `BalancesMatch` | `StockInvariant_proofs` | balances equal the sum of movements |
| `StateIsExplained` | same | stock and debt are the opening and what the posted documents and handovers add up to |
| `StockCovered`, `DebtCovered` | same | stock and debt are never negative |
| `KeysPostOnce`, `RepeatedWasPosted` | same | a key posts one row; "repeated" means posted |
| `ProductLocksSuffice` | same | no balance row is ever contended |
| `LockedArchiveIsSafe` | same | if every `update_product` request restores, nothing archived has stock |
| `ServicesImplementLedger` | same | `Spec => LedgerSpec` |
| `NeverDeadlocked` | same | no set of handlers waits only on itself, for `Product \subseteq 0..N` |
| `NoDuplicates` | `UnfBridge_proofs` | under the lock, 1C:UNF has at most one document for a key |
| `NothingForgotten` | same | under the lock, a confirmed operation has all its documents and no other exists |
| `BridgeTypeCorrect` | same | under the lock, `Spec => []TypeOK` |
| `ConfirmedUnderLock` | same | under the lock, what an operation is confirmed to be never changes |
| `ConfirmedForGood` | same | with the lock or without, a mixed adjustment stays confirmed with what it was, another operation once no confirmation is on its way that was let through before |
| `ConfirmTypeCorrect` | `ExportConfirm_proofs` | `Spec => []TypeOK` |
| `LeavesWithItsDocuments` | same | an operation leaves the outbox exactly with its documents |
| `LinksAreExclusive` | same | a document of 1C:UNF is linked to one operation |
| `LogsTellTheOutcome` | same | with one path for an operation, the log says what is linked |
| `AnswersStayTrue` | same | with one path and one reference, "ok" and "repeated" stay true |
| `ImportTypeCorrect` | `CatalogImport_proofs` | `Spec => []TypeOK` |
| `DoneMeansRecorded` | same | a request answered "done" is completed in the log, its document posted once |
| `CompletedForGood` | same | a completed row of the log never changes |
| `ArchivedByKeyOnce` | same | an archive key archives once |
| `OnlyOldChecksOrphan` | same | only an imported adjustment, `import_product` and `update_product`, by checks without the product lock, leave an archived product with stock |
| `AccessTypeCorrect` | `AccountAccess_proofs` | `Spec => []TypeOK` |
| `GuessesAreLimited` | same | the lock comes in time, however many logins run at once |
| `OldTokensAreDead` | same | a token older than its password is never accepted |
| `LastAdminIsKept`, `PlacesAreSharedByRaceOnly` | same | the last administrator falls, and a warehouse is shared, only by a race |
| `GateTypeCorrect` | `BridgeGate_proofs` | `Spec => []TypeOK` |
| `NothingIsLostOrDoubled` | same | the documents of a confirmed operation carry what it moved, unless an edit moved the key of one; then those that one mapping finds do |
| `HealthIsTrue` | same | while a ready verdict stands, no run stops over its configuration, but for the provider, or skips what health saw |
| `LockIsObeyed` | same | documents are written under the accepted structure |
| `QueueTypeCorrect` | `MobileQueue_proofs` | `Spec => []TypeOK`; no operation has two rows |
| `QueuedUnderItsMaker` | same | an operation without an answer has its row under its maker, unless he left while it was sent |
| `WaitingRowHasWork` | same | a row that waits has work that will come to it, but for `missed` |
| `QueueKeepsPromise` | same | `Spec => PromiseSpec` |

Every module of proofs has an inductive invariant `IInv`, shown to hold at first and to be kept by each action, from which
the theorems follow.

Stock.  `IInv` says, besides types, which kinds of request are in which phase (`KindInv`),
that a product row or a location has one holder (`LockInv`), that an item is processed only with its row
locked (`MoveInv`), what a handler has read still holds while it holds the lock it read under
(`ReadInv`), that two handlers in their items loop have no product in common (`ApartInv`), and that a
row of a key is the request of a handler that has committed (`RowInv`).  The stock and the debt alone are not inductive: that a
balance read in `MoveItem` is still the balance at `Commit` needs `ApartInv`, which needs `LockInv`; that
the debt read in `CheckDebt` is at least that much at `Commit` needs the lock of the location; and that a key is new at
`Commit` needs that no two uncommitted handlers have inserted it.  The refinement follows from the same facts:
every action but `Commit` and `UpdateActive` is a stutter of the ledger, and at those two the invariant
gives the guards of the ledger's action.  `StateIsExplained` needs induction over a set, which the prover cannot instantiate as a theorem of the library; it is done by the smallest
set that would fail (`SmallestPart`): there is a function that satisfies the equation of the sum (`SumsExist`), any element may be added last
(`AnyElementLast`), and so each commit adds one summand (`SumAdds`).  Deadlock freedom uses a rank: a handler that waits for a product row waits
for one that has locked a higher one or is past its locks, those wait only for keys and locations, and a holder
of a location waits for nobody who could wait for it.

The bridge theorems assume `BridgeAssumption` and, but for `ConfirmedForGood`, `Locking = Bridge`, without which they do not hold (section 9).  Their
invariant says that only the holder of the lock is not idle (`HolderInv`), what is left to do in each phase (`WorkInv`), and
that in phase "create" 1C:UNF has no document with the next key (`CreateInv`): what `Find` saw is still true at `Create`, because
nobody else writes.  A noted reference has the key it was noted for (part of `TypeOK`), so that when nothing is missing the
references are all documents of the operation.  `ConfirmedUnderLock` needs `WriteInv`
besides: the server would write over what was confirmed since its read, but under the lock nobody else confirms in between.

Export.  `PhaseInv` says which path is in which phase.  That links stay exclusive needs more than the check before the
flush, whose answer is old at `Commit`: two handlers that have flushed have different entities and no id in common (`ApartInv`, from the row
lock and the unique key), and what a flushed batch inserts is linked to nothing (`KeyInv`).  `LinksInv` has the log of the batch equal to
the links.  The two theorems with hypotheses need them.  `OnePath`: an operation is confirmed through one endpoint,
which `processor.py:64` chooses by the number of its documents, and that number does not change.  Without it a batch of one document that meets
a single confirmation replaces the external id and not the log of the other endpoint.  `OneReference`: single confirmations of
an operation name one document, which is `NoDuplicates`; without it `ReplacedId` (section 9).

Imports.  The theorems hold for the units and for 1C alike.  Every step of `CatalogImport` is one of the endpoints, a
receipt, or leaves the log alone (`LogSteps`), so the invariant is about `ImportLog`: one handler holds the row of a key (`ClaimInv`, which
also says that the row it holds has its own body and that an archive key in phase "archive" is not completed yet), a document is posted at most
once and is if its row is completed (`PostedInv`), a request told so is completed (`RecordInv`).  `DoneIsRecorded` by itself does not survive a step: that
another handler with the same key does not write over the row is `ClaimInv`.  `CatalogAssumption` numbers the rows of 1C:UNF and says that a
content has a key, which is what a digest gives.

Accounts.  `HandlerInv` says what a request in each phase has read and that a row it has locked is as it was read; `CountInv` that
the column counts at least what was tried since the last reset and that a locked account starts anew.  The merge of a session, which writes only
changed columns, is why `AttemptsLimited` is not inductive: an older request may write a column another has set.
`SaltInv` bounds the salts of hashes and tokens by the number of changes, so a new hash is never an old one; salts are numbers, which stands
for random salts that do not repeat.

Gate.  `RunInv` has the structure a run has compared equal to the lock of its mapping, `DocumentInv` one document for each part of an
operation's plan and each place of its key, with the rows of that part, and a mapping that misses nothing of a confirmed operation, the one
it was confirmed under.  A total is a sum over a set and so defined by
recursion; a plan has at most two documents, so the sum is computed for none, one and two, and no induction is
needed.  `PromiseInv` carries what health has judged to the runs that are in progress.  `GateAssumption` says that only adjustments
move both ways, as the schemas do.

Mobile queue.  That a row has work is not inductive for the signed-in user alone, because a login makes another user's rows
count: `WorkInv` says of every row, whoever it belongs to, that it has work or is not that of the saved session.  Its hardest step is
`WorkEnds`, where the worker compares two numbers: with `HandInv` (what a repository has in hand is its user's), `ConflictInv` (a known conflict
that still has its row was refused) and one row for an operation, no fewer conflicts than rows means that every row is a conflict.
`OnceInv` says that an operation not yet answered has no row and is in nobody's hand, so that storing it never finds its key taken, which
`OnConflictStrategy.IGNORE` would swallow.  `SessionInv` and `SentInv` tie the repository, the screen and what is sent to one user.  The
refinement needs them too: a row goes only with an answer that the operation is posted, and what the user discards was refused.  `Select` is the
query of the table as a recursive function; it is shown to return the rows asked for, none twice (`SelectRows`), by the least number for which
it would not.  The proof brought up a case of `missed` that the bounds of the run are too small for: a worker that starts without a session (section 9).

Only model-checked: `Delivered`, `Imported` and `EveryRequestAnswered`, because liveness is out of reach of the prover, and the three violations,
which are no theorems.

## 9. Where the code disagrees with what it says

- `update_product` (`CatalogueRace`): the rule of its 409 message
  does not hold when a document commits between the check and the update.  `archive_product`, which
  takes the product row, keeps it (`StockSafety`, `LockedArchiveIsSafe`).  `update_location` checks in the same way.
- `confirm_export` (`ReplacedId`): a confirmed operation can get another id.  The same holds of a batch of one document beside
  a single confirmation, whose log then names the other id.  `confirm_export` would also accept one after a batch of
  two documents, which leaves `external_1c_id` empty; the bridge never sends that.
- `ensure_document` (`BridgeUnposted`): a document found is not posted, so an end between create and `Post()`
  leaves a confirmed draft.
- The command of `UNF_BRIDGE_RUNBOOK.md` takes no lock.  Looking before creating excludes a duplicate only for runs that
  do not overlap: in `BridgeTwoWriters` two documents of one key are reachable, and `OneDocumentPerKey` holds and is
  proved for runs under the lock only.  Two such runs may even both be let through and the later replace the other's reference,
the race of `ReplacedId`; a mixed adjustment, confirmed as a batch, is safe from it (`ConfirmedStays`).
- `import_stock_adjustment` reads its products before `create_adjustment` locks them, in one session, so the second
  check of `is_active` sees the old object: an archived product can get stock, against «Атомарная гарантия» of
  `docs/UNF_DELETION_POLICY.md:25`.  `import_product` archives without the lock, as `update_product` does.  `OrphanedOnlyByOldChecks` says that
  these three are all.
- A row of 1C:UNF that returns to earlier content has a key that is completed, so it is not imported again (`Stale`); neither is one whose
  entry was overwritten by a request that came late or by an administrator.
  `docs/UNF_UAT_RECORD.md:56` expects a new version for every change.  A refused row ends the run, and everything behind it waits
  (`CutOff`); rows behind the first hundred are never read.
- A reset of a password clears the count and the lock only if it read them set: with a login counting meanwhile the account may
  be locked right after its reset (`API.md`).  A `change_password` in progress overwrites a reset.
- Two administrators can disable each other, after which `ensure_bootstrap_admin` helps only under a login that does not exist yet.  Two
  requests can give one virtual warehouse two representatives, which `create_user` refuses otherwise.
- The structure of 1C:UNF is compared once in a run (`WrittenUnderLock` has the exception).  Health vouches for its own page only.
  It does not look at the provider of the mapping: with `"provider": "other"`, which `TenantMapping` accepts, it reports ready and every run of
  `ceh-unf-fresh-sync` ends at `fresh_sync.py:138`.
- The key of a document is looked for where the mapping of the run puts it.  If an edit changes the EntitySet or the key field of a document that
  was written and not yet confirmed, the next run does not find it and writes another (`Apart`).  `UNF_SCHEMA_LOCK.md:54` has the operator
  make such an edit after an update of 1C:UNF, with the timers stopped but without a look at what was written and not confirmed.
- `clearSession` of `AppStorage.kt:65` says that a logout loses no unconfirmed operation.  One that is being sent is not in the queue
  yet; logout, a turned device or a killed process in that moment loses it (`left`).
- The worker may not come to a row (`missed`) that was queued while the work finished or ran for another user (`KEEP`), that
  is hidden by a conflict whose row is gone (`pending - conflicts.size`), that waits when a worker starts without a session, which is a
  success to `doWork` (a logout by the worker after a 401 leaves the screen signed in and able to queue), or after the worker saved its
  profile over that of the next user.  The next refresh of the screen sends the row.
- A posted operation whose answer was lost is refused with 409 at its repetition when a location was closed meanwhile: `_location` runs
  before the key is looked up.  The user sees a conflict and may discard it; the document stands.
- Read, not run: quantities with more than three decimals are rounded by the columns, halves away from zero, so that 1.000 less 0.0005 stores
  a balance of 1.000 and a movement of -0.001; the web forms step by 0.001.  `import_stock_adjustment` sends no `stock_changed`
  (`docs/ARCHITECTURE.md`).  `docs/API.md` documents `?token=` for the websocket, the code takes the header or the cookie.
  `deploy_production.py` takes a stopped database for a first start and makes no backup; `restore.sh` starts the backend after a failed `pg_restore`.

## 10. Not modelled

- Realtime: a best-effort broadcast, on whose arrival nothing depends; the refresh it causes may happen at any time in `MobileQueue`.
- Reports, audit, status, headers, configuration: read-only, no state others depend on.
- `fresh_probe`, `snapshot_validate`, `evidence`, the schema-lock command: one-shot reports that an operator reads.
- Formats: field names and values of payloads, metadata as XML and JSON, wording.
- Migrations: run once before the service starts; the tables they are to produce are those of `models.py`.
- The web client keeps nothing; its requests are those of the server modules, at any time, once or twice.  Of the mobile user interface, forms and lists.
- Deployment, backup and release scripts: sequences of calls to docker compose, `pg_dump`, `pg_restore` and gradle whose
  effects would all be assumptions.
