------------------------------ MODULE ImportLog ------------------------------
(***************************************************************************)
(* The endpoints through which 1C fills the catalogue and the stock        *)
(* (integration_1c.py, integration_archive_check.py).  A request claims    *)
(* its operation key in the exchange log, reads, writes and completes the  *)
(* log row in one transaction under READ COMMITTED; a refused one rolls    *)
(* back and records the failure in a second transaction.  A row is         *)
(* "processing" only inside the transaction that claims it, so the table   *)
(* of committed rows never shows that status.  Product locks are held      *)
(* within one step here; StockTransactions has them statement by statement.*)
(***************************************************************************)
EXTENDS Integers, FiniteSets

CONSTANTS
  Handler,        \* requests in progress
  Product, Location, Document,  \* external_1c_id values
  Label,          \* Product.sku, Location.name: unique in their tables
  Detail,         \* the other imported fields of a product, the kind of a location
  Key,            \* operation_key
  Existing,       \* catalogues there may be at the start
  Opening,        \* stock of each product at the start
  NoEntry, NoRequest,
  MaxOutside      \* bound: changes by other endpoints and lost requests

Ref == Product \cup Location
Entry == [label : Label, detail : Detail, active : BOOLEAN]

\* Request bodies; the payload hash stands for the whole body.
ProductBody ==
  [kind : {"product"}, key : Key, id : Product, label : Label, detail : Detail, active : BOOLEAN]
LocationBody == [kind : {"location"}, key : Key, id : Location, label : Label, detail : Detail]
AdjustmentBody ==
  [kind : {"adjustment"}, key : Key, id : Document, place : Location, delta : [Product -> Int]]
ArchiveBody == [kind : {"archive"}, key : Key, id : Product]
Body == ProductBody \cup LocationBody \cup AdjustmentBody \cup ArchiveBody

ASSUME ImportAssumption ==
  /\ Opening \in [Product -> Nat]
  /\ Existing \subseteq [Ref -> Entry \cup {NoEntry}]
  /\ Product \cap Location = {}
  /\ NoEntry \notin Entry
  /\ NoRequest \notin Body
  /\ MaxOutside \in Nat

VARIABLES
  log,        \* committed rows of IntegrationExchangeLog
  catalogue,  \* Product and Location rows by external id
  stock,      \* total stock of a product
  posted,     \* StockDocument rows with an external id
  spent,      \* changes by other endpoints and lost requests so far
  updates,    \* update_product requests between their reads and their write
  pc,
  job,        \* the request a handler works on
  claims,     \* the handler's transaction holds the log row of its key
  sawRow,     \* it read a failed row of its key, not none
  sawEntry,   \* the catalogue row it read
  answer

tables == <<log, catalogue, stock, posted>>
reads == <<sawRow, sawEntry>>
outside == <<spent, updates>>
logVars == <<tables, outside, pc, job, claims, reads, answer>>

Steps == {"idle", "log", "claim", "read", "items", "write", "post", "archive",
          "mark", "markwrite", "answered"}
Answers == {"none", "ok", "repeated", "refused"}

LogTypeOK ==
  /\ log \subseteq [body : Body, status : {"failed", "completed"}]
  /\ \A r, s \in log : r.body.key = s.body.key => r = s
  /\ catalogue \in [Ref -> Entry \cup {NoEntry}]
  /\ stock \in [Product -> Nat]
  /\ posted \in [Document -> Nat]
  /\ spent \in 0..MaxOutside
  /\ updates \subseteq [id : Product, active : BOOLEAN]
  /\ pc \in [Handler -> Steps]
  /\ job \in [Handler -> Body \cup {NoRequest}]
  /\ claims \in [Handler -> BOOLEAN]
  /\ sawRow \in [Handler -> BOOLEAN]
  /\ sawEntry \in [Handler -> Entry \cup {NoEntry}]
  /\ answer \in [Handler -> Answers]
  /\ \A h \in Handler : pc[h] # "idle" => job[h] # NoRequest
  /\ \A u \in updates : catalogue[u.id] # NoEntry

LogInit ==
  /\ log = {}
  /\ catalogue \in Existing
  /\ stock = Opening
  /\ posted = [d \in Document |-> 0]
  /\ spent = 0
  /\ updates = {}
  /\ pc = [h \in Handler |-> "idle"]
  /\ job = [h \in Handler |-> NoRequest]
  /\ claims = [h \in Handler |-> FALSE]
  /\ sawRow = [h \in Handler |-> FALSE]
  /\ sawEntry = [h \in Handler |-> NoEntry]
  /\ answer = [h \in Handler |-> "none"]

-----------------------------------------------------------------------------
Goto(h, step) == pc' = [pc EXCEPT ![h] = step]

Row(k) == {r \in log : r.body.key = k}
Status(k, status) == \E r \in Row(k) : r.status = status

\* Another transaction has written the row of this key and not ended yet.
Claimed(k) == \E h \in Handler : claims[h] /\ job[h].key = k

\* The transaction ends; its locks go with it.
Answer(h, a) ==
  /\ Goto(h, "answered")
  /\ answer' = [answer EXCEPT ![h] = a]
  /\ claims' = [claims EXCEPT ![h] = FALSE]

\* Commit with the log row of the key at this status.
Commit(h, status, a) ==
  /\ log' = (log \ Row(job[h].key)) \cup {[body |-> job[h], status |-> status]}
  /\ Answer(h, a)

\* HTTPException or IntegrityError after the claim: rollback, then _mark_failed.
Refuse(h) ==
  /\ Goto(h, "mark")
  /\ claims' = [claims EXCEPT ![h] = FALSE]
  /\ UNCHANGED <<tables, answer>>

Receive(h, q) ==
  /\ pc[h] = "idle"
  /\ job' = [job EXCEPT ![h] = q]
  /\ Goto(h, "log")
  /\ UNCHANGED <<tables, outside, claims, reads, answer>>

\* Mutant: a completed key runs again.
NeverDone(k) == FALSE

Done(k) == Status(k, "completed")

SameBody(q) == \A r \in Row(q.key) : r.body = q

\* _begin_import, the plain SELECT; archive_product, SELECT FOR UPDATE, which waits
\* for a row there is and takes it.
ReadLog(h) ==
  LET q == job[h]
      waits == q.kind = "archive" /\ Row(q.key) # {}
  IN  /\ pc[h] = "log"
      /\ waits => ~Claimed(q.key)
      /\ \/ /\ ~SameBody(q)
            /\ Answer(h, "refused")
            /\ UNCHANGED sawRow
         \/ /\ SameBody(q) /\ Done(q.key)
            /\ Answer(h, "repeated")
            /\ UNCHANGED sawRow
         \/ /\ SameBody(q) /\ ~Done(q.key)
            /\ sawRow' = [sawRow EXCEPT ![h] = Row(q.key) # {}]
            /\ claims' = [claims EXCEPT ![h] = waits]
            /\ Goto(h, IF waits THEN "archive" ELSE "claim")
            /\ UNCHANGED answer
      /\ UNCHANGED <<tables, outside, job, sawEntry>>

\* The flush: an INSERT under the unique key, an UPDATE of the row that was read
\* as failed, whatever it is now; both wait for the row's transaction.
Claim(h) ==
  LET q == job[h]
  IN  /\ pc[h] = "claim"
      /\ ~Claimed(q.key)
      /\ IF ~sawRow[h] /\ Row(q.key) # {} THEN Answer(h, "refused")
         ELSE /\ claims' = [claims EXCEPT ![h] = TRUE]
              /\ Goto(h, IF q.kind = "archive" THEN "archive" ELSE "read")
              /\ UNCHANGED answer
      /\ UNCHANGED <<tables, outside, job, reads>>

-----------------------------------------------------------------------------
SameTable(r) == IF r \in Product THEN Product ELSE Location

\* Other rows of the table with this sku or name.
Owners(r, label) ==
  {s \in SameTable(r) \ {r} : catalogue[s] # NoEntry /\ catalogue[s].label = label}

\* What import_product and import_location refuse after their SELECTs.
Refused(q) ==
  LET e == catalogue[q.id]
  IN  \/ Owners(q.id, q.label) # {}
      \/ /\ e # NoEntry
         /\ \/ q.kind = "location" /\ e.detail # q.detail
            \/ q.kind = "product" /\ ~q.active /\ stock[q.id] # 0

ReadEntry(h) ==
  /\ pc[h] = "read"
  /\ job[h].kind \in {"product", "location"}
  /\ IF Refused(job[h]) THEN Refuse(h) /\ UNCHANGED sawEntry
     ELSE /\ sawEntry' = [sawEntry EXCEPT ![h] = catalogue[job[h].id]]
          /\ Goto(h, "write")
          /\ UNCHANGED <<tables, claims, answer>>
  /\ UNCHANGED <<outside, job, sawRow>>

IsActive(q) == IF q.kind = "product" THEN q.active ELSE TRUE

\* Mutant: the prices of a product that is there already are not written.
WrittenWithoutDetail(q, seen, now) ==
  [label  |-> IF q.label = seen.label THEN now.label ELSE q.label,
   detail |-> now.detail,
   active |-> IF q.kind = "location" \/ q.active = seen.active THEN now.active ELSE q.active]

\* The session writes only the columns that differ from what it read.
Written(q, seen, now) ==
  [label  |-> IF q.label = seen.label THEN now.label ELSE q.label,
   detail |-> IF q.detail = seen.detail THEN now.detail ELSE q.detail,
   active |-> IF q.kind = "location" \/ q.active = seen.active THEN now.active ELSE q.active]

\* Flush and commit; a unique sku, name or external id that is taken refuses it.
WriteEntry(h) ==
  LET q == job[h]
      now == catalogue[q.id]
      new == IF sawEntry[h] = NoEntry
             THEN [label |-> q.label, detail |-> q.detail, active |-> IsActive(q)]
             ELSE Written(q, sawEntry[h], now)
  IN  /\ pc[h] = "write"
      /\ \/ /\ (sawEntry[h] = NoEntry /\ now # NoEntry) \/ Owners(q.id, new.label) # {}
            /\ Refuse(h)
         \/ /\ sawEntry[h] = NoEntry => now = NoEntry
            /\ Owners(q.id, new.label) = {}
            /\ catalogue' = [catalogue EXCEPT ![q.id] = new]
            /\ Commit(h, "completed", "ok")
            /\ UNCHANGED <<stock, posted>>
      /\ UNCHANGED <<outside, job, reads>>

-----------------------------------------------------------------------------
Items(q) == {p \in Product : q.delta[p] # 0}

\* import_stock_adjustment looks for the document first.
ReadDocument(h) ==
  /\ pc[h] = "read"
  /\ job[h].kind = "adjustment"
  /\ IF posted[job[h].id] > 0
     THEN Commit(h, "completed", "repeated") /\ UNCHANGED <<catalogue, stock, posted>>
     ELSE Goto(h, "items") /\ UNCHANGED <<tables, claims, answer>>
  /\ UNCHANGED <<outside, job, reads>>

Usable(r) == catalogue[r] # NoEntry /\ catalogue[r].active

\* Location and products are read without a lock.
ReadItems(h) ==
  LET q == job[h]
  IN  /\ pc[h] = "items"
      /\ IF \A r \in {q.place} \cup Items(q) : Usable(r)
         THEN Goto(h, "post") /\ UNCHANGED <<tables, claims, answer>>
         ELSE Refuse(h)
      /\ UNCHANGED <<outside, job, reads>>

\* Mutant: an earlier document with the external id is no obstacle.
AnyDocument(q) == \A p \in Items(q) : stock[p] + q.delta[p] >= 0

\* external_1c_id is unique, no balance may become negative, something must change.
Postable(q) ==
  /\ posted[q.id] = 0
  /\ Items(q) # {}
  /\ \A p \in Items(q) : stock[p] + q.delta[p] >= 0

\* create_adjustment: the rows it locks are the objects loaded by ReadItems, so
\* is_active is not seen again.
PostAdjustment(h) ==
  LET q == job[h]
  IN  /\ pc[h] = "post"
      /\ IF Postable(q)
         THEN /\ stock' = [p \in Product |-> stock[p] + q.delta[p]]
              /\ posted' = [posted EXCEPT ![q.id] = @ + 1]
              /\ Commit(h, "completed", "ok")
              /\ UNCHANGED catalogue
         ELSE Refuse(h)
      /\ UNCHANGED <<outside, job, reads>>

-----------------------------------------------------------------------------
\* Mutant: the stock is not looked at.
ArchivableAlways(p) == catalogue[p] # NoEntry

Archivable(p) == catalogue[p] # NoEntry /\ stock[p] = 0

\* archive_product under the lock of the product row.
ArchiveProduct(h) ==
  LET p == job[h].id
  IN  /\ pc[h] = "archive"
      /\ \/ /\ catalogue[p] # NoEntry /\ ~catalogue[p].active
            /\ Commit(h, "completed", "repeated")
            /\ UNCHANGED catalogue
         \/ /\ Usable(p) /\ Archivable(p)
            /\ catalogue' = [catalogue EXCEPT ![p].active = FALSE]
            /\ Commit(h, "completed", "ok")
         \/ /\ ~Archivable(p) /\ (catalogue[p] # NoEntry => catalogue[p].active)
            /\ Commit(h, "failed", "refused")
            /\ UNCHANGED catalogue
      /\ UNCHANGED <<stock, posted, outside, job, reads>>

-----------------------------------------------------------------------------
\* _mark_failed after its rollback: SELECT, then INSERT or UPDATE and commit.
ReadMark(h) ==
  LET k == job[h].key
  IN  /\ pc[h] = "mark"
      /\ IF Status(k, "completed") THEN Answer(h, "refused") /\ UNCHANGED sawRow
         ELSE /\ sawRow' = [sawRow EXCEPT ![h] = Row(k) # {}]
              /\ Goto(h, "markwrite")
              /\ UNCHANGED <<claims, answer>>
      /\ UNCHANGED <<tables, outside, job, sawEntry>>

\* Mutant: the row is set to failed, whatever it has become.
MarkedAnyway(h) == (log \ Row(job[h].key)) \cup {[body |-> job[h], status |-> "failed"]}

\* Mutant: the key is not unique.
MarkedBeside(h) == log \cup {[body |-> job[h], status |-> "failed"]}

\* A row that was read as failed keeps its status: the column has not changed.  A
\* row inserted meanwhile makes the INSERT fail.
Marked(h) ==
  IF ~sawRow[h] /\ Row(job[h].key) = {}
  THEN log \cup {[body |-> job[h], status |-> "failed"]} ELSE log

WriteMark(h) ==
  /\ pc[h] = "markwrite"
  /\ ~Claimed(job[h].key)
  /\ log' = Marked(h)
  /\ Answer(h, "refused")
  /\ UNCHANGED <<catalogue, stock, posted, outside, job, reads>>

HandlerStep(h) ==
  \/ ReadLog(h) \/ Claim(h) \/ ReadEntry(h) \/ WriteEntry(h) \/ ReadDocument(h)
  \/ ReadItems(h) \/ PostAdjustment(h) \/ ArchiveProduct(h) \/ ReadMark(h) \/ WriteMark(h)

\* Another endpoint takes a step, or a request is lost.
Spend == spent < MaxOutside /\ spent' = spent + 1

\* The server process or its connection dies before the commit.
Lose(h) ==
  /\ pc[h] \notin {"idle", "answered"}
  /\ Spend
  /\ Answer(h, "refused")
  /\ UNCHANGED <<tables, updates, job, reads>>

requests == <<pc, job, claims, reads, answer>>

\* A document of the application, which looks at is_active under the product lock.
MoveStock(p) ==
  /\ Usable(p)
  /\ Spend
  /\ stock' = [stock EXCEPT ![p] = IF @ = 0 THEN 1 ELSE 0]
  /\ UNCHANGED <<log, catalogue, posted, updates, requests>>

\* update_product reads the product and, before it archives one, the stock: no lock.
ReadUpdate(p) ==
  /\ catalogue[p] # NoEntry
  /\ catalogue[p].active => stock[p] = 0
  /\ Spend
  /\ updates' = updates \cup {[id |-> p, active |-> ~catalogue[p].active]}
  /\ UNCHANGED <<tables, requests>>

\* It writes is_active and commits.
WriteUpdate(u) ==
  /\ u \in updates
  /\ catalogue' = [catalogue EXCEPT ![u.id].active = u.active]
  /\ updates' = updates \ {u}
  /\ UNCHANGED <<log, stock, posted, spent, requests>>

-----------------------------------------------------------------------------
\* A row of the exchange log that is completed stays completed with its body,
\* whatever retries of its key are in progress (_begin_import, _mark_failed).
CompletedStays ==
  [][\A r \in log : r.status = "completed" => r \in log']_logVars

\* A request that was told it is done has its log row completed with its own body,
\* and its document is posted exactly once, even under several operation keys
\* (INTEGRATION_1C.md: a repeated import makes no second movement).
DoneIsRecorded ==
  \A h \in Handler :
    pc[h] = "answered" /\ answer[h] \in {"ok", "repeated"} =>
      /\ [body |-> job[h], status |-> "completed"] \in log
      /\ job[h].kind = "adjustment" => posted[job[h].id] = 1

\* An archive key archives at most once: replayed after the product was activated
\* again it changes nothing (archive_product).
ArchivesOnce ==
  [][\A h \in Handler :
       ArchiveProduct(h) /\ catalogue' # catalogue => ~Status(job[h].key, "completed")]_logVars

Orphaned(p) == catalogue[p] # NoEntry /\ ~catalogue[p].active /\ stock[p] # 0

\* The requests that check without the product lock and may change p later.
PostsTo(h, p) == pc[h] = "post" /\ p \in Items(job[h])
Deactivates(h, p) ==
  /\ pc[h] = "write"
  /\ job[h].kind = "product" /\ job[h].id = p /\ ~job[h].active

\* An archived product with stock arises in three ways only, each from a check whose
\* answer is old when it is used: an adjustment of 1C that read the product before it was
\* archived, and import_product and update_product, which archive after they looked at
\* the stock.  The archive endpoint and the documents of the application never do it.
OrphanedOnlyByOldChecks ==
  [][\A p \in Product : ~Orphaned(p) /\ Orphaned(p)' =>
       \/ \E h \in Handler : (PostsTo(h, p) \/ Deactivates(h, p)) /\ pc'[h] = "answered"
       \/ \E u \in updates \ updates' : u.id = p /\ ~u.active]_logVars
=============================================================================
