------------------------------ MODULE BridgeGate ------------------------------
(***************************************************************************)
(* What stands between an operation and a document of 1C:UNF: the tenant   *)
(* mapping and its audit, the lock on the published structure, the         *)
(* payloads, and ceh-unf-fresh-health, the gate that reports ready before  *)
(* ceh-unf-fresh-sync writes (tenant_config.py, tenant_audit.py,           *)
(* schema_lock.py, operation_payloads.py, payload_builder.py, health.py,   *)
(* fresh_sync.py).  One run of each is under way at a time, under flock or *)
(* by hand; a mapping is read when a run starts, the structure and the     *)
(* outbox later, and all of them may change in between.                    *)
(***************************************************************************)
EXTENDS Integers, FiniteSets, FiniteSetsExt

CONSTANTS
  Op,          \* operations, numbered in the order of the outbox
  About,       \* what each operation is
  Product, Place,
  Rep,         \* warehouses of representatives
  Field,       \* EntitySets, fields and table parts
  Published,   \* structures 1C:UNF may publish
  Mapping,     \* tenant mapping files
  FirstMapping,  \* those there may be at first
  FirstMapped, \* places and products mapped at first
  SyncLimit, HealthLimit,  \* --limit
  NoLock, NoMapping, NoStructure,
  MaxEdits     \* bound: edits of the mapping and of the structure

Kind == {"transfer", "sale", "adjustment", "handover"}
Alias == {"transfer", "sale", "cash_receipt", "stock_receipt", "stock_writeoff"}
Constant == {"organization", "retail", "wholesale", "cashbox", "cash_flow_item"}

\* An operation of the outbox; only an adjustment moves less than nothing, and the
\* services drop its zero rows.  price is "none" in sales older than the price types.
UnfOutboxItem ==
  [kind : Kind, price : {"retail", "wholesale", "none"}, from : Place, to : Place,
   moves : [Product -> Int]]

\* Fields the EntitySets list; of those in opaque it lists none, so nothing is known.
ODataEntitySets == [fields : SUBSET Field, opaque : SUBSET Field]

\* A mapping file: its provider, the parts that parse, the fields it names for documents
\* and for catalogues, the field of an EntitySet that holds the key of each document
\* (resources and external_key_fields), the accepted structure (its digest: no two
\* structures share one), the constants given, the documents whose schema has all
\* required aliases, the places it allows to be imported, and the representatives with
\* a payer.
TenantMapping ==
  [provider : {"1cfresh", "other"},
   parses : SUBSET {"tenant", "products", "locations"},
   fields : SUBSET Field, catalogue : SUBSET Field, key : [Alias -> Field],
   lock : Published \cup {NoLock}, constants : SUBSET Constant,
   complete : SUBSET Alias, allow : SUBSET Place, payers : SUBSET Place]

ASSUME GateAssumption ==
  /\ Op \subseteq Nat
  /\ Rep \subseteq Place
  /\ About \in [Op -> UnfOutboxItem]
  /\ \A i \in Op : About[i].kind # "adjustment" => About[i].moves \in [Product -> Nat]
  /\ FirstMapped \subseteq Place \cup Product
  /\ Published \subseteq ODataEntitySets
  /\ Mapping \subseteq TenantMapping
  /\ FirstMapping \subseteq Mapping
  /\ SyncLimit \in Nat /\ HealthLimit \in Nat
  /\ NoLock \notin Published
  /\ NoMapping \notin Mapping
  /\ NoStructure \notin Published
  /\ MaxEdits \in Nat

VARIABLES
  mapping,    \* the file
  structure,  \* what 1C:UNF publishes
  recorded, confirmed,  \* operations committed, and those confirmed
  mapped,     \* places and products with an identifier of 1C:UNF
  documents,  \* documents of 1C:UNF
  edits,
  step, loaded, checked, todo, ready,  \* the run of fresh_sync
  look, audited, locked,  \* the run of fresh_health
  fresh,      \* nothing was edited since that run began
  promise,    \* the page of the last verdict, if it was ready and nothing was edited since
  assured     \* the same, for the run of fresh_sync

outside == <<mapping, structure, recorded, mapped>>
unf == <<confirmed, documents>>
run == <<step, loaded, checked, todo, ready>>
health == <<look, audited, locked, fresh, promise>>
vars == <<outside, unf, edits, run, health, assured>>

\* At most one page of operations.
Promise == {{}} \cup {{page} : page \in SUBSET Op}
Document ==
  [of : Op, alias : Alias, rows : [Product -> Nat], key : Field, under : Published]

TypeOK ==
  /\ mapping \in Mapping /\ structure \in Published
  /\ recorded \subseteq Op /\ confirmed \subseteq recorded
  /\ mapped \subseteq Place \cup Product
  /\ documents \subseteq Document
  /\ edits \in 0..MaxEdits
  /\ step \in {"idle", "check", "outbox", "item", "write"}
  /\ loaded \in Mapping \cup {NoMapping}
  /\ checked \in Published \cup {NoStructure}
  /\ todo \subseteq Op /\ ready \subseteq Op
  /\ look \in {"idle", "metadata", "outbox"}
  /\ audited \in Mapping \cup {NoMapping}
  /\ locked \in BOOLEAN /\ fresh \in BOOLEAN
  /\ promise \in Promise /\ assured \in Promise

Init ==
  /\ mapping \in FirstMapping /\ structure \in Published
  /\ recorded = {} /\ confirmed = {} /\ mapped = FirstMapped /\ documents = {}
  /\ edits = 0
  /\ step = "idle" /\ loaded = NoMapping /\ checked = NoStructure
  /\ todo = {} /\ ready = {}
  /\ look = "idle" /\ audited = NoMapping /\ locked = FALSE /\ fresh = FALSE
  /\ promise = {} /\ assured = {}

-----------------------------------------------------------------------------
Moved(i) == {p \in Product : About[i].moves[p] # 0}
Gains(i) == \E p \in Product : About[i].moves[p] > 0
Loses(i) == \E p \in Product : About[i].moves[p] < 0

\* _stock_target and build_plan.
Plan(i) ==
  CASE About[i].kind = "transfer" -> {"transfer"}
    [] About[i].kind = "sale" -> {"sale"}
    [] About[i].kind = "handover" -> {"cash_receipt"}
    [] About[i].kind = "adjustment" ->
         (IF Gains(i) THEN {"stock_receipt"} ELSE {})
           \cup (IF Loses(i) THEN {"stock_writeoff"} ELSE {})

\* ready_for_unf: what the operation names is mapped, a sale has its price type and an
\* adjustment its movements.
ReadyForUnf(i) ==
  /\ About[i].from \in mapped
  /\ About[i].kind = "transfer" => About[i].to \in mapped
  /\ About[i].kind = "sale" => About[i].price # "none"
  /\ About[i].kind = "adjustment" => Moved(i) # {}
  /\ Moved(i) \subseteq mapped

Waiting == recorded \ confirmed
Page(limit) == {i \in Waiting : Cardinality({j \in Waiting : j < i}) < limit}

\* TenantMapping.from_dict raises no ValueError.
Parses(m) == "tenant" \in m.parses

\* What main of fresh_sync asks of the file before it begins; health asks that it parses.
Starts(m) == Parses(m) /\ m.provider = "1cfresh"

\* validate_against_metadata.
Known(fields, s) == fields \subseteq s.fields \cup s.opaque
Fits(m, s) == Known(m.fields, s)

\* Mutant: a mapping without a lock is good enough to write.
LockedOrOpen(m, s) == m.lock \in {NoLock, s}

\* validate_metadata_schema_lock with require_schema_lock.
SchemaLocked(m, s) == m.lock = s

-----------------------------------------------------------------------------
\* Constants the payload takes.
Needs(i, alias) ==
  CASE alias = "sale" -> {"organization", About[i].price}
    [] alias = "cash_receipt" -> {"organization", "cashbox", "cash_flow_item"}
    [] OTHER -> {"organization"}

\* Mutant: both documents of a mixed adjustment get all its rows.
AllRows(i, alias) ==
  [p \in Product |-> IF About[i].moves[p] < 0 THEN -About[i].moves[p] ELSE About[i].moves[p]]

\* The rows of a payload; a receipt takes what came, a write-off what went.
Rows(i, alias) ==
  [p \in Product |->
     CASE alias = "stock_receipt" /\ About[i].moves[p] < 0 -> 0
       [] alias = "stock_writeoff" -> IF About[i].moves[p] < 0 THEN -About[i].moves[p] ELSE 0
       [] OTHER -> About[i].moves[p]]

\* MappedDocumentPayloadBuilder has a schema with the aliases the factory requires.
HasSchema(m, alias) == alias \in m.complete

\* UnfOperationPayloadFactory raises no ValueError.
Builds(m, i, alias) ==
  /\ HasSchema(m, alias)
  /\ Needs(i, alias) \subseteq m.constants
  /\ alias = "cash_receipt" => About[i].from \in m.payers
  /\ alias # "cash_receipt" => \E p \in Product : Rows(i, alias)[p] > 0

BuildsAll(m, i) == \A alias \in Plan(i) : Builds(m, i, alias)

\* audit_mapping_data reports no error.
Audited(m) ==
  /\ m.parses = {"tenant", "products", "locations"}
  /\ m.constants = Constant
  /\ m.complete = Alias
  /\ m.allow \ Rep # {} /\ m.allow \cap Rep # {}
  /\ m.allow \cap Rep \subseteq m.payers

-----------------------------------------------------------------------------
\* The file or the structure is edited: what health found may hold no longer.
Edited ==
  /\ edits < MaxEdits
  /\ edits' = edits + 1
  /\ fresh' = FALSE
  /\ promise' = {}
  /\ assured' = {}
  /\ UNCHANGED <<recorded, mapped, unf, run, look, audited, locked>>

EditMapping ==
  /\ mapping' \in Mapping \ {mapping}
  /\ Edited
  /\ UNCHANGED structure

Publish ==
  /\ structure' \in Published \ {structure}
  /\ Edited
  /\ UNCHANGED mapping

\* A service commits an operation; a place or a product gets its identifier.
Record ==
  /\ \E i \in Op \ recorded : recorded' = recorded \cup {i}
  /\ UNCHANGED <<mapping, structure, mapped, unf, edits, run, health, assured>>

Map ==
  /\ \E x \in (Place \cup Product) \ mapped : mapped' = mapped \cup {x}
  /\ UNCHANGED <<mapping, structure, recorded, unf, edits, run, health, assured>>

-----------------------------------------------------------------------------
\* The process of fresh_sync ends, with whatever exit code.
Exit ==
  /\ step' = "idle"
  /\ loaded' = NoMapping /\ checked' = NoStructure
  /\ todo' = {} /\ ready' = {}

Stay == UNCHANGED <<outside, unf, edits, health>>

Load ==
  /\ step = "idle"
  /\ Starts(mapping)
  /\ loaded' = mapping
  /\ step' = "check"
  /\ assured' = promise
  /\ Stay /\ UNCHANGED <<checked, todo, ready>>

LoadFails ==
  /\ step = "idle"
  /\ ~Starts(mapping)
  /\ Exit
  /\ Stay /\ UNCHANGED assured

\* validate_configuration: the structure is read and compared, once in a run.
Check ==
  /\ step = "check"
  /\ Fits(loaded, structure) /\ SchemaLocked(loaded, structure)
  /\ checked' = structure
  /\ step' = "outbox"
  /\ Stay /\ UNCHANGED <<loaded, todo, ready, assured>>

CheckFails ==
  /\ step = "check"
  /\ ~(Fits(loaded, structure) /\ SchemaLocked(loaded, structure))
  /\ Exit
  /\ Stay /\ UNCHANGED assured

ReadOutbox ==
  /\ step = "outbox"
  /\ todo' = Page(SyncLimit)
  /\ ready' = {i \in Page(SyncLimit) : ReadyForUnf(i)}
  /\ step' = "item"
  /\ Stay /\ UNCHANGED <<loaded, checked, assured>>

Current == Min(todo)

Finish ==
  /\ step = "item" /\ todo = {}
  /\ Exit
  /\ Stay /\ UNCHANGED assured

SkipItem ==
  /\ step = "item" /\ todo # {}
  /\ Current \notin ready
  /\ todo' = todo \ {Current}
  /\ Stay /\ UNCHANGED <<step, loaded, checked, ready, assured>>

\* All payloads of the operation are built before its first document is written.
BuildItem ==
  /\ step = "item" /\ todo # {}
  /\ Current \in ready /\ BuildsAll(loaded, Current)
  /\ step' = "write"
  /\ Stay /\ UNCHANGED <<loaded, checked, todo, ready, assured>>

BuildFails ==
  /\ step = "item" /\ todo # {}
  /\ Current \in ready /\ ~BuildsAll(loaded, Current)
  /\ Exit
  /\ Stay /\ UNCHANGED assured

\* The documents of an operation, and those that a mapping finds: each by its key in the
\* field where that mapping would have written it.
DocumentsOf(i) == {d \in documents : d.of = i}
Documents(m, i) == {d \in DocumentsOf(i) : d.key = m.key[d.alias]}
Missing(m, i) == Plan(i) \ {d.alias : d \in Documents(m, i)}

\* The receipt is written before the write-off.
NextAlias(m, i) ==
  IF "stock_receipt" \in Missing(m, i)
  THEN "stock_receipt" ELSE CHOOSE a \in Missing(m, i) : TRUE

\* ensure_document; 1C:UNF refuses a field it does not have.
Write ==
  LET a == NextAlias(loaded, Current)
      d == [of |-> Current, alias |-> a, rows |-> Rows(Current, a), key |-> loaded.key[a],
            under |-> structure]
  IN  /\ step = "write" /\ Missing(loaded, Current) # {}
      /\ \/ /\ Fits(loaded, structure)
            /\ documents' = documents \cup {d}
            /\ UNCHANGED run
         \/ /\ ~(loaded.fields \subseteq structure.fields)
            /\ Exit
            /\ UNCHANGED documents
      /\ UNCHANGED <<outside, confirmed, edits, health, assured>>

Confirm ==
  /\ step = "write" /\ Missing(loaded, Current) = {}
  /\ confirmed' = confirmed \cup {Current}
  /\ todo' = todo \ {Current}
  /\ step' = "item"
  /\ UNCHANGED <<outside, documents, edits, health, assured>>
  /\ UNCHANGED <<loaded, checked, ready>>

\* An error of the network or of a server; the timer tries again, whatever its class.
SyncFails ==
  /\ step # "idle"
  /\ Exit
  /\ UNCHANGED <<outside, unf, edits, health, assured>>

-----------------------------------------------------------------------------
HealthEnds == look' = "idle" /\ audited' = NoMapping /\ locked' = FALSE

\* main: the file is parsed and audited.
HealthLoad ==
  /\ look = "idle"
  /\ fresh' = TRUE
  /\ promise' = {}
  /\ IF Parses(mapping)
     THEN look' = "metadata" /\ audited' = mapping /\ UNCHANGED locked
     ELSE HealthEnds
  /\ UNCHANGED <<outside, unf, edits, run, assured>>

HealthMetadata ==
  /\ look = "metadata"
  /\ IF Fits(audited, structure)
     THEN /\ look' = "outbox"
          /\ locked' = (SchemaLocked(audited, structure) /\ Known(audited.catalogue, structure))
          /\ UNCHANGED audited
     ELSE HealthEnds
  /\ UNCHANGED <<outside, unf, edits, run, fresh, promise, assured>>

\* Mutant: health does not build the payloads.
HealthyUnbuilt(m, page) == Audited(m) /\ \A i \in page : ReadyForUnf(i)

\* The rest of check_health: the audit, the operations and their payloads.
Healthy(m, page) ==
  /\ Audited(m)
  /\ \A i \in page : ReadyForUnf(i) /\ BuildsAll(m, i)

\* The server is ready and 1C:UNF has the objects of the constants and reference_checks.
HealthVerdict ==
  /\ look = "outbox"
  /\ \E present \in BOOLEAN :
       LET found == locked /\ present /\ Healthy(audited, Page(HealthLimit))
       IN  promise' = IF found /\ fresh THEN {Page(HealthLimit)} ELSE {}
  /\ HealthEnds
  /\ UNCHANGED <<outside, unf, edits, run, fresh, assured>>

HealthFails ==
  /\ look # "idle"
  /\ HealthEnds
  /\ UNCHANGED <<outside, unf, edits, run, fresh, promise, assured>>

-----------------------------------------------------------------------------
Sync ==
  \/ Load \/ LoadFails \/ Check \/ CheckFails \/ ReadOutbox \/ Finish \/ SkipItem
  \/ BuildItem \/ BuildFails \/ Write \/ Confirm \/ SyncFails

Health == HealthLoad \/ HealthMetadata \/ HealthVerdict \/ HealthFails

Next == EditMapping \/ Publish \/ Record \/ Map \/ Sync \/ Health

Spec == Init /\ [][Next]_vars

-----------------------------------------------------------------------------
\* After health has reported ready, and until the mapping or the structure is edited,
\* the file lets runs begin, unless it is of another provider, which health does not look
\* at; none stops over what it compares, and none skips or fails to build an operation
\* that health saw (check_health against run_sync, main and the limits of the units).
ReadyMeansDelivered ==
  [][/\ promise' # {} => Starts(mapping') \/ mapping'.provider # "1cfresh"
     /\ CheckFails => assured = {}
     /\ SkipItem \/ BuildFails => \A page \in assured : Current \notin page]_vars

\* A document is written under the accepted structure, unless the structure changed
\* after the run had compared it (UNF_SCHEMA_LOCK.md).
WrittenUnderLock ==
  [][\A d \in documents' \ documents : d.under = loaded.lock \/ d.under # checked]_vars

Signed(d, p) == IF d.alias = "stock_writeoff" THEN -d.rows[p] ELSE d.rows[p]
Carries(S, i) ==
  /\ {d.alias : d \in S} = Plan(i)
  /\ \A p \in Product : MapThenSumSet(LAMBDA d : Signed(d, p), S) = About[i].moves[p]

\* Two documents of one kind under the keys of two mappings.
Apart(S) == \E d, e \in S : d.alias = e.alias /\ d.key # e.key

\* The documents of a confirmed operation carry together just what it moved, however many
\* runs and mappings wrote them, unless an edit moved the key of one already written to
\* another EntitySet or field, where it was not found and written again; then those that
\* one mapping finds carry it (the split of mixed adjustments in planner.py, the rows of
\* operation_payloads.py and find_document).
CarriesOperation ==
  \A i \in confirmed :
    /\ Apart(DocumentsOf(i)) \/ Carries(DocumentsOf(i), i)
    /\ \E m \in Mapping : Carries(Documents(m, i), i)
=============================================================================
