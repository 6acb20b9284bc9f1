---------------------------- MODULE BridgeGate_proofs ----------------------------
(***************************************************************************)
(* Proofs about BridgeGate for any operations, mappings, structures, page  *)
(* limits and number of edits.                                             *)
(***************************************************************************)
EXTENDS BridgeGate, WellFoundedInduction, TLAPS

-----------------------------------------------------------------------------
(***************************************************************************)
(* Facts about the operators.                                              *)
(***************************************************************************)

\* A nonempty set of numbers has a least one.
LEMMA NatHasLeast ==
  ASSUME NEW S \in SUBSET Nat, S # {}
  PROVE  \E x \in S : \A y \in S : x <= y
<1>1. PICK x \in S : \A y \in S : ~(<<y, x>> \in OpToRel(<, Nat))
  BY WFMin, NatLessThanWellFounded, Zenon
<1>2. \A y \in S : ~(y < x)
  BY <1>1 DEF OpToRel
<1> QED
  BY <1>2

\* The run works on one of the operations left.
LEMMA CurrentIsLeft ==
  ASSUME todo \in SUBSET Op, todo # {}
  PROVE  Current \in todo
<1>1. todo \in SUBSET Nat
  BY GateAssumption
<1>2. \E i \in todo : \A j \in todo : i <= j
  BY <1>1, NatHasLeast
<1> QED
  BY <1>2, Zenon DEF Current, Min

\* An operation as the services write it.
LEMMA AboutTyped ==
  ASSUME NEW i \in Op
  PROVE  /\ About[i].kind \in Kind
         /\ About[i].moves \in [Product -> Int]
         /\ About[i].kind # "adjustment" => About[i].moves \in [Product -> Nat]
BY GateAssumption DEF UnfOutboxItem

\* The documents an operation becomes: one, or those of an adjustment.
LEMMA PlanCases ==
  ASSUME NEW i \in Op
  PROVE  /\ About[i].kind = "transfer" => Plan(i) = {"transfer"}
         /\ About[i].kind = "sale" => Plan(i) = {"sale"}
         /\ About[i].kind = "handover" => Plan(i) = {"cash_receipt"}
         /\ About[i].kind = "adjustment" =>
              Plan(i) = (IF Gains(i) THEN {"stock_receipt"} ELSE {})
                          \cup (IF Loses(i) THEN {"stock_writeoff"} ELSE {})
         /\ Plan(i) \subseteq Alias
<1>1. CASE About[i].kind = "transfer"
  BY <1>1 DEF Plan, Alias
<1>2. CASE About[i].kind = "sale"
  BY <1>2 DEF Plan, Alias
<1>3. CASE About[i].kind = "handover"
  BY <1>3 DEF Plan, Alias
<1>4. CASE About[i].kind = "adjustment"
  BY <1>4 DEF Plan, Alias
<1> QED
  BY <1>1, <1>2, <1>3, <1>4, AboutTyped DEF Kind

\* The rows of a document are quantities: what it takes of what the operation moved.
LEMMA RowsOfAlias ==
  ASSUME NEW i \in Op, NEW a \in Plan(i), NEW p \in Product
  PROVE  /\ Rows(i, a)[p] \in Nat
         /\ a = "stock_receipt" =>
              Rows(i, a)[p] = IF About[i].moves[p] < 0 THEN 0 ELSE About[i].moves[p]
         /\ a = "stock_writeoff" =>
              Rows(i, a)[p] = IF About[i].moves[p] < 0 THEN -About[i].moves[p] ELSE 0
         /\ a \notin {"stock_receipt", "stock_writeoff"} => Rows(i, a)[p] = About[i].moves[p]
<1> DEFINE n == About[i].moves[p]
<1>1. n \in Int /\ (About[i].kind # "adjustment" => n \in Nat)
  BY AboutTyped
<1>2. Rows(i, a)[p] = CASE a = "stock_receipt" /\ n < 0 -> 0
                        [] a = "stock_writeoff" -> IF n < 0 THEN -n ELSE 0
                        [] OTHER -> n
  BY DEF Rows
<1> HIDE DEF n
<1>3. CASE a = "stock_receipt"
  BY <1>1, <1>2, <1>3 DEF n
<1>4. CASE a = "stock_writeoff"
  BY <1>1, <1>2, <1>4 DEF n
<1>5. CASE a \notin {"stock_receipt", "stock_writeoff"}
  <2>1. About[i].kind # "adjustment"
    BY <1>5, PlanCases
  <2> QED
    BY <1>1, <1>2, <1>5, <2>1 DEF n
<1> QED
  BY <1>3, <1>4, <1>5

\* So the rows are a function to quantities.
LEMMA RowsTyped ==
  ASSUME NEW i \in Op, NEW a \in Plan(i)
  PROVE  Rows(i, a) \in [Product -> Nat]
<1>1. \A p \in Product : Rows(i, a)[p] \in Nat
  BY RowsOfAlias
<1>2. DOMAIN Rows(i, a) = Product /\ Rows(i, a) = [p \in Product |-> Rows(i, a)[p]]
  BY DEF Rows
<1> QED
  BY <1>1, <1>2

\* The next document is one of those missing.
LEMMA NextIsMissing ==
  ASSUME NEW m, NEW i, Missing(m, i) # {}
  PROVE  NextAlias(m, i) \in Missing(m, i)
BY Zenon DEF NextAlias

\* A page of the outbox is of operations.
LEMMA PageOfOps ==
  ASSUME recorded \subseteq Op, NEW limit
  PROVE  Page(limit) \in SUBSET Op
BY DEF Page, Waiting

-----------------------------------------------------------------------------
(***************************************************************************)
(* Sums over the documents of an operation, of which there are two at most.*)
(***************************************************************************)

Pick(s) == CHOOSE x \in s : TRUE
Total(p, S) == MapThenSumSet(LAMBDA d : Signed(d, p), S)

\* The equation of the sum, and a function of the parts of S that satisfies it.
Sum(p, g, s) == IF s = {} THEN 0 ELSE Signed(Pick(s), p) + g[s \ {Pick(s)}]
Sums(p, S, g) == g = [s \in SUBSET S |-> Sum(p, g, s)]

\* A function that satisfies the equation exists, so the sum satisfies it.
LEMMA TotalIsSum ==
  ASSUME NEW p, NEW S, NEW h, Sums(p, S, h)
  PROVE  \E g : /\ Total(p, S) = g[S]
                /\ \A s \in SUBSET S : g[s] = Sum(p, g, s)
<1> DEFINE it == CHOOSE g : g = [s \in SUBSET S |->
                   IF s = {} THEN 0
                   ELSE Signed(CHOOSE x \in s : TRUE, p) + g[s \ {CHOOSE x \in s : TRUE}]]
<1>1. Total(p, S) = it[S]
  BY Zenon DEF Total, MapThenSumSet, MapThenFoldSet
<1>2. Sums(p, S, it)
  BY Zenon DEF Sums, Sum, Pick
<1> HIDE DEF it
<1>3. \A s \in SUBSET S : it[s] = Sum(p, it, s)
  BY <1>2, Zenon DEF Sums
<1> QED
  BY <1>1, <1>3

\* No documents sum to nothing.
LEMMA TotalOfNone ==
  ASSUME NEW p
  PROVE  Total(p, {}) = 0
<1> DEFINE h == [s \in SUBSET {} |-> 0]
<1>1. Sums(p, {}, h)
  BY DEF Sums, Sum
<1> HIDE DEF h
<1>2. PICK g : Total(p, {}) = g[{}] /\ \A s \in SUBSET {} : g[s] = Sum(p, g, s)
  BY <1>1, TotalIsSum, Zenon
<1> QED
  BY <1>2 DEF Sum

\* One step of the sum.
LEMMA SumStep ==
  ASSUME NEW p, NEW g, NEW s, NEW rest, s # {}, s \ {Pick(s)} = rest
  PROVE  Sum(p, g, s) = Signed(Pick(s), p) + g[rest]
BY Zenon DEF Sum

\* The parts of two documents, and what is left of them.
LEMMA Parts ==
  ASSUME NEW a, NEW b
  PROVE  /\ Pick({a}) = a /\ {a} # {} /\ {a} \ {a} = {}
         /\ Pick({a, b}) \in {a, b} /\ {a, b} # {}
         /\ a # b => {a, b} \ {a} = {b} /\ {a, b} \ {b} = {a}
BY DEF Pick

\* The sum of one document.
LEMMA SumOfOne ==
  ASSUME NEW p, NEW a, NEW g, g[{}] = 0, Signed(a, p) \in Int
  PROVE  Sum(p, g, {a}) = Signed(a, p)
<1>1. Pick({a}) = a /\ {a} # {} /\ {a} \ {a} = {}
  BY Parts
<1>2. {a} \ {Pick({a})} = {}
  BY <1>1, Zenon
<1>3. Sum(p, g, {a}) = Signed(Pick({a}), p) + g[{}]
  BY <1>1, <1>2, SumStep, Zenon
<1> QED
  BY <1>1, <1>3

\* The sum of two documents.
LEMMA SumOfTwo ==
  ASSUME NEW p, NEW a, NEW b, a # b, NEW g,
         Signed(a, p) \in Int, Signed(b, p) \in Int,
         g[{a}] = Signed(a, p), g[{b}] = Signed(b, p)
  PROVE  Sum(p, g, {a, b}) = Signed(a, p) + Signed(b, p)
<1>1. {a, b} # {} /\ {a, b} \ {a} = {b} /\ {a, b} \ {b} = {a}
  BY Parts
<1>2. CASE Pick({a, b}) = a
  <2>1. {a, b} \ {Pick({a, b})} = {b} /\ {a, b} # {}
    BY <1>1, <1>2, Zenon
  <2>2. Sum(p, g, {a, b}) = Signed(Pick({a, b}), p) + g[{b}]
    BY <2>1, SumStep, Zenon
  <2> QED
    BY <1>2, <2>2, Zenon
<1>3. CASE Pick({a, b}) = b
  <2>1. {a, b} \ {Pick({a, b})} = {a} /\ {a, b} # {}
    BY <1>1, <1>3, Zenon
  <2>2. Sum(p, g, {a, b}) = Signed(Pick({a, b}), p) + g[{a}]
    BY <2>1, SumStep, Zenon
  <2>3. Sum(p, g, {a, b}) = Signed(b, p) + Signed(a, p)
    BY <1>3, <2>2, Zenon
  <2> QED
    BY <2>3
<1> QED
  BY <1>2, <1>3, Parts

\* One document sums to its rows.
LEMMA TotalOfOne ==
  ASSUME NEW p, NEW a, Signed(a, p) \in Int
  PROVE  Total(p, {a}) = Signed(a, p)
<1> DEFINE S == {a}
           h == [s \in SUBSET S |-> IF s = {} THEN 0 ELSE Signed(a, p)]
<1>1. Sums(p, S, h)
  <2>1. h[{}] = 0 /\ h[{a}] = Signed(a, p) /\ h = [s \in SUBSET S |-> h[s]]
    OBVIOUS
  <2>2. \A s \in SUBSET S : s = {} \/ s = {a}
    OBVIOUS
  <2> HIDE DEF h, S
  <2>3. h[{}] = Sum(p, h, {}) /\ h[{a}] = Sum(p, h, {a})
    BY <2>1, SumOfOne DEF Sum
  <2>4. \A s \in SUBSET S : h[s] = Sum(p, h, s)
    BY <2>2, <2>3, Zenon
  <2> QED
    BY <2>1, <2>4, Zenon DEF Sums
<1>2. {} \in SUBSET S /\ {a} \in SUBSET S
  OBVIOUS
<1> HIDE DEF h, S
<1>3. PICK g : Total(p, S) = g[S] /\ \A s \in SUBSET S : g[s] = Sum(p, g, s)
  BY <1>1, TotalIsSum
<1>4. g[{}] = 0
  BY <1>2, <1>3 DEF Sum
<1>5. g[{a}] = Signed(a, p)
  BY <1>2, <1>3, <1>4, SumOfOne
<1> QED
  BY <1>3, <1>5 DEF S

\* Two documents sum to the rows of both.
LEMMA TotalOfTwo ==
  ASSUME NEW p, NEW a, NEW b, a # b, Signed(a, p) \in Int, Signed(b, p) \in Int
  PROVE  Total(p, {a, b}) = Signed(a, p) + Signed(b, p)
<1> DEFINE S == {a, b}
           h == [s \in SUBSET S |-> IF s = {} THEN 0
                                    ELSE IF s = {a} THEN Signed(a, p)
                                    ELSE IF s = {b} THEN Signed(b, p)
                                    ELSE Signed(a, p) + Signed(b, p)]
<1>1. Sums(p, S, h)
  <2>1. {a} # {} /\ {b} # {} /\ {a, b} # {} /\ {a} # {b} /\ {a, b} # {a} /\ {a, b} # {b}
    OBVIOUS
  <2>2. {a} \in SUBSET S /\ {b} \in SUBSET S /\ {a, b} \in SUBSET S
    OBVIOUS
  <2>3. /\ h[{}] = 0 /\ h[{a}] = Signed(a, p) /\ h[{b}] = Signed(b, p)
        /\ h[{a, b}] = Signed(a, p) + Signed(b, p)
    BY <2>1, <2>2
  <2>4. \A s \in SUBSET S : s = {} \/ s = {a} \/ s = {b} \/ s = {a, b}
    OBVIOUS
  <2>5. h = [s \in SUBSET S |-> h[s]]
    OBVIOUS
  <2> HIDE DEF h, S
  <2>6. h[{}] = Sum(p, h, {}) /\ h[{a}] = Sum(p, h, {a}) /\ h[{b}] = Sum(p, h, {b})
    BY <2>3, SumOfOne DEF Sum
  <2>7. h[{a, b}] = Sum(p, h, {a, b})
    BY <2>3, SumOfTwo
  <2>8. \A s \in SUBSET S : h[s] = Sum(p, h, s)
    BY <2>4, <2>6, <2>7, Zenon
  <2> QED
    BY <2>5, <2>8, Zenon DEF Sums
<1>2. {} \in SUBSET S /\ {a} \in SUBSET S /\ {b} \in SUBSET S /\ {a, b} \in SUBSET S
  OBVIOUS
<1> HIDE DEF h, S
<1>3. PICK g : Total(p, S) = g[S] /\ \A s \in SUBSET S : g[s] = Sum(p, g, s)
  BY <1>1, TotalIsSum
<1>4. g[{}] = 0
  BY <1>2, <1>3 DEF Sum
<1>5. g[{a}] = Signed(a, p) /\ g[{b}] = Signed(b, p)
  BY <1>2, <1>3, <1>4, SumOfOne
<1>6. g[{a, b}] = Signed(a, p) + Signed(b, p)
  BY <1>2, <1>3, <1>5, SumOfTwo
<1> QED
  BY <1>3, <1>6 DEF S
-----------------------------------------------------------------------------
(***************************************************************************)
(* The inductive invariant.                                                *)
(***************************************************************************)

\* A run works with a mapping whose lock is the structure it compared.
RunInv ==
  /\ todo \subseteq recorded
  /\ step # "idle" => loaded \in Mapping
  /\ step \in {"outbox", "item", "write"} => checked \in Published /\ loaded.lock = checked
  /\ step = "write" => todo # {}

\* A document is one of its operation's plan, with its rows, and the only one of its
\* kind that holds its key where it does; there is a mapping, that of the run that
\* confirmed it, which finds all the documents of a confirmed operation.
DocumentInv ==
  /\ \A d \in documents : d.alias \in Plan(d.of) /\ d.rows = Rows(d.of, d.alias)
  /\ \A d, e \in documents : d.of = e.of /\ d.alias = e.alias /\ d.key = e.key => d = e
  /\ \A i \in confirmed : \E m \in Mapping : Missing(m, i) = {}

\* While nothing is edited, what health has seen is what there is.
HealthInv ==
  /\ look # "idle" => audited \in Mapping
  /\ look # "idle" /\ fresh => audited = mapping
  /\ look = "outbox" /\ fresh =>
       \A m, s : m = mapping /\ s = structure =>
         Fits(m, s) /\ (locked => SchemaLocked(m, s))

\* The mapping and the structure that are there let all of a page be written.
Good(page) ==
  /\ \A m, s : m = mapping /\ s = structure =>
       /\ Parses(m) /\ Fits(m, s) /\ SchemaLocked(m, s)
       /\ \A i \in page : BuildsAll(m, i)
  /\ \A i \in page : ReadyForUnf(i)

\* A promise that stands is true, and the run it was given to works with that mapping
\* and has found ready what it promised of the operations left.
PromiseInv ==
  /\ \A page \in promise : Good(page)
  /\ \A page \in assured :
       /\ Good(page)
       /\ step # "idle" => loaded = mapping
       /\ step \in {"item", "write"} => todo \cap page \subseteq ready

IInv == TypeOK /\ RunInv /\ DocumentInv /\ HealthInv /\ PromiseInv

\* It may be that nothing is promised.
LEMMA NoPromise == {} \in Promise
BY DEF Promise

LEMMA InitIInv == Init => IInv
<1> SUFFICES ASSUME Init
             PROVE  IInv
  OBVIOUS
<1> USE DEF Init
<1>1. TypeOK
  <2>1. FirstMapping \subseteq Mapping /\ FirstMapped \subseteq Place \cup Product /\ 0 \in 0..MaxEdits
    BY GateAssumption
  <2> QED
    BY <2>1, NoPromise DEF TypeOK
<1>2. RunInv /\ DocumentInv
  BY DEF RunInv, DocumentInv
<1>3. HealthInv /\ PromiseInv
  BY DEF HealthInv, PromiseInv
<1> QED
  BY <1>1, <1>2, <1>3 DEF IInv

-----------------------------------------------------------------------------
(***************************************************************************)
(* Types.                                                                  *)
(***************************************************************************)

\* A run that ends leaves nothing behind.
LEMMA ExitTypes ==
  ASSUME Exit
  PROVE  /\ step' = "idle" /\ loaded' \in Mapping \cup {NoMapping}
         /\ checked' \in Published \cup {NoStructure}
         /\ todo' = {} /\ ready' = {}
BY DEF Exit

\* A mapping names the field that holds the key of each document.
LEMMA KeyTyped ==
  ASSUME NEW m \in Mapping, NEW a \in Alias
  PROVE  m.key[a] \in Field
BY GateAssumption DEF TenantMapping

\* The document a run writes next is one its operation still misses.
LEMMA NextDocument ==
  ASSUME TypeOK, RunInv, step = "write", Missing(loaded, Current) # {}, NEW a,
         a = NextAlias(loaded, Current)
  PROVE  /\ Current \in Op
         /\ a \in Missing(loaded, Current) /\ a \in Plan(Current)
         /\ [of |-> Current, alias |-> a, rows |-> Rows(Current, a), key |-> loaded.key[a],
             under |-> structure] \in Document
<1>1. Current \in Op /\ loaded \in Mapping
  BY CurrentIsLeft DEF TypeOK, RunInv
<1>2. a \in Missing(loaded, Current)
  BY NextIsMissing
<1>3. a \in Plan(Current)
  BY <1>2 DEF Missing
<1>4. Rows(Current, a) \in [Product -> Nat]
  BY <1>1, <1>3, RowsTyped
<1>5. a \in Alias
  BY <1>1, <1>3, PlanCases
<1>6. loaded.key[a] \in Field
  BY <1>1, <1>5, KeyTyped
<1> QED
  BY <1>1, <1>2, <1>3, <1>4, <1>5, <1>6 DEF TypeOK, Document

\* The edits are counted up to their bound.
LEMMA EditCounted ==
  ASSUME edits \in 0..MaxEdits, edits < MaxEdits
  PROVE  edits + 1 \in 0..MaxEdits
BY GateAssumption

\* Every step keeps the types.
LEMMA TypeStep ==
  ASSUME TypeOK, RunInv, [Next]_vars
  PROVE  TypeOK'
<1> USE DEF TypeOK, outside, unf, run, health
<1>1. CASE EditMapping
  BY <1>1, EditCounted, NoPromise DEF EditMapping, Edited
<1>2. CASE Publish
  BY <1>2, EditCounted, NoPromise DEF Publish, Edited
<1>3. CASE Record
  BY <1>3 DEF Record
<1>4. CASE Map
  BY <1>4 DEF Map
<1>5. CASE Load
  BY <1>5 DEF Load, Stay
<1>6. CASE LoadFails \/ CheckFails \/ Finish \/ BuildFails
  BY <1>6, ExitTypes DEF LoadFails, CheckFails, Finish, BuildFails, Stay
<1>7. CASE Check
  BY <1>7 DEF Check, Stay
<1>8. CASE ReadOutbox
  <2>1. Page(SyncLimit) \in SUBSET Op
    BY PageOfOps
  <2> QED
    BY <1>8, <2>1 DEF ReadOutbox, Stay
<1>9. CASE SkipItem \/ BuildItem
  BY <1>9 DEF SkipItem, BuildItem, Stay
<1>10. CASE Write
  <2>1. step = "write" /\ Missing(loaded, Current) # {}
    BY <1>10 DEF Write
  <2>2. documents' \subseteq Document
    BY <1>10, <2>1, NextDocument DEF Write
  <2>3. step' \in {"idle", "write"} /\ loaded' \in Mapping \cup {NoMapping}
        /\ checked' \in Published \cup {NoStructure} /\ todo' \subseteq Op /\ ready' \subseteq Op
    BY <1>10, ExitTypes DEF Write
  <2> QED
    BY <1>10, <2>2, <2>3 DEF Write
<1>11. CASE Confirm
  <2>1. Current \in todo
    BY <1>11, CurrentIsLeft DEF Confirm, RunInv
  <2>2. confirmed' \subseteq recorded
    BY <1>11, <2>1 DEF Confirm, RunInv
  <2> QED
    BY <1>11, <2>2 DEF Confirm
<1>12. CASE SyncFails
  BY <1>12, ExitTypes DEF SyncFails
<1>13. CASE HealthLoad
  BY <1>13 DEF HealthLoad, HealthEnds, Promise
<1>14. CASE HealthMetadata
  BY <1>14 DEF HealthMetadata, HealthEnds, SchemaLocked, Known
<1>15. CASE HealthVerdict
  <2>1. Page(HealthLimit) \in SUBSET Op
    BY PageOfOps
  <2>2. promise' = {} \/ promise' = {Page(HealthLimit)}
    BY <1>15 DEF HealthVerdict
  <2>3. promise' \in Promise
    BY <2>1, <2>2 DEF Promise
  <2> QED
    BY <1>15, <2>3 DEF HealthVerdict, HealthEnds
<1>16. CASE HealthFails
  BY <1>16 DEF HealthFails, HealthEnds
<1>17. CASE UNCHANGED vars
  BY <1>17 DEF vars
<1> QED
  BY <1>1, <1>2, <1>3, <1>4, <1>5, <1>6, <1>7, <1>8, <1>9, <1>10, <1>11, <1>12, <1>13,
     <1>14, <1>15, <1>16, <1>17 DEF Next, Sync, Health
-----------------------------------------------------------------------------
(***************************************************************************)
(* The run, its documents and the run of health.                           *)
(***************************************************************************)

\* Every step keeps what a run knows.
LEMMA RunStep ==
  ASSUME TypeOK, RunInv, [Next]_vars
  PROVE  RunInv'
<1> USE DEF RunInv, outside, unf, run, health
<1>1. CASE EditMapping \/ Publish
  BY <1>1 DEF EditMapping, Publish, Edited
<1>2. CASE Record
  BY <1>2 DEF Record
<1>3. CASE Map
  BY <1>3 DEF Map
<1>4. CASE Load
  BY <1>4 DEF Load, Stay, TypeOK
<1>5. CASE LoadFails \/ CheckFails \/ Finish \/ BuildFails
  BY <1>5 DEF LoadFails, CheckFails, Finish, BuildFails, Stay, Exit
<1>6. CASE Check
  BY <1>6 DEF Check, Stay, SchemaLocked, TypeOK
<1>7. CASE ReadOutbox
  BY <1>7 DEF ReadOutbox, Stay, Page, Waiting
<1>8. CASE SkipItem \/ BuildItem
  BY <1>8 DEF SkipItem, BuildItem, Stay
<1>9. CASE Write
  BY <1>9 DEF Write, Exit
<1>10. CASE Confirm
  BY <1>10 DEF Confirm
<1>11. CASE SyncFails
  BY <1>11 DEF SyncFails, Exit
<1>12. CASE Health
  BY <1>12 DEF Health, HealthLoad, HealthMetadata, HealthVerdict, HealthFails
<1>13. CASE UNCHANGED vars
  BY <1>13 DEF vars
<1> QED
  BY <1>1, <1>2, <1>3, <1>4, <1>5, <1>6, <1>7, <1>8, <1>9, <1>10, <1>11, <1>12, <1>13
     DEF Next, Sync

\* More documents leave less missing.
LEMMA MissingShrinks ==
  ASSUME documents \subseteq documents', NEW m, NEW i
  PROVE  Missing(m, i)' \subseteq Missing(m, i)
BY DEF Missing, Documents, DocumentsOf

\* So what a confirmed operation has it keeps.
LEMMA FoundStays ==
  ASSUME documents \subseteq documents', NEW i,
         \E m \in Mapping : Missing(m, i) = {}
  PROVE  \E m \in Mapping : Missing(m, i)' = {}
<1>1. PICK m \in Mapping : Missing(m, i) = {}
  OBVIOUS
<1>2. Missing(m, i)' = {}
  BY <1>1, MissingShrinks
<1> QED
  BY <1>2

\* Every step keeps what is known of the documents.
LEMMA DocumentStep ==
  ASSUME TypeOK, RunInv, DocumentInv, [Next]_vars
  PROVE  DocumentInv'
<1>1. CASE Write
  <2>1. CASE documents' = documents
    <3>1. confirmed' = confirmed
      BY <1>1 DEF Write
    <3>2. \A i \in confirmed : \E m \in Mapping : Missing(m, i)' = {}
      BY <2>1, FoundStays DEF DocumentInv
    <3> QED
      BY <2>1, <3>1, <3>2 DEF DocumentInv
  <2>2. CASE documents' # documents
    <3> DEFINE a == NextAlias(loaded, Current)
               new == [of |-> Current, alias |-> a, rows |-> Rows(Current, a),
                       key |-> loaded.key[a], under |-> structure]
    <3>1. step = "write" /\ Missing(loaded, Current) # {} /\ confirmed' = confirmed
      BY <1>1 DEF Write
    <3>2. documents' = documents \cup {new}
      BY <1>1, <2>2 DEF Write
    <3>3. a \in Plan(Current) /\ a \in Missing(loaded, Current)
      BY <3>1, NextDocument
    <3>4. new.of = Current /\ new.alias = a /\ new.rows = Rows(Current, a)
          /\ new.key = loaded.key[a]
      OBVIOUS
    <3> HIDE DEF new, a
    <3>5. new.alias \in Plan(new.of) /\ new.rows = Rows(new.of, new.alias)
      BY <3>3, <3>4
    <3>6. \A d \in documents : ~(d.of = new.of /\ d.alias = new.alias /\ d.key = new.key)
      BY <3>3, <3>4 DEF Missing, Documents, DocumentsOf
    <3>7. \A d \in documents' : d.alias \in Plan(d.of) /\ d.rows = Rows(d.of, d.alias)
      BY <3>2, <3>5 DEF DocumentInv
    <3>8. \A d, e \in documents' :
            d.of = e.of /\ d.alias = e.alias /\ d.key = e.key => d = e
      BY <3>2, <3>6 DEF DocumentInv
    <3>9. \A i \in confirmed' : \E m \in Mapping : Missing(m, i)' = {}
      BY <3>1, <3>2, FoundStays DEF DocumentInv
    <3> QED
      BY <3>7, <3>8, <3>9 DEF DocumentInv
  <2> QED
    BY <2>1, <2>2
<1>2. CASE Confirm
  <2>1. /\ documents' = documents /\ confirmed' = confirmed \cup {Current}
        /\ Missing(loaded, Current) = {} /\ loaded \in Mapping
    BY <1>2 DEF Confirm, RunInv
  <2>2. \A i \in confirmed' : \E m \in Mapping : Missing(m, i) = {}
    BY <2>1 DEF DocumentInv
  <2>3. \A i \in confirmed' : \E m \in Mapping : Missing(m, i)' = {}
    BY <2>1, <2>2, FoundStays
  <2> QED
    BY <2>1, <2>3 DEF DocumentInv
<1>3. CASE UNCHANGED unf
  <2>1. documents' = documents /\ confirmed' = confirmed
    BY <1>3 DEF unf
  <2>2. \A i \in confirmed' : \E m \in Mapping : Missing(m, i)' = {}
    BY <2>1, FoundStays DEF DocumentInv
  <2> QED
    BY <2>1, <2>2 DEF DocumentInv
<1>4. ASSUME ~Write, ~Confirm
      PROVE  UNCHANGED unf
  <2>1. CASE EditMapping \/ Publish \/ Record \/ Map
    BY <2>1 DEF EditMapping, Publish, Edited, Record, Map
  <2>2. CASE Sync
    BY <1>4, <2>2 DEF Sync, Load, LoadFails, Check, CheckFails, ReadOutbox, Finish, SkipItem,
                      BuildItem, BuildFails, SyncFails, Stay
  <2>3. CASE Health
    BY <2>3 DEF Health, HealthLoad, HealthMetadata, HealthVerdict, HealthFails
  <2>4. CASE UNCHANGED vars
    BY <2>4 DEF vars
  <2> QED
    BY <2>1, <2>2, <2>3, <2>4 DEF Next
<1> QED
  BY <1>1, <1>2, <1>3, <1>4

\* Every step keeps what health has seen.
LEMMA HealthStep ==
  ASSUME TypeOK, HealthInv, [Next]_vars
  PROVE  HealthInv'
<1>1. CASE EditMapping \/ Publish
  BY <1>1 DEF EditMapping, Publish, Edited, HealthInv
<1>2. CASE HealthLoad
  BY <1>2 DEF HealthLoad, HealthEnds, outside, unf, HealthInv, TypeOK
<1>3. CASE HealthMetadata
  <2>1. CASE Fits(audited, structure)
    <3>1. /\ look' = "outbox" /\ audited' = audited /\ fresh' = fresh
          /\ locked' = (SchemaLocked(audited, structure) /\ Known(audited.catalogue, structure))
          /\ mapping' = mapping /\ structure' = structure /\ look = "metadata"
      BY <1>3, <2>1 DEF HealthMetadata, outside
    <3>2. audited \in Mapping /\ (fresh => audited = mapping)
      BY <3>1 DEF HealthInv
    <3>3. locked' => SchemaLocked(audited, structure)
      BY <3>1
    <3>4. fresh' => \A m, s : m = mapping' /\ s = structure' =>
                      Fits(m, s) /\ (locked' => SchemaLocked(m, s))
      BY <2>1, <3>1, <3>2, <3>3
    <3> QED
      BY <3>1, <3>2, <3>4 DEF HealthInv
  <2>2. CASE ~Fits(audited, structure)
    BY <1>3, <2>2 DEF HealthMetadata, HealthEnds, HealthInv
  <2> QED
    BY <2>1, <2>2
<1>4. CASE HealthVerdict \/ HealthFails
  BY <1>4 DEF HealthVerdict, HealthFails, HealthEnds, HealthInv
<1>5. CASE Record \/ Map \/ Sync \/ UNCHANGED vars
  <2>1. UNCHANGED <<mapping, structure, look, audited, locked, fresh>>
    BY <1>5 DEF Record, Map, Sync, Load, LoadFails, Check, CheckFails, ReadOutbox, Finish,
                SkipItem, BuildItem, BuildFails, Write, Confirm, SyncFails, Stay, outside,
                health, vars
  <2> QED
    BY <2>1 DEF HealthInv
<1> QED
  BY <1>1, <1>2, <1>3, <1>4, <1>5 DEF Next, Health
-----------------------------------------------------------------------------
(***************************************************************************)
(* Promises.                                                               *)
(***************************************************************************)

\* What was ready stays ready: identifiers are only added.
LEMMA ReadyStays ==
  ASSUME mapped \subseteq mapped', NEW i, ReadyForUnf(i)
  PROVE  ReadyForUnf(i)'
BY DEF ReadyForUnf

\* A true promise stays true until the next edit.
LEMMA GoodStays ==
  ASSUME mapping' = mapping, structure' = structure, mapped \subseteq mapped',
         NEW page, Good(page)
  PROVE  Good(page)'
<1>1. \A i \in page : ReadyForUnf(i)'
  BY ReadyStays DEF Good
<1>2. \A m, s : m = mapping' /\ s = structure' =>
        /\ Parses(m) /\ Fits(m, s) /\ SchemaLocked(m, s)
        /\ \A i \in page : BuildsAll(m, i)
  BY DEF Good
<1> QED
  BY <1>1, <1>2 DEF Good

\* A page that health found ready is good, if nothing was edited meanwhile.
LEMMA VerdictIsGood ==
  ASSUME HealthInv, look = "outbox", fresh, locked, NEW page, Healthy(audited, page)
  PROVE  Good(page)
<1>1. audited = mapping
  BY DEF HealthInv
<1>2. \A m, s : m = mapping /\ s = structure => Fits(m, s) /\ SchemaLocked(m, s)
  BY DEF HealthInv
<1>3. Parses(audited)
  BY DEF Healthy, Audited, Parses
<1>4. \A i \in page : ReadyForUnf(i) /\ BuildsAll(audited, i)
  BY DEF Healthy
<1> QED
  BY <1>1, <1>2, <1>3, <1>4 DEF Good

\* A step that leaves the promises alone and takes nothing from a run keeps them.
LEMMA PromiseKept ==
  ASSUME PromiseInv, mapping' = mapping, structure' = structure, mapped \subseteq mapped',
         promise' = promise, assured' = assured,
         step' # "idle" => step # "idle" /\ loaded' = loaded,
         step' \in {"item", "write"} =>
           step \in {"item", "write"} /\ todo' \subseteq todo /\ ready' = ready
  PROVE  PromiseInv'
<1>1. \A page \in promise : Good(page)'
  BY GoodStays DEF PromiseInv
<1>2. \A page \in assured : Good(page)'
  BY GoodStays DEF PromiseInv
<1>3. \A page \in assured : step' # "idle" => loaded' = mapping'
  BY DEF PromiseInv
<1>4. \A page \in assured : step' \in {"item", "write"} => todo' \cap page \subseteq ready'
  BY DEF PromiseInv
<1> QED
  BY <1>1, <1>2, <1>3, <1>4 DEF PromiseInv

\* Every step keeps the promises.
LEMMA PromiseStep ==
  ASSUME TypeOK, HealthInv, PromiseInv, [Next]_vars
  PROVE  PromiseInv'
<1> USE DEF outside, unf, run, health
<1>1. CASE EditMapping \/ Publish
  BY <1>1 DEF EditMapping, Publish, Edited, PromiseInv
<1>2. CASE Record
  BY <1>2, PromiseKept DEF Record
<1>3. CASE Map
  BY <1>3, PromiseKept DEF Map
<1>4. CASE Load
  <2>1. /\ mapping' = mapping /\ structure' = structure /\ mapped' = mapped
        /\ promise' = promise /\ assured' = promise /\ loaded' = mapping /\ step' = "check"
    BY <1>4 DEF Load, Stay
  <2>2. \A page \in promise : Good(page)'
    BY <2>1, GoodStays DEF PromiseInv
  <2> QED
    BY <2>1, <2>2 DEF PromiseInv
<1>5. CASE LoadFails \/ CheckFails \/ Finish \/ BuildFails \/ SyncFails
  BY <1>5, PromiseKept DEF LoadFails, CheckFails, Finish, BuildFails, SyncFails, Stay, Exit
<1>6. CASE Check
  BY <1>6, PromiseKept DEF Check, Stay
<1>7. CASE ReadOutbox
  <2>1. /\ mapping' = mapping /\ structure' = structure /\ mapped' = mapped
        /\ promise' = promise /\ assured' = assured /\ loaded' = loaded /\ step = "outbox"
        /\ todo' = Page(SyncLimit) /\ ready' = {i \in Page(SyncLimit) : ReadyForUnf(i)}
    BY <1>7 DEF ReadOutbox, Stay
  <2>2. \A page \in promise \cup assured : Good(page) /\ Good(page)'
    BY <2>1, GoodStays DEF PromiseInv
  <2>3. \A page \in assured : todo' \cap page \subseteq ready'
    BY <2>1, <2>2 DEF Good
  <2>4. \A page \in assured : loaded' = mapping'
    BY <2>1 DEF PromiseInv
  <2> QED
    BY <2>1, <2>2, <2>3, <2>4 DEF PromiseInv
<1>8. CASE SkipItem \/ BuildItem
  BY <1>8, PromiseKept DEF SkipItem, BuildItem, Stay
<1>9. CASE Write
  BY <1>9, PromiseKept DEF Write, Exit
<1>10. CASE Confirm
  BY <1>10, PromiseKept DEF Confirm
<1>11. CASE HealthLoad
  <2>1. /\ mapping' = mapping /\ structure' = structure /\ mapped' = mapped
        /\ promise' = {} /\ assured' = assured /\ UNCHANGED run
    BY <1>11 DEF HealthLoad
  <2>2. \A page \in assured : Good(page)'
    BY <2>1, GoodStays DEF PromiseInv
  <2> QED
    BY <2>1, <2>2 DEF PromiseInv
<1>12. CASE HealthMetadata \/ HealthFails
  BY <1>12, PromiseKept DEF HealthMetadata, HealthFails
<1>13. CASE HealthVerdict
  <2>1. /\ mapping' = mapping /\ structure' = structure /\ mapped' = mapped
        /\ assured' = assured /\ UNCHANGED run /\ look = "outbox"
    BY <1>13 DEF HealthVerdict
  <2>2. \A page \in assured : Good(page)'
    BY <2>1, GoodStays DEF PromiseInv
  <2>3. \/ promise' = {}
        \/ /\ promise' = {Page(HealthLimit)} /\ fresh /\ locked
           /\ Healthy(audited, Page(HealthLimit))
    BY <1>13 DEF HealthVerdict
  <2>4. \A page \in promise' : Good(page)
    BY <2>1, <2>3, VerdictIsGood
  <2>5. \A page \in promise' : Good(page)'
    BY <2>1, <2>4, GoodStays
  <2> QED
    BY <2>1, <2>2, <2>5 DEF PromiseInv
<1>14. CASE UNCHANGED vars
  BY <1>14, PromiseKept DEF vars
<1> QED
  BY <1>1, <1>2, <1>3, <1>4, <1>5, <1>6, <1>7, <1>8, <1>9, <1>10, <1>11, <1>12, <1>13, <1>14
     DEF Next, Sync, Health

-----------------------------------------------------------------------------
(***************************************************************************)
(* Theorems.                                                               *)
(***************************************************************************)

LEMMA Invariant == Spec => []IInv
<1>1. IInv /\ [Next]_vars => IInv'
  BY TypeStep, RunStep, DocumentStep, HealthStep, PromiseStep DEF IInv
<1> QED
  BY InitIInv, <1>1, PTL DEF Spec

\* The runs of the synchronisation and of its health check, and what they write, are
\* always of their types (fresh_sync.py, health.py).
THEOREM GateTypeCorrect == Spec => []TypeOK
<1>1. IInv => TypeOK
  BY DEF IInv
<1> QED
  BY Invariant, <1>1, PTL

\* The documents of a plan of one are one document.
LEMMA PlanOfOne ==
  ASSUME NEW i, NEW S, NEW a, Plan(i) = {a}, {d.alias : d \in S} = Plan(i),
         \A d, e \in S : d.alias = e.alias => d = e
  PROVE  \E d \in S : S = {d} /\ d.alias = a
<1>1. PICK d \in S : d.alias = a
  OBVIOUS
<1>2. \A e \in S : e = d
  BY <1>1
<1> QED
  BY <1>1, <1>2

\* A receipt takes what came and a write-off what went, so both carry it together.
LEMMA BothDocuments ==
  ASSUME NEW i \in Op, NEW S, NEW p \in Product,
         Plan(i) = {"stock_receipt", "stock_writeoff"}, {d.alias : d \in S} = Plan(i),
         \A d \in S : d.rows = Rows(i, d.alias),
         \A d, e \in S : d.alias = e.alias => d = e
  PROVE  Total(p, S) = About[i].moves[p]
<1>1. PICK a \in S : a.alias = "stock_receipt"
  OBVIOUS
<1>2. PICK b \in S : b.alias = "stock_writeoff"
  OBVIOUS
<1>3. S = {a, b} /\ a # b
  BY <1>1, <1>2
<1>4. About[i].moves[p] \in Int
  BY AboutTyped
<1>5. Signed(a, p) = (IF About[i].moves[p] < 0 THEN 0 ELSE About[i].moves[p])
  BY <1>1, RowsOfAlias DEF Signed
<1>6. Signed(b, p) = -(IF About[i].moves[p] < 0 THEN -About[i].moves[p] ELSE 0)
  BY <1>2, RowsOfAlias DEF Signed
<1>7. Total(p, S) = Signed(a, p) + Signed(b, p)
  BY <1>3, <1>4, <1>5, <1>6, TotalOfTwo
<1> QED
  BY <1>4, <1>5, <1>6, <1>7

\* Whatever the plan, the documents it names carry the operation.
LEMMA PlanCarries ==
  ASSUME NEW i \in Op, NEW S, {d.alias : d \in S} = Plan(i),
         \A d \in S : d.rows = Rows(i, d.alias),
         \A d, e \in S : d.alias = e.alias => d = e,
         NEW p \in Product
  PROVE  Total(p, S) = About[i].moves[p]
<1> DEFINE n == About[i].moves[p]
<1>1. n \in Int /\ (About[i].kind # "adjustment" => n \in Nat)
  BY AboutTyped
<1>2. ASSUME NEW a, Plan(i) = {a}
      PROVE  Total(p, S) = IF a = "stock_writeoff" THEN -Rows(i, a)[p] ELSE Rows(i, a)[p]
  <2>1. PICK d \in S : S = {d} /\ d.alias = a
    BY <1>2, PlanOfOne
  <2>2. Signed(d, p) = IF a = "stock_writeoff" THEN -Rows(i, a)[p] ELSE Rows(i, a)[p]
    BY <2>1 DEF Signed
  <2>3. Rows(i, a)[p] \in Nat
    BY <1>2, RowsOfAlias
  <2>4. Signed(d, p) \in Int
    BY <2>2, <2>3
  <2> QED
    BY <2>1, <2>2, <2>4, TotalOfOne
<1>3. CASE About[i].kind # "adjustment"
  <2>1. PICK a : Plan(i) = {a} /\ a \notin {"stock_receipt", "stock_writeoff"}
    BY <1>3, PlanCases, AboutTyped DEF Kind
  <2>2. Rows(i, a)[p] = n
    BY <2>1, RowsOfAlias
  <2>3. Total(p, S) = Rows(i, a)[p]
    BY <2>1, <1>2
  <2> QED
    BY <2>2, <2>3
<1>4. CASE About[i].kind = "adjustment" /\ Gains(i) /\ Loses(i)
  BY <1>4, PlanCases, BothDocuments
<1>5. CASE About[i].kind = "adjustment" /\ Gains(i) /\ ~Loses(i)
  <2>1. Plan(i) = {"stock_receipt"}
    BY <1>5, PlanCases
  <2>2. ~(n < 0)
    BY <1>5 DEF Loses
  <2>3. Rows(i, "stock_receipt")[p] = n
    BY <2>1, <2>2, RowsOfAlias
  <2>4. Total(p, S) = Rows(i, "stock_receipt")[p]
    BY <2>1, <1>2
  <2> QED
    BY <2>3, <2>4
<1>6. CASE About[i].kind = "adjustment" /\ ~Gains(i) /\ Loses(i)
  <2>1. Plan(i) = {"stock_writeoff"}
    BY <1>6, PlanCases
  <2>2. ~(n > 0)
    BY <1>6 DEF Gains
  <2>3. -Rows(i, "stock_writeoff")[p] = n
    BY <1>1, <2>1, <2>2, RowsOfAlias
  <2>4. Total(p, S) = -Rows(i, "stock_writeoff")[p]
    BY <2>1, <1>2
  <2> QED
    BY <2>3, <2>4
<1>7. CASE About[i].kind = "adjustment" /\ ~Gains(i) /\ ~Loses(i)
  <2>1. S = {}
    BY <1>7, PlanCases
  <2>2. n = 0
    BY <1>1, <1>7 DEF Gains, Loses
  <2> QED
    BY <2>1, <2>2, TotalOfNone
<1> QED
  BY <1>3, <1>4, <1>5, <1>6, <1>7

\* A mapping that finds all documents of an operation finds what carries it.
LEMMA FoundCarries ==
  ASSUME IInv, NEW i \in Op, NEW m \in Mapping, Missing(m, i) = {}
  PROVE  Carries(Documents(m, i), i)
<1> DEFINE S == Documents(m, i)
<1>1. \A d \in S : d.alias \in Plan(i) /\ d.rows = Rows(i, d.alias)
  BY DEF IInv, DocumentInv, Documents, DocumentsOf
<1>2. \A d, e \in S : d.alias = e.alias => d = e
  BY DEF IInv, DocumentInv, Documents, DocumentsOf
<1>3. {d.alias : d \in S} = Plan(i)
  BY <1>1 DEF Missing
<1> HIDE DEF S
<1>4. \A p \in Product : Total(p, S) = About[i].moves[p]
  BY <1>1, <1>2, <1>3, PlanCarries
<1>5. Carries(S, i)
  BY <1>3, <1>4, Zenon DEF Carries, Total
<1> QED
  BY <1>5 DEF S

\* It finds all there are, if none of a kind lie apart.
LEMMA TogetherIsFound ==
  ASSUME IInv, NEW i \in Op, NEW m \in Mapping, Missing(m, i) = {},
         ~Apart(DocumentsOf(i))
  PROVE  Documents(m, i) = DocumentsOf(i)
<1>1. ASSUME NEW d \in DocumentsOf(i)
      PROVE  d \in Documents(m, i)
  <2>1. d.alias \in Plan(i)
    BY <1>1 DEF IInv, DocumentInv, DocumentsOf
  <2>2. PICK e \in Documents(m, i) : e.alias = d.alias
    BY <2>1 DEF Missing
  <2>3. e \in DocumentsOf(i) /\ e.key = m.key[d.alias]
    BY <2>2 DEF Documents
  <2>4. d.key = e.key
    BY <2>2, <2>3 DEF Apart
  <2> QED
    BY <2>3, <2>4 DEF Documents
<1> QED
  BY <1>1 DEF Documents

\* Whatever runs wrote them, and under whatever mappings, the documents of a confirmed
\* operation carry together just what it moved: a mixed adjustment becomes a receipt of
\* what came and a write-off of what went, once each.  Only an edit that moves a key to
\* another EntitySet or field between two runs leaves a second document of a kind, and
\* then the documents one mapping finds carry the operation (planner.py,
\* operation_payloads.py, find_document).
THEOREM NothingIsLostOrDoubled == Spec => []CarriesOperation
<1>1. ASSUME IInv, NEW i \in confirmed
      PROVE  /\ Apart(DocumentsOf(i)) \/ Carries(DocumentsOf(i), i)
             /\ \E m \in Mapping : Carries(Documents(m, i), i)
  <2>1. i \in Op
    BY <1>1 DEF IInv, TypeOK
  <2>2. PICK m \in Mapping : Missing(m, i) = {}
    BY <1>1 DEF IInv, DocumentInv
  <2>3. Carries(Documents(m, i), i)
    BY <1>1, <2>1, <2>2, FoundCarries
  <2>4. ~Apart(DocumentsOf(i)) => Carries(DocumentsOf(i), i)
    BY <1>1, <2>1, <2>2, <2>3, TogetherIsFound, Zenon
  <2> QED
    BY <2>3, <2>4
<1>2. IInv => CarriesOperation
  BY <1>1 DEF CarriesOperation
<1> QED
  BY Invariant, <1>2, PTL

\* After health has reported ready, and until the mapping or the structure is edited, no
\* run stops over what it compares, and none skips or fails to build an operation that
\* health saw; the file lets runs begin, but for its provider, the one thing that
\* fresh_sync.py requires of it and health.py does not judge.
THEOREM HealthIsTrue == Spec => ReadyMeansDelivered
<1> DEFINE Begins == promise' # {} => Starts(mapping') \/ mapping'.provider # "1cfresh"
           Kept == /\ Begins
                   /\ CheckFails => assured = {}
                   /\ SkipItem \/ BuildFails => \A page \in assured : Current \notin page
<1>1. ASSUME IInv'
      PROVE  Begins
  <2>1. ASSUME NEW page \in promise'
        PROVE  Parses(mapping')
    BY <1>1, <2>1 DEF IInv, PromiseInv, Good
  <2> QED
    BY <2>1 DEF Starts
<1>2. ASSUME IInv, CheckFails
      PROVE  assured = {}
  BY <1>2 DEF IInv, PromiseInv, Good, CheckFails
<1>3. ASSUME IInv, SkipItem
      PROVE  \A page \in assured : Current \notin page
  <2>1. Current \in todo /\ Current \notin ready /\ step = "item"
    BY <1>3, CurrentIsLeft DEF SkipItem, IInv, TypeOK
  <2> QED
    BY <1>3, <2>1 DEF IInv, PromiseInv
<1>4. ASSUME IInv, BuildFails
      PROVE  \A page \in assured : Current \notin page
  <2>1. ~BuildsAll(loaded, Current) /\ step = "item"
    BY <1>4 DEF BuildFails
  <2> QED
    BY <1>4, <2>1 DEF IInv, PromiseInv, Good
<1>5. IInv /\ IInv' => Kept
  BY <1>1, <1>2, <1>3, <1>4
<1> QED
  BY Invariant, <1>5, PTL DEF ReadyMeansDelivered

\* A document is written under the structure that the mapping accepts, unless 1C:UNF was
\* changed after the run had compared them (schema_lock.py, validate_configuration).
THEOREM LockIsObeyed == Spec => WrittenUnderLock
<1> DEFINE Obeyed == \A d \in documents' \ documents : d.under = loaded.lock \/ d.under # checked
<1>1. ASSUME IInv, Write
      PROVE  Obeyed
  <2>1. loaded.lock = checked
    BY <1>1 DEF IInv, RunInv, Write
  <2>2. \A d \in documents' \ documents : d.under = structure
    BY <1>1 DEF Write
  <2> QED
    BY <2>1, <2>2
<1>2. ASSUME [Next]_vars, ~Write
      PROVE  documents' = documents
  <2>1. CASE EditMapping \/ Publish \/ Record \/ Map
    BY <2>1 DEF EditMapping, Publish, Edited, Record, Map, unf
  <2>2. CASE Sync
    BY <1>2, <2>2 DEF Sync, Load, LoadFails, Check, CheckFails, ReadOutbox, Finish, SkipItem,
                      BuildItem, BuildFails, Confirm, SyncFails, Stay, unf
  <2>3. CASE Health
    BY <2>3 DEF Health, HealthLoad, HealthMetadata, HealthVerdict, HealthFails, unf
  <2>4. CASE UNCHANGED vars
    BY <2>4 DEF vars, unf
  <2> QED
    BY <1>2, <2>1, <2>2, <2>3, <2>4 DEF Next
<1>3. IInv /\ [Next]_vars => Obeyed
  BY <1>1, <1>2
<1> QED
  BY Invariant, <1>3, PTL DEF WrittenUnderLock, Spec
=============================================================================
