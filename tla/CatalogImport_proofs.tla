---------------------------- MODULE CatalogImport_proofs ----------------------------
(***************************************************************************)
(* Proofs about the import endpoints (ImportLog) and the units of the      *)
(* bridge that call them (CatalogImport), for any number of requests in    *)
(* progress, keys, products, locations, documents and policies.            *)
(***************************************************************************)
EXTENDS CatalogImport, FiniteSetTheorems, WellFoundedInduction, TLAPS

-----------------------------------------------------------------------------
(***************************************************************************)
(* What a step does to the endpoints.                                      *)
(***************************************************************************)

\* A handler takes a step, loses its connection, forgets an answered request or takes a
\* new one; another writer changes the catalogue or the stock; or the bridge goes on alone.
LogStep ==
  \/ \E h \in Handler :
       \/ HandlerStep(h)
       \/ Lose(h)
       \/ pc[h] = "answered" /\ Forgotten(h)
       \/ \E q \in Body : Receive(h, q)
  \/ \E p \in Product : MoveStock(p) \/ ReadUpdate(p)
  \/ \E u \in updates : WriteUpdate(u)
  \/ spent' \in 0..MaxOutside /\ UNCHANGED <<tables, updates, requests>>

\* A nonempty set of numbers has a least one.
LEMMA NatHasLeast ==
  ASSUME NEW S \in SUBSET Nat, S # {}
  PROVE  \E x \in S : \A y \in S : x <= y
<1>1. PICK x \in S : \A y \in S : ~(<<y, x>> \in OpToRel(<, Nat))
  BY WFMin, NatLessThanWellFounded, Zenon
<1>2. \A y \in S : ~(y < x)
  BY <1>1 DEF OpToRel
<1> QED
  BY <1>2

\* The fields of a request.
LEMMA BodyFields ==
  ASSUME NEW q \in Body
  PROVE  /\ q.key \in Key
         /\ q.kind \in {"product", "location", "adjustment", "archive"}
         /\ q.kind = "product" =>
              q.id \in Product /\ q.label \in Label /\ q.detail \in Detail /\ q.active \in BOOLEAN
         /\ q.kind = "location" => q.id \in Location /\ q.label \in Label /\ q.detail \in Detail
         /\ q.kind = "adjustment" =>
              q.id \in Document /\ q.place \in Location /\ q.delta \in [Product -> Int]
         /\ q.kind = "archive" => q.id \in Product
<1>1. CASE q \in ProductBody
  BY <1>1 DEF ProductBody
<1>2. CASE q \in LocationBody
  BY <1>2 DEF LocationBody
<1>3. CASE q \in AdjustmentBody
  BY <1>3 DEF AdjustmentBody
<1>4. CASE q \in ArchiveBody
  BY <1>4 DEF ArchiveBody
<1> QED
  BY <1>1, <1>2, <1>3, <1>4 DEF Body

\* The request the bridge sends next is one of its plan.
LEMMA NextRequestPlanned ==
  ASSUME plan \in SUBSET Body, \A q \in plan : q.id \in Ref, plan # {}
  PROVE  NextRequest \in plan
<1> DEFINE ids == {q.id : q \in plan}
<1>1. ids \in SUBSET Nat /\ ids # {}
  BY CatalogAssumption
<1> HIDE DEF ids
<1>2. PICK n \in ids : \A m \in ids : n <= m
  BY <1>1, NatHasLeast
<1>3. \E q \in plan : \A other \in plan : q.id <= other.id
  BY <1>2 DEF ids
<1> QED
  BY <1>3, Zenon DEF NextRequest
-----------------------------------------------------------------------------
(***************************************************************************)
(* The inductive invariant.                                                *)
(***************************************************************************)

Holding == {"read", "items", "write", "post", "archive"}

\* A handler holds the row of its key from the claim until its transaction ends, and is
\* where its kind of request can be.
PhaseInv ==
  \A h \in Handler :
    /\ claims[h] <=> pc[h] \in Holding
    /\ pc[h] = "read" => job[h].kind # "archive"
    /\ pc[h] = "write" => job[h].kind \in {"product", "location"}
    /\ pc[h] \in {"items", "post"} => job[h].kind = "adjustment"
    /\ pc[h] = "archive" => job[h].kind = "archive"

\* One handler holds the row of a key; the row it holds, or is going to update, has the
\* body of its request; a key that archives is not completed.
ClaimInv ==
  /\ \A h, g \in Handler : claims[h] /\ claims[g] /\ job[h].key = job[g].key => h = g
  /\ \A h \in Handler : claims[h] => SameBody(job[h])
  /\ \A h \in Handler : pc[h] = "claim" /\ sawRow[h] => \E r \in log : r.body = job[h]
  /\ \A h \in Handler : pc[h] = "claim" /\ job[h].kind = "archive" => ~sawRow[h]
  /\ \A h \in Handler : pc[h] = "archive" => ~Done(job[h].key)

\* A row of the catalogue that was read is still there.
SeenInv ==
  \A h \in Handler : pc[h] = "write" /\ sawEntry[h] # NoEntry => catalogue[job[h].id] # NoEntry

\* A document is posted once, and it is if a request for it is completed.
PostedInv ==
  /\ \A d \in Document : posted[d] <= 1
  /\ \A r \in log : r.status = "completed" /\ r.body.kind = "adjustment" => posted[r.body.id] = 1

\* A request that was told it is done has its row completed with its body.
RecordInv ==
  \A h \in Handler :
    pc[h] = "answered" /\ answer[h] \in {"ok", "repeated"} =>
      [body |-> job[h], status |-> "completed"] \in log

\* A row of 1C:UNF changes as often as 1C:UNF; a plan is of rows of 1C:UNF.
BridgeInv ==
  /\ \A r \in Ref : version[r] <= changes
  /\ \A q \in plan : q.id \in Ref

IInv == TypeOK /\ BridgeInv /\ PhaseInv /\ ClaimInv /\ SeenInv /\ PostedInv /\ RecordInv

-----------------------------------------------------------------------------
(***************************************************************************)
(* The bridge.                                                             *)
(***************************************************************************)

\* What a run plans are requests the endpoints take.
LEMMA RequestTyped ==
  ASSUME TypeOK, NEW u \in Units, ~Unreadable(u), NEW r \in Planned(u)
  PROVE  Request(r) \in Body /\ Request(r).id \in Ref
<1>1. r \in Ref /\ r \in Rows(u) /\ ~Skipped(r) /\ ~Blocked(r)
  BY DEF Planned, Rows, Ref
<1>2. source[r] \in Contents
  BY <1>1, CatalogAssumption DEF TypeOK
<1>3. source[r].label \in Label
  BY <1>1, <1>2 DEF Contents, Blocked, BadLabel
<1>4. source[r].detail \in Detail
  BY <1>1, <1>2 DEF Contents, Blocked, Unreadable, Raises
<1>5. Marked4Deletion(r) \in BOOLEAN
  BY DEF Marked4Deletion
<1>6. KeyOf(r) \in Key
  <2>1. version[r] \in 0..MaxChanges
    BY <1>1 DEF TypeOK
  <2>2. KeyOf(r) \in [ref : Ref, label : Label, detail : Detail,
                      version : 0..MaxChanges \cup {NoVersion}, marked : BOOLEAN]
    BY <1>1, <1>3, <1>4, <1>5, <2>1, Zenon DEF KeyOf
  <2> QED
    BY <2>2, CatalogAssumption
<1>7. CASE r \in Location
  BY <1>1, <1>3, <1>4, <1>6, <1>7 DEF Request, LocationRequest, LocationBody, Body
<1>8. CASE r \notin Location
  <2>1. r \in Product
    BY <1>1, <1>8 DEF Ref
  <2> QED
    BY <1>1, <1>3, <1>4, <1>6, <1>8, <2>1
       DEF Request, ProductRequest, ArchiveBody, ProductBody, Body
<1> QED
  BY <1>7, <1>8

\* Whatever happens, the endpoints take a step or are left alone.
LEMMA LogSteps ==
  ASSUME TypeOK, BridgeInv, [Next]_vars
  PROVE  LogStep
<1>1. ASSUME NEW h \in Handler, Serve(h)
      PROVE  LogStep
  BY <1>1 DEF Serve, Drop, LogStep
<1>2. CASE Environment
  <2>1. ASSUME NEW h \in Handler, DirectRequest(h)
        PROVE  LogStep
    <3>1. PICK q \in Direct : Receive(h, q)
      BY <2>1 DEF DirectRequest
    <3> QED
      BY <3>1, CatalogAssumption, Zenon DEF LogStep
  <2>2. CASE Administrator
    BY <2>2 DEF Administrator, LogStep
  <2> QED
    BY <1>2, <2>1, <2>2, Zenon DEF Environment, LogStep
<1>3. ASSUME UNCHANGED logVars
      PROVE  LogStep
  BY <1>3 DEF LogStep, logVars, outside, requests, TypeOK, LogTypeOK
<1>4. ASSUME NEW r \in Ref, NEW c \in Cards[r], Change(r, c)
      PROVE  LogStep
  BY <1>3, <1>4 DEF Change
<1>5. ASSUME NEW u \in Units, Start(u)
      PROVE  LogStep
  BY <1>3, <1>5 DEF Start
<1>6. CASE Send
  <2>1. call' \in Handler
    BY <1>6, Zenon DEF Send, Idle
  <2>2. NextRequest \in Body
    BY <1>6, NextRequestPlanned DEF Send, TypeOK, BridgeInv
  <2>3. \A g : g = call' => Receive(g, NextRequest)
    BY <1>6 DEF Send
  <2> QED
    BY <2>1, <2>2, <2>3, Zenon DEF LogStep
<1>7. CASE call # NoCall /\ Hear(call)
  <2>1. call \in Handler
    BY <1>7 DEF TypeOK
  <2> QED
    BY <1>7, <2>1, Zenon DEF Hear, LogStep
<1>8. CASE GiveUp
  <2>1. spent' \in 0..MaxOutside
    BY <1>8, ImportAssumption DEF GiveUp, Spend, TypeOK, LogTypeOK
  <2> QED
    BY <1>8, <2>1 DEF GiveUp, LogStep
<1>9. CASE UNCHANGED vars
  BY <1>3, <1>9 DEF vars
<1> QED
  BY <1>1, <1>2, <1>4, <1>5, <1>6, <1>7, <1>8, <1>9 DEF Next, BridgeStep
\* The steps of a handler leave the other handlers and all requests alone; a transaction
\* that ends was answered or is going to be marked as failed.
LEMMA HandlerFlow ==
  ASSUME LogTypeOK, NEW h \in Handler, HandlerStep(h) \/ Lose(h)
  PROVE  /\ job' = job
         /\ pc[h] # "idle"
         /\ pc' \in [Handler -> Steps] /\ pc'[h] # "idle"
         /\ claims' \in [Handler -> BOOLEAN] /\ answer' \in [Handler -> Answers]
         /\ sawRow' \in [Handler -> BOOLEAN]
         /\ \A g \in Handler \ {h} : /\ pc'[g] = pc[g] /\ claims'[g] = claims[g]
                                     /\ answer'[g] = answer[g] /\ sawRow'[g] = sawRow[g]
                                     /\ sawEntry'[g] = sawEntry[g]
<1> USE DEF LogTypeOK, Steps, Answers, Goto, Answer, Commit, Refuse, reads, tables
<1>1. CASE ReadLog(h)
  BY <1>1 DEF ReadLog
<1>2. CASE Claim(h)
  BY <1>2 DEF Claim
<1>3. CASE ReadEntry(h)
  BY <1>3 DEF ReadEntry
<1>4. CASE WriteEntry(h)
  BY <1>4 DEF WriteEntry
<1>5. CASE ReadDocument(h)
  BY <1>5 DEF ReadDocument
<1>6. CASE ReadItems(h)
  BY <1>6 DEF ReadItems
<1>7. CASE PostAdjustment(h)
  BY <1>7 DEF PostAdjustment
<1>8. CASE ArchiveProduct(h)
  BY <1>8 DEF ArchiveProduct
<1>9. CASE ReadMark(h)
  BY <1>9 DEF ReadMark
<1>10. CASE WriteMark(h)
  BY <1>10 DEF WriteMark
<1>11. CASE Lose(h)
  BY <1>11 DEF Lose
<1> QED
  BY <1>1, <1>2, <1>3, <1>4, <1>5, <1>6, <1>7, <1>8, <1>9, <1>10, <1>11 DEF HandlerStep

\* A plan of more than one request is not empty without one of them.
LEMMA MoreThanOne ==
  ASSUME NEW S, NEW x, Cardinality(S) > 1
  PROVE  S \ {x} # {}
<1>1. SUFFICES ASSUME S \ {x} = {}
               PROVE  FALSE
  OBVIOUS
<1>2. S = {} \/ S = {x}
  BY <1>1
<1>3. Cardinality(S) \in {0, 1}
  BY <1>2, FS_EmptySet, FS_Singleton
<1> QED
  BY <1>3

\* Every step keeps the types of the bridge, if it keeps those of the endpoints.
\* The request that is noted for a row is one.
LEMMA CreditTyped ==
  ASSUME LogTypeOK, writer \in [Ref -> Body \cup {NoRequest}], NEW h \in Handler,
         HandlerStep(h), Credited(h)
  PROVE  writer' \in [Ref -> Body \cup {NoRequest}]
<1>1. job[h] \in Body
  BY HandlerFlow DEF LogTypeOK
<1> QED
  BY <1>1 DEF Credited

\* Every step keeps the types of the bridge, if it keeps those of the endpoints.
LEMMA BridgeStepTyped ==
  ASSUME TypeOK, BridgeInv, LogTypeOK', [Next]_vars
  PROVE  TypeOK' /\ BridgeInv'
<1> USE DEF TypeOK, BridgeInv, unf, bridge
<1>1. ASSUME NEW h \in Handler, HandlerStep(h) \/ Lose(h), UNCHANGED <<policy, unf, bridge>>,
             writer' \in [Ref -> Body \cup {NoRequest}]
      PROVE  TypeOK' /\ BridgeInv'
  <2>1. pc'[h] # "idle" /\ \A g \in Handler \ {h} : pc'[g] = pc[g]
    BY <1>1, HandlerFlow
  <2> QED
    BY <1>1, <2>1
<1>2. ASSUME NEW h \in Handler, Drop(h)
      PROVE  TypeOK' /\ BridgeInv'
  <2>1. call # h /\ pc' = [pc EXCEPT ![h] = "idle"]
    BY <1>2 DEF Drop, Forgotten
  <2> QED
    BY <1>2, <2>1 DEF Drop, LogTypeOK
<1>3. ASSUME NEW h \in Handler, DirectRequest(h), UNCHANGED <<policy, unf, writer, bridge>>
      PROVE  TypeOK' /\ BridgeInv'
  <2>1. pc' = [pc EXCEPT ![h] = "log"]
    BY <1>3 DEF DirectRequest, Receive, Goto
  <2> QED
    BY <1>3, <2>1 DEF LogTypeOK
<1>4. ASSUME UNCHANGED pc, UNCHANGED <<policy, unf, bridge>>,
             writer' \in [Ref -> Body \cup {NoRequest}]
      PROVE  TypeOK' /\ BridgeInv'
  BY <1>4
<1>11. CASE Administrator /\ UNCHANGED <<policy, unf, bridge>>
  BY <1>4, <1>11 DEF Administrator, WriteUpdate, requests
<1>12. ASSUME NEW p \in Product, MoveStock(p) \/ ReadUpdate(p),
              UNCHANGED <<policy, unf, writer, bridge>>
       PROVE  TypeOK' /\ BridgeInv'
  BY <1>4, <1>12 DEF MoveStock, ReadUpdate, requests
<1>5. ASSUME NEW r \in Ref, NEW c \in Cards[r], Change(r, c)
      PROVE  TypeOK' /\ BridgeInv'
  <2>1. changes + 1 \in 0..MaxChanges /\ changes' = changes + 1
    BY <1>5, CatalogAssumption DEF Change
  <2>2. \A s \in Ref : source'[s] \in Cards[s]
    BY <1>5 DEF Change
  <2>3. PICK v \in {version[r], version[r] + 1} : version' = [version EXCEPT ![r] = v]
    BY <1>5 DEF Change
  <2>4. /\ \A s \in Ref : version[s] \in 0..MaxChanges /\ version[s] <= changes
        /\ changes \in 0..MaxChanges /\ MaxChanges \in Nat
    BY CatalogAssumption
  <2>5. v \in 0..MaxChanges /\ v <= changes'
    BY <2>1, <2>4
  <2>6. \A s \in Ref : version'[s] \in 0..MaxChanges /\ version'[s] <= changes'
    BY <2>1, <2>3, <2>4, <2>5
  <2>7. version' \in [Ref -> 0..MaxChanges]
    BY <2>3, <2>5
  <2>8. UNCHANGED <<policy, writer, unit, plan, call, pc>>
    BY <1>5 DEF Change, logVars
  <2>9. former' \in [Ref -> SUBSET Contents]
    <3>1. source[r] \in Contents /\ former' = [former EXCEPT ![r] = @ \cup {source[r]}]
      BY <1>5, CatalogAssumption DEF Change
    <3> QED
      BY <3>1
  <2> QED
    BY <2>1, <2>2, <2>6, <2>7, <2>8, <2>9
<1>6. ASSUME NEW u \in Units, Start(u)
      PROVE  TypeOK' /\ BridgeInv'
  <2>1. \A r \in Planned(u) : Request(r) \in Body /\ Request(r).id \in Ref
    BY <1>6, RequestTyped DEF Start
  <2>2. plan' \subseteq Body /\ plan' # {} /\ \A q \in plan' : q.id \in Ref
    BY <1>6, <2>1 DEF Start
  <2>3. unit' \in Units /\ unit' # NoUnit
    BY <1>6, CatalogAssumption DEF Start, Units
  <2>4. UNCHANGED <<policy, unf, writer, call, pc>>
    BY <1>6 DEF Start, logVars
  <2> QED
    BY <2>2, <2>3, <2>4
<1>7. CASE Send
  <2>1. call' \in Handler
    BY <1>7, Zenon DEF Send, Idle
  <2>2. \A g : g = call' => pc' = [pc EXCEPT ![g] = "log"]
    BY <1>7 DEF Send, Receive, Goto
  <2>3. pc'[call'] = "log"
    BY <2>1, <2>2 DEF LogTypeOK
  <2> QED
    BY <1>7, <2>1, <2>3 DEF Send
<1>8. CASE call # NoCall /\ Hear(call)
  <2>1. plan \ {job[call]} # {} \/ ~(Cardinality(plan) > 1)
    BY MoreThanOne
  <2> QED
    BY <1>8, <2>1 DEF Hear, EndRun
<1>9. CASE GiveUp
  BY <1>9 DEF GiveUp, EndRun
<1>10. CASE UNCHANGED vars
  BY <1>10 DEF vars, logVars
<1>13. ASSUME NEW h \in Handler, Serve(h)
       PROVE  TypeOK' /\ BridgeInv'
  BY <1>1, <1>2, <1>13, CreditTyped DEF Serve
<1>14. CASE Environment
  BY <1>1, <1>3, <1>11, <1>12, <1>14 DEF Environment
<1> QED
  BY <1>5, <1>6, <1>7, <1>8, <1>9, <1>10, <1>13, <1>14 DEF Next, BridgeStep
-----------------------------------------------------------------------------
(***************************************************************************)
(* Types of the endpoints.                                                 *)
(***************************************************************************)

\* A handler at work has a request.
LEMMA AtWork ==
  ASSUME LogTypeOK, NEW h \in Handler, pc[h] # "idle"
  PROVE  job[h] \in Body
BY DEF LogTypeOK

\* A transaction that commits leaves one row of its key.
LEMMA CommittedLog ==
  ASSUME LogTypeOK, NEW q \in Body, NEW status \in {"failed", "completed"},
         log' = (log \ Row(q.key)) \cup {[body |-> q, status |-> status]}
  PROVE  /\ log' \subseteq [body : Body, status : {"failed", "completed"}]
         /\ \A r, s \in log' : r.body.key = s.body.key => r = s
BY DEF LogTypeOK, Row

\* So does a request that is marked as failed.
LEMMA MarkedLog ==
  ASSUME LogTypeOK, NEW h \in Handler, job[h] \in Body, log' = Marked(h)
  PROVE  /\ log' \subseteq [body : Body, status : {"failed", "completed"}]
         /\ \A r, s \in log' : r.body.key = s.body.key => r = s
<1>1. CASE log' = log
  BY <1>1 DEF LogTypeOK
<1>2. CASE log' = log \cup {[body |-> job[h], status |-> "failed"]} /\ Row(job[h].key) = {}
  BY <1>2 DEF LogTypeOK, Row
<1> QED
  BY <1>1, <1>2 DEF Marked

\* What is written over a row of the catalogue is a row.
LEMMA EntryTyped ==
  ASSUME NEW q \in Body, q.kind \in {"product", "location"},
         NEW seen \in Entry, NEW now \in Entry
  PROVE  Written(q, seen, now) \in Entry
<1>1. /\ q.label \in Label /\ q.detail \in Detail
      /\ q.kind = "location" \/ q.active \in BOOLEAN
  BY BodyFields
<1>2. now.label \in Label /\ now.detail \in Detail /\ now.active \in BOOLEAN
  BY DEF Entry
<1> QED
  BY <1>1, <1>2 DEF Written, Entry

\* An adjustment that can be posted leaves quantities.
LEMMA PostedStock ==
  ASSUME stock \in [Product -> Nat], NEW q \in Body, q.kind = "adjustment", Postable(q)
  PROVE  [p \in Product |-> stock[p] + q.delta[p]] \in [Product -> Nat]
<1>1. q.delta \in [Product -> Int]
  BY BodyFields
<1>2. ASSUME NEW p \in Product
      PROVE  stock[p] + q.delta[p] \in Nat
  BY <1>1 DEF Postable, Items
<1> QED
  BY <1>2

\* No row is not a row.
LEMMA NoEntryIsNone == NoEntry \notin Entry
BY ImportAssumption

\* Every step of a handler keeps the types of the tables and of what it read.
LEMMA HandlerTyped ==
  ASSUME LogTypeOK, PhaseInv, SeenInv, NEW h \in Handler, HandlerStep(h) \/ Lose(h)
  PROVE  /\ log' \subseteq [body : Body, status : {"failed", "completed"}]
         /\ \A r, s \in log' : r.body.key = s.body.key => r = s
         /\ catalogue' \in [Ref -> Entry \cup {NoEntry}]
         /\ \A r \in Ref : catalogue[r] # NoEntry => catalogue'[r] # NoEntry
         /\ stock' \in [Product -> Nat]
         /\ posted' \in [Document -> Nat]
         /\ spent' \in 0..MaxOutside /\ UNCHANGED updates
         /\ sawEntry' \in [Handler -> Entry \cup {NoEntry}]
<1> DEFINE q == job[h]
<1>1. q \in Body
  BY AtWork, HandlerFlow
<1> HIDE DEF q
<1> USE DEF tables, reads, outside
<1>2. CASE ReadLog(h) \/ Claim(h) \/ ReadItems(h) \/ ReadMark(h)
  BY <1>2 DEF ReadLog, Claim, ReadItems, ReadMark, Refuse, LogTypeOK
<1>3. CASE ReadEntry(h)
  <2>1. q.id \in Ref
    BY <1>1, <1>3, BodyFields DEF ReadEntry, Ref, q
  <2>2. UNCHANGED <<tables, outside>>
    BY <1>3 DEF ReadEntry, Refuse
  <2>3. sawEntry' = sawEntry \/ sawEntry' = [sawEntry EXCEPT ![h] = catalogue[q.id]]
    BY <1>3 DEF ReadEntry, q
  <2> QED
    BY <2>1, <2>2, <2>3 DEF LogTypeOK
<1>4. CASE WriteEntry(h)
  <2>1. q.kind \in {"product", "location"}
    BY <1>4 DEF WriteEntry, PhaseInv, q
  <2>2. q.id \in Ref /\ q.label \in Label /\ q.detail \in Detail
    BY <1>1, <2>1, BodyFields DEF Ref
  <2>3. UNCHANGED <<stock, posted, outside, sawEntry>>
    BY <1>4 DEF WriteEntry, Refuse
  <2>4. CASE UNCHANGED <<log, catalogue>>
    BY <2>3, <2>4 DEF LogTypeOK
  <2>5. CASE ~UNCHANGED <<log, catalogue>>
    <3> DEFINE new == IF sawEntry[h] = NoEntry
                      THEN [label |-> q.label, detail |-> q.detail, active |-> IsActive(q)]
                      ELSE Written(q, sawEntry[h], catalogue[q.id])
    <3>1. catalogue' = [catalogue EXCEPT ![q.id] = new] /\ Commit(h, "completed", "ok")
      BY <1>4, <2>5 DEF WriteEntry, Refuse, q
    <3>2. new \in Entry
      <4>1. CASE sawEntry[h] = NoEntry
        <5>1. IsActive(q) \in BOOLEAN
          BY <1>1, <2>1, BodyFields DEF IsActive
        <5> QED
          BY <2>2, <4>1, <5>1 DEF Entry
      <4>2. CASE sawEntry[h] # NoEntry
        <5>1. sawEntry[h] \in Entry /\ catalogue[q.id] \in Entry
          BY <1>4, <2>2, <4>2 DEF LogTypeOK, SeenInv, WriteEntry, q
        <5> QED
          BY <1>1, <2>1, <4>2, <5>1, EntryTyped
      <4> QED
        BY <4>1, <4>2
    <3> HIDE DEF new
    <3>3. /\ catalogue' \in [Ref -> Entry \cup {NoEntry}]
          /\ \A r \in Ref : catalogue[r] # NoEntry => catalogue'[r] # NoEntry
      BY <2>2, <3>1, <3>2, NoEntryIsNone DEF LogTypeOK
    <3> QED
      BY <1>1, <2>3, <3>1, <3>3, CommittedLog DEF Commit, LogTypeOK, q
  <2> QED
    BY <2>4, <2>5
<1>5. CASE ReadDocument(h)
  <2>1. UNCHANGED <<catalogue, stock, posted, outside, sawEntry>>
    BY <1>5 DEF ReadDocument
  <2>2. CASE log' = log
    BY <2>1, <2>2 DEF LogTypeOK
  <2>3. CASE log' # log
    BY <1>1, <1>5, <2>1, <2>3, CommittedLog DEF ReadDocument, Commit, LogTypeOK, q
  <2> QED
    BY <2>2, <2>3
<1>6. CASE PostAdjustment(h)
  <2>1. CASE Postable(q)
    <3>1. /\ stock' = [p \in Product |-> stock[p] + q.delta[p]]
          /\ posted' = [posted EXCEPT ![q.id] = @ + 1]
          /\ Commit(h, "completed", "ok") /\ UNCHANGED <<catalogue, outside, sawEntry>>
      BY <1>6, <2>1 DEF PostAdjustment, q
    <3>2. q.kind = "adjustment"
      BY <1>6 DEF PostAdjustment, PhaseInv, q
    <3>3. stock' \in [Product -> Nat]
      BY <1>1, <2>1, <3>1, <3>2, PostedStock DEF LogTypeOK
    <3>4. posted' \in [Document -> Nat]
      BY <1>1, <3>1, <3>2, BodyFields DEF LogTypeOK
    <3> QED
      BY <1>1, <3>1, <3>3, <3>4, CommittedLog DEF Commit, LogTypeOK, q
  <2>2. CASE ~Postable(q)
    BY <1>6, <2>2 DEF PostAdjustment, Refuse, LogTypeOK, q
  <2> QED
    BY <2>1, <2>2
<1>7. CASE ArchiveProduct(h)
  <2>1. \E status \in {"failed", "completed"}, a \in Answers : Commit(h, status, a)
    BY <1>7 DEF ArchiveProduct, Answers
  <2>2. \/ catalogue' = catalogue
        \/ Usable(q.id) /\ catalogue' = [catalogue EXCEPT ![q.id].active = FALSE]
    BY <1>7 DEF ArchiveProduct, q
  <2>3. /\ catalogue' \in [Ref -> Entry \cup {NoEntry}]
        /\ \A r \in Ref : catalogue[r] # NoEntry => catalogue'[r] # NoEntry
    <3>1. q.id \in Ref
      BY <1>1, <1>7, BodyFields DEF ArchiveProduct, PhaseInv, Ref, q
    <3>2. CASE Usable(q.id) /\ catalogue' = [catalogue EXCEPT ![q.id].active = FALSE]
      <4>1. catalogue[q.id] \in Entry
        BY <3>1, <3>2 DEF Usable, LogTypeOK
      <4>2. [catalogue[q.id] EXCEPT !.active = FALSE] \in Entry
        BY <4>1 DEF Entry
      <4> QED
        BY <3>1, <3>2, <4>2, NoEntryIsNone DEF LogTypeOK
    <3> QED
      BY <2>2, <3>2 DEF LogTypeOK
  <2>4. UNCHANGED <<stock, posted, outside, sawEntry>>
    BY <1>7 DEF ArchiveProduct
  <2> QED
    BY <1>1, <2>1, <2>3, <2>4, CommittedLog DEF Commit, LogTypeOK, q
<1>8. CASE WriteMark(h)
  BY <1>1, <1>8, MarkedLog DEF WriteMark, LogTypeOK, q
<1>9. CASE Lose(h)
  <2>1. spent' \in 0..MaxOutside
    BY <1>9, ImportAssumption DEF Lose, Spend, LogTypeOK
  <2> QED
    BY <1>9, <2>1 DEF Lose, LogTypeOK
<1> QED
  BY <1>2, <1>3, <1>4, <1>5, <1>6, <1>7, <1>8, <1>9 DEF HandlerStep
\* update_product writes a row of the catalogue.
LEMMA UpdatedEntry ==
  ASSUME LogTypeOK, NEW u \in updates, WriteUpdate(u)
  PROVE  /\ catalogue' \in [Ref -> Entry \cup {NoEntry}]
         /\ \A r \in Ref : catalogue[r] # NoEntry => catalogue'[r] # NoEntry
<1>1. u.id \in Ref /\ u.active \in BOOLEAN /\ catalogue[u.id] \in Entry
  BY DEF LogTypeOK, Ref
<1>2. [catalogue[u.id] EXCEPT !.active = u.active] \in Entry
  BY <1>1 DEF Entry
<1>3. catalogue' = [catalogue EXCEPT ![u.id] = [catalogue[u.id] EXCEPT !.active = u.active]]
  BY DEF WriteUpdate
<1> QED
  BY <1>1, <1>2, <1>3, NoEntryIsNone DEF LogTypeOK

\* A row of the catalogue is never removed.
LEMMA EntriesStay ==
  ASSUME LogTypeOK, PhaseInv, SeenInv, LogStep
  PROVE  \A r \in Ref : catalogue[r] # NoEntry => catalogue'[r] # NoEntry
<1>1. ASSUME NEW h \in Handler, HandlerStep(h) \/ Lose(h)
      PROVE  \A r \in Ref : catalogue[r] # NoEntry => catalogue'[r] # NoEntry
  BY <1>1, HandlerTyped
<1>2. ASSUME NEW u \in updates, WriteUpdate(u)
      PROVE  \A r \in Ref : catalogue[r] # NoEntry => catalogue'[r] # NoEntry
  BY <1>2, UpdatedEntry
<1>3. CASE catalogue' = catalogue
  BY <1>3
<1> QED
  BY <1>1, <1>2, <1>3 DEF LogStep, MoveStock, ReadUpdate, Forgotten, Receive, tables

\* Every step keeps the types of the endpoints.
LEMMA LogTypesStep ==
  ASSUME LogTypeOK, PhaseInv, SeenInv, LogStep
  PROVE  LogTypeOK'
<1>7. \A u \in updates : u.id \in Ref /\ catalogue'[u.id] # NoEntry
  BY EntriesStay DEF LogTypeOK, Ref
<1>1. ASSUME NEW h \in Handler, HandlerStep(h) \/ Lose(h)
      PROVE  LogTypeOK'
  <2>1. /\ job' = job /\ pc[h] # "idle"
        /\ pc' \in [Handler -> Steps]
        /\ claims' \in [Handler -> BOOLEAN] /\ answer' \in [Handler -> Answers]
        /\ sawRow' \in [Handler -> BOOLEAN]
        /\ \A g \in Handler : pc'[g] # "idle" => pc[g] # "idle"
    BY <1>1, HandlerFlow
  <2>2. /\ log' \subseteq [body : Body, status : {"failed", "completed"}]
        /\ \A r, s \in log' : r.body.key = s.body.key => r = s
        /\ catalogue' \in [Ref -> Entry \cup {NoEntry}]
        /\ stock' \in [Product -> Nat]
        /\ posted' \in [Document -> Nat]
        /\ spent' \in 0..MaxOutside /\ UNCHANGED updates
        /\ sawEntry' \in [Handler -> Entry \cup {NoEntry}]
    BY <1>1, HandlerTyped
  <2>3. job' \in [Handler -> Body \cup {NoRequest}]
        /\ \A g \in Handler : pc'[g] # "idle" => job'[g] # NoRequest
    BY <2>1 DEF LogTypeOK
  <2> QED
    BY <1>7, <2>1, <2>2, <2>3 DEF LogTypeOK
<1>2. ASSUME NEW h \in Handler, Forgotten(h)
      PROVE  LogTypeOK'
  BY <1>2, <1>7 DEF Forgotten, LogTypeOK, tables, outside, Steps, Answers
<1>3. ASSUME NEW h \in Handler, NEW q \in Body, Receive(h, q)
      PROVE  LogTypeOK'
  BY <1>3, <1>7, ImportAssumption DEF Receive, Goto, LogTypeOK, tables, reads, outside, Steps
<1>4. ASSUME NEW p \in Product, MoveStock(p) \/ ReadUpdate(p)
      PROVE  LogTypeOK'
  <2>1. spent' \in 0..MaxOutside
    BY <1>4, ImportAssumption DEF MoveStock, ReadUpdate, Spend, LogTypeOK
  <2>2. CASE MoveStock(p)
    <3>1. stock' \in [Product -> Nat]
      BY <2>2 DEF MoveStock, LogTypeOK
    <3> QED
      BY <1>7, <2>1, <2>2, <3>1 DEF MoveStock, LogTypeOK, requests, reads
  <2>3. CASE ReadUpdate(p)
    <3>1. catalogue[p] \in Entry
      BY <2>3 DEF ReadUpdate, LogTypeOK, Ref
    <3>2. /\ updates' \subseteq [id : Product, active : BOOLEAN]
          /\ \A u \in updates' : catalogue[u.id] # NoEntry
      <4> DEFINE new == [id |-> p, active |-> ~catalogue[p].active]
      <4>1. new \in [id : Product, active : BOOLEAN] /\ catalogue[new.id] # NoEntry
        BY <2>3, <3>1 DEF ReadUpdate, Entry
      <4>2. updates' = updates \cup {new}
        BY <2>3 DEF ReadUpdate
      <4> HIDE DEF new
      <4> QED
        BY <4>1, <4>2 DEF LogTypeOK
    <3> QED
      BY <1>7, <2>1, <2>3, <3>2 DEF ReadUpdate, LogTypeOK, requests, reads, tables
  <2> QED
    BY <1>4, <2>2, <2>3
<1>6. ASSUME NEW u \in updates, WriteUpdate(u)
      PROVE  LogTypeOK'
  <2>1. catalogue' \in [Ref -> Entry \cup {NoEntry}]
    BY <1>6, UpdatedEntry DEF LogTypeOK
  <2> QED
    BY <1>6, <1>7, <2>1 DEF WriteUpdate, LogTypeOK, requests, reads
<1>5. CASE spent' \in 0..MaxOutside /\ UNCHANGED <<tables, updates, requests>>
  BY <1>5, <1>7 DEF LogTypeOK, tables, requests, reads
<1> QED
  BY <1>1, <1>2, <1>3, <1>4, <1>5, <1>6 DEF LogStep

\* Every step keeps the phases of the handlers.
LEMMA PhaseStep ==
  ASSUME LogTypeOK, PhaseInv, LogStep
  PROVE  PhaseInv'
<1> USE DEF PhaseInv, Holding
<1>1. ASSUME NEW h \in Handler, HandlerStep(h) \/ Lose(h)
      PROVE  PhaseInv'
  <2>1. /\ job' = job
        /\ \A g \in Handler \ {h} : pc'[g] = pc[g] /\ claims'[g] = claims[g]
    BY <1>1, HandlerFlow
  <2>2. job[h] \in Body /\ job[h].kind \in {"product", "location", "adjustment", "archive"}
    BY <1>1, AtWork, HandlerFlow, BodyFields
  <2>3. /\ claims'[h] <=> pc'[h] \in Holding
        /\ pc'[h] = "read" => job[h].kind # "archive"
        /\ pc'[h] = "write" => job[h].kind \in {"product", "location"}
        /\ pc'[h] \in {"items", "post"} => job[h].kind = "adjustment"
        /\ pc'[h] = "archive" => job[h].kind = "archive"
    <3> USE DEF LogTypeOK, Goto, Answer, Refuse, Commit, tables
    <3>1. CASE ReadLog(h)
      BY <3>1 DEF ReadLog
    <3>2. CASE Claim(h)
      BY <3>2 DEF Claim
    <3>3. CASE ReadEntry(h)
      BY <3>3 DEF ReadEntry
    <3>4. CASE WriteEntry(h)
      BY <3>4 DEF WriteEntry
    <3>5. CASE ReadDocument(h)
      BY <3>5 DEF ReadDocument
    <3>6. CASE ReadItems(h)
      BY <3>6 DEF ReadItems
    <3>7. CASE PostAdjustment(h)
      BY <3>7 DEF PostAdjustment
    <3>8. CASE ArchiveProduct(h)
      BY <3>8 DEF ArchiveProduct
    <3>9. CASE ReadMark(h)
      BY <3>9 DEF ReadMark
    <3>10. CASE WriteMark(h)
      BY <3>10 DEF WriteMark
    <3>11. CASE Lose(h)
      BY <3>11 DEF Lose
    <3> QED
      BY <1>1, <3>1, <3>2, <3>3, <3>4, <3>5, <3>6, <3>7, <3>8, <3>9, <3>10, <3>11 DEF HandlerStep
  <2> QED
    BY <2>1, <2>3
<1>2. ASSUME NEW h \in Handler, pc[h] = "answered", Forgotten(h)
      PROVE  PhaseInv'
  BY <1>2 DEF Forgotten, LogTypeOK
<1>3. ASSUME NEW h \in Handler, NEW q \in Body, Receive(h, q)
      PROVE  PhaseInv'
  BY <1>3 DEF Receive, Goto, LogTypeOK
<1>4. CASE UNCHANGED requests
  BY <1>4 DEF requests
<1> QED
  BY <1>1, <1>2, <1>3, <1>4 DEF LogStep, MoveStock, ReadUpdate, WriteUpdate
-----------------------------------------------------------------------------
(***************************************************************************)
(* The exchange log.                                                       *)
(***************************************************************************)

\* A handler leaves the log alone, commits its request under the row it holds, or adds
\* the failure of a request whose key has no row and is not held.
LEMMA LogChange ==
  ASSUME LogTypeOK, PhaseInv, NEW h \in Handler, HandlerStep(h) \/ Lose(h)
  PROVE  \/ log' = log
         \/ /\ claims[h] /\ ~claims'[h] /\ pc'[h] = "answered"
            /\ \E status \in {"failed", "completed"} :
                 /\ log' = (log \ Row(job[h].key)) \cup {[body |-> job[h], status |-> status]}
                 /\ status = "failed" => pc[h] = "archive" /\ answer'[h] = "refused"
         \/ /\ Row(job[h].key) = {} /\ ~Claimed(job[h].key)
            /\ ~claims[h] /\ ~claims'[h] /\ pc'[h] = "answered" /\ answer'[h] = "refused"
            /\ log' = log \cup {[body |-> job[h], status |-> "failed"]}
<1> USE DEF PhaseInv, Holding, LogTypeOK
<1>1. ASSUME NEW status \in {"failed", "completed"}, NEW a \in Answers, Commit(h, status, a),
             pc[h] \in Holding, status = "failed" => pc[h] = "archive" /\ a = "refused"
      PROVE  /\ claims[h] /\ ~claims'[h] /\ pc'[h] = "answered"
             /\ log' = (log \ Row(job[h].key)) \cup {[body |-> job[h], status |-> status]}
             /\ status = "failed" => pc[h] = "archive" /\ answer'[h] = "refused"
  BY <1>1 DEF Commit, Answer, Goto
<1>2. CASE ReadLog(h) \/ Claim(h) \/ ReadEntry(h) \/ ReadItems(h) \/ ReadMark(h) \/ Lose(h)
  BY <1>2 DEF ReadLog, Claim, ReadEntry, ReadItems, ReadMark, Lose, Refuse, tables
<1>3. CASE WriteEntry(h)
  <2>1. log' = log \/ Commit(h, "completed", "ok")
    BY <1>3 DEF WriteEntry, Refuse, tables
  <2>2. pc[h] = "write"
    BY <1>3 DEF WriteEntry
  <2> QED
    BY <1>1, <2>1, <2>2 DEF Answers
<1>4. CASE ReadDocument(h)
  <2>1. log' = log \/ Commit(h, "completed", "repeated")
    BY <1>4 DEF ReadDocument, tables
  <2>2. pc[h] = "read"
    BY <1>4 DEF ReadDocument
  <2> QED
    BY <1>1, <2>1, <2>2 DEF Answers
<1>5. CASE PostAdjustment(h)
  <2>1. log' = log \/ Commit(h, "completed", "ok")
    BY <1>5 DEF PostAdjustment, Refuse, tables
  <2>2. pc[h] = "post"
    BY <1>5 DEF PostAdjustment
  <2> QED
    BY <1>1, <2>1, <2>2 DEF Answers
<1>6. CASE ArchiveProduct(h)
  <2>1. \E a \in Answers : Commit(h, "completed", a) \/ (a = "refused" /\ Commit(h, "failed", a))
    BY <1>6 DEF ArchiveProduct, Answers
  <2>2. pc[h] = "archive"
    BY <1>6 DEF ArchiveProduct
  <2> QED
    BY <1>1, <2>1, <2>2
<1>7. CASE WriteMark(h)
  BY <1>7 DEF WriteMark, Marked, Answer, Goto
<1> QED
  BY <1>2, <1>3, <1>4, <1>5, <1>6, <1>7 DEF HandlerStep

\* A row stays with its body, and with its status if that is completed.
LEMMA RowsStay ==
  ASSUME LogTypeOK, PhaseInv, ClaimInv, NEW h \in Handler, HandlerStep(h) \/ Lose(h), NEW r \in log
  PROVE  /\ \E s \in log' : s.body = r.body
         /\ r.status = "completed" => r \in log'
<1>1. CASE r \in log'
  BY <1>1
<1>2. CASE r \notin log'
  <2>1. PICK status \in {"failed", "completed"} :
          /\ log' = (log \ Row(job[h].key)) \cup {[body |-> job[h], status |-> status]}
          /\ status = "failed" => pc[h] = "archive"
    BY <1>2, LogChange
  <2>2. claims[h]
    BY <1>2, LogChange
  <2>3. r \in Row(job[h].key)
    BY <1>2, <2>1
  <2>4. r.body = job[h]
    BY <2>2, <2>3 DEF ClaimInv, SameBody
  <2>5. /\ [body |-> job[h], status |-> status] \in log'
        /\ [body |-> job[h], status |-> status].body = job[h]
    BY <2>1
  <2>6. r.status # "completed"
    <3>1. SUFFICES ASSUME r.status = "completed"
                   PROVE  FALSE
      OBVIOUS
    <3>2. Done(job[h].key)
      BY <2>3, <3>1 DEF Done, Status
    <3>3. status = "completed"
      BY <2>1, <3>2 DEF ClaimInv
    <3>4. r = [body |-> job[h], status |-> "completed"]
      BY <2>4, <3>1 DEF LogTypeOK
    <3> QED
      BY <1>2, <2>5, <3>3, <3>4
  <2> QED
    BY <2>4, <2>5, <2>6
<1> QED
  BY <1>1, <1>2

\* The row another handler holds is left alone.
LEMMA HeldRowsStay ==
  ASSUME LogTypeOK, PhaseInv, ClaimInv, NEW h \in Handler, HandlerStep(h) \/ Lose(h),
         NEW g \in Handler, g # h, claims[g]
  PROVE  \A r : r.body.key = job[g].key => (r \in log' <=> r \in log)
<1>1. CASE log' = log
  BY <1>1
<1>2. CASE claims[h] /\ \E status \in {"failed", "completed"} :
             log' = (log \ Row(job[h].key)) \cup {[body |-> job[h], status |-> status]}
  <2>1. job[h].key # job[g].key
    BY <1>2 DEF ClaimInv
  <2> QED
    BY <1>2, <2>1 DEF Row
<1>3. CASE ~Claimed(job[h].key) /\ log' = log \cup {[body |-> job[h], status |-> "failed"]}
  <2>1. job[h].key # job[g].key
    BY <1>3 DEF Claimed
  <2> QED
    BY <1>3, <2>1
<1> QED
  BY <1>1, <1>2, <1>3, LogChange

\* A handler that takes the row of its key takes it from nobody, with the body of its
\* request, and not completed if it archives; one that goes on leaves the log alone.
LEMMA TakesRow ==
  ASSUME LogTypeOK, PhaseInv, ClaimInv, NEW h \in Handler, HandlerStep(h) \/ Lose(h)
  PROVE  /\ claims'[h] => /\ log' = log /\ SameBody(job[h])
                          /\ claims[h] \/ ~Claimed(job[h].key)
         /\ pc'[h] = "archive" => log' = log /\ ~Done(job[h].key)
         /\ pc'[h] = "claim" => /\ log' = log
                                /\ sawRow'[h] => \E r \in log : r.body = job[h]
                                /\ job[h].kind = "archive" => ~sawRow'[h]
<1> USE DEF LogTypeOK, Goto, Answer, Refuse, Commit, tables, reads, PhaseInv, Holding
<1>1. CASE ReadLog(h)
  <2>1. log' = log
    BY <1>1 DEF ReadLog
  <2>2. claims'[h] => SameBody(job[h]) /\ ~Claimed(job[h].key)
    BY <1>1 DEF ReadLog
  <2>3. pc'[h] = "archive" => ~Done(job[h].key)
    BY <1>1 DEF ReadLog
  <2>4. pc'[h] = "claim" /\ sawRow'[h] => \E r \in log : r.body = job[h]
    BY <1>1 DEF ReadLog, SameBody, Row
  <2>5. pc'[h] = "claim" /\ job[h].kind = "archive" => ~sawRow'[h]
    BY <1>1 DEF ReadLog
  <2> QED
    BY <2>1, <2>2, <2>3, <2>4, <2>5
<1>2. CASE Claim(h)
  <2>1. log' = log /\ pc[h] = "claim" /\ ~Claimed(job[h].key) /\ pc'[h] # "claim"
    BY <1>2 DEF Claim
  <2>2. claims'[h] => SameBody(job[h])
    <3>1. CASE ~sawRow[h]
      BY <1>2, <3>1 DEF Claim, SameBody
    <3>2. CASE sawRow[h]
      <4>1. PICK r \in log : r.body = job[h]
        BY <2>1, <3>2 DEF ClaimInv
      <4> QED
        BY <4>1 DEF SameBody, Row
    <3> QED
      BY <3>1, <3>2
  <2>3. pc'[h] = "archive" => ~Done(job[h].key)
    BY <1>2, <2>1 DEF Claim, ClaimInv, Done, Status
  <2> QED
    BY <2>1, <2>2, <2>3
<1>3. CASE ReadEntry(h)
  BY <1>3 DEF ReadEntry, ClaimInv
<1>4. CASE WriteEntry(h)
  BY <1>4 DEF WriteEntry
<1>5. CASE ReadDocument(h)
  BY <1>5 DEF ReadDocument, ClaimInv
<1>6. CASE ReadItems(h)
  BY <1>6 DEF ReadItems, ClaimInv
<1>7. CASE PostAdjustment(h)
  BY <1>7 DEF PostAdjustment
<1>8. CASE ArchiveProduct(h)
  BY <1>8 DEF ArchiveProduct
<1>9. CASE ReadMark(h)
  BY <1>9 DEF ReadMark
<1>10. CASE WriteMark(h)
  BY <1>10 DEF WriteMark
<1>11. CASE Lose(h)
  BY <1>11 DEF Lose
<1> QED
  BY <1>1, <1>2, <1>3, <1>4, <1>5, <1>6, <1>7, <1>8, <1>9, <1>10, <1>11 DEF HandlerStep
\* Every step keeps the claims.
LEMMA ClaimStep ==
  ASSUME LogTypeOK, PhaseInv, ClaimInv, LogStep
  PROVE  ClaimInv'
<1>1. ASSUME NEW h \in Handler, HandlerStep(h) \/ Lose(h)
      PROVE  ClaimInv'
  <2>1. /\ job' = job
        /\ \A g \in Handler \ {h} : /\ pc'[g] = pc[g] /\ claims'[g] = claims[g]
                                    /\ sawRow'[g] = sawRow[g]
    BY <1>1, HandlerFlow
  <2>2. /\ claims'[h] => /\ log' = log /\ SameBody(job[h])
                         /\ claims[h] \/ ~Claimed(job[h].key)
        /\ pc'[h] = "archive" => log' = log /\ ~Done(job[h].key)
        /\ pc'[h] = "claim" => /\ log' = log
                               /\ sawRow'[h] => \E r \in log : r.body = job[h]
                               /\ job[h].kind = "archive" => ~sawRow'[h]
    BY <1>1, TakesRow
  <2>3. \A f, g \in Handler : claims'[f] /\ claims'[g] /\ job[f].key = job[g].key => f = g
    BY <2>1, <2>2 DEF ClaimInv, Claimed
  <2>4. ASSUME NEW g \in Handler, claims'[g]
        PROVE  \A r \in log' : r.body.key = job[g].key => r.body = job[g]
    <3>1. CASE g = h
      BY <2>2, <2>4, <3>1 DEF SameBody, Row
    <3>2. CASE g # h
      <4>1. \A r : r.body.key = job[g].key => (r \in log' <=> r \in log)
        BY <1>1, <2>1, <2>4, <3>2, HeldRowsStay
      <4> QED
        BY <2>1, <2>4, <3>2, <4>1 DEF ClaimInv, SameBody, Row
    <3> QED
      BY <3>1, <3>2
  <2>5. ASSUME NEW g \in Handler, pc'[g] = "claim"
        PROVE  /\ sawRow'[g] => \E r \in log' : r.body = job[g]
               /\ job[g].kind = "archive" => ~sawRow'[g]
    <3>1. CASE g = h
      BY <2>2, <2>5, <3>1
    <3>2. CASE g # h
      <4>1. pc[g] = "claim" /\ sawRow'[g] = sawRow[g]
        BY <2>1, <2>5, <3>2
      <4>2. \A r \in log : \E s \in log' : s.body = r.body
        BY <1>1, RowsStay
      <4>3. /\ sawRow[g] => \E r \in log : r.body = job[g]
            /\ job[g].kind = "archive" => ~sawRow[g]
        BY <4>1 DEF ClaimInv
      <4> QED
        BY <4>1, <4>2, <4>3
    <3> QED
      BY <3>1, <3>2
  <2>6. ASSUME NEW g \in Handler, pc'[g] = "archive"
        PROVE  ~\E r \in log' : r.body.key = job[g].key /\ r.status = "completed"
    <3>1. CASE g = h
      BY <2>2, <2>6, <3>1 DEF Done, Status, Row
    <3>2. CASE g # h
      <4>1. pc[g] = "archive" /\ claims[g]
        BY <2>1, <2>6, <3>2 DEF PhaseInv, Holding
      <4>2. \A r : r.body.key = job[g].key => (r \in log' <=> r \in log)
        BY <1>1, <3>2, <4>1, HeldRowsStay
      <4> QED
        BY <4>1, <4>2 DEF ClaimInv, Done, Status, Row
    <3> QED
      BY <3>1, <3>2
  <2>7. \A g \in Handler : claims'[g] => SameBody(job[g])'
    BY <2>1, <2>4 DEF SameBody, Row
  <2>8. \A g \in Handler : pc'[g] = "archive" => ~Done(job[g].key)'
    BY <2>1, <2>6 DEF Done, Status, Row
  <2> QED
    BY <2>1, <2>3, <2>5, <2>7, <2>8 DEF ClaimInv
<1>2. ASSUME NEW h \in Handler, pc[h] = "answered", Forgotten(h)
      PROVE  ClaimInv'
  BY <1>2 DEF Forgotten, LogTypeOK, PhaseInv, Holding, ClaimInv, tables, SameBody, Done, Status, Row
<1>3. ASSUME NEW h \in Handler, NEW q \in Body, Receive(h, q)
      PROVE  ClaimInv'
  BY <1>3 DEF Receive, Goto, LogTypeOK, PhaseInv, Holding, ClaimInv, tables, reads, SameBody, Done,
              Status, Row
<1>4. CASE UNCHANGED <<log, pc, job, claims, reads>>
  BY <1>4 DEF ClaimInv, reads, SameBody, Done, Status, Row
<1> QED
  BY <1>1, <1>2, <1>3, <1>4 DEF LogStep, MoveStock, ReadUpdate, WriteUpdate, requests, tables

-----------------------------------------------------------------------------
(***************************************************************************)
(* The catalogue and the documents.                                        *)
(***************************************************************************)

\* Every step keeps what was read of the catalogue.
LEMMA SeenStep ==
  ASSUME LogTypeOK, PhaseInv, SeenInv, LogStep
  PROVE  SeenInv'
<1>1. \A r \in Ref : catalogue[r] # NoEntry => catalogue'[r] # NoEntry
  BY EntriesStay
<1>2. ASSUME NEW g \in Handler, pc[g] = "write"
      PROVE  job[g].id \in Ref
  BY <1>2, AtWork, BodyFields DEF PhaseInv, Ref
<1>3. ASSUME NEW h \in Handler, HandlerStep(h) \/ Lose(h)
      PROVE  SeenInv'
  <2>1. /\ job' = job
        /\ \A g \in Handler \ {h} : pc'[g] = pc[g] /\ sawEntry'[g] = sawEntry[g]
    BY <1>3, HandlerFlow
  <2>2. pc'[h] = "write" => catalogue' = catalogue /\ sawEntry'[h] = catalogue[job[h].id]
    BY <1>3 DEF HandlerStep, ReadLog, Claim, ReadEntry, WriteEntry, ReadDocument, ReadItems,
                PostAdjustment, ArchiveProduct, ReadMark, WriteMark, Lose, Goto, Answer, Commit,
                Refuse, tables, LogTypeOK
  <2> QED
    BY <1>1, <1>2, <2>1, <2>2 DEF SeenInv
<1>4. ASSUME NEW h \in Handler, Forgotten(h) \/ \E q \in Body : Receive(h, q)
      PROVE  SeenInv'
  <2>1. /\ \A g \in Handler : pc'[g] = "write" => pc[g] = "write" /\ job'[g] = job[g]
                                                /\ sawEntry'[g] = sawEntry[g]
        /\ catalogue' = catalogue
    BY <1>4 DEF Forgotten, Receive, Goto, LogTypeOK, tables, reads
  <2> QED
    BY <2>1 DEF SeenInv
<1>5. CASE UNCHANGED <<pc, job, reads>>
  BY <1>1, <1>2, <1>5 DEF SeenInv, reads
<1> QED
  BY <1>3, <1>4, <1>5 DEF LogStep, MoveStock, ReadUpdate, WriteUpdate, requests

\* Every step keeps what is known of the documents.
LEMMA PostedStep ==
  ASSUME LogTypeOK, PhaseInv, ClaimInv, PostedInv, LogStep
  PROVE  PostedInv'
<1>1. ASSUME NEW h \in Handler, PostAdjustment(h), posted' # posted
      PROVE  PostedInv'
  <2>1. job[h] \in Body /\ job[h].kind = "adjustment"
    BY <1>1, AtWork DEF PostAdjustment, PhaseInv
  <2>2. job[h].id \in Document
    BY <2>1, BodyFields
  <2>3. /\ posted[job[h].id] = 0 /\ posted' = [posted EXCEPT ![job[h].id] = @ + 1]
        /\ log' = (log \ Row(job[h].key)) \cup {[body |-> job[h], status |-> "completed"]}
    BY <1>1 DEF PostAdjustment, Postable, Refuse, Commit, tables
  <2>4. \A d \in Document : posted'[d] = IF d = job[h].id THEN 1 ELSE posted[d]
    BY <2>2, <2>3 DEF LogTypeOK
  <2>5. \A r \in log' : r.status = "completed" /\ r.body.kind = "adjustment" =>
                         posted'[r.body.id] = 1
    <3>1. SUFFICES ASSUME NEW r \in log', r.status = "completed", r.body.kind = "adjustment"
                   PROVE  posted'[r.body.id] = 1
      OBVIOUS
    <3>2. CASE r \in log
      <4>1. posted[r.body.id] = 1
        BY <3>1, <3>2 DEF PostedInv
      <4>2. r.body.id \in Document
        BY <3>1, <3>2, BodyFields DEF LogTypeOK
      <4> QED
        BY <2>4, <4>1, <4>2
    <3>3. CASE r = [body |-> job[h], status |-> "completed"]
      BY <2>2, <2>4, <3>3
    <3> QED
      BY <2>3, <3>1, <3>2, <3>3
  <2> QED
    BY <2>4, <2>5 DEF PostedInv
<1>2. ASSUME posted' = posted,
             \A r \in log' \ log : r.status = "completed" /\ r.body.kind = "adjustment" =>
                                  posted[r.body.id] = 1
      PROVE  PostedInv'
  BY <1>2 DEF PostedInv
<1>3. ASSUME NEW h \in Handler, HandlerStep(h) \/ Lose(h), posted' = posted
      PROVE  PostedInv'
  <2>1. CASE ReadDocument(h) /\ log' # log
    <3>1. /\ posted[job[h].id] > 0 /\ job[h].kind = "adjustment"
          /\ log' = (log \ Row(job[h].key)) \cup {[body |-> job[h], status |-> "completed"]}
      BY <2>1 DEF ReadDocument, Commit, tables
    <3>2. job[h].id \in Document
      BY <2>1, <3>1, AtWork, BodyFields DEF ReadDocument
    <3>3. posted[job[h].id] = 1
      BY <3>1, <3>2 DEF PostedInv, LogTypeOK
    <3> QED
      BY <1>2, <1>3, <3>1, <3>3
  <2>2. CASE WriteEntry(h) \/ ArchiveProduct(h)
    <3>1. job[h].kind # "adjustment"
      BY <2>2 DEF WriteEntry, ArchiveProduct, PhaseInv
    <3>2. \A r \in log' \ log : r.body = job[h]
      BY <1>3, LogChange
    <3> QED
      BY <1>2, <1>3, <3>1, <3>2
  <2>3. CASE WriteMark(h)
    BY <1>2, <1>3, <2>3 DEF WriteMark, Marked
  <2>4. CASE log' = log
    BY <1>2, <1>3, <2>4
  <2>5. CASE PostAdjustment(h)
    <3>1. CASE Postable(job[h])
      <4>1. posted[job[h].id] = 0 /\ posted' = [posted EXCEPT ![job[h].id] = @ + 1]
        BY <2>5, <3>1 DEF PostAdjustment, Postable
      <4>2. job[h].id \in Document
        BY <2>5, AtWork, BodyFields DEF PostAdjustment, PhaseInv
      <4> QED
        BY <1>3, <4>1, <4>2 DEF LogTypeOK
    <3>2. CASE ~Postable(job[h])
      BY <2>4, <2>5, <3>2 DEF PostAdjustment, Refuse, tables
    <3> QED
      BY <3>1, <3>2
  <2> QED
    BY <1>3, <2>1, <2>2, <2>3, <2>4, <2>5
       DEF HandlerStep, ReadLog, Claim, ReadEntry, ReadItems, ReadMark, Lose, Refuse, tables
<1>4. ASSUME NEW h \in Handler, HandlerStep(h) \/ Lose(h), posted' # posted
      PROVE  PostAdjustment(h)
  BY <1>4 DEF HandlerStep, ReadLog, Claim, ReadEntry, WriteEntry, ReadDocument, ReadItems,
              ArchiveProduct, ReadMark, WriteMark, Lose, Refuse, tables
<1>5. CASE UNCHANGED <<log, posted>>
  BY <1>5 DEF PostedInv
<1> QED
  BY <1>1, <1>3, <1>4, <1>5 DEF LogStep, Forgotten, Receive, MoveStock, ReadUpdate, WriteUpdate,
             requests, tables

-----------------------------------------------------------------------------
(***************************************************************************)
(* Answers.                                                                *)
(***************************************************************************)

\* A request is told that it is done when it commits that, or finds it committed.
LEMMA AnsweredHasRow ==
  ASSUME LogTypeOK, PhaseInv, NEW h \in Handler, HandlerStep(h) \/ Lose(h),
         pc'[h] = "answered", answer'[h] \in {"ok", "repeated"}
  PROVE  [body |-> job[h], status |-> "completed"] \in log'
<1> USE DEF LogTypeOK, Goto, Answer, Refuse, Commit, tables
<1>1. CASE ReadLog(h)
  <2>1. log' = log /\ SameBody(job[h]) /\ Done(job[h].key)
    BY <1>1 DEF ReadLog
  <2>2. PICK r \in Row(job[h].key) : r.status = "completed"
    BY <2>1 DEF Done, Status
  <2>3. r \in log /\ r.body = job[h]
    BY <2>1, <2>2 DEF SameBody, Row
  <2>4. r = [body |-> job[h], status |-> "completed"]
    BY <2>2, <2>3
  <2> QED
    BY <2>1, <2>3, <2>4
<1>2. CASE Claim(h)
  BY <1>2 DEF Claim
<1>3. CASE ReadEntry(h)
  BY <1>3 DEF ReadEntry
<1>4. CASE WriteEntry(h)
  BY <1>4 DEF WriteEntry
<1>5. CASE ReadDocument(h)
  BY <1>5 DEF ReadDocument
<1>6. CASE ReadItems(h)
  BY <1>6 DEF ReadItems
<1>7. CASE PostAdjustment(h)
  BY <1>7 DEF PostAdjustment
<1>8. CASE ArchiveProduct(h)
  BY <1>8 DEF ArchiveProduct
<1>9. CASE ReadMark(h)
  BY <1>9 DEF ReadMark
<1>10. CASE WriteMark(h)
  BY <1>10 DEF WriteMark
<1>11. CASE Lose(h)
  BY <1>11 DEF Lose
<1> QED
  BY <1>1, <1>2, <1>3, <1>4, <1>5, <1>6, <1>7, <1>8, <1>9, <1>10, <1>11 DEF HandlerStep

\* Every step keeps the row of an answered request.
LEMMA RecordStep ==
  ASSUME LogTypeOK, PhaseInv, ClaimInv, RecordInv, LogStep
  PROVE  RecordInv'
<1>1. ASSUME NEW h \in Handler, HandlerStep(h) \/ Lose(h)
      PROVE  RecordInv'
  <2>1. SUFFICES ASSUME NEW g \in Handler, pc'[g] = "answered", answer'[g] \in {"ok", "repeated"}
                 PROVE  [body |-> job[g], status |-> "completed"] \in log'
    BY <1>1, HandlerFlow DEF RecordInv
  <2>2. CASE g = h
    BY <1>1, <2>1, <2>2, AnsweredHasRow
  <2>3. CASE g # h
    <3>1. pc[g] = "answered" /\ answer[g] \in {"ok", "repeated"}
      BY <1>1, <2>1, <2>3, HandlerFlow
    <3>2. [body |-> job[g], status |-> "completed"] \in log
      BY <3>1 DEF RecordInv
    <3>3. [body |-> job[g], status |-> "completed"].status = "completed"
      OBVIOUS
    <3> QED
      BY <1>1, <3>2, <3>3, RowsStay
  <2> QED
    BY <2>2, <2>3
<1>2. ASSUME NEW h \in Handler, Forgotten(h) \/ \E q \in Body : Receive(h, q)
      PROVE  RecordInv'
  BY <1>2 DEF Forgotten, Receive, Goto, LogTypeOK, tables, RecordInv
<1>3. CASE UNCHANGED <<log, pc, job, answer>>
  BY <1>3 DEF RecordInv
<1> QED
  BY <1>1, <1>2, <1>3 DEF LogStep, MoveStock, ReadUpdate, WriteUpdate, requests, tables

-----------------------------------------------------------------------------
(***************************************************************************)
(* Theorems.                                                               *)
(***************************************************************************)

LEMMA InitIInv == Init => IInv
<1> SUFFICES ASSUME Init
             PROVE  IInv
  OBVIOUS
<1> USE DEF Init, LogInit
<1>1. LogTypeOK
  <2>1. Opening \in [Product -> Nat] /\ Existing \subseteq [Ref -> Entry \cup {NoEntry}]
        /\ 0 \in 0..MaxOutside
    BY ImportAssumption
  <2> QED
    BY <2>1 DEF LogTypeOK, Steps, Answers
<1>2. TypeOK /\ BridgeInv
  <2>1. 0 \in 0..MaxChanges /\ \A r \in Ref : AtFirst[r] \in Cards[r]
    BY CatalogAssumption
  <2> QED
    BY <1>1, <2>1 DEF TypeOK, BridgeInv
<1>3. PhaseInv /\ ClaimInv /\ SeenInv /\ PostedInv /\ RecordInv
  BY DEF PhaseInv, Holding, ClaimInv, SeenInv, PostedInv, RecordInv
<1> QED
  BY <1>2, <1>3 DEF IInv

LEMMA Invariant == Spec => []IInv
<1>1. ASSUME IInv, [Next]_vars
      PROVE  IInv'
  <2>1. LogTypeOK /\ LogStep
    BY <1>1, LogSteps DEF IInv, TypeOK
  <2>2. LogTypeOK'
    BY <1>1, <2>1, LogTypesStep DEF IInv
  <2>3. TypeOK' /\ BridgeInv'
    BY <1>1, <2>2, BridgeStepTyped DEF IInv
  <2>4. PhaseInv' /\ ClaimInv' /\ SeenInv' /\ PostedInv' /\ RecordInv'
    BY <1>1, <2>1, PhaseStep, ClaimStep, SeenStep, PostedStep, RecordStep DEF IInv
  <2> QED
    BY <2>3, <2>4 DEF IInv
<1> QED
  BY InitIInv, <1>1, PTL DEF Spec

\* The tables of the import endpoints, the requests in progress and the unit of the bridge
\* are always of their types; a key has one row in the exchange log (integration_1c.py).
THEOREM ImportTypeCorrect == Spec => []TypeOK
<1>1. IInv => TypeOK
  BY DEF IInv
<1> QED
  BY Invariant, <1>1, PTL
\* A request that was told it is done has its log row completed with its own body, and
\* its document is posted exactly once, however many keys, retries and lost requests
\* there were for it (_begin_import, import_stock_adjustment).
THEOREM DoneMeansRecorded == Spec => []DoneIsRecorded
<1>1. ASSUME IInv, NEW h \in Handler, pc[h] = "answered", answer[h] \in {"ok", "repeated"}
      PROVE  /\ [body |-> job[h], status |-> "completed"] \in log
             /\ job[h].kind = "adjustment" => posted[job[h].id] = 1
  <2>1. [body |-> job[h], status |-> "completed"] \in log
    BY <1>1 DEF IInv, RecordInv
  <2>2. \A r \in log : r.status = "completed" /\ r.body.kind = "adjustment" =>
                         posted[r.body.id] = 1
    BY <1>1 DEF IInv, PostedInv
  <2> QED
    BY <2>1, <2>2
<1>2. IInv => DoneIsRecorded
  BY <1>1 DEF DoneIsRecorded
<1> QED
  BY Invariant, <1>2, PTL

\* A row of the exchange log that is completed stays completed with its body, whatever
\* retries of its key are in progress: a handler that failed after the key was completed
\* by another does not mark it as failed (_mark_failed).
THEOREM CompletedForGood == Spec => CompletedStays
<1>1. ASSUME IInv, [Next]_vars, NEW r \in log, r.status = "completed"
      PROVE  r \in log'
  <2>1. LogTypeOK /\ PhaseInv /\ ClaimInv /\ LogStep
    BY <1>1, LogSteps DEF IInv, TypeOK
  <2> QED
    BY <1>1, <2>1, RowsStay DEF LogStep, Forgotten, Receive, MoveStock, ReadUpdate, WriteUpdate,
             requests, tables
<1>2. IInv /\ [Next]_vars => \A r \in log : r.status = "completed" => r \in log'
  BY <1>1
<1> QED
  BY Invariant, <1>2, PTL DEF CompletedStays, Spec

\* An archive key archives at most once: replayed after the product was activated again
\* it changes nothing (archive_product, which takes the row of the key first).
THEOREM ArchivedByKeyOnce == Spec => ArchivesOnce
<1>1. ASSUME IInv, NEW h \in Handler, ArchiveProduct(h)
      PROVE  ~Status(job[h].key, "completed")
  BY <1>1 DEF IInv, ClaimInv, Done, ArchiveProduct
<1>2. IInv => \A h \in Handler : ArchiveProduct(h) /\ catalogue' # catalogue =>
                                   ~Status(job[h].key, "completed")
  BY <1>1
<1> QED
  BY Invariant, <1>2, PTL DEF ArchivesOnce

\* A step of the endpoints that leaves a product both archived and in stock uses a check
\* made without the product lock.
LEMMA WhoOrphans ==
  ASSUME LogTypeOK, PhaseInv, SeenInv, LogStep, NEW p \in Product,
         ~Orphaned(p), catalogue'[p] # NoEntry /\ ~catalogue'[p].active /\ stock'[p] # 0
  PROVE  \/ \E h \in Handler : (PostsTo(h, p) \/ Deactivates(h, p)) /\ pc'[h] = "answered"
         \/ \E u \in updates \ updates' : u.id = p /\ ~u.active
<1>1. p \in Ref
  BY DEF Ref
<1>2. ~(UNCHANGED <<catalogue[p], stock[p]>>)
  BY DEF Orphaned
<1>3. ASSUME NEW h \in Handler, WriteEntry(h)
      PROVE  Deactivates(h, p) /\ pc'[h] = "answered"
  <2>1. /\ pc[h] = "write" /\ job[h] \in Body
        /\ job[h].kind \in {"product", "location"} /\ job[h].id \in Ref
    BY <1>3, AtWork, BodyFields DEF WriteEntry, PhaseInv, Ref
  <2>2. /\ Commit(h, "completed", "ok") /\ stock' = stock
        /\ catalogue' = [catalogue EXCEPT ![job[h].id] =
             IF sawEntry[h] = NoEntry
             THEN [label |-> job[h].label, detail |-> job[h].detail, active |-> IsActive(job[h])]
             ELSE Written(job[h], sawEntry[h], catalogue[job[h].id])]
        /\ sawEntry[h] = NoEntry => catalogue[job[h].id] = NoEntry
    BY <1>2, <1>3 DEF WriteEntry, Refuse, tables
  <2>3. pc'[h] = "answered"
    BY <2>2 DEF Commit, Answer, Goto, LogTypeOK
  <2>4. job[h].id = p
    BY <1>1, <1>2, <2>2 DEF LogTypeOK
  <2>5. job[h].kind = "product"
    BY <2>1, <2>4, BodyFields, ImportAssumption
  <2>6. ~job[h].active
    <3>1. CASE sawEntry[h] = NoEntry
      BY <1>1, <2>2, <2>4, <2>5, <3>1 DEF IsActive, LogTypeOK
    <3>2. CASE sawEntry[h] # NoEntry
      <4>1. catalogue'[p].active = IF job[h].active = sawEntry[h].active THEN catalogue[p].active
                                   ELSE job[h].active
        BY <1>1, <2>2, <2>4, <2>5, <3>2 DEF Written, LogTypeOK
      <4>2. catalogue[p] # NoEntry
        BY <2>1, <2>4, <3>2 DEF SeenInv
      <4>3. catalogue[p].active
        BY <2>2, <4>2 DEF Orphaned
      <4>4. job[h].active \in BOOLEAN
        BY <2>1, <2>5, BodyFields
      <4> QED
        BY <4>1, <4>3, <4>4
    <3> QED
      BY <3>1, <3>2
  <2> QED
    BY <2>1, <2>3, <2>4, <2>5, <2>6 DEF Deactivates
<1>4. ASSUME NEW h \in Handler, PostAdjustment(h)
      PROVE  PostsTo(h, p) /\ pc'[h] = "answered"
  <2>1. /\ pc[h] = "post" /\ Commit(h, "completed", "ok") /\ catalogue' = catalogue
        /\ stock' = [q \in Product |-> stock[q] + job[h].delta[q]]
    BY <1>2, <1>4 DEF PostAdjustment, Refuse, tables
  <2>2. pc'[h] = "answered"
    BY <2>1 DEF Commit, Answer, Goto, LogTypeOK
  <2>3. job[h].delta[p] # 0
    BY <1>2, <2>1 DEF LogTypeOK
  <2> QED
    BY <2>1, <2>2, <2>3 DEF PostsTo, Items
<1>5. ASSUME NEW h \in Handler, ArchiveProduct(h)
      PROVE  FALSE
  <2>1. /\ catalogue' = [catalogue EXCEPT ![job[h].id].active = FALSE]
        /\ Archivable(job[h].id) /\ stock' = stock
    BY <1>2, <1>5 DEF ArchiveProduct
  <2>2. p = job[h].id
    BY <1>1, <1>2, <2>1 DEF LogTypeOK
  <2> QED
    BY <2>1, <2>2 DEF Archivable
<1>6. ASSUME NEW q \in Product, MoveStock(q)
      PROVE  FALSE
  <2>1. /\ Usable(q) /\ catalogue' = catalogue
        /\ stock' = [stock EXCEPT ![q] = IF @ = 0 THEN 1 ELSE 0]
    BY <1>6 DEF MoveStock
  <2>2. p = q
    BY <1>2, <2>1 DEF LogTypeOK
  <2> QED
    BY <2>1, <2>2 DEF Usable
<1>7. ASSUME NEW u \in updates, WriteUpdate(u)
      PROVE  u \notin updates' /\ u.id = p /\ ~u.active
  <2>1. /\ catalogue' = [catalogue EXCEPT ![u.id].active = u.active]
        /\ u \notin updates' /\ stock' = stock
    BY <1>7 DEF WriteUpdate
  <2>2. u.id = p
    BY <1>1, <1>2, <2>1 DEF LogTypeOK
  <2>3. catalogue[p] \in Entry
    BY <1>1, <2>2 DEF LogTypeOK
  <2> QED
    BY <1>1, <2>1, <2>2, <2>3 DEF Entry, LogTypeOK
<1> QED
  BY <1>2, <1>3, <1>4, <1>5, <1>6, <1>7
     DEF LogStep, HandlerStep, ReadLog, Claim, ReadEntry, ReadDocument, ReadItems, ReadMark,
         WriteMark, Lose, Commit, Refuse, Forgotten, Receive, ReadUpdate, tables

\* An archived product with stock arises only from a check whose answer is old when it is
\* used: an adjustment that read the product before it was archived, import_product and
\* update_product, which look at the stock before they archive.  The archive endpoint
\* and the documents of the application, which take the product row, never do it.
THEOREM OnlyOldChecksOrphan == Spec => OrphanedOnlyByOldChecks
<1> DEFINE ByOldCheck(p) ==
             \/ \E h \in Handler : (PostsTo(h, p) \/ Deactivates(h, p)) /\ pc'[h] = "answered"
             \/ \E u \in updates \ updates' : u.id = p /\ ~u.active
<1>1. ASSUME IInv, [Next]_vars, NEW p \in Product, ~Orphaned(p), Orphaned(p)'
      PROVE  ByOldCheck(p)
  <2>1. LogTypeOK /\ PhaseInv /\ SeenInv /\ LogStep
    BY <1>1, LogSteps DEF IInv, TypeOK
  <2>2. catalogue'[p] # NoEntry /\ ~catalogue'[p].active /\ stock'[p] # 0
    BY <1>1 DEF Orphaned
  <2> QED
    BY <1>1, <2>1, <2>2, WhoOrphans
<1>2. IInv /\ [Next]_vars =>
        \A p \in Product : ~Orphaned(p) /\ Orphaned(p)' => ByOldCheck(p)
  BY <1>1
<1> QED
  BY Invariant, <1>2, PTL DEF OrphanedOnlyByOldChecks, Spec
=============================================================================
