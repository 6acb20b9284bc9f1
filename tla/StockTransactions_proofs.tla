----------------------- MODULE StockTransactions_proofs -----------------------
(***************************************************************************)
(* Proofs about StockTransactions for any sets of products, locations,     *)
(* keys, requests and handlers.                                            *)
(***************************************************************************)
EXTENDS StockTransactions, WellFoundedInduction, TLAPS

-----------------------------------------------------------------------------
(***************************************************************************)
(* Facts about the operators.                                              *)
(***************************************************************************)

\* A nonempty set of numbers has a least one.
LEMMA NatHasLeast ==
  ASSUME NEW S \in SUBSET Nat, S # {}
  PROVE  \E x \in S : \A y \in S : x <= y
<1>1. PICK x \in S : \A y \in S : ~(<<y, x>> \in OpToRel(<, Nat))
  BY WFMin, NatLessThanWellFounded, Zenon
<1>2. \A y \in S : ~(y < x)
  BY <1>1 DEF OpToRel
<1> QED
  BY <1>2

\* The next row of lock_active_products and of the items loop is the one with the
\* smallest id among those left.
LEMMA LeastIsMember ==
  ASSUME NEW S \in SUBSET Product, S # {}
  PROVE  Least(S) \in S /\ \A q \in S : Least(S) <= q
<1>1. S \in SUBSET Nat
  BY StockAssumption
<1>2. \E x \in S : \A y \in S : x <= y
  BY <1>1, NatHasLeast
<1> QED
  BY <1>2, Zenon DEF Least

\* The fields of a request have their types.
LEMMA RequestType ==
  ASSUME NEW r \in Request
  PROVE  /\ r.kind \in OperationKinds \cup ArchiveKinds
         /\ r.key \in Key \cup {NoKey}
         /\ r.quantity \in [Product -> Int]
         /\ r.amount \in Nat
         /\ r.active \in BOOLEAN
         /\ r # NoRequest
<1>1. WellFormed(r) /\ r # NoRequest
  BY StockAssumption
<1> QED
  BY <1>1 DEF WellFormed, RequestRecord

\* Movements are integers, and there are none of a product the request does not
\* name nor at a location it does not touch.
LEMMA DeltaType ==
  ASSUME NEW r \in Request, NEW l \in Location, NEW p \in Product
  PROVE  /\ Delta(r, l, p) \in Int
         /\ p \notin Wanted(r) => Delta(r, l, p) = 0
         /\ l \notin Places(r) => Delta(r, l, p) = 0
<1>1. r.quantity[p] \in Int
  BY RequestType
<1>2. l # NoLocation
  BY StockAssumption
<1> QED
  BY <1>1, <1>2 DEF Delta, Wanted, Places

\* The money row of a request changes a debt by an integer.
LEMMA MoneyDeltaType ==
  ASSUME NEW r \in Request, NEW l \in Location
  PROVE  MoneyDelta(r, l) \in Int
<1>1. r.amount \in Int
  BY RequestType
<1> QED
  BY <1>1 DEF MoneyDelta

\* A handover and an archived location name no product.
LEMMA NothingWanted ==
  ASSUME NEW r \in Request, r.kind \in {"CASH_HANDOVER", "update_location"}
  PROVE  Wanted(r) = {}
<1>1. WellFormed(r)
  BY StockAssumption
<1> QED
  BY <1>1 DEF WellFormed, Wanted

\* A request names products only.
LEMMA WantedProducts ==
  ASSUME NEW r
  PROVE  Wanted(r) \subseteq Product
BY DEF Wanted

-----------------------------------------------------------------------------
(***************************************************************************)
(* Type correctness.                                                       *)
(***************************************************************************)
LEMMA NothingWrittenType == NothingWritten \in [Location -> [Product -> Int]]
BY DEF NothingWritten

\* The opening state is well typed.
LEMMA InitType == Init => TypeOK
<1> SUFFICES ASSUME Init PROVE TypeOK
  OBVIOUS
<1>1. /\ Opening \in [Location -> [Product -> Int]]
      /\ OpeningDebt \in [Location -> Int]
  BY StockAssumption
<1> QED
  BY <1>1, NothingWrittenType DEF Init, TypeOK, Phases, Replies

SessionType ==
  /\ locked \in [Handler -> SUBSET Product]
  /\ moved \in [Handler -> SUBSET Product]
  /\ buf \in [Handler -> [Location -> [Product -> Int]]]

\* The end of a transaction leaves no lock, item or write.
LEMMA ReleaseType ==
  ASSUME SessionType, NEW h \in Handler, Release(h)
  PROVE  SessionType'
BY NothingWrittenType DEF SessionType, Release

\* An answer ends the handler.
LEMMA AnswerType ==
  ASSUME TypeOK, NEW h \in Handler, NEW a \in Replies \ {"none"}, Answer(h, a),
         req[h] \in Request
  PROVE  /\ pc' \in [Handler -> Phases]
         /\ req' \in [Handler -> Request \cup {NoRequest}]
         /\ \A u \in Handler : pc'[u] # "idle" => req'[u] \in Request
         /\ reply' \in [Handler -> Replies]
         /\ \A u \in Handler : pc'[u] = "done" <=> reply'[u] # "none"
         /\ SessionType'
<1>1. SessionType'
  BY ReleaseType DEF TypeOK, SessionType, Answer
<1> QED
  BY <1>1 DEF TypeOK, Answer, Goto, Phases, Replies

\* So does a rollback.
LEMMA RefuseType ==
  ASSUME TypeOK, NEW h \in Handler, NEW a \in Replies \ {"none"}, Refuse(h, a),
         req[h] \in Request
  PROVE  TypeOK'
<1>1. Answer(h, a)
  BY DEF Refuse
<1> QED
  BY <1>1, AnswerType DEF TypeOK, SessionType, Refuse, rows

\* A step to the next statement stays well typed.
LEMMA ContinueType ==
  ASSUME TypeOK, NEW h \in Handler, NEW phase \in Phases \ {"idle", "done"},
         Continue(h, phase), req[h] \in Request, pc[h] # "done",
         SessionType'
  PROVE  TypeOK'
BY DEF TypeOK, SessionType, Continue, Goto, rows

\* The locks and writes of the other handlers stay as they are.
LEMMA UnchangedSessionType ==
  ASSUME TypeOK, UNCHANGED session
  PROVE  SessionType'
BY DEF TypeOK, SessionType, session

\* A balance after a movement is an integer.
LEMMA AfterType ==
  ASSUME TypeOK, NEW r \in Request, NEW l \in Location, NEW p \in Product
  PROVE  After(r, l, p) \in Int
BY DeltaType DEF After, TypeOK

\* The balances a commit publishes are integers.
LEMMA WrittenType ==
  ASSUME TypeOK, NEW h \in Handler
  PROVE  Written(h) \in [Location -> [Product -> Int]]
BY DEF TypeOK, Written

\* Every step of every handler stays well typed.
LEMMA NextType == TypeOK /\ [Next]_vars => TypeOK'
<1>1. ASSUME TypeOK, UNCHANGED vars
      PROVE  TypeOK'
  BY <1>1 DEF TypeOK, vars, rows, session
<1>2. ASSUME TypeOK, NEW h \in Handler, NEW r \in Request, Receive(h, r)
      PROVE  TypeOK'
  <2>1. pc[h] = "idle" /\ reply[h] = "none"
    BY <1>2 DEF Receive, TypeOK
  <2>2. PICK phase \in {"locations", "lock", "stock"} : pc' = [pc EXCEPT ![h] = phase]
    BY <1>2 DEF Receive, Goto
  <2> QED
    BY <1>2, <2>1, <2>2 DEF Receive, TypeOK, Phases, rows, session
<1>3. ASSUME TypeOK, NEW h \in Handler, Step(h) \/ Crash(h)
      PROVE  TypeOK'
  <2>1. pc[h] \notin {"idle", "done"}
    BY <1>3 DEF Step, Crash, CheckLocations, Lookup, LockProduct, CheckProducts, InsertRow,
                Reselect, MoveItem, Commit, LockRepresentative, CheckDebt, ReadStock, UpdateActive
  <2>2. req[h] \in Request
    BY <1>3, <2>1 DEF TypeOK
  <2>3. ASSUME NEW a \in {"ok", "repeated", "conflict", "invalid", "lost"}, Refuse(h, a)
        PROVE  TypeOK'
    BY <1>3, <2>2, <2>3, RefuseType DEF Replies
  <2>4. ASSUME NEW phase \in Phases \ {"idle", "done"}, Continue(h, phase), UNCHANGED session
        PROVE  TypeOK'
    BY <1>3, <2>1, <2>2, <2>4, ContinueType, UnchangedSessionType
  <2>5. CASE CheckLocations(h)
    BY <2>3, <2>4, <2>5 DEF CheckLocations, Phases
  <2>6. CASE Lookup(h)
    BY <2>3, <2>4, <2>6 DEF Lookup, KeyAnswer, Phases
  <2>7. CASE LockProduct(h)
    <3>1. ToLock(h) \in SUBSET Product
      BY <2>2, WantedProducts DEF ToLock
    <3>2. NextToLock(h) \in Product
      BY <2>7, <3>1, LeastIsMember DEF LockProduct, NextToLock
    <3> QED
      BY <1>3, <2>7, <3>2 DEF LockProduct, TypeOK, rows
  <2>8. CASE CheckProducts(h)
    BY <2>3, <2>4, <2>8 DEF CheckProducts, Phases
  <2>9. CASE InsertRow(h)
    <3>1. CASE Existing(req[h]) = NoRequest
      BY <2>4, <2>9, <3>1 DEF InsertRow, Phases
    <3>2. CASE Existing(req[h]) # NoRequest
      <4>1. Continue(h, "reselect") /\ Release(h)
        BY <2>9, <3>2 DEF InsertRow
      <4>2. SessionType'
        BY <1>3, <4>1, ReleaseType DEF TypeOK, SessionType
      <4> QED
        BY <1>3, <2>1, <2>2, <4>1, <4>2, ContinueType DEF Phases
    <3> QED
      BY <3>1, <3>2
  <2>10. CASE Reselect(h)
    BY <2>3, <2>10 DEF Reselect, KeyAnswer
  <2>11. CASE MoveItem(h)
    <3>1. CASE Short(req[h], NextToMove(h))
      BY <2>3, <2>11, <3>1 DEF MoveItem
    <3>2. CASE ~Short(req[h], NextToMove(h))
      <4>1. ToMove(h) \in SUBSET Product
        BY <2>2, WantedProducts DEF ToMove
      <4>2. NextToMove(h) \in Product
        BY <2>11, <4>1, LeastIsMember DEF MoveItem, NextToMove
      <4>3. \A l \in Location : After(req[h], l, NextToMove(h)) \in Int
        BY <1>3, <2>2, <4>2, AfterType
      <4>4. /\ moved' = [moved EXCEPT ![h] = @ \cup {NextToMove(h)}]
            /\ buf' = [buf EXCEPT ![h] = [l \in Location |->
                 IF l \in Places(req[h])
                 THEN [buf[h][l] EXCEPT ![NextToMove(h)] = After(req[h], l, NextToMove(h))]
                 ELSE buf[h][l]]]
            /\ UNCHANGED <<rows, pc, req, reply, locked>>
        BY <2>11, <3>2 DEF MoveItem
      <4> QED
        BY <1>3, <4>2, <4>3, <4>4 DEF TypeOK, rows
    <3> QED
      BY <3>1, <3>2
  <2>12. CASE Commit(h)
    <3>1. /\ balance' = Written(h)
          /\ journal' = [l \in Location |-> [p \in Product |->
               journal[l][p] + Delta(req[h], l, p)]]
          /\ debt' = Charged(req[h])
          /\ document' \in {document, [k \in Key |-> IF k = req[h].key THEN req[h] ELSE document[k]]}
          /\ handover' \in {handover, [k \in Key |-> IF k = req[h].key THEN req[h] ELSE handover[k]]}
          /\ UNCHANGED <<product_active, location_active>>
          /\ Answer(h, "ok")
      BY <2>12 DEF Commit
    <3>2. balance' \in [Location -> [Product -> Int]]
      BY <1>3, <3>1, WrittenType
    <3>3. journal' \in [Location -> [Product -> Int]]
      BY <1>3, <2>2, <3>1, DeltaType DEF TypeOK
    <3>4. debt' \in [Location -> Int]
      BY <1>3, <2>2, <3>1, MoneyDeltaType DEF TypeOK, Charged
    <3>5. /\ document' \in [Key -> Request \cup {NoRequest}]
          /\ handover' \in [Key -> Request \cup {NoRequest}]
      <4>1. ASSUME NEW t \in [Key -> Request \cup {NoRequest}]
            PROVE  [k \in Key |-> IF k = req[h].key THEN req[h] ELSE t[k]]
                     \in [Key -> Request \cup {NoRequest}]
        BY <2>2
      <4>2. /\ document \in [Key -> Request \cup {NoRequest}]
            /\ handover \in [Key -> Request \cup {NoRequest}]
        BY <1>3 DEF TypeOK
      <4> QED
        BY <3>1, <4>1, <4>2
    <3> QED
      BY <1>3, <2>2, <3>1, <3>2, <3>3, <3>4, <3>5, AnswerType DEF TypeOK, SessionType, Replies
  <2>13. CASE LockRepresentative(h)
    BY <2>4, <2>13 DEF LockRepresentative, Phases
  <2>14. CASE CheckDebt(h)
    BY <2>3, <2>4, <2>14 DEF CheckDebt, Phases
  <2>15. CASE ReadStock(h)
    BY <2>3, <2>4, <2>15 DEF ReadStock, Phases
  <2>16. CASE UpdateActive(h)
    <3>1. /\ product_active' = [p \in Product |->
               IF p \in Wanted(req[h]) THEN req[h].active ELSE product_active[p]]
          /\ location_active' = [l \in Location |->
               IF req[h].kind = "update_location" /\ l = req[h].source THEN req[h].active
               ELSE location_active[l]]
          /\ UNCHANGED <<balance, journal, debt, document, handover>>
          /\ Answer(h, "ok")
      BY <2>16 DEF UpdateActive
    <3>2. req[h].active \in BOOLEAN
      BY <2>2, RequestType
    <3>3. product_active' \in [Product -> BOOLEAN] /\ location_active' \in [Location -> BOOLEAN]
      BY <1>3, <3>1, <3>2 DEF TypeOK
    <3> QED
      BY <1>3, <2>2, <3>1, <3>3, AnswerType DEF TypeOK, SessionType, Replies
  <2>17. CASE Crash(h)
    BY <2>3, <2>17 DEF Crash
  <2> QED
    BY <1>3, <2>5, <2>6, <2>7, <2>8, <2>9, <2>10, <2>11, <2>12, <2>13, <2>14, <2>15, <2>16,
       <2>17 DEF Step
<1> QED
  BY <1>1, <1>2, <1>3 DEF Next

\* Every reachable state of the transactions is well typed, and a handler has an
\* answer exactly when it has ended.
THEOREM TypeCorrect == Spec => []TypeOK
BY InitType, NextType, PTL DEF Spec
=============================================================================
