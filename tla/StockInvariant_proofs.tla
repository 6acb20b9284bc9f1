-------------------------- MODULE StockInvariant_proofs --------------------------
(***************************************************************************)
(* The safety of the stock transactions for any sets of products,          *)
(* locations, keys, requests and handlers, from one inductive invariant,   *)
(* sums over the documents posted, the refinement of the ledger, and that  *)
(* the transactions never deadlock.                                        *)
(***************************************************************************)
EXTENDS StockTransactions_proofs, FiniteSetTheorems

-----------------------------------------------------------------------------
(***************************************************************************)
(* The inductive invariant.  Mutual exclusion on product rows makes every  *)
(* other part stable: what a handler has read of the products it holds     *)
(* stays true until it ends.                                               *)
(***************************************************************************)
\* The kind of a request decides which statements its handler reaches.
KindAt(r, phase) ==
  /\ phase \in {"locations", "lookup", "insert", "items", "reselect"} => r.kind \in OperationKinds
  /\ phase \in {"representative", "debt"} => r.kind = "CASH_HANDOVER"
  /\ phase = "lock" => r.kind \in DocumentKinds \cup {"archive_product"}
  /\ phase \in {"stock", "update"} => r.kind \in ArchiveKinds
  /\ phase \in {"lookup", "lock", "insert", "items"} => Acceptable(r)
KindInv == \A h \in Handler : KindAt(req[h], pc[h])

\* A handler in this phase has all the product rows of r.
Holds(r, phase) ==
  \/ phase \in {"insert", "items"}
  \/ phase \in {"stock", "update"} /\ r.kind = "archive_product"

\* A handover in this phase has its representative locked.
Charging(r, phase) == phase \in {"debt", "insert", "items"} /\ r.kind = "CASH_HANDOVER"

\* A handler locks what it asked for and has it all when it writes.
LockAt(h, phase) ==
  /\ locked[h] # {} => locked[h] \subseteq Wanted(req[h])
  /\ phase # "lock" /\ ~Holds(req[h], phase) => locked[h] = {}
  /\ Holds(req[h], phase) => locked[h] = Wanted(req[h])
LockInv == \A h \in Handler : LockAt(h, pc[h])

\* What a handler has written and not committed is the committed balance plus its
\* own movement, and it is not negative.
MoveAt(h) ==
  /\ moved[h] # {} => pc[h] = "items" /\ moved[h] \subseteq Wanted(req[h])
  /\ \A p \in moved[h], l \in Location :
       l \in Places(req[h]) =>
         /\ buf[h][l][p] = balance[l][p] + Delta(req[h], l, p)
         /\ buf[h][l][p] >= 0
MoveInv == \A h \in Handler : MoveAt(h)

\* What a handler has read still holds when it writes: the products of a document
\* are active, those of an archive are empty, an inserted key is new, and the debt
\* covers the handover.
ActiveAt(h, phase) ==
  phase \in {"insert", "items"} => \A p \in Wanted(req[h]) : product_active[p]
EmptyAt(h, phase) ==
  phase = "update" /\ req[h].kind = "archive_product" =>
    \A l \in Location, p \in Wanted(req[h]) : balance[l][p] = 0
NewAt(h, phase) == phase = "items" => Existing(req[h]) = NoRequest
CoveredAt(h, phase) ==
  phase \in {"insert", "items"} /\ req[h].kind = "CASH_HANDOVER" =>
    req[h].amount <= debt[req[h].source]
ReadAt(h, phase) ==
  ActiveAt(h, phase) /\ EmptyAt(h, phase) /\ NewAt(h, phase) /\ CoveredAt(h, phase)
ReadInv == \A h \in Handler : ReadAt(h, pc[h])

\* Two handlers never hold one product row, one uncommitted key or one
\* representative.
SameRow(r, s) ==
  /\ r.key = s.key /\ r.key \in Key
  /\ r.kind = "CASH_HANDOVER" <=> s.kind = "CASH_HANDOVER"
Apart(h, phase, u) ==
  /\ locked[h] \cap locked[u] = {}
  /\ phase = "items" /\ pc[u] = "items" => ~SameRow(req[h], req[u])
  /\ Charging(req[h], phase) /\ Charging(req[u], pc[u]) => req[h].source # req[u].source
ApartInv == \A h, u \in Handler : h # u => Apart(h, pc[h], u)

\* A key in a table is the key of a posted request, and every posted request with
\* a key is in its table.
RowInv ==
  /\ \A h \in Handler : Posted(h) /\ req[h].key \in Key => Existing(req[h]) = req[h]
  /\ \A h, u \in Handler : h # u /\ Posted(h) /\ Posted(u) => ~SameRow(req[h], req[u])
  /\ \A r \in Request :
       Existing(r) # NoRequest => \E u \in Handler : Posted(u) /\ req[u] = Existing(r)

IInv ==
  /\ TypeOK /\ KindInv /\ LockInv /\ MoveInv /\ ReadInv /\ ApartInv /\ RowInv
  /\ BalanceMatchesMovements /\ StockNeverNegative /\ DebtNeverNegative
  /\ RepeatedMeansPosted

-----------------------------------------------------------------------------
\* With no handler at work only the opening stock and debt have to be checked.
LEMMA InitInvariant == Init => IInv
<1> SUFFICES ASSUME Init PROVE IInv
  OBVIOUS
<1>1. TypeOK
  BY InitType
<1>2. \A h \in Handler : pc[h] = "idle" /\ reply[h] = "none" /\ locked[h] = {} /\ moved[h] = {}
  BY DEF Init
<1>3. KindInv /\ LockInv /\ MoveInv
  BY <1>2 DEF KindInv, KindAt, LockInv, LockAt, Holds, MoveInv, MoveAt
<1>4. ReadInv /\ ApartInv
  BY <1>2 DEF ReadInv, ReadAt, ActiveAt, EmptyAt, NewAt, CoveredAt, ApartInv, Apart, Charging
<1>5. RowInv /\ RepeatedMeansPosted
  BY <1>2 DEF RowInv, RepeatedMeansPosted, Posted, Existing, Init
<1>6. BalanceMatchesMovements /\ StockNeverNegative /\ DebtNeverNegative
  BY StockAssumption DEF Init, BalanceMatchesMovements, StockNeverNegative, DebtNeverNegative
<1> QED
  BY <1>1, <1>3, <1>4, <1>5, <1>6 DEF IInv

\* A step of h is a step of no other handler.
Frame(h) ==
  \A u \in Handler \ {h} :
    /\ pc'[u] = pc[u] /\ req'[u] = req[u] /\ reply'[u] = reply[u]
    /\ locked'[u] = locked[u] /\ moved'[u] = moved[u] /\ buf'[u] = buf[u]

\* The end of h is seen by no other handler.
LEMMA AnswerFrame ==
  ASSUME TypeOK, NEW h \in Handler, NEW a, Answer(h, a)
  PROVE  /\ Frame(h)
         /\ pc'[h] = "done" /\ reply'[h] = a /\ req'[h] = req[h]
         /\ locked'[h] = {} /\ moved'[h] = {}
BY DEF TypeOK, Answer, Goto, Release, Frame

\* A step of h to its next statement is seen by no other handler.
LEMMA ContinueFrame ==
  ASSUME TypeOK, NEW h \in Handler, NEW phase, Continue(h, phase), UNCHANGED session
  PROVE  /\ Frame(h)
         /\ pc'[h] = phase /\ reply'[h] = reply[h] /\ req'[h] = req[h]
         /\ locked'[h] = locked[h] /\ moved'[h] = moved[h] /\ buf'[h] = buf[h]
         /\ UNCHANGED rows
BY DEF TypeOK, Continue, Goto, Frame, session

\* A step of h that commits nothing keeps every part about other handlers.
LEMMA OthersKeep ==
  ASSUME IInv, NEW h \in Handler, Frame(h), UNCHANGED rows
  PROVE  /\ \A u \in Handler \ {h} :
              KindAt(req[u], pc[u])' /\ LockAt(u, pc[u])' /\ MoveAt(u)' /\ ReadAt(u, pc[u])'
         /\ \A u, v \in Handler \ {h} : u # v => Apart(u, pc[u], v)'
         /\ (BalanceMatchesMovements /\ StockNeverNegative /\ DebtNeverNegative)'
<1> SUFFICES ASSUME NEW u \in Handler \ {h}
             PROVE  /\ KindAt(req[u], pc[u])' /\ LockAt(u, pc[u])' /\ MoveAt(u)'
                    /\ ReadAt(u, pc[u])'
                    /\ \A v \in Handler \ {h} : u # v => Apart(u, pc[u], v)'
                    /\ (BalanceMatchesMovements /\ StockNeverNegative /\ DebtNeverNegative)'
  BY DEF IInv, rows, BalanceMatchesMovements, StockNeverNegative, DebtNeverNegative
<1>1. /\ pc'[u] = pc[u] /\ req'[u] = req[u] /\ reply'[u] = reply[u]
      /\ locked'[u] = locked[u] /\ moved'[u] = moved[u] /\ buf'[u] = buf[u]
  BY DEF Frame
<1>2. KindAt(req[u], pc[u])'
  BY <1>1 DEF IInv, KindInv, KindAt
<1>3. LockAt(u, pc[u])'
  BY <1>1 DEF IInv, LockInv, LockAt, Holds
<1>4. MoveAt(u)'
  <2>1. MoveAt(u)
    BY DEF IInv, MoveInv
  <2> QED
    BY <1>1, <2>1 DEF MoveAt, rows
<1>5. ReadAt(u, pc[u])'
  <2>1. ReadAt(u, pc[u])
    BY DEF IInv, ReadInv
  <2> QED
    BY <1>1, <2>1 DEF ReadAt, ActiveAt, EmptyAt, NewAt, CoveredAt, Existing, rows
<1>6. \A v \in Handler \ {h} : u # v => Apart(u, pc[u], v)'
  BY <1>1 DEF IInv, ApartInv, Apart, SameRow, Charging, Frame
<1>7. (BalanceMatchesMovements /\ StockNeverNegative /\ DebtNeverNegative)'
  BY DEF IInv, rows, BalanceMatchesMovements, StockNeverNegative, DebtNeverNegative
<1> QED
  BY <1>2, <1>3, <1>4, <1>5, <1>6, <1>7

\* A handler that has not ended posts nothing by a step that commits nothing, and
\* the rows keep their posted requests.
LEMMA RowsKeep ==
  ASSUME IInv, NEW h \in Handler, Frame(h), UNCHANGED rows, reply[h] = "none",
         reply'[h] # "ok"
  PROVE  RowInv' /\ \A u \in Handler : Posted(u)' <=> Posted(u)
<1>1. \A u \in Handler : /\ Posted(u)' <=> Posted(u)
                         /\ Posted(u) => req'[u] = req[u]
  BY DEF Frame, Posted
<1>2. \A r \in Request : Existing(r)' = Existing(r)
  BY DEF Existing, rows
<1>3. \A u \in Handler : Posted(u) /\ req[u].key \in Key => Existing(req[u])' = req'[u]
  BY <1>1 DEF IInv, RowInv, Existing, rows
<1>4. \A u, v \in Handler : u # v /\ Posted(u) /\ Posted(v) => ~SameRow(req[u], req[v])'
  BY <1>1 DEF IInv, RowInv, SameRow
<1>5. \A r \in Request :
        Existing(r)' # NoRequest => \E u \in Handler : Posted(u)' /\ req'[u] = Existing(r)'
  BY <1>1, <1>2 DEF IInv, RowInv
<1> QED
  BY <1>1, <1>3, <1>4, <1>5 DEF RowInv

\* A rollback.
LEMMA RefusePreserves ==
  ASSUME IInv, NEW h \in Handler, pc[h] \notin {"idle", "done"},
         NEW a \in Replies \ {"none", "ok"}, Refuse(h, a),
         a = "repeated" /\ req[h].kind \in OperationKinds =>
           \E u \in Handler : Posted(u) /\ req[u] = req[h]
  PROVE  IInv'
<1>1. TypeOK /\ req[h] \in Request /\ reply[h] = "none"
  BY DEF IInv, TypeOK
<1>2. TypeOK'
  BY <1>1, RefuseType
<1>3. /\ Frame(h) /\ UNCHANGED rows
      /\ pc'[h] = "done" /\ reply'[h] = a /\ req'[h] = req[h]
      /\ locked'[h] = {} /\ moved'[h] = {}
  BY <1>1, AnswerFrame DEF Refuse
<1>4. (KindInv /\ LockInv /\ MoveInv /\ ReadInv)'
  <2>1. KindAt(req[h], pc[h])' /\ LockAt(h, pc[h])' /\ MoveAt(h)' /\ ReadAt(h, pc[h])'
    BY <1>3 DEF KindAt, LockAt, MoveAt, Holds, ReadAt, ActiveAt, EmptyAt, NewAt, CoveredAt
  <2> QED
    BY <1>3, <2>1, OthersKeep DEF KindInv, LockInv, MoveInv, ReadInv
<1>5. ApartInv'
  <2>1. \A u \in Handler \ {h} : Apart(h, pc[h], u)' /\ Apart(u, pc[u], h)'
    BY <1>3 DEF Apart, Charging
  <2> QED
    BY <1>3, <2>1, OthersKeep DEF ApartInv
<1>6. RowInv' /\ \A u \in Handler : Posted(u)' <=> Posted(u)
  BY <1>1, <1>3, RowsKeep
<1>7. RepeatedMeansPosted'
  <2>1. \A u \in Handler : Posted(u) => req'[u] = req[u]
    BY <1>1, <1>3 DEF Posted, Frame
  <2> QED
    BY <1>3, <1>6, <2>1 DEF IInv, RepeatedMeansPosted, Frame
<1> QED
  BY <1>2, <1>3, <1>4, <1>5, <1>6, <1>7, OthersKeep DEF IInv

\* A step to the next statement, when what that statement relies on holds.
LEMMA ContinuePreserves ==
  ASSUME IInv, NEW h \in Handler, pc[h] \notin {"idle", "items", "done"},
         NEW phase \in Phases \ {"idle", "done"}, Continue(h, phase), UNCHANGED session,
         KindAt(req[h], phase), LockAt(h, phase), ReadAt(h, phase),
         \A u \in Handler \ {h} : Apart(h, phase, u)
  PROVE  IInv'
<1>1. TypeOK /\ req[h] \in Request /\ reply[h] = "none"
  BY DEF IInv, TypeOK
<1>2. TypeOK'
  BY <1>1, ContinueType, UnchangedSessionType
<1>3. /\ Frame(h) /\ UNCHANGED rows
      /\ pc'[h] = phase /\ reply'[h] = reply[h] /\ req'[h] = req[h]
      /\ locked'[h] = locked[h] /\ moved'[h] = moved[h] /\ buf'[h] = buf[h]
  BY <1>1, ContinueFrame
<1>4. (KindInv /\ LockInv /\ MoveInv /\ ReadInv)'
  <2>1. KindAt(req[h], pc[h])' /\ LockAt(h, pc[h])'
    BY <1>3 DEF KindAt, LockAt, Holds
  <2>2. MoveAt(h)'
    BY <1>3 DEF IInv, MoveInv, MoveAt
  <2>3. ReadAt(h, pc[h])'
    BY <1>3 DEF ReadAt, ActiveAt, EmptyAt, NewAt, CoveredAt, Existing, rows
  <2> QED
    BY <1>3, <2>1, <2>2, <2>3, OthersKeep DEF KindInv, LockInv, MoveInv, ReadInv
<1>5. ApartInv'
  <2>1. \A u \in Handler \ {h} : Apart(h, pc[h], u)' /\ Apart(u, pc[u], h)'
    BY <1>3 DEF Apart, Charging, SameRow, Frame
  <2> QED
    BY <1>3, <2>1, OthersKeep DEF ApartInv
<1>6. RowInv' /\ \A u \in Handler : Posted(u)' <=> Posted(u)
  BY <1>1, <1>3, RowsKeep
<1>7. RepeatedMeansPosted'
  <2>1. \A u \in Handler : reply'[u] = reply[u] /\ req'[u] = req[u]
    BY <1>3 DEF Frame
  <2> QED
    BY <1>6, <2>1 DEF IInv, RepeatedMeansPosted
<1> QED
  BY <1>2, <1>3, <1>4, <1>5, <1>6, <1>7, OthersKeep DEF IInv

-----------------------------------------------------------------------------
\* A request that arrives.
LEMMA ReceivePreserves ==
  ASSUME IInv, NEW h \in Handler, NEW r \in Request, Receive(h, r)
  PROVE  IInv'
<1>1. TypeOK /\ pc[h] = "idle" /\ reply[h] = "none"
  BY DEF IInv, TypeOK, Receive
<1>2. TypeOK'
  BY NextType DEF IInv, Next
<1>3. locked[h] = {} /\ moved[h] = {}
  BY <1>1 DEF IInv, LockInv, LockAt, Holds, MoveInv, MoveAt
<1>4. PICK phase \in {"locations", "lock", "stock"} :
        /\ pc' = [pc EXCEPT ![h] = phase]
        /\ phase = "locations" <=> r.kind \in OperationKinds
        /\ phase = "lock" <=> r.kind = "archive_product"
  BY DEF Receive, Goto, OperationKinds, DocumentKinds, TransferKinds
<1>5. /\ Frame(h) /\ UNCHANGED rows
      /\ pc'[h] = phase /\ req'[h] = r /\ reply'[h] = "none"
      /\ locked'[h] = {} /\ moved'[h] = {}
  BY <1>1, <1>3, <1>4 DEF Receive, Frame, TypeOK, session
<1>6. (KindInv /\ LockInv /\ MoveInv /\ ReadInv)'
  <2>1. KindAt(req[h], pc[h])'
    BY <1>4, <1>5, RequestType DEF KindAt, Acceptable, DocumentKinds, TransferKinds
  <2>2. LockAt(h, pc[h])' /\ MoveAt(h)' /\ ReadAt(h, pc[h])'
    BY <1>4, <1>5 DEF LockAt, MoveAt, Holds, ReadAt, ActiveAt, EmptyAt, NewAt, CoveredAt
  <2> QED
    BY <1>5, <2>1, <2>2, OthersKeep DEF KindInv, LockInv, MoveInv, ReadInv
<1>7. ApartInv'
  <2>1. \A u \in Handler \ {h} : Apart(h, pc[h], u)' /\ Apart(u, pc[u], h)'
    BY <1>5 DEF Apart, Charging
  <2> QED
    BY <1>5, <2>1, OthersKeep DEF ApartInv
<1>8. RowInv' /\ \A u \in Handler : Posted(u)' <=> Posted(u)
  BY <1>1, <1>5, RowsKeep
<1>9. RepeatedMeansPosted'
  <2>1. \A u \in Handler : reply'[u] = reply[u] /\ (reply[u] # "none" => req'[u] = req[u])
    BY <1>1, <1>5 DEF Frame
  <2> QED
    BY <1>8, <2>1 DEF IInv, RepeatedMeansPosted, Posted
<1> QED
  BY <1>2, <1>5, <1>6, <1>7, <1>8, <1>9, OthersKeep DEF IInv

\* The lock of one product row: no other handler has it.
LEMMA LockProductPreserves ==
  ASSUME IInv, NEW h \in Handler, LockProduct(h)
  PROVE  IInv'
<1> DEFINE p == NextToLock(h)
<1>1. TypeOK /\ pc[h] = "lock" /\ req[h] \in Request /\ reply[h] = "none"
  BY DEF IInv, TypeOK, LockProduct
<1>2. TypeOK'
  BY NextType DEF IInv, Next, Step
<1>3. p \in Wanted(req[h])
  <2>1. ToLock(h) \in SUBSET Product /\ ToLock(h) # {}
    BY WantedProducts DEF ToLock, LockProduct
  <2> QED
    BY <2>1, LeastIsMember DEF NextToLock, ToLock
<1>4. \A u \in Handler \ {h} : p \notin locked[u]
  BY DEF LockProduct, Blockers, WaitsFor, ProductHolders
<1>5. /\ Frame(h) /\ UNCHANGED rows
      /\ pc'[h] = "lock" /\ req'[h] = req[h] /\ reply'[h] = "none"
      /\ locked'[h] = locked[h] \cup {p} /\ moved'[h] = moved[h]
  BY <1>1 DEF LockProduct, Frame, TypeOK
<1>6. moved[h] = {}
  BY <1>1 DEF IInv, MoveInv, MoveAt
<1>7. (KindInv /\ LockInv /\ MoveInv /\ ReadInv)'
  <2>1. KindAt(req[h], pc[h])'
    BY <1>1, <1>5 DEF KindAt, IInv, KindInv
  <2>2. LockAt(h, pc[h])'
    BY <1>1, <1>3, <1>5 DEF IInv, LockInv, LockAt, Holds
  <2>3. MoveAt(h)' /\ ReadAt(h, pc[h])'
    BY <1>5, <1>6 DEF MoveAt, ReadAt, ActiveAt, EmptyAt, NewAt, CoveredAt
  <2> QED
    BY <1>5, <2>1, <2>2, <2>3, OthersKeep DEF KindInv, LockInv, MoveInv, ReadInv
<1>8. ApartInv'
  <2>1. \A u \in Handler \ {h} : Apart(h, pc[h], u) /\ Apart(u, pc[u], h)
    BY DEF IInv, ApartInv
  <2>2. \A u \in Handler \ {h} : Apart(h, pc[h], u)' /\ Apart(u, pc[u], h)'
    BY <1>4, <1>5, <2>1 DEF Apart, Charging, Frame
  <2> QED
    BY <1>5, <2>2, OthersKeep DEF ApartInv
<1>9. RowInv' /\ \A u \in Handler : Posted(u)' <=> Posted(u)
  BY <1>1, <1>5, RowsKeep
<1>10. RepeatedMeansPosted'
  <2>1. \A u \in Handler : reply'[u] = reply[u] /\ req'[u] = req[u]
    BY <1>1, <1>5 DEF Frame
  <2> QED
    BY <1>9, <2>1 DEF IInv, RepeatedMeansPosted
<1> QED
  BY <1>2, <1>5, <1>7, <1>8, <1>9, <1>10, OthersKeep DEF IInv

\* The flush of a row: its key is new and nobody else has it uncommitted, or the
\* transaction is rolled back.
LEMMA InsertRowPreserves ==
  ASSUME IInv, NEW h \in Handler, InsertRow(h)
  PROVE  IInv'
<1>1. TypeOK /\ pc[h] = "insert" /\ req[h] \in Request /\ reply[h] = "none"
  BY DEF IInv, TypeOK, InsertRow
<1>2. CASE Existing(req[h]) = NoRequest
  <2>1. Continue(h, "items") /\ UNCHANGED session
    BY <1>2 DEF InsertRow
  <2>2. KindAt(req[h], "items") /\ LockAt(h, "items") /\ ReadAt(h, "items")
    BY <1>1, <1>2 DEF IInv, KindInv, KindAt, LockInv, LockAt, Holds, ReadInv, ReadAt, ActiveAt,
                      EmptyAt, NewAt, CoveredAt
  <2>3. ASSUME NEW u \in Handler \ {h}
        PROVE  Apart(h, "items", u)
    <3>1. Apart(h, pc[h], u)
      BY DEF IInv, ApartInv
    <3>2. u \notin KeyHolders(req[h])
      BY <1>1 DEF InsertRow, Blockers, WaitsFor
    <3> QED
      BY <1>1, <3>1, <3>2 DEF Apart, Charging, SameRow, KeyHolders, IsHandover
  <2> QED
    BY <1>1, <2>1, <2>2, <2>3, ContinuePreserves DEF Phases
<1>3. CASE Existing(req[h]) # NoRequest
  <2>1. Continue(h, "reselect") /\ Release(h)
    BY <1>3 DEF InsertRow
  <2>2. TypeOK'
    BY NextType DEF IInv, Next, Step
  <2>3. /\ Frame(h) /\ UNCHANGED rows
        /\ pc'[h] = "reselect" /\ req'[h] = req[h] /\ reply'[h] = "none"
        /\ locked'[h] = {} /\ moved'[h] = {}
    BY <1>1, <2>1 DEF Continue, Goto, Release, Frame, TypeOK
  <2>4. (KindInv /\ LockInv /\ MoveInv /\ ReadInv)'
    <3>1. KindAt(req[h], pc[h])'
      BY <1>1, <2>3 DEF IInv, KindInv, KindAt
    <3>2. LockAt(h, pc[h])' /\ MoveAt(h)' /\ ReadAt(h, pc[h])'
      BY <2>3 DEF LockAt, MoveAt, Holds, ReadAt, ActiveAt, EmptyAt, NewAt, CoveredAt
    <3> QED
      BY <2>3, <3>1, <3>2, OthersKeep DEF KindInv, LockInv, MoveInv, ReadInv
  <2>5. ApartInv'
    <3>1. \A u \in Handler \ {h} : Apart(h, pc[h], u)' /\ Apart(u, pc[u], h)'
      BY <2>3 DEF Apart, Charging
    <3> QED
      BY <2>3, <3>1, OthersKeep DEF ApartInv
  <2>6. RowInv' /\ \A u \in Handler : Posted(u)' <=> Posted(u)
    BY <1>1, <2>3, RowsKeep
  <2>7. RepeatedMeansPosted'
    <3>1. \A u \in Handler : reply'[u] = reply[u] /\ req'[u] = req[u]
      BY <1>1, <2>3 DEF Frame
    <3> QED
      BY <2>6, <3>1 DEF IInv, RepeatedMeansPosted
  <2> QED
    BY <2>2, <2>3, <2>4, <2>5, <2>6, <2>7, OthersKeep DEF IInv
<1> QED
  BY <1>2, <1>3

\* One item of the loop: its balances are committed balances plus its movement.
LEMMA MoveItemPreserves ==
  ASSUME IInv, NEW h \in Handler, MoveItem(h)
  PROVE  IInv'
<1> DEFINE p == NextToMove(h)
<1>1. TypeOK /\ pc[h] = "items" /\ req[h] \in Request /\ reply[h] = "none"
  BY DEF IInv, TypeOK, MoveItem
<1>2. CASE Short(req[h], p)
  <2>1. Refuse(h, "conflict")
    BY <1>2 DEF MoveItem
  <2> QED
    BY <1>1, <2>1, RefusePreserves DEF Replies
<1>3. CASE ~Short(req[h], p)
  <2>1. TypeOK'
    BY NextType DEF IInv, Next, Step
  <2>2. p \in Wanted(req[h]) /\ p \in Product
    <3>1. ToMove(h) \in SUBSET Product /\ ToMove(h) # {}
      BY WantedProducts DEF ToMove, MoveItem
    <3> QED
      BY <3>1, LeastIsMember DEF NextToMove, ToMove
  <2>3. /\ moved' = [moved EXCEPT ![h] = @ \cup {p}]
        /\ buf' = [buf EXCEPT ![h] = [l \in Location |->
             IF l \in Places(req[h]) THEN [buf[h][l] EXCEPT ![p] = After(req[h], l, p)]
             ELSE buf[h][l]]]
        /\ UNCHANGED <<rows, pc, req, reply, locked>>
    BY <1>3 DEF MoveItem
  <2>4. /\ Frame(h) /\ UNCHANGED rows
        /\ pc'[h] = "items" /\ req'[h] = req[h] /\ reply'[h] = "none"
        /\ locked'[h] = locked[h] /\ moved'[h] = moved[h] \cup {p}
    BY <1>1, <2>3 DEF Frame, TypeOK
  <2>5. \A l \in Location : After(req[h], l, p) \in Int
    BY <1>1, <2>2, AfterType
  <2>6. \A l \in Location, q \in Product :
          l \in Places(req[h]) =>
            buf'[h][l][q] = IF q = p THEN After(req[h], l, p) ELSE buf[h][l][q]
    BY <1>1, <2>2, <2>3, <2>5 DEF TypeOK
  <2>7. MoveAt(h)'
    <3>1. MoveAt(h)
      BY DEF IInv, MoveInv
    <3>2. moved'[h] \subseteq Wanted(req[h])
      BY <1>1, <2>2, <2>4, <3>1 DEF MoveAt
    <3>3. ASSUME NEW q \in moved'[h], NEW l \in Location, l \in Places(req[h])
          PROVE  /\ buf'[h][l][q] = balance[l][q] + Delta(req[h], l, q)
                 /\ buf'[h][l][q] >= 0
      <4>1. q \in Product
        BY <3>2, WantedProducts
      <4>2. CASE q = p
        BY <1>3, <2>2, <2>5, <2>6, <3>3, <4>2 DEF Short, After
      <4>3. CASE q # p
        BY <2>4, <2>6, <3>1, <3>3, <4>1, <4>3 DEF MoveAt
      <4> QED
        BY <4>2, <4>3
    <3> QED
      BY <2>4, <3>2, <3>3 DEF MoveAt, rows
  <2>8. (KindInv /\ LockInv /\ MoveInv /\ ReadInv)'
    <3>1. KindAt(req[h], pc[h])' /\ LockAt(h, pc[h])'
      BY <1>1, <2>4 DEF IInv, KindInv, KindAt, LockInv, LockAt, Holds
    <3>2. ReadAt(h, pc[h])'
      BY <1>1, <2>4 DEF IInv, ReadInv, ReadAt, ActiveAt, EmptyAt, NewAt, CoveredAt, Existing, rows
    <3> QED
      BY <2>4, <2>7, <3>1, <3>2, OthersKeep DEF KindInv, LockInv, MoveInv, ReadInv
  <2>9. ApartInv'
    <3>1. \A u \in Handler \ {h} : Apart(h, pc[h], u) /\ Apart(u, pc[u], h)
      BY DEF IInv, ApartInv
    <3>2. \A u \in Handler \ {h} : Apart(h, pc[h], u)' /\ Apart(u, pc[u], h)'
      BY <1>1, <2>4, <3>1 DEF Apart, Charging, SameRow, Frame
    <3> QED
      BY <2>4, <3>2, OthersKeep DEF ApartInv
  <2>10. RowInv' /\ \A u \in Handler : Posted(u)' <=> Posted(u)
    BY <1>1, <2>4, RowsKeep
  <2>11. RepeatedMeansPosted'
    <3>1. \A u \in Handler : reply'[u] = reply[u] /\ req'[u] = req[u]
      BY <1>1, <2>4 DEF Frame
    <3> QED
      BY <2>10, <3>1 DEF IInv, RepeatedMeansPosted
  <2> QED
    BY <2>1, <2>4, <2>8, <2>9, <2>10, <2>11, OthersKeep DEF IInv
<1> QED
  BY <1>2, <1>3

\* The archive flag changes only for products no document is posting.
LEMMA UpdateActivePreserves ==
  ASSUME IInv, NEW h \in Handler, UpdateActive(h)
  PROVE  IInv'
<1>1. TypeOK /\ pc[h] = "update" /\ req[h] \in Request /\ reply[h] = "none"
  BY DEF IInv, TypeOK, UpdateActive
<1>2. TypeOK'
  BY NextType DEF IInv, Next, Step
<1>3. /\ product_active' = [p \in Product |->
           IF p \in Wanted(req[h]) THEN req[h].active ELSE product_active[p]]
      /\ UNCHANGED <<balance, journal, debt, document, handover>>
      /\ Answer(h, "ok")
  BY DEF UpdateActive
<1>4. /\ Frame(h)
      /\ pc'[h] = "done" /\ reply'[h] = "ok" /\ req'[h] = req[h]
      /\ locked'[h] = {} /\ moved'[h] = {}
  BY <1>1, <1>3, AnswerFrame
<1>5. req[h].kind \notin OperationKinds
  BY <1>1 DEF IInv, KindInv, KindAt, ArchiveKinds, OperationKinds, DocumentKinds, TransferKinds
<1>6. \A r \in Request : Existing(r)' = Existing(r)
  BY <1>3 DEF Existing
<1>7. \A u \in Handler \ {h} : KindAt(req[u], pc[u])' /\ LockAt(u, pc[u])' /\ MoveAt(u)'
  BY <1>3, <1>4 DEF IInv, KindInv, KindAt, LockInv, LockAt, Holds, MoveInv, MoveAt, Frame
<1>8. ASSUME NEW u \in Handler \ {h}
      PROVE  ReadAt(u, pc[u])'
  <2>1. pc'[u] = pc[u] /\ req'[u] = req[u] /\ (pc[u] # "idle" => req[u] \in Request)
    BY <1>1, <1>4 DEF Frame, TypeOK
  <2>2. ReadAt(u, pc[u])
    BY DEF IInv, ReadInv
  <2>3. ASSUME pc[u] \in {"insert", "items"}, NEW p \in Wanted(req[u])
        PROVE  product_active'[p]
    <3>1. p \in locked[u]
      BY <2>3 DEF IInv, LockInv, LockAt, Holds
    <3>2. p \notin Wanted(req[h])
      BY <1>1, <3>1 DEF UpdateActive, Blockers, WaitsFor, ProductHolders
    <3> QED
      BY <1>3, <2>2, <2>3, <3>2, WantedProducts DEF ReadAt, ActiveAt
  <2> QED
    BY <1>3, <1>6, <2>1, <2>2, <2>3 DEF ReadAt, ActiveAt, EmptyAt, NewAt, CoveredAt
<1>9. (KindInv /\ LockInv /\ MoveInv /\ ReadInv)'
  <2>1. /\ KindAt(req[h], pc[h])' /\ LockAt(h, pc[h])' /\ MoveAt(h)' /\ ReadAt(h, pc[h])'
    BY <1>4 DEF KindAt, LockAt, MoveAt, Holds, ReadAt, ActiveAt, EmptyAt, NewAt, CoveredAt
  <2> QED
    BY <1>7, <1>8, <2>1 DEF KindInv, LockInv, MoveInv, ReadInv
<1>10. ApartInv'
  <2>1. \A u, v \in Handler : u # v => Apart(u, pc[u], v)
    BY DEF IInv, ApartInv
  <2> QED
    BY <1>4, <2>1 DEF ApartInv, Apart, Charging, SameRow, Frame
<1>11. \A u \in Handler : /\ Posted(u)' <=> Posted(u)
                          /\ req'[u] = req[u]
  BY <1>1, <1>4, <1>5 DEF Frame, Posted
<1>12. RowInv'
  <2>1. \A u \in Handler : Posted(u) /\ req[u].key \in Key => Existing(req[u])' = req'[u]
    BY <1>3, <1>11 DEF IInv, RowInv, Existing
  <2>2. \A u, v \in Handler : u # v /\ Posted(u) /\ Posted(v) => ~SameRow(req[u], req[v])'
    BY <1>11 DEF IInv, RowInv, SameRow
  <2>3. \A r \in Request :
          Existing(r)' # NoRequest => \E u \in Handler : Posted(u)' /\ req'[u] = Existing(r)'
    BY <1>6, <1>11 DEF IInv, RowInv
  <2> QED
    BY <1>11, <2>1, <2>2, <2>3 DEF RowInv
<1>13. RepeatedMeansPosted'
  <2>1. \A u \in Handler : reply'[u] = "repeated" => reply[u] = "repeated"
    BY <1>4 DEF Frame
  <2> QED
    BY <1>11, <2>1 DEF IInv, RepeatedMeansPosted
<1>14. (BalanceMatchesMovements /\ StockNeverNegative /\ DebtNeverNegative)'
  BY <1>3 DEF IInv, BalanceMatchesMovements, StockNeverNegative, DebtNeverNegative
<1> QED
  BY <1>2, <1>9, <1>10, <1>12, <1>13, <1>14 DEF IInv

\* A commit writes the balances as they were when the products were locked plus
\* the movements of its own document: the read-modify-write loops lose nothing.
LEMMA WrittenIsMoved ==
  ASSUME IInv, NEW h \in Handler, Commit(h), NEW l \in Location, NEW p \in Product
  PROVE  /\ balance'[l][p] = balance[l][p] + Delta(req[h], l, p)
         /\ balance'[l][p] >= 0
<1>1. TypeOK /\ pc[h] = "items" /\ req[h] \in Request /\ MoveAt(h) /\ balance[l][p] \in Int
  BY DEF IInv, TypeOK, MoveInv, Commit
<1>2. moved[h] = Wanted(req[h])
  BY <1>1 DEF Commit, ToMove, MoveAt
<1>3. balance'[l][p] = IF l \in Places(req[h]) /\ p \in moved[h] THEN buf[h][l][p] ELSE balance[l][p]
  BY DEF Commit, Written
<1>4. CASE l \in Places(req[h]) /\ p \in moved[h]
  BY <1>1, <1>3, <1>4 DEF MoveAt
<1>5. CASE ~(l \in Places(req[h]) /\ p \in moved[h])
  <2>1. Delta(req[h], l, p) = 0
    BY <1>1, <1>2, <1>5, DeltaType
  <2>2. balance[l][p] >= 0
    BY DEF IInv, StockNeverNegative
  <2> QED
    BY <1>1, <1>3, <1>5, <2>1, <2>2
<1> QED
  BY <1>4, <1>5

\* The money row of a committed request leaves every debt covered, and any debt a
\* handover of another representative relies on where it was or higher.
LEMMA ChargedIsCovered ==
  ASSUME IInv, NEW h \in Handler, Commit(h), NEW l \in Location
  PROVE  /\ debt'[l] \in Int /\ debt'[l] >= 0
         /\ debt'[l] < debt[l] => l = req[h].source /\ req[h].kind = "CASH_HANDOVER"
<1>1. TypeOK /\ pc[h] = "items" /\ req[h] \in Request /\ debt[l] \in Int /\ debt[l] >= 0
  BY DEF IInv, TypeOK, DebtNeverNegative, Commit
<1>2. CoveredAt(h, "items")
  BY <1>1 DEF IInv, ReadInv, ReadAt
<1>3. req[h].amount \in Nat
  BY <1>1, RequestType
<1>4. debt'[l] = debt[l] + MoneyDelta(req[h], l)
  BY DEF Commit, Charged
<1>5. CASE l = req[h].source /\ req[h].kind = "CASH_HANDOVER"
  <2>1. MoneyDelta(req[h], l) = -req[h].amount /\ req[h].amount <= debt[l]
    BY <1>2, <1>5 DEF MoneyDelta, CoveredAt
  <2> QED
    BY <1>1, <1>3, <1>4, <1>5, <2>1
<1>6. CASE ~(l = req[h].source /\ req[h].kind = "CASH_HANDOVER")
  <2>1. MoneyDelta(req[h], l) \in Nat
    BY <1>3, <1>6 DEF MoneyDelta
  <2> QED
    BY <1>1, <1>4, <2>1
<1> QED
  BY <1>5, <1>6

\* A committed row takes its own key and no other.
LEMMA CommittedRow ==
  ASSUME IInv, NEW h \in Handler, Commit(h), NEW r \in Request
  PROVE  Existing(r)' = IF SameRow(r, req[h]) THEN req[h] ELSE Existing(r)
<1>1. document \in [Key -> Request \cup {NoRequest}] /\ handover \in [Key -> Request \cup {NoRequest}]
  BY DEF IInv, TypeOK
<1>2. /\ document' = IF req[h].kind = "CASH_HANDOVER" THEN document
                     ELSE [k \in Key |-> IF k = req[h].key THEN req[h] ELSE document[k]]
      /\ handover' = IF req[h].kind = "CASH_HANDOVER"
                     THEN [k \in Key |-> IF k = req[h].key THEN req[h] ELSE handover[k]]
                     ELSE handover
  BY DEF Commit, IsHandover
<1> QED
  BY <1>1, <1>2 DEF Existing, SameRow

\* A commit keeps what the other handlers have read: they hold other products, other
\* keys and other representatives.
LEMMA CommitPreserves ==
  ASSUME IInv, NEW h \in Handler, Commit(h)
  PROVE  IInv'
<1>1. TypeOK /\ pc[h] = "items" /\ req[h] \in Request /\ reply[h] = "none"
  BY DEF IInv, TypeOK, Commit
<1>2. TypeOK'
  BY NextType DEF IInv, Next, Step
<1>3. /\ Frame(h)
      /\ pc'[h] = "done" /\ reply'[h] = "ok" /\ req'[h] = req[h]
      /\ locked'[h] = {} /\ moved'[h] = {}
  BY <1>1, AnswerFrame DEF Commit
<1>4. /\ \A l \in Location, p \in Product :
           balance'[l][p] = balance[l][p] + Delta(req[h], l, p)
      /\ UNCHANGED product_active
  BY WrittenIsMoved DEF Commit
<1>5. req[h].kind \in OperationKinds /\ Existing(req[h]) = NoRequest /\ Posted(h)'
  BY <1>1, <1>3 DEF IInv, KindInv, KindAt, ReadInv, ReadAt, NewAt, Posted
<1>6. \A u, v \in Handler : u # v => Apart(u, pc[u], v)
  BY DEF IInv, ApartInv
<1>7. ASSUME NEW u \in Handler \ {h}
      PROVE  KindAt(req[u], pc[u])' /\ LockAt(u, pc[u])' /\ MoveAt(u)' /\ ReadAt(u, pc[u])'
  <2>1. /\ pc'[u] = pc[u] /\ req'[u] = req[u]
        /\ locked'[u] = locked[u] /\ moved'[u] = moved[u] /\ buf'[u] = buf[u]
        /\ (pc[u] # "idle" => req[u] \in Request)
    BY <1>1, <1>3 DEF Frame, TypeOK
  <2>2. KindAt(req[u], pc[u])' /\ LockAt(u, pc[u])'
    BY <2>1 DEF IInv, KindInv, KindAt, LockInv, LockAt, Holds
  <2>3. ASSUME NEW p \in Product, p \in locked[u], NEW l \in Location
        PROVE  balance'[l][p] = balance[l][p]
    <3>1. p \notin Wanted(req[h])
      BY <1>1, <1>6, <2>3 DEF IInv, LockInv, LockAt, Holds, Apart
    <3>2. balance[l][p] \in Int
      BY <1>1 DEF TypeOK
    <3> QED
      BY <1>1, <1>4, <3>1, <3>2, DeltaType
  <2>4. MoveAt(u)'
    <3>1. MoveAt(u) /\ (pc[u] = "items" => moved[u] \subseteq locked[u])
      BY DEF IInv, MoveInv, MoveAt, LockInv, LockAt, Holds
    <3>2. moved[u] \subseteq Product
      BY <1>1 DEF TypeOK
    <3>3. \A p \in moved[u], l \in Location : balance'[l][p] = balance[l][p]
      BY <2>3, <3>1, <3>2 DEF MoveAt
    <3> QED
      BY <2>1, <3>1, <3>3 DEF MoveAt
  <2>5. ReadAt(u, pc[u])
    BY DEF IInv, ReadInv
  <2>6. ActiveAt(u, pc[u])'
    BY <1>4, <2>1, <2>5 DEF ReadAt, ActiveAt
  <2>7. EmptyAt(u, pc[u])'
    <3>1. pc[u] = "update" /\ req[u].kind = "archive_product" => locked[u] = Wanted(req[u])
      BY DEF IInv, LockInv, LockAt, Holds
    <3> QED
      BY <2>1, <2>3, <2>5, <3>1, WantedProducts DEF ReadAt, EmptyAt
  <2>8. NewAt(u, pc[u])'
    <3>1. pc[u] = "items" => ~SameRow(req[u], req[h])
      BY <1>1, <1>6 DEF Apart
    <3>2. pc[u] = "items" => Existing(req[u])' = Existing(req[u])
      <4>1. \A r \in Request : ~SameRow(r, req[h]) => Existing(r)' = Existing(r)
        BY CommittedRow
      <4> QED
        BY <2>1, <3>1, <4>1 DEF Existing
    <3> QED
      BY <2>1, <2>5, <3>2 DEF ReadAt, NewAt, Existing
  <2>9. CoveredAt(u, pc[u])'
    <3> SUFFICES ASSUME pc[u] \in {"insert", "items"}, req[u].kind = "CASH_HANDOVER"
                 PROVE  req[u].amount <= debt'[req[u].source]
      BY <2>1 DEF CoveredAt
    <3>1. req[u].source \in Location /\ req[u].amount \in Nat
      <4>1. WellFormed(req[u])
        BY <2>1, StockAssumption
      <4> QED
        BY <2>1, <4>1, RequestType DEF WellFormed
    <3>2. req[u].amount <= debt[req[u].source]
      BY <2>5 DEF ReadAt, CoveredAt
    <3>3. ~(req[h].kind = "CASH_HANDOVER" /\ req[h].source = req[u].source)
      BY <1>1, <1>6 DEF Apart, Charging
    <3>4. debt[req[u].source] \in Int /\ debt'[req[u].source] \in Int
      BY <1>1, <1>2, <3>1 DEF TypeOK
    <3>5. ~(debt'[req[u].source] < debt[req[u].source])
      BY <3>1, <3>3, ChargedIsCovered
    <3> QED
      BY <3>1, <3>2, <3>4, <3>5
  <2> QED
    BY <2>2, <2>4, <2>6, <2>7, <2>8, <2>9 DEF ReadAt
<1>8. (KindInv /\ LockInv /\ MoveInv /\ ReadInv)'
  <2>1. KindAt(req[h], pc[h])' /\ LockAt(h, pc[h])' /\ MoveAt(h)' /\ ReadAt(h, pc[h])'
    BY <1>3 DEF KindAt, LockAt, MoveAt, Holds, ReadAt, ActiveAt, EmptyAt, NewAt, CoveredAt
  <2> QED
    BY <1>7, <2>1 DEF KindInv, LockInv, MoveInv, ReadInv
<1>9. ApartInv'
  BY <1>3, <1>6 DEF ApartInv, Apart, Charging, SameRow, Frame
<1>10. \A u \in Handler \ {h} : /\ Posted(u)' <=> Posted(u)
                                /\ req'[u] = req[u] /\ reply'[u] = reply[u]
  BY <1>3 DEF Frame, Posted
<1>11. \A u \in Handler \ {h} : Posted(u) => ~SameRow(req[u], req[h])
  <2> SUFFICES ASSUME NEW u \in Handler \ {h}, Posted(u), SameRow(req[u], req[h])
               PROVE  FALSE
    OBVIOUS
  <2>1. Existing(req[u]) = req[u]
    BY DEF IInv, RowInv, SameRow
  <2>2. Existing(req[u]) = Existing(req[h])
    BY DEF Existing, SameRow
  <2>3. req[u] # NoRequest
    <3>1. pc[u] # "idle"
      BY <1>1 DEF TypeOK, Posted
    <3> QED
      BY <1>1, <3>1, RequestType DEF TypeOK
  <2> QED
    BY <1>5, <2>1, <2>2, <2>3
<1>12. RowInv'
  <2>1. ASSUME NEW u \in Handler, Posted(u)', req'[u].key \in Key
        PROVE  Existing(req[u])' = req'[u]
    <3>1. req'[u] = req[u] /\ req[u] \in Request
      BY <1>1, <1>2, <1>3, <1>10, <2>1 DEF TypeOK, Posted
    <3>2. \A r \in Request :
            Existing(r)' = IF SameRow(r, req[h]) THEN req[h] ELSE Existing(r)
      BY CommittedRow
    <3>3. Existing(req[u])' = IF SameRow(req[u], req[h]) THEN req[h] ELSE Existing(req[u])
      BY <3>1, <3>2 DEF Existing
    <3>4. CASE u = h
      BY <2>1, <3>1, <3>3, <3>4 DEF SameRow
    <3>5. CASE u # h
      BY <1>10, <1>11, <2>1, <3>1, <3>3, <3>5 DEF IInv, RowInv
    <3> QED
      BY <3>4, <3>5
  <2>2. \A u, v \in Handler : u # v /\ Posted(u)' /\ Posted(v)' => ~SameRow(req[u], req[v])'
    <3>1. \A u \in Handler : req'[u] = req[u]
      BY <1>3, <1>10
    <3>2. \A u, v \in Handler : u # v /\ Posted(u)' /\ Posted(v)' => ~SameRow(req[u], req[v])
      BY <1>10, <1>11 DEF IInv, RowInv, SameRow
    <3> QED
      BY <3>1, <3>2 DEF SameRow
  <2>3. ASSUME NEW r \in Request, Existing(r)' # NoRequest
        PROVE  \E u \in Handler : Posted(u)' /\ req'[u] = Existing(r)'
    BY <1>3, <1>5, <1>10, <2>3, CommittedRow DEF IInv, RowInv
  <2> QED
    BY <2>1, <2>2, <2>3 DEF RowInv
<1>13. RepeatedMeansPosted'
  <2>1. \A u \in Handler : Posted(u) => Posted(u)' /\ req'[u] = req[u]
    BY <1>1, <1>10 DEF Posted
  <2>2. \A u \in Handler : reply'[u] = "repeated" => reply[u] = "repeated" /\ req'[u] = req[u]
    BY <1>3, <1>10
  <2> QED
    BY <2>1, <2>2 DEF IInv, RepeatedMeansPosted
<1>14. (BalanceMatchesMovements /\ StockNeverNegative /\ DebtNeverNegative)'
  <2>1. StockNeverNegative' /\ DebtNeverNegative'
    BY WrittenIsMoved, ChargedIsCovered DEF StockNeverNegative, DebtNeverNegative
  <2>2. \A l \in Location, p \in Product : balance'[l][p] = journal'[l][p]
    BY <1>4 DEF Commit, IInv, BalanceMatchesMovements
  <2>3. balance' = journal'
    BY <1>2, <2>2 DEF TypeOK
  <2> QED
    BY <2>1, <2>3 DEF BalanceMatchesMovements
<1> QED
  BY <1>2, <1>8, <1>9, <1>12, <1>13, <1>14 DEF IInv

-----------------------------------------------------------------------------
\* A known key is answered "repeated" only after its request was posted.
LEMMA KeyAnswerPreserves ==
  ASSUME IInv, NEW h \in Handler, pc[h] \notin {"idle", "done"}, Refuse(h, KeyAnswer(req[h]))
  PROVE  IInv'
<1>1. req[h] \in Request
  BY DEF IInv, TypeOK
<1>2. KeyAnswer(req[h]) = "repeated" => \E u \in Handler : Posted(u) /\ req[u] = req[h]
  BY <1>1, RequestType DEF KeyAnswer, IInv, RowInv
<1>3. KeyAnswer(req[h]) \in Replies \ {"none", "ok"}
  BY DEF KeyAnswer, Replies
<1> QED
  BY <1>2, <1>3, RefusePreserves

\* Every step keeps the invariant.
LEMMA NextInvariant == IInv /\ [Next]_vars => IInv'
<1>1. ASSUME IInv, UNCHANGED vars
      PROVE  IInv'
  <2>1. /\ UNCHANGED <<balance, journal, debt, document, handover, product_active>>
        /\ UNCHANGED <<location_active, pc, req, reply, locked, moved, buf>>
    BY <1>1 DEF vars, rows, session
  <2>2. TypeOK'
    BY <1>1, NextType DEF IInv
  <2>3. KindInv' /\ LockInv' /\ MoveInv'
    BY <1>1, <2>1 DEF IInv, KindInv, KindAt, LockInv, LockAt, Holds, MoveInv, MoveAt
  <2>4. ReadInv'
    BY <1>1, <2>1 DEF IInv, ReadInv, ReadAt, ActiveAt, EmptyAt, NewAt, CoveredAt, Existing
  <2>5. ApartInv'
    BY <1>1, <2>1 DEF IInv, ApartInv, Apart, SameRow, Charging
  <2>6. RowInv' /\ RepeatedMeansPosted'
    BY <1>1, <2>1 DEF IInv, RowInv, SameRow, Posted, Existing, RepeatedMeansPosted
  <2>7. (BalanceMatchesMovements /\ StockNeverNegative /\ DebtNeverNegative)'
    BY <1>1, <2>1 DEF IInv, BalanceMatchesMovements, StockNeverNegative, DebtNeverNegative
  <2> QED
    BY <2>2, <2>3, <2>4, <2>5, <2>6, <2>7 DEF IInv
<1>2. ASSUME IInv, NEW h \in Handler, Step(h) \/ Crash(h)
      PROVE  IInv'
  <2>1. pc[h] \notin {"idle", "done"}
    BY <1>2 DEF Step, Crash, CheckLocations, Lookup, LockProduct, CheckProducts, InsertRow,
                Reselect, MoveItem, Commit, LockRepresentative, CheckDebt, ReadStock, UpdateActive
  <2>2. /\ req[h] \in Request
        /\ KindAt(req[h], pc[h]) /\ LockAt(h, pc[h]) /\ ReadAt(h, pc[h])
        /\ \A u \in Handler \ {h} : Apart(h, pc[h], u)
    BY <1>2, <2>1 DEF IInv, TypeOK, KindInv, LockInv, ReadInv, ApartInv
  <2>3. ASSUME NEW a \in {"conflict", "invalid", "lost"}, Refuse(h, a)
        PROVE  IInv'
    BY <1>2, <2>1, <2>3, RefusePreserves DEF Replies
  <2>4. ASSUME NEW phase \in Phases \ {"idle", "done"}, Continue(h, phase), UNCHANGED session,
               pc[h] # "items", KindAt(req[h], phase), LockAt(h, phase), ReadAt(h, phase),
               \A u \in Handler \ {h} : Apart(h, phase, u)
        PROVE  IInv'
    BY <1>2, <2>1, <2>4, ContinuePreserves
  <2>5. CASE CheckLocations(h)
    <3>1. CASE Acceptable(req[h]) /\ Continue(h, "lookup") /\ UNCHANGED session
      <4>1. /\ KindAt(req[h], "lookup") /\ LockAt(h, "lookup") /\ ReadAt(h, "lookup")
            /\ \A u \in Handler \ {h} : Apart(h, "lookup", u)
        BY <2>2, <2>5, <3>1 DEF CheckLocations, KindAt, LockAt, Holds, ReadAt, ActiveAt, EmptyAt, NewAt,
                          CoveredAt, Apart, Charging
      <4> QED
        BY <2>4, <2>5, <3>1, <4>1 DEF CheckLocations, Phases
    <3> QED
      BY <2>3, <2>5, <3>1 DEF CheckLocations
  <2>6. CASE Lookup(h)
    <3>1. CASE Existing(req[h]) # NoRequest
      BY <1>2, <2>1, <2>6, <3>1, KeyAnswerPreserves DEF Lookup
    <3>2. CASE Existing(req[h]) = NoRequest
      <4>1. PICK phase \in {"representative", "lock"} :
              /\ Continue(h, phase) /\ UNCHANGED session
              /\ phase = "representative" <=> req[h].kind = "CASH_HANDOVER"
        BY <2>6, <3>2 DEF Lookup, IsHandover
      <4>2. /\ KindAt(req[h], phase) /\ LockAt(h, phase) /\ ReadAt(h, phase)
            /\ \A u \in Handler \ {h} : Apart(h, phase, u)
        BY <2>2, <2>6, <4>1 DEF Lookup, KindAt, OperationKinds, LockAt, Holds, ReadAt, ActiveAt,
                                EmptyAt, NewAt, CoveredAt, Apart, Charging
      <4> QED
        BY <2>4, <2>6, <4>1, <4>2 DEF Lookup, Phases
    <3> QED
      BY <3>1, <3>2
  <2>7. CASE LockProduct(h)
    BY <1>2, <2>7, LockProductPreserves
  <2>8. CASE CheckProducts(h)
    <3>1. CASE FindsArchived(h)
      <4>1. PICK a \in {"repeated", "conflict"} :
              /\ Refuse(h, a)
              /\ a = "repeated" => req[h].kind = "archive_product"
        BY <2>8, <3>1 DEF CheckProducts
      <4>2. "archive_product" \notin OperationKinds
        BY DEF OperationKinds, DocumentKinds, TransferKinds
      <4> QED
        BY <1>2, <2>1, <4>1, <4>2, RefusePreserves DEF Replies
    <3>2. CASE ~FindsArchived(h)
      <4>1. PICK phase \in {"stock", "insert"} :
              /\ Continue(h, phase) /\ UNCHANGED session
              /\ phase = "stock" <=> req[h].kind = "archive_product"
        BY <2>8, <3>2 DEF CheckProducts
      <4>2. KindAt(req[h], phase)
        BY <2>2, <2>8, <4>1 DEF CheckProducts, KindAt, OperationKinds, ArchiveKinds
      <4>3. LockAt(h, phase)
        BY <2>2, <2>8, <4>1 DEF CheckProducts, ToLock, LockAt, Holds
      <4>4. ReadAt(h, phase)
        <5>1. phase = "insert" => req[h].kind # "CASH_HANDOVER"
          BY <2>2, <2>8, <4>1 DEF CheckProducts, KindAt, DocumentKinds, TransferKinds
        <5> QED
          BY <3>2, <4>1, <5>1 DEF FindsArchived, ReadAt, ActiveAt, EmptyAt, NewAt, CoveredAt
      <4>5. \A u \in Handler \ {h} : Apart(h, phase, u)
        <5>1. phase = "insert" => req[h].kind # "CASH_HANDOVER"
          BY <2>2, <2>8, <4>1 DEF CheckProducts, KindAt, DocumentKinds, TransferKinds
        <5> QED
          BY <2>2, <4>1, <5>1 DEF Apart, Charging
      <4> QED
        BY <2>4, <2>8, <4>1, <4>2, <4>3, <4>4, <4>5 DEF CheckProducts, Phases
    <3> QED
      BY <3>1, <3>2
  <2>9. CASE InsertRow(h)
    BY <1>2, <2>9, InsertRowPreserves
  <2>10. CASE Reselect(h)
    BY <1>2, <2>1, <2>10, KeyAnswerPreserves DEF Reselect
  <2>11. CASE MoveItem(h)
    BY <1>2, <2>11, MoveItemPreserves
  <2>12. CASE Commit(h)
    BY <1>2, <2>12, CommitPreserves
  <2>13. CASE LockRepresentative(h)
    <3>1. pc[h] = "representative" /\ Continue(h, "debt") /\ UNCHANGED session
      BY <2>13 DEF LockRepresentative
    <3>2. KindAt(req[h], "debt") /\ LockAt(h, "debt") /\ ReadAt(h, "debt")
      BY <2>2, <3>1 DEF KindAt, LockAt, Holds, ReadAt, ActiveAt, EmptyAt, NewAt, CoveredAt
    <3>3. \A u \in Handler \ {h} : Apart(h, "debt", u)
      <4>1. \A u \in Handler \ {h} : u \notin LocationHolders(req[h].source)
        BY <2>13, <3>1 DEF LockRepresentative, Blockers, WaitsFor
      <4> QED
        BY <2>2, <3>1, <4>1 DEF Apart, Charging, LocationHolders, IsHandover
    <3> QED
      BY <2>4, <3>1, <3>2, <3>3 DEF Phases
  <2>14. CASE CheckDebt(h)
    <3>1. CASE req[h].amount > debt[req[h].source]
      BY <2>3, <2>14, <3>1 DEF CheckDebt
    <3>2. CASE ~(req[h].amount > debt[req[h].source])
      <4>1. pc[h] = "debt" /\ Continue(h, "insert") /\ UNCHANGED session
        BY <2>14, <3>2 DEF CheckDebt
      <4>2. req[h].kind = "CASH_HANDOVER" /\ Wanted(req[h]) = {}
        BY <2>2, <4>1, NothingWanted DEF KindAt
      <4>3. KindAt(req[h], "insert") /\ LockAt(h, "insert")
        BY <2>2, <4>1, <4>2 DEF KindAt, OperationKinds, Acceptable, DocumentKinds, TransferKinds,
                                LockAt, Holds
      <4>4. req[h].amount <= debt[req[h].source]
        <5>1. WellFormed(req[h])
          BY <2>2, StockAssumption
        <5>2. req[h].amount \in Int /\ debt[req[h].source] \in Int
          BY <1>2, <2>2, <4>2, <5>1, RequestType DEF WellFormed, IInv, TypeOK
        <5> QED
          BY <3>2, <5>2
      <4>5. ReadAt(h, "insert")
        BY <4>2, <4>4 DEF ReadAt, ActiveAt, EmptyAt, NewAt, CoveredAt
      <4>6. \A u \in Handler \ {h} : Apart(h, "insert", u)
        BY <2>2, <4>1 DEF Apart, Charging
      <4> QED
        BY <2>4, <4>1, <4>3, <4>5, <4>6 DEF Phases
    <3> QED
      BY <3>1, <3>2
  <2>15. CASE ReadStock(h)
    <3>1. pc[h] = "stock" /\ req[h].kind \in ArchiveKinds /\ req[h].kind \notin OperationKinds
      BY <2>2, <2>15 DEF ReadStock, KindAt, ArchiveKinds, OperationKinds, DocumentKinds,
                         TransferKinds
    <3>2. CASE Continue(h, "update") /\ UNCHANGED session
      <4>1. KindAt(req[h], "update") /\ LockAt(h, "update")
        BY <2>2, <3>1 DEF KindAt, LockAt, Holds
      <4>2. ReadAt(h, "update")
        <5>1. req[h].kind = "archive_product" => ~req[h].active
          BY <2>2, StockAssumption DEF WellFormed
        <5>2. pc[h] = "stock" /\ pc'[h] = "update"
          BY <1>2, <3>1, <3>2, ContinueFrame DEF IInv
        <5>3. \A a : ~Refuse(h, a)
          BY <1>2, <5>2, AnswerFrame DEF Refuse, IInv
        <5>4. req[h].kind = "archive_product" =>
                \A l \in Location, p \in Wanted(req[h]) : balance[l][p] = 0
          BY <2>15, <5>1, <5>3 DEF ReadStock
        <5> QED
          BY <5>4 DEF ReadAt, ActiveAt, EmptyAt, NewAt, CoveredAt
      <4>3. \A u \in Handler \ {h} : Apart(h, "update", u)
        BY <2>2 DEF Apart, Charging
      <4> QED
        BY <2>4, <3>1, <3>2, <4>1, <4>2, <4>3 DEF Phases
    <3>3. CASE \E a \in {"repeated", "conflict"} : Refuse(h, a)
      BY <1>2, <2>1, <3>1, <3>3, RefusePreserves DEF Replies
    <3> QED
      BY <2>15, <3>2, <3>3 DEF ReadStock
  <2>16. CASE UpdateActive(h)
    BY <1>2, <2>16, UpdateActivePreserves
  <2>17. CASE Crash(h)
    BY <2>3, <2>17 DEF Crash
  <2> QED
    BY <1>2, <2>5, <2>6, <2>7, <2>8, <2>9, <2>10, <2>11, <2>12, <2>13, <2>14, <2>15, <2>16,
       <2>17 DEF Step
<1> QED
  BY <1>1, <1>2, ReceivePreserves DEF Next

\* The invariant holds in every reachable state.
LEMMA InvariantHolds == Spec => []IInv
BY InitInvariant, NextInvariant, PTL DEF Spec

-----------------------------------------------------------------------------
(***************************************************************************)
(* What the invariant gives.                                               *)
(***************************************************************************)
\* A balance is the sum of its movements in every reachable state: no order of
\* the reads and writes of concurrent documents loses a write.
THEOREM BalancesMatch == Spec => []BalanceMatchesMovements
<1>1. IInv => BalanceMatchesMovements
  BY DEF IInv
<1> QED
  BY <1>1, InvariantHolds, PTL

\* No balance is ever negative: the stock a document checked is the stock it writes.
THEOREM StockCovered == Spec => []StockNeverNegative
<1>1. IInv => StockNeverNegative
  BY DEF IInv
<1> QED
  BY <1>1, InvariantHolds, PTL

\* Concurrent handovers never take more than a representative owes.
THEOREM DebtCovered == Spec => []DebtNeverNegative
<1>1. IInv => DebtNeverNegative
  BY DEF IInv
<1> QED
  BY <1>1, InvariantHolds, PTL

\* An operation key posts one document and one handover at most.
THEOREM KeysPostOnce == Spec => []OneRowPerKey
<1>1. IInv => OneRowPerKey
  <2> SUFFICES ASSUME IInv, NEW h \in Handler, NEW u \in Handler,
                      Posted(h), Posted(u), h # u, req[h].key = req[u].key,
                      IsHandover(h) <=> IsHandover(u)
               PROVE  req[h].key = NoKey
    BY DEF OneRowPerKey
  <2>1. req[h].key \notin Key
    BY DEF IInv, RowInv, SameRow, IsHandover
  <2>2. req[h] \in Request
    BY DEF IInv, TypeOK, Posted
  <2> QED
    BY <2>1, <2>2, RequestType
<1> QED
  BY <1>1, InvariantHolds, PTL

\* The answer "repeated" is told only of a request that was posted.
THEOREM RepeatedWasPosted == Spec => []RepeatedMeansPosted
<1>1. IInv => RepeatedMeansPosted
  BY DEF IInv
<1> QED
  BY <1>1, InvariantHolds, PTL

\* The FOR UPDATE of a balance row never waits: the product row is locked first.
THEOREM ProductLocksSuffice == Spec => []BalanceRowsUncontended
<1>1. IInv => BalanceRowsUncontended
  <2> SUFFICES ASSUME IInv, NEW h \in Handler, pc[h] = "items", NEW l \in Places(req[h]),
                      NEW p \in ToMove(h), NEW u \in Handler, p \in moved[u]
               PROVE  u = h
    BY DEF BalanceRowsUncontended, BalanceHolders
  <2>1. p \in locked[h]
    BY DEF IInv, LockInv, LockAt, Holds, ToMove
  <2>2. p \in locked[u]
    BY DEF IInv, MoveInv, MoveAt, LockInv, LockAt, Holds
  <2> QED
    BY <2>1, <2>2 DEF IInv, ApartInv, Apart
<1> QED
  BY <1>1, InvariantHolds, PTL

\* With archiving left to archive_product, an archived product has no stock: the
\* lock protocol of UNF_DELETION_POLICY.md is enough, whatever documents run.
THEOREM LockedArchiveIsSafe ==
  ASSUME \A r \in Request : r.kind = "update_product" => r.active
  PROVE  Spec => []ArchivedHasNoStock
<1>1. Init => ArchivedHasNoStock
  BY DEF Init, ArchivedHasNoStock
<1>2. IInv /\ ArchivedHasNoStock /\ [Next]_vars => ArchivedHasNoStock'
  <2> SUFFICES ASSUME IInv, ArchivedHasNoStock, [Next]_vars
               PROVE  ArchivedHasNoStock'
    OBVIOUS
  <2>1. CASE UNCHANGED <<balance, product_active>>
    BY <2>1 DEF ArchivedHasNoStock
  <2>2. ASSUME NEW h \in Handler, Commit(h)
        PROVE  ArchivedHasNoStock'
    <3>1. req[h] \in Request /\ ActiveAt(h, "items") /\ UNCHANGED product_active
      BY <2>2 DEF IInv, TypeOK, ReadInv, ReadAt, Commit
    <3>2. ASSUME NEW p \in Product, ~product_active[p], NEW l \in Location
          PROVE  balance'[l][p] = 0
      <4>1. Delta(req[h], l, p) = 0 /\ balance[l][p] = 0
        BY <3>1, <3>2, DeltaType DEF ActiveAt, ArchivedHasNoStock
      <4> QED
        BY <2>2, <4>1, WrittenIsMoved
    <3> QED
      BY <3>1, <3>2 DEF ArchivedHasNoStock
  <2>3. ASSUME NEW h \in Handler, UpdateActive(h)
        PROVE  ArchivedHasNoStock'
    <3>1. /\ req[h] \in Request /\ req[h].kind \in ArchiveKinds /\ EmptyAt(h, "update")
          /\ UNCHANGED balance
          /\ product_active' = [p \in Product |->
               IF p \in Wanted(req[h]) THEN req[h].active ELSE product_active[p]]
      BY <2>3 DEF IInv, TypeOK, KindInv, KindAt, ReadInv, ReadAt, UpdateActive
    <3>2. ASSUME NEW p \in Product, ~product_active'[p], NEW l \in Location
          PROVE  balance[l][p] = 0
      <4>1. CASE p \in Wanted(req[h])
        <5>1. req[h].kind = "archive_product"
          BY <3>1, <3>2, <4>1, NothingWanted DEF ArchiveKinds
        <5> QED
          BY <3>1, <4>1, <5>1 DEF EmptyAt
      <4>2. CASE p \notin Wanted(req[h])
        BY <3>1, <3>2, <4>2 DEF ArchivedHasNoStock
      <4> QED
        BY <4>1, <4>2
    <3> QED
      BY <3>1, <3>2 DEF ArchivedHasNoStock
  <2>4. [Next]_vars =>
          \/ UNCHANGED <<balance, product_active>>
          \/ \E h \in Handler : Commit(h) \/ UpdateActive(h)
    BY DEF vars, rows, session, Next, Step, Receive, CheckLocations, Lookup, LockProduct,
           CheckProducts, InsertRow, Reselect, MoveItem, LockRepresentative, CheckDebt, ReadStock,
           Crash, Refuse, Continue
  <2> QED
    BY <2>1, <2>2, <2>3, <2>4
<1> QED
  BY <1>1, <1>2, InvariantHolds, PTL DEF Spec

-----------------------------------------------------------------------------
(***************************************************************************)
(* Sums of a function over a finite set, in any order.                     *)
(***************************************************************************)

Pick(s) == CHOOSE x \in s : TRUE

\* The equation of the sum of f over s, where g has the sums over smaller sets.
SumAt(f, g, s) == IF s = {} THEN 0 ELSE f[Pick(s)] + g[s \ {Pick(s)}]

\* The parts of S with at most n elements, and the functions that satisfy the equation on
\* them.
Parts(S, n) == {s \in SUBSET S : Cardinality(s) <= n}
SumsOver(f, P, g) == g = [s \in P |-> SumAt(f, g, s)]
SumsUpTo(f, S, n, g) == SumsOver(f, Parts(S, n), g)

\* g has the sums of f over every part of S.
SumsOf(f, S, g) == \A s \in SUBSET S : g[s] = SumAt(f, g, s)

\* The element that is picked.
LEMMA Picked ==
  ASSUME NEW s, s # {}
  PROVE  Pick(s) \in s
  BY DEF Pick

\* Taking an element away.
LEMMA Less ==
  ASSUME NEW S, IsFiniteSet(S), NEW s \in SUBSET S, NEW x \in s
  PROVE  /\ IsFiniteSet(s) /\ Cardinality(s) \in Nat \ {0}
         /\ s \ {x} \in SUBSET S
         /\ Cardinality(s \ {x}) = Cardinality(s) - 1
<1>1. IsFiniteSet(s)
  BY FS_Subset
<1>2. Cardinality(s) \in Nat /\ (Cardinality(s) = 0 <=> s = {})
  BY <1>1, FS_CardinalityType, FS_EmptySet
<1>3. Cardinality(s \ {x}) = Cardinality(s) - 1
  BY <1>1, FS_RemoveElement
<1> QED
  BY <1>1, <1>2, <1>3

\* There is such a function for every n: the sums over n elements are found from those over
\* n - 1.
LEMMA SumsExist ==
  ASSUME NEW f, NEW S, IsFiniteSet(S), NEW m \in Nat
  PROVE  \E g : SumsUpTo(f, S, m, g)
<1> DEFINE None == {n \in Nat : ~ \E g : SumsUpTo(f, S, n, g)}
<1> SUFFICES ASSUME None # {}
             PROVE  FALSE
  OBVIOUS
<1>1. PICK n \in None : \A k \in None : n <= k
  BY NatHasLeast
<1>2. \A s \in SUBSET S : Cardinality(s) \in Nat /\ (Cardinality(s) = 0 <=> s = {})
  BY FS_Subset, FS_CardinalityType, FS_EmptySet
<1>3. CASE n = 0
  <2> DEFINE g == [s \in Parts(S, 0) |-> 0]
  <2>1. \A s \in Parts(S, 0) : s = {}
    BY <1>2 DEF Parts
  <2>2. SumsUpTo(f, S, 0, g)
    BY <2>1 DEF SumsUpTo, SumsOver, SumAt
  <2> QED
    BY <1>3, <2>2
<1>4. CASE n # 0
  <2>1. n - 1 \in Nat /\ n - 1 \notin None
    BY <1>1, <1>4
  <2>2. PICK h : SumsUpTo(f, S, n - 1, h)
    BY <2>1
  <2> DEFINE g == [s \in Parts(S, n) |-> SumAt(f, h, s)]
  <2>3. \A s \in Parts(S, n - 1) : h[s] = SumAt(f, h, s) /\ s \in Parts(S, n)
    <3>1. \A s \in Parts(S, n - 1) : h[s] = SumAt(f, h, s)
      BY <2>2, Zenon DEF SumsUpTo, SumsOver
    <3>2. Parts(S, n - 1) \subseteq Parts(S, n)
      BY <1>2, <2>1 DEF Parts
    <3> QED
      BY <3>1, <3>2
  <2>4. \A s \in Parts(S, n - 1) : g[s] = h[s]
    BY <2>3
  <2>5. ASSUME NEW s \in Parts(S, n), s # {}
        PROVE  s \ {Pick(s)} \in Parts(S, n - 1)
    <3>1. s \in SUBSET S /\ Cardinality(s) <= n /\ Pick(s) \in s
      BY <2>5, Picked DEF Parts
    <3>2. /\ Cardinality(s) \in Nat /\ s \ {Pick(s)} \in SUBSET S
          /\ Cardinality(s \ {Pick(s)}) = Cardinality(s) - 1
      BY <3>1, Less
    <3> QED
      BY <2>1, <3>1, <3>2 DEF Parts
  <2>6. \A s \in Parts(S, n) : g[s] = SumAt(f, g, s)
    <3> SUFFICES ASSUME NEW s \in Parts(S, n)
                 PROVE  SumAt(f, h, s) = SumAt(f, g, s)
      OBVIOUS
    <3> HIDE DEF g
    <3> QED
      BY <2>4, <2>5 DEF SumAt
  <2>7. SumsUpTo(f, S, n, g)
    <3>1. g = [s \in Parts(S, n) |-> g[s]]
      OBVIOUS
    <3> HIDE DEF g
    <3>2. [s \in Parts(S, n) |-> g[s]] = [s \in Parts(S, n) |-> SumAt(f, g, s)]
      BY <2>6, Zenon
    <3> QED
      BY <3>1, <3>2, Zenon DEF SumsUpTo, SumsOver
  <2> QED
    BY <2>7, Zenon
<1> QED
  BY <1>3, <1>4

\* So SumFunction is what the equation says.
LEMMA SumFunctionIsSum ==
  ASSUME NEW S, IsFiniteSet(S), NEW f, DOMAIN f = S
  PROVE  \E g : SumFunction(f) = g[S] /\ SumsOf(f, S, g)
<1> DEFINE it == CHOOSE g : SumsOver(f, SUBSET S, g)
<1>1. SumFunction(f) = it[S]
  BY Zenon
  DEF SumFunction, SumFunctionOnSet, FoldFunctionOnSet, MapThenFoldSet, SumsOver, SumAt, Pick
<1>2. Cardinality(S) \in Nat /\ \A s \in SUBSET S : Cardinality(s) <= Cardinality(S)
  BY FS_Subset, FS_CardinalityType
<1>3. Parts(S, Cardinality(S)) = SUBSET S
  BY <1>2 DEF Parts
<1>4. PICK h : SumsOver(f, SUBSET S, h)
  <2>1. PICK h : SumsUpTo(f, S, Cardinality(S), h)
    BY <1>2, SumsExist
  <2> QED
    BY <1>3, <2>1, Zenon DEF SumsUpTo
<1>5. SumsOver(f, SUBSET S, it)
  BY <1>4, Zenon
<1> HIDE DEF it
<1>6. SumsOf(f, S, it)
  BY <1>5, Zenon DEF SumsOf, SumsOver
<1> QED
  BY <1>1, <1>6

\* Of sets of parts of S, one with none of its own smaller parts.
LEMMA SmallestPart ==
  ASSUME NEW S, IsFiniteSet(S), NEW Odd \in SUBSET (SUBSET S), Odd # {}
  PROVE  \E s \in Odd : \A x \in s : s \ {x} \in (SUBSET S) \ Odd
<1> DEFINE Sizes == {Cardinality(s) : s \in Odd}
<1>1. Sizes \in SUBSET Nat /\ Sizes # {}
  BY FS_Subset, FS_CardinalityType
<1>2. PICK n \in Sizes : \A k \in Sizes : n <= k
  <2> HIDE DEF Sizes
  <2> QED
    BY <1>1, NatHasLeast
<1>3. PICK s \in Odd : n = Cardinality(s)
  BY <1>2
<1>4. ASSUME NEW x \in s
      PROVE  s \ {x} \in (SUBSET S) \ Odd
  <2>1. n \in Nat /\ s \ {x} \in SUBSET S /\ Cardinality(s \ {x}) = n - 1
    BY <1>3, <1>4, Less
  <2>2. ~(n <= n - 1)
    BY <2>1
  <2> QED
    BY <1>2, <2>1, <2>2
<1> QED
  BY <1>4

\* The sums are numbers.
LEMMA SumsAreInt ==
  ASSUME NEW S, IsFiniteSet(S), NEW f \in [S -> Int], NEW g, SumsOf(f, S, g), NEW t \in SUBSET S
  PROVE  g[t] \in Int
<1> DEFINE Odd == {s \in SUBSET S : g[s] \notin Int}
<1> SUFFICES ASSUME Odd # {}
             PROVE  FALSE
  OBVIOUS
<1>1. PICK s \in Odd : \A x \in s : s \ {x} \in (SUBSET S) \ Odd
  <2>1. Odd \in SUBSET (SUBSET S)
    OBVIOUS
  <2> HIDE DEF Odd
  <2> QED
    BY <2>1, SmallestPart
<1>2. g[s] = SumAt(f, g, s)
  BY DEF SumsOf
<1>3. s # {}
  BY <1>2 DEF SumAt
<1> DEFINE x == Pick(s)
<1>4. x \in s /\ f[x] \in Int
  BY <1>3, Picked
<1>5. g[s \ {x}] \in Int
  BY <1>1, <1>4
<1>6. g[s] = f[x] + g[s \ {x}]
  BY <1>2, <1>3 DEF SumAt
<1> HIDE DEF x
<1> QED
  BY <1>4, <1>5, <1>6

\* Any element may be the one that is added last.
LEMMA AnyElementLast ==
  ASSUME NEW S, IsFiniteSet(S), NEW f \in [S -> Int], NEW g, SumsOf(f, S, g),
         NEW t \in SUBSET S, NEW y \in t
  PROVE  g[t] = f[y] + g[t \ {y}]
<1> DEFINE Odd == {s \in SUBSET S : \E z \in s : g[s] # f[z] + g[s \ {z}]}
<1> SUFFICES ASSUME Odd # {}
             PROVE  FALSE
  OBVIOUS
<1>1. PICK s \in Odd : \A x \in s : s \ {x} \in (SUBSET S) \ Odd
  <2>1. Odd \in SUBSET (SUBSET S)
    OBVIOUS
  <2> HIDE DEF Odd
  <2> QED
    BY <2>1, SmallestPart
<1>2. PICK z \in s : g[s] # f[z] + g[s \ {z}]
  OBVIOUS
<1> DEFINE x == Pick(s)
<1>3. x \in s /\ g[s] = f[x] + g[s \ {x}]
  BY <1>2, Picked DEF SumsOf, SumAt
<1> HIDE DEF x
<1>4. x # z
  BY <1>2, <1>3
<1> DEFINE rest == (s \ {x}) \ {z}
<1>5. rest = (s \ {z}) \ {x} /\ rest \in SUBSET S
  OBVIOUS
<1>6. g[s \ {x}] = f[z] + g[rest]
  BY <1>1, <1>3, <1>4
<1>7. g[s \ {z}] = f[x] + g[(s \ {z}) \ {x}]
  BY <1>1, <1>3, <1>4
<1>8. g[rest] \in Int /\ f[x] \in Int /\ f[z] \in Int
  BY <1>3, <1>5, SumsAreInt
<1> HIDE DEF rest
<1>9. g[s] = f[x] + (f[z] + g[rest]) /\ f[z] + g[s \ {z}] = f[z] + (f[x] + g[rest])
  BY <1>3, <1>5, <1>6, <1>7
<1>10. f[x] + (f[z] + g[rest]) = f[z] + (f[x] + g[rest])
  BY <1>8
<1> QED
  BY <1>2, <1>9, <1>10

\* Functions that agree have the same sums.
LEMMA SumsAgree ==
  ASSUME NEW S, IsFiniteSet(S), NEW f, NEW g, SumsOf(f, S, g),
         NEW e, NEW h, SumsOf(e, S, h), \A x \in S : e[x] = f[x]
  PROVE  h[S] = g[S]
<1> DEFINE Odd == {s \in SUBSET S : h[s] # g[s]}
<1> SUFFICES ASSUME Odd # {}
             PROVE  FALSE
  OBVIOUS
<1>1. PICK s \in Odd : \A x \in s : s \ {x} \in (SUBSET S) \ Odd
  <2>1. Odd \in SUBSET (SUBSET S)
    OBVIOUS
  <2> HIDE DEF Odd
  <2> QED
    BY <2>1, SmallestPart
<1>2. g[s] = SumAt(f, g, s) /\ h[s] = SumAt(e, h, s)
  BY DEF SumsOf
<1>3. s # {}
  BY <1>2 DEF SumAt
<1>4. Pick(s) \in s
  BY <1>3, Picked
<1>5. h[s \ {Pick(s)}] = g[s \ {Pick(s)}] /\ e[Pick(s)] = f[Pick(s)]
  BY <1>1, <1>4
<1> QED
  BY <1>2, <1>5 DEF SumAt

\* Nothing sums to zero.
LEMMA SumOfNone ==
  ASSUME NEW f, DOMAIN f = {}
  PROVE  SumFunction(f) = 0
<1>1. PICK g : SumFunction(f) = g[{}] /\ SumsOf(f, {}, g)
  BY SumFunctionIsSum, FS_EmptySet
<1> QED
  BY <1>1 DEF SumsOf, SumAt

\* One more element adds its value to the sum.
LEMMA SumAdds ==
  ASSUME NEW S, IsFiniteSet(S), NEW f \in [S -> Int], NEW y, y \notin S,
         NEW e \in [S \cup {y} -> Int], \A x \in S : e[x] = f[x]
  PROVE  SumFunction(f) \in Int /\ SumFunction(e) = SumFunction(f) + e[y]
<1> DEFINE T == S \cup {y}
<1>1. IsFiniteSet(T)
  BY FS_AddElement
<1>2. PICK g : SumFunction(f) = g[S] /\ SumsOf(f, S, g)
  BY SumFunctionIsSum
<1>3. PICK h : SumFunction(e) = h[T] /\ SumsOf(e, T, h)
  BY <1>1, SumFunctionIsSum
<1>4. S \in SUBSET T /\ y \in T /\ T \ {y} = S
  OBVIOUS
<1>5. SumsOf(e, S, h)
  BY <1>3 DEF SumsOf
<1>6. h[S] = g[S]
  BY <1>2, <1>5, SumsAgree
<1>7. h[T] = e[y] + h[S]
  <2> HIDE DEF T
  <2>1. h[T] = e[y] + h[T \ {y}]
    BY <1>1, <1>3, <1>4, AnyElementLast DEF T
  <2> QED
    BY <1>4, <2>1
<1>8. g[S] \in Int /\ e[y] \in Int
  BY <1>2, SumsAreInt
<1> QED
  BY <1>2, <1>3, <1>6, <1>7, <1>8

-----------------------------------------------------------------------------
(***************************************************************************)
(* The posted documents explain the stock and the debt.                    *)
(***************************************************************************)

\* The movements and the money rows are those of the handlers that posted, which are
\* finitely many.
ExplainInv ==
  /\ IsFiniteSet(Done)
  /\ \A l \in Location :
       /\ debt[l] = OpeningDebt[l] + SumFunction([h \in Done |-> MoneyDelta(req[h], l)])
       /\ \A p \in Product :
            journal[l][p] = Opening[l][p] + SumFunction([h \in Done |-> Delta(req[h], l, p)])

\* Nothing is posted at first.
LEMMA ExplainInit == Init => ExplainInv
<1> SUFFICES ASSUME Init
             PROVE  ExplainInv
  OBVIOUS
<1>1. Done = {}
  BY DEF Init, Done, Posted
<1>2. \A l \in Location, p \in Product :
        /\ SumFunction([h \in Done |-> MoneyDelta(req[h], l)]) = 0
        /\ SumFunction([h \in Done |-> Delta(req[h], l, p)]) = 0
  BY <1>1, SumOfNone
<1>3. \A l \in Location : SumFunction([h \in Done |-> MoneyDelta(req[h], l)]) = 0
  BY <1>1, SumOfNone
<1>4. \A l \in Location : OpeningDebt[l] \in Int /\ \A p \in Product : Opening[l][p] \in Int
  BY StockAssumption
<1>5. \A n \in Int : n = n + 0
  OBVIOUS
<1>6. debt = OpeningDebt /\ journal = Opening
  BY DEF Init
<1> QED
  BY <1>1, <1>2, <1>3, <1>4, <1>5, <1>6, FS_EmptySet DEF ExplainInv

\* Whoever has posted has answered, and keeps its request.
LEMMA PostedIsDone ==
  ASSUME TypeOK, NEW h \in Handler, Posted(h)
  PROVE  pc[h] = "done"
  BY DEF TypeOK, Posted

\* A step that is not a commit of a document or a handover posts nothing.
LEMMA NothingNewPosted ==
  ASSUME IInv, NEW h \in Handler, ~Commit(h),
         Step(h) \/ Crash(h) \/ \E r \in Request : Receive(h, r)
  PROVE  /\ UNCHANGED <<journal, debt>>
         /\ Done' = Done
         /\ \A u \in Done : req'[u] = req[u]
<1> USE DEF IInv
<1>1. reply \in [Handler -> Replies] /\ req \in [Handler -> Request \cup {NoRequest}]
  BY DEF TypeOK
<1>2. pc[h] # "done"
  BY DEF Step, Crash, Receive, CheckLocations, Lookup, LockProduct, CheckProducts, InsertRow,
         Reselect, MoveItem, Commit, LockRepresentative, CheckDebt, ReadStock, UpdateActive
<1>3. h \notin Done
  BY <1>2, PostedIsDone DEF Done
<1>4. CASE \E a \in Replies \ {"ok"} : Refuse(h, a)
  <2>1. PICK a \in Replies \ {"ok"} : Refuse(h, a)
    BY <1>4
  <2>2. /\ reply' = [reply EXCEPT ![h] = a] /\ req' = req
        /\ UNCHANGED <<journal, debt>>
    BY <2>1 DEF Refuse, Answer, rows
  <2>3. h \notin Done' /\ \A u \in Handler \ {h} : u \in Done' <=> u \in Done
    BY <1>1, <2>2 DEF Done, Posted
  <2> QED
    BY <1>3, <2>2, <2>3 DEF Done
<1>5. CASE /\ reply' = reply /\ UNCHANGED <<journal, debt>>
           /\ \A u \in Handler \ {h} : req'[u] = req[u]
  <2>1. pc[h] # "done" => reply[h] = "none"
    BY <1>1 DEF TypeOK
  <2>2. h \notin Done' /\ \A u \in Handler \ {h} : u \in Done' <=> u \in Done
    BY <1>2, <1>5, <2>1 DEF Done, Posted
  <2> QED
    BY <1>3, <1>5, <2>2 DEF Done
<1>6. CASE UpdateActive(h)
  <2>1. /\ reply' = [reply EXCEPT ![h] = "ok"] /\ req' = req
        /\ UNCHANGED <<journal, debt>> /\ pc[h] = "update"
    BY <1>6 DEF UpdateActive, Answer
  <2>2. req[h].kind \notin OperationKinds
    BY <2>1 DEF KindInv, KindAt, ArchiveKinds, OperationKinds, DocumentKinds, TransferKinds
  <2>3. h \notin Done' /\ \A u \in Handler \ {h} : u \in Done' <=> u \in Done
    BY <1>1, <2>1, <2>2 DEF Done, Posted
  <2> QED
    BY <1>3, <2>1, <2>3 DEF Done
<1>7. ASSUME NEW a \in Replies \ {"ok"}, Refuse(h, a)
      PROVE  \E b \in Replies \ {"ok"} : Refuse(h, b)
  BY <1>7
<1>8. KeyAnswer(req[h]) \in Replies \ {"ok"}
  BY DEF KeyAnswer, Replies
<1>9. \A a \in {"conflict", "invalid", "repeated", "lost"} : a \in Replies \ {"ok"}
  BY DEF Replies
<1>10. ASSUME NEW phase, Continue(h, phase)
       PROVE  reply' = reply /\ UNCHANGED <<journal, debt>> /\ req' = req
  BY <1>10 DEF Continue, rows
<1>11. CASE CheckLocations(h) \/ Lookup(h) \/ CheckProducts(h)
  BY <1>4, <1>5, <1>8, <1>9, <1>10, <1>11 DEF CheckLocations, Lookup, CheckProducts
<1>12. CASE InsertRow(h) \/ Reselect(h) \/ LockRepresentative(h) \/ CheckDebt(h)
  BY <1>4, <1>5, <1>8, <1>9, <1>10, <1>12 DEF InsertRow, Reselect, LockRepresentative, CheckDebt
<1>13. CASE ReadStock(h) \/ Crash(h)
  BY <1>4, <1>5, <1>9, <1>10, <1>13 DEF ReadStock, Crash
<1>14. CASE LockProduct(h) \/ MoveItem(h)
  BY <1>4, <1>5, <1>9, <1>14 DEF LockProduct, MoveItem, rows
<1>15. CASE \E r \in Request : Receive(h, r)
  BY <1>1, <1>5, <1>15 DEF Receive, rows
<1> QED
  BY <1>6, <1>11, <1>12, <1>13, <1>14, <1>15 DEF Step

\* A commit adds a document, or a handover, and what it moves; no other step does either.
LEMMA ExplainNext == IInv /\ ExplainInv /\ [Next]_vars => ExplainInv'
<1> SUFFICES ASSUME IInv, ExplainInv, [Next]_vars
             PROVE  ExplainInv'
  OBVIOUS
<1>1. CASE UNCHANGED <<journal, debt>> /\ Done' = Done /\ \A u \in Done : req'[u] = req[u]
  <2>1. \A l \in Location :
          /\ [h \in Done |-> MoneyDelta(req[h], l)]' = [h \in Done |-> MoneyDelta(req[h], l)]
          /\ \A p \in Product :
               [h \in Done |-> Delta(req[h], l, p)]' = [h \in Done |-> Delta(req[h], l, p)]
    BY <1>1
  <2> QED
    BY <1>1, <2>1 DEF ExplainInv
<1>2. ASSUME NEW h \in Handler, Commit(h)
      PROVE  ExplainInv'
  <2>1. /\ pc[h] = "items" /\ req' = req /\ reply' = [reply EXCEPT ![h] = "ok"]
        /\ debt' = Charged(req[h])
        /\ journal' = [l \in Location |-> [p \in Product |-> journal[l][p] + Delta(req[h], l, p)]]
    BY <1>2 DEF Commit, Answer
  <2>2. reply \in [Handler -> Replies] /\ TypeOK
    BY DEF IInv, TypeOK
  <2>3. h \notin Done
    BY <2>1, <2>2, PostedIsDone DEF Done
  <2>4. req[h].kind \in OperationKinds
    BY <2>1 DEF IInv, KindInv, KindAt
  <2>5. Done' = Done \cup {h}
    BY <2>1, <2>2, <2>4 DEF Done, Posted
  <2>6. \A u \in Done' : req[u] \in Request
    <3>1. \A u \in Done : pc[u] = "done"
      BY <2>2, PostedIsDone DEF Done
    <3> QED
      BY <2>1, <2>2, <2>5, <3>1 DEF TypeOK, Done
  <2>7. IsFiniteSet(Done) /\ IsFiniteSet(Done')
    BY <2>5, FS_AddElement DEF ExplainInv
  <2>8. ASSUME NEW l \in Location
        PROVE  debt'[l] = OpeningDebt[l] + SumFunction([u \in Done' |-> MoneyDelta(req[u], l)])
    <3> DEFINE f == [u \in Done |-> MoneyDelta(req[u], l)]
               e == [u \in Done' |-> MoneyDelta(req[u], l)]
    <3>1. \A u \in Done' : MoneyDelta(req[u], l) \in Int
      BY <2>6, MoneyDeltaType
    <3>2. f \in [Done -> Int] /\ e \in [Done \cup {h} -> Int] /\ \A u \in Done : e[u] = f[u]
      BY <2>5, <3>1
    <3>3. e[h] = MoneyDelta(req[h], l)
      BY <2>5
    <3> HIDE DEF f, e
    <3>4. SumFunction(f) \in Int /\ SumFunction(e) = SumFunction(f) + e[h]
      BY <2>3, <2>7, <3>2, SumAdds
    <3>5. debt[l] = OpeningDebt[l] + SumFunction(f)
      BY DEF ExplainInv, f
    <3>6. debt'[l] = debt[l] + MoneyDelta(req[h], l)
      BY <2>1 DEF Charged
    <3>7. OpeningDebt[l] \in Int /\ e[h] \in Int
      BY <2>5, <3>2, StockAssumption
    <3>8. debt'[l] = OpeningDebt[l] + SumFunction(e)
      BY <3>3, <3>4, <3>5, <3>6, <3>7
    <3> QED
      BY <3>8 DEF e
  <2>9. ASSUME NEW l \in Location, NEW p \in Product
        PROVE  journal'[l][p] = Opening[l][p] + SumFunction([u \in Done' |-> Delta(req[u], l, p)])
    <3> DEFINE f == [u \in Done |-> Delta(req[u], l, p)]
               e == [u \in Done' |-> Delta(req[u], l, p)]
    <3>1. \A u \in Done' : Delta(req[u], l, p) \in Int
      BY <2>6, DeltaType
    <3>2. f \in [Done -> Int] /\ e \in [Done \cup {h} -> Int] /\ \A u \in Done : e[u] = f[u]
      BY <2>5, <3>1
    <3>3. e[h] = Delta(req[h], l, p)
      BY <2>5
    <3> HIDE DEF f, e
    <3>4. SumFunction(f) \in Int /\ SumFunction(e) = SumFunction(f) + e[h]
      BY <2>3, <2>7, <3>2, SumAdds
    <3>5. journal[l][p] = Opening[l][p] + SumFunction(f)
      BY DEF ExplainInv, f
    <3>6. journal'[l][p] = journal[l][p] + Delta(req[h], l, p)
      BY <2>1
    <3>7. Opening[l][p] \in Int /\ e[h] \in Int
      BY <2>5, <3>2, StockAssumption
    <3>8. journal'[l][p] = Opening[l][p] + SumFunction(e)
      BY <3>3, <3>4, <3>5, <3>6, <3>7
    <3> QED
      BY <3>8 DEF e
  <2> QED
    BY <2>1, <2>7, <2>8, <2>9 DEF ExplainInv
<1>3. CASE UNCHANGED vars
  BY <1>1, <1>3 DEF vars, rows, Done, Posted
<1> QED
  BY <1>1, <1>2, <1>3, NothingNewPosted, Zenon DEF Next

\* In every reachable state the stock and the debt are what was there at first and what the
\* documents and handovers posted since add up to, for any number of them and whatever
\* happens to the others: nothing is applied in part, twice, or without its row.
THEOREM StateIsExplained == Spec => []DocumentsExplainState
<1>1. IInv /\ ExplainInv => DocumentsExplainState
  BY DEF IInv, BalanceMatchesMovements, ExplainInv, DocumentsExplainState
<1>2. Spec => []ExplainInv
  BY ExplainInit, ExplainNext, InvariantHolds, PTL DEF Spec
<1> QED
  BY <1>1, <1>2, InvariantHolds, PTL

-----------------------------------------------------------------------------
(***************************************************************************)
(* Refinement: a commit is one operation of the ledger, every other step   *)
(* changes nothing the ledger sees.                                        *)
(***************************************************************************)
\* The ledger's instance of StockOperations means the same.
LEMMA SameOperations ==
  /\ \A r, l, p : Ledger!Delta(r, l, p) = Delta(r, l, p)
  /\ \A r, l : Ledger!MoneyDelta(r, l) = MoneyDelta(r, l)
  /\ \A r : /\ Ledger!Wanted(r) = Wanted(r) /\ Ledger!Places(r) = Places(r)
            /\ Ledger!Acceptable(r) <=> Acceptable(r)
  /\ Ledger!DocumentKinds = DocumentKinds
BY DEF Ledger!Delta, Delta, Ledger!MoneyDelta, MoneyDelta, Ledger!Wanted, Wanted, Ledger!Places,
       Places, Ledger!Acceptable, Acceptable, Ledger!DocumentKinds, DocumentKinds,
       Ledger!TransferKinds, TransferKinds

\* What a handler has read under its locks is what the ledger asks of the operation.
LEMMA CommitIsPosted ==
  ASSUME IInv, NEW h \in Handler, Commit(h)
  PROVE  Ledger!PostDocument(req[h]) \/ Ledger!PostHandover(req[h])
<1> DEFINE r == req[h]
<1>1. TypeOK /\ pc[h] = "items" /\ r \in Request
  BY DEF IInv, TypeOK, Commit
<1>2. TypeOK'
  BY NextType DEF IInv, Next, Step
<1>3. /\ r.kind \in OperationKinds /\ Acceptable(r)
      /\ ActiveAt(h, "items") /\ CoveredAt(h, "items") /\ Existing(r) = NoRequest
  BY <1>1 DEF IInv, KindInv, KindAt, ReadInv, ReadAt, NewAt
<1>4. balance' = Ledger!Posted(balance, r) /\ journal' = Ledger!Posted(journal, r)
  <2>1. \A l \in Location, p \in Product : balance'[l][p] = balance[l][p] + Delta(r, l, p)
    BY WrittenIsMoved
  <2>2. balance' = [l \in Location |-> [p \in Product |-> balance[l][p] + Delta(r, l, p)]]
    <3>1. balance' \in [Location -> [Product -> Int]]
      BY <1>2 DEF TypeOK
    <3> QED
      BY <2>1, <3>1
  <2> QED
    BY <2>2, SameOperations DEF Commit, Ledger!Posted
<1>5. debt' = [l \in Location |-> debt[l] + MoneyDelta(r, l)] /\ UNCHANGED product_active
  BY DEF Commit, Charged
<1>6. CASE r.kind = "CASH_HANDOVER"
  <2>1. UNCHANGED <<balance, journal>>
    <3>1. \A l \in Location, p \in Product : Delta(r, l, p) = 0
      BY <1>1, <1>6, NothingWanted, DeltaType
    <3>2. /\ balance' = [l \in Location |-> [p \in Product |-> balance[l][p]]]
          /\ journal' = [l \in Location |-> [p \in Product |-> journal[l][p]]]
      <4>1. \A l \in Location, p \in Product :
              balance[l][p] + Delta(r, l, p) = balance[l][p] /\
              journal[l][p] + Delta(r, l, p) = journal[l][p]
        BY <1>1, <3>1 DEF TypeOK
      <4> QED
        BY <1>4, <4>1, SameOperations DEF Ledger!Posted
    <3> QED
      BY <1>1, <3>2 DEF TypeOK
  <2>2. document' = document /\ handover' = Ledger!Registered(handover, r)
    BY <1>6 DEF Commit, IsHandover, Ledger!Registered
  <2>3. Ledger!KeyUnused(handover, r)
    BY <1>3, <1>6 DEF Existing, Ledger!KeyUnused
  <2>4. r.amount <= debt[r.source]
    BY <1>3, <1>6 DEF CoveredAt
  <2> QED
    BY <1>5, <1>6, <2>1, <2>2, <2>3, <2>4, SameOperations DEF Ledger!PostHandover
<1>7. CASE r.kind # "CASH_HANDOVER"
  <2>1. r.kind \in DocumentKinds
    BY <1>3, <1>7 DEF OperationKinds
  <2>2. document' = Ledger!Registered(document, r) /\ handover' = handover
    BY <1>7 DEF Commit, IsHandover, Ledger!Registered
  <2>3. Ledger!KeyUnused(document, r)
    BY <1>3, <1>7 DEF Existing, Ledger!KeyUnused
  <2>4. \A p \in Wanted(r) : product_active[p]
    BY <1>3 DEF ActiveAt
  <2>5. \A l \in Location, p \in Wanted(r) :
          l \in Places(r) => balance[l][p] + Delta(r, l, p) >= 0
    BY WrittenIsMoved, WantedProducts
  <2> QED
    BY <1>3, <1>4, <1>5, <2>1, <2>2, <2>3, <2>4, <2>5, SameOperations DEF Ledger!PostDocument
<1> QED
  BY <1>6, <1>7

\* An UPDATE of is_active is an archive or a change of the flag; a location is not
\* part of the ledger.
LEMMA UpdateActiveIsLedgerStep ==
  ASSUME IInv, NEW h \in Handler, UpdateActive(h)
  PROVE  Ledger!Archive(req[h]) \/ Ledger!SetActive(req[h]) \/ UNCHANGED Ledger!vars
<1> DEFINE r == req[h]
<1>1. /\ TypeOK /\ r \in Request /\ r.kind \in ArchiveKinds /\ EmptyAt(h, "update")
      /\ product_active' = [p \in Product |->
           IF p \in Wanted(r) THEN r.active ELSE product_active[p]]
      /\ UNCHANGED <<balance, journal, debt, document, handover>>
  BY DEF IInv, TypeOK, KindInv, KindAt, ReadInv, ReadAt, UpdateActive
<1>2. CASE r.kind = "archive_product"
  <2>1. r.active = FALSE
    BY <1>1, <1>2, StockAssumption, RequestType DEF WellFormed
  <2>2. \A l \in Location, p \in Wanted(r) : balance[l][p] = 0
    BY <1>1, <1>2 DEF EmptyAt
  <2> QED
    BY <1>1, <1>2, <2>1, <2>2, SameOperations DEF Ledger!Archive
<1>3. CASE r.kind = "update_product"
  BY <1>1, <1>3, SameOperations DEF Ledger!SetActive
<1>4. CASE r.kind = "update_location"
  <2>1. product_active' = [p \in Product |-> product_active[p]]
    BY <1>1, <1>4, NothingWanted
  <2> QED
    BY <1>1, <2>1 DEF TypeOK, Ledger!vars
<1> QED
  BY <1>1, <1>2, <1>3, <1>4 DEF ArchiveKinds

\* The services implement the ledger: whatever the interleaving, the crashes and the
\* repeated keys, what is committed is a sequence of whole ledger operations.
THEOREM ServicesImplementLedger == Spec => LedgerSpec
<1>1. Init => Ledger!Init
  BY DEF Init, Ledger!Init
<1>2. IInv /\ [Next]_vars => [Ledger!Next]_(Ledger!vars)
  <2> SUFFICES ASSUME IInv, [Next]_vars
               PROVE  Ledger!Next \/ UNCHANGED Ledger!vars
    OBVIOUS
  <2>1. \/ UNCHANGED <<balance, journal, debt, document, handover, product_active>>
        \/ \E h \in Handler : Commit(h) \/ UpdateActive(h)
    BY DEF vars, rows, session, Next, Step, Receive, CheckLocations, Lookup, LockProduct,
           CheckProducts, InsertRow, Reselect, MoveItem, LockRepresentative, CheckDebt, ReadStock,
           Crash, Refuse, Continue
  <2>2. ASSUME NEW h \in Handler, Commit(h) \/ UpdateActive(h)
        PROVE  Ledger!Next \/ UNCHANGED Ledger!vars
    <3>1. req[h] \in Request
      BY <2>2 DEF IInv, TypeOK, Commit, UpdateActive
    <3> QED
      BY <2>2, <3>1, CommitIsPosted, UpdateActiveIsLedgerStep DEF Ledger!Next
  <2> QED
    BY <2>1, <2>2 DEF Ledger!vars
<1> QED
  BY <1>1, <1>2, InvariantHolds, PTL DEF Spec, LedgerSpec, Ledger!Spec

-----------------------------------------------------------------------------
(***************************************************************************)
(* The stock transactions never wait for each other in a circle: product   *)
(* rows are locked in the order of their ids, before every other row, and  *)
(* whoever holds a key or a location waits only for those further on.      *)
(***************************************************************************)

\* A handler that still locks products has the ones with the smaller ids.
OrderInv ==
  \A h \in Handler : pc[h] = "lock" => \A p \in locked[h], q \in ToLock(h) : p < q

\* No handler holds a row at the start.
LEMMA OrderInit == Init => OrderInv
BY DEF Init, OrderInv

\* The next row locked has a larger id than those held and a smaller one than those
\* left.
LEMMA OrderNext == IInv /\ IInv' /\ OrderInv /\ [Next]_vars => OrderInv'
<1> SUFFICES ASSUME IInv, OrderInv, [Next]_vars, NEW u \in Handler, pc'[u] = "lock",
                    NEW p \in locked'[u], NEW q \in ToLock(u)', IInv'
             PROVE  p < q
  BY DEF OrderInv
<1>1. TypeOK /\ locked[u] \subseteq Product
  BY DEF IInv, TypeOK
<1>2. CASE pc[u] = "lock" /\ req'[u] = req[u] /\ locked'[u] = locked[u]
  BY <1>2 DEF OrderInv, ToLock
<1>3. CASE LockProduct(u)
  <2>1. locked'[u] = locked[u] \cup {NextToLock(u)} /\ req'[u] = req[u] /\ pc[u] = "lock"
    BY <1>1, <1>3 DEF LockProduct, TypeOK
  <2>2. ToLock(u) \in SUBSET Product /\ ToLock(u) # {}
    BY <1>3, WantedProducts DEF ToLock, LockProduct
  <2>3. q \in ToLock(u) /\ q # NextToLock(u) /\ NextToLock(u) <= q /\ NextToLock(u) \in Product
    BY <2>1, <2>2, LeastIsMember DEF NextToLock, ToLock
  <2>4. CASE p = NextToLock(u)
    <3>1. p \in Nat /\ q \in Nat
      BY <2>2, <2>3, <2>4, StockAssumption
    <3> QED
      BY <2>3, <2>4, <3>1
  <2>5. CASE p # NextToLock(u)
    BY <2>1, <2>3, <2>5 DEF OrderInv
  <2> QED
    BY <2>4, <2>5
<1>4. CASE locked[u] = {} /\ locked'[u] = locked[u]
  BY <1>4
<1>5. \/ pc[u] = "lock" /\ req'[u] = req[u] /\ locked'[u] = locked[u]
      \/ LockProduct(u)
      \/ locked[u] = {} /\ locked'[u] = locked[u]
  <2>1. CASE UNCHANGED vars
    BY <2>1 DEF vars, session
  <2>2. ASSUME NEW h \in Handler, NEW r \in Request, Receive(h, r)
        PROVE  \/ pc[u] = "lock" /\ req'[u] = req[u] /\ locked'[u] = locked[u]
               \/ locked[u] = {} /\ locked'[u] = locked[u]
    <3>1. CASE u = h
      BY <2>2, <3>1 DEF Receive, session, IInv, LockInv, LockAt, Holds
    <3>2. CASE u # h
      BY <1>1, <2>2, <3>2 DEF Receive, Goto, session, TypeOK
    <3> QED
      BY <3>1, <3>2
  <2>3. ASSUME NEW h \in Handler, NEW a, Answer(h, a)
        PROVE  pc[u] = "lock" /\ req'[u] = req[u] /\ locked'[u] = locked[u]
    BY <1>1, <2>3, AnswerFrame DEF Frame
  <2>4. ASSUME NEW h \in Handler, NEW phase \in Phases, Continue(h, phase), UNCHANGED session,
               phase = "lock" => pc[h] = "lookup"
        PROVE  \/ pc[u] = "lock" /\ req'[u] = req[u] /\ locked'[u] = locked[u]
               \/ locked[u] = {} /\ locked'[u] = locked[u]
    <3>1. CASE u = h
      BY <1>1, <2>4, <3>1, ContinueFrame DEF IInv, LockInv, LockAt, Holds
    <3>2. CASE u # h
      BY <1>1, <2>4, <3>2, ContinueFrame DEF Frame
    <3> QED
      BY <3>1, <3>2
  <2>5. ASSUME NEW h \in Handler, Step(h) \/ Crash(h),
               ~\E a : Answer(h, a),
               ~\E phase \in Phases : /\ Continue(h, phase) /\ UNCHANGED session
                                      /\ phase = "lock" => pc[h] = "lookup"
        PROVE  \/ pc[u] = "lock" /\ req'[u] = req[u] /\ locked'[u] = locked[u]
               \/ LockProduct(u)
    <3>1. \/ LockProduct(h)
          \/ MoveItem(h) /\ UNCHANGED <<pc, req, locked>>
          \/ Continue(h, "reselect") /\ Release(h)
      BY <2>5 DEF Step, Crash, CheckLocations, Lookup, CheckProducts, InsertRow, Reselect,
                  MoveItem, Commit, LockRepresentative, CheckDebt, ReadStock, UpdateActive,
                  Refuse, Phases
    <3>2. CASE LockProduct(h)
      BY <1>1, <3>2 DEF LockProduct, TypeOK
    <3>3. CASE Continue(h, "reselect") /\ Release(h)
      BY <1>1, <3>3 DEF Continue, Goto, Release, TypeOK
    <3> QED
      BY <3>1, <3>2, <3>3
  <2> QED
    BY <2>1, <2>2, <2>3, <2>4, <2>5 DEF Next
<1> QED
  BY <1>2, <1>3, <1>4, <1>5

-----------------------------------------------------------------------------
\* What two handlers of one set can wait for, given the invariant.
LEMMA HoldersInPhase ==
  ASSUME IInv, NEW h \in Handler, NEW u \in Handler, u # h, WaitsFor(h, u)
  PROVE  /\ pc[h] \in {"lock", "insert", "items", "representative", "update"}
         /\ pc[h] = "lock" => ToLock(h) # {} /\ NextToLock(h) \in locked[u]
         /\ pc[h] = "items" => Charging(req[u], pc[u]) /\ req[h].kind # "CASH_HANDOVER"
         /\ pc[h] = "insert" =>
              \/ Charging(req[u], pc[u]) /\ req[h].kind # "CASH_HANDOVER"
              \/ /\ pc[u] = "items"
                 /\ req[u].kind = "CASH_HANDOVER" <=> req[h].kind = "CASH_HANDOVER"
         /\ pc[h] = "representative" => Charging(req[u], pc[u]) \/ pc[u] = "items"
         /\ pc[h] = "update" =>
              /\ req[h].kind # "archive_product"
              /\ Charging(req[u], pc[u]) \/ locked[u] # {}
<1>1. /\ TypeOK /\ Apart(h, pc[h], u)
      /\ LockAt(h, pc[h]) /\ LockAt(u, pc[u]) /\ MoveAt(u) /\ KindAt(req[h], pc[h])
  BY DEF IInv, ApartInv, LockInv, MoveInv, KindInv
<1>2. \A l \in Location : u \in LocationHolders(l) => Charging(req[u], pc[u]) /\ l = req[u].source
  BY DEF LocationHolders, IsHandover, Charging
<1>3. \A l \in Places(req[h]) : u \in LocationHolders(l) => Charging(req[u], pc[u])
  BY DEF LocationHolders, IsHandover, Charging
<1>4. CASE pc[h] = "lock"
  BY <1>4 DEF WaitsFor, ProductHolders
<1>5. CASE pc[h] \in {"insert", "items"}
  <2>1. ASSUME req[h].kind = "CASH_HANDOVER"
        PROVE  /\ ToMove(h) = {}
               /\ \A l \in Places(req[h]) : u \notin LocationHolders(l)
    <3>1. req[h] \in Request
      BY <1>1, <1>5 DEF TypeOK
    <3>2. WellFormed(req[h]) /\ Wanted(req[h]) = {}
      BY <2>1, <3>1, StockAssumption, NothingWanted
    <3>3. Places(req[h]) = {req[h].source}
      BY <2>1, <3>2, StockAssumption DEF WellFormed, Places
    <3> QED
      BY <1>1, <1>5, <2>1, <3>2, <3>3 DEF Apart, Charging, LocationHolders, IsHandover, ToMove
  <2>2. CASE pc[h] = "insert"
    BY <1>3, <2>1, <2>2 DEF WaitsFor, KeyHolders, IsHandover
  <2>3. CASE pc[h] = "items"
    <3>1. ToMove(h) # {}
      BY <2>3 DEF WaitsFor
    <3>2. NextToMove(h) \in locked[h]
      <4>1. ToMove(h) \in SUBSET Product /\ ToMove(h) \subseteq locked[h]
        BY <1>1, <2>3, WantedProducts DEF ToMove, LockAt, Holds
      <4> QED
        BY <3>1, <4>1, LeastIsMember DEF NextToMove
    <3>3. moved[u] \subseteq locked[u]
      BY <1>1 DEF MoveAt, LockAt, Holds
    <3>4. NextToMove(h) \notin moved[u]
      BY <1>1, <3>2, <3>3 DEF Apart
    <3> QED
      BY <1>3, <2>1, <2>3, <3>1, <3>4 DEF WaitsFor, BalanceHolders
  <2> QED
    BY <1>5, <2>2, <2>3
<1>6. CASE pc[h] = "representative"
  BY <1>6 DEF WaitsFor, LocationHolders, LocationSharers, IsHandover, Charging
<1>7. CASE pc[h] = "update"
  <2>1. ASSUME req[h].kind = "archive_product"
        PROVE  FALSE
    <3>1. WellFormed(req[h])
      BY <1>1, <1>7, StockAssumption DEF TypeOK
    <3>2. Places(req[h]) = {}
      BY <2>1, <3>1 DEF WellFormed, Places
    <3>3. PICK p \in Wanted(req[h]) : p \in locked[u]
      BY <1>7, <3>2 DEF WaitsFor, ProductHolders
    <3>4. p \in locked[h]
      BY <1>1, <1>7, <2>1, <3>3 DEF LockAt, Holds
    <3> QED
      BY <1>1, <3>3, <3>4 DEF Apart
  <2> QED
    BY <1>3, <1>7, <2>1 DEF WaitsFor, ProductHolders
<1> QED
  BY <1>4, <1>5, <1>6, <1>7 DEF WaitsFor

\* In every set of handlers one waits for none of the others: look for the one that
\* is furthest on, and among those that lock products for the largest next id.
LEMMA SomeoneIsFree ==
  ASSUME IInv, OrderInv, NEW N \in Nat, Product \subseteq 0..N,
         NEW S \in SUBSET Handler, S # {}
  PROVE  \E h \in S : \A u \in S : u # h => ~WaitsFor(h, u)
<1> DEFINE Charges == {h \in S : Charging(req[h], pc[h])}
           Moving == {h \in S : pc[h] = "items"}
           Inserting == {h \in S : pc[h] = "insert"}
           Locking == {h \in S : pc[h] = "lock"}
<1>1. CASE Charges # {}
  <2>1. \A h \in Charges : pc[h] \in {"debt", "insert", "items"} /\ req[h].kind = "CASH_HANDOVER"
    BY DEF Charging
  <2>2. CASE \E h \in Charges : pc[h] # "insert"
    BY <2>1, <2>2, HoldersInPhase
  <2>3. CASE \A h \in Charges : pc[h] = "insert"
    <3>1. PICK h \in Charges : TRUE
      BY <1>1
    <3>2. ASSUME NEW u \in S, u # h, WaitsFor(h, u)
          PROVE  FALSE
      <4>1. pc[u] = "items" /\ req[u].kind = "CASH_HANDOVER"
        BY <2>1, <2>3, <3>1, <3>2, HoldersInPhase
      <4> QED
        BY <2>3, <4>1 DEF Charging
    <3> QED
      BY <3>1, <3>2
  <2> QED
    BY <2>2, <2>3
<1>2. CASE Charges = {} /\ Moving # {}
  BY <1>2, HoldersInPhase
<1>3. CASE Charges = {} /\ Moving = {} /\ Inserting # {}
  BY <1>3, HoldersInPhase
<1>4. CASE /\ Charges = {} /\ Moving = {} /\ Inserting = {}
           /\ \E h \in S : pc[h] \notin {"lock", "update"} \/ (pc[h] = "lock" /\ ToLock(h) = {})
                             \/ (pc[h] = "update" /\ req[h].kind = "archive_product")
  BY <1>4, HoldersInPhase
<1>5. CASE /\ \A h \in S : \/ pc[h] = "lock" /\ ToLock(h) # {}
                           \/ pc[h] = "update" /\ req[h].kind # "archive_product"
           /\ Locking # {}
  <2>1. \A h \in Locking : NextToLock(h) \in Product /\ NextToLock(h) \in 0..N
    <3> TAKE h \in Locking
    <3>1. ToLock(h) \in SUBSET Product /\ ToLock(h) # {}
      BY <1>5, WantedProducts DEF ToLock
    <3> QED
      BY <3>1, LeastIsMember DEF NextToLock
  <2> DEFINE Left == {N - NextToLock(h) : h \in Locking}
  <2>2. Left \in SUBSET Nat /\ Left # {}
    BY <1>5, <2>1
  <2>3. PICK h \in Locking : \A u \in Locking : N - NextToLock(h) <= N - NextToLock(u)
    <3>1. PICK x \in Left : \A y \in Left : x <= y
      BY <2>2, NatHasLeast, Zenon
    <3> QED
      BY <3>1
  <2>4. ASSUME NEW u \in S, u # h, WaitsFor(h, u)
        PROVE  FALSE
    <3>1. NextToLock(h) \in locked[u]
      BY <2>3, <2>4, HoldersInPhase
    <3>2. pc[u] = "lock" /\ ToLock(u) # {}
      <4>1. pc[u] = "update" /\ req[u].kind # "archive_product" => locked[u] = {}
        BY DEF IInv, LockInv, LockAt, Holds
      <4> QED
        BY <1>5, <3>1, <4>1
    <3>3. ToLock(u) \in SUBSET Product
      BY WantedProducts DEF ToLock
    <3>4. NextToLock(u) \in ToLock(u)
      BY <3>2, <3>3, LeastIsMember DEF NextToLock
    <3>5. NextToLock(h) < NextToLock(u)
      BY <3>1, <3>2, <3>4 DEF OrderInv
    <3>6. NextToLock(h) \in 0..N /\ NextToLock(u) \in 0..N
      BY <2>1, <3>2
    <3>7. N - NextToLock(h) <= N - NextToLock(u)
      BY <2>3, <3>2
    <3> QED
      BY <3>5, <3>6, <3>7
  <2> QED
    BY <2>4
<1>6. CASE Charges = {} /\ \A h \in S : pc[h] = "update" /\ req[h].kind # "archive_product"
  <2>1. \A u \in S : locked[u] = {}
    BY <1>6 DEF IInv, LockInv, LockAt, Holds
  <2> QED
    BY <1>6, <2>1, HoldersInPhase
<1> QED
  BY <1>1, <1>2, <1>3, <1>4, <1>5, <1>6

\* No set of handlers waits only on each other, for any number of products: the
\* services never make PostgreSQL abort one of them with deadlock_detected.
THEOREM NeverDeadlocked ==
  ASSUME NEW N \in Nat, Product \subseteq 0..N
  PROVE  Spec => []NoDeadlock
<1>1. IInv /\ OrderInv => NoDeadlock
  <2> SUFFICES ASSUME IInv, OrderInv, NEW S \in SUBSET Handler, S # {}
               PROVE  \E h \in S : Blockers(h) \cap S = {}
    BY DEF NoDeadlock
  <2>1. PICK h \in S : \A u \in S : u # h => ~WaitsFor(h, u)
    BY SomeoneIsFree
  <2> QED
    BY <2>1 DEF Blockers
<1>2. Spec => []OrderInv
  BY OrderInit, OrderNext, InvariantHolds, PTL DEF Spec
<1> QED
  BY <1>1, <1>2, InvariantHolds, PTL
=============================================================================
