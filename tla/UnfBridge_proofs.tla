---------------------------- MODULE UnfBridge_proofs ----------------------------
(***************************************************************************)
(* Proofs about UnfBridge for any number of operations, documents, bridges *)
(* and failures, when every bridge runs under the lock of the units.       *)
(***************************************************************************)
EXTENDS UnfBridge, WellFoundedInduction, TLAPS

-----------------------------------------------------------------------------
(***************************************************************************)
(* Facts about the operators.                                              *)
(***************************************************************************)

\* A nonempty set of numbers has a least one.
LEMMA NatHasLeast ==
  ASSUME NEW S \in SUBSET Nat, S # {}
  PROVE  \E x \in S : \A y \in S : x <= y
<1>1. PICK x \in S : \A y \in S : ~(<<y, x>> \in OpToRel(<, Nat))
  BY WFMin, NatLessThanWellFounded, Zenon
<1>2. \A y \in S : ~(y < x)
  BY <1>1 DEF OpToRel
<1> QED
  BY <1>2

\* A bridge with something left works on one of the operations left.
LEMMA CurrentIsLeft ==
  ASSUME NEW b \in Bridge, todo[b] \in SUBSET Item, todo[b] # {}
  PROVE  Current(b) \in todo[b]
<1>1. todo[b] \in SUBSET Nat
  BY BridgeAssumption
<1>2. \E i \in todo[b] : \A j \in todo[b] : i <= j
  BY <1>1, NatHasLeast
<1> QED
  BY <1>2, Zenon DEF Current

\* No key belongs to two operations.
LEMMA KeysApart ==
  ASSUME NEW i \in Item, NEW j \in Item, Keys(i) \cap Keys(j) # {}
  PROVE  i = j
BY DEF Keys

\* The keys of an operation are keys of the system.
LEMMA KeysAreKeys ==
  ASSUME NEW i \in Item
  PROVE  Keys(i) \subseteq Key /\ Keys(i) # {}
BY DEF Key, Keys

\* The next document of an operation is one of those missing.
LEMMA NextIsMissing ==
  ASSUME NEW b \in Bridge, Missing(b) # {}
  PROVE  NextKey(b) \in Missing(b)
BY Zenon DEF NextKey

-----------------------------------------------------------------------------
(***************************************************************************)
(* The inductive invariant.                                                *)
(***************************************************************************)

\* Only the holder of the lock runs.
HolderInv == \A b \in Bridge : pc[b] # "idle" => lock = b

\* What a bridge has left and has noted in each phase.
WorkInv ==
  \A b \in Bridge :
    /\ pc[b] \notin {"idle", "outbox"} => todo[b] # {}
    /\ pc[b] \in {"idle", "outbox", "build"} => written[b] = NothingWritten
    /\ pc[b] \in {"find", "create"} => Missing(b) # {}
    /\ pc[b] = "post" => Missing(b) # Keys(Current(b))
    /\ pc[b] \in {"confirm", "write"} => Missing(b) = {}

\* Between the search and the creation nobody else creates the document.
CreateInv == \A b \in Bridge : pc[b] = "create" => Found(NextKey(b)) = {}

IInv ==
  /\ TypeOK
  /\ HolderInv
  /\ WorkInv
  /\ CreateInv
  /\ OneDocumentPerKey
  /\ ConfirmedAreAll

\* The initial state satisfies the invariant.
LEMMA InitInv == Init => IInv
<1> SUFFICES ASSUME Init PROVE IInv
  OBVIOUS
<1> USE BridgeAssumption DEF Init
<1>1. TypeOK
  BY DEF TypeOK, Phases, NothingWritten
<1>2. HolderInv /\ WorkInv /\ CreateInv
  BY DEF HolderInv, WorkInv, CreateInv
<1>3. OneDocumentPerKey /\ ConfirmedAreAll
  BY DEF OneDocumentPerKey, ConfirmedAreAll
<1> QED
  BY <1>1, <1>2, <1>3 DEF IInv

\* While a bridge runs, the others are idle.
LEMMA OthersIdle ==
  ASSUME IInv, NEW b \in Bridge, pc[b] # "idle", NEW u \in Bridge, u # b
  PROVE  pc[u] = "idle" /\ written[u] = NothingWritten
<1>1. lock = b /\ (pc[u] # "idle" => lock = u)
  BY DEF IInv, HolderInv
<1>2. pc[u] = "idle"
  BY <1>1
<1> QED
  BY <1>2 DEF IInv, WorkInv

-----------------------------------------------------------------------------
(***************************************************************************)
(* Every action preserves it.                                              *)
(***************************************************************************)

\* An operation recorded disturbs nothing else.
LEMMA RecordInv ==
  ASSUME IInv, NEW i \in Item, Record(i)
  PROVE  IInv'
<1> USE BridgeAssumption DEF IInv
<1>1. /\ recorded' \subseteq Item
      /\ UNCHANGED <<confirmed, unf, lock, failures, pc, todo, written>>
  BY DEF Record, TypeOK
<1>2. TypeOK'
  BY <1>1 DEF TypeOK, unf
<1>3. HolderInv'
  BY <1>1 DEF HolderInv
<1>4. WorkInv'
  BY <1>1 DEF WorkInv, Missing, Current
<1>5. CreateInv'
  BY <1>1 DEF CreateInv, Found, NextKey, Missing, Current, unf
<1>6. OneDocumentPerKey' /\ ConfirmedAreAll'
  BY <1>1 DEF OneDocumentPerKey, ConfirmedAreAll, Documents, unf
<1> QED
  BY <1>2, <1>3, <1>4, <1>5, <1>6

\* The end of a run, early or not, leaves an idle bridge and a free lock.
LEMMA EndInv ==
  ASSUME IInv, NEW b \in Bridge, pc[b] # "idle", End(b),
         UNCHANGED <<recorded, unf>>,
         failures' \in 0..MaxFailures,
         confirmed' \in [Item -> SUBSET Ref],
         ConfirmedAreAll'
  PROVE  IInv'
<1> USE BridgeAssumption
<1>1. /\ pc' = [pc EXCEPT ![b] = "idle"]
      /\ todo' = [todo EXCEPT ![b] = {}]
      /\ written' = [written EXCEPT ![b] = NothingWritten]
      /\ lock' = Nobody
      /\ key' = key /\ posted' = posted
  BY DEF End, Goto, Released, IInv, HolderInv, unf
<1>2. TypeOK'
  BY <1>1 DEF IInv, TypeOK, Phases, NothingWritten
<1>3. \A u \in Bridge : pc'[u] = "idle" /\ written'[u] = NothingWritten
  BY <1>1, OthersIdle DEF IInv, TypeOK
<1>4. HolderInv' /\ WorkInv' /\ CreateInv'
  BY <1>3 DEF HolderInv, WorkInv, CreateInv, NothingWritten
<1>5. OneDocumentPerKey'
  BY <1>1 DEF IInv, OneDocumentPerKey
<1> QED
  BY <1>2, <1>4, <1>5 DEF IInv

\* A bridge that may start is the only one that runs.
LEMMA StartInv ==
  ASSUME IInv, Locking = Bridge, NEW b \in Bridge, Start(b)
  PROVE  IInv'
<1> USE BridgeAssumption
<1>1. /\ lock = Nobody /\ lock' = b
      /\ pc' = [pc EXCEPT ![b] = "outbox"]
      /\ UNCHANGED <<server, unf, failures, todo, written>>
  BY DEF Start, Goto
<1>2. \A u \in Bridge : pc[u] = "idle" /\ written[u] = NothingWritten
  BY <1>1 DEF IInv, HolderInv, WorkInv
<1>3. TypeOK'
  BY <1>1 DEF IInv, TypeOK, Phases, server, unf
<1>4. \A u \in Bridge : pc'[u] = IF u = b THEN "outbox" ELSE "idle"
  BY <1>1, <1>2 DEF IInv, TypeOK
<1>5. HolderInv' /\ CreateInv'
  BY <1>1, <1>4 DEF HolderInv, CreateInv
<1>6. WorkInv'
  BY <1>1, <1>2, <1>4 DEF WorkInv, NothingWritten
<1>7. OneDocumentPerKey' /\ ConfirmedAreAll'
  BY <1>1 DEF IInv, OneDocumentPerKey, ConfirmedAreAll, Documents, server, unf
<1> QED
  BY <1>3, <1>5, <1>6, <1>7 DEF IInv

\* A step of b inside its run: the others stay idle, so that only what b itself
\* relies on has to be shown.
LEMMA RunInv ==
  ASSUME IInv, NEW b \in Bridge, pc[b] # "idle",
         NEW phase \in Phases, pc' = [pc EXCEPT ![b] = phase],
         NEW mine \in SUBSET Item, todo' = [todo EXCEPT ![b] = mine],
         NEW noted \in [Key -> Ref \cup {NoRef}],
         written' = [written EXCEPT ![b] = noted],
         UNCHANGED lock,
         TypeOK', OneDocumentPerKey', ConfirmedAreAll',
         /\ phase \notin {"idle", "outbox"} => mine # {}
         /\ phase \in {"idle", "outbox", "build"} => noted = NothingWritten
         /\ phase \in {"find", "create"} => Missing(b)' # {}
         /\ phase = "post" => Missing(b)' # Keys(Current(b)')
         /\ phase \in {"confirm", "write"} => Missing(b)' = {}
         /\ phase = "create" => (Found(NextKey(b)) = {})'
  PROVE  IInv'
<1>1. \A u \in Bridge : u # b => pc'[u] = "idle" /\ written'[u] = NothingWritten
  BY OthersIdle DEF IInv, TypeOK
<1>2. pc'[b] = phase /\ todo'[b] = mine /\ written'[b] = noted
  BY DEF IInv, TypeOK
<1>3. HolderInv'
  BY <1>1 DEF IInv, HolderInv
<1>4. WorkInv'
  <2> SUFFICES ASSUME NEW u \in Bridge
               PROVE  WorkInv!(u)'
    BY DEF WorkInv
  <2>1. CASE u = b
    BY <2>1, <1>2
  <2>2. CASE u # b
    BY <2>2, <1>1
  <2> QED
    BY <2>1, <2>2
<1>5. CreateInv'
  <2> SUFFICES ASSUME NEW u \in Bridge, pc'[u] = "create"
               PROVE  (Found(NextKey(u)) = {})'
    BY DEF CreateInv
  <2>1. u = b
    BY <1>1
  <2> QED
    BY <2>1, <1>2
<1> QED
  BY <1>3, <1>4, <1>5 DEF IInv

\* The case of RunInv where only the phase of b changes.
LEMMA PhaseInv ==
  ASSUME IInv, NEW b \in Bridge, pc[b] # "idle",
         NEW phase \in Phases, Goto(b, phase),
         UNCHANGED <<lock, todo, written>>,
         TypeOK', OneDocumentPerKey', ConfirmedAreAll',
         /\ phase \notin {"idle", "outbox"} => todo[b] # {}
         /\ phase \in {"idle", "outbox", "build"} => written[b] = NothingWritten
         /\ phase \in {"find", "create"} => Missing(b)' # {}
         /\ phase = "post" => Missing(b)' # Keys(Current(b)')
         /\ phase \in {"confirm", "write"} => Missing(b)' = {}
         /\ phase = "create" => (Found(NextKey(b)) = {})'
  PROVE  IInv'
<1> DEFINE mine == todo[b]
           noted == written[b]
<1>1. pc' = [pc EXCEPT ![b] = phase]
  BY DEF Goto
<1>2. mine \in SUBSET Item /\ todo' = [todo EXCEPT ![b] = mine]
  BY DEF IInv, TypeOK
<1>3. /\ noted \in [Key -> Ref \cup {NoRef}]
      /\ written' = [written EXCEPT ![b] = noted]
  BY DEF IInv, TypeOK
<1>4. /\ phase \notin {"idle", "outbox"} => mine # {}
      /\ phase \in {"idle", "outbox", "build"} => noted = NothingWritten
  OBVIOUS
<1> HIDE DEF mine, noted
<1> QED
  BY <1>1, <1>2, <1>3, <1>4, RunInv

\* The documents and the confirmations of 1C:UNF that an action leaves alone keep
\* their invariants.
LEMMA SameDocuments ==
  ASSUME IInv, UNCHANGED <<confirmed, key>>
  PROVE  OneDocumentPerKey' /\ ConfirmedAreAll'
BY DEF IInv, OneDocumentPerKey, ConfirmedAreAll, Documents

LEMMA ReadOutboxInv ==
  ASSUME IInv, NEW b \in Bridge, ReadOutbox(b)
  PROVE  IInv'
<1> USE BridgeAssumption
<1> DEFINE ready == Page \ Blocked
<1>1. ready \in SUBSET Item
  BY DEF IInv, TypeOK, Page, Waiting
<1>2. pc[b] = "outbox" /\ UNCHANGED <<server, unf, failures>>
  BY DEF ReadOutbox
<1>3. OneDocumentPerKey' /\ ConfirmedAreAll'
  BY <1>2, SameDocuments DEF server, unf
<1>4. CASE ready = {}
  <2>1. End(b)
    BY <1>4 DEF ReadOutbox
  <2> QED
    BY <2>1, <1>2, <1>3, EndInv DEF IInv, TypeOK, server
<1>5. CASE ready # {}
  <2>1. /\ todo' = [todo EXCEPT ![b] = ready]
        /\ pc' = [pc EXCEPT ![b] = "build"]
        /\ UNCHANGED <<lock, written>>
    BY <1>5 DEF ReadOutbox, Goto
  <2>2. /\ written' = [written EXCEPT ![b] = NothingWritten]
        /\ NothingWritten \in [Key -> Ref \cup {NoRef}]
    BY <1>2, <2>1 DEF IInv, WorkInv, TypeOK, NothingWritten
  <2>3. TypeOK'
    BY <1>1, <1>2, <2>1 DEF IInv, TypeOK, Phases, server, unf
  <2> HIDE DEF ready
  <2> QED
    BY <1>1, <1>2, <1>3, <1>5, <2>1, <2>2, <2>3, RunInv DEF Phases
<1> QED
  BY <1>4, <1>5

LEMMA BuildInv ==
  ASSUME IInv, NEW b \in Bridge, Build(b)
  PROVE  IInv'
<1> USE BridgeAssumption
<1>1. pc[b] = "build" /\ UNCHANGED <<server, unf, failures>>
  BY DEF Build
<1>2. OneDocumentPerKey' /\ ConfirmedAreAll'
  BY <1>1, SameDocuments DEF server, unf
<1>3. CASE End(b)
  BY <1>1, <1>2, <1>3, EndInv DEF IInv, TypeOK, server
<1>4. CASE Goto(b, "find") /\ UNCHANGED <<todo, written, lock>>
  <2>1. todo[b] \in SUBSET Item /\ todo[b] # {} /\ written[b] = NothingWritten
    BY <1>1 DEF IInv, TypeOK, WorkInv
  <2>2. Missing(b)' # {}
    <3>1. Current(b) \in Item
      BY <2>1, CurrentIsLeft
    <3>2. Current(b)' = Current(b) /\ written'[b] = NothingWritten
      BY <1>4, <2>1 DEF Current
    <3> QED
      BY <3>1, <3>2, KeysAreKeys DEF Missing, NothingWritten
  <2>3. TypeOK'
    BY <1>1, <1>4 DEF IInv, TypeOK, Goto, Phases, server, unf
  <2> QED
    BY <1>1, <1>2, <1>4, <2>1, <2>2, <2>3, PhaseInv DEF Phases
<1> QED
  BY <1>3, <1>4 DEF Build

\* Noting a document for the next key leaves the other keys missing.
LEMMA NoteKeeps ==
  ASSUME IInv, NEW b \in Bridge, pc[b] \in {"find", "create"},
         NEW r \in Ref, Note(b, r), UNCHANGED todo
  PROVE  /\ NextKey(b) \in Missing(b) /\ NextKey(b) \in Keys(Current(b))
         /\ NextKey(b) \in Key
         /\ written' = [written EXCEPT ![b] = [written[b] EXCEPT ![NextKey(b)] = r]]
         /\ [written[b] EXCEPT ![NextKey(b)] = r] \in [Key -> Ref \cup {NoRef}]
         /\ Current(b)' = Current(b)
         /\ Missing(b)' = Missing(b) \ {NextKey(b)}
<1> USE BridgeAssumption
<1>1. todo[b] \in SUBSET Item /\ todo[b] # {} /\ Missing(b) # {}
  BY DEF IInv, TypeOK, WorkInv
<1>2. Current(b) \in Item
  BY <1>1, CurrentIsLeft
<1>3. NextKey(b) \in Missing(b)
  BY <1>1, NextIsMissing
<1>4. NextKey(b) \in Keys(Current(b)) /\ Keys(Current(b)) \subseteq Key
  BY <1>2, <1>3, KeysAreKeys DEF Missing
<1>5. written' = [written EXCEPT ![b] = [written[b] EXCEPT ![NextKey(b)] = r]]
  BY DEF Note
<1>6. [written[b] EXCEPT ![NextKey(b)] = r] \in [Key -> Ref \cup {NoRef}]
  BY DEF IInv, TypeOK
<1>7. Current(b)' = Current(b)
  BY DEF Current
<1>8. Missing(b)' = Missing(b) \ {NextKey(b)}
  <2>1. \A k \in Keys(Current(b)) :
          written'[b][k] = IF k = NextKey(b) THEN r ELSE written[b][k]
    BY <1>4, <1>5 DEF IInv, TypeOK
  <2>2. r # NoRef
    BY BridgeAssumption
  <2> QED
    BY <1>7, <2>1, <2>2 DEF Missing
<1> QED
  BY <1>3, <1>4, <1>5, <1>6, <1>7, <1>8

\* A document found under the next key is the one it is confirmed with.
LEMMA FindInv ==
  ASSUME IInv, NEW b \in Bridge, Find(b)
  PROVE  IInv'
<1> USE BridgeAssumption
<1>1. pc[b] = "find" /\ UNCHANGED <<server, unf, failures>>
  BY DEF Find
<1>2. OneDocumentPerKey' /\ ConfirmedAreAll'
  BY <1>1, SameDocuments DEF server, unf
<1>3. todo[b] \in SUBSET Item /\ todo[b] # {} /\ Missing(b) # {}
  BY <1>1 DEF IInv, TypeOK, WorkInv
<1>4. CASE Found(NextKey(b)) = {} /\ Goto(b, "create") /\ UNCHANGED <<todo, written, lock>>
  <2>1. UNCHANGED <<Missing(b), Current(b), NextKey(b)>>
    BY <1>4 DEF Missing, Current, NextKey
  <2>2. (Found(NextKey(b)) = {})'
    BY <1>1, <1>4, <2>1 DEF Found, unf
  <2>3. TypeOK'
    BY <1>1, <1>4 DEF IInv, TypeOK, Goto, Phases, server, unf
  <2> QED
    BY <1>1, <1>2, <1>3, <1>4, <2>1, <2>2, <2>3, PhaseInv DEF Phases
<1>5. ASSUME NEW r \in Ref, Found(NextKey(b)) = {r}, Ensured(b, r), UNCHANGED <<todo, lock>>
      PROVE  IInv'
  <2> DEFINE phase == After(b, Missing(b) \ {NextKey(b)})
             noted == [written[b] EXCEPT ![NextKey(b)] = r]
  <2>1. Note(b, r) /\ pc' = [pc EXCEPT ![b] = phase]
    BY <1>5 DEF Ensured, Goto
  <2>2. /\ NextKey(b) \in Key
        /\ written' = [written EXCEPT ![b] = noted]
        /\ noted \in [Key -> Ref \cup {NoRef}]
        /\ Missing(b)' = Missing(b) \ {NextKey(b)}
    BY <1>1, <1>5, <2>1, NoteKeeps
  <2>3. key[r] = NextKey(b)
    BY <1>5 DEF Found
  <2>4. TypeOK'
    BY <1>1, <1>5, <2>1, <2>2, <2>3 DEF IInv, TypeOK, Phases, After, server, unf
  <2>5. /\ phase \in {"find", "confirm"}
        /\ phase = "find" => Missing(b)' # {}
        /\ phase = "confirm" => Missing(b)' = {}
    BY <2>2 DEF After
  <2>6. todo' = [todo EXCEPT ![b] = todo[b]]
    BY <1>5 DEF IInv, TypeOK
  <2> HIDE DEF phase, noted
  <2> QED
    BY <1>1, <1>2, <1>3, <1>5, <2>1, <2>2, <2>4, <2>5, <2>6, RunInv DEF Phases
<1>6. CASE End(b)
  BY <1>1, <1>2, <1>6, EndInv DEF IInv, TypeOK, server
<1> QED
  BY <1>4, <1>5, <1>6 DEF Find

\* The search before the creation found nothing and nobody else runs, so the new
\* document is the only one with its key.
LEMMA CreateKeeps ==
  ASSUME IInv, NEW b \in Bridge, Create(b)
  PROVE  IInv'
<1> USE BridgeAssumption
<1> DEFINE r == NewRef
           k == NextKey(b)
           noted == [written[b] EXCEPT ![k] = r]
           phase == IF PostDocuments THEN "post" ELSE After(b, Missing(b) \ {k})
<1>1. /\ pc[b] = "create" /\ Unused # {}
      /\ key' = [key EXCEPT ![r] = k]
      /\ Note(b, r) /\ pc' = [pc EXCEPT ![b] = phase]
      /\ UNCHANGED <<server, posted, lock, failures, todo>>
  BY DEF Create, Ensured, Goto
<1>2. r \in Ref /\ key[r] = NoKey
  BY <1>1, Zenon DEF NewRef, Unused
<1>3. /\ k \in Missing(b) /\ k \in Keys(Current(b)) /\ k \in Key
      /\ written' = [written EXCEPT ![b] = noted]
      /\ noted \in [Key -> Ref \cup {NoRef}]
      /\ Current(b)' = Current(b)
      /\ Missing(b)' = Missing(b) \ {k}
  BY <1>1, <1>2, NoteKeeps
<1>4. \A s \in Ref : key[s] # k
  BY <1>1 DEF IInv, CreateInv, Found
<1>5. todo[b] \in SUBSET Item /\ todo[b] # {} /\ Current(b) \in Item
  BY <1>1, CurrentIsLeft DEF IInv, TypeOK, WorkInv
<1> HIDE DEF r, k
<1>6. \A s \in Ref : key'[s] = IF s = r THEN k ELSE key[s]
  BY <1>1, <1>2 DEF IInv, TypeOK
<1>7. OneDocumentPerKey'
  BY <1>4, <1>6 DEF IInv, OneDocumentPerKey
<1>8. ConfirmedAreAll'
  <2> SUFFICES ASSUME NEW i \in Item, confirmed[i] # {}
               PROVE  /\ confirmed[i] = Documents(i)'
                      /\ \A q \in Keys(i) : \E s \in confirmed[i] : key'[s] = q
    BY <1>1 DEF ConfirmedAreAll, server
  <2>1. /\ confirmed[i] = Documents(i)
        /\ \A q \in Keys(i) : \E s \in confirmed[i] : key[s] = q
    BY DEF IInv, ConfirmedAreAll
  <2>2. confirmed[i] \subseteq Ref
    BY DEF IInv, TypeOK
  <2>3. k \notin Keys(i)
    BY <1>4, <2>1, <2>2
  <2>4. NoKey \notin Keys(i)
    BY KeysAreKeys
  <2>5. Documents(i)' = Documents(i)
    BY <1>2, <1>6, <2>3, <2>4 DEF Documents
  <2>6. r \notin confirmed[i]
    BY <1>2, <2>1, <2>4 DEF Documents
  <2> QED
    BY <1>6, <2>1, <2>2, <2>5, <2>6
<1>9. /\ phase \in {"post", "find", "confirm"}
      /\ phase = "post" => Missing(b)' # Keys(Current(b)')
      /\ phase = "find" => Missing(b)' # {}
      /\ phase = "confirm" => Missing(b)' = {}
  BY <1>3 DEF After
<1>10. TypeOK'
  <2>1. \A u \in Bridge, q \in Key : written'[u][q] # NoRef => key'[written'[u][q]] = q
    <3> SUFFICES ASSUME NEW u \in Bridge, NEW q \in Key, written'[u][q] # NoRef
                 PROVE  key'[written'[u][q]] = q
      OBVIOUS
    <3>1. CASE u = b /\ q = k
      BY <3>1, <1>2, <1>3, <1>6 DEF IInv, TypeOK
    <3>2. CASE ~(u = b /\ q = k)
      <4>1. written'[u][q] = written[u][q]
        BY <3>2, <1>3 DEF IInv, TypeOK
      <4>2. written[u][q] \in Ref /\ key[written[u][q]] = q
        BY <4>1 DEF IInv, TypeOK
      <4>3. q # NoKey
        OBVIOUS
      <4> QED
        BY <4>1, <4>2, <4>3, <1>2, <1>6
    <3> QED
      BY <3>1, <3>2
  <2>2. key' \in [Ref -> Key \cup {NoKey}] /\ written' \in [Bridge -> [Key -> Ref \cup {NoRef}]]
    BY <1>1, <1>3 DEF IInv, TypeOK
  <2>3. pc' \in [Bridge -> Phases]
    BY <1>1, <1>9 DEF IInv, TypeOK, Phases
  <2> QED
    BY <1>1, <2>1, <2>2, <2>3 DEF IInv, TypeOK, server
<1>11. todo' = [todo EXCEPT ![b] = todo[b]]
  BY <1>1 DEF IInv, TypeOK
<1> DEFINE mine == todo[b]
<1>12. mine \in SUBSET Item /\ mine # {} /\ todo' = [todo EXCEPT ![b] = mine]
  BY <1>5, <1>11
<1> HIDE DEF mine, noted, phase
<1> QED
  BY <1>1, <1>3, <1>7, <1>8, <1>9, <1>10, <1>12, RunInv DEF Phases

\* Posting touches no key and no reference the bridge has noted.
LEMMA PostInv ==
  ASSUME IInv, NEW b \in Bridge, Post(b)
  PROVE  IInv'
<1> USE BridgeAssumption
<1>1. /\ pc[b] = "post" /\ posted' = posted \cup {Created(b)}
      /\ Goto(b, After(b, Missing(b)))
      /\ UNCHANGED <<server, key, lock, failures, todo, written>>
  BY DEF Post
<1>2. OneDocumentPerKey' /\ ConfirmedAreAll'
  BY <1>1, SameDocuments DEF server
<1>3. /\ todo[b] \in SUBSET Item /\ todo[b] # {} /\ Current(b) \in Item
      /\ Missing(b) # Keys(Current(b))
  BY <1>1, CurrentIsLeft DEF IInv, TypeOK, WorkInv
<1>4. Created(b) \in Ref
  <2>1. \E k \in Keys(Current(b)) : k \in Keys(Current(b)) \ Missing(b)
    BY <1>3 DEF Missing
  <2>2. \E k \in Keys(Current(b)) \ Missing(b) : Created(b) = written[b][k]
    BY <2>1, Zenon DEF Created
  <2>3. PICK k \in Keys(Current(b)) \ Missing(b) : Created(b) = written[b][k]
    BY <2>2
  <2>4. k \in Key /\ written[b][k] # NoRef
    BY <1>3, <2>3, KeysAreKeys DEF Missing
  <2>5. written[b][k] \in Ref \cup {NoRef}
    BY <2>4 DEF IInv, TypeOK
  <2> QED
    BY <2>3, <2>4, <2>5
<1>5. Missing(b)' = Missing(b)
  BY <1>1 DEF Missing, Current
<1>6. /\ After(b, Missing(b)) \in {"find", "confirm"}
      /\ After(b, Missing(b)) = "find" => Missing(b) # {}
      /\ After(b, Missing(b)) = "confirm" => Missing(b) = {}
  BY DEF After
<1>7. TypeOK'
  BY <1>1, <1>4, <1>6 DEF IInv, TypeOK, Goto, Phases, server
<1> QED
  BY <1>1, <1>2, <1>3, <1>5, <1>6, <1>7, PhaseInv DEF Phases

\* All documents of the operation are noted, and 1C:UNF has no other.
LEMMA AllNoted ==
  ASSUME IInv, NEW b \in Bridge, pc[b] \in {"confirm", "write"}
  PROVE  /\ todo[b] \in SUBSET Item /\ Current(b) \in Item
         /\ Refs(b) = Documents(Current(b))
         /\ \A k \in Keys(Current(b)) : \E r \in Refs(b) : key[r] = k
<1> USE BridgeAssumption
<1> DEFINE i == Current(b)
<1>1. /\ todo[b] \in SUBSET Item /\ todo[b] # {} /\ i \in Item /\ Missing(b) = {}
  BY CurrentIsLeft DEF IInv, TypeOK, WorkInv
<1>2. \A k \in Keys(i) : written[b][k] \in Ref /\ key[written[b][k]] = k
  <2> SUFFICES ASSUME NEW k \in Keys(i)
               PROVE  written[b][k] \in Ref /\ key[written[b][k]] = k
    OBVIOUS
  <2>1. k \in Key /\ written[b][k] # NoRef
    BY <1>1, KeysAreKeys DEF Missing
  <2> QED
    BY <2>1 DEF IInv, TypeOK
<1>3. Refs(b) \subseteq Documents(i)
  BY <1>2 DEF Refs, Documents
<1>4. ASSUME NEW r \in Documents(i) PROVE r \in Refs(b)
  <2>1. r \in Ref /\ key[r] \in Keys(i)
    BY DEF Documents
  <2>2. key[r] # NoKey
    BY <1>1, <2>1, KeysAreKeys
  <2>3. written[b][key[r]] = r
    BY <1>2, <2>1, <2>2 DEF IInv, OneDocumentPerKey
  <2> QED
    BY <2>1, <2>3 DEF Refs
<1> QED
  BY <1>1, <1>2, <1>3, <1>4 DEF Refs

\* A bridge that goes on to the next operation, or ends, has forgotten the last one.
LEMMA ProceedInv ==
  ASSUME IInv, NEW b \in Bridge, pc[b] \in {"confirm", "write"}, Proceed(b),
         UNCHANGED <<recorded, unf, failures>>,
         confirmed' \in [Item -> SUBSET Ref],
         ConfirmedAreAll'
  PROVE  IInv'
<1> USE BridgeAssumption
<1> DEFINE left == todo[b] \ {Current(b)}
<1>1. left \in SUBSET Item
  BY AllNoted
<1>2. OneDocumentPerKey'
  BY DEF IInv, OneDocumentPerKey, unf
<1>3. CASE End(b)
  BY <1>3, EndInv DEF IInv, TypeOK
<1>4. CASE /\ left # {}
           /\ todo' = [todo EXCEPT ![b] = left]
           /\ written' = [written EXCEPT ![b] = NothingWritten]
           /\ Goto(b, "build") /\ UNCHANGED lock
  <2>1. NothingWritten \in [Key -> Ref \cup {NoRef}]
    BY DEF NothingWritten
  <2>2. pc' = [pc EXCEPT ![b] = "build"]
    BY <1>4 DEF Goto
  <2>3. TypeOK'
    BY <1>1, <1>4, <2>1, <2>2 DEF IInv, TypeOK, Phases, NothingWritten, unf
  <2> HIDE DEF left
  <2> QED
    BY <1>1, <1>2, <1>4, <2>1, <2>2, <2>3, RunInv DEF Phases
<1> QED
  BY <1>3, <1>4 DEF Proceed

LEMMA ConfirmInv ==
  ASSUME IInv, NEW b \in Bridge, Confirm(b)
  PROVE  IInv'
<1> USE BridgeAssumption
<1>1. pc[b] = "confirm" /\ UNCHANGED <<server, unf, failures>>
  BY DEF Confirm
<1>2. OneDocumentPerKey' /\ ConfirmedAreAll'
  BY <1>1, SameDocuments DEF server, unf
<1>3. confirmed' \in [Item -> SUBSET Ref]
  BY <1>1 DEF IInv, TypeOK, server
<1>4. CASE Goto(b, "write") /\ UNCHANGED <<lock, todo, written>>
  <2>1. Missing(b)' = {} /\ todo[b] # {}
    BY <1>1, <1>4 DEF IInv, WorkInv, Missing, Current
  <2>2. TypeOK'
    BY <1>1, <1>4 DEF IInv, TypeOK, Goto, Phases, server, unf
  <2> QED
    BY <1>1, <1>2, <1>4, <2>1, <2>2, PhaseInv DEF Phases
<1>5. CASE Proceed(b)
  BY <1>1, <1>2, <1>3, <1>5, ProceedInv DEF server
<1>6. CASE End(b)
  BY <1>1, <1>2, <1>3, <1>6, EndInv DEF IInv, TypeOK, server
<1> QED
  BY <1>4, <1>5, <1>6 DEF Confirm

\* What is written is all 1C:UNF has, so that a set confirmed before is this one.
LEMMA WriteKeeps ==
  ASSUME IInv, NEW b \in Bridge, Write(b)
  PROVE  /\ confirmed' \in [Item -> SUBSET Ref]
         /\ ConfirmedAreAll'
         /\ \A i \in Item : confirmed[i] # {} => confirmed'[i] = confirmed[i]
<1> USE BridgeAssumption
<1> DEFINE i == Current(b)
<1>1. pc[b] = "write" /\ UNCHANGED <<recorded, unf, failures>>
  BY DEF Write
<1>2. /\ i \in Item /\ Refs(b) = Documents(i)
      /\ \A k \in Keys(i) : \E r \in Refs(b) : key[r] = k
  BY <1>1, AllNoted
<1>3. CASE confirmed' = [confirmed EXCEPT ![i] = Refs(b)]
  <2>1. confirmed' \in [Item -> SUBSET Ref]
    BY <1>2, <1>3 DEF IInv, TypeOK, Documents
  <2>2. \A j \in Item : confirmed'[j] = IF j = i THEN Refs(b) ELSE confirmed[j]
    BY <1>2, <1>3 DEF IInv, TypeOK
  <2>3. \A j \in Item : Documents(j)' = Documents(j)
    BY <1>1 DEF Documents, unf
  <2> HIDE DEF i
  <2> QED
    BY <1>1, <1>2, <2>1, <2>2, <2>3 DEF ConfirmedAreAll, IInv, unf
<1>4. CASE UNCHANGED confirmed
  BY <1>1, <1>4, SameDocuments DEF IInv, TypeOK, unf
<1> QED
  BY <1>3, <1>4 DEF Write

LEMMA WriteInv ==
  ASSUME IInv, NEW b \in Bridge, Write(b)
  PROVE  IInv'
<1>1. pc[b] = "write" /\ UNCHANGED <<recorded, unf, failures>>
  BY DEF Write
<1>2. confirmed' \in [Item -> SUBSET Ref] /\ ConfirmedAreAll'
  BY WriteKeeps
<1>3. CASE Proceed(b)
  BY <1>1, <1>2, <1>3, ProceedInv
<1>4. CASE End(b)
  BY <1>1, <1>2, <1>4, EndInv DEF IInv, TypeOK
<1> QED
  BY <1>3, <1>4 DEF Write

LEMMA FailInv ==
  ASSUME IInv, NEW b \in Bridge, Fail(b)
  PROVE  IInv'
<1> USE BridgeAssumption
<1>1. pc[b] # "idle" /\ End(b) /\ failures' \in 0..MaxFailures /\ UNCHANGED <<server, unf>>
  BY DEF Fail, IInv, TypeOK
<1>2. ConfirmedAreAll'
  BY <1>1, SameDocuments DEF server, unf
<1> QED
  BY <1>1, <1>2, EndInv DEF IInv, TypeOK, server

LEMMA StutterInv ==
  ASSUME IInv, UNCHANGED vars
  PROVE  IInv'
<1>1. UNCHANGED <<recorded, confirmed, key, posted, lock, failures, pc, todo, written>>
  BY DEF vars, server, unf
<1>2. TypeOK' /\ OneDocumentPerKey' /\ ConfirmedAreAll'
  BY <1>1, SameDocuments DEF IInv, TypeOK
<1>3. HolderInv' /\ WorkInv' /\ CreateInv'
  BY <1>1 DEF IInv, HolderInv, WorkInv, CreateInv, Missing, Current, NextKey, Found
<1> QED
  BY <1>2, <1>3 DEF IInv

-----------------------------------------------------------------------------
(***************************************************************************)
(* The theorems.                                                           *)
(***************************************************************************)

\* Every reachable state satisfies the invariant.
LEMMA Invariance ==
  ASSUME Locking = Bridge
  PROVE  Spec => []IInv
<1>1. IInv /\ [Next]_vars => IInv'
  BY RecordInv, StartInv, ReadOutboxInv, BuildInv, FindInv, CreateKeeps, PostInv,
     ConfirmInv, WriteInv, FailInv, StutterInv DEF Next, Step
<1> QED
  BY InitInv, <1>1, PTL DEF Spec

\* When every run is started under the lock, 1C:UNF has at most one document for a
\* key, however runs end and operations are delivered again.
THEOREM NoDuplicates ==
  ASSUME Locking = Bridge
  PROVE  Spec => []OneDocumentPerKey
BY Invariance, PTL DEF IInv

\* A confirmed operation is confirmed with all its documents and no other exists.
THEOREM NothingForgotten ==
  ASSUME Locking = Bridge
  PROVE  Spec => []ConfirmedAreAll
BY Invariance, PTL DEF IInv

\* The variables keep their types, and what a bridge has noted is what it looks for.
THEOREM BridgeTypeCorrect ==
  ASSUME Locking = Bridge
  PROVE  Spec => []TypeOK
BY Invariance, PTL DEF IInv

\* Only the write of a confirmation changes what operations are confirmed to be.
LEMMA OnlyWriteConfirms ==
  ASSUME [Next]_vars, confirmed' # confirmed
  PROVE  \E b \in Bridge : Write(b)
BY DEF Next, Record, Start, Step, ReadOutbox, Build, Find, Create, Post, Confirm, Fail,
       vars, server

\* A confirmation on its way was before the step, or is let through by it.
LEMMA OnTheirWay ==
  ASSUME [Next]_vars, DOMAIN pc = Bridge, DOMAIN todo = Bridge,
         NEW b \in Bridge, pc'[b] = "write"
  PROVE  /\ Current(b)' = Current(b)
         /\ pc[b] # "write" => confirmed[Current(b)] = {}
<1>1. CASE UNCHANGED vars
  BY <1>1 DEF vars, Current
<1>2. CASE \E i \in Item : Record(i)
  BY <1>2 DEF Record, Current
<1>3. ASSUME NEW u \in Bridge, Start(u) \/ Step(u) \/ Fail(u), u # b
      PROVE  pc'[b] = pc[b] /\ todo'[b] = todo[b]
  BY <1>3 DEF Start, Step, ReadOutbox, Build, Find, Create, Post, Confirm, Write, Fail,
              Ensured, Proceed, End, Goto
<1>4. CASE Start(b) \/ Fail(b) \/ ReadOutbox(b) \/ Build(b) \/ Find(b) \/ Create(b)
           \/ Post(b) \/ Write(b)
  BY <1>4 DEF Start, ReadOutbox, Build, Find, Create, Post, Write, Fail, Ensured, After,
              Proceed, End, Goto
<1>5. CASE Confirm(b)
  <2>1. LetsThrough(Current(b)) /\ UNCHANGED todo /\ pc[b] # "write"
    BY <1>5 DEF Confirm, Proceed, End, Goto
  <2> QED
    BY <2>1 DEF LetsThrough, Current
<1> QED
  BY <1>1, <1>2, <1>3, <1>4, <1>5 DEF Next, Step, Current

\* When every run is started under the lock, what an operation is confirmed to be
\* never changes, although confirm_export would replace it.
THEOREM ConfirmedUnderLock ==
  ASSUME Locking = Bridge
  PROVE  Spec => [][\A i \in Item : confirmed[i] # {} => confirmed'[i] = confirmed[i]]_vars
<1> DEFINE Kept == \A i \in Item : confirmed[i] # {} => confirmed'[i] = confirmed[i]
<1>1. IInv /\ [Next]_vars => Kept
  BY OnlyWriteConfirms, WriteKeeps
<1> QED
  BY <1>1, Invariance, PTL DEF Spec

\* A mixed adjustment stays confirmed to be what it is whoever runs the bridge, with
\* the lock or without; any other operation does once no confirmation that was let
\* through before is on its way: a later one is let through only to repeat the set.
THEOREM ConfirmedForGood == Spec => ConfirmedStays
<1> DEFINE Rows == DOMAIN confirmed = Item /\ DOMAIN pc = Bridge /\ DOMAIN todo = Bridge
           Kept == \A i \in Item :
                     /\ i \in Split /\ confirmed[i] # {} => confirmed'[i] = confirmed[i]
                     /\ Settled(i) => Settled(i)' /\ confirmed'[i] = confirmed[i]
<1>1. Rows /\ [Next]_vars => Rows'
  BY DEF Next, Record, Start, Step, ReadOutbox, Build, Find, Create, Post, Confirm, Write,
         Fail, Ensured, Proceed, End, Goto, vars, server
<1>2. ASSUME Rows, [Next]_vars, NEW i \in Item, confirmed[i] # {},
             confirmed'[i] # confirmed[i]
      PROVE  i \notin Split /\ ~Settled(i)
  <2>1. PICK b \in Bridge : Write(b)
    BY <1>2, OnlyWriteConfirms
  <2>2. /\ pc[b] = "write" /\ Writes(Current(b))
        /\ confirmed' = [confirmed EXCEPT ![Current(b)] = Refs(b)]
    BY <1>2, <2>1 DEF Write
  <2>3. i = Current(b)
    BY <1>2, <2>2
  <2> QED
    BY <1>2, <2>2, <2>3 DEF Writes, Settled
<1>3. ASSUME Rows, [Next]_vars, NEW i \in Item, Settled(i)
      PROVE  Settled(i)'
  <2>1. confirmed'[i] # {}
    BY <1>2, <1>3 DEF Settled
  <2>2. ASSUME NEW b \in Bridge, pc'[b] = "write" PROVE Current(b)' # i
    BY <1>3, <2>2, OnTheirWay DEF Settled
  <2> QED
    BY <2>1, <2>2 DEF Settled
<1>4. Rows /\ [Next]_vars => Kept
  BY <1>2, <1>3 DEF Settled
<1>5. Init => Rows
  BY DEF Init
<1> QED
  BY <1>1, <1>4, <1>5, PTL DEF Spec, ConfirmedStays
=============================================================================
