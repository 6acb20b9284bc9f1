------------------------------- MODULE UnfBridge -------------------------------
(***************************************************************************)
(* Delivery of the outbox to 1C:UNF (fresh_sync.py, processor.py,          *)
(* planner.py, fresh_transport.py): a run reads a page of the outbox and,  *)
(* for each ready operation, finds or creates and posts its documents and  *)
(* confirms them.  1C:UNF has no transaction around these calls.  A call   *)
(* takes effect or not; whatever ends a run early, an exception, a lost    *)
(* answer or the death of the process, is Fail, between any two calls.  A  *)
(* call that has failed takes no effect later.  Dry runs write nothing and *)
(* are left out.                                                           *)
(***************************************************************************)
EXTENDS Naturals, FiniteSets

CONSTANTS
  Item,          \* operations, numbered in the order of the outbox
  Split,         \* adjustments with deltas of both signs
  Blocked,       \* a location, a product or the price type is unknown to 1C:UNF
  Unbuildable,   \* operations whose payload the tenant mapping cannot build
  Ref,           \* Ref_Key values of 1C:UNF, a bound on its documents
  NoRef, NoKey, Nobody,
  Bridge,        \* processes that run the synchronisation
  Locking,       \* those the systemd units start under flock
  Limit,         \* --limit
  PostDocuments, \* post_documents of the tenant mapping
  MaxFailures    \* bound: runs that end early

\* stable_external_key of the documents build_plan makes of an operation.
Keys(i) ==
  IF i \in Split THEN {<<i, "receipt">>, <<i, "writeoff">>} ELSE {<<i, "whole">>}
Key == UNION {Keys(i) : i \in Item}

ASSUME BridgeAssumption ==
  /\ Item \subseteq Nat
  /\ Split \subseteq Item
  /\ Blocked \subseteq Item
  /\ Unbuildable \subseteq Item
  /\ NoRef \notin Ref
  /\ NoKey \notin Key
  /\ Locking \subseteq Bridge
  /\ Nobody \notin Bridge
  /\ Limit \in Nat /\ MaxFailures \in Nat
  /\ PostDocuments \in BOOLEAN

VARIABLES
  recorded,  \* operations the services have committed
  confirmed, \* the documents each operation is confirmed to be
  key,       \* external key of each document of 1C:UNF, NoKey if there is none
  posted,    \* documents Post() has been called for
  lock,      \* who holds bridge.lock
  failures,
  pc,
  todo,      \* ready operations of the page still to be delivered
  written    \* Ref_Key of the documents of the current operation

server == <<recorded, confirmed>>
unf == <<key, posted>>
vars == <<server, unf, lock, failures, pc, todo, written>>

Phases == {"idle", "outbox", "build", "find", "create", "post", "confirm", "write"}

TypeOK ==
  /\ recorded \subseteq Item
  /\ confirmed \in [Item -> SUBSET Ref]
  /\ key \in [Ref -> Key \cup {NoKey}]
  /\ posted \subseteq Ref
  /\ lock \in Bridge \cup {Nobody}
  /\ failures \in 0..MaxFailures
  /\ pc \in [Bridge -> Phases]
  /\ todo \in [Bridge -> SUBSET Item]
  /\ written \in [Bridge -> [Key -> Ref \cup {NoRef}]]
  /\ \A b \in Bridge, k \in Key : written[b][k] # NoRef => key[written[b][k]] = k

NothingWritten == [k \in Key |-> NoRef]

Init ==
  /\ recorded = {}
  /\ confirmed = [i \in Item |-> {}]
  /\ key = [r \in Ref |-> NoKey]
  /\ posted = {}
  /\ lock = Nobody
  /\ failures = 0
  /\ pc = [b \in Bridge |-> "idle"]
  /\ todo = [b \in Bridge |-> {}]
  /\ written = [b \in Bridge |-> NothingWritten]

-----------------------------------------------------------------------------
\* A service commits an operation; commits need not come in the order of the
\* creation times.
Record(i) ==
  /\ i \notin recorded
  /\ recorded' = recorded \cup {i}
  /\ UNCHANGED <<confirmed, unf, lock, failures, pc, todo, written>>

-----------------------------------------------------------------------------
Goto(b, phase) == pc' = [pc EXCEPT ![b] = phase]

\* flock lets go of the lock when the process ends.
Released(b) == IF lock = b THEN Nobody ELSE lock

\* The process ends: it remembers nothing.
End(b) ==
  /\ Goto(b, "idle")
  /\ todo' = [todo EXCEPT ![b] = {}]
  /\ written' = [written EXCEPT ![b] = NothingWritten]
  /\ lock' = Released(b)

\* flock -n: a unit whose lock is taken exits at once, which changes nothing.
Start(b) ==
  /\ pc[b] = "idle"
  /\ b \in Locking => lock = Nobody
  /\ lock' = IF b \in Locking THEN b ELSE lock
  /\ Goto(b, "outbox")
  /\ UNCHANGED <<server, unf, failures, todo, written>>

Waiting == {i \in recorded : confirmed[i] = {}}

\* Mutant: the page starts at the newest operation.
PageNewest == {i \in Waiting : Cardinality({j \in Waiting : j > i}) < Limit}

\* unf_outbox: the oldest operations, documents before handovers, blocked ones too.
Page == {i \in Waiting : Cardinality({j \in Waiting : j < i}) < Limit}

\* The page, read after profile and metadata; run_sync skips blocked operations.
ReadOutbox(b) ==
  LET ready == Page \ Blocked
  IN  /\ pc[b] = "outbox"
      /\ IF ready = {} THEN End(b)
         ELSE /\ todo' = [todo EXCEPT ![b] = ready]
              /\ Goto(b, "build")
              /\ UNCHANGED <<lock, written>>
      /\ UNCHANGED <<server, unf, failures>>

Current(b) == CHOOSE i \in todo[b] : \A j \in todo[b] : i <= j

\* Payloads are built before anything is written; one that cannot be built ends
\* the run with ValueError.
Build(b) ==
  /\ pc[b] = "build"
  /\ IF Current(b) \in Unbuildable THEN End(b)
     ELSE Goto(b, "find") /\ UNCHANGED <<todo, written, lock>>
  /\ UNCHANGED <<server, unf, failures>>

Missing(b) == {k \in Keys(Current(b)) : written[b][k] = NoRef}

\* The planned documents in order: the receipt before the write-off.
NextKey(b) ==
  IF <<Current(b), "receipt">> \in Missing(b) THEN <<Current(b), "receipt">>
  ELSE CHOOSE k \in Missing(b) : TRUE

\* Mutant: an operation is confirmed as soon as one document is there.
AfterFirst(b, missing) == IF missing # Keys(Current(b)) THEN "confirm" ELSE "find"

After(b, missing) == IF missing = {} THEN "confirm" ELSE "find"

\* ensure_document has the reference r for the next key.
Note(b, r) == written' = [written EXCEPT ![b][NextKey(b)] = r]

\* process_item goes on to the next planned document or to the confirmation.
Ensured(b, r) == Note(b, r) /\ Goto(b, After(b, Missing(b) \ {NextKey(b)}))

\* Mutant: create without looking for the key first.
FoundNone(k) == {}

\* Mutant: the search drops the suffix of the key.
FoundByOperation(k) == {r \in Ref : key[r] # NoKey /\ key[r][1] = k[1]}

Found(k) == {r \in Ref : key[r] = k}

\* find_one_by_text_field: one row is the document, two are an error.
Find(b) ==
  /\ pc[b] = "find"
  /\ \/ /\ Found(NextKey(b)) = {}
        /\ Goto(b, "create")
        /\ UNCHANGED <<todo, written, lock>>
     \/ \E r \in Ref :
          /\ Found(NextKey(b)) = {r}
          /\ Ensured(b, r)
          /\ UNCHANGED <<todo, lock>>
     \/ /\ \E r, s \in Found(NextKey(b)) : r # s
        /\ End(b)
  /\ UNCHANGED <<server, unf, failures>>

Unused == {r \in Ref : key[r] = NoKey}
NewRef == CHOOSE r \in Unused : TRUE

\* POST of the document with its external key.
Create(b) ==
  /\ pc[b] = "create"
  /\ Unused # {}
  /\ key' = [key EXCEPT ![NewRef] = NextKey(b)]
  /\ IF PostDocuments THEN Note(b, NewRef) /\ Goto(b, "post") ELSE Ensured(b, NewRef)
  /\ UNCHANGED <<server, posted, lock, failures, todo>>

\* The document this run has just created.
Created(b) ==
  LET i == Current(b)
  IN  IF <<i, "writeoff">> \in Keys(i) \ Missing(b) THEN written[b][<<i, "writeoff">>]
      ELSE written[b][CHOOSE k \in Keys(i) \ Missing(b) : TRUE]

Post(b) ==
  /\ pc[b] = "post"
  /\ posted' = posted \cup {Created(b)}
  /\ Goto(b, After(b, Missing(b)))
  /\ UNCHANGED <<server, key, lock, failures, todo, written>>

\* The references the current operation is confirmed with.
Refs(b) == {written[b][k] : k \in Keys(Current(b))} \ {NoRef}

\* The operation is confirmed: the next one of the page, or the end of the run.
Proceed(b) ==
  LET left == todo[b] \ {Current(b)}
  IN  IF left = {} THEN End(b)
      ELSE /\ todo' = [todo EXCEPT ![b] = left]
           /\ written' = [written EXCEPT ![b] = NothingWritten]
           /\ Goto(b, "build")
           /\ UNCHANGED lock

\* Mutant: the server lets a confirmation through whatever it reads.
LetsAnyThrough(i) == TRUE

\* Nothing is confirmed yet in what the handler has read.
LetsThrough(i) == confirmed[i] = {}

\* confirm_single or confirm_batch: the handler reads what is confirmed, without a
\* lock.  The same set is repeated; another one is HTTP 409, which ends the run.
Confirm(b) ==
  LET i == Current(b)
  IN  /\ pc[b] = "confirm"
      /\ \/ LetsThrough(i) /\ Goto(b, "write") /\ UNCHANGED <<lock, todo, written>>
         \/ ~LetsThrough(i) /\ confirmed[i] = Refs(b) /\ Proceed(b)
         \/ ~LetsThrough(i) /\ confirmed[i] # Refs(b) /\ End(b)
      /\ UNCHANGED <<server, unf, failures>>

\* confirm_export writes whatever was confirmed since its read; a batch then meets
\* the unique keys of the links or the log of the other set, an error to the run.
Writes(i) == i \in Split => confirmed[i] = {}

\* The handler writes and commits.
Write(b) ==
  LET i == Current(b)
  IN  /\ pc[b] = "write"
      /\ IF Writes(i) THEN confirmed' = [confirmed EXCEPT ![i] = Refs(b)] /\ Proceed(b)
         ELSE UNCHANGED confirmed /\ End(b)
      /\ UNCHANGED <<recorded, unf, failures>>

Fail(b) ==
  /\ pc[b] # "idle"
  /\ failures < MaxFailures
  /\ failures' = failures + 1
  /\ End(b)
  /\ UNCHANGED <<server, unf>>

Step(b) ==
  \/ ReadOutbox(b) \/ Build(b) \/ Find(b) \/ Create(b) \/ Post(b)
  \/ Confirm(b) \/ Write(b)

Next ==
  \/ \E i \in Item : Record(i)
  \/ \E b \in Bridge : Start(b) \/ Step(b) \/ Fail(b)

Spec == Init /\ [][Next]_vars

\* The timer starts its unit again and again and a process that lives goes on;
\* operations, operators and failures owe nothing.
FairSpec ==
  /\ Spec
  /\ \A b \in Bridge : WF_vars(Step(b))
  /\ \A b \in Locking : WF_vars(Start(b))

-----------------------------------------------------------------------------
Documents(i) == {r \in Ref : key[r] \in Keys(i)}

\* A key has at most one document in 1C:UNF, whatever calls fail and however often
\* the operation is delivered again (find-before-create).
OneDocumentPerKey ==
  \A r, s \in Ref : key[r] # NoKey /\ key[r] = key[s] => r = s

\* A confirmed operation has a document for each of its keys, and the confirmed
\* references are all documents 1C:UNF has for it.
ConfirmedAreAll ==
  \A i \in Item : confirmed[i] # {} =>
    /\ confirmed[i] = Documents(i)
    /\ \A k \in Keys(i) : \E r \in confirmed[i] : key[r] = k

\* The operation is confirmed and no confirmation of it is on its way any more that
\* was let through before.
Settled(i) ==
  /\ confirmed[i] # {}
  /\ \A b \in Bridge : pc[b] = "write" => Current(b) # i

\* An operator may run the bridge by hand next to the timer and each of them create
\* documents of its own.  The documents a mixed adjustment is confirmed to be never
\* change.  Those of another operation change only by a confirmation let through
\* before anything was confirmed; once none is left, they stay for good.
ConfirmedStays ==
  [][\A i \in Item :
       /\ i \in Split /\ confirmed[i] # {} => confirmed'[i] = confirmed[i]
       /\ Settled(i) => Settled(i)' /\ confirmed'[i] = confirmed[i]]_vars

\* With post_documents set, an operation is complete only when its documents are
\* posted (INTEGRATION_UNF_CLOUD.md, stage 1).
ConfirmedArePosted ==
  PostDocuments => \A i \in Item : confirmed[i] \subseteq posted

\* What stands before operation i: an older ready one that cannot be built, or
\* blocked ones that fill the page.
Obstructed(i) ==
  \/ \E j \in (Waiting \ Blocked) \cap Unbuildable : j <= i
  \/ Cardinality({j \in Waiting \cap Blocked : j < i}) >= Limit

\* Every ready operation nothing stands before is delivered in the end.
Delivered ==
  \A i \in Item :
    i \in recorded \ Blocked ~> confirmed[i] # {} \/ Obstructed(i)
=============================================================================
