-------------------------- MODULE ExportConfirm_proofs --------------------------
(***************************************************************************)
(* Proofs about ExportConfirm for any number of operations, documents of   *)
(* 1C:UNF and concurrent confirmations.                                    *)
(***************************************************************************)
EXTENDS ExportConfirm, TLAPS

-----------------------------------------------------------------------------
(***************************************************************************)
(* Facts about the operators.                                              *)
(***************************************************************************)

\* A confirmation names an entity and at least one id.
LEMMA ConfirmationIds ==
  ASSUME NEW r \in Confirmation
  PROVE  /\ r.path \in {"single", "batch"}
         /\ r.entity \in Entity
         /\ r.ids \in SUBSET External
         /\ r.ids # {}
         /\ r.path = "single" => WritesId(r)
         /\ r.path = "batch" => r.entity \in Document
<1>1. r \in ConfirmationRecord
  BY ExportAssumption
<1>2. r.path \in {"single", "batch"} /\ r.entity \in Entity /\ r.ids \in SUBSET External
  BY <1>1 DEF ConfirmationRecord
<1>3. r.path = "single" => \E i \in External : r.ids = {i}
  BY ExportAssumption
<1>4. r.path = "batch" => r.entity \in Document /\ \E i, j \in External : r.ids = {i, j}
  BY ExportAssumption
<1> QED
  BY <1>2, <1>3, <1>4 DEF WritesId

\* The id that a commit writes is the only one of its confirmation.
LEMMA OnlyId ==
  ASSUME NEW r \in Confirmation, WritesId(r)
  PROVE  /\ (CHOOSE id \in r.ids : TRUE) \in External
         /\ r.ids = {CHOOSE id \in r.ids : TRUE}
<1>1. PICK i \in External : r.ids = {i}
  BY DEF WritesId
<1>2. (CHOOSE id \in r.ids : TRUE) \in r.ids
  BY <1>1
<1> QED
  BY <1>1, <1>2

\* A handler that is not idle has a confirmation.
LEMMA HasRequest ==
  ASSUME TypeOK, NEW h \in Handler, pc[h] # "idle"
  PROVE  req[h] \in Confirmation
BY DEF TypeOK

-----------------------------------------------------------------------------
(***************************************************************************)
(* The inductive invariant, whatever the bridge sends.                     *)
(***************************************************************************)

\* Only a batch reads links; one that only marks its document has found its ids there.
PhaseInv ==
  \A h \in Handler :
    /\ pc[h] \in {"links", "free", "sync"} => req[h].path = "batch"
    /\ pc[h] = "sync" => LinkedTo(req[h].entity) = req[h].ids

\* Two handlers with flushed rows work on different entities and insert different links.
ApartInv ==
  \A h, u \in Flushed : h # u =>
    /\ req[h].entity # req[u].entity
    /\ req[h].path = "batch" /\ req[u].path = "batch" => req[h].ids \cap req[u].ids = {}

\* The ids of a flushed batch are linked to no document yet.
KeyInv ==
  \A h \in Flushed : req[h].path = "batch" =>
    \A d \in Document : LinkedTo(d) \cap req[h].ids = {}

\* The log a handler has compared with is still the one it writes over.
LogInv == \A h \in Handler : pc[h] = "commit" => LogFits(req[h])

\* The log of the batch tells the links of its document.
LinksInv == \A d \in Document : LinkedTo(d) = batch_log[d]

IInv ==
  /\ TypeOK
  /\ PhaseInv
  /\ ApartInv
  /\ KeyInv
  /\ LogInv
  /\ LinksInv
  /\ SyncedIffConfirmed
  /\ LinkOfOneDocument

\* The initial state satisfies the invariant.
LEMMA InitInv == Init => IInv
<1> SUFFICES ASSUME Init PROVE IInv
  OBVIOUS
<1> USE ExportAssumption DEF Init
<1>1. TypeOK
  BY DEF TypeOK, Phases, Replies, NoConfirmation
<1>2. PhaseInv /\ ApartInv /\ KeyInv /\ LogInv
  BY DEF PhaseInv, ApartInv, KeyInv, LogInv, Flushed
<1>3. LinksInv /\ SyncedIffConfirmed /\ LinkOfOneDocument
  BY DEF LinksInv, SyncedIffConfirmed, LinkOfOneDocument, LinkedTo, Confirmed, Entity
<1> QED
  BY <1>1, <1>2, <1>3 DEF IInv

\* What a batch finds at its commit: nobody has linked its document or its ids.
LEMMA CommitsFirst ==
  ASSUME IInv, NEW h \in Handler, pc[h] = "commit", req[h].path = "batch"
  PROVE  /\ LinkedTo(req[h].entity) = {}
         /\ \A d \in Document : LinkedTo(d) \cap req[h].ids = {}
<1> DEFINE r == req[h]
<1>1. r \in Confirmation
  BY HasRequest DEF IInv
<1>2. r.entity \in Document /\ r.ids # {}
  BY <1>1, ConfirmationIds
<1>3. h \in Flushed
  BY DEF Flushed
<1>4. \A d \in Document : LinkedTo(d) \cap r.ids = {}
  BY <1>3 DEF IInv, KeyInv
<1>5. batch_log[r.entity] \in {{}, r.ids}
  BY DEF IInv, LogInv, LogFits
<1>6. LinkedTo(r.entity) \in {{}, r.ids}
  BY <1>2, <1>5 DEF IInv, LinksInv
<1> QED
  BY <1>2, <1>4, <1>6

-----------------------------------------------------------------------------
(***************************************************************************)
(* Every action preserves it.                                              *)
(***************************************************************************)

\* While no row changes, what is said of the rows alone stays true.
LEMMA RowsKept ==
  ASSUME IInv, UNCHANGED rows
  PROVE  /\ LinksInv' /\ SyncedIffConfirmed' /\ LinkOfOneDocument'
         /\ \A d : LinkedTo(d)' = LinkedTo(d)
         /\ \A r : LogFits(r)' = LogFits(r)
<1>1. UNCHANGED <<external, synced, links, single_log, batch_log>>
  BY DEF rows
<1> QED
  BY <1>1 DEF IInv, LinksInv, SyncedIffConfirmed, LinkOfOneDocument, LinkedTo, Confirmed, LogFits

\* A handler that changes its own phase only, and is not flushed after it, disturbs
\* nobody: phases that say something of links are entered with it true.
LEMMA PhaseChangeInv ==
  ASSUME IInv, UNCHANGED rows, NEW h \in Handler, NEW phase \in Phases,
         pc' = [pc EXCEPT ![h] = phase],
         UNCHANGED req,
         phase \in {"links", "free", "sync"} => req[h].path = "batch",
         phase = "sync" => LinkedTo(req[h].entity) = req[h].ids,
         phase \in {"log", "commit"} => h \in Flushed \/ (Blockers(h) = {} /\ ~KeyTaken(req[h])),
         phase \in {"log", "commit"} => pc[h] # "idle",
         phase = "commit" => LogFits(req[h])
  PROVE  PhaseInv' /\ ApartInv' /\ KeyInv' /\ LogInv'
<1>0. pc \in [Handler -> Phases] /\ \A d : LinkedTo(d)' = LinkedTo(d)
  BY RowsKept DEF IInv, TypeOK
<1>1. PhaseInv'
  BY <1>0 DEF IInv, PhaseInv
<1>2. Flushed' \subseteq Flushed \cup {h}
  BY <1>0 DEF Flushed
<1>3. CASE h \in Flushed \/ phase \notin {"log", "commit"}
  <2>1. Flushed' \subseteq Flushed
    BY <1>0, <1>2, <1>3 DEF Flushed
  <2>2. ApartInv'
    BY <2>1 DEF IInv, ApartInv
  <2>3. KeyInv'
    BY <2>1, <1>0 DEF IInv, KeyInv
  <2>4. LogInv'
    BY <1>0, RowsKept DEF IInv, LogInv
  <2> QED
    BY <1>1, <2>2, <2>3, <2>4
<1>4. CASE h \notin Flushed /\ phase \in {"log", "commit"}
  <2>1. Blockers(h) = {} /\ ~KeyTaken(req[h]) /\ req[h] \in Confirmation
    BY <1>4, HasRequest DEF IInv
  <2>2. \A u \in Flushed :
          /\ req[u].entity # req[h].entity
          /\ req[u].path = "batch" /\ req[h].path = "batch" => req[u].ids \cap req[h].ids = {}
    BY <2>1, <1>4 DEF Blockers
  <2>3. ApartInv'
    <3> SUFFICES ASSUME NEW v \in Flushed', NEW w \in Flushed', v # w
                 PROVE  /\ req[v].entity # req[w].entity
                        /\ req[v].path = "batch" /\ req[w].path = "batch" =>
                             req[v].ids \cap req[w].ids = {}
      BY DEF ApartInv
    <3>1. v \in Flushed \cup {h} /\ w \in Flushed \cup {h}
      BY <1>2
    <3> QED
      BY <3>1, <2>2 DEF IInv, ApartInv
  <2>4. KeyInv'
    <3>1. req[h].path = "batch" => \A d \in Document : LinkedTo(d) \cap req[h].ids = {}
      BY <2>1 DEF KeyTaken
    <3> QED
      BY <3>1, <1>2, <1>0 DEF IInv, KeyInv
  <2>5. LogInv'
    BY <1>0, RowsKept DEF IInv, LogInv
  <2> QED
    BY <1>1, <2>3, <2>4, <2>5
<1> QED
  BY <1>3, <1>4

\* A refused or lost request changes nothing but its own phase.
LEMMA RefuseInv ==
  ASSUME IInv, NEW h \in Handler, pc[h] # "idle",
         NEW a \in Replies \ {"none"}, Refuse(h, a)
  PROVE  IInv'
<1>1. /\ pc' = [pc EXCEPT ![h] = "done"]
      /\ reply' = [reply EXCEPT ![h] = a]
      /\ UNCHANGED <<req, seen, rows>>
  BY DEF Refuse, Answer
<1>2. TypeOK'
  BY <1>1 DEF IInv, TypeOK, rows, Phases
<1>3. PhaseInv' /\ ApartInv' /\ KeyInv' /\ LogInv'
  BY <1>1, PhaseChangeInv DEF Phases
<1> QED
  BY <1>1, <1>2, <1>3, RowsKept DEF IInv

\* A handler that goes on keeps its request.
LEMMA GotoType ==
  ASSUME IInv, NEW h \in Handler, pc[h] \notin {"idle", "done"}, NEW phase \in Phases \ {"idle", "done"},
         Goto(h, phase), UNCHANGED rows,
         seen' \in [Handler -> [id : External \cup {NoId}, synced : BOOLEAN]]
  PROVE  TypeOK'
BY DEF IInv, TypeOK, Goto, rows

\* An arriving confirmation.
LEMMA ReceiveInv ==
  ASSUME IInv, NEW h \in Handler, NEW r \in Confirmation, Receive(h, r)
  PROVE  IInv'
<1>1. /\ pc[h] = "idle"
      /\ req' = [req EXCEPT ![h] = r]
      /\ pc' = [pc EXCEPT ![h] = "get"]
      /\ UNCHANGED <<rows, reply, seen>>
  BY DEF Receive
<1>2. TypeOK'
  BY <1>1 DEF IInv, TypeOK, rows, Phases
<1>3. \A u \in Flushed' : u \in Flushed /\ u # h /\ req'[u] = req[u]
  BY <1>1 DEF IInv, TypeOK, Flushed
<1>4. PhaseInv'
  BY <1>1, RowsKept DEF IInv, TypeOK, PhaseInv
<1>5. ApartInv' /\ KeyInv'
  BY <1>1, <1>3, RowsKept DEF IInv, ApartInv, KeyInv
<1>6. LogInv'
  BY <1>1, RowsKept DEF IInv, TypeOK, LogInv
<1> QED
  BY <1>1, <1>2, <1>4, <1>5, <1>6, RowsKept DEF IInv

\* The read of the entity.
LEMMA GetInv ==
  ASSUME IInv, NEW h \in Handler, Get(h)
  PROVE  IInv'
<1> DEFINE r == req[h]
           id == external[r.entity]
<1>1. pc[h] = "get" /\ r \in Confirmation
  BY HasRequest DEF Get, IInv
<1>2. r.entity \in Entity
  BY <1>1, ConfirmationIds
<1>3. CASE \E a \in {"invalid", "repeated", "conflict"} : Refuse(h, a)
  BY <1>1, <1>3, RefuseInv DEF Replies
<1>4. CASE /\ r.path = "batch"
           /\ seen' = [seen EXCEPT ![h] = [id |-> id, synced |-> synced[r.entity]]]
           /\ Goto(h, "links")
           /\ UNCHANGED rows
  <2>1. seen' \in [Handler -> [id : External \cup {NoId}, synced : BOOLEAN]]
    BY <1>2, <1>4 DEF IInv, TypeOK
  <2>2. TypeOK'
    BY <1>1, <1>4, <2>1, GotoType DEF Phases
  <2>3. PhaseInv' /\ ApartInv' /\ KeyInv' /\ LogInv'
    BY <1>4, PhaseChangeInv DEF Phases, Goto
  <2> QED
    BY <1>4, <2>2, <2>3, RowsKept DEF IInv
<1>5. CASE Goto(h, "flush") /\ UNCHANGED <<rows, seen>>
  <2>1. TypeOK'
    BY <1>1, <1>5, GotoType DEF Phases, IInv, TypeOK
  <2>2. PhaseInv' /\ ApartInv' /\ KeyInv' /\ LogInv'
    BY <1>5, PhaseChangeInv DEF Phases, Goto
  <2> QED
    BY <1>5, <2>1, <2>2, RowsKept DEF IInv
<1> QED
  BY <1>3, <1>4, <1>5 DEF Get

\* The comparison of a batch with the links of its document.
LEMMA ReadLinksInv ==
  ASSUME IInv, NEW h \in Handler, ReadLinks(h)
  PROVE  IInv'
<1>1. pc[h] = "links" /\ req[h].path = "batch"
  BY DEF ReadLinks, IInv, PhaseInv
<1>2. CASE \E a \in {"repeated", "conflict"} : Refuse(h, a)
  BY <1>1, <1>2, RefuseInv DEF Replies
<1>3. CASE \/ Repeats(h) /\ Goto(h, "sync") /\ UNCHANGED <<rows, seen>>
           \/ Goto(h, "free") /\ UNCHANGED <<rows, seen>>
  <2>1. TypeOK'
    BY <1>1, <1>3, GotoType DEF Phases, IInv, TypeOK
  <2>2. PhaseInv' /\ ApartInv' /\ KeyInv' /\ LogInv'
    BY <1>1, <1>3, PhaseChangeInv DEF Phases, Goto, Repeats
  <2> QED
    BY <1>3, <2>1, <2>2, RowsKept DEF IInv
<1> QED
  BY <1>2, <1>3 DEF ReadLinks

\* The check that nobody has the ids.
LEMMA CheckFreeInv ==
  ASSUME IInv, NEW h \in Handler, CheckFree(h)
  PROVE  IInv'
<1>1. pc[h] = "free"
  BY DEF CheckFree
<1>2. CASE Refuse(h, "conflict")
  BY <1>1, <1>2, RefuseInv DEF Replies
<1>3. CASE Goto(h, "flush") /\ UNCHANGED <<rows, seen>>
  <2>1. TypeOK'
    BY <1>1, <1>3, GotoType DEF Phases, IInv, TypeOK
  <2>2. PhaseInv' /\ ApartInv' /\ KeyInv' /\ LogInv'
    BY <1>3, PhaseChangeInv DEF Phases, Goto
  <2> QED
    BY <1>3, <2>1, <2>2, RowsKept DEF IInv
<1> QED
  BY <1>2, <1>3 DEF CheckFree

\* The rows are written, not committed: nobody else has written them.
LEMMA FlushInv ==
  ASSUME IInv, NEW h \in Handler, Flush(h)
  PROVE  IInv'
<1>1. pc[h] = "flush" /\ Blockers(h) = {}
  BY DEF Flush
<1>2. CASE Refuse(h, "error")
  BY <1>1, <1>2, RefuseInv DEF Replies
<1>3. CASE ~KeyTaken(req[h]) /\ Goto(h, "log") /\ UNCHANGED <<rows, seen>>
  <2>1. TypeOK'
    BY <1>1, <1>3, GotoType DEF Phases, IInv, TypeOK
  <2>2. PhaseInv' /\ ApartInv' /\ KeyInv' /\ LogInv'
    BY <1>1, <1>3, PhaseChangeInv DEF Phases, Goto
  <2> QED
    BY <1>3, <2>1, <2>2, RowsKept DEF IInv
<1> QED
  BY <1>2, <1>3 DEF Flush

\* The comparison with the log.
LEMMA ReadLogInv ==
  ASSUME IInv, NEW h \in Handler, ReadLog(h)
  PROVE  IInv'
<1>1. pc[h] = "log" /\ h \in Flushed
  BY DEF ReadLog, Flushed
<1>2. CASE Refuse(h, "conflict")
  BY <1>1, <1>2, RefuseInv DEF Replies
<1>3. CASE LogFits(req[h]) /\ Goto(h, "commit") /\ UNCHANGED <<rows, seen>>
  <2>1. TypeOK'
    BY <1>1, <1>3, GotoType DEF Phases, IInv, TypeOK
  <2>2. PhaseInv' /\ ApartInv' /\ KeyInv' /\ LogInv'
    BY <1>1, <1>3, PhaseChangeInv DEF Phases, Goto
  <2> QED
    BY <1>3, <2>1, <2>2, RowsKept DEF IInv
<1> QED
  BY <1>2, <1>3 DEF ReadLog
\* A document that has all its links is marked as sent.
LEMMA SyncInv ==
  ASSUME IInv, NEW h \in Handler, Sync(h)
  PROVE  IInv'
<1> DEFINE r == req[h]
<1>1. /\ pc[h] = "sync" /\ r \in Confirmation /\ r.path = "batch"
      /\ LinkedTo(r.entity) = r.ids
  BY HasRequest DEF Sync, IInv, PhaseInv
<1>2. /\ synced' = [synced EXCEPT ![r.entity] = TRUE]
      /\ pc' = [pc EXCEPT ![h] = "done"]
      /\ reply' = [reply EXCEPT ![h] = "repeated"]
      /\ UNCHANGED <<external, links, single_log, batch_log, req, seen>>
  BY DEF Sync, Answer
<1>3. r.entity \in Entity /\ r.ids # {}
  BY <1>1, ConfirmationIds
<1>4. TypeOK'
  BY <1>1, <1>2, <1>3 DEF IInv, TypeOK, Phases, Replies
<1>5. \A d : LinkedTo(d)' = LinkedTo(d)
  BY <1>2 DEF LinkedTo
<1>6. Flushed' \subseteq Flushed /\ PhaseInv'
  BY <1>2, <1>5 DEF IInv, TypeOK, PhaseInv, Flushed
<1>7. ApartInv' /\ KeyInv'
  BY <1>2, <1>5, <1>6 DEF IInv, ApartInv, KeyInv
<1>8. LogInv' /\ LinksInv' /\ LinkOfOneDocument'
  BY <1>2, <1>5 DEF IInv, TypeOK, LogInv, LogFits, LinksInv, LinkOfOneDocument
<1>9. SyncedIffConfirmed'
  <2>1. \A e : Confirmed(e)' = Confirmed(e)
    BY <1>2, <1>5 DEF Confirmed
  <2>2. Confirmed(r.entity) # {}
    BY <1>1, <1>3 DEF Confirmed
  <2>3. \A e \in Entity : synced'[e] <=> synced[e] \/ e = r.entity
    BY <1>2, <1>3 DEF IInv, TypeOK
  <2> QED
    BY <2>1, <2>2, <2>3 DEF IInv, SyncedIffConfirmed
<1> QED
  BY <1>4, <1>6, <1>7, <1>8, <1>9 DEF IInv

\* What a commit leaves of the rows.
LEMMA CommitEffect ==
  ASSUME IInv, NEW h \in Handler, Commit(h)
  PROVE  /\ pc[h] = "commit" /\ req[h] \in Confirmation /\ h \in Flushed
         /\ pc' = [pc EXCEPT ![h] = "done"]
         /\ reply' = [reply EXCEPT ![h] = "ok"]
         /\ UNCHANGED <<req, seen>>
         /\ \A e \in Entity :
              external'[e] = IF e = req[h].entity /\ WritesId(req[h])
                             THEN CHOOSE id \in req[h].ids : TRUE ELSE external[e]
         /\ \A e \in Entity : synced'[e] <=> synced[e] \/ e = req[h].entity
         /\ \A e \in Entity :
              LinkedTo(e)' = LinkedTo(e) \cup
                (IF e = req[h].entity /\ req[h].path = "batch" THEN req[h].ids ELSE {})
<1> DEFINE r == req[h]
<1>1. pc[h] = "commit" /\ r \in Confirmation /\ h \in Flushed
  BY HasRequest DEF Commit, IInv, Flushed
<1>2. r.entity \in Entity /\ r.ids \subseteq External
  BY <1>1, ConfirmationIds
<1>3. links' = links \cup NewLinks(r)
  BY DEF Commit
<1>4. \A e \in Entity :
        LinkedTo(e)' = LinkedTo(e) \cup (IF e = r.entity /\ r.path = "batch" THEN r.ids ELSE {})
  <2> SUFFICES ASSUME NEW e \in Entity
               PROVE  LinkedTo(e)' =
                        LinkedTo(e) \cup (IF e = r.entity /\ r.path = "batch" THEN r.ids ELSE {})
    OBVIOUS
  <2>1. \A i \in External : <<e, i>> \in links' <=>
          <<e, i>> \in links \/ (e = r.entity /\ r.path = "batch" /\ i \in r.ids)
    BY <1>3 DEF NewLinks
  <2> QED
    BY <1>2, <2>1 DEF LinkedTo
<1>5. \A e \in Entity : synced'[e] <=> synced[e] \/ e = r.entity
  BY DEF Commit, Marked
<1>6. \A e \in Entity :
        external'[e] = IF e = r.entity /\ WritesId(r) THEN CHOOSE id \in r.ids : TRUE ELSE external[e]
  BY DEF Commit
<1>7. /\ pc' = [pc EXCEPT ![h] = "done"]
      /\ reply' = [reply EXCEPT ![h] = "ok"]
      /\ UNCHANGED <<req, seen>>
  BY DEF Commit, Answer
<1> QED
  BY <1>1, <1>4, <1>5, <1>6, <1>7

\* A commit keeps the types.
LEMMA CommitType ==
  ASSUME IInv, NEW h \in Handler, Commit(h)
  PROVE  TypeOK'
<1> DEFINE r == req[h]
<1>1. r \in Confirmation /\ pc[h] = "commit"
  BY CommitEffect
<1>2. r.entity \in Entity /\ r.ids \in SUBSET External /\ (r.path = "batch" => r.entity \in Document)
  BY <1>1, ConfirmationIds
<1>3. r.path \in {"single", "batch"} /\ (r.path = "single" => WritesId(r))
  BY <1>1, ConfirmationIds
<1>4. WritesId(r) => (CHOOSE id \in r.ids : TRUE) \in External
  BY <1>1, OnlyId
<1> USE DEF IInv, TypeOK
<1>5. external' \in [Entity -> External \cup {NoId}]
  BY <1>4 DEF Commit
<1>6. synced' \in [Entity -> BOOLEAN]
  BY DEF Commit, Marked
<1>7. links' \subseteq Document \X External
  BY <1>2 DEF Commit, NewLinks
<1>8. single_log' \in [Entity -> External \cup {NoId}]
  <2>1. \A e \in Entity : single_log'[e] = IF e = r.entity /\ r.path = "single"
                                          THEN CHOOSE id \in r.ids : TRUE ELSE single_log[e]
    BY DEF Commit
  <2>2. r.path = "single" => (CHOOSE id \in r.ids : TRUE) \in External
    BY <1>3, <1>4
  <2> QED
    BY <2>1, <2>2 DEF Commit
<1>9. batch_log' \in [Document -> SUBSET External]
  BY <1>2 DEF Commit
<1>10. /\ pc' = [pc EXCEPT ![h] = "done"]
       /\ reply' = [reply EXCEPT ![h] = "ok"]
       /\ UNCHANGED <<req, seen>>
  BY CommitEffect
<1> QED
  BY <1>1, <1>5, <1>6, <1>7, <1>8, <1>9, <1>10 DEF Phases, Replies

\* A commit disturbs no other handler: nobody else has flushed rows of its entity
\* or keys of its ids.
LEMMA CommitOthers ==
  ASSUME IInv, NEW h \in Handler, Commit(h)
  PROVE  PhaseInv' /\ ApartInv' /\ KeyInv' /\ LogInv'
<1> DEFINE r == req[h]
<1>1. /\ pc[h] = "commit" /\ r \in Confirmation /\ h \in Flushed
      /\ pc' = [pc EXCEPT ![h] = "done"]
      /\ req' = req
  BY CommitEffect
<1>2. \A e \in Entity :
        LinkedTo(e)' = LinkedTo(e) \cup (IF e = r.entity /\ r.path = "batch" THEN r.ids ELSE {})
  BY CommitEffect
<1>3. pc \in [Handler -> Phases]
  BY DEF IInv, TypeOK
<1>4. Flushed' = Flushed \ {h}
  BY <1>1, <1>3 DEF Flushed
<1>5. r.entity \in Entity /\ r.ids # {}
  BY <1>1, ConfirmationIds
<1>6. PhaseInv'
  <2> SUFFICES ASSUME NEW u \in Handler
               PROVE  /\ pc'[u] \in {"links", "free", "sync"} => req[u].path = "batch"
                      /\ pc'[u] = "sync" => LinkedTo(req[u].entity)' = req[u].ids
    BY <1>1 DEF PhaseInv
  <2>1. CASE u = h
    BY <2>1, <1>1, <1>3
  <2>2. CASE u # h
    <3>1. pc'[u] = pc[u]
      BY <2>2, <1>1, <1>3
    <3>2. ASSUME pc[u] = "sync" PROVE LinkedTo(req[u].entity)' = req[u].ids
      <4>1. req[u] \in Confirmation /\ LinkedTo(req[u].entity) = req[u].ids
        BY <3>2, HasRequest DEF IInv, PhaseInv
      <4>2. req[u].entity \in Entity /\ req[u].ids # {}
        BY <4>1, ConfirmationIds
      <4>3. r.path = "batch" => LinkedTo(r.entity) = {}
        BY <1>1, CommitsFirst
      <4>4. r.path = "batch" => req[u].entity # r.entity
        BY <4>1, <4>2, <4>3
      <4> QED
        BY <4>1, <4>2, <4>4, <1>1, <1>2
    <3> QED
      BY <3>1, <3>2 DEF IInv, PhaseInv
  <2> QED
    BY <2>1, <2>2
<1>7. ApartInv'
  BY <1>1, <1>4 DEF IInv, ApartInv
<1>8. KeyInv'
  <2> SUFFICES ASSUME NEW u \in Flushed \ {h}, req[u].path = "batch", NEW d \in Document
               PROVE  LinkedTo(d)' \cap req[u].ids = {}
    BY <1>1, <1>4 DEF KeyInv
  <2>1. LinkedTo(d) \cap req[u].ids = {}
    BY DEF IInv, KeyInv
  <2>2. r.path = "batch" => r.ids \cap req[u].ids = {}
    BY <1>1 DEF IInv, ApartInv
  <2> QED
    BY <2>1, <2>2, <1>2 DEF Entity
<1>9. LogInv'
  <2> SUFFICES ASSUME NEW u \in Handler, u # h, pc[u] = "commit"
               PROVE  LogFits(req[u])'
    BY <1>1, <1>3 DEF LogInv
  <2>1. u \in Flushed
    BY DEF Flushed
  <2>2. req[u].entity # r.entity /\ req[u] \in Confirmation
    BY <1>1, <2>1, HasRequest DEF IInv, ApartInv
  <2>3. req[u].path = "batch" => req[u].entity \in Document
    BY <2>2, ConfirmationIds
  <2>4. req[u].path = "batch" => batch_log'[req[u].entity] = batch_log[req[u].entity]
    BY <2>2, <2>3 DEF Commit
  <2> QED
    BY <1>1, <2>4 DEF IInv, LogInv, LogFits
<1> QED
  BY <1>6, <1>7, <1>8, <1>9

\* A commit keeps links, log and mark in step.
LEMMA CommitRows ==
  ASSUME IInv, NEW h \in Handler, Commit(h)
  PROVE  LinksInv' /\ SyncedIffConfirmed' /\ LinkOfOneDocument'
<1> DEFINE r == req[h]
<1>1. pc[h] = "commit" /\ r \in Confirmation
  BY CommitEffect
<1>2. /\ r.entity \in Entity /\ r.ids # {} /\ r.path \in {"single", "batch"}
      /\ r.path = "single" => WritesId(r)
      /\ r.path = "batch" => r.entity \in Document
  BY <1>1, ConfirmationIds
<1>3. r.path = "batch" => /\ LinkedTo(r.entity) = {}
                          /\ \A d \in Document : LinkedTo(d) \cap r.ids = {}
  BY <1>1, CommitsFirst
<1>4. \A e \in Entity :
        LinkedTo(e)' = LinkedTo(e) \cup (IF e = r.entity /\ r.path = "batch" THEN r.ids ELSE {})
  BY CommitEffect
<1>5. LinksInv'
  <2>1. \A d \in Document : batch_log'[d] =
          IF d = r.entity /\ r.path = "batch" THEN r.ids ELSE batch_log[d]
    BY DEF Commit
  <2>2. ASSUME NEW d \in Document
        PROVE  LinkedTo(d)' = batch_log'[d]
    <3>1. LinkedTo(d) = batch_log[d] /\ d \in Entity
      BY DEF IInv, LinksInv, Entity
    <3>2. LinkedTo(d)' = LinkedTo(d) \cup (IF d = r.entity /\ r.path = "batch" THEN r.ids ELSE {})
      BY <3>1, <1>4
    <3>3. d = r.entity /\ r.path = "batch" => LinkedTo(d) = {}
      BY <1>3
    <3> QED
      BY <3>1, <3>2, <3>3, <2>1
  <2> QED
    BY <2>2 DEF LinksInv
<1>6. SyncedIffConfirmed'
  <2>1. \A e \in Entity : synced'[e] <=> synced[e] \/ e = r.entity
    BY CommitEffect
  <2>2. \A e \in Entity :
          external'[e] = IF e = r.entity /\ WritesId(r) THEN CHOOSE id \in r.ids : TRUE ELSE external[e]
    BY CommitEffect
  <2>3. \A e \in Entity \ {r.entity} : Confirmed(e)' = Confirmed(e)
    BY <2>2, <1>4 DEF Confirmed
  <2>4. \A e \in Entity : e = r.entity => Confirmed(e)' # {}
    <3>1. CASE r.path = "batch"
      BY <3>1, <1>2, <1>4 DEF Confirmed
    <3>2. CASE r.path = "single"
      <4>1. external'[r.entity] \in External
        BY <3>2, <1>1, <1>2, <2>2, OnlyId
      <4> QED
        BY <4>1, ExportAssumption DEF Confirmed
    <3> QED
      BY <1>2, <3>1, <3>2
  <2> QED
    BY <2>1, <2>3, <2>4 DEF IInv, SyncedIffConfirmed
<1>7. LinkOfOneDocument'
  <2> SUFFICES ASSUME NEW d \in Document, NEW e \in Document, d # e
               PROVE  LinkedTo(d)' \cap LinkedTo(e)' = {}
    BY DEF LinkOfOneDocument
  <2>1. LinkedTo(d) \cap LinkedTo(e) = {}
    BY DEF IInv, LinkOfOneDocument
  <2> QED
    BY <2>1, <1>3, <1>4 DEF Entity
<1> QED
  BY <1>5, <1>6, <1>7
\* Every step preserves it.
LEMMA NextInv == IInv /\ [Next]_vars => IInv'
<1> SUFFICES ASSUME IInv, [Next]_vars PROVE IInv'
  OBVIOUS
<1>1. ASSUME NEW h \in Handler, NEW r \in Confirmation, Receive(h, r) PROVE IInv'
  BY <1>1, ReceiveInv
<1>2. ASSUME NEW h \in Handler, Step(h) PROVE IInv'
  <2>1. CASE Get(h)
    BY <2>1, GetInv
  <2>2. CASE ReadLinks(h)
    BY <2>2, ReadLinksInv
  <2>3. CASE Sync(h)
    BY <2>3, SyncInv
  <2>4. CASE CheckFree(h)
    BY <2>4, CheckFreeInv
  <2>5. CASE Flush(h)
    BY <2>5, FlushInv
  <2>6. CASE ReadLog(h)
    BY <2>6, ReadLogInv
  <2>7. CASE Commit(h)
    BY <2>7, CommitType, CommitOthers, CommitRows DEF IInv
  <2> QED
    BY <1>2, <2>1, <2>2, <2>3, <2>4, <2>5, <2>6, <2>7 DEF Step
<1>3. ASSUME NEW h \in Handler, Crash(h) PROVE IInv'
  BY <1>3, RefuseInv DEF Crash, Replies
<1>4. CASE UNCHANGED vars
  <2>1. UNCHANGED <<rows, pc, req, reply, seen>>
    BY <1>4 DEF vars
  <2>2. TypeOK' /\ PhaseInv' /\ ApartInv' /\ KeyInv' /\ LogInv'
    BY <2>1, RowsKept DEF IInv, TypeOK, rows, PhaseInv, ApartInv, KeyInv, LogInv, Flushed
  <2> QED
    BY <2>1, <2>2, RowsKept DEF IInv
<1> QED
  BY <1>1, <1>2, <1>3, <1>4 DEF Next

\* The invariant holds throughout.
LEMMA Invariant == Spec => []IInv
<1>1. Init => IInv
  BY InitInv
<1>2. IInv /\ [Next]_vars => IInv'
  BY NextInv
<1> QED
  BY <1>1, <1>2, PTL DEF Spec

\* The variables keep their types, every handler that is not idle has a confirmation, and
\* exactly those that are done have an answer.
THEOREM ConfirmTypeCorrect == Spec => []TypeOK
<1>1. IInv => TypeOK
  BY DEF IInv
<1> QED
  BY <1>1, Invariant, PTL

\* An operation is marked as sent exactly when it has its documents, whatever is
\* confirmed concurrently and wherever a handler dies (integration_export_api.py:149).
THEOREM LeavesWithItsDocuments == Spec => []SyncedIffConfirmed
<1>1. IInv => SyncedIffConfirmed
  BY DEF IInv
<1> QED
  BY <1>1, Invariant, PTL

\* No document of 1C:UNF is linked to two operations, although the check and the insert
\* of two batches interleave (integration_export_api.py:146).
THEOREM LinksAreExclusive == Spec => []LinkOfOneDocument
<1>1. IInv => LinkOfOneDocument
  BY DEF IInv
<1> QED
  BY <1>1, Invariant, PTL

-----------------------------------------------------------------------------
(***************************************************************************)
(* What the bridge sends.                                                  *)
(***************************************************************************)

\* An operation is confirmed through one endpoint: process_item of processor.py:64
\* chooses it by the number of documents the operation becomes.
OnePath == \A r, s \in Confirmation : r.entity = s.entity => r.path = s.path

\* Single confirmations of an operation name one document: 1C:UNF has one for its key
\* while the bridges run under their lock (NoDuplicates of UnfBridge_proofs).
OneReference ==
  \A r, s \in Confirmation :
    r.entity = s.entity /\ r.path = "single" /\ s.path = "single" => r.ids = s.ids

\* What an operation is confirmed to be is what one confirmation said, and the logs
\* say the same.
OutcomeInv ==
  \A e \in Entity :
    \/ external[e] = NoId /\ LinkedTo(e) = {} /\ single_log[e] = NoId
    \/ \E r \in Confirmation :
         /\ r.entity = e
         /\ Confirmed(e) = r.ids
         /\ \/ r.path = "single" /\ LinkedTo(e) = {} /\ single_log[e] = external[e]
            \/ r.path = "batch" /\ LinkedTo(e) = r.ids /\ single_log[e] = NoId

\* A batch that has seen an id has seen it of a confirmed document.
SeenInv ==
  \A h \in Handler : pc[h] = "links" /\ seen[h].id # NoId => Confirmed(req[h].entity) # {}

\* Before anything is confirmed the outcome is empty.
LEMMA InitOutcome == Init => OutcomeInv /\ SeenInv /\ AnsweredStays
<1> SUFFICES ASSUME Init PROVE OutcomeInv /\ SeenInv /\ AnsweredStays
  OBVIOUS
<1> QED
  BY DEF Init, OutcomeInv, SeenInv, AnsweredStays, LinkedTo, Entity

\* While no row changes, the outcome stays.
LEMMA OutcomeKept ==
  ASSUME UNCHANGED <<external, links, single_log>>
  PROVE  /\ OutcomeInv => OutcomeInv'
         /\ \A e : Confirmed(e)' = Confirmed(e)
         /\ \A e : LinkedTo(e)' = LinkedTo(e)
<1>1. \A e : Confirmed(e)' = Confirmed(e) /\ LinkedTo(e)' = LinkedTo(e)
  BY DEF Confirmed, LinkedTo
<1> QED
  BY <1>1 DEF OutcomeInv

\* What a commit makes of the outcome of its operation.
LEMMA CommitOutcome ==
  ASSUME IInv, OnePath, OutcomeInv, NEW h \in Handler, Commit(h)
  PROVE  /\ OutcomeInv'
         /\ \A e \in Entity \ {req[h].entity} : Confirmed(e)' = Confirmed(e)
         /\ \A e \in Entity : e = req[h].entity => Confirmed(e)' = req[h].ids
         /\ req[h].path = "batch" => Confirmed(req[h].entity) = {}
<1> DEFINE r == req[h]
<1>1. pc[h] = "commit" /\ r \in Confirmation
  BY CommitEffect
<1>2. /\ r.entity \in Entity /\ r.ids # {} /\ r.path \in {"single", "batch"}
      /\ r.path = "single" => WritesId(r)
      /\ r.ids \subseteq External
  BY <1>1, ConfirmationIds
<1>3. \A e \in Entity :
        LinkedTo(e)' = LinkedTo(e) \cup (IF e = r.entity /\ r.path = "batch" THEN r.ids ELSE {})
  BY CommitEffect
<1>4. \A e \in Entity :
        external'[e] = IF e = r.entity /\ WritesId(r) THEN CHOOSE id \in r.ids : TRUE ELSE external[e]
  BY CommitEffect
<1>5. \A e \in Entity :
        single_log'[e] = IF e = r.entity /\ r.path = "single" THEN CHOOSE id \in r.ids : TRUE
                         ELSE single_log[e]
  BY DEF Commit
<1>6. \A e \in Entity \ {r.entity} : Confirmed(e)' = Confirmed(e)
  BY <1>3, <1>4 DEF Confirmed
<1>7. WritesId(r) => (CHOOSE id \in r.ids : TRUE) # NoId /\ r.ids = {CHOOSE id \in r.ids : TRUE}
  BY <1>1, OnlyId, ExportAssumption
<1>8. ASSUME r.path = "batch"
      PROVE  external[r.entity] = NoId /\ LinkedTo(r.entity) = {} /\ single_log[r.entity] = NoId
  <2>1. LinkedTo(r.entity) = {}
    BY <1>1, <1>8, CommitsFirst
  <2>2. ASSUME NEW s \in Confirmation, s.entity = r.entity,
               Confirmed(r.entity) = s.ids
        PROVE  s.path = "batch" /\ s.ids # {}
    BY <1>1, <1>8, <2>2, ConfirmationIds DEF OnePath
  <2> QED
    BY <1>2, <2>1, <2>2 DEF OutcomeInv
<1>9. ASSUME r.path = "single"
      PROVE  LinkedTo(r.entity) = {}
  <2>1. ASSUME NEW s \in Confirmation, s.entity = r.entity
        PROVE  s.path = "single"
    BY <1>1, <1>9, <2>1 DEF OnePath
  <2> QED
    BY <1>2, <2>1 DEF OutcomeInv
<1>10. ASSUME NEW e \in Entity, e = r.entity
       PROVE  /\ Confirmed(e)' = r.ids
              /\ \/ r.path = "single" /\ LinkedTo(e)' = {} /\ single_log'[e] = external'[e]
                 \/ r.path = "batch" /\ LinkedTo(e)' = r.ids /\ single_log'[e] = NoId
  <2>1. CASE r.path = "single"
    <3>1. LinkedTo(e)' = {}
      BY <1>3, <1>9, <1>10, <2>1
    <3>2. external'[e] = (CHOOSE id \in r.ids : TRUE) /\ single_log'[e] = external'[e]
      BY <1>2, <1>4, <1>5, <1>10, <2>1
    <3> QED
      BY <1>2, <1>7, <2>1, <3>1, <3>2 DEF Confirmed
  <2>2. CASE r.path = "batch"
    <3>1. LinkedTo(e)' = r.ids
      BY <1>3, <1>8, <1>10, <2>2
    <3>2. single_log'[e] = NoId
      BY <1>5, <1>8, <1>10, <2>2
    <3>3. external'[e] \in r.ids \cup {NoId}
      BY <1>4, <1>7, <1>8, <1>10, <2>2
    <3> QED
      BY <1>2, <2>2, <3>1, <3>2, <3>3, ExportAssumption DEF Confirmed
  <2> QED
    BY <1>2, <2>1, <2>2
<1>11. OutcomeInv'
  <2> SUFFICES ASSUME NEW e \in Entity
               PROVE  \/ external'[e] = NoId /\ LinkedTo(e)' = {} /\ single_log'[e] = NoId
                      \/ \E s \in Confirmation :
                           /\ s.entity = e
                           /\ Confirmed(e)' = s.ids
                           /\ \/ s.path = "single" /\ LinkedTo(e)' = {} /\ single_log'[e] = external'[e]
                              \/ s.path = "batch" /\ LinkedTo(e)' = s.ids /\ single_log'[e] = NoId
    BY DEF OutcomeInv
  <2>1. CASE e = r.entity
    BY <1>1, <1>10, <2>1
  <2>2. CASE e # r.entity
    <3>1. /\ external'[e] = external[e] /\ single_log'[e] = single_log[e]
          /\ LinkedTo(e)' = LinkedTo(e) /\ Confirmed(e)' = Confirmed(e)
      BY <1>3, <1>4, <1>5, <1>6, <2>2
    <3> QED
      BY <3>1 DEF OutcomeInv
  <2> QED
    BY <2>1, <2>2
<1>12. r.path = "batch" => Confirmed(r.entity) = {}
  BY <1>8 DEF Confirmed
<1> QED
  BY <1>6, <1>10, <1>11, <1>12
\* A step that changes no id, link or single log, and answers "repeated" only with what is
\* confirmed, keeps outcome and answers.
LEMMA QuietOutcome ==
  ASSUME IInv, OutcomeInv, SeenInv, NEW h \in Handler,
         UNCHANGED <<external, links, single_log, req>>,
         \A u \in Handler \ {h} : pc'[u] = pc[u] /\ reply'[u] = reply[u] /\ seen'[u] = seen[u],
         pc'[h] = "links" => seen'[h].id = external[req[h].entity] /\ req[h] \in Confirmation,
         reply'[h] = reply[h] \/ reply'[h] # "ok",
         reply'[h] = "repeated" =>
           reply[h] = "repeated" \/ Confirmed(req[h].entity) = req[h].ids
  PROVE  OutcomeInv' /\ SeenInv' /\ (AnsweredStays => AnsweredStays')
<1>1. OutcomeInv' /\ \A e : Confirmed(e)' = Confirmed(e)
  BY OutcomeKept
<1>2. SeenInv'
  <2> SUFFICES ASSUME NEW u \in Handler, pc'[u] = "links", seen'[u].id # NoId
               PROVE  Confirmed(req[u].entity)' # {}
    BY DEF SeenInv
  <2>1. CASE u # h
    BY <2>1, <1>1 DEF SeenInv
  <2>2. CASE u = h
    <3>1. external[req[h].entity] # NoId
      BY <2>2
    <3> QED
      BY <3>1, <1>1, <2>2 DEF Confirmed
  <2> QED
    BY <2>1, <2>2
<1>3. ASSUME AnsweredStays
      PROVE  AnsweredStays'
  <2> SUFFICES ASSUME NEW u \in Handler, reply'[u] \in {"ok", "repeated"}
               PROVE  Confirmed(req[u].entity)' = req[u].ids
    BY DEF AnsweredStays
  <2>1. CASE u # h
    BY <2>1, <1>1, <1>3 DEF AnsweredStays
  <2>2. CASE u = h
    BY <2>2, <1>1, <1>3 DEF AnsweredStays
  <2> QED
    BY <2>1, <2>2
<1> QED
  BY <1>1, <1>2, <1>3

\* Each step keeps the outcome, and with one reference for an operation the answers too.
LEMMA NextOutcome ==
  ASSUME OnePath, IInv, OutcomeInv, SeenInv, [Next]_vars
  PROVE  OutcomeInv' /\ SeenInv' /\ (OneReference /\ AnsweredStays => AnsweredStays')
<1> DEFINE Goal == OutcomeInv' /\ SeenInv' /\ (OneReference /\ AnsweredStays => AnsweredStays')
<1>0. pc \in [Handler -> Phases] /\ reply \in [Handler -> Replies]
      /\ seen \in [Handler -> [id : External \cup {NoId}, synced : BOOLEAN]]
      /\ req \in [Handler -> Confirmation \cup {NoConfirmation}]
  BY DEF IInv, TypeOK
<1>1. ASSUME NEW h \in Handler, NEW r \in Confirmation, Receive(h, r)
      PROVE  Goal
  <2>1. /\ pc[h] = "idle"
        /\ req' = [req EXCEPT ![h] = r]
        /\ pc' = [pc EXCEPT ![h] = "get"]
        /\ UNCHANGED <<external, links, single_log, reply, seen>>
    BY <1>1 DEF Receive, rows
  <2>2. OutcomeInv' /\ \A e : Confirmed(e)' = Confirmed(e)
    BY <2>1, OutcomeKept
  <2>3. reply[h] = "none"
    BY <2>1 DEF IInv, TypeOK
  <2>4. SeenInv'
    BY <1>0, <2>1, <2>2 DEF SeenInv
  <2>5. AnsweredStays => AnsweredStays'
    BY <1>0, <2>1, <2>2, <2>3 DEF AnsweredStays
  <2> QED
    BY <2>2, <2>4, <2>5
<1>2. ASSUME NEW h \in Handler, NEW a \in Replies, pc[h] # "idle", Refuse(h, a), a # "ok",
             a = "repeated" => Confirmed(req[h].entity) = req[h].ids
      PROVE  Goal
  <2>1. /\ pc' = [pc EXCEPT ![h] = "done"]
        /\ reply' = [reply EXCEPT ![h] = a]
        /\ UNCHANGED <<external, links, single_log, req, seen>>
    BY <1>2 DEF Refuse, Answer, rows
  <2> QED
    BY <1>0, <1>2, <2>1, QuietOutcome
<1>3. ASSUME NEW h \in Handler, NEW phase \in Phases \ {"links"}, Goto(h, phase),
             UNCHANGED <<rows, seen>>
      PROVE  Goal
  <2>1. /\ pc' = [pc EXCEPT ![h] = phase]
        /\ UNCHANGED <<external, links, single_log, req, seen, reply>>
    BY <1>3 DEF Goto, rows
  <2> QED
    BY <1>0, <1>3, <2>1, QuietOutcome
<1>4. ASSUME NEW h \in Handler, Get(h)
      PROVE  Goal
  <2> DEFINE r == req[h]
  <2>1. pc[h] = "get" /\ r \in Confirmation
    BY <1>4, HasRequest DEF Get, IInv
  <2>2. r.entity \in Entity /\ (r.path = "single" => WritesId(r)) /\ r.path \in {"single", "batch"}
    BY <2>1, ConfirmationIds
  <2>3. CASE \E a \in {"invalid", "conflict"} : Refuse(h, a)
    BY <1>2, <2>1, <2>3 DEF Replies
  <2>4. CASE r.path # "batch" /\ external[r.entity] \in r.ids /\ Refuse(h, "repeated")
    <3>1. r.ids = {external[r.entity]} /\ external[r.entity] # NoId
      BY <2>1, <2>2, <2>4, ExportAssumption DEF WritesId
    <3>2. \A s \in Confirmation : s.entity = r.entity => s.path = "single"
      BY <2>1, <2>2, <2>4 DEF OnePath
    <3>3. LinkedTo(r.entity) = {}
      BY <2>2, <3>1, <3>2 DEF OutcomeInv
    <3>4. Confirmed(r.entity) = r.ids
      BY <3>1, <3>3 DEF Confirmed
    <3> QED
      BY <1>2, <2>1, <2>4, <3>4 DEF Replies
  <2>5. CASE /\ seen' = [seen EXCEPT ![h] = [id |-> external[r.entity], synced |-> synced[r.entity]]]
             /\ Goto(h, "links")
             /\ UNCHANGED rows
    <3>1. /\ pc' = [pc EXCEPT ![h] = "links"]
          /\ UNCHANGED <<external, links, single_log, req, reply>>
      BY <2>5 DEF Goto, rows
    <3> QED
      BY <1>0, <2>1, <2>5, <3>1, QuietOutcome
  <2>6. CASE Goto(h, "flush") /\ UNCHANGED <<rows, seen>>
    BY <1>3, <2>6 DEF Phases
  <2> QED
    BY <1>4, <2>3, <2>4, <2>5, <2>6 DEF Get
<1>5. ASSUME NEW h \in Handler, ReadLinks(h)
      PROVE  Goal
  <2> DEFINE r == req[h]
  <2>1. pc[h] = "links" /\ r \in Confirmation /\ r.path = "batch"
    BY <1>5, HasRequest DEF ReadLinks, IInv, PhaseInv
  <2>2. r.entity \in Entity /\ r.ids # {}
    BY <2>1, ConfirmationIds
  <2>3. \A s \in Confirmation : s.entity = r.entity => s.path = "batch" /\ s.ids # {}
    BY <2>1, ConfirmationIds DEF OnePath
  <2>4. Confirmed(r.entity) = LinkedTo(r.entity)
    BY <2>2, <2>3 DEF OutcomeInv, Confirmed
  <2>5. CASE Refuse(h, "conflict")
    BY <1>2, <2>1, <2>5 DEF Replies
  <2>6. CASE Repeats(h) /\ Refuse(h, "repeated")
    BY <1>2, <2>1, <2>4, <2>6 DEF Replies, Repeats
  <2>7. CASE \E phase \in {"sync", "free"} : Goto(h, phase) /\ UNCHANGED <<rows, seen>>
    BY <1>3, <2>7 DEF Phases
  <2>8. ~(LinkedTo(r.entity) = {} /\ seen[h].id # NoId)
    BY <2>1, <2>4 DEF SeenInv
  <2> QED
    BY <1>5, <2>5, <2>6, <2>7, <2>8 DEF ReadLinks
<1>6. ASSUME NEW h \in Handler, Sync(h)
      PROVE  Goal
  <2> DEFINE r == req[h]
  <2>1. /\ pc[h] = "sync" /\ r \in Confirmation /\ r.path = "batch"
        /\ LinkedTo(r.entity) = r.ids
    BY <1>6, HasRequest DEF Sync, IInv, PhaseInv
  <2>2. r.entity \in Entity /\ r.ids # {}
    BY <2>1, ConfirmationIds
  <2>3. \A s \in Confirmation : s.entity = r.entity => s.path = "batch"
    BY <2>1 DEF OnePath
  <2>4. Confirmed(r.entity) = r.ids
    BY <2>1, <2>2, <2>3 DEF OutcomeInv
  <2>5. /\ pc' = [pc EXCEPT ![h] = "done"]
        /\ reply' = [reply EXCEPT ![h] = "repeated"]
        /\ UNCHANGED <<external, links, single_log, req, seen>>
    BY <1>6 DEF Sync, Answer
  <2> QED
    BY <1>0, <2>4, <2>5, QuietOutcome
<1>7. ASSUME NEW h \in Handler, Commit(h)
      PROVE  Goal
  <2> DEFINE r == req[h]
  <2>1. /\ pc[h] = "commit" /\ r \in Confirmation
        /\ pc' = [pc EXCEPT ![h] = "done"]
        /\ reply' = [reply EXCEPT ![h] = "ok"]
        /\ UNCHANGED <<req, seen>>
    BY <1>7, CommitEffect
  <2>2. /\ OutcomeInv'
        /\ \A e \in Entity \ {r.entity} : Confirmed(e)' = Confirmed(e)
        /\ \A e \in Entity : e = r.entity => Confirmed(e)' = r.ids
        /\ r.path = "batch" => Confirmed(r.entity) = {}
    BY <1>7, CommitOutcome
  <2>3. r.entity \in Entity /\ r.ids # {} /\ r.path \in {"single", "batch"}
    BY <2>1, ConfirmationIds
  <2>4. SeenInv'
    <3> SUFFICES ASSUME NEW u \in Handler, pc'[u] = "links", seen[u].id # NoId
                 PROVE  Confirmed(req[u].entity)' # {}
      BY <2>1 DEF SeenInv
    <3>1. pc[u] = "links"
      BY <1>0, <2>1
    <3>2. req[u] \in Confirmation
      BY <3>1, HasRequest DEF IInv
    <3>3. req[u].entity \in Entity
      BY <3>2, ConfirmationIds
    <3>4. \A e \in Entity : e = req[u].entity => Confirmed(e)' # {}
      BY <2>2, <2>3, <3>1 DEF SeenInv
    <3> QED
      BY <2>1, <3>3, <3>4
  <2>5. ASSUME OneReference, AnsweredStays
        PROVE  AnsweredStays'
    <3> SUFFICES ASSUME NEW u \in Handler, reply'[u] \in {"ok", "repeated"}
                 PROVE  Confirmed(req[u].entity)' = req[u].ids
      BY <2>1 DEF AnsweredStays
    <3>1. CASE u = h
      BY <3>1, <2>1, <2>2, <2>3
    <3>2. CASE u # h
      <4>1. reply[u] \in {"ok", "repeated"} /\ Confirmed(req[u].entity) = req[u].ids
        BY <3>2, <1>0, <2>1, <2>5 DEF AnsweredStays
      <4>2. req[u] \in Confirmation
        BY <4>1, HasRequest DEF IInv, TypeOK
      <4>3. req[u].ids # {} /\ req[u].entity \in Entity
        BY <4>2, ConfirmationIds
      <4>4. ASSUME req[u].entity = r.entity
            PROVE  req[u].ids = r.ids
        <5>1. r.path = "single"
          BY <2>2, <2>3, <4>1, <4>3, <4>4
        <5> QED
          BY <5>1, <2>1, <2>5, <4>2, <4>4 DEF OnePath, OneReference
      <4> QED
        BY <2>1, <2>2, <4>1, <4>3, <4>4
    <3> QED
      BY <3>1, <3>2
  <2> QED
    BY <2>2, <2>4, <2>5
<1>8. CASE UNCHANGED vars
  <2>1. UNCHANGED <<external, links, single_log, pc, req, reply, seen>>
    BY <1>8 DEF vars, rows
  <2>2. OutcomeInv' /\ \A e : Confirmed(e)' = Confirmed(e)
    BY <2>1, OutcomeKept
  <2> QED
    BY <2>1, <2>2 DEF SeenInv, AnsweredStays
<1>9. ASSUME NEW h \in Handler, CheckFree(h) \/ Flush(h) \/ ReadLog(h) \/ Crash(h)
      PROVE  Goal
  <2>1. pc[h] # "idle"
    BY <1>9 DEF CheckFree, Flush, ReadLog, Crash
  <2>2. \/ \E a \in {"conflict", "error", "lost"} : Refuse(h, a)
        \/ \E phase \in {"flush", "log", "commit"} : Goto(h, phase) /\ UNCHANGED <<rows, seen>>
    BY <1>9, Zenon DEF CheckFree, Flush, ReadLog, Crash
  <2> QED
    BY <1>2, <1>3, <2>1, <2>2 DEF Replies, Phases
<1> QED
  <2>1. Next => Goal
    BY <1>1, <1>4, <1>5, <1>6, <1>7, <1>9 DEF Next, Step
  <2> QED
    BY <1>8, <2>1

\* Where an operation has one path, its logs tell what was confirmed: the links of a
\* document are those of its batch log, the id of an operation is that of its single log
\* (integration_export_api.py:108).
THEOREM LogsTellTheOutcome ==
  ASSUME OnePath
  PROVE  Spec => []LogMatchesLinks
<1>1. Init => IInv /\ OutcomeInv /\ SeenInv
  BY InitInv, InitOutcome
<1>2. IInv /\ OutcomeInv /\ SeenInv /\ [Next]_vars => (IInv /\ OutcomeInv /\ SeenInv)'
  BY NextInv, NextOutcome
<1>3. IInv /\ OutcomeInv => LogMatchesLinks
  BY DEF IInv, LinksInv, OutcomeInv, LogMatchesLinks
<1> QED
  BY <1>1, <1>2, <1>3, PTL DEF Spec

\* Where also one reference is found for an operation, what was answered to be confirmed
\* stays confirmed: no later batch mixes its set, no later id replaces it
\* (integration_1c.py:442; ReplacedId shows the race of two references).
THEOREM AnswersStayTrue ==
  ASSUME OnePath, OneReference
  PROVE  Spec => []AnsweredStays
<1>1. Init => IInv /\ OutcomeInv /\ SeenInv /\ AnsweredStays
  BY InitInv, InitOutcome
<1>2. /\ IInv /\ OutcomeInv /\ SeenInv /\ AnsweredStays /\ [Next]_vars
      => (IInv /\ OutcomeInv /\ SeenInv /\ AnsweredStays)'
  BY NextInv, NextOutcome
<1> QED
  BY <1>1, <1>2, PTL DEF Spec
=============================================================================
