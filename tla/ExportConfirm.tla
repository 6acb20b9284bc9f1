------------------------------ MODULE ExportConfirm ------------------------------
(***************************************************************************)
(* confirm_export of integration_1c.py and confirm_export_batch of         *)
(* integration_export_api.py: the bridge reports which documents of 1C:UNF *)
(* an operation became, and the operation leaves the outbox.  Every        *)
(* handler has its own READ COMMITTED transaction; its steps are its       *)
(* statements, and the UPDATE and INSERT statements wait for the handlers  *)
(* in Blockers.  An external document is its id; external_kind is left out.*)
(***************************************************************************)
CONSTANTS
  Document,    \* stock documents
  Adjustment,  \* those of kind ADJUSTMENT
  Handover,    \* money transactions of kind CASH_HANDOVER
  External,    \* external_1c_id values
  NoId,        \* external_1c_id is NULL
  Confirmation,\* the confirmations the bridge may send
  Handler      \* concurrent requests; each handles one

Entity == Document \cup Handover

\* "single" is /confirm-export, "batch" is /confirm-export-batch.
ConfirmationRecord ==
  [path : {"single", "batch"}, entity : Entity, ids : SUBSET External]

ASSUME ExportAssumption ==
  /\ Document \cap Handover = {}
  /\ Adjustment \subseteq Document
  /\ NoId \notin External
  /\ \A c \in Confirmation :
       /\ c \in ConfirmationRecord
       /\ c.path = "single" => \E i \in External : c.ids = {i}
       /\ c.path = "batch" =>
            c.entity \in Document /\ \E i, j \in External : c.ids = {i, j}

VARIABLES
  external,    \* external_1c_id of the entity
  synced,      \* synced_1c_at is not NULL
  links,       \* IntegrationExportLink rows: <<document, id>>
  single_log,  \* id in the log row "confirm:<type>:<entity>", or NoId
  batch_log,   \* ids in the log row "confirm-batch:<type>:<document>", or {}
  pc, req, reply,
  seen         \* the entity as session.get found it

rows == <<external, synced, links, single_log, batch_log>>
vars == <<rows, pc, req, reply, seen>>

Phases == {"idle", "get", "links", "free", "sync", "flush", "log", "commit", "done"}
Replies == {"none", "ok", "repeated", "conflict", "invalid", "error", "lost"}
NoConfirmation == [path |-> "none"]

TypeOK ==
  /\ external \in [Entity -> External \cup {NoId}]
  /\ synced \in [Entity -> BOOLEAN]
  /\ links \subseteq Document \X External
  /\ single_log \in [Entity -> External \cup {NoId}]
  /\ batch_log \in [Document -> SUBSET External]
  /\ pc \in [Handler -> Phases]
  /\ req \in [Handler -> Confirmation \cup {NoConfirmation}]
  /\ reply \in [Handler -> Replies]
  /\ seen \in [Handler -> [id : External \cup {NoId}, synced : BOOLEAN]]
  /\ \A h \in Handler : pc[h] # "idle" => req[h] \in Confirmation
  /\ \A h \in Handler : pc[h] = "done" <=> reply[h] # "none"

Init ==
  /\ external = [e \in Entity |-> NoId]
  /\ synced = [e \in Entity |-> FALSE]
  /\ links = {}
  /\ single_log = [e \in Entity |-> NoId]
  /\ batch_log = [d \in Document |-> {}]
  /\ pc = [h \in Handler |-> "idle"]
  /\ req = [h \in Handler |-> NoConfirmation]
  /\ reply = [h \in Handler |-> "none"]
  /\ seen = [h \in Handler |-> [id |-> NoId, synced |-> FALSE]]

-----------------------------------------------------------------------------
Goto(h, phase) == pc' = [pc EXCEPT ![h] = phase] /\ UNCHANGED <<req, reply>>

\* Mutant: the handler ends without an answer.
AnswerNothing(h, a) ==
  /\ pc' = [pc EXCEPT ![h] = "done"]
  /\ UNCHANGED <<req, reply, seen>>

Answer(h, a) ==
  /\ pc' = [pc EXCEPT ![h] = "done"]
  /\ reply' = [reply EXCEPT ![h] = a]
  /\ UNCHANGED <<req, seen>>

\* The request ends without a committed write.
Refuse(h, a) == Answer(h, a) /\ UNCHANGED rows

LinkedTo(d) == {i \in External : <<d, i>> \in links}

\* external_1c_id is unique within its table.
SameTable(e, f) == e \in Document <=> f \in Document

\* confirm_export and a batch of one id write external_1c_id.
WritesId(r) == \E id \in External : r.ids = {id}

\* Mutant: the end of a transaction releases nothing.
FlushedForever == {u \in Handler : pc[u] \in {"log", "commit", "done"}}

\* Handlers whose flushed rows are not committed yet.
Flushed == {u \in Handler : pc[u] \in {"log", "commit"}}

\* The UPDATE of the entity waits for its row, external_1c_id and the links for an
\* uncommitted equal key.
Blockers(h) ==
  LET r == req[h]
  IN  {u \in Flushed \ {h} :
         LET s == req[u]
         IN  \/ s.entity = r.entity
             \/ /\ s.ids \cap r.ids # {}
                /\ \/ SameTable(s.entity, r.entity) /\ WritesId(s) /\ WritesId(r)
                   \/ s.path = "batch" /\ r.path = "batch"}

\* Mutant: external_1c_id of the links is not unique.
KeyTakenInTable(r) ==
  /\ WritesId(r)
  /\ \E e \in Entity \ {r.entity} : SameTable(e, r.entity) /\ external[e] \in r.ids

\* A committed row has a unique key of r.
KeyTaken(r) ==
  \/ /\ WritesId(r)
     /\ \E e \in Entity \ {r.entity} : SameTable(e, r.entity) /\ external[e] \in r.ids
  \/ r.path = "batch" /\ \E d \in Document : LinkedTo(d) \cap r.ids # {}

-----------------------------------------------------------------------------
Receive(h, r) ==
  /\ pc[h] = "idle"
  /\ req' = [req EXCEPT ![h] = r]
  /\ pc' = [pc EXCEPT ![h] = "get"]
  /\ UNCHANGED <<rows, reply, seen>>

\* session.get: a batch of two is for an adjustment only; confirm_export decides on
\* external_1c_id right here.
Get(h) ==
  LET r == req[h]
      id == external[r.entity]
  IN  /\ pc[h] = "get"
      /\ IF r.path = "batch"
         THEN IF ~WritesId(r) /\ r.entity \notin Adjustment THEN Refuse(h, "invalid")
              ELSE /\ seen' = [seen EXCEPT ![h] = [id |-> id, synced |-> synced[r.entity]]]
                   /\ Goto(h, "links") /\ UNCHANGED rows
         ELSE IF id \in r.ids THEN Refuse(h, "repeated")
         ELSE IF id # NoId THEN Refuse(h, "conflict")
         ELSE Goto(h, "flush") /\ UNCHANGED <<rows, seen>>

\* The links of the document are exactly the ids of the batch.
Repeats(h) == LinkedTo(req[h].entity) = req[h].ids

\* A batch against the links of its document, then against the id it has seen.
ReadLinks(h) ==
  LET r == req[h]
  IN  /\ pc[h] = "links"
      /\ IF LinkedTo(r.entity) # {}
         THEN IF ~Repeats(h) THEN Refuse(h, "conflict")
              ELSE IF seen[h].synced THEN Refuse(h, "repeated")
              ELSE Goto(h, "sync") /\ UNCHANGED <<rows, seen>>
         ELSE IF seen[h].id = NoId THEN Goto(h, "free") /\ UNCHANGED <<rows, seen>>
         ELSE Refuse(h, IF r.ids = {seen[h].id} THEN "repeated" ELSE "conflict")

\* The document was not synced when it was read and has all the links now.
Sync(h) ==
  /\ pc[h] = "sync"
  /\ \A u \in Flushed \ {h} : req[u].entity # req[h].entity
  /\ synced' = [synced EXCEPT ![req[h].entity] = TRUE]
  /\ UNCHANGED <<external, links, single_log, batch_log>>
  /\ Answer(h, "repeated")

\* _ensure_external_ids_are_free: three reads; an id once taken stays taken, so they
\* are one step.
CheckFree(h) ==
  LET r == req[h]
      Taken(id) ==
        \/ \E d \in Document \ {r.entity} : <<d, id>> \in links
        \/ \E e \in Entity \ {r.entity} : external[e] = id
  IN  /\ pc[h] = "free"
      /\ IF \E id \in r.ids : Taken(id) THEN Refuse(h, "conflict")
         ELSE Goto(h, "flush") /\ UNCHANGED <<rows, seen>>

\* The SELECT of the log flushes the entity and the links first.  A unique key taken
\* meanwhile is an IntegrityError outside the try: HTTP 500.
Flush(h) ==
  /\ pc[h] = "flush"
  /\ Blockers(h) = {}
  /\ IF KeyTaken(req[h]) THEN Refuse(h, "error")
     ELSE Goto(h, "log") /\ UNCHANGED <<rows, seen>>

\* Mutant: an existing batch log is overwritten without comparing the hash.
LogFitsAny(r) == TRUE

\* confirm_export overwrites an existing log row; a batch compares the hash.
LogFits(r) == r.path = "batch" => batch_log[r.entity] \in {{}, r.ids}

ReadLog(h) ==
  /\ pc[h] = "log"
  /\ IF LogFits(req[h]) THEN Goto(h, "commit") /\ UNCHANGED <<rows, seen>>
     ELSE Refuse(h, "conflict")

\* Mutant: only the log of a batch is written, not its links.
NewLinksNone(r) == {}

NewLinks(r) == IF r.path = "batch" THEN {r.entity} \X r.ids ELSE {}

\* Mutant: a batch of two leaves synced_1c_at empty.
MarkedSingles(r) ==
  [e \in Entity |-> synced[e] \/ (e = r.entity /\ WritesId(r))]

Marked(r) == [e \in Entity |-> synced[e] \/ e = r.entity]

\* session.commit: id, time, links and log at once.
Commit(h) ==
  LET r == req[h]
  IN  /\ pc[h] = "commit"
      /\ external' = [e \in Entity |->
           IF e = r.entity /\ WritesId(r) THEN CHOOSE id \in r.ids : TRUE ELSE external[e]]
      /\ synced' = Marked(r)
      /\ links' = links \cup NewLinks(r)
      /\ single_log' = [e \in Entity |->
           IF e = r.entity /\ r.path = "single" THEN CHOOSE id \in r.ids : TRUE
           ELSE single_log[e]]
      /\ batch_log' = [d \in Document |->
           IF d = r.entity /\ r.path = "batch" THEN r.ids ELSE batch_log[d]]
      /\ Answer(h, "ok")

\* The connection dies: the transaction is rolled back.
Crash(h) == pc[h] \notin {"idle", "done"} /\ Refuse(h, "lost")

Step(h) ==
  \/ Get(h) \/ ReadLinks(h) \/ Sync(h) \/ CheckFree(h)
  \/ Flush(h) \/ ReadLog(h) \/ Commit(h)

Next ==
  \E h \in Handler :
    (\E r \in Confirmation : Receive(h, r)) \/ Step(h) \/ Crash(h)

Spec == Init /\ [][Next]_vars
\* PostgreSQL grants a free row and the event loop resumes every handler.
FairSpec == Spec /\ \A h \in Handler : WF_vars(Step(h))

-----------------------------------------------------------------------------
\* The documents of 1C:UNF an operation is confirmed to be.
Confirmed(e) == LinkedTo(e) \cup ({external[e]} \ {NoId})

\* An operation leaves the outbox exactly when it has its documents: the two rows a
\* confirmation writes are committed together.
SyncedIffConfirmed == \A e \in Entity : synced[e] <=> Confirmed(e) # {}

\* The exchange log tells what was confirmed, however confirmations interleave.
LogMatchesLinks ==
  /\ \A d \in Document : LinkedTo(d) = batch_log[d]
  /\ \A e \in Entity : single_log[e] # NoId => external[e] = single_log[e]

\* A document of 1C:UNF is linked to one operation, although the check and the
\* insert of two batches may interleave.
LinkOfOneDocument ==
  \A d, e \in Document : d # e => LinkedTo(d) \cap LinkedTo(e) = {}

\* What the bridge was told is confirmed is what stays confirmed: repeating a set is
\* safe, another set is a conflict (UNF_BRIDGE_PLAN.md, INTEGRATION_1C.md).
AnsweredStays ==
  \A h \in Handler :
    reply[h] \in {"ok", "repeated"} => Confirmed(req[h].entity) = req[h].ids

\* Every confirmation that arrives is answered.
EveryRequestAnswered == \A h \in Handler : pc[h] # "idle" ~> pc[h] = "done"
=============================================================================
