---------------------------- MODULE CatalogImport ----------------------------
(***************************************************************************)
(* The import units of the bridge (catalog_import.py, location_import.py,  *)
(* price_reader.py) against the endpoints of ImportLog.  A run reads all   *)
(* it imports from 1C:UNF, plans a request for each row, and sends them    *)
(* one after another; an HTTP error ends it.  flock lets one unit run at a *)
(* time, but a request whose client gave up goes on in the server.  With   *)
(* the policy NoBridge nothing of this is installed and 1C calls the       *)
(* endpoints itself, with any request at any time.                         *)
(***************************************************************************)
EXTENDS ImportLog

CONSTANTS
  Policies,     \* values of product_deletion_policy to check, or NoBridge
  NoBridge,
  Direct,       \* requests 1C sends when there is no bridge
  Listed,       \* products in the first hundred rows, and the allowed locations
  Cards,        \* contents each row of 1C:UNF may have
  AtFirst,      \* and has at the start
  NoLabel,      \* a code or name the bridge does not accept, or an unknown location
  NoPrice,      \* a price is missing
  BadPrice,     \* several prices, or a negative one
  NoVersion, NoUnit, NoCall,
  MaxChanges    \* bound: changes of 1C:UNF

Contents == [label : Label \cup {NoLabel}, detail : Detail \cup {NoPrice, BadPrice}, marked : BOOLEAN]

\* Rows are numbered in the order of the list; every content has its operation keys.
ASSUME CatalogAssumption ==
  /\ Ref \subseteq Nat
  /\ Direct \subseteq Body
  /\ \A r \in Ref : Cards[r] \subseteq Contents /\ AtFirst[r] \in Cards[r]
  /\ [ref : Ref, label : Label, detail : Detail, version : 0..MaxChanges \cup {NoVersion},
      marked : BOOLEAN] \subseteq Key
  /\ MaxChanges \in Nat
  /\ NoUnit \notin {"products", "locations"}

VARIABLES
  policy,
  source,   \* the row of 1C:UNF
  version,  \* its data version, which prices do not change
  former,   \* contents it had before
  changes,
  writer,   \* request that made the entry of a row as it is, if no other had a part in it
  unit,     \* the unit that holds bridge.lock
  plan,     \* requests still to be sent
  call      \* the handler whose answer it waits for

bridge == <<unit, plan, call>>
unf == <<source, version, former, changes>>
vars == <<logVars, policy, unf, writer, bridge>>

Units == {"products", "locations"}

\* The first hundred products of the list, the locations of the allow-list.
Rows(u) == (IF u = "products" THEN Product ELSE Location) \cap Listed
UnitOf(r) == IF r \in Product THEN "products" ELSE "locations"

TypeOK ==
  /\ LogTypeOK
  /\ policy \in Policies
  /\ \A r \in Ref : source[r] \in Cards[r]
  /\ version \in [Ref -> 0..MaxChanges]
  /\ former \in [Ref -> SUBSET Contents]
  /\ changes \in 0..MaxChanges
  /\ writer \in [Ref -> Body \cup {NoRequest}]
  /\ unit \in Units \cup {NoUnit}
  /\ plan \subseteq Body
  /\ call \in Handler \cup {NoCall}
  /\ unit = NoUnit <=> plan = {}
  /\ call # NoCall => plan # {} /\ pc[call] # "idle"

-----------------------------------------------------------------------------
Archiving == policy = "archive_if_zero_stock"
Marked4Deletion(r) == r \in Product /\ policy # "ignore" /\ source[r].marked

\* A location that is not found, a code or name that cannot be taken.
BadLabel(r) == source[r].label = NoLabel

\* product_archive_check finds an active product with stock.
ActiveWithStock(p) == Usable(p) /\ stock[p] # 0

\* plans: rows a run leaves alone, and rows it reports as blocked.
Skipped(r) ==
  /\ ~BadLabel(r)
  /\ Marked4Deletion(r)
  /\ policy = "skip" \/ (Archiving /\ ~Usable(r))

Blocked(r) ==
  \/ BadLabel(r)
  \/ /\ Marked4Deletion(r)
     /\ policy = "block" \/ (Archiving /\ ActiveWithStock(r))
  \/ source[r].detail = NoPrice

\* _operation_key: digests of the reference and of the content, with the version
\* and the mark under archive_if_zero_stock only.
KeyOf(r) ==
  [ref |-> r, label |-> source[r].label, detail |-> source[r].detail,
   version |-> IF r \in Product /\ Archiving THEN version[r] ELSE NoVersion,
   marked |-> Marked4Deletion(r)]

LocationRequest(r) ==
  [kind |-> "location", key |-> KeyOf(r), id |-> r,
   label |-> source[r].label, detail |-> source[r].detail]

\* The client sends a product that is to be inactive to the archive endpoint.
ProductRequest(r) ==
  IF Archiving /\ Marked4Deletion(r) THEN [kind |-> "archive", key |-> KeyOf(r), id |-> r]
  ELSE [kind |-> "product", key |-> KeyOf(r), id |-> r,
        label |-> source[r].label, detail |-> source[r].detail, active |-> TRUE]

Request(r) == IF r \in Location THEN LocationRequest(r) ELSE ProductRequest(r)

Planned(u) == {r \in Rows(u) : ~Skipped(r) /\ ~Blocked(r)}

\* A price the reader refuses raises while the plans are made: nothing is sent.
\* It reads the price of rows without another reason only.
Raises(r) ==
  /\ source[r].detail = BadPrice
  /\ ~Skipped(r) /\ ~Blocked(r)
Unreadable(u) == \E r \in Rows(u) : Raises(r)

-----------------------------------------------------------------------------
Init ==
  /\ LogInit
  /\ policy \in Policies
  /\ source = [r \in Ref |-> AtFirst[r]]
  /\ version = [r \in Ref |-> 0]
  /\ former = [r \in Ref |-> {}]
  /\ changes = 0
  /\ writer = [r \in Ref |-> NoRequest]
  /\ unit = NoUnit
  /\ plan = {}
  /\ call = NoCall

\* Somebody edits the row in 1C:UNF.
Change(r, c) ==
  /\ changes < MaxChanges
  /\ policy # NoBridge
  /\ c # source[r]
  /\ source' = [source EXCEPT ![r] = c]
  /\ version' = [version EXCEPT ![r] =
       IF [c EXCEPT !.detail = source[r].detail] = source[r] THEN @ ELSE @ + 1]
  /\ former' = [former EXCEPT ![r] = @ \cup {source[r]}]
  /\ changes' = changes + 1
  /\ UNCHANGED <<logVars, policy, writer, bridge>>

\* A timer fires, flock finds the lock free, and all rows are read and planned; a
\* run with nothing to send, or one that raises, changes nothing.
Start(u) ==
  /\ policy # NoBridge
  /\ unit = NoUnit
  /\ ~Unreadable(u)
  /\ Planned(u) # {}
  /\ unit' = u
  /\ plan' = {Request(r) : r \in Planned(u)}
  /\ UNCHANGED <<logVars, policy, unf, writer, call>>

NextRequest == CHOOSE q \in plan : \A other \in plan : q.id <= other.id

Idle == {h \in Handler : pc[h] = "idle"}

Send ==
  /\ plan # {}
  /\ call = NoCall
  /\ Idle # {}
  /\ call' = CHOOSE h \in Idle : TRUE
  /\ Receive(call', NextRequest)
  /\ UNCHANGED <<policy, unf, writer, unit, plan>>

EndRun ==
  /\ unit' = NoUnit
  /\ plan' = {}
  /\ call' = NoCall

Forgotten(h) ==
  /\ pc' = [pc EXCEPT ![h] = "idle"]
  /\ job' = [job EXCEPT ![h] = NoRequest]
  /\ answer' = [answer EXCEPT ![h] = "none"]
  /\ sawRow' = [sawRow EXCEPT ![h] = FALSE]
  /\ sawEntry' = [sawEntry EXCEPT ![h] = NoEntry]
  /\ UNCHANGED <<tables, outside, claims>>

\* raise_for_status.
Good(a) == a # "refused"

\* The answer comes back to the run that waits for it.
Hear(h) ==
  /\ pc[h] = "answered"
  /\ Forgotten(h)
  /\ IF Good(answer[h]) /\ Cardinality(plan) > 1
     THEN /\ plan' = plan \ {job[h]}
          /\ call' = NoCall
          /\ UNCHANGED unit
     ELSE EndRun
  /\ UNCHANGED <<policy, unf, writer>>

\* Nobody waits for the answer any more.
Drop(h) ==
  /\ policy # NoBridge
  /\ pc[h] = "answered"
  /\ call # h
  /\ Forgotten(h)
  /\ UNCHANGED <<policy, unf, writer, bridge>>

\* The client times out or its process dies; the request goes on.
GiveUp ==
  /\ unit # NoUnit
  /\ Spend
  /\ EndRun
  /\ UNCHANGED <<tables, updates, requests, policy, unf, writer>>

-----------------------------------------------------------------------------
DirectRequest(h) == policy = NoBridge /\ \E q \in Direct : Receive(h, q)

\* An import is done: it alone made the entry, if nobody wrote since it was read.
Wrote(h) == pc[h] \in {"write", "archive"} /\ answer'[h] \in {"ok", "repeated"}
Alone(h) == pc[h] = "archive" \/ sawEntry[h] = catalogue[job[h].id]
Credited(h) ==
  writer' = [r \in Ref |->
    IF policy # NoBridge /\ Wrote(h) /\ r = job[h].id
    THEN IF Alone(h) THEN job[h] ELSE NoRequest ELSE writer[r]]

Serve(h) ==
  \/ HandlerStep(h) /\ Credited(h) /\ UNCHANGED <<policy, unf, bridge>>
  \/ Drop(h)

Administrator ==
  \E u \in updates : WriteUpdate(u) /\ writer' = [writer EXCEPT ![u.id] = NoRequest]

Environment ==
  /\ \/ /\ \/ \E h \in Handler : Lose(h) \/ DirectRequest(h)
           \/ \E p \in Product : MoveStock(p) \/ ReadUpdate(p)
        /\ UNCHANGED writer
     \/ Administrator
  /\ UNCHANGED <<policy, unf, bridge>>

BridgeStep == Send \/ (call # NoCall /\ Hear(call))

Next ==
  \/ \E h \in Handler : Serve(h)
  \/ Environment
  \/ \E r \in Ref : \E c \in Cards[r] : Change(r, c)
  \/ \E u \in Units : Start(u)
  \/ BridgeStep \/ GiveUp

Spec == Init /\ [][Next]_vars

\* Requests and runs that live go on; the timer of a unit fires again and again,
\* and now and then when no other unit holds the lock.
FairSpec ==
  /\ Spec
  /\ \A h \in Handler : WF_vars(Serve(h))
  /\ WF_vars(BridgeStep)
  /\ \A u \in Units : SF_vars(Start(u))

-----------------------------------------------------------------------------
\* The entry is what a run would make of the row.
Agrees(r) ==
  IF Marked4Deletion(r) /\ Archiving THEN ~Usable(r)
  ELSE catalogue[r] = [label |-> source[r].label, detail |-> source[r].detail, active |-> TRUE]

\* The endpoint refuses the row: another entry has its label, or the kind differs.
Conflicting(r) ==
  /\ Request(r).kind # "archive"
  /\ Refused(Request(r))

\* The server has completed the request a run would send: it answers "repeated".
Known(r) == [body |-> Request(r), status |-> "completed"] \in log

\* The key is done but another has written the entry since: the row has returned to
\* content it had before, or a request that was given up came late, or an administrator
\* changed the entry.  Without such an intervention only a row that returned is stale.
Stale(r) ==
  /\ Known(r)
  /\ writer[r] # Request(r)
  /\ source[r] \in former[r] \/ spent > 0

\* The run never comes to the row.
CutOff(r) ==
  \/ Unreadable(UnitOf(r))
  \/ \E s \in Planned(UnitOf(r)) : s < r /\ Conflicting(s) /\ ~Known(s)

\* When 1C:UNF stops changing, every listed row is imported in the end, unless the run
\* leaves it out, is refused, never comes to it, or takes its key for done while others
\* have written the entry.
Imported ==
  policy # NoBridge =>
    <>[]\A r \in Listed :
         \/ Agrees(r)
         \/ Skipped(r) \/ Blocked(r)
         \/ Conflicting(r) \/ CutOff(r)
         \/ Stale(r)
=============================================================================
